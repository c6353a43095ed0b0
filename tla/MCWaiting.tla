----------------------------- MODULE MCWaiting ------------------------------
(***************************************************************************)
(* The page that polls and the calculations over the caches, checked in    *)
(* one run: a behaviour plays one and the other stays as it is initially.  *)
(***************************************************************************)
EXTENDS DocumentScreen, PricingCache

VARIABLE scene \* what a behaviour plays

waiting == <<scene, docVars, cVars>>

Init ==
  /\ scene \in {"document", "cache"}
  /\ DocInit /\ CInit
  /\ scene # "cache" => cApiUp /\ cDbRules = 0

Next ==
  \/ scene = "document" /\ DocNext /\ UNCHANGED <<scene, cVars>>
  \/ scene = "cache" /\ CNext /\ UNCHANGED <<scene, docVars>>

\* Of what stays as it is initially no fair action is enabled.
Spec == Init /\ [][Next]_waiting /\ DocFairness /\ CFairness

=============================================================================
