------------------------------ MODULE MCScreens ------------------------------
(***************************************************************************)
(* The screens that keep state of their own and share none with each       *)
(* other, checked in one run: a behaviour plays one of them, and the       *)
(* others stay as they are initially.                                      *)
(***************************************************************************)
EXTENDS ChatView, Notifications, QuoteScreens, PricingCalculator,
        StandaloneCalculator, QuoteBuilder, RequestScreens

CONSTANTS user1, user2, tab1, tab2, tab3, process1, process2

VARIABLE scene \* the screen a behaviour plays

\* Two tabs of one user, and one of another.
TabUsers == tab1 :> user1 @@ tab2 :> user1 @@ tab3 :> user2

\* Worker processes are alike.
Alike == Permutations({process1, process2})

screens == <<scene, chatVars, noteVars, qVars, pVars, sVars, bVars, rVars>>

Init ==
  /\ scene \in {"room", "bell", "quotation", "price", "standalone", "build", "request"}
  /\ ChatInit /\ NotesInit /\ QInit /\ PInit /\ SInit /\ BInit /\ RInit
  /\ scene # "quotation" => qLog[1].status = "draft"
  /\ scene # "price" => pUrl = "none"
  /\ scene # "build" => bReal = 0 /\ bExtracted = [quantity |-> 1, price |-> 0]
  /\ scene # "request" => rAt = "new" /\ ~rCrashes /\ rList = NoEntry

Next ==
  \/ /\ scene = "room" /\ ChatNext
     /\ UNCHANGED <<scene, noteVars, qVars, pVars, sVars, bVars, rVars>>
  \/ /\ scene = "bell" /\ NotesNext
     /\ UNCHANGED <<scene, chatVars, qVars, pVars, sVars, bVars, rVars>>
  \/ /\ scene = "quotation" /\ QNext
     /\ UNCHANGED <<scene, chatVars, noteVars, pVars, sVars, bVars, rVars>>
  \/ /\ scene = "price" /\ PNext
     /\ UNCHANGED <<scene, chatVars, noteVars, qVars, sVars, bVars, rVars>>
  \/ /\ scene = "standalone" /\ SNext
     /\ UNCHANGED <<scene, chatVars, noteVars, qVars, pVars, bVars, rVars>>
  \/ /\ scene = "build" /\ BNext
     /\ UNCHANGED <<scene, chatVars, noteVars, qVars, pVars, sVars, rVars>>
  \/ /\ scene = "request" /\ RNext
     /\ UNCHANGED <<scene, chatVars, noteVars, qVars, pVars, sVars, bVars>>

Spec == Init /\ [][Next]_screens

\* Type invariant: the screen that moves is well typed (the others are as they
\* were initially, which a scene of theirs begins with).
TypeOK ==
  CASE scene = "room" -> ChatTypeOK
    [] scene = "bell" -> NotesTypeOK
    [] scene = "quotation" -> QTypeOK
    [] scene = "price" -> PTypeOK
    [] scene = "standalone" -> STypeOK
    [] scene = "build" -> BTypeOK
    [] scene = "request" -> RTypeOK

=============================================================================
