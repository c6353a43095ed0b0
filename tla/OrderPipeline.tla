---------------------------- MODULE OrderPipeline ----------------------------
(***************************************************************************)
(* What order tracking promises when requests overlap (app/modules/output):*)
(* an order is entered at the first stage of the pipeline, and every later *)
(* event departs from a stage the order has reached and leads to that one  *)
(* or a later one.  An event that departs from a stage the order has left  *)
(* takes the order back, never further than to a stage it could be in.     *)
(***************************************************************************)
EXTENDS Naturals

CONSTANTS
  Orders,
  LastStage     \* index of the last entry of TRACKING_PIPELINE

VARIABLES
  stage,        \* per order, the index of its stage
  history       \* per order, the events of its audit log, a set

pipelineVars == <<stage, history>>

NoStage    == 0   \* tracking_status IS NULL
FirstStage == 1   \* awaiting_payment
Stages     == FirstStage .. LastStage

Init ==
  /\ stage = [o \in Orders |-> NoStage]
  /\ history = [o \in Orders |-> {}]

Log(o, from, to) ==
  history' = [history EXCEPT ![o] = @ \cup {[from |-> from, to |-> to]}]

Reached(o) == {event.to : event \in history[o]}

\* A quotation becomes an order, once for every request that found it was none.
Start(o) ==
  /\ stage' = [stage EXCEPT ![o] = FirstStage]
  /\ Log(o, NoStage, FirstStage)

\* The order moves on from a stage it has reached.
Advance(o, from, next) ==
  /\ from \in Reached(o)
  /\ from < next
  /\ stage' = [stage EXCEPT ![o] = next]
  /\ Log(o, from, next)

\* The order is reported again in a stage it has reached, and stays.
Confirm(o, from) ==
  /\ from \in Reached(o)
  /\ Log(o, from, from)
  /\ UNCHANGED stage

Next ==
  \E o \in Orders :
    \/ Start(o)
    \/ \E from, next \in Stages : Advance(o, from, next)
    \/ \E from \in Stages : Confirm(o, from)

Spec == Init /\ [][Next]_pipelineVars
=============================================================================
