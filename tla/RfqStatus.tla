------------------------------ MODULE RfqStatus ------------------------------
(***************************************************************************)
(* The status column of an RFQ and the transition table the status         *)
(* endpoint validates against.  Two parts of the system write the column:  *)
(* intake (update_rfq_status) and output (finalize_quotation).             *)
(***************************************************************************)

\* "absent" stands for a row that has not been inserted yet.
RFQStatus == {"open", "processing", "quoted", "closed", "cancelled"}

RFQRowStatus == RFQStatus \cup {"absent"}

\* Mutant of ValidTransitions: a target that is not an RFQ status.
MistypedTransitions ==
  [ open       |-> {"processing", "canceled"},
    processing |-> {"quoted", "closed", "canceled"},
    quoted     |-> {"closed"},
    closed     |-> {},
    cancelled  |-> {} ]

\* The valid_transitions table of update_rfq_status.
ValidTransitions ==
  [ open       |-> {"processing", "cancelled"},
    processing |-> {"quoted", "closed", "cancelled"},
    quoted     |-> {"closed"},
    closed     |-> {},
    cancelled  |-> {} ]

\* Mutant of PreQuoted: an RFQ nobody has marked as processing is left open.
OnlyProcessing(status) == status = "processing"

\* The statuses finalize_quotation advances to "quoted".
PreQuoted(status) == status \in {"open", "processing"}
=============================================================================
