------------------------ MODULE MCQuotationLifecycle -------------------------
(* Values of the constants of QuotationLifecycle for TLC. *)
EXTENDS QuotationLifecycle, TLC

=============================================================================
