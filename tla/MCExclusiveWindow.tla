-------------------------- MODULE MCExclusiveWindow --------------------------
(* Values of the constants of ExclusiveWindow for TLC. *)
EXTENDS ExclusiveWindow, TLC

CONSTANTS s1, s2

\* A supplier qualifies, or has left the catalogue by the next matching run.
LeavingCatalogue == {{}, {s1}}

\* Suppliers come and go between matching runs, down to none at all.
ShiftingCatalogue == SUBSET Suppliers

\* The one supplier found has left the catalogue by the next matching run,
\* which finds another.
TurnoverCatalogue == {{s1}, {s2}}

Symmetry == Permutations(Workers) \cup Permutations(Suppliers)
=============================================================================
