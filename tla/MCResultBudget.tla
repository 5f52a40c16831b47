--------------------------- MODULE MCResultBudget ---------------------------
(* Small instances of ResultBudget. *)
EXTENDS ResultBudget

\* Negative, unlimited, smaller and larger than the number of selectors.
MCLimits == -1 .. 8

=============================================================================
