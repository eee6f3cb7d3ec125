------------------------------ MODULE MCCustody ------------------------------
(* The instance of Custody for TLC. *)
EXTENDS Custody, TLC

\* Members are interchangeable.
Members == Permutations(Logs)

=============================================================================
