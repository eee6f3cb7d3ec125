------------------------------- MODULE MCDesk -------------------------------
(* Desk with small sets; the documents are interchangeable, and so are the texts that are not blank. *)
EXTENDS Desk, TLC

DocSymmetry == Permutations(Docs)

=============================================================================
