------------------------------ MODULE MCEgress ------------------------------
(* Instances of Egress for model checking. *)
EXTENDS Egress, TLC

\* Prompts are interchangeable: no action compares two of them.
Symmetry == Permutations(Prompts)
=============================================================================
