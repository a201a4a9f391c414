----------------------------- MODULE MCServing ------------------------------
(* Instances of Serving for model checking. *)
EXTENDS Serving

\* Connections are interchangeable: no action compares two of them.
Symmetry == Permutations(Conns)
=============================================================================
