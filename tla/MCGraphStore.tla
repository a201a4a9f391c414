---------------------------- MODULE MCGraphStore ----------------------------
(* Small instances of GraphStore for TLC. *)
EXTENDS GraphStore, TLC

\* Baselines are interchangeable, and so are vocabularies: no action tells one from another.
Symmetry == Permutations(Baselines) \union Permutations(Vocabs)
=============================================================================
