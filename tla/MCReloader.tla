----------------------------- MODULE MCReloader -----------------------------
(* Instances of Reloader for model checking. *)
EXTENDS Reloader
=============================================================================
