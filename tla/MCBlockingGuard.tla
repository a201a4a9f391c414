--------------------------- MODULE MCBlockingGuard ---------------------------
(* Instances of BlockingGuard for model checking. *)
EXTENDS BlockingGuard
=============================================================================
