--------------------------- MODULE MCCredentials ---------------------------
(* Instances of Credentials for model checking. *)
EXTENDS Credentials
=============================================================================
