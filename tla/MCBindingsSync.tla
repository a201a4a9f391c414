--------------------------- MODULE MCBindingsSync ---------------------------
(* An instance of BindingsSync for model checking: two names and the uid of one *)
(* account.                                                                     *)
EXTENDS BindingsSync

CONSTANTS n1, n2, u1, admin, user, adversary

MCUidOf == [n \in Names |-> u1]

Listing(a, b, c) ==
  [kind |-> "present", of |-> [e \in Entries |-> CASE e = n1 -> a [] e = n2 -> b [] OTHER -> c]]

Absent == [kind |-> "absent", of |-> Nobody]

\* n1 bound, contained, both, or bound otherwise; the uid contained; the key gone; and
\* two names for one account, which listed in two roles holds neither.
MCSections ==
  {Missing, Absent, Listing({user}, {}, {}), Listing({admin}, {}, {}),
   Listing({admin, adversary}, {}, {}), Listing({}, {user}, {adversary}),
   Listing({admin}, {user}, {})}
=============================================================================
