----------------------------- MODULE MCMutation -----------------------------
(* Instances of Mutation for model checking: a tree of four paths; a request    *)
(* of each kind alone, and two that share the gate.                             *)
EXTENDS Mutation

CONSTANTS r1, r2, r3, r4, u1

MCUidOf == [r \in Requests |-> u1]

Only(r, o) == [s \in Requests |-> IF s = r THEN o ELSE "none"]

\* r1 walks and makes trees; r2 reports anything; r3 and r4 stall at the gate.
MCAsks ==
  {Only(r1, "exact"), Only(r1, "tree"), Only(r1, "dirs"), Only(r2, "tree"), Only(r2, "exact"),
   [s \in Requests |-> IF s \in {r3, r4} THEN "exact" ELSE "none"]}

R == <<"r">>
A == <<"r", "a">>
B == <<"r", "a", "b">>
F == <<"r", "f">>

MCTree == {R, A, B, F}

MCChain == <<R, A>>

MCDisks == {{R, A, B, F}, {R, A}, {}}

\* Batches at every index, in and out of scope, repeated, root first, root last and too many.
Anything ==
  {Batch(k, es) : k \in 0 .. 2, es \in {<<Entry(R)>>, <<Entry(A)>>, <<Entry(F), Entry(R)>>,
                                        <<Entry(R), Entry(F)>>,
                                        <<Entry(A), Entry(F), Entry(R)>>}}
  \union {Batch(0, <<[path |-> A, fits |-> FALSE]>>), [Batch(0, <<Entry(A)>>) EXCEPT !.id = FALSE]}
  \union {Batch(0, <<>>), Batch(0, <<Entry(<<"x">>)>>)}
  \union {Finish(k, o) : k \in 0 .. 2, o \in {"Success", "Partial"}}

MCClaimed == [r \in Requests |-> IF r = r2 THEN Anything ELSE {}]
=============================================================================
