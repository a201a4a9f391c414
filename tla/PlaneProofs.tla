----------------------------- MODULE PlaneProofs -----------------------------
(***************************************************************************)
(* The two planes on which a process deals with the outside: Vault, for its *)
(* own credential, and the provider, for the content of a prompt.          *)
(*                                                                         *)
(* The credential, for every lease, lifetime and timeout: nothing is        *)
(* presented long past its end, a due renewal is not starved, and nothing   *)
(* is presented again after it was retired.  The prompt, for every set of   *)
(* prompts, every number of slots and any number of faults: the outcome on  *)
(* the trail is true of the content and the intent is ahead of it.          *)
(***************************************************************************)
EXTENDS Credentials, EgressTrail, TLAPS

\* The egress plane.
Prompting == INSTANCE Egress

-----------------------------------------------------------------------------
(* The credential: the inductive invariants *)

Acting == {"planning", "sleeping", "rotating", "signed", "renewing"}

\* A listener's slot is the client's only while the daemon serves or drains.
SlotInv == proc \in {"login", "sign", "stopped", "waiting", "revoking", "exited"} => slot = "unbound"

\* A supervisor that is gone left no identity, or was aborted, and that only by a
\* daemon that is going; it is there from the mint on.
TaskInv ==
  /\ proc \in {"login", "sign"} => sup = "none" /\ identity = "none"
  /\ proc \in {"startup", "serving"} /\ source = "approle" => sup # "none"
  /\ sup # "none" => source = "approle"
  /\ sup = "gone" => identity = "none" \/ aborted
  /\ aborted => proc \notin {"login", "sign", "startup", "serving"}

\* A renewal is begun at most one timeout after it was due.
PaceInv ==
  /\ sup = "planning" => now <= due
  /\ sup = "sleeping" => now <= wake /\ wake <= due
  /\ sup \in {"rotating", "signed"} => sent <= due /\ sent <= now /\ now <= sent + Http
  /\ sup = "renewing" => sent <= due + Http /\ sent <= now /\ now <= sent + Http

\* The supervisor's estimate is late by the requests that led to it and no more.
TokenInv ==
  /\ proc \in {"login", "sign"} => since <= now /\ now <= since + Http
  /\ proc = "sign" /\ source = "approle" => since + lease <= tok.told + Http
  /\ sup = "spawned" => now + lease <= tok.told + 2 * Http
  /\ sup \in Acting => expires <= tok.told + 2 * Http /\ due <= expires

\* When the leaf ends, if the wall clock is stepped by s seconds in all.
EndOf(s) == leaf.born + leaf.ttl - s

\* What the supervisor plans is over before the leaf is, but for the requests in its way.
LeafInv(s) ==
  /\ proc \in {"login", "sign"} => since <= now /\ now <= since + Http
  /\ MaxSteps * skew <= steps * s /\ (steps = 0 => skew = 0)
  /\ sup # "none" => leaf.ttl \in Ttls /\ leaf.born <= now + skew
  /\ sup \in Acting /\ backoff # NoBackoff => backoff <= EndOf(s)
  /\ sup = "spawned" => now <= EndOf(s) + Http
  /\ sup = "planning" => now <= EndOf(s) + 2 * Http
  /\ sup = "sleeping" => now <= wake /\ wake <= EndOf(s) + 2 * Http
  /\ sup \in {"rotating", "signed"} =>
       sent <= EndOf(s) + 2 * Http /\ sent <= now /\ now <= sent + Http
  /\ sup = "renewing" => sent <= EndOf(s) + Http /\ sent <= now /\ now <= sent + Http
-----------------------------------------------------------------------------
(* The decisions *)

\* token_renew_after: after a second or more, and never past the lease.
LEMMA RenewAfterBounds ==
  ASSUME NEW l \in Nat, l > 0
  PROVE  RenewAfter(l) \in Nat /\ 1 <= RenewAfter(l) /\ RenewAfter(l) <= l
BY DEF RenewAfter, Most

\* The exponential backoff is a second or more.
LEMMA BackoffBounds ==
  ASSUME NEW n \in 0 .. MaxTries
  PROVE  Backoff(n + 1) \in Nat /\ 1 <= Backoff(n + 1)
<1>2. 2 ^ 1 = 2 /\ 2 ^ 2 = 4 /\ 2 ^ 3 = 8 /\ 2 ^ 4 = 16 /\ 2 ^ 5 = 32 /\ 2 ^ 6 = 64
  OBVIOUS
<1>3. n + 1 \in {1, 2, 3, 4, 5, 6, 7}
  BY DEF MaxTries
<1>4. Least(n + 1, 6) \in {1, 2, 3, 4, 5, 6}
  BY <1>3 DEF Least
<1>5. 2 ^ Least(n + 1, 6) \in {2, 4, 8, 16, 32, 64}
  BY <1>2, <1>4, Zenon
<1>6. \A k \in {2, 4, 8, 16, 32, 64} : Least(k, 30) \in Nat /\ 1 <= Least(k, 30)
  BY DEF Least
<1> QED
  BY <1>5, <1>6 DEF Backoff, MaxTries

\* The next wake is not past the renewal and not past the rotation, but for now.
LEMMA NextWakeBounds ==
  ASSUME TypeOK
  PROVE  /\ NextWake \in Nat /\ now <= NextWake
         /\ NextWake <= Most(due, now)
         /\ \A d \in LeafDues : NextWake <= Most(d, now)
<1> DEFINE F == {due} \union LeafDues
           first == CHOOSE d \in F : \A e \in LeafDues : d <= e /\ d <= due
<1>1. /\ now \in Nat /\ due \in Nat /\ backoff \in Nat /\ leaf.born \in Nat /\ leaf.ttl \in Nat
      /\ skew \in Nat
  BY DEF TypeOK
<1>2. LeafAge \in Nat
  BY <1>1 DEF LeafAge, Wall, Most
<1>3. RotateAge \in Nat
  BY <1>1 DEF RotateAge
<1>4. now + Most(RotateAge - LeafAge, 0) \in Nat
  BY <1>1, <1>2, <1>3 DEF Most
<1>5. LeafDues = {} \/ \E d \in Nat : LeafDues = {d}
  BY <1>1, <1>4 DEF LeafDues
<1>6. CASE LeafDues = {}
  <2>1. F = {due}
    BY <1>6
  <2>2. \E d \in F : \A e \in LeafDues : d <= e /\ d <= due
    BY <1>6
  <2>3. first \in F
    BY <2>2
  <2>4. first = due
    BY <2>1, <2>3
  <2> QED
    BY <1>1, <1>6, <2>4 DEF NextWake, Most
<1>7. CASE \E d \in Nat : LeafDues = {d}
  <2>1. PICK d \in Nat : LeafDues = {d}
    BY <1>7
  <2>2. \E x \in F : \A e \in LeafDues : x <= e /\ x <= due
    <3>1. CASE d <= due
      BY <1>1, <2>1, <3>1
    <3>2. CASE ~(d <= due)
      BY <1>1, <2>1, <3>2
    <3> QED
      BY <3>1, <3>2
  <2>3. first \in F /\ \A e \in LeafDues : first <= e /\ first <= due
    BY <2>2
  <2>4. first \in Nat /\ first <= d /\ first <= due
    BY <1>1, <2>1, <2>3
  <2>5. NextWake = Most(first, now)
    BY DEF NextWake
  <2> HIDE DEF first
  <2> QED
    BY <1>1, <2>1, <2>4, <2>5 DEF Most
<1> QED
  BY <1>5, <1>6, <1>7

-----------------------------------------------------------------------------
(* Type correctness *)

LEMMA EndsType ==
  ASSUME Ends
  PROVE  /\ sup' = "gone" /\ sent' \in Nat /\ wake' \in Nat /\ due' \in Nat /\ expires' \in Nat
         /\ tries' \in 0 .. MaxTries /\ leafTries' \in 0 .. MaxTries /\ backoff' \in Nat
BY DEF Ends, NoBackoff, MaxTries

LEMMA ExpireType ==
  ASSUME TypeOK, Expire
  PROVE  /\ sup' = "gone" /\ sent' \in Nat /\ wake' \in Nat /\ due' \in Nat /\ expires' \in Nat
         /\ tries' \in 0 .. MaxTries /\ leafTries' \in 0 .. MaxTries /\ backoff' \in Nat
         /\ identity' = "none" /\ slot' \in {"unbound", "empty", "leaf"}
BY EndsType DEF Expire, TypeOK

LEMMA CountType ==
  ASSUME NEW n \in 0 .. MaxTries
  PROVE  Least(n + 1, MaxTries) \in 0 .. MaxTries
BY DEF Least, MaxTries

LEMMA AfterRotationType ==
  ASSUME TypeOK, AfterRotation
  PROVE  sup' \in {"planning", "renewing"} /\ sent' \in Nat
BY DEF AfterRotation, TypeOK

Token == [issued : BOOLEAN, until : Nat, revoked : BOOLEAN, told : Nat]

\* A lease that is granted, renewed or revoked leaves a token.
LEMMA TokenType ==
  /\ NoToken \in Token
  /\ \A b \in BOOLEAN, u \in Nat, t \in Nat :
       [issued |-> b, until |-> u, revoked |-> FALSE, told |-> t] \in Token
  /\ \A t \in Token, u \in Nat : [t EXCEPT !.until = u, !.told = u] \in Token
  /\ \A t \in Token, u \in Nat : [t EXCEPT !.until = u] \in Token
  /\ \A t \in Token : [t EXCEPT !.revoked = TRUE] \in Token
BY DEF Token, NoToken

LEMMA TypeInit == Init => TypeOK
<1> SUFFICES ASSUME Init PROVE TypeOK
  OBVIOUS
<1>1. tok \in Token /\ aborted \in BOOLEAN
  BY TokenType DEF Init
<1>2. leaf \in [born : Nat, ttl : Nat]
  BY DEF Init, NoLeaf
<1>3. /\ now \in Nat /\ skew \in Nat /\ steps \in 0 .. MaxSteps /\ stepped \in Nat
      /\ lease \in Nat /\ since \in Nat
      /\ sent \in Nat /\ wake \in Nat /\ due \in Nat /\ expires \in Nat
      /\ tries \in 0 .. MaxTries /\ leafTries \in 0 .. MaxTries /\ backoff \in Nat
  BY CredentialsAssumption DEF Init, NoBackoff, MaxTries
<1>4. /\ source \in {"approle", "user"} /\ identity = "none" /\ slot = "unbound"
      /\ proc = "login" /\ sup = "none"
  BY DEF Init
<1> QED
  BY <1>1, <1>2, <1>3, <1>4 DEF TypeOK, Token

\* What the steps of the process leave as its type says.
LEMMA TypeProcess ==
  ASSUME TypeOK,
         Login \/ LoginFails \/ Mint \/ MintFails \/ Attach \/ Serve \/ StartupFails \/ Signal
           \/ SupervisorExited \/ Reap \/ Drained \/ Retire \/ TakeClient \/ SkipRevoke
           \/ Revoke \/ RevokeFails
  PROVE  TypeOK'
<1> USE CredentialsAssumption
<1>1. CASE Login
  <2>1. since \in Nat /\ now \in Nat /\ lease \in Nat
    BY DEF TypeOK
  <2>2. tok' \in Token /\ lease' \in Nat
    <3>1. CASE \E l \in Leases, p \in since .. now :
                 /\ tok' = [issued |-> TRUE, until |-> p + l, revoked |-> FALSE, told |-> p + l]
                 /\ lease' = l
      <4>1. PICK l \in Leases, p \in since .. now :
              /\ tok' = [issued |-> TRUE, until |-> p + l, revoked |-> FALSE, told |-> p + l]
              /\ lease' = l
        BY <3>1
      <4>2. l \in Nat /\ p + l \in Nat
        BY <2>1
      <4> QED
        BY <4>1, <4>2, TokenType
    <3>2. CASE /\ \E l \in Leases :
                    tok' = [issued |-> FALSE, until |-> now + l, revoked |-> FALSE, told |-> 0]
               /\ UNCHANGED lease
      <4>1. PICK l \in Leases :
              tok' = [issued |-> FALSE, until |-> now + l, revoked |-> FALSE, told |-> 0]
        BY <3>2
      <4>2. now + l \in Nat
        BY <2>1
      <4> QED
        BY <2>1, <3>2, <4>1, <4>2, TokenType
    <3> QED
      BY <1>1, <3>1, <3>2 DEF Login
  <2> QED
    BY <1>1, <2>1, <2>2 DEF Login, TypeOK, Token, clocks, plan
<1>2. CASE LoginFails
  BY <1>2 DEF LoginFails, TypeOK, clocks, vault, held, plan
<1>3. CASE Mint
  BY <1>3 DEF Mint, TypeOK, clocks, vault, plan
<1>4. CASE MintFails
  BY <1>4 DEF MintFails, TypeOK, clocks, vault, held, plan
<1>5. CASE Attach
  BY <1>5 DEF Attach, TypeOK, clocks, vault, daemon, plan
<1>6. CASE Serve
  BY <1>6 DEF Serve, TypeOK, clocks, vault, held, plan
<1>7. CASE StartupFails
  BY <1>7 DEF StartupFails, DropListener, TypeOK, clocks, vault, plan
<1>8. CASE Signal
  BY <1>8 DEF Signal, TypeOK, clocks, vault, held, plan
<1>9. CASE SupervisorExited
  BY <1>9 DEF SupervisorExited, TypeOK, clocks, vault, held, plan
<1>10. CASE Reap
  BY <1>10 DEF Reap, TypeOK, clocks, vault, held, plan
<1>11. CASE Drained
  BY <1>11 DEF Drained, DropListener, TypeOK, clocks, vault, plan
<1>12. CASE Retire
  BY <1>12 DEF Retire, TypeOK, clocks, vault, plan
<1>13. CASE TakeClient
  BY <1>13 DEF TakeClient, TypeOK, clocks, vault, held, plan
<1>14. CASE SkipRevoke
  BY <1>14 DEF SkipRevoke, TypeOK, clocks, vault, held, plan
<1>15. CASE Revoke
  BY <1>15 DEF Revoke, TypeOK, clocks, held, plan
<1>16. CASE RevokeFails
  BY <1>16 DEF RevokeFails, TypeOK, clocks, vault, held, plan
<1> QED
  BY <1>1, <1>2, <1>3, <1>4, <1>5, <1>6, <1>7, <1>8, <1>9, <1>10, <1>11, <1>12, <1>13, <1>14,
     <1>15, <1>16

\* What the steps of the supervisor leave as its type says.
LEMMA TypeSupervisor ==
  ASSUME TypeOK,
         Begin \/ Sleep \/ Wake \/ Signed \/ InstallLeaf \/ RotateFails \/ Renewed \/ RenewFails
           \/ Dropped
  PROVE  TypeOK'
<1> USE CredentialsAssumption
<1>1. CASE Begin
  <2>1. CASE lease = 0 /\ Expire
    BY <1>1, <2>1, ExpireType DEF Begin, TypeOK, clocks, vault, daemon
  <2>2. CASE ~(lease = 0 /\ Expire)
    <3>1. lease \in Nat /\ lease > 0
      BY <1>1, <2>2 DEF Begin, TypeOK
    <3> QED
      BY <1>1, <2>2, <3>1, RenewAfterBounds
      DEF Begin, TypeOK, clocks, vault, daemon, NoBackoff, MaxTries
  <2> QED
    BY <2>1, <2>2
<1>2. CASE Sleep
  BY <1>2, NextWakeBounds DEF Sleep, TypeOK, clocks, vault, held, daemon
<1>3. CASE Wake
  BY <1>3, AfterRotationType DEF Wake, TypeOK, clocks, vault, held, daemon, plan
<1>4. CASE Signed
  BY <1>4 DEF Signed, TypeOK, clocks, vault, held, daemon, plan
<1>5. CASE InstallLeaf
  <2>1. leaf' \in [born : Nat, ttl : Nat]
    <3>1. sent \in Nat /\ now \in Nat /\ skew \in Nat
      BY DEF TypeOK
    <3> QED
      BY <1>5, <3>1 DEF InstallLeaf
  <2>2. AfterRotation
    BY <1>5 DEF InstallLeaf
  <2> QED
    BY <1>5, <2>1, <2>2, AfterRotationType
    DEF InstallLeaf, TypeOK, clocks, vault, daemon, NoBackoff, MaxTries
<1>6. CASE RotateFails
  <2>1. CASE Expire
    BY <1>6, <2>1, ExpireType DEF RotateFails, TypeOK, clocks, vault, daemon
  <2>2. CASE ~Expire
    <3>1. leafTries \in 0 .. MaxTries /\ now \in Nat
      BY DEF TypeOK
    <3>2. leafTries' \in 0 .. MaxTries /\ backoff' \in Nat
      BY <1>6, <2>2, <3>1, CountType, BackoffBounds DEF RotateFails
    <3>3. AfterRotation
      BY <1>6, <2>2 DEF RotateFails
    <3> QED
      BY <1>6, <2>2, <3>2, <3>3, AfterRotationType DEF RotateFails, TypeOK, clocks, vault, daemon
  <2> QED
    BY <2>1, <2>2
<1>7. CASE Renewed
  <2>1. PICK l \in Leases, p \in sent .. now :
          /\ tok' = [tok EXCEPT !.until = p + l, !.told = p + l]
          /\ IF l = 0 THEN Expire
             ELSE /\ tries' = 0
                  /\ due' = now + RenewAfter(l)
                  /\ expires' = now + l
                  /\ sup' = "planning"
                  /\ UNCHANGED <<identity, slot, sent, wake, backoff, leafTries>>
    BY <1>7 DEF Renewed
  <2>2. l \in Nat /\ p \in Nat
    BY <2>1 DEF TypeOK
  <2>3. tok' \in Token
    <3>1. p + l \in Nat /\ tok \in Token
      BY <2>2 DEF TypeOK, Token
    <3> QED
      BY <2>1, <3>1, TokenType
  <2>4. CASE l = 0
    BY <1>7, <2>1, <2>3, <2>4, ExpireType DEF Renewed, TypeOK, Token, clocks, daemon
  <2>5. CASE l # 0
    <3>1. RenewAfter(l) \in Nat /\ now \in Nat
      BY <2>2, <2>5, RenewAfterBounds DEF TypeOK
    <3>2. /\ tries' = 0 /\ due' = now + RenewAfter(l) /\ expires' = now + l /\ sup' = "planning"
          /\ UNCHANGED <<identity, slot, sent, wake, backoff, leafTries>>
      BY <2>1, <2>5
    <3>3. due' \in Nat /\ expires' \in Nat /\ tries' \in 0 .. MaxTries
      BY <2>2, <3>1, <3>2 DEF MaxTries
    <3>4. UNCHANGED <<now, skew, steps, stepped, source, lease, leaf, proc, since, aborted>>
      BY <1>7 DEF Renewed, clocks, daemon
    <3> QED
      BY <2>3, <3>2, <3>3, <3>4 DEF TypeOK, Token
  <2> QED
    BY <2>4, <2>5
<1>8. CASE RenewFails
  <2>1. tok' \in [issued : BOOLEAN, until : Nat, revoked : BOOLEAN, told : Nat]
    <3>1. CASE UNCHANGED tok
      BY <3>1 DEF TypeOK
    <3>2. CASE \E l \in Leases, p \in sent .. now : tok' = [tok EXCEPT !.until = p + l]
      BY <3>2 DEF TypeOK
    <3> QED
      BY <1>8, <3>1, <3>2 DEF RenewFails
  <2>2. CASE Expire
    BY <1>8, <2>1, <2>2, ExpireType DEF RenewFails, TypeOK, clocks, daemon
  <2>3. CASE ~Expire
    <3>1. tries \in 0 .. MaxTries /\ now \in Nat
      BY DEF TypeOK
    <3>2. tries' \in 0 .. MaxTries /\ due' \in Nat
      BY <1>8, <2>3, <3>1, CountType, BackoffBounds DEF RenewFails
    <3> QED
      BY <1>8, <2>1, <2>3, <3>2 DEF RenewFails, TypeOK, clocks, daemon
  <2> QED
    BY <2>2, <2>3
<1>9. CASE Dropped
  BY <1>9, EndsType DEF Dropped, TypeOK, clocks, vault, held, daemon
<1> QED
  BY <1>1, <1>2, <1>3, <1>4, <1>5, <1>6, <1>7, <1>8, <1>9

LEMMA TypeClocks ==
  ASSUME TypeOK, Tick \/ StepWall \/ UNCHANGED vars
  PROVE  TypeOK'
<1> USE CredentialsAssumption
<1>1. CASE Tick
  BY <1>1 DEF Tick, TypeOK, vault, held, daemon, plan
<1>2. CASE StepWall
  BY <1>2 DEF StepWall, TypeOK, vault, held, daemon, plan
<1>3. CASE UNCHANGED vars
  BY <1>3 DEF vars, TypeOK
<1> QED
  BY <1>1, <1>2, <1>3

\* Every step is the process's, the supervisor's or the clocks'.
LEMMA Steppers ==
  ASSUME [Next]_vars
  PROVE  \/ Login \/ LoginFails \/ Mint \/ MintFails \/ Attach \/ Serve \/ StartupFails \/ Signal
           \/ SupervisorExited \/ Reap \/ Drained \/ Retire \/ TakeClient \/ SkipRevoke
           \/ Revoke \/ RevokeFails
         \/ Begin \/ Sleep \/ Wake \/ Signed \/ InstallLeaf \/ RotateFails \/ Renewed \/ RenewFails
           \/ Dropped
         \/ Tick \/ StepWall \/ UNCHANGED vars
BY DEF Next

LEMMA TypeNext == TypeOK /\ [Next]_vars => TypeOK'
BY Steppers, TypeProcess, TypeSupervisor, TypeClocks

\* The credential's state is well formed, for every lease, lifetime, timeout and bound.
THEOREM TypeCorrect == Spec => []TypeOK
BY TypeInit, TypeNext, PTL DEF Spec
-----------------------------------------------------------------------------
(* Retirement *)

LEMMA SlotNext == SlotInv /\ [Next]_vars => SlotInv'
<1> SUFFICES ASSUME SlotInv, [Next]_vars PROVE SlotInv'
  OBVIOUS
<1>1. CASE Login \/ LoginFails \/ Mint \/ MintFails \/ Serve \/ SupervisorExited \/ Reap
             \/ TakeClient \/ SkipRevoke \/ Revoke \/ RevokeFails
  BY <1>1 DEF SlotInv, Login, LoginFails, Mint, MintFails, Serve, SupervisorExited, Reap,
              TakeClient, SkipRevoke, Revoke, RevokeFails, held
<1>2. CASE Attach \/ StartupFails \/ Drained \/ Signal \/ Retire
  BY <1>2 DEF SlotInv, Attach, StartupFails, Drained, Signal, Retire, DropListener, held, daemon
<1>3. CASE Sleep \/ Wake \/ Signed \/ Dropped \/ Tick \/ StepWall \/ UNCHANGED vars
  BY <1>3 DEF SlotInv, Sleep, Wake, Signed, Dropped, Tick, StepWall, held, daemon, vars
<1>4. CASE Begin \/ InstallLeaf \/ RotateFails \/ Renewed \/ RenewFails
  <2>1. (slot = "unbound" => slot' = "unbound") /\ UNCHANGED proc
    BY <1>4 DEF Begin, InstallLeaf, RotateFails, Renewed, RenewFails, Expire, daemon
  <2> QED
    BY <2>1 DEF SlotInv
<1> QED
  BY <1>1, <1>2, <1>3, <1>4, Steppers

\* No listener presents a leaf after the credential was retired, however late a
\* rotation commits (PlaneClient::shutdown, CertSinkGuard, rotate_leaf).
THEOREM RetirementAlwaysFinal == Spec => []RetirementIsFinal
<1>1. Init => SlotInv
  BY DEF Init, SlotInv
<1>2. SlotInv => RetirementIsFinal
  BY DEF SlotInv, RetirementIsFinal
<1> QED
  BY <1>1, <1>2, SlotNext, PTL DEF Spec

-----------------------------------------------------------------------------
(* The supervisor's task *)

\* Steps that leave the supervisor, its deadlines and the credential it has in mind alone.
Aside ==
  /\ UNCHANGED <<now, skew, steps, stepped, source, lease, leaf, sup, sent, wake, due, expires,
                 backoff>>
  /\ tok'.told = tok.told
  /\ UNCHANGED <<proc, since>> \/ proc' \notin {"login", "sign"}

LEMMA StepsAside ==
  ASSUME TypeOK,
         LoginFails \/ MintFails \/ Attach \/ Serve \/ StartupFails \/ Signal
           \/ SupervisorExited \/ Reap \/ Drained \/ Retire \/ TakeClient \/ SkipRevoke
           \/ Revoke \/ RevokeFails \/ UNCHANGED vars
  PROVE  Aside
<1>1. CASE LoginFails \/ MintFails \/ Attach \/ Serve \/ StartupFails
  BY <1>1 DEF LoginFails, MintFails, Attach, Serve, StartupFails, Aside, clocks, vault, held,
              daemon, plan
<1>2. CASE Signal \/ SupervisorExited \/ Reap \/ Drained \/ Retire
  BY <1>2 DEF Signal, SupervisorExited, Reap, Drained, Retire, Aside, clocks, vault, held, plan
<1>3. CASE TakeClient \/ SkipRevoke \/ RevokeFails
  BY <1>3 DEF TakeClient, SkipRevoke, RevokeFails, Aside, clocks, vault, held, plan
<1>4. CASE Revoke
  <2>1. tok'.told = tok.told
    BY <1>4 DEF Revoke, TypeOK
  <2> QED
    BY <1>4, <2>1 DEF Revoke, Aside, clocks, held, plan
<1>5. CASE UNCHANGED vars
  BY <1>5 DEF vars, Aside
<1> QED
  BY <1>1, <1>2, <1>3, <1>4, <1>5

LEMMA TaskNext == TaskInv /\ [Next]_vars => TaskInv'
<1> SUFFICES ASSUME TaskInv, [Next]_vars PROVE TaskInv'
  OBVIOUS
<1>1. CASE Login \/ LoginFails \/ Mint \/ MintFails
  BY <1>1 DEF TaskInv, Login, LoginFails, Mint, MintFails, vault, held
<1>2. CASE Attach \/ Serve \/ StartupFails \/ Signal \/ SupervisorExited \/ Reap
  BY <1>2 DEF TaskInv, Attach, Serve, StartupFails, Signal, SupervisorExited, Reap, vault, held,
              daemon
<1>3. CASE Drained \/ Retire \/ TakeClient \/ SkipRevoke \/ Revoke \/ RevokeFails
  BY <1>3 DEF TaskInv, Drained, Retire, TakeClient, SkipRevoke, Revoke, RevokeFails, vault, held
<1>4. CASE Begin \/ RotateFails \/ Renewed \/ RenewFails \/ Dropped
  <2>1. /\ UNCHANGED <<proc, source, aborted>> /\ sup # "none" /\ sup' # "none"
        /\ identity' = identity \/ identity' = "none"
        /\ sup' = "gone" => identity' = "none" \/ aborted
    BY <1>4 DEF Begin, RotateFails, Renewed, RenewFails, Dropped, Expire, Ends, AfterRotation,
                vault, daemon, held
  <2> QED
    BY <2>1 DEF TaskInv
<1>5. CASE Sleep \/ Wake \/ Signed \/ InstallLeaf
  <2>1. UNCHANGED <<proc, source, aborted>> /\ sup # "none" /\ sup' \in Acting
    BY <1>5 DEF Sleep, Wake, Signed, InstallLeaf, AfterRotation, Acting, vault, daemon
  <2>2. proc \notin {"login", "sign"}
    BY <2>1 DEF TaskInv
  <2> QED
    BY <2>1, <2>2 DEF TaskInv, Acting
<1>6. CASE Tick \/ StepWall \/ UNCHANGED vars
  BY <1>6 DEF TaskInv, Tick, StepWall, vault, held, daemon, vars
<1> QED
  BY <1>1, <1>2, <1>3, <1>4, <1>5, <1>6, Steppers

LEMMA TaskAlways == Spec => [](TypeOK /\ TaskInv)
<1>1. Init => TaskInv
  BY DEF Init, TaskInv
<1> QED
  BY <1>1, TypeInit, TypeNext, TaskNext, PTL DEF Spec
-----------------------------------------------------------------------------
(* The renewal *)

\* What a failed renewal that is tried again leaves: the next try is ahead, and in time.
LEMMA RetryInTime ==
  ASSUME TypeOK, RenewFails, sup' # "gone"
  PROVE  /\ sup' = "planning" /\ due' \in Nat /\ now <= due' /\ due' <= expires
         /\ UNCHANGED <<now, expires>>
<1>1. now \in Nat /\ expires \in Nat /\ tries \in 0 .. MaxTries
  BY DEF TypeOK
<1>2. /\ ~GivesUp(Most(expires - now, 0), tries + 1)
      /\ due' = now + Backoff(tries + 1) /\ sup' = "planning" /\ UNCHANGED <<now, expires>>
  BY DEF RenewFails, Expire, Ends, clocks
<1>3. Backoff(tries + 1) \in Nat /\ 1 <= Backoff(tries + 1)
  BY <1>1, BackoffBounds
<1> QED
  BY <1>1, <1>2, <1>3 DEF GivesUp, Headroom, Most

\* What a renewal leaves: the estimate is late by the answer and no more.
LEMMA RenewedInTime ==
  ASSUME TypeOK, Renewed, sup' # "gone"
  PROVE  /\ sup' = "planning" /\ due' \in Nat /\ expires' \in Nat /\ tok'.told \in Nat
         /\ now <= due' /\ due' <= expires' /\ expires' <= tok'.told + (now - sent)
         /\ UNCHANGED now
<1>1. now \in Nat /\ sent \in Nat
  BY DEF TypeOK
<1>2. PICK l \in Leases, p \in sent .. now :
        /\ tok' = [tok EXCEPT !.until = p + l, !.told = p + l]
        /\ l # 0 /\ due' = now + RenewAfter(l) /\ expires' = now + l /\ sup' = "planning"
  BY DEF Renewed, Expire, Ends
<1>3. l \in Nat /\ l > 0 /\ p \in Nat
  BY <1>1, <1>2, CredentialsAssumption
<1>4. tok'.told = p + l
  BY <1>2 DEF TypeOK
<1>5. RenewAfter(l) \in Nat /\ 1 <= RenewAfter(l) /\ RenewAfter(l) <= l
  BY <1>3, RenewAfterBounds
<1>6. UNCHANGED now
  BY DEF Renewed, clocks
<1> QED
  BY <1>1, <1>2, <1>3, <1>4, <1>5, <1>6

\* What the loop leaves when it begins.
LEMMA BegunInTime ==
  ASSUME TypeOK, Begin, sup' # "gone"
  PROVE  /\ sup' = "planning" /\ due' \in Nat /\ expires' = now + lease
         /\ now <= due' /\ due' <= expires' /\ UNCHANGED <<now, tok>>
<1>1. now \in Nat /\ lease \in Nat
  BY DEF TypeOK
<1>2. /\ lease > 0 /\ due' = now + RenewAfter(lease) /\ expires' = now + lease
      /\ sup' = "planning" /\ UNCHANGED <<now, tok>>
  BY DEF Begin, Expire, Ends, clocks, vault
<1>3. /\ RenewAfter(lease) \in Nat /\ 1 <= RenewAfter(lease) /\ RenewAfter(lease) <= lease
  BY <1>1, <1>2, RenewAfterBounds
<1> QED
  BY <1>1, <1>2, <1>3

LEMMA PaceNext == TypeOK /\ TaskInv /\ PaceInv /\ [Next]_vars => PaceInv'
<1> SUFFICES ASSUME TypeOK, TaskInv, PaceInv, [Next]_vars PROVE PaceInv'
  OBVIOUS
<1>0. /\ now \in Nat /\ sent \in Nat /\ due \in Nat /\ wake \in Nat
      /\ Http \in Nat /\ Http > 0
  BY CredentialsAssumption DEF TypeOK
<1>1. CASE Aside
  BY <1>1 DEF Aside, PaceInv
<1>2. CASE Login \/ Mint
  <2>1. sup' \in {"none", "spawned"}
    BY <1>2 DEF Login, Mint, TaskInv
  <2> QED
    BY <2>1 DEF PaceInv
<1>3. CASE sup' = "gone"
  BY <1>3 DEF PaceInv
<1>4. CASE (Begin \/ Renewed \/ RenewFails) /\ sup' # "gone"
  <2>1. sup' = "planning" /\ now' <= due'
    BY <1>4, BegunInTime, RenewedInTime, RetryInTime
  <2> QED
    BY <2>1 DEF PaceInv
<1>5. CASE Sleep
  <2>1. now <= due
    BY <1>5 DEF Sleep, PaceInv
  <2>2. wake' \in Nat /\ now <= wake' /\ wake' <= due
    BY <1>0, <1>5, <2>1, NextWakeBounds DEF Sleep, Most
  <2> QED
    BY <1>5, <2>2 DEF Sleep, PaceInv, clocks
<1>6. CASE Wake
  <2>1. now <= due /\ UNCHANGED <<now, due>>
    BY <1>0, <1>6 DEF Wake, PaceInv, clocks, plan
  <2>2. \/ sup' = "rotating" /\ sent' = now
        \/ sup' = "renewing" /\ sent' = now
        \/ sup' = "planning"
    BY <1>6 DEF Wake, AfterRotation
  <2> QED
    BY <1>0, <2>1, <2>2 DEF PaceInv
<1>7. CASE Signed
  BY <1>7 DEF Signed, PaceInv, clocks, plan
<1>8. CASE (InstallLeaf \/ RotateFails) /\ sup' # "gone"
  <2>1. UNCHANGED <<now, due>> /\ AfterRotation
    BY <1>8 DEF InstallLeaf, RotateFails, Expire, Ends, clocks
  <2>2. now <= due + Http
    BY <1>0, <1>8 DEF InstallLeaf, RotateFails, PaceInv
  <2>3. \/ sup' = "renewing" /\ sent' = now
        \/ sup' = "planning" /\ now < due
    BY <1>0, <2>1 DEF AfterRotation
  <2> QED
    BY <1>0, <2>1, <2>2, <2>3 DEF PaceInv
<1>9. CASE Tick
  <2>1. /\ now' = now + 1 /\ UNCHANGED <<sup, sent, wake, due>>
        /\ sup \notin {"planning", "signed"}
        /\ sup = "sleeping" => ~(now >= wake)
        /\ sup \in {"rotating", "renewing"} => ~(now >= sent + Http)
    BY <1>9 DEF Tick, Urgent, plan
  <2> QED
    BY <1>0, <2>1 DEF PaceInv
<1>10. CASE StepWall
  BY <1>10 DEF StepWall, PaceInv, plan
<1>11. CASE Dropped
  BY <1>3, <1>11 DEF Dropped, Ends
<1> QED
  BY <1>1, <1>2, <1>3, <1>4, <1>5, <1>6, <1>7, <1>8, <1>9, <1>10, <1>11, Steppers, StepsAside

LEMMA PaceAlways == Spec => [](TypeOK /\ TaskInv /\ PaceInv)
<1>1. Init => PaceInv
  BY DEF Init, PaceInv
<1> QED
  BY <1>1, TaskAlways, PaceNext, PTL DEF Spec

\* A failing rotation never starves the renewal: a due one is tried within one
\* Vault timeout, for every lease, lifetime and timeout (supervisor_loop).
THEOREM RenewalNeverStarved == Spec => []RenewalNotStarved
<1>1. TypeOK /\ PaceInv => RenewalNotStarved
  <2> SUFFICES ASSUME TypeOK, PaceInv PROVE RenewalNotStarved
    OBVIOUS
  <2>1. now \in Nat /\ sent \in Nat /\ due \in Nat /\ wake \in Nat /\ Http \in Nat
    BY CredentialsAssumption DEF TypeOK
  <2> QED
    BY <2>1 DEF PaceInv, RenewalNotStarved
<1> QED
  BY <1>1, PaceAlways, PTL

-----------------------------------------------------------------------------
(* The token *)

LEMMA TokenNext == TypeOK /\ TaskInv /\ PaceInv /\ TokenInv /\ [Next]_vars => TokenInv'
<1> SUFFICES ASSUME TypeOK, TaskInv, PaceInv, TokenInv, [Next]_vars PROVE TokenInv'
  OBVIOUS
<1>0. /\ now \in Nat /\ since \in Nat /\ lease \in Nat /\ due \in Nat /\ expires \in Nat
      /\ sent \in Nat /\ tok.told \in Nat /\ Http \in Nat /\ Http > 0
  BY CredentialsAssumption DEF TypeOK
<1>1. CASE Aside
  BY <1>1 DEF Aside, TokenInv
<1>2. CASE Login
  <2>1. now <= since + Http /\ sup = "none"
    BY <1>2 DEF Login, TokenInv, TaskInv
  <2>2. UNCHANGED <<now, source, sup>> /\ since' = now /\ proc' = "sign"
    BY <1>2 DEF Login, clocks
  <2>3. source = "approle" => now + lease' <= tok'.told + Http
    <3> HAVE source = "approle"
    <3>1. PICK l \in Leases, p \in since .. now :
            /\ tok' = [issued |-> TRUE, until |-> p + l, revoked |-> FALSE, told |-> p + l]
            /\ lease' = l
      BY <1>2 DEF Login
    <3>2. l \in Nat /\ tok'.told = p + l
      BY <3>1, CredentialsAssumption
    <3> QED
      BY <1>0, <2>1, <3>1, <3>2
  <2> QED
    BY <1>0, <2>1, <2>2, <2>3 DEF TokenInv, Acting
<1>3. CASE Mint
  <2>1. /\ source = "approle" => since + lease <= tok.told + Http
        /\ now <= since + Http /\ sup = "none"
    BY <1>3 DEF Mint, TokenInv, TaskInv
  <2>2. /\ UNCHANGED <<now, lease, tok, source>> /\ proc' \notin {"login", "sign"}
        /\ (source = "approle" /\ sup' = "spawned") \/ sup' = "none"
    BY <1>3, <2>1 DEF Mint, clocks, vault
  <2> QED
    BY <1>0, <2>1, <2>2 DEF TokenInv, Acting
<1>4. CASE sup' = "gone" /\ UNCHANGED proc /\ sup # "none"
  BY <1>4 DEF TokenInv, TaskInv, Acting
<1>5. CASE Begin /\ sup' # "gone"
  <2>1. UNCHANGED proc /\ proc \notin {"login", "sign"} /\ now + lease <= tok.told + 2 * Http
    BY <1>5 DEF Begin, daemon, TaskInv, TokenInv
  <2>2. sup' = "planning" /\ expires' = now + lease /\ due' <= expires' /\ UNCHANGED tok
    BY <1>5, BegunInTime
  <2> QED
    BY <1>0, <2>1, <2>2 DEF TokenInv, Acting
<1>6. CASE Renewed /\ sup' # "gone"
  <2>1. UNCHANGED proc /\ proc \notin {"login", "sign"} /\ now <= sent + Http
    BY <1>6 DEF Renewed, daemon, TaskInv, PaceInv
  <2>2. /\ sup' = "planning" /\ expires' <= tok'.told + (now - sent) /\ due' <= expires'
        /\ tok'.told \in Nat /\ expires' \in Nat
    BY <1>6, RenewedInTime
  <2>3. expires' <= tok'.told + 2 * Http
    BY <1>0, <2>1, <2>2
  <2> QED
    BY <2>1, <2>2, <2>3 DEF TokenInv, Acting
<1>7. CASE RenewFails /\ sup' # "gone"
  <2>1. UNCHANGED proc /\ proc \notin {"login", "sign"} /\ expires <= tok.told + 2 * Http
    BY <1>7 DEF RenewFails, daemon, TaskInv, TokenInv, Acting
  <2>2. sup' = "planning" /\ due' <= expires' /\ UNCHANGED expires
    BY <1>7, RetryInTime
  <2>3. tok'.told = tok.told
    BY <1>7 DEF RenewFails, TypeOK
  <2> QED
    BY <1>0, <2>1, <2>2, <2>3 DEF TokenInv, Acting
<1>8. CASE (Sleep \/ Wake \/ Signed \/ InstallLeaf \/ RotateFails) /\ sup' # "gone"
  <2>1. /\ UNCHANGED <<proc, tok, due, expires>> /\ sup' \in Acting /\ sup \in Acting
        /\ proc \notin {"login", "sign"}
    BY <1>8 DEF Sleep, Wake, Signed, InstallLeaf, RotateFails, AfterRotation, Expire, Ends, daemon,
                vault, plan, TaskInv, Acting
  <2> QED
    BY <2>1 DEF TokenInv, Acting
<1>9. CASE Tick
  <2>1. /\ now' = now + 1 /\ UNCHANGED <<proc, since, sup, tok, lease, due, expires, source>>
        /\ proc \in {"login", "sign"} => ~(now >= since + Http)
        /\ sup # "spawned"
    BY <1>9 DEF Tick, Urgent, vault, held, daemon, plan
  <2> QED
    BY <1>0, <2>1 DEF TokenInv
<1>10. CASE StepWall
  BY <1>10 DEF StepWall, TokenInv, vault, held, daemon, plan
<1>11. CASE Dropped \/ RotateFails \/ Begin \/ Renewed \/ RenewFails
  BY <1>4, <1>5, <1>6, <1>7, <1>8, <1>11 DEF Dropped, Ends, RotateFails, Begin, Renewed, RenewFails,
                                         held, daemon
<1>12. CASE Sleep \/ Wake \/ Signed \/ InstallLeaf
  BY <1>8, <1>12 DEF Sleep, Wake, Signed, InstallLeaf, AfterRotation
<1> QED
  BY <1>1, <1>2, <1>3, <1>9, <1>10, <1>11, <1>12, Steppers, StepsAside

\* Whatever Vault refuses, delays or loses, a daemon does not keep its identity
\* longer than four Vault timeouts past the end of the last lease it was told,
\* for every lease, lifetime and timeout (supervisor_loop, expire_now).
THEOREM TokenAlwaysInTime == Spec => []TokenInTime
<1>1. Init => TokenInv
  BY CredentialsAssumption DEF Init, TokenInv, Acting
<1>2. TypeOK /\ TaskInv /\ PaceInv /\ TokenInv => TokenInTime
  <2> SUFFICES ASSUME TypeOK, TaskInv, PaceInv, TokenInv, Supervised
               PROVE  now <= tok.told + 4 * Http
    BY DEF TokenInTime
  <2>0. /\ now \in Nat /\ lease \in Nat /\ due \in Nat /\ expires \in Nat /\ wake \in Nat
        /\ sent \in Nat /\ tok.told \in Nat /\ Http \in Nat /\ Http > 0
    BY CredentialsAssumption DEF TypeOK
  <2>1. sup \in {"spawned"} \union Acting
    BY DEF Supervised, TaskInv, TypeOK, Acting
  <2>2. CASE sup = "spawned"
    BY <2>0, <2>2 DEF TokenInv
  <2>3. CASE sup \in Acting
    <3>1. now <= due + 2 * Http
      BY <2>0, <2>3 DEF PaceInv, Acting
    <3> QED
      BY <2>0, <2>3, <3>1 DEF TokenInv
  <2> QED
    BY <2>1, <2>2, <2>3
<1> QED
  BY <1>1, <1>2, PaceAlways, TokenNext, PTL DEF Spec
-----------------------------------------------------------------------------
(* The leaf *)

\* The seconds the wall clock is stepped by, all in all, and how little they are.
SmallSteps(s) ==
  /\ s \in 0 .. Headroom + 1
  /\ \A x \in Steps : MaxSteps * x <= s
  /\ \A t \in Ttls : s <= t \div 3

LEMMA SkewBound ==
  ASSUME NEW s, SmallSteps(s), TypeOK, LeafInv(s)
  PROVE  skew <= s
<1>1. skew \in Nat /\ steps \in 0 .. MaxSteps /\ MaxSteps \in Nat /\ s \in {0, 1, 2, 3}
  BY CredentialsAssumption DEF TypeOK, SmallSteps, Headroom
<1>2. MaxSteps * skew <= steps * s /\ (steps = 0 => skew = 0)
  BY DEF LeafInv
<1>3. CASE MaxSteps = 0
  BY <1>1, <1>2, <1>3
<1>4. CASE MaxSteps > 0
  <2>1. steps * s <= MaxSteps * s
    BY <1>1
  <2>2. MaxSteps * skew \in Nat /\ MaxSteps * s \in Nat /\ steps * s \in Nat
    BY <1>1
  <2>3. MaxSteps * skew <= MaxSteps * s
    BY <1>2, <2>1, <2>2
  <2>4. \A a \in Nat, b \in Nat, c \in Nat : a > 0 /\ a * b <= a * c => b <= c
    OBVIOUS
  <2>5. s \in Nat
    BY <1>1
  <2> HIDE DEF SmallSteps
  <2> QED
    BY <1>1, <1>4, <2>3, <2>4, <2>5, SMTT(30)
<1> QED
  BY <1>1, <1>3, <1>4

\* A wall clock that is stepped once more stays within its budget.
LEMMA SkewGrows ==
  ASSUME NEW s, SmallSteps(s), NEW x \in Steps, NEW k \in Nat, NEW n \in Nat,
         MaxSteps * k <= n * s
  PROVE  MaxSteps * (k + x) <= (n + 1) * s
<1>1. x \in Nat /\ MaxSteps \in Nat /\ s \in Nat /\ MaxSteps * x <= s
  BY CredentialsAssumption DEF SmallSteps, Headroom
<1>2. \A a \in Nat, b \in Nat, c \in Nat :
        a * (b + c) = a * b + a * c /\ a * b \in Nat /\ a * c \in Nat
  OBVIOUS
<1>3. MaxSteps * (k + x) = MaxSteps * k + MaxSteps * x
  BY <1>1, <1>2
<1>4. (n + 1) * s = n * s + s /\ n * s \in Nat
  BY <1>1
<1>5. MaxSteps * k \in Nat /\ MaxSteps * x \in Nat
  BY <1>1, <1>2
<1> QED
  BY <1>1, <1>3, <1>4, <1>5

\* The facts about the leaf that the decisions below work with.
LEMMA LeafFacts ==
  ASSUME NEW s, SmallSteps(s), TypeOK, LeafInv(s), sup # "none"
  PROVE  /\ now \in Nat /\ skew \in Nat /\ leaf.born \in Nat /\ leaf.ttl \in Nat /\ s \in Nat
         /\ leaf.ttl > 0 /\ s <= 3 /\ s <= leaf.ttl \div 3 /\ skew <= s
         /\ leaf.born <= now + skew
         /\ LeafAge = now + skew - leaf.born
<1>1. /\ now \in Nat /\ skew \in Nat /\ leaf.born \in Nat /\ leaf.ttl \in Nat /\ s \in Nat /\ s <= 3
  BY DEF TypeOK, SmallSteps, Headroom
<1>2. leaf.ttl \in Ttls /\ leaf.born <= now + skew
  BY DEF LeafInv
<1>3. leaf.ttl > 0 /\ s <= leaf.ttl \div 3
  BY <1>1, <1>2, CredentialsAssumption DEF SmallSteps
<1>4. LeafAge = now + skew - leaf.born
  BY <1>1, <1>2 DEF LeafAge, Wall, Most
<1> QED
  BY <1>1, <1>2, <1>3, <1>4, SkewBound

\* A rotation that is not due yet leaves a third of the leaf's life.
LEMMA NotDueYet ==
  ASSUME NEW s, SmallSteps(s), TypeOK, LeafInv(s), sup # "none", ~RotateNow
  PROVE  now <= EndOf(s)
BY LeafFacts DEF RotateNow, EndOf

\* A failed rotation is tried again only before the leaf ends, and so is what is in between.
LEMMA RetriedBeforeEnd ==
  ASSUME NEW s, SmallSteps(s), TypeOK, LeafInv(s), sup # "none",
         ~GivesUp(Most(leaf.ttl - LeafAge, 0), leafTries + 1)
  PROVE  now <= EndOf(s) /\ now + Backoff(leafTries + 1) <= EndOf(s)
<1>1. Backoff(leafTries + 1) \in Nat
  BY BackoffBounds DEF TypeOK
<1>2. ~(Most(leaf.ttl - LeafAge, 0) <= Backoff(leafTries + 1) + 2)
  BY DEF GivesUp, Headroom
<1>3. leaf.ttl - LeafAge \in Int /\ leaf.ttl - LeafAge > Backoff(leafTries + 1) + 2
  BY <1>1, <1>2, LeafFacts DEF Most
<1> QED
  BY <1>1, <1>3, LeafFacts DEF EndOf

\* The wake that is planned is before the leaf's end, or now.
LEMMA PlannedBeforeEnd ==
  ASSUME NEW s, SmallSteps(s), TypeOK, LeafInv(s), sup \in Acting
  PROVE  NextWake <= now \/ NextWake <= EndOf(s)
<1>0. sup # "none" /\ now \in Nat /\ NextWake \in Nat
  BY NextWakeBounds DEF Acting, TypeOK
<1>1. CASE backoff # NoBackoff
  <2>1. LeafDues = {backoff} /\ backoff \in Nat /\ backoff <= EndOf(s)
    BY <1>1 DEF LeafDues, TypeOK, LeafInv
  <2>2. NextWake <= Most(backoff, now)
    BY <2>1, NextWakeBounds
  <2>3. EndOf(s) \in Int
    BY <1>0, LeafFacts DEF EndOf
  <2> QED
    BY <1>0, <2>1, <2>2, <2>3 DEF Most
<1>2. CASE backoff = NoBackoff
  <2>1. LeafDues = {now + Most(RotateAge - LeafAge, 0)}
    BY <1>0, <1>2, LeafFacts DEF LeafDues
  <2>2. NextWake <= Most(now + Most(RotateAge - LeafAge, 0), now)
    BY <2>1, NextWakeBounds
  <2>3. RotateAge \in Nat /\ RotateAge <= leaf.ttl - (leaf.ttl \div 3)
    BY <1>0, LeafFacts DEF RotateAge
  <2>4. LeafAge \in Nat
    BY <1>0, LeafFacts
  <2>5. CASE RotateAge <= LeafAge
    BY <1>0, <2>2, <2>3, <2>4, <2>5 DEF Most
  <2>6. CASE ~(RotateAge <= LeafAge)
    <3>1. NextWake <= now + (RotateAge - LeafAge)
      BY <1>0, <2>2, <2>3, <2>4, <2>6 DEF Most
    <3> HIDE DEF RotateAge
    <3> QED
      BY <1>0, <2>3, <3>1, LeafFacts DEF EndOf
  <2> QED
    BY <2>5, <2>6
<1> QED
  BY <1>1, <1>2

\* A leaf that Vault signs while the request lasts ends at most a timeout before its answer.
LEMMA FreshEnd ==
  ASSUME NEW s, SmallSteps(s), TypeOK, LeafInv(s),
         NEW b \in Nat, b <= now, now <= b + Http,
         NEW p \in b .. now, NEW t \in Ttls, leaf' = [born |-> p + skew, ttl |-> t],
         UNCHANGED <<now, skew>>
  PROVE  /\ now <= EndOf(s)' + Http /\ leaf'.ttl \in Ttls /\ leaf'.born <= now + skew
         /\ leaf'.born = p + skew /\ leaf'.ttl = t
<1>1. /\ now \in Nat /\ skew \in Nat /\ s \in Nat /\ t \in Nat /\ s <= t \div 3 /\ Http \in Nat
      /\ p \in Nat
  BY CredentialsAssumption DEF TypeOK, SmallSteps, Headroom
<1>2. leaf'.born = p + skew /\ leaf'.ttl = t
  OBVIOUS
<1>3. EndOf(s)' = p + skew + t - s
  BY <1>1, <1>2 DEF EndOf
<1> QED
  BY <1>1, <1>2, <1>3

LEMMA LeafNext ==
  ASSUME NEW s, SmallSteps(s), TypeOK, TaskInv, LeafInv(s), [Next]_vars
  PROVE  LeafInv(s)'
<1>0. /\ now \in Nat /\ since \in Nat /\ sent \in Nat /\ wake \in Nat /\ Http \in Nat /\ Http > 0
      /\ skew \in Nat /\ steps \in Nat /\ backoff \in Nat /\ EndOf(s) \in Int
  BY CredentialsAssumption DEF TypeOK, EndOf, SmallSteps, Headroom
<1>1. CASE Aside
  BY <1>1 DEF Aside, LeafInv, EndOf
<1>2. CASE Login
  <2>1. sup = "none" /\ now <= since + Http
    BY <1>2 DEF Login, TaskInv, LeafInv
  <2>2. UNCHANGED <<now, skew, steps, sup>> /\ since' = now /\ proc' = "sign"
    BY <1>2 DEF Login, clocks
  <2> QED
    BY <1>0, <2>1, <2>2 DEF LeafInv, Acting
<1>3. CASE Mint
  <2>1. sup = "none" /\ since <= now /\ now <= since + Http
    BY <1>3 DEF Mint, TaskInv, LeafInv
  <2>2. /\ UNCHANGED <<now, skew, steps>> /\ proc' \notin {"login", "sign"}
        /\ sup' \in {"none", "spawned"}
    BY <1>3, <2>1 DEF Mint, clocks
  <2>3. PICK p \in since .. now, t \in Ttls : leaf' = [born |-> p + skew, ttl |-> t]
    BY <1>3 DEF Mint
  <2>4. now <= EndOf(s)' + Http /\ leaf'.ttl \in Ttls /\ leaf'.born <= now + skew
    BY <1>0, <2>1, <2>2, <2>3, FreshEnd
  <2> HIDE DEF EndOf
  <2> QED
    BY <2>2, <2>4 DEF LeafInv, Acting
<1>4. CASE /\ sup' = "gone" /\ sup # "none"
           /\ UNCHANGED <<now, skew, steps, leaf, proc, since>>
  BY <1>4 DEF LeafInv, Acting
<1>5. CASE Begin /\ sup' # "gone"
  <2>1. /\ UNCHANGED <<now, skew, steps, leaf, proc, since>> /\ sup = "spawned"
        /\ sup' = "planning" /\ backoff' = NoBackoff
    BY <1>5 DEF Begin, Expire, Ends, clocks, daemon
  <2>2. EndOf(s)' = EndOf(s)
    BY <2>1 DEF EndOf
  <2>3. now' <= EndOf(s)' + 2 * Http
    BY <1>0, <2>1, <2>2 DEF LeafInv
  <2> QED
    BY <2>1, <2>2, <2>3 DEF LeafInv
<1>6. CASE Sleep
  <2>1. /\ UNCHANGED <<now, skew, steps, leaf, proc, since, backoff>> /\ sup = "planning"
        /\ sup' = "sleeping" /\ wake' = NextWake
    BY <1>6 DEF Sleep, clocks, held, daemon
  <2>2. now <= wake' /\ wake' \in Nat /\ (wake' <= now \/ wake' <= EndOf(s))
    BY <2>1, NextWakeBounds, PlannedBeforeEnd DEF Acting
  <2>3. now <= EndOf(s) + 2 * Http
    BY <2>1 DEF LeafInv
  <2>4. wake' <= EndOf(s) + 2 * Http
    BY <1>0, <2>2, <2>3
  <2>5. EndOf(s)' = EndOf(s)
    BY <2>1 DEF EndOf
  <2> QED
    BY <2>1, <2>2, <2>4, <2>5 DEF LeafInv, Acting
<1>7. CASE Wake
  <2>1. /\ UNCHANGED <<now, skew, steps, leaf, proc, since, backoff>> /\ sup = "sleeping"
        /\ EndOf(s)' = EndOf(s)
    BY <1>7 DEF Wake, clocks, held, daemon, plan, EndOf
  <2>2. now <= EndOf(s) + 2 * Http
    BY <1>0, <2>1 DEF LeafInv
  <2>3. CASE sup' = "rotating" /\ sent' = now
    BY <1>0, <2>1, <2>2, <2>3 DEF LeafInv, Acting
  <2>4. CASE AfterRotation /\ ~(now >= backoff /\ RotateNow)
    <3>1. now <= EndOf(s)
      <4>1. CASE ~RotateNow
        BY <2>1, <4>1, NotDueYet
      <4>2. CASE ~(now >= backoff)
        BY <1>0, <2>1, <4>2 DEF LeafInv, Acting, NoBackoff
      <4> QED
        BY <2>4, <4>1, <4>2
    <3>2. sup' = "planning" \/ (sup' = "renewing" /\ sent' = now)
      BY <2>4 DEF AfterRotation
    <3> QED
      BY <1>0, <2>1, <3>1, <3>2 DEF LeafInv, Acting
  <2> QED
    BY <1>7, <2>3, <2>4 DEF Wake
<1>8. CASE Signed
  <2>1. /\ UNCHANGED <<now, skew, steps, leaf, proc, since, backoff, sent>> /\ sup = "rotating"
        /\ sup' = "signed" /\ EndOf(s)' = EndOf(s)
    BY <1>8 DEF Signed, clocks, held, daemon, plan, EndOf
  <2> QED
    BY <2>1 DEF LeafInv, Acting
<1>9. CASE InstallLeaf
  <2>1. /\ UNCHANGED <<now, skew, steps, proc, since>> /\ sup = "signed"
        /\ backoff' = NoBackoff /\ sent <= now /\ now <= sent + Http
    BY <1>9 DEF InstallLeaf, clocks, daemon, LeafInv
  <2>2. sup' = "planning" \/ (sup' = "renewing" /\ sent' = now)
    BY <1>9 DEF InstallLeaf, AfterRotation
  <2>3. PICK p \in sent .. now, t \in Ttls : leaf' = [born |-> p + skew, ttl |-> t]
    BY <1>9 DEF InstallLeaf
  <2>4. /\ now <= EndOf(s)' + Http /\ leaf'.ttl \in Ttls /\ leaf'.born <= now + skew
        /\ leaf'.born = p + skew /\ leaf'.ttl = t
    BY <1>0, <2>1, <2>3, FreshEnd
  <2>5. EndOf(s)' \in Int
    <3>1. p + skew \in Nat /\ t \in Nat /\ s \in Nat
      BY <1>0, CredentialsAssumption DEF SmallSteps, Headroom
    <3> QED
      BY <2>4, <3>1 DEF EndOf
  <2> HIDE DEF EndOf
  <2>6. now <= EndOf(s)' + 2 * Http
    BY <1>0, <2>4, <2>5
  <2>7. proc \notin {"login", "sign"}
    BY <2>1 DEF TaskInv
  <2>8. CASE sup' = "planning"
    BY <2>1, <2>4, <2>6, <2>7, <2>8 DEF LeafInv
  <2>9. CASE sup' = "renewing" /\ sent' = now
    BY <1>0, <2>1, <2>4, <2>7, <2>9 DEF LeafInv
  <2> QED
    BY <2>2, <2>8, <2>9
<1>10. CASE RotateFails /\ sup' # "gone"
  <2>1. /\ UNCHANGED <<now, skew, steps, leaf, proc, since>> /\ sup = "rotating"
        /\ ~GivesUp(Most(leaf.ttl - LeafAge, 0), leafTries + 1)
        /\ backoff' = now + Backoff(leafTries + 1) /\ EndOf(s)' = EndOf(s)
        /\ sup' = "planning" \/ (sup' = "renewing" /\ sent' = now)
    BY <1>10 DEF RotateFails, Expire, Ends, AfterRotation, clocks, daemon, EndOf
  <2>2. now <= EndOf(s) /\ backoff' <= EndOf(s)
    BY <2>1, RetriedBeforeEnd
  <2> QED
    BY <1>0, <2>1, <2>2 DEF LeafInv
<1>11. CASE (Renewed \/ RenewFails) /\ sup' # "gone"
  <2>1. /\ UNCHANGED <<now, skew, steps, leaf, proc, since, backoff>> /\ sup = "renewing"
        /\ sup' = "planning" /\ EndOf(s)' = EndOf(s)
    BY <1>11 DEF Renewed, RenewFails, Expire, Ends, clocks, daemon, EndOf
  <2>2. now <= EndOf(s) + 2 * Http
    BY <1>0, <2>1 DEF LeafInv
  <2> QED
    BY <2>1, <2>2 DEF LeafInv, Acting
<1>12. CASE Tick
  <2>1. /\ now' = now + 1
        /\ UNCHANGED <<skew, steps, leaf, proc, since, sup, sent, wake, backoff>>
        /\ sup \notin {"spawned", "planning", "signed"}
        /\ sup = "sleeping" => ~(now >= wake)
        /\ sup \in {"rotating", "renewing"} => ~(now >= sent + Http)
        /\ proc \in {"login", "sign"} => ~(now >= since + Http)
        /\ EndOf(s)' = EndOf(s)
    BY <1>12 DEF Tick, Urgent, held, daemon, plan, EndOf
  <2>2. sup # "none" => leaf.born <= now' + skew
    BY <1>0, <2>1 DEF LeafInv, TypeOK
  <2> QED
    BY <1>0, <2>1, <2>2 DEF LeafInv
<1>13. CASE StepWall
  <2>1. PICK x \in Steps : skew' = skew + x
    BY <1>13 DEF StepWall
  <2>2. /\ UNCHANGED <<now, leaf, proc, since, sup, sent, wake, backoff>> /\ steps' = steps + 1
        /\ EndOf(s)' = EndOf(s)
    BY <1>13 DEF StepWall, held, daemon, plan, EndOf
  <2>3. MaxSteps * skew' <= steps' * s
    BY <1>0, <2>1, <2>2, SkewGrows DEF LeafInv
  <2>4. sup # "none" => leaf.born <= now + skew'
    BY <1>0, <2>1, CredentialsAssumption DEF LeafInv, TypeOK
  <2>5. steps' # 0
    BY <1>0, <2>2
  <2> QED
    BY <2>2, <2>3, <2>4, <2>5 DEF LeafInv
<1>14. CASE Dropped \/ Begin \/ RotateFails \/ Renewed \/ RenewFails
  <2>1. UNCHANGED <<now, skew, steps, leaf, proc, since>> /\ sup # "none"
    BY <1>14 DEF Dropped, Begin, RotateFails, Renewed, RenewFails, clocks, held, daemon
  <2>2. Dropped => sup' = "gone"
    BY DEF Dropped, Ends
  <2> QED
    BY <1>4, <1>5, <1>10, <1>11, <1>14, <2>1, <2>2
<1> QED
  BY <1>1, <1>2, <1>3, <1>6, <1>7, <1>8, <1>9, <1>12, <1>13, <1>14, Steppers, StepsAside

LEMMA LeafEndsInTime ==
  ASSUME NEW s, SmallSteps(s), TypeOK, TaskInv, LeafInv(s)
  PROVE  LeafInTime
<1> SUFFICES ASSUME Supervised PROVE now <= LeafEnd + 3 * Http
  BY DEF LeafInTime
<1>0. /\ now \in Nat /\ sent \in Nat /\ wake \in Nat /\ stepped \in Nat /\ Http \in Nat /\ Http > 0
  BY CredentialsAssumption DEF TypeOK
<1>1. sup \in {"spawned"} \union Acting
  BY DEF Supervised, TaskInv, TypeOK, Acting
<1>2. EndOf(s) \in Int /\ EndOf(s) <= leaf.born + leaf.ttl - skew
      /\ leaf.born + leaf.ttl - skew \in Int
  BY <1>1, LeafFacts DEF EndOf, Acting
<1>3. now <= EndOf(s) + 3 * Http
  BY <1>0, <1>1, <1>2 DEF LeafInv, Acting
<1>4. LeafEnd \in Int /\ EndOf(s) <= LeafEnd
  BY <1>0, <1>2 DEF LeafEnd, Most
<1> QED
  BY <1>0, <1>2, <1>3, <1>4

\* Small steps have a sum that is small.
LEMMA SmallSum ==
  ASSUME StepsSmall
  PROVE  \E s \in 0 .. Headroom + 1 : SmallSteps(s)
<1> DEFINE P == {0} \union {MaxSteps * x : x \in Steps}
<1>1. \A n \in P : n \in {0, 1, 2, 3} /\ \A t \in Ttls : n <= t \div 3
  <2>1. \A x \in Steps : MaxSteps * x \in Nat
    BY CredentialsAssumption
  <2>2. \A t \in Ttls : 0 <= t \div 3
    BY CredentialsAssumption
  <2>3. \A x \in Steps : MaxSteps * x \in {0, 1, 2, 3} /\ \A t \in Ttls : MaxSteps * x <= t \div 3
    BY <2>1 DEF StepsSmall, Headroom
  <2> QED
    BY <2>2, <2>3
<1>2. \E s \in P : \A n \in P : n <= s
  <2>1. 0 \in P
    OBVIOUS
  <2>2. CASE 3 \in P
    BY <1>1, <2>2
  <2>3. CASE 3 \notin P /\ 2 \in P
    BY <1>1, <2>3
  <2>4. CASE 3 \notin P /\ 2 \notin P /\ 1 \in P
    BY <1>1, <2>4
  <2>5. CASE 3 \notin P /\ 2 \notin P /\ 1 \notin P
    BY <1>1, <2>1, <2>5
  <2> QED
    BY <2>2, <2>3, <2>4, <2>5
<1>3. PICK s \in P : \A n \in P : n <= s
  BY <1>2
<1>4. \A x \in Steps : MaxSteps * x \in P
  OBVIOUS
<1> HIDE DEF P
<1>5. s \in 0 .. Headroom + 1 /\ \A t \in Ttls : s <= t \div 3
  BY <1>1, <1>3 DEF Headroom
<1> QED
  BY <1>3, <1>4, <1>5 DEF SmallSteps

\* As long as the wall clock is stepped by no more than what a retry and a planned
\* rotation leave of a leaf's life, a daemon presents no leaf longer than three
\* Vault timeouts past its end, whatever Vault answers and for every lifetime,
\* lease and timeout (supervisor_loop, next_wake, retry_action).
THEOREM LeafAlwaysInTime == ASSUME StepsSmall PROVE Spec => []LeafInTime
<1>1. PICK s \in 0 .. Headroom + 1 : SmallSteps(s)
  BY SmallSum
<1>2. Init => LeafInv(s)
  <2> SUFFICES ASSUME Init PROVE LeafInv(s)
    OBVIOUS
  <2>1. MaxSteps * skew <= steps * s
    BY <1>1, CredentialsAssumption DEF Init, Headroom
  <2> QED
    BY <2>1, CredentialsAssumption DEF Init, LeafInv, Acting
<1>3. TypeOK /\ TaskInv /\ LeafInv(s) /\ [Next]_vars => LeafInv(s)'
  BY <1>1, LeafNext
<1>4. TypeOK /\ TaskInv /\ LeafInv(s) => LeafInTime
  BY <1>1, LeafEndsInTime
<1> QED
  BY <1>2, <1>3, <1>4, TaskAlways, PTL DEF Spec

-----------------------------------------------------------------------------
(* Prompts: the inductive invariant, prompt by prompt *)

Past == {"deciding", "opening", "calling", "called"}    \* the frame was read to be served

Unsaid == {"refused", "at capacity"}                    \* replies that say nothing left

Said == {"reply", "unusable"}                           \* replies that say content left

NotSent == Unsaid \union {"unreachable", "transport"}  \* results recorded as failed

Over == {"closed", "left"}                              \* no thread will be given the connection

\* The content has not left and cannot leave any more: the connection is over, or its frame
\* stays short of whole because nobody writes it.
NeverSent(p) ==
  /\ p \notin left
  /\ thread[p] \notin Past
  /\ \/ thread[p] = "none" /\ conn[p] \in Over
     \/ worker[p] \in {"none", "done"} /\ frame[p] # "whole"

\* The deputy's side: what a thread is about to say, or has said, is true.
DeputyInv(p) ==
  /\ conn[p] \in {"none", "queued",
      "orphaned"} => thread[p] = "none" /\ p \notin left /\ reply[p] = "none"
  /\ reply[p] # "none" => thread[p] = "none" /\ conn[p] \in Over
  /\ thread[p] \in {"reading", "refusing", "deciding", "opening", "calling"} => p \notin left
  /\ thread[p] = "called" => p \in left
  /\ thread[p] \in Past \/ p \in left => frame[p] = "whole"
  /\ thread[p] = "replying" <=> word[p] # "none"
  /\ word[p] \in Unsaid \/ reply[p] \in Unsaid => p \notin left
  /\ word[p] \in Said \/ reply[p] \in Said => p \in left

\* The kernel's stages: the worker starts behind a durable intent and a result is kept for a
\* task that waits.
StageInv(p) ==
  /\ worker[p] = "none" \/ worker[p] = "connecting" => conn[p] = "none" /\ frame[p] = "none"
  /\ worker[p] = "preparing" => frame[p] = "none"
  /\ worker[p] # "none" \/ task[p] = "admitting" => intent[p] = "durable"
  /\ task[p] \in {"idle", "intending", "admitting"} => worker[p] = "none"
  /\ task[p] # "waiting" => result[p] = "none"
  /\ task[p] = "waiting" => worker[p] # "none" /\ (worker[p] = "done" <=> result[p] # "none")
  /\ task[p] = "recording" <=> told[p] # "none"
  /\ task[p] # "closed" => outcome[p] = "none" /\ answer[p] = "none"

\* What the task holds, and what it recorded and answered, is true for good.
TruthInv(p) ==
  /\ result[p] \in NotSent \/ told[p] \in NotSent => NeverSent(p)
  /\ result[p] \in Said \/ told[p] \in Said => p \in left
  /\ outcome[p] = "failed" \/ answer[p] = "unavailable" => NeverSent(p)
  /\ outcome[p] \in {"sent", "landed"} => p \in left

\* The values of the variables a case distinction of the code ends on.
KindInv(p) ==
  /\ told[p] \in Prompting!Results /\ result[p] \in Prompting!Results
  /\ reply[p] \in Prompting!Replies /\ word[p] \in Prompting!Replies
  /\ conn[p] \in Prompting!Links

PromptInv(p) == KindInv(p) /\ DeputyInv(p) /\ StageInv(p) /\ TruthInv(p)

Shape ==
  /\ DOMAIN task = Prompts /\ DOMAIN worker = Prompts /\ DOMAIN result = Prompts
  /\ DOMAIN told = Prompts /\ DOMAIN intent = Prompts /\ DOMAIN outcome = Prompts
  /\ DOMAIN answer = Prompts /\ DOMAIN conn = Prompts /\ DOMAIN frame = Prompts
  /\ DOMAIN reply = Prompts /\ DOMAIN thread = Prompts /\ DOMAIN lane = Prompts
  /\ DOMAIN word = Prompts

IInv == Shape /\ \A p \in Prompts : PromptInv(p)

LEMMA InvInit == Prompting!Init => IInv
<1>1. Prompting!Init => Shape
  BY DEF Prompting!Init, Shape
<1>2. ASSUME Prompting!Init, NEW p \in Prompts PROVE PromptInv(p)
  BY <1>2 DEF Prompting!Init, PromptInv, KindInv, DeputyInv, StageInv, TruthInv, NeverSent,
              Prompting!Results, Prompting!Replies, Prompting!Links,
         NotSent, Unsaid, Said, Over, Past
<1>3. QED
  BY <1>1, <1>2 DEF IInv

-----------------------------------------------------------------------------
(* A step for one prompt leaves the others as they are *)

Same(q) ==
  /\ task'[q] = task[q] /\ worker'[q] = worker[q] /\ result'[q] = result[q] /\ told'[q] = told[q]
  /\ intent'[q] = intent[q] /\ outcome'[q] = outcome[q] /\ answer'[q] = answer[q]
  /\ conn'[q] = conn[q] /\ frame'[q] = frame[q] /\ reply'[q] = reply[q]
  /\ thread'[q] = thread[q] /\ word'[q] = word[q] /\ (q \in left' <=> q \in left)

LEMMA SameKeeps == ASSUME NEW q \in Prompts, PromptInv(q), Same(q) PROVE PromptInv(q)'
BY DEF Same, PromptInv, KindInv, DeputyInv, StageInv, TruthInv, NeverSent

LEMMA OneTask ==
  ASSUME Shape, NEW p \in Prompts, Prompting!Task(p)
  PROVE  Shape' /\ \A q \in Prompts \ {p} : Same(q)
<1> USE DEF Shape, Same, Prompting!wire, Prompting!deputy
<1>1. CASE Prompting!Ask(p)
  BY <1>1 DEF Prompting!Ask
<1>2. CASE Prompting!CommitIntent(p)
  BY <1>2 DEF Prompting!CommitIntent
<1>3. CASE Prompting!Admit(p)
  BY <1>3 DEF Prompting!Admit
<1>4. CASE Prompting!Collect(p) \/ Prompting!GiveUp(p)
  BY <1>4 DEF Prompting!Collect, Prompting!GiveUp
<1>5. CASE Prompting!RecordOutcome(p)
  BY <1>5 DEF Prompting!RecordOutcome
<1>6. QED
  BY <1>1, <1>2, <1>3, <1>4, <1>5 DEF Prompting!Task

LEMMA OneWorker ==
  ASSUME Shape, NEW p \in Prompts, Prompting!Worker(p)
  PROVE  Shape' /\ \A q \in Prompts \ {p} : Same(q)
<1> USE DEF Shape, Same, Prompting!Return, Prompting!deputy
<1>1. CASE Prompting!Connect(p) \/ Prompting!Prepare(p)
  BY <1>1 DEF Prompting!Connect, Prompting!Prepare
<1>2. CASE Prompting!Write(p)
  BY <1>2 DEF Prompting!Write
<1>3. CASE Prompting!WriteFails(p) \/ Prompting!Read(p)
  BY <1>3 DEF Prompting!WriteFails, Prompting!Read
<1>4. QED
  BY <1>1, <1>2, <1>3 DEF Prompting!Worker

LEMMA OneThread ==
  ASSUME Shape, NEW p \in Prompts, Prompting!Deputy(p) \/ Prompting!Panic(p)
  PROVE  Shape' /\ \A q \in Prompts \ {p} : Same(q)
<1> USE DEF Shape, Same, Prompting!kernel, Prompting!Goto, Prompting!Answers, Prompting!End
<1>1. CASE Prompting!Accept(p)
  BY <1>1 DEF Prompting!Accept
<1>2. CASE Prompting!ReadFrame(p) \/ Prompting!Decide(p)
  BY <1>2 DEF Prompting!ReadFrame, Prompting!Decide
<1>3. CASE Prompting!OpenKey(p) \/ Prompting!Provided(p)
  BY <1>3 DEF Prompting!OpenKey, Prompting!Provided
<1>4. CASE Prompting!Call(p)
  BY <1>4 DEF Prompting!Call
<1>5. CASE Prompting!Reply(p)
  BY <1>5 DEF Prompting!Reply
<1>6. CASE Prompting!Panic(p)
  BY <1>6 DEF Prompting!Panic
<1>7. QED
  BY <1>1, <1>2, <1>3, <1>4, <1>5, <1>6 DEF Prompting!Deputy

-----------------------------------------------------------------------------
(* The prompt the step is for *)

LEMMA TaskStep ==
  ASSUME Shape, NEW p \in Prompts, PromptInv(p), Prompting!Task(p)
  PROVE  PromptInv(p)'
<1> USE DEF Shape, PromptInv, Prompting!wire, Prompting!deputy
<1>1. CASE Prompting!Ask(p)
  <2>1. KindInv(p)'
    BY <1>1 DEF Prompting!Ask, KindInv
  <2>2. DeputyInv(p)'
    BY <1>1 DEF Prompting!Ask, DeputyInv
  <2>3. StageInv(p)'
    BY <1>1 DEF Prompting!Ask, StageInv
  <2>4. TruthInv(p)'
    BY <1>1 DEF Prompting!Ask, KindInv, StageInv, TruthInv, NeverSent, NotSent, Unsaid, Said
  <2>5. QED
    BY <2>1, <2>2, <2>3, <2>4
<1>2. CASE Prompting!CommitIntent(p)
  <2>1. KindInv(p)'
    BY <1>2 DEF Prompting!CommitIntent, KindInv
  <2>2. DeputyInv(p)'
    BY <1>2 DEF Prompting!CommitIntent, DeputyInv
  <2>3. StageInv(p)'
    BY <1>2 DEF Prompting!CommitIntent, StageInv
  <2>4. TruthInv(p)'
    BY <1>2 DEF Prompting!CommitIntent, KindInv, StageInv, TruthInv, NeverSent, NotSent, Unsaid,
                Said
  <2>5. QED
    BY <2>1, <2>2, <2>3, <2>4
<1>3. CASE Prompting!Admit(p)
  <2>1. KindInv(p)'
    BY <1>3 DEF Prompting!Admit, KindInv, Prompting!Results, Prompting!Replies
  <2>2. DeputyInv(p)'
    BY <1>3 DEF Prompting!Admit, DeputyInv
  <2>3. StageInv(p)'
    BY <1>3 DEF Prompting!Admit, StageInv
  <2>4. TruthInv(p)'
    BY <1>3 DEF Prompting!Admit, KindInv, StageInv, TruthInv, NeverSent, DeputyInv, NotSent, Unsaid,
       Said, Past
  <2>5. QED
    BY <2>1, <2>2, <2>3, <2>4
<1>4. CASE Prompting!Collect(p)
  <2>1. KindInv(p)'
    BY <1>4 DEF Prompting!Collect, KindInv, Prompting!Results, Prompting!Replies
  <2>2. DeputyInv(p)'
    BY <1>4 DEF Prompting!Collect, DeputyInv
  <2>3. StageInv(p)'
    BY <1>4 DEF Prompting!Collect, StageInv, KindInv
  <2>4. TruthInv(p)'
    BY <1>4 DEF Prompting!Collect, KindInv, StageInv, TruthInv, NeverSent, NotSent, Unsaid, Said
  <2>5. QED
    BY <2>1, <2>2, <2>3, <2>4
<1>5. CASE Prompting!GiveUp(p)
  <2>1. KindInv(p)'
    BY <1>5 DEF Prompting!GiveUp, KindInv, Prompting!Results, Prompting!Replies
  <2>2. DeputyInv(p)'
    BY <1>5 DEF Prompting!GiveUp, DeputyInv
  <2>3. StageInv(p)'
    BY <1>5 DEF Prompting!GiveUp, StageInv
  <2>4. TruthInv(p)'
    BY <1>5 DEF Prompting!GiveUp, KindInv, StageInv, TruthInv, NeverSent, NotSent, Unsaid, Said
  <2>5. QED
    BY <2>1, <2>2, <2>3, <2>4
<1>6. CASE Prompting!RecordOutcome(p)
  <2>1. KindInv(p)'
    BY <1>6 DEF Prompting!RecordOutcome, KindInv, Prompting!Results, Prompting!Replies
  <2>2. DeputyInv(p)'
    BY <1>6 DEF Prompting!RecordOutcome, DeputyInv
  <2>3. StageInv(p)'
    BY <1>6 DEF Prompting!RecordOutcome, StageInv
  <2>4. TruthInv(p)'
    BY <1>6 DEF Prompting!RecordOutcome, Prompting!OutcomesFor, Prompting!Unavailable, KindInv,
                StageInv, TruthInv,
       NeverSent, NotSent, Unsaid, Said, Prompting!Results, Prompting!Replies
  <2>5. QED
    BY <2>1, <2>2, <2>3, <2>4
<1>7. QED
  BY <1>1, <1>2, <1>3, <1>4, <1>5, <1>6 DEF Prompting!Task

LEMMA WorkerStep ==
  ASSUME Shape, NEW p \in Prompts, PromptInv(p), Prompting!Worker(p)
  PROVE  PromptInv(p)'
<1> USE DEF Shape, PromptInv, Prompting!Return, Prompting!deputy
<1>1. CASE Prompting!Connect(p)
  <2>1. KindInv(p)'
    BY <1>1 DEF Prompting!Connect, KindInv, Prompting!Results, Prompting!Replies, Prompting!Links,
                Prompting!Leave
  <2>2. DeputyInv(p)'
    BY <1>1 DEF Prompting!Connect, Prompting!Leave, DeputyInv, StageInv, KindInv, Prompting!Links,
                Over
  <2>3. StageInv(p)'
    BY <1>1 DEF Prompting!Connect, Prompting!Leave, StageInv
  <2>4. TruthInv(p)'
    BY <1>1 DEF Prompting!Connect, Prompting!Leave, StageInv, TruthInv, NeverSent, NotSent, Unsaid,
                Said, Over,
       DeputyInv, Past
  <2>5. QED
    BY <2>1, <2>2, <2>3, <2>4
<1>2. CASE Prompting!Prepare(p)
  <2>1. KindInv(p)'
    BY <1>2 DEF Prompting!Prepare, KindInv, Prompting!Results, Prompting!Replies, Prompting!Links,
                Prompting!Leave
  <2>2. DeputyInv(p)'
    BY <1>2 DEF Prompting!Prepare, Prompting!Leave, DeputyInv, KindInv, Prompting!Links, Over
  <2>3. StageInv(p)'
    BY <1>2 DEF Prompting!Prepare, Prompting!Leave, StageInv
  <2>4. TruthInv(p)'
    BY <1>2 DEF Prompting!Prepare, Prompting!Leave, StageInv, TruthInv, NeverSent, NotSent, Unsaid,
                Said, Over,
       DeputyInv, Past
  <2>5. QED
    BY <2>1, <2>2, <2>3, <2>4
<1>3. CASE Prompting!Write(p)
  <2>1. KindInv(p)'
    BY <1>3 DEF Prompting!Write, KindInv
  <2>2. DeputyInv(p)'
    BY <1>3 DEF Prompting!Write, DeputyInv, Past
  <2>3. StageInv(p)'
    BY <1>3 DEF Prompting!Write, StageInv
  <2>4. TruthInv(p)'
    BY <1>3 DEF Prompting!Write, StageInv, TruthInv, NeverSent, NotSent, Unsaid, Said, Over
  <2>5. QED
    BY <2>1, <2>2, <2>3, <2>4
<1>4. CASE Prompting!WriteFails(p)
  <2>1. KindInv(p)'
    BY <1>4 DEF Prompting!WriteFails, KindInv, Prompting!Results, Prompting!Replies,
                Prompting!Links, Prompting!Leave
  <2>2. DeputyInv(p)'
    BY <1>4 DEF Prompting!WriteFails, Prompting!Leave, DeputyInv, KindInv, Prompting!Links, Over
  <2>3. StageInv(p)'
    BY <1>4 DEF Prompting!WriteFails, Prompting!Leave, StageInv
  <2>4. TruthInv(p)'
    BY <1>4 DEF Prompting!WriteFails, Prompting!Leave, StageInv, TruthInv, NeverSent, NotSent,
                Unsaid, Said, Over
  <2>5. QED
    BY <2>1, <2>2, <2>3, <2>4
<1>5. CASE Prompting!Read(p)
  <2>1. KindInv(p)'
    BY <1>5 DEF Prompting!Read, Prompting!ResultsOf, KindInv, Prompting!Results, Prompting!Replies,
                Prompting!Links, Prompting!Leave
  <2>2. DeputyInv(p)'
    BY <1>5 DEF Prompting!Read, Prompting!Leave, DeputyInv, KindInv, Prompting!Links, Over
  <2>3. StageInv(p)'
    BY <1>5 DEF Prompting!Read, Prompting!ResultsOf, Prompting!Leave, StageInv, KindInv,
                Prompting!Replies
  <2>4. TruthInv(p)'
    <3>1. CASE \E r \in Prompting!ResultsOf(reply[p]) : conn[p] = "closed" /\ Prompting!Return(p, r)
      <4>1. PICK r \in Prompting!ResultsOf(reply[p]) : conn[p] = "closed" /\ Prompting!Return(p, r)
        BY <3>1
      <4>2. /\ worker'[p] = "done" /\ conn'[p] = "closed"
            /\ result'[p] = (IF task[p] = "waiting" THEN r ELSE "none")
            /\ UNCHANGED <<told, outcome, answer, frame, reply, thread, left>>
        BY <1>5, <4>1 DEF Prompting!Read, Prompting!Leave
      <4>3. r = reply[p] \/ r = "after send"
        BY DEF Prompting!ResultsOf
      <4>4. NeverSent(p) => NeverSent(p)'
        BY <4>2 DEF NeverSent, Over
      <4>5. reply[p] \in Unsaid => NeverSent(p)'
        BY <4>1, <4>2 DEF NeverSent, DeputyInv, Unsaid, Past, Over
      <4>6. reply[p] \in Prompting!Replies
        BY DEF KindInv
      <4>7. QED
        BY <4>2, <4>3, <4>4, <4>5, <4>6 DEF TruthInv, DeputyInv, NotSent, Unsaid, Said,
                                            Prompting!Replies
    <3>2. CASE Prompting!Return(p, "after send") \/ Prompting!Return(p, "expired")
      <4>1. /\ worker'[p] = "done" /\ conn'[p] = Prompting!Leave(conn[p])
            /\ result'[p] \in {"none", "after send", "expired"}
            /\ UNCHANGED <<told, outcome, answer, frame, reply, thread, left>>
        BY <1>5, <3>2 DEF Prompting!Read
      <4>2. NeverSent(p) => NeverSent(p)'
        BY <4>1 DEF NeverSent, Over, Prompting!Leave
      <4>3. QED
        BY <4>1, <4>2 DEF TruthInv, NotSent, Unsaid, Said
    <3>3. QED
      BY <1>5, <3>1, <3>2 DEF Prompting!Read
  <2>5. QED
    BY <2>1, <2>2, <2>3, <2>4
<1>6. QED
  BY <1>1, <1>2, <1>3, <1>4, <1>5 DEF Prompting!Worker

LEMMA ThreadStep ==
  ASSUME Shape, NEW p \in Prompts, PromptInv(p), Prompting!Deputy(p) \/ Prompting!Panic(p)
  PROVE  PromptInv(p)'
<1> USE DEF Shape, PromptInv, Prompting!kernel, Prompting!Goto, Prompting!Answers, Prompting!End
<1>1. CASE Prompting!Accept(p)
  <2>1. KindInv(p)'
    BY <1>1 DEF Prompting!Accept, KindInv, Prompting!Replies, Prompting!Links
  <2>2. DeputyInv(p)'
    BY <1>1 DEF Prompting!Accept, DeputyInv, Past, Over, Unsaid, Said, KindInv, Prompting!Links
  <2>3. StageInv(p)'
    BY <1>1 DEF Prompting!Accept, StageInv
  <2>4. TruthInv(p)'
    BY <1>1 DEF Prompting!Accept, TruthInv, DeputyInv, NeverSent, Past, Over
  <2>5. QED
    BY <2>1, <2>2, <2>3, <2>4
<1>2. CASE Prompting!ReadFrame(p)
  <2>1. KindInv(p)'
    BY <1>2 DEF Prompting!ReadFrame, KindInv, Prompting!Replies, Prompting!Links
  <2>2. DeputyInv(p)'
    BY <1>2 DEF Prompting!ReadFrame, DeputyInv, Past, Over, Unsaid, Said
  <2>3. StageInv(p)'
    BY <1>2 DEF Prompting!ReadFrame, StageInv
  <2>4. TruthInv(p)'
    BY <1>2 DEF Prompting!ReadFrame, TruthInv, DeputyInv, NeverSent, Past, Over
  <2>5. QED
    BY <2>1, <2>2, <2>3, <2>4
<1>3. CASE Prompting!Decide(p)
  <2>1. KindInv(p)'
    BY <1>3 DEF Prompting!Decide, KindInv, Prompting!Replies, Prompting!Links
  <2>2. DeputyInv(p)'
    BY <1>3 DEF Prompting!Decide, DeputyInv, Past, Over, Unsaid, Said
  <2>3. StageInv(p)'
    BY <1>3 DEF Prompting!Decide, StageInv
  <2>4. TruthInv(p)'
    BY <1>3 DEF Prompting!Decide, TruthInv, DeputyInv, NeverSent, Past, Over
  <2>5. QED
    BY <2>1, <2>2, <2>3, <2>4
<1>4. CASE Prompting!OpenKey(p)
  <2>1. KindInv(p)'
    BY <1>4 DEF Prompting!OpenKey, KindInv, Prompting!Replies
  <2>2. DeputyInv(p)'
    BY <1>4 DEF Prompting!OpenKey, DeputyInv, Past, Over, Unsaid, Said
  <2>3. StageInv(p)'
    BY <1>4 DEF Prompting!OpenKey, StageInv
  <2>4. TruthInv(p)'
    BY <1>4 DEF Prompting!OpenKey, TruthInv, DeputyInv, NeverSent, Past, Over
  <2>5. QED
    BY <2>1, <2>2, <2>3, <2>4
<1>5. CASE Prompting!Call(p)
  <2>1. KindInv(p)'
    BY <1>5 DEF Prompting!Call, KindInv, Prompting!Replies, Prompting!Links
  <2>2. DeputyInv(p)'
    BY <1>5 DEF Prompting!Call, DeputyInv, Past, Over, Unsaid, Said
  <2>3. StageInv(p)'
    BY <1>5 DEF Prompting!Call, StageInv
  <2>4. TruthInv(p)'
    BY <1>5 DEF Prompting!Call, TruthInv, DeputyInv, NeverSent, Past, Over
  <2>5. QED
    BY <2>1, <2>2, <2>3, <2>4
<1>6. CASE Prompting!Provided(p)
  <2>1. KindInv(p)'
    BY <1>6 DEF Prompting!Provided, KindInv, Prompting!Replies, Prompting!Links
  <2>2. DeputyInv(p)'
    BY <1>6 DEF Prompting!Provided, DeputyInv, Past, Over, Unsaid, Said
  <2>3. StageInv(p)'
    BY <1>6 DEF Prompting!Provided, StageInv
  <2>4. TruthInv(p)'
    BY <1>6 DEF Prompting!Provided, TruthInv, DeputyInv, NeverSent, Past, Over
  <2>5. QED
    BY <2>1, <2>2, <2>3, <2>4
<1>7. CASE Prompting!Reply(p)
  <2>1. KindInv(p)'
    BY <1>7 DEF Prompting!Reply, KindInv, Prompting!Replies, Prompting!Links
  <2>2. DeputyInv(p)'
    BY <1>7 DEF Prompting!Reply, DeputyInv, Past, Over, Unsaid, Said, KindInv, Prompting!Links
  <2>3. StageInv(p)'
    BY <1>7 DEF Prompting!Reply, StageInv
  <2>4. TruthInv(p)'
    BY <1>7 DEF Prompting!Reply, TruthInv, DeputyInv, NeverSent, Past, Over
  <2>5. QED
    BY <2>1, <2>2, <2>3, <2>4
<1>8. CASE Prompting!Panic(p)
  <2>1. KindInv(p)'
    BY <1>8 DEF Prompting!Panic, Prompting!Unsent, KindInv, Prompting!Replies, Prompting!Links
  <2>2. DeputyInv(p)'
    BY <1>8 DEF Prompting!Panic, Prompting!Unsent, DeputyInv, Past, Over, Unsaid, Said, KindInv,
                Prompting!Links
  <2>3. StageInv(p)'
    BY <1>8 DEF Prompting!Panic, StageInv
  <2>4. TruthInv(p)'
    BY <1>8 DEF Prompting!Panic, TruthInv, DeputyInv, NeverSent, Past, Over
  <2>5. QED
    BY <2>1, <2>2, <2>3, <2>4
<1>9. QED
  BY <1>1, <1>2, <1>3, <1>4, <1>5, <1>6, <1>7, <1>8 DEF Prompting!Deputy

LEMMA DeathStep ==
  ASSUME Shape, NEW p \in Prompts, PromptInv(p), Prompting!DeputyDies \/ Prompting!KernelDies
  PROVE  PromptInv(p)'
<1> USE DEF Shape, PromptInv, Prompting!kernel, Prompting!deputy
<1>1. CASE Prompting!DeputyDies
  <2>1. KindInv(p)'
    BY <1>1 DEF Prompting!DeputyDies, KindInv, Prompting!Replies, Prompting!Links
  <2>2. DeputyInv(p)'
    BY <1>1 DEF Prompting!DeputyDies, DeputyInv, Over, Past, Unsaid, Said
  <2>3. StageInv(p)'
    BY <1>1 DEF Prompting!DeputyDies, StageInv
  <2>4. TruthInv(p)'
    BY <1>1 DEF Prompting!DeputyDies, TruthInv, NeverSent, Past, Over
  <2>5. QED
    BY <2>1, <2>2, <2>3, <2>4
<1>2. CASE Prompting!KernelDies
  <2>1. KindInv(p)'
    BY <1>2 DEF Prompting!KernelDies, Prompting!Leave, KindInv, Prompting!Replies, Prompting!Links,
                Prompting!Results
  <2>2. DeputyInv(p)'
    BY <1>2 DEF Prompting!KernelDies, Prompting!Leave, DeputyInv, Over, Past, Unsaid, Said,
                KindInv, Prompting!Links
  <2>3. StageInv(p)'
    BY <1>2 DEF Prompting!KernelDies, Prompting!Leave, StageInv
  <2>4. TruthInv(p)'
    BY <1>2 DEF Prompting!KernelDies, Prompting!Leave, TruthInv, NeverSent, Past, Over, NotSent,
                Unsaid, Said
  <2>5. QED
    BY <2>1, <2>2, <2>3, <2>4
<1>3. QED
  BY <1>1, <1>2

LEMMA InvNext == IInv /\ [Prompting!Next]_Prompting!vars => IInv'
<1> SUFFICES ASSUME IInv, [Prompting!Next]_Prompting!vars PROVE IInv'
  OBVIOUS
<1>1. ASSUME NEW p \in Prompts,
    Prompting!Task(p) \/ Prompting!Worker(p) \/ Prompting!Deputy(p) \/ Prompting!Panic(p) PROVE IInv'
  <2>1. Shape' /\ \A q \in Prompts \ {p} : Same(q)
    BY <1>1, OneTask, OneWorker, OneThread DEF IInv
  <2>2. PromptInv(p)'
    BY <1>1, TaskStep, WorkerStep, ThreadStep DEF IInv
  <2>3. ASSUME NEW q \in Prompts, q # p PROVE PromptInv(q)'
    BY <2>1, <2>3, SameKeeps DEF IInv
  <2>4. QED
    BY <2>1, <2>2, <2>3 DEF IInv
<1>2. CASE Prompting!DeputyDies \/ Prompting!KernelDies
  <2>1. Shape'
    BY <1>2 DEF IInv, Shape, Prompting!DeputyDies, Prompting!KernelDies, Prompting!kernel,
                Prompting!deputy
  <2>2. QED
    BY <1>2, <2>1, DeathStep DEF IInv
<1>3. CASE UNCHANGED Prompting!vars
  <2>1. Shape' /\ \A q \in Prompts : Same(q)
    BY <1>3 DEF IInv, Shape, Same, Prompting!vars
  <2>2. QED
    BY <2>1, SameKeeps DEF IInv
<1>4. QED
  BY <1>1, <1>2, <1>3 DEF Prompting!Next

LEMMA Invariance == Prompting!Spec => []IInv
<1>1. QED
  BY InvInit, InvNext, PTL DEF Prompting!Spec

\* The outcome record and the caller's "unavailable" are true of the content for good, for
\* every number of prompts, slots and faults: what a worker that was given up, a late
\* deputy, a panic or a death does afterwards never belies them (session.prompt, send,
\* spawn_contained).
THEOREM OutcomesAreTrue == Prompting!Spec => []OutcomeTrue
<1>1. IInv => OutcomeTrue
  BY DEF IInv, PromptInv, TruthInv, NeverSent, OutcomeTrue
<1>2. QED
  BY <1>1, Invariance, PTL

\* Content that left has a durable intent, for every number of prompts, slots and faults
\* (commit_intent before the worker is spawned).
THEOREM IntentIsAhead == Prompting!Spec => []IntentAhead
<1>1. IInv => IntentAhead
  BY DEF IInv, PromptInv, DeputyInv, StageInv, IntentAhead
<1>2. QED
  BY <1>1, Invariance, PTL
=============================================================================
