---------------------------- MODULE Credentials ----------------------------
(***************************************************************************)
(* The plane credential of a process (maknae-vault client.rs,              *)
(* supervisor.rs, supervisor_run.rs; run.rs for the daemon around it): a    *)
(* Vault token with a lease and a leaf certificate signed under it. The     *)
(* credential supervisor renews the token and rotates the leaf on one loop, *)
(* each on its own deadline, one attempt per wake; it clears the identity   *)
(* when a deadline cannot be met. Every request to Vault may be refused,    *)
(* time out, or be done with its answer lost.                              *)
(*                                                                         *)
(* Time is in whole seconds. The supervisor's clock is monotonic; a leaf's  *)
(* validity is in wall time, which may be stepped.                         *)
(***************************************************************************)
EXTENDS Integers, FiniteSets

CONSTANTS
  Http,       \* PLANE_HTTP_TIMEOUT
  Leases,     \* token leases Vault may grant
  Ttls,       \* leaf lifetimes Vault may issue
  MaxTime,    \* bound: seconds followed
  Steps,      \* seconds the wall clock may be stepped by
  MaxSteps    \* bound: steps of the wall clock

ASSUME CredentialsAssumption ==
  /\ Http \in Nat \ {0}
  /\ Leases \subseteq Nat
  /\ Ttls \subseteq Nat \ {0}    \* leaf_validity_unix refuses an empty window
  /\ MaxTime \in Nat
  /\ Steps \subseteq Nat
  /\ MaxSteps \in Nat

VARIABLES
  now,        \* the monotonic clock
  skew,       \* wall clock minus monotonic clock
  steps,      \* ghost: steps of the wall clock so far
  stepped,    \* ghost: when it was last stepped
  source,     \* PlaneTokenSource: a login of our own, or the user's stored token
  tok,        \* the token at Vault: issued to us, its expiry, revoked; and a ghost: the expiry
              \* of the last lease it told us
  lease,      \* lease_secs, as the loop reads it once when it begins
  leaf,       \* leaf_issued_at and leaf_ttl_secs
  identity,   \* PlaneClient.identity: "none" or "leaf"
  slot,       \* the listener's certificate slot: "unbound", "empty" or "leaf"
  proc,       \* where the process is
  since,      \* when its request to Vault or its wait for the client began
  sup,        \* where the supervisor is
  sent,       \* when its request to Vault began
  wake,       \* when it wakes
  due,        \* token_deadline
  expires,    \* token_expires_at
  tries,      \* token_attempt, as far as retry_action tells them apart
  backoff,    \* leaf_backoff_until, NoBackoff for None
  leafTries,  \* leaf_attempt, likewise
  aborted     \* the supervisor's task was aborted

clocks  == <<now, skew, steps, stepped>>
vault   == <<source, tok>>
held    == <<lease, leaf, identity, slot>>
daemon  == <<proc, since>>
plan    == <<wake, due, expires, tries, backoff, leafTries>>
vars == <<now, skew, steps, stepped, source, tok, lease, leaf, identity, slot, proc, since,
          sup, sent, wake, due, expires, tries, backoff, leafTries, aborted>>

Least(a, b) == IF a < b THEN a ELSE b
Most(a, b)  == IF a > b THEN a ELSE b

NoBackoff == 0
NoToken   == [issued |-> FALSE, until |-> 0, revoked |-> FALSE, told |-> 0]
NoLeaf    == [born |-> 0, ttl |-> 0]

Wall == now + skew

-----------------------------------------------------------------------------
(* The decisions: supervisor.rs *)

RenewAfter(l) == Most((l * 2) \div 3, 1)

MaxTries == 6

Backoff(n) == Least(2 ^ Least(n, MaxTries), 30)

Headroom == 2

\* Faulty retry_action: a retry is always worth it.
GivesUpNever(remaining, n) == FALSE

\* retry_action: no time for the backoff and one more attempt.
GivesUp(remaining, n) == remaining <= Backoff(n) + Headroom

\* leaf_age_and_ttl_secs: the age saturates at zero.
LeafAge == Most(Wall - leaf.born, 0)

RotateNow == leaf.ttl > 0 /\ LeafAge * 3 >= leaf.ttl * 2

\* ceil(2 ttl / 3), the first age at which RotateNow holds.
RotateAge == (leaf.ttl * 2 + 2) \div 3

\* The rotation deadline; a client without a leaf has none.
LeafDues ==
  IF backoff # NoBackoff THEN {backoff}
  ELSE IF leaf.ttl = 0 THEN {} ELSE {now + Most(RotateAge - LeafAge, 0)}

\* Faulty next_wake: the leaf is looked at when the token wakes the loop.
TokenWake == Most(due, now)

NextWake ==
  LET first == CHOOSE d \in {due} \union LeafDues : \A e \in LeafDues : d <= e /\ d <= due
  IN  Most(first, now)

-----------------------------------------------------------------------------
(* Taking a credential and giving it back: client.rs *)

Init ==
  /\ now = 0 /\ skew = 0 /\ steps = 0 /\ stepped = 0
  /\ source \in {"approle", "user"}
  /\ tok = NoToken
  /\ lease = 0
  /\ leaf = NoLeaf
  /\ identity = "none"
  /\ slot = "unbound"
  /\ proc = "login"
  /\ since = 0
  /\ sup = "none"
  /\ sent = 0
  /\ wake = 0 /\ due = 0 /\ expires = 0
  /\ tries = 0 /\ backoff = NoBackoff /\ leafTries = 0
  /\ aborted = FALSE

\* mint: log in, or use the stored token as it is. Vault counts the lease from when it answered.
Login ==
  /\ proc = "login"
  /\ \/ /\ source = "approle"
        /\ \E l \in Leases, p \in since .. now :
             /\ tok' = [issued |-> TRUE, until |-> p + l, revoked |-> FALSE, told |-> p + l]
             /\ lease' = l
     \/ /\ source = "user"
        /\ \E l \in Leases :
             tok' = [issued |-> FALSE, until |-> now + l, revoked |-> FALSE, told |-> 0]
        /\ UNCHANGED lease
  /\ proc' = "sign"
  /\ since' = now
  /\ UNCHANGED <<clocks, source, leaf, identity, slot, sup, sent, plan, aborted>>

LoginFails ==
  /\ proc = "login"
  /\ source = "approle"
  /\ proc' = "exited"
  /\ UNCHANGED <<clocks, vault, held, since, sup, sent, plan, aborted>>

Valid(p) == p < tok.until /\ ~tok.revoked

\* sign_leaf, leaf_validity_unix and the commit under the identity lock. The
\* supervisor is spawned as soon as a daemon has minted.
Mint ==
  /\ proc = "sign"
  /\ \E p \in since .. now, t \in Ttls :
       /\ Valid(p)
       /\ leaf' = [born |-> p + skew, ttl |-> t]
  /\ identity' = "leaf"
  /\ IF source = "approle"
     THEN proc' = "startup" /\ sup' = "spawned"
     ELSE proc' = "serving" /\ UNCHANGED sup
  /\ since' = 0
  /\ UNCHANGED <<clocks, vault, lease, slot, sent, plan, aborted>>

\* revoke_minted_token, for every failure after the login.
MintFails ==
  /\ proc = "sign"
  /\ since' = now
  /\ proc' = IF source = "approle" THEN "revoking" ELSE "exited"
  /\ UNCHANGED <<clocks, vault, held, sup, sent, plan, aborted>>

\* attach_cert_sink, under the identity's read lock: an expiry is before or after it.
Attach ==
  /\ proc = "startup"
  /\ slot = "unbound"
  /\ slot' = IF identity = "leaf" THEN "leaf" ELSE "empty"
  /\ UNCHANGED <<clocks, vault, lease, leaf, identity, daemon, sup, sent, plan, aborted>>

\* The accept loop runs; a daemon that is to have no listener has attached none.
Serve ==
  /\ proc = "startup"
  /\ proc' = "serving"
  /\ UNCHANGED <<clocks, vault, held, since, sup, sent, plan, aborted>>

\* Faulty Drop of CertSinkGuard: the slot stays registered with the client.
DropListenerRegistered == slot

\* CertSinkGuard: the slot is emptied and no longer the client's.
DropListener == "unbound"

\* A group, bind or signal step fails: serve_after_mint returns, the listener is dropped.
StartupFails ==
  /\ proc = "startup"
  /\ proc' = "stopped"
  /\ slot' = DropListener
  /\ UNCHANGED <<clocks, vault, lease, leaf, identity, since, sup, sent, plan, aborted>>

\* A signal or a drain ends the loop: the supervisor is aborted and reaped within
\* a bound. Without a listener nothing is reaped here.
Signal ==
  /\ proc = "serving"
  /\ IF slot = "unbound"
     THEN proc' = "stopped" /\ UNCHANGED aborted
     ELSE proc' = "reaping" /\ aborted' = TRUE
  /\ UNCHANGED <<clocks, vault, held, since, sup, sent, plan>>

SupervisorExited ==
  /\ proc = "serving"
  /\ sup = "gone"
  /\ proc' = "draining"
  /\ UNCHANGED <<clocks, vault, held, since, sup, sent, plan, aborted>>

\* The abort took effect, or SUPERVISOR_ABORT_REAP_TIMEOUT passed.
Reap ==
  /\ proc = "reaping"
  /\ proc' = "draining"
  /\ UNCHANGED <<clocks, vault, held, since, sup, sent, plan, aborted>>

\* The handlers are drained and the listener goes with the last of them.  A handler still
\* pinned when the abort's own bound passes (drain_handlers_bounded) keeps its acceptor
\* until the runtime's shutdown; nothing presents the leaf on it, as its task is aborted.
Drained ==
  /\ proc = "draining"
  /\ proc' = "stopped"
  /\ slot' = DropListener
  /\ UNCHANGED <<clocks, vault, lease, leaf, identity, since, sup, sent, plan, aborted>>

\* run_inner aborts the supervisor on every path; then shutdown.
Retire ==
  /\ proc = "stopped"
  /\ aborted' = TRUE
  /\ slot' = IF slot = "unbound" THEN slot ELSE "empty"
  /\ identity' = "none"
  /\ since' = now
  /\ proc' = IF source = "approle" THEN "waiting" ELSE "exited"
  /\ UNCHANGED <<clocks, vault, lease, leaf, sup, sent, plan>>

InVault == sup \in {"rotating", "signed", "renewing"}    \* holds the client lock

TakeClient ==
  /\ proc = "waiting"
  /\ ~InVault
  /\ proc' = "revoking"
  /\ since' = now
  /\ UNCHANGED <<clocks, vault, held, sup, sent, plan, aborted>>

\* The client stayed busy for PLANE_HTTP_TIMEOUT: the token lives to its end.
SkipRevoke ==
  /\ proc = "waiting"
  /\ now = since + Http
  /\ InVault
  /\ proc' = "exited"
  /\ UNCHANGED <<clocks, vault, held, since, sup, sent, plan, aborted>>

Revoke ==
  /\ proc = "revoking"
  /\ tok' = [tok EXCEPT !.revoked = TRUE]
  /\ proc' = "exited"
  /\ UNCHANGED <<clocks, source, held, since, sup, sent, plan, aborted>>

RevokeFails ==
  /\ proc = "revoking"
  /\ proc' = "exited"
  /\ UNCHANGED <<clocks, vault, held, since, sup, sent, plan, aborted>>

-----------------------------------------------------------------------------
(* The supervisor: supervisor_loop *)

\* The task ends, and its variables with it.
Ends ==
  /\ sup' = "gone"
  /\ sent' = 0
  /\ wake' = 0 /\ due' = 0 /\ expires' = 0
  /\ tries' = 0 /\ backoff' = NoBackoff /\ leafTries' = 0

\* expire_now: slot, then identity, under the identity's write lock.
Expire ==
  /\ identity' = "none"
  /\ slot' = IF slot = "unbound" THEN slot ELSE "empty"
  /\ Ends

Begin ==
  /\ sup = "spawned"
  /\ \/ lease = 0 /\ Expire
     \/ /\ lease > 0
        /\ due' = now + RenewAfter(lease)
        /\ expires' = now + lease
        /\ tries' = 0 /\ backoff' = NoBackoff /\ leafTries' = 0
        /\ sup' = "planning"
        /\ UNCHANGED <<identity, slot, sent, wake>>
  /\ lease' = 0    \* read
  /\ UNCHANGED <<clocks, vault, leaf, daemon, aborted>>

Sleep ==
  /\ sup = "planning"
  /\ wake' = NextWake
  /\ sup' = "sleeping"
  /\ UNCHANGED <<clocks, vault, held, daemon, sent, due, expires, tries, backoff, leafTries, aborted>>

\* The rotation is behind us in this wake: renew if that is due, and sleep again.
AfterRotation ==
  IF now >= due THEN sup' = "renewing" /\ sent' = now ELSE sup' = "planning" /\ UNCHANGED sent

Wake ==
  /\ sup = "sleeping"
  /\ now >= wake
  /\ IF now >= backoff /\ RotateNow    \* NoBackoff is never ahead of now
     THEN sup' = "rotating" /\ sent' = now
     ELSE AfterRotation
  /\ UNCHANGED <<clocks, vault, held, daemon, plan, aborted>>

Signed ==
  /\ sup = "rotating"
  /\ \E p \in sent .. now : Valid(p)
  /\ sup' = "signed"
  /\ UNCHANGED <<clocks, vault, held, daemon, sent, plan, aborted>>

\* rotate_leaf's commit. Nothing is awaited between the answer and this, so an
\* abort cannot stop it.
InstallLeaf ==
  /\ sup = "signed"
  /\ \E p \in sent .. now, t \in Ttls :
       /\ Valid(p)
       /\ leaf' = [born |-> p + skew, ttl |-> t]
  /\ identity' = "leaf"
  /\ slot' = IF slot = "unbound" THEN slot ELSE "leaf"
  /\ backoff' = NoBackoff
  /\ leafTries' = 0
  /\ AfterRotation
  /\ UNCHANGED <<clocks, vault, lease, daemon, wake, due, expires, tries, aborted>>

\* Faulty loop: a failed rotation is tried again at once.
RotateFailsInline ==
  /\ sup = "rotating"
  /\ IF GivesUp(Most(leaf.ttl - LeafAge, 0), leafTries + 1)
     THEN Expire
     ELSE /\ leafTries' = Least(leafTries + 1, MaxTries)
          /\ sent' = now
          /\ UNCHANGED <<sup, identity, slot, wake, due, expires, tries, backoff>>
  /\ UNCHANGED <<clocks, vault, lease, leaf, daemon, aborted>>

RotateFails ==
  /\ sup = "rotating"
  /\ IF GivesUp(Most(leaf.ttl - LeafAge, 0), leafTries + 1)
     THEN Expire
     ELSE /\ leafTries' = Least(leafTries + 1, MaxTries)
          /\ backoff' = now + Backoff(leafTries + 1)
          /\ AfterRotation
          /\ UNCHANGED <<identity, slot, wake, due, expires, tries>>
  /\ UNCHANGED <<clocks, vault, lease, leaf, daemon, aborted>>

\* Vault renews: the lease runs from when it did, our estimate from its answer.
Renewed ==
  /\ sup = "renewing"
  /\ \E l \in Leases, p \in sent .. now :
       /\ Valid(p)
       /\ tok' = [tok EXCEPT !.until = p + l, !.told = p + l]
       /\ IF l = 0
          THEN Expire
          ELSE /\ tries' = 0
               /\ due' = now + RenewAfter(l)
               /\ expires' = now + l
               /\ sup' = "planning"
               /\ UNCHANGED <<identity, slot, sent, wake, backoff, leafTries>>
  /\ UNCHANGED <<clocks, source, lease, leaf, daemon, aborted>>

\* An error or a timeout. Vault may have renewed all the same.
RenewFails ==
  /\ sup = "renewing"
  /\ \/ UNCHANGED tok
     \/ \E l \in Leases, p \in sent .. now :
          Valid(p) /\ l > 0 /\ tok' = [tok EXCEPT !.until = p + l]
  /\ IF GivesUp(Most(expires - now, 0), tries + 1)
     THEN Expire
     ELSE /\ tries' = Least(tries + 1, MaxTries)
          /\ due' = now + Backoff(tries + 1)
          /\ sup' = "planning"
          /\ UNCHANGED <<identity, slot, sent, wake, expires, backoff, leafTries>>
  /\ UNCHANGED <<clocks, source, lease, leaf, daemon, aborted>>

\* An aborted task is dropped where it awaits.
Dropped ==
  /\ aborted
  /\ sup \in {"spawned", "sleeping", "rotating", "renewing"}
  /\ Ends
  /\ UNCHANGED <<clocks, vault, held, daemon, aborted>>

-----------------------------------------------------------------------------
\* What runs without waiting, and waits whose bound is reached, come before the next second.
Urgent ==
  \/ sup \in {"spawned", "planning", "signed"}
  \/ sup = "sleeping" /\ now >= wake
  \/ sup \in {"rotating", "renewing"} /\ now >= sent + Http
  \/ proc \in {"login", "sign", "revoking", "waiting"} /\ now >= since + Http
  \/ proc = "serving" /\ sup = "gone"
  \/ proc \in {"reaping", "stopped"}

Tick ==
  /\ now < MaxTime
  /\ ~Urgent
  /\ proc # "exited"
  /\ now' = now + 1
  /\ UNCHANGED <<skew, steps, stepped, vault, held, daemon, sup, sent, plan, aborted>>

\* The wall clock is set forward, or the host sleeps while CLOCK_MONOTONIC stands still.
StepWall ==
  /\ steps < MaxSteps
  /\ identity = "leaf"    \* nothing else is in wall time
  /\ \E s \in Steps : skew' = skew + s
  /\ steps' = steps + 1
  /\ stepped' = now
  /\ UNCHANGED <<now, vault, held, daemon, sup, sent, plan, aborted>>

Next ==
  \/ Login \/ LoginFails \/ Mint \/ MintFails
  \/ Attach \/ Serve \/ StartupFails
  \/ Signal \/ SupervisorExited \/ Reap \/ Drained
  \/ Retire \/ TakeClient \/ SkipRevoke \/ Revoke \/ RevokeFails
  \/ Begin \/ Sleep \/ Wake \/ Signed \/ InstallLeaf \/ RotateFails
  \/ Renewed \/ RenewFails \/ Dropped
  \/ Tick \/ StepWall

Spec == Init /\ [][Next]_vars

-----------------------------------------------------------------------------
(* Properties *)

Supervised == proc \in {"startup", "serving"} /\ source = "approle" /\ identity = "leaf"

\* When the leaf ended, on the monotonic clock: as time passed or as the wall was stepped.
LeafEnd == Most(leaf.born + leaf.ttl - skew, stepped)

\* A daemon presents a leaf at most three Vault timeouts past its end, whatever
\* Vault answers: the answer that brought it came late, a renewal was in the
\* way, and a last rotation. The supervisor clears the identity by then.
\* supervisor_run.rs says its clock is immune to steps of the wall clock; where
\* MaxSteps is not 0, this says so too.
LeafInTime == Supervised => now <= LeafEnd + 3 * Http

\* The wall clock is stepped, all in all, by no more than what a retry leaves of
\* a leaf's life, and no more than what a planned rotation leaves of it.
StepsSmall ==
  \A s \in Steps :
    MaxSteps * s <= Headroom + 1 /\ \A t \in Ttls : MaxSteps * s <= t \div 3

\* A daemon keeps its identity at most four Vault timeouts past the end of the
\* last lease Vault told it of: the estimate starts late by the login and the
\* signing, or by one renewal, and a rotation and the last renewal may be in the
\* way. (A renewal whose answer is lost may give the token another end, earlier
\* or later, that the daemon cannot know.)
TokenInTime == Supervised => now <= tok.told + 4 * Http

\* However rotations fail, a due renewal is tried within one Vault timeout.
RenewalNotStarved ==
  sup \in {"planning", "sleeping", "rotating", "signed"} => now <= due + Http

\* After shutdown retired the credential no listener presents a leaf again, also
\* when a rotation that was aborted too late installs its leaf.
RetirementIsFinal ==
  proc \in {"waiting", "revoking", "exited"} => slot # "leaf"

TypeOK ==
  /\ now \in Nat /\ skew \in Nat /\ steps \in 0 .. MaxSteps /\ stepped \in Nat
  /\ source \in {"approle", "user"}
  /\ tok \in [issued : BOOLEAN, until : Nat, revoked : BOOLEAN, told : Nat]
  /\ lease \in Nat
  /\ leaf \in [born : Nat, ttl : Nat]
  /\ identity \in {"none", "leaf"}
  /\ slot \in {"unbound", "empty", "leaf"}
  /\ proc \in {"login", "sign", "startup", "serving", "reaping", "draining", "stopped",
               "waiting", "revoking", "exited"}
  /\ since \in Nat
  /\ sup \in {"none", "spawned", "planning", "sleeping", "rotating", "signed", "renewing", "gone"}
  /\ sent \in Nat /\ wake \in Nat /\ due \in Nat /\ expires \in Nat
  /\ tries \in 0 .. MaxTries /\ leafTries \in 0 .. MaxTries
  /\ backoff \in Nat
  /\ aborted \in BOOLEAN
=============================================================================
