# TLA+ models of maknaed

maknae is an agent runtime whose kernel daemon, `maknaed`, decides what every subject may do, keeps
the policy it enforces in a sealed store, records every decision in an audit trail before it answers,
and can be reconfigured while it serves. This directory models the part of it where order, failure and
concurrency decide whether it is right: the store and its recovery, the trail, the breakers around
blocking work, the three-way merge of the bindings, the turn under which all of it is changed at run
time, the accept loop, the filesystem attempts a subject makes under the kernel's eyes, the way of a
prompt to its provider, the credential of each process, the decision itself, and the layer of identities it reads.
Every definition is
translated from the source under `src/`; `PROJECT.json` maps each one to its lines.

Paths below are relative to `src/crates/` unless they start with `src/`.

## Inventory

| Part | State it keeps | Operations | Module |
|---|---|---|---|
| Kernel graph store (`maknae-state` store.rs, anchor.rs; the start in `maknae-kernel` run.rs) | `kernel.graph`, mirror, reseed marker, revision floor, the trail's newest checkpoint | assess, load, migrate, seed, reseed, transition, persist, checkpoint, mirror | `GraphStore` |
| Kernel blocking breaker (`maknae-kernel` blocking_guard.rs and its callers) | in-flight count, consecutive timeouts, opened-at | admit, record success, record timeout, half-open probe | `BreakerLimits`, `BlockingGuard` |
| Audit sink (`maknae-audit-append` sink.rs, blocking_guard.rs; `maknae-io` audit_append.rs) | the trail file, in-flight slots, stale reclaims, the failed flag | open, append, write, sync, give up, reclaim | `AuditSink` |
| Bindings sync and containment (`maknae-config` bindings_sync.rs, mirror.rs; `maknae-kernel` sync.rs; `src/bins/maknae` policy_sync.rs) | file, stored base/live/conflicts, mirror, lost and stale flags | load and merge, contain, release, publish mirror, policy sync | `BindingsSync` |
| Reload and drain (`maknae-kernel` run.rs, reload.rs, composition.rs, handler.rs) | the turn, stopping, drain, installed snapshot and live values, the live turn | reload, live edit, accept, drain, stop | `Reloader` |
| Accept loop and connection handler (`maknae-kernel` run.rs, session.rs, live.rs) | permits, refusal queue, dropped counter, the installed generation | accept, refuse, admit, decide, record, answer, drain, stop | `Serving` |
| Mutation exchange (`maknae-kernel` mutation.rs, mutation_exchange.rs, uid_gate.rs; `maknae-loop` and `maknae-io` mutation.rs) | uid claims, permits, each exchange's index and seen paths, the client's walk | prepare, intend, grant, perform, report, acknowledge, finish, give up | `EffectLedger`, `Mutation` |
| Egress plane (`maknae-kernel` run.rs, egress.rs, egress_socket.rs; `src/bins/maknae-egress` serve.rs) | the send worker, the connection, the deputy's slots | intend, connect, write, read, serve, call, reply, record | `EgressTrail`, `Egress` |
| Vault client and credential supervisor (`maknae-vault` client.rs, supervisor.rs, supervisor_run.rs) | token and lease, leaf, deadlines, retries, certificate slot | log in, sign, renew, rotate, retry, fail closed, retire, revoke | `Credentials` |
| Decision and composition (`maknae-security` compose.rs; `maknae-authz-basic` decide.rs, lib.rs; `maknae-config` authz.rs) | none | match globs, apply lists and roles, apply the ceiling, fold verdicts | `Decision` |
| Identity layer (`maknae-graph` identity.rs; `maknae-authz-basic` binding.rs, snapshot.rs) | the subjects of the stored graph, the names held against contained ones | resolve, carry forward, release, build, compile | `Identity` |
| Agent drive loop (`maknae-agent` drive.rs, budget.rs) | transcript, budgets | step, tool call, stop | planned |
| Enrolment and login (`src/bins/maknae`) | files and Vault objects | enrol, undo, log in | planned |

Not modelled for good: the configuration loader, the wire and record formats, the cryptography, the
message catalogue, the system-call facts and the language-model client. They are parsers, encoders or
single-shot predicates without state of their own; tests and fuzzing reach them. `PROJECT.json` gives
the reason for each.

### How the parts interact

A start logs in to Vault and takes a leaf (`Credentials`), opens the trail (`AuditSink`), finds its
newest checkpoint, judges the store by it and loads, migrates or seeds (`GraphStore`), merging
`bindings.yaml` with the stored live section (`BindingsSync`). The daemon then serves (`Serving`): a
connection takes a permit, a request is decided (`Decision`) on a blocking thread behind a breaker
(`BlockingGuard`), recorded and answered. A prompt leaves for the egress daemon (`Egress`), a filesystem
verb becomes an exchange in which the client does the work and the kernel keeps the books (`Mutation`),
and an administrative request joins reloads (SIGHUP) and baseline accepts in taking *the turn*, one at a
time (`Reloader`); each of those ends in a commit of the store, which records its intent in the trail,
persists, and records a checkpoint. A restart-class accept drains the daemon and ends the process, and a
live-class one holds the live turn across its persist. `maknae policy sync` is another process: it reads
the mirror the daemon publishes and replaces the file.

The seams between modules are values. `GraphStore` takes a commit's content as an input, `BindingsSync`
takes a commit as one step that may fail, `Reloader` takes a load as "some new containments" and a
commit as write-ahead, publish, checkpoint; `Serving`, `Mutation` and `Egress` take an append as a step
that is acknowledged or not, and where it is not, `Mutation` and `Egress` let the record land later or
never, as `AuditSink` shows it may. A verdict is a choice wherever it is taken, and `Decision` says which one it
is. Each seam is the more general side: a behaviour of the composition maps to a behaviour of each
module, and nothing in one module assumes what another checks. One theorem has a hypothesis another
module gives: `ContainedIsShutOut` speaks of a graph with a bindings section, and that the section does
not go away under a daemon is `ExplicitAgree` and the handling of a lost file in `BindingsSync`.

### What is hard here

* a crash or a power loss between any two steps of a persist, and the next start's judgement of it;
* an append whose caller gave up and which lands later, or never;
* two reads of the same file in one start, with an operator in between;
* blocking workers that cannot be cancelled and outlive their callers: decisions, appends, preparations
  of a mutation, a client's system call, the sending of a prompt;
* root, the daemon and an unattended sync changing the same bindings;
* authority checked before a wait and used after it;
* a stop, a drain, a panic or an abort in the middle of an accept;
* an outcome to be recorded by one who cannot know it: a deputy that died, a client that stopped
  reporting, a worker that was given up;
* two credentials with their own deadlines and retries on one loop, over two clocks.

`PROJECT.json` lists these as hazards at the lines where they bite, with the properties that cover them.

## Modules

### GraphStore

State: `disk` is the state directory as the process sees it and `safe` what a power loss falls back to;
`trail` the audit records, `anchor` the newest checkpoint of the trail in use; `floor`, `mem`, `input`,
`job` and `queued` are the process's memory; `late` the records of unconfirmed appends whose worker may
still write them. `excused`, `top` and `overtaken` are ghosts: what an operator did to the store or a
power loss undid, the highest revision checkpointed in the trail in use, and whether a checkpoint below
it landed late, behind it. A graph is abstracted to its baseline, sync base, one watched containment and
vocabulary, and a digest is the number of the seal that made it.

Actions: `Open`, `PeekSync`, `BootRefuse`, `BootLoad`, `BootSeed` are a start in the order of its reads
and refusals; `AppendAhead`, `Preserve`, `RemoveMirror`, `Publish`, `RemoveMarker`, `WriteCheckpoint`,
`PublishMirror` are one change of the store, step by step, each of which may fail; `CommitReload`,
`CommitAccept`, `CommitLive` begin a change of a serving daemon. `Crash`, `PowerLoss`, `PlaceMarker`,
`TouchStore`, `RotateTrail` are the host and the operator, who touches the store with the daemon down,
between the reads of a start, or while it serves. The writer mutex of the sink is std's and serves its
waiters in no order, so `LandLate` writes any record of `late`, at any later time, also behind newer ones.

### BlockingGuard

`BreakerLimits` declares the caps, the state and the bound on a wedge, `BlockingGuard` the steps.
`inFlight`, `timeouts` and `opened` are the fields of `BlockingBreaker`; `caller` says where each
request is; `orphans` are workers whose caller gave up. `backend` is chosen at the start: it answers, if
slowly, or it is wedged and never does. `Begin`, `Return`, `Expire`, `RecordSuccess`, `RecordTimeout`
are one guarded call with its outcome recorded after a wait for the breaker's lock; `Cool` is the
cooldown.

### AuditSink

`file` is the trail line by line and `durable` how many lines a power loss cannot take; `inFlight`,
`stale` and `reclaims` are the append breaker; `worker` and `caller` are the two ends of each append,
`failed` and `poisoned` how the writer refuses after a fault. `Lock`, `Write`, `Sync`, `Panic` are the
worker, which goes on when its caller gives up (`GiveUp`). `Open` admits a trail only if its last line is
whole.

### BindingsSync

`file` is `bindings.yaml`, `store` the stored `[base, live, conflicts, revision]`, `mirror` the published
mirror, `daemon` the load in progress, `sync` the policy sync in progress; `by` is a ghost that says who
gave each entry its value: root, a sync at a terminal, an unattended one, or one that is late because the
daemon committed between its last check and its rename. `Merged` is the entry-by-entry three-way merge, `LiveEdit` contain and
release with their effect on conflicts, `SyncPlan`, `RecheckMirror`, `RecheckFile`, `Install` the policy
sync with both of its rechecks. The order and the text of a section are left out: nothing that is
enforced depends on them. `bind` and `unbind` are edits of the code without a verb that reaches them yet
(issue 164); the module has them and the run does not use them. Containments carried forward because
their name no longer resolves are in `Identity`.

### Reloader

`turn` is `Reloader.lock`, `drain` and `stopping` the two watches, `store`, `persisted`, `revision`,
`snap` and `live` the five places a graph or a part of it is kept: disk, the daemon's copy, its counter,
the installed snapshot, the installed live values. `sharing` are the decisions that share the live turn,
`held` and `sent` the blocking thread that holds it for an accept. `pc` and `job` follow each handler and
the reload task.

A handler decides a request, waits for the turn (`EnterTurn`, `RefuseTurn`, `Busy`), plans
(`PlanLive`, `PlanAccept`), takes the live turn if its accept is live-class (`TakeLive`), commits
(`WriteAhead`, `Publish`, `BeginCheckpoint`, `Checkpoint` and their failures), settles and reports. The
reload task does the same from `Hup`. Steps are split where the code awaits or another thread can see
the difference; between "ready" and "published" and after "committed" the code does not await, and an
abort cannot land there. A panic can land at every step of an operation, the reload's included. `Panic`
and `Abort` drop the operation and run `DrainGuard`, which helps an accept that has begun its drain or
settled; `torn` and `behind` are ghosts that note a panic between a persist and its settling, and one
between the counter and the install of a live edit (`SettleLive`, `InstallEdit`). `Signal`,
`StopOnDrain`, `SupervisorExits` and the rest of `Shutdown` are the stop, including a stop that gives up
on the turn or is dropped while it waits. Containments the kernel starts on its own take the same path
without a requester and are left out.

### Serving

`loop` is where `accept_loop` is, `at`, `rec` and `next` where each connection's task is and which record
it is appending; `newest` is the newest acknowledged record about its request, `wire` the frame written
whole to the peer, and `cut` the one whose write failed or timed out, which the code does not tell from
the other. A payload is the answer of an operation and a refusal the view an accept or a containment
returns behind a record that corrects the permit. `queue`, `dropped`, `uncounted` and `drainer` are the refusals at the cap: a bounded
queue, a counter for what does not fit, and one task that drains both. `admitted`, `decided` and `gen`
are the generations of `live.rs`. `settled`, `lost` and `unsure` are ghosts: whose last record is on the
trail, whose was given up, whose handling was cut short.

`AcceptConn`, `RefuseConn`, `CountDropped` are an iteration of the loop, `Receive`, `DrainAppends`,
`Flush`, `DrainEnds` the drainer, `Handshake` … `Terminate` a handler from its handshake to its closing
record, with `Acknowledged` and `NotAcknowledged` for every append; `Install` is a live install.
`Stop`, `StopStep`, `DrainHandlers`, `Return` are the shutdown, which aborts the handlers it did not see
end. A prompt, a filesystem verb and an administrative operation are one step here. A handler that
panics, which leaves its session without a termination record, is left out.

### EffectLedger and Mutation

`EffectLedger` is what a delegated attempt promises whoever reads the trail: `Intend` before anything,
then `Perform` and `Log` in turn, each effect on the trail before the next is performed, and `Close` only
over a whole account. `Mutation` is the protocol. `claims` and `permits` are `UidGate` and the exchange
capacity, `prep` the blocking worker that prepares and decides, `kern` the handler with its
`MutationExchange` (the next index, the paths seen, whether it ended); `toCli` and `toKern` are the two
directions of the connection; `cli` is the client's attempt, `wk` its blocking worker with the stack of
its walk, `disk` the tree and `eff` the effects performed. `trail` and `landing` are the durable records
and those that may still become so.

A path is the sequence of its names below the held directory. The requests of `Faithful` are driven by
`maknae-loop`; the others by a peer that reports anything in `Claimed` and closes when it likes. The
kernel's steps are `Admit`, `Prepared`, `PrepTimesOut`, `OrphanEnds`, `Refuse`, `CommitIntent`,
`SendGrant`, `ReadReport`, `RecordReport`, `SendAck`, `WriteIncomplete`, `KernelLate`; the client's
`GrantArrives`, `Aim` (the next target of an exact operation, of a recursive delete or of a mkdir with
parents), `RemoveEntry`, `Descend`, `MakeDirectory`, `PassDirectory`, `DoExact`, `CallRefused`,
`StepReturns`, `AckArrives`, `ClientLate`, `Quit`. `Killed`, `DaemonDies` and `OtherProcess` are the
environment. The refinement mapping `Ledger` reads the ledger off the trail and the effects.

### Egress

`EgressTrail` declares the state and what the trail promises, `Egress` the steps.
`task` is the kernel's task for a prompt, `worker` the blocking thread that sends, `result` and `told`
what it returned and what the task goes on with, `intent`, `outcome`, `answer` what was recorded and
said; `conn`, `frame` and `reply` are the connection; `thread`, `lane` and `word` the deputy's thread, the
kind of slot it holds and the reply it is about to write; `left` is the ghost the properties are about:
the prompts whose content went out. The task gives up at its deadline (`GiveUp`) and the worker goes on.
The deputy serves a connection in a slot, refuses it in a refusal slot, or closes it (`Accept`); a
panicking thread answers what it can still say truthfully (`Panic`). `DeputyDies` and `KernelDies` may
come at any step. A send worker that is lost to the kernel (a join error) is recorded as failed although
its content may have left; the code calls that a defect of the backend, whose contract is that `send`
does not panic (run.rs:2297-2299), and the module takes that contract: its `Panic` is the deputy's.

### Credentials

`now` is the monotonic clock and `skew` what the wall clock is ahead of it. `tok` is the token at Vault
(its field `told` is a ghost: the end of the last lease whose answer reached the daemon),
`lease`, `leaf`, `identity` what the client keeps, `slot` what the listener presents; `due`, `expires`,
`tries`, `backoff`, `leafTries`, `wake` are the supervisor's two schedules and its one sleep; `proc`
follows the process through start, serving, shutdown and revocation. A source is a login of the daemon's
own or the user's stored token, under which no supervisor runs and which is not revoked.

`Begin`, `Sleep`, `Wake` are the loop with one attempt per wake; `Signed` and `InstallLeaf`,
`RotateFails`, `Renewed`, `RenewFails` its two attempts, each of which takes up to `Http` and may be done
at Vault though its answer is lost. `Signal`, `Reap`, `Drained`, `Retire`, `TakeClient`, `Revoke` are the
end. `Tick` is a second, `StepWall` a step of the wall clock forward, or a suspend. `Drained` drops the
listener with the last handler; one that the abort could not reap in time keeps an acceptor until the
runtime is shut down, and as an aborted task presents nothing on it.

### Decision

No state: the decision as operators, from a path glob up to the composed verdict. Globs with their
home-anchored forms (`matches`, `covers_subtree`, `may_intersect_subtree`), the lists and their
three-valued evaluation with the site's denies as a floor, the action vocabulary and the role gates
(`role_for`, `decide_role`), the per-subject limits and model lists, the ceiling, and the fold
(`combine`, `finalize`). A component pattern is its text with the names it accepts; sets stand for lists
whose order picks only which entry a record cites. The matcher is stated as the existence of an
alignment of pattern and path, where the code walks both recursively. The definitions are used by
proofs only; no run explores them.

### Identity

`layer` is the identity layer of the stored graph, `load` the load that stored it. A start, a reload and
a live edit are one action, `NextLoad`: they resolve a bindings section against the accounts of the host
(`Declares`), carry forward every containment whose listed name is not found any more (`carry_forward`),
record what they end (`released`), build the graph (`builds`) and compile it, which carries forward once
more and refuses a difference (`compiles`). Between loads the section may be edited and accounts may
come, go or change their uid, so every load is drawn from all of them. `roles_of` is the layer as
`Decision`'s `role_for` reads it, and joins the two modules. Left out are failed lookups, which refuse
the load, a reseed, which stores a layer with no past to carry forward, and the migration to a new
vocabulary. The set of loads is large even for two accounts and two
uids; the module is used by proofs only and no run explores it.

## Runs

| Run | Question | Distinct states |
|---|---|---|
| `store` | Two starts and the commits between them with three crashes, power losses, failed calls, unconfirmed appends and acts of the operator in any mix: is there a store no intent announces (`WriteAhead`), a start refused for what the code did (`NoFalseRefusal`), a mirror that describes another store (`MirrorTrue`), a revision written twice (`NoRevisionReuse`)? Rollback is detected unless a late checkpoint stands behind a newer one (`RollbackDetected`), baseline changes and released containments are on record (`BaselineHistory`, `ContainmentKept`), a reseed preserves what it overwrites (`ReseedPreserves`) | 4.8 M |
| `store_overtaken` | expected violation, see Findings | |
| `store_uncertain` | expected violation, see Findings | |
| `guard_surface` | Four callers, a slow or wedged backend: a wedge's cost is bounded (`WedgeBounded`), an opened breaker closes again (`Recovers`) | 9 k |
| `sink` | Four appends over two slots, two starts, two faults anywhere: what was acknowledged stays (`AckedIsDurable`), nothing follows a torn line (`NothingAfterTorn`), nothing is there twice (`AtMostOnce`), slots come back (`SlotsComeBack`) | 0.86 M |
| `sync` | Two names of one account, two root edits, a live edit and a fault in every order with loads, restarts and syncs: base and live stay explicit together (`ExplicitAgree`), conflicts fail closed (`ConflictsFailClosed`), containments end deliberately (`ReleaseIsDeliberate`), nobody wins silently (`NoSilentWinner`), an unattended sync only tightens (`UnattendedTightens`), and all three converge (`Converges`) | 0.80 M |
| `reload` | Two connections and the reload task, two requests, a SIGHUP and a fault anywhere: what is served is stored, or a panic tore an operation from its persist and nothing is committed any more (`ServedIsStored`), decisions run on it (`DecidedOnStored`), authority is current (`AuthorityCurrent`), a stop is final (`StopIsFinal`), a drain ends in the exit (`DrainEnds`) | 1.1 M |
| `serve` | Three connections over two permits and a queue of one, two live installs, two failed appends or response writes and a stop at any moment: what the peer is sent and the trail agree (`AnswerMatchesTrail`), what is served was decided on what was admitted (`DecidedOnAdmitted`), the shutdown accounts for every connection (`Accounted`) | 2.8 M |
| `mutation` | Every kind of attempt, by a client and by a peer that reports anything, and two requests of one uid at the gate: the ledger is kept (`KeepsLedger`), what a client is told is recorded (`ToldIsRecorded`), what is recorded was granted (`RecordedInScope`), an end is recorded (`EndIsRecorded`), the gate is exact (`GateExact`), the kernel's side ends (`AttemptEnds`) | 0.30 M |
| `egress` | Two prompts over one slot with four faults: the outcome on the trail stays true (`OutcomeTrue`), the intent is ahead of the content (`IntentAhead`) | 0.56 M |
| `cred_hold` | Vault refuses, delays or loses answers and the wall clock is stepped a little: a leaf is presented at most three Vault timeouts past its end and a token kept at most four (`LeafInTime`, `TokenInTime`), renewal is not starved (`RenewalNotStarved`), a retired credential does not come back (`RetirementIsFinal`) | 8.4 M |
| `cred_wall` | expected violation, see Findings | |

### Bounds, and why they are enough

* Two starts are one that leaves a state behind and one that judges it; a third would judge what the
  second left, which has the same form. Three events (`MaxEvents`) are a crash, a failure and an act of
  the operator, or a fault in the handling of a fault and one more. The two expected violations need two. Revision 3 is a seeded store, a migration or commit, and one more whose number could be reused.
* `guard_surface` has more callers than slots and a trip threshold below the cap, as the code asserts at
  compile time (`MaxInFlight > TripAfter`); the theorems hold for every value.
* Four appends over two slots and one reclaim fill the breaker, reclaim, and refuse once.
* A merge compares an entry on three sides, so one name and its uid give all its cases; two names of one
  account are needed where accounts are compared (`Tightens`).
* Two handlers and the reload task are the smallest set where one waits, one has the turn and a third
  changes what the first was permitted by. Two commits are needed for an authority that is lost while
  its holder waits.
* Two permits and a queue of one let three connections be served and refused, or be in the drainer's
  hand, queued and counted, in one behaviour.
  Connections, prompts, and the baselines and vocabularies of the store are interchangeable, and the
  runs use that symmetry.
* A tree of four paths, two levels below its root, with three effects and depth two, is emptied, runs
  into each limit, and is changed once by another process in the middle of a walk. The two requests
  that meet at the gate have one uid; `MCClaimed` holds batches of up to two entries (`MaxBatch`) at
  every index, in and out of scope, repeated and with the root first and last.
* Two prompts meet at a deputy with one slot and one refusal slot; four faults are a failed append, a
  failed write, a panic and a death in one behaviour.
* The leases and lifetimes of `cred_hold` are an empty lease, the least one, and pairs in which either
  schedule comes first and retries reach the point of giving up within twenty seconds; a Vault call takes
  up to two. A wall step of three is the third of the shortest leaf's life that a rotation leaves.

Deadlock is not checked where the bounds let everybody come to rest. It is checked in `sync`, where a
load is always possible.

### Fairness

* `BlockingGuard`: time passes (`Cool`), a worker that has not expired returns, waits end at their
  bounds, and clients keep asking. `Recovers` needs the last: a breaker closes only when a probe is made.
* `AuditSink`: the runtime runs its workers and the disk answers every call, if with an error. Nothing
  is assumed of callers.
* `BindingsSync`: the daemon is restarted and reloaded, and an administrator runs the sync at a terminal
  again and again and does not decline for ever. The strong fairness is on that person's actions only: a
  sync that lost a race is tried again.
* `Reloader`: appends, waits and drains are bounded by timeouts and persist is a bounded sequence of
  system calls, so whoever has the turn goes on, and so does the shutdown. Clients, signals and the
  supervisor have no fairness.
* `Mutation`: the kernel's own task goes on, since each of its waits has a window (`KernelLate`). Nothing
  is assumed of clients, their file systems, or the blocking workers whose callers gave up.
* `Serving`, `Egress` and `Credentials` state safety only. That a prompt ends at its deadline, that the
  deputy's slots come back and that the accept loop returns follow from one bounded wait each.

## Proofs

All proofs about a specification hold for every value of the constants under the named assumption of its
module (`GraphStoreAssumption`, `GuardAssumption`, `SinkAssumption`, `SyncAssumption`,
`ReloaderAssumption`, `ServingAssumption`, `MutationAssumption`, `EgressAssumption`,
`CredentialsAssumption`): bounds are naturals, model values are distinct, and for the guard
`MaxInFlight > TripAfter`. `Decision` and `Identity` assume nothing. One theorem has a hypothesis of
its own, `StepsSmall`, explained below. Every safety property of a passing run is
proved; the inductive invariants were model-checked before they were proved.

* **GraphStoreProofs.** `TypeCorrect`; `WriteAheadHolds`. `WriteAhead` is not inductive: a file becomes
  visible at `Publish`, so `Control` says that whenever the process is past the records it writes ahead,
  the intent of its job's revision is in the trail. `TrailGrows` and `FilesFrom` then give the rest: no
  step takes a record away, and every visible file is an earlier one or the one just published.
  `StoreInv` is what the other theorems share: the order of a start and a commit (`Course`) and that what
  the process knows is what is on disk unless somebody touched the file (`Agrees`). `BaselineHistoryHolds`
  and `ContainmentAlwaysKept` add `Owed`: over the content that is there, the record of what a write
  replaces or releases is in the trail or still to be appended, and it is computed against that very
  content because `load` refuses a store that is not the one it peeked. `ReseedAlwaysPreserves` adds
  `Preserved`. `RollbackAlwaysDetected` needs `Anchored`: unless a late line overtook it, the newest
  checkpoint line is the highest one and the store in use is not below it; what may still land is of the
  process that serves or exits and not above its store. `RevisionNeverReused`, `MirrorAlwaysTrue` and
  `NeverFalselyRefused` rest on
  `Clean`: unless an operator or a power loss interfered, the file on disk is the newest store published,
  a change goes above it, and every checkpoint, landed or not, is of a store that was published; and on
  `MirrorsTrue` for the directory and for what a power loss falls back to.
* **AuditSinkProofs.** `WorkersAlwaysBounded` from `Slots`: every live worker is in flight or was
  reclaimed. `AckedAlwaysDurable` from `Writer`: at most one worker holds the writer, and a line is
  acknowledged only after a sync that covers it; no fault shortens the durable prefix. `NeverAfterTorn`
  from `Guarded`: whoever holds the writer has marked the sink failed until its line is synced, so a torn
  trail belongs to a failed sink or is open nowhere. `AlwaysAtMostOnce` from `Unwritten`: a worker that
  has still to write is of an admitted attempt and has no line.
* **BindingsSyncProofs.** `TypeCorrect`, with the role rules in the types; `ExplicitAlwaysAgree` and
  `ConflictsStayFailClosed` from their conjunction `StoreSafe`; `NobodyWinsSilently` and
  `SyncAlwaysAdopted` from what one merge does to one entry; `UnattendedAlwaysTightens` from `Planned`:
  a checked plan was made for the very file it replaces, if nobody writes the file between the last check
  and the rename. The last condition is real: the code has no lock over that window, and the theorem
  names it. `ReleasesStayDeliberate` rests on `Sparing`: a mirror, and a sync nothing was committed
  behind, hold what is stored, so that what an unattended sync wrote for a listed containment keeps it or
  is what the daemon loaded already. It has to be known of the file and of the load in progress, since the
  file may be replaced while a load merges.
* **ReloaderProofs.** `TypeCorrect`; `StopAlwaysFinal` and `AuthorityAlwaysCurrent` from `TurnInv`:
  whoever is at a step of the turn has it (`OneInTurn`), a stop that had the turn left it with nobody and
  the daemon stopping (`StopHeld`), and a live edit on its way to the store has a requester the snapshot
  permits (`StillPermitted`). The second needs the first: only the holder of the turn installs.
  `AlwaysServesStored` and `AlwaysDecidesOnStored` from `ServeInv`, which says for each step of the turn
  which of the five places already hold the new graph (`GraphsHere`, `LiveHere`), that they agree when
  nobody has it (`AtRest`), and that decisions and the live turn exclude each other (`Apart`), as long as
  no panic tore an operation from its persist (`Whole`). `TornInv` says what is left of it after such a
  panic: the counter is behind the store, so that whoever has the turn plans a revision the store has had
  (`Barred`) and `persist` refuses it.
* **ServingProofs.** `AnswersMatchTrail`, `ServedAsDecided`, `ShutdownAccounts`. The invariant has one
  part per property and connection. `TrailInv` ties the place of a handler to its newest record and to
  what it sent, whole or cut:
  while it appends, `Pending` says which record leads where, so that an append that fails is seen to
  leave the frame that the trail as it stands allows. `GenInv` orders admitted, decided and installed
  generation, which only grow, and closes the gap at `CheckGeneration`. `CountInv` finds every refused
  connection in exactly the places it can be, and `LoopInv` gives the order of the shutdown: nothing is
  counted after the signal, and the drain ends behind an empty queue and an empty count.
  The breaker in front of a handler's blocking work is proved about here too. `SlotsAlwaysExact` follows
  the set of guarded callers through each action. `WedgeAlwaysBounded` needs `WedgeInv`, which counts by
  the breaker's state: closed, the workers spawned are the slots in use plus the timeouts recorded; open,
  those slots can no longer be refilled; cooled, one probe is owed per cooldown.
* **MutationProofs.** `TypeCorrect`, and the refinement `LedgerAlwaysKept`: every step of an attempt that
  `maknae-loop` drives is a step of `EffectLedger` or a stutter under the mapping `Ledger`. The invariants
  build on one another. `TurnInv` says that one frame is under way at a time and that each end of the
  connection is where the other lets it be; `EndInv` that a handler that is over left an end, unless an
  append was given up (`EndAlwaysRecorded`); `ToldInv` that nothing is granted or acknowledged before the
  intent. `AccountInv` is the heart of the refinement: every report in the trail, on the wire or about to
  land is of one effect that was performed, in its place; the exchange counts a beginning of the effects;
  and the worker acts only when all of it is on the trail. `ScopeInv` carries the same over to a peer that
  reports anything (`AlwaysInScope`): what is counted is in scope, and a batch that is durable and not
  counted is the one valid report its handler held when it stopped, which is why a late append does no
  harm. `AlwaysToldWhatIsRecorded` follows from both. `GateAlwaysExact` counts with `GateInv`: where a
  handler is says whether its worker runs and whether it holds a permit.
* **PlaneProofs.** The two planes on which a process deals with the outside. For the credential:
  `TypeCorrect`; `RetirementAlwaysFinal` from `SlotInv` and `TaskInv` (a supervisor that is gone left no
  identity or was aborted by a daemon that is going); `RenewalNeverStarved` from `PaceInv`;
  `TokenAlwaysInTime` from `TokenInv`, which bounds at each place of the supervisor how much later its
  estimate is than the lease it was told of; `LeafAlwaysInTime` from `LeafInv`, which says that what is
  planned is over before the leaf is, but for the requests in its way. The last assumes `StepsSmall`:
  the steps of the wall clock sum up to no more than a planned rotation and a retry leave of a leaf's
  life. `cred_hold` satisfies it and `cred_wall` shows what happens without.
  For the prompt: `OutcomesAreTrue`, `IntentIsAhead`. `OutcomeTrue` speaks of now; what is inductive
  speaks of ever after. `NeverSent` says content has not left and cannot any more: the connection is over,
  or its frame stays short of whole because nobody writes it. `TruthInv` has it from the moment a result
  of that kind exists, `DeputyInv` says the same of the deputy's side for every reply it is about to
  write, and `StageInv` puts every worker behind a durable intent.
* **DecisionProofs.** `TreeDeleteCoversEveryEntry`: a recursive delete is permitted from the lists alone,
  without walking the tree, and every entry of the tree would have been permitted on its own.
  `CoversMatches` shows the allow side (a literal prefix and a last `**` cover every path below),
  `MatchesIntersects` the deny side (a glob that matches a path below the root is found to intersect).
  `NothingDeniedIsTouched`: the site's denies are a floor under everything a subject may be given.
  `TighteningOnlyRemoves`: adding denies, limits or containments, or withdrawing grants, never turns a
  refusal into a permit. Home-anchored allows are excepted: an allow that cannot be resolved because no
  home is bound refuses the request, so withdrawing it can permit what another allow grants.
  `ContainedIsShutOut`, `NothingAboveTheCeiling`: no grant brings back what containment or the ceiling
  took. Facts about steps along a pattern are proved from the least step at which they fail (`LeastNat`,
  `StepsAdd`).
  The identity layer's theorems rest on `Sound`: every alias is a contained subject's, and no name is
  said of two. `CarrySound` shows that carrying forward keeps it, `HoldingIs` and `CarryParts` say what
  the claims are afterwards, and `CarryTwice` that doing it again changes nothing; that is what `compile`
  depends on, hence `LoadsAlwaysGoThrough`. `ClaimsAlwaysKept` and `ReleasesAreDeliberate` follow from
  the claims after one load; with `ContainedIsShutOut` the first becomes `ListedAdversaryStaysOut`: an
  adversary whose account is deleted stays without any permit while the section lists its name.

Attempts to prove corrected three properties that small instances had let pass. The bound of
`TokenInTime` was on the lease at Vault, which a renewal whose answer is lost may shorten without the
daemon's knowledge; it is on the last lease the daemon was told of. `LeafInTime` allowed two timeouts; a
leaf whose life is shorter than a timeout may be presented for three. `ReleaseIsDeliberate` did not except
an unattended sync that root edits, loads and live edits overtake between its last check and its rename,
the window `docs/runbook.md` warns of.

Only model-checked: everything under fairness (`Recovers`, `SlotsComeBack`, `Converges`, `DrainEnds`,
`AttemptEnds`). Liveness and `ENABLED`, induction over data, and recursive operators are out of this
prover's reach, so that the recursive matcher of the code is not proved equal to the alignment `Decision`
states it by.

## Findings

* `store_overtaken`: ADR-0029 says that "At start, a store whose revision is older than the latest
  checkpoint's, or whose ciphertext hash differs at the same revision, is refused." The start takes the
  newest checkpoint line for the latest, and `write_line` writes in the order in which its workers get a
  std mutex. A checkpoint whose append was given up may be written behind a newer one; until the next
  checkpoint the older store passes for the current one.
* `store_uncertain`: ADR-0029 says that after a publish whose directory sync failed "the next start loads
  whatever store is on disk". The code goes on to checkpoint the new revision; if the rename is then
  lost, the next start finds an older store under a newer anchor and refuses it as rolled back. The code
  errs on the safe side; the document promises more than it does.
* `cred_wall`: the comment in `supervisor_run.rs` says that the scheduling clock "is immune to wall-clock
  steps (NTP/leap-second) that could otherwise jump a deadline" and that mixing it with the leaf's
  relative age is sound. The age is wall time minus NotBefore and is read only when a sleep is planned.
  After a forward step, or a suspend the monotonic clock does not count, the leaf has ended and is
  presented until the wake planned before the step. A step within the third of its life that a rotation leaves does no
  harm (`cred_hold`).

Observed while modelling and without a run:

* the comment on `refuse_unencodable_bounded` says that "NO PATH may have recorded `authorized` without
  delivering" (run.rs:2492-2494). `write_frame_bounded` drops the result of its bounded write
  (run.rs:2584-2588), so a permit stands on the trail when the peer got no frame, or part of one.
  `AnswerMatchesTrail` claims only that the answer was written, and its `cut` frames are these;
* the comment on `DrainGuard` says "`live_unsettled`: a live baseline is persisted and its install has not
  reported" (run.rs:157-158). The flag is set after the commit and its reports (run.rs:5234); a panic
  between the persist and that line leaves the drain as it was, and after a restart-class persist the
  guard reports "exiting on the unchanged baseline" over a baseline that changed. Live edits and reloads
  have no guard. `ServedIsStored` states what holds then: the daemon serves what it had and stores nothing
  more until it is started again, or misses one snapshot until the next is installed;
* the module comment of `blocking_guard.rs` bounds a burst of orphans by the in-flight cap. A timeout
  gives its slot back while its worker still runs, so `TripAfter - 1` more are admitted before the
  breaker trips. `WedgeBounded` states the bound that holds;
* the comment on `commit_live` (store.rs) says the conflicts "may lose only the one entry the edit
  changed", though a release by uid may change and drop several;
* `token_renew_after` is said to be strictly below the lease; for a lease of one second it is the lease;
* `handler_drain_bound` (run.rs) does not count the intent and the "incomplete" append of a filesystem
  attempt, so a drain may abort one that is within all of its own windows;
* a uid has one preparing worker at a time and may hold several exchange permits after it;
* a graph without a bindings section ignores its contained entries in `role_for`; the sections'
  explicitness is what `ExplicitAgree` keeps.

## Plan

1. An abstract store (the sequence of committed graphs) that `GraphStore` implements outside operator
   intervention, by a refinement mapping.
2. The agent's drive loop with its budgets; enrolment with its undo.
3. Proofs: the refinement of step 1.
