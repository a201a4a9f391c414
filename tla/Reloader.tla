------------------------------- MODULE Reloader -------------------------------
(***************************************************************************)
(* One serve of the daemon (maknae-kernel run.rs, reload.rs, composition.rs, *)
(* handler.rs): the turn that reloads, live edits and baseline accepts take *)
(* one after the other, the live turn that decisions share and a live-class *)
(* accept holds, the drain of an accept, and the stop.  A graph is a        *)
(* revision, a baseline and the set of contained subjects; how a load       *)
(* merges the file is BindingsSync, what a commit does to the disk is       *)
(* GraphStore, and both publish the mirror, which has no part here.         *)
(***************************************************************************)
EXTENDS Naturals, FiniteSets

CONSTANTS
  Handlers,      \* connections, each of a subject of its own
  Reload,        \* the task that answers SIGHUP
  Bases,         \* baselines root may propose
  StartBase,     \* the stored one, which the start installed
  Nobody,
  MaxRevision,   \* bound: revision at which no more commits begin
  MaxOps,        \* bound: requests for the turn
  MaxReloads,    \* bound: SIGHUPs
  MaxFaults      \* bound: failed appends, persists and installs, and panics

Actors == Handlers \union {Reload}

ASSUME ReloaderAssumption ==
  /\ IsFiniteSet(Handlers) /\ StartBase \in Bases
  /\ Reload \notin Handlers /\ Nobody \notin Actors /\ Nobody \notin Bases
  /\ MaxRevision \in Nat /\ MaxOps \in Nat /\ MaxReloads \in Nat /\ MaxFaults \in Nat

VARIABLES
  turn,        \* Reloader.lock: who holds it
  stopping,    \* the watch Reloader.stopping
  drain,       \* the watch Reloader.drain
  store,       \* the graph on disk
  persisted,   \* Reloader.persisted
  revision,    \* Reloader.revision
  snap,        \* contained subjects of the installed snapshot
  live,        \* baseline of the installed live values
  sharing,     \* decisions that share the live turn, also those nobody waits for
  held,        \* whose blocking thread holds the live turn
  sent,        \* the values sent to that thread
  pc,          \* where each handler and the reload task are
  job,         \* what each of them does
  loop,        \* the accept loop, then the way to the exit
  stop,        \* the first Reloader.stop
  stopHad,     \* whether a stop got the turn
  torn,        \* ghost: a panic struck between a persist and what follows it
  behind,      \* ghost: a panic struck between the counter and the install of an edit
  ops, reloads, faults   \* counted for the bounds

daemon == <<turn, stopping, drain>>
graphs == <<store, persisted, revision, snap, live>>
liveTurn == <<sharing, held, sent>>
ghosts == <<torn, behind>>
serve == <<loop, stop, stopHad, ghosts>>
bounds == <<ops, reloads, faults>>
vars == <<daemon, graphs, liveTurn, pc, job, serve, bounds>>

Graph == [rev : Nat, base : Bases, ident : SUBSET Handlers]

\* target: whom a live edit is about; restart: the class of an accept; next: the
\* graph to commit; clean: durable and checkpointed.
Job ==
  [kind : {"none", "reload"}, target : {Nobody}, base : {Nobody}, restart : {FALSE},
   next : Graph, clean : BOOLEAN]
  \union
  [kind : {"contain", "release"}, target : Handlers, base : {Nobody}, restart : {FALSE},
   next : Graph, clean : BOOLEAN]
  \union
  [kind : {"accept"}, target : {Nobody}, base : Bases, restart : BOOLEAN,
   next : Graph, clean : BOOLEAN]

NoGraph == [rev |-> 0, base |-> StartBase, ident |-> {}]

NoJob == [kind |-> "none", target |-> Nobody, base |-> Nobody, restart |-> FALSE,
          next |-> NoGraph, clean |-> TRUE]

Init ==
  /\ turn = Nobody /\ stopping = FALSE /\ drain = "serving"
  /\ store = [rev |-> 1, base |-> StartBase, ident |-> {}]
  /\ persisted = store /\ revision = 1 /\ snap = {} /\ live = StartBase
  /\ sharing = {} /\ held = Nobody /\ sent = Nobody
  /\ pc = [a \in Actors |-> "idle"]
  /\ job = [a \in Actors |-> NoJob]
  /\ loop = "accepting" /\ stop = "no" /\ stopHad = FALSE
  /\ torn = FALSE /\ behind = FALSE
  /\ ops = 0 /\ reloads = 0 /\ faults = 0

Alive == loop # "exited"
Goto(a, step) == pc' = [pc EXCEPT ![a] = step]
Fault == faults < MaxFaults /\ faults' = faults + 1
MayFail(ok) == IF ok THEN UNCHANGED faults ELSE Fault

\* Where an operation that ends leaves its actor.
Rest(a) == IF a = Reload THEN "idle" ELSE "connected"

\* An operation ends: nothing of it is kept.
Ends(a) == Goto(a, Rest(a)) /\ job' = [job EXCEPT ![a] = NoJob]

\* A refusal: the turn and the live turn are given back.
Refused(a) ==
  /\ turn' = IF turn = a THEN Nobody ELSE turn
  /\ held' = IF held = a THEN Nobody ELSE held
  /\ Ends(a)

-----------------------------------------------------------------------------
(* Connections and decisions *)

\* accept_loop: a new connection is served only while the drain is serving.
Connect(h) ==
  /\ loop = "accepting" /\ drain = "serving"
  /\ pc[h] = "idle"
  /\ Goto(h, "connected")
  /\ UNCHANGED <<daemon, graphs, liveTurn, job, serve, bounds>>

Disconnect(h) ==
  /\ Alive
  /\ pc[h] = "connected"
  /\ Goto(h, "idle")
  /\ UNCHANGED <<daemon, graphs, liveTurn, job, serve, bounds>>

\* decide_cited, on the blocking pool: it shares the live turn.
Decide(h) ==
  /\ Alive
  /\ pc[h] = "connected" /\ h \notin sharing
  /\ held = Nobody
  /\ sharing' = sharing \union {h}
  /\ Goto(h, "deciding")
  /\ UNCHANGED <<daemon, graphs, held, sent, job, serve, bounds>>

Requests(h) ==
  [kind : {"contain", "release"}, target : Handlers, base : {Nobody}, restart : {FALSE},
   next : {NoGraph}, clean : {TRUE}]
  \union
  [kind : {"accept"}, target : {Nobody}, base : Bases \ {persisted.base}, restart : BOOLEAN,
   next : {NoGraph}, clean : {TRUE}]

\* The decision ends.  A permitted request for the turn waits for it.
Decided(h) ==
  /\ Alive
  /\ pc[h] = "deciding"
  /\ sharing' = sharing \ {h}
  /\ \/ /\ Goto(h, "connected")
        /\ UNCHANGED <<job, ops>>
     \/ /\ h \notin snap
        /\ ops < MaxOps
        /\ ops' = ops + 1
        /\ \E r \in Requests(h) : job' = [job EXCEPT ![h] = r]
        /\ Goto(h, "waiting")
  /\ UNCHANGED <<daemon, graphs, held, sent, serve, reloads, faults>>

\* The caller gives up on its decision, which keeps its share until it ends.
DecisionExpires(h) ==
  /\ Alive
  /\ pc[h] = "deciding"
  /\ Goto(h, "connected")
  /\ UNCHANGED <<daemon, graphs, liveTurn, job, serve, bounds>>

OrphanEnds(h) ==
  /\ Alive
  /\ h \in sharing /\ pc[h] # "deciding"
  /\ sharing' = sharing \ {h}
  /\ UNCHANGED <<daemon, graphs, held, sent, pc, job, serve, bounds>>

-----------------------------------------------------------------------------
(* The turn *)

Serves == ~stopping /\ drain = "serving"

\* Faulty: the daemon's state is looked at before the wait and not again after it.
ServesUnchecked == TRUE

MayEnter == Serves

EnterTurn(a) ==
  /\ Alive
  /\ pc[a] = "waiting" /\ turn = Nobody
  /\ MayEnter
  /\ turn' = a
  /\ Goto(a, "entered")
  /\ UNCHANGED <<stopping, drain, graphs, liveTurn, job, serve, bounds>>

\* Stopping or draining, seen once the turn is taken.
RefuseTurn(a) ==
  /\ Alive
  /\ pc[a] = "waiting" /\ turn = Nobody
  /\ ~Serves
  /\ Ends(a)
  /\ UNCHANGED <<daemon, graphs, liveTurn, serve, bounds>>

\* turn_wait elapses.  Only a reload waits without a bound.
Busy(h) ==
  /\ Alive
  /\ pc[h] = "waiting" /\ turn # Nobody
  /\ Ends(h)
  /\ UNCHANGED <<daemon, graphs, liveTurn, serve, bounds>>

NextGraph(base, ident) == [rev |-> revision + 1, base |-> base, ident |-> ident]

\* Faulty reauthorize: the decision made before the wait is relied on.
ReauthorizedBefore(h) == TRUE

\* reauthorize: the request is decided again on the installed snapshot.
Reauthorized(h) == h \notin snap

Contained(r) ==
  IF r.kind = "contain" THEN persisted.ident \union {r.target}
                        ELSE persisted.ident \ {r.target}

\* live_edit_resolving up to its commit.  A containment that would leave nobody who
\* may release is refused.
PlanLive(h) ==
  /\ Alive
  /\ pc[h] = "entered" /\ job[h].kind \in {"contain", "release"}
  /\ persisted.rev < MaxRevision
  /\ Reauthorized(h)
  /\ LET ident == Contained(job[h]) IN
       /\ ident # persisted.ident
       /\ ident # Handlers
       /\ job' = [job EXCEPT ![h].next = NextGraph(persisted.base, ident)]
  /\ Goto(h, "writing")
  /\ UNCHANGED <<daemon, graphs, liveTurn, serve, bounds>>

\* accept_named up to its commit: the pending set is read, named and validated.
PlanAccept(h) ==
  /\ Alive
  /\ pc[h] = "entered" /\ job[h].kind = "accept"
  /\ persisted.rev < MaxRevision
  /\ job[h].base # persisted.base
  /\ job' = [job EXCEPT ![h].next = NextGraph(job[h].base, persisted.ident)]
  /\ Goto(h, IF job[h].restart THEN "writing" ELSE "taking")
  /\ UNCHANGED <<daemon, graphs, liveTurn, serve, bounds>>

\* Faulty HeldLiveTurn::take: it does not wait for the decisions in flight.
TakeLiveAtOnce(h) ==
  /\ Alive
  /\ pc[h] = "taking" /\ held = Nobody
  /\ held' = h
  /\ Goto(h, "writing")
  /\ UNCHANGED <<daemon, graphs, sharing, sent, job, serve, bounds>>

TakeLive(h) ==
  /\ Alive
  /\ pc[h] = "taking" /\ held = Nobody
  /\ sharing = {}
  /\ held' = h
  /\ Goto(h, "writing")
  /\ UNCHANGED <<daemon, graphs, sharing, sent, job, serve, bounds>>

\* Denied on the installed snapshot, probe busy or failed, nothing to change, the
\* named set gone or invalid, decisions held the live turn past the deadline.
Refuse(h) ==
  /\ Alive
  /\ pc[h] \in {"entered", "taking"}
  /\ Refused(h)
  /\ UNCHANGED <<stopping, drain, graphs, sharing, sent, serve, bounds>>

-----------------------------------------------------------------------------
(* reload.rs: run_reload *)

Hup ==
  /\ Alive
  /\ pc[Reload] = "idle" /\ reloads < MaxReloads
  /\ reloads' = reloads + 1
  /\ Goto(Reload, "waiting")
  /\ UNCHANGED <<daemon, graphs, liveTurn, job, serve, ops, faults>>

\* The intent is recorded before anything is loaded; without it there is no outcome.
RecordIntent ==
  /\ Alive
  /\ pc[Reload] = "entered"
  /\ \/ /\ Goto(Reload, "loading")
        /\ UNCHANGED <<turn, faults>>
     \/ /\ Fault
        /\ turn' = Nobody
        /\ Goto(Reload, "idle")
  /\ UNCHANGED <<stopping, drain, graphs, liveTurn, job, serve, ops, reloads>>

\* Refused with an outcome record: the revision stays.
ReloadRefused ==
  /\ job' = [job EXCEPT ![Reload].next = [persisted EXCEPT !.rev = revision]]
  /\ Goto(Reload, "reporting")

\* The select is biased: a stop seen while loading wins over the load's result.
LoadRefused ==
  /\ Alive
  /\ pc[Reload] = "loading"
  /\ ReloadRefused
  /\ UNCHANGED <<daemon, graphs, liveTurn, serve, bounds>>

\* The snapshot is installed, whatever the one before it missed.
Installed(ident) == snap' = ident /\ behind' = FALSE

\* load_candidate: what root's file comes to, merged; persisted if anything differs.
Loaded ==
  /\ Alive
  /\ pc[Reload] = "loading" /\ ~stopping
  /\ \/ \E ident \in SUBSET Handlers :
          /\ persisted.rev < MaxRevision
          /\ job' = [job EXCEPT ![Reload] =
                       [NoJob EXCEPT !.kind = "reload",
                                     !.next = NextGraph(persisted.base, ident)]]
          /\ Goto(Reload, "writing")
          /\ UNCHANGED <<snap, behind>>
     \/ /\ Installed(persisted.ident)
        /\ ReloadRefused
  /\ UNCHANGED <<daemon, store, persisted, revision, live, liveTurn, loop, stop, stopHad, torn,
                 bounds>>

-----------------------------------------------------------------------------
(* store.rs: transition, then what each caller does with its result *)

Restart(a) == job[a].kind = "accept" /\ job[a].restart

StoreRefuses(a) ==
  \/ job[a].next.rev <= store.rev
  \/ job[a].kind # "accept" /\ job[a].next.base # store.base

CommitFails(a) ==
  IF a = Reload THEN /\ ReloadRefused
                     /\ UNCHANGED <<turn, held>>
                ELSE Refused(a)

\* A stale revision, another baseline than the stored one, a failed append.
CommitRefused(a) ==
  /\ Alive
  /\ pc[a] = "writing"
  /\ MayFail(StoreRefuses(a))
  /\ CommitFails(a)
  /\ UNCHANGED <<stopping, drain, graphs, sharing, sent, serve, ops, reloads>>

\* The records ahead of the persist; the last one begins a restart-class drain.
WriteAhead(a) ==
  /\ Alive
  /\ pc[a] = "writing"
  /\ ~StoreRefuses(a)
  /\ drain' = IF Restart(a) THEN "begun" ELSE drain
  /\ Goto(a, "ready")
  /\ UNCHANGED <<turn, stopping, graphs, liveTurn, job, serve, bounds>>

\* Nothing was published; a drain that had begun has failed.
PersistFails(a) ==
  /\ Alive
  /\ pc[a] = "ready"
  /\ Fault
  /\ CommitFails(a)
  /\ drain' = IF a # Reload /\ drain = "begun" THEN "failed" ELSE drain
  /\ UNCHANGED <<stopping, graphs, sharing, sent, serve, ops, reloads>>

Publish(a) ==
  /\ Alive
  /\ pc[a] = "ready"
  /\ store' = job[a].next
  /\ \E durable \in BOOLEAN :
       /\ MayFail(durable)
       /\ job' = [job EXCEPT ![a].clean = durable]
  /\ Goto(a, IF Restart(a) THEN "published" ELSE "checkpointing")
  /\ UNCHANGED <<daemon, persisted, revision, snap, live, liveTurn, serve, ops, reloads>>

\* GraphBootAudit::checkpoint: the drain is applied before the record is appended.
BeginCheckpoint(a) ==
  /\ Alive
  /\ pc[a] = "published"
  /\ drain' = "applied"
  /\ Goto(a, "checkpointing")
  /\ UNCHANGED <<turn, stopping, graphs, liveTurn, job, serve, bounds>>

Checkpoint(a) ==
  /\ Alive
  /\ pc[a] = "checkpointing"
  /\ \E recorded \in BOOLEAN :
       /\ MayFail(recorded)
       /\ job' = [job EXCEPT ![a].clean = @ /\ recorded]
  /\ Goto(a, "committed")
  /\ UNCHANGED <<daemon, graphs, liveTurn, serve, ops, reloads>>

\* live_edit_resolving: the graph and the counter follow, then the snapshot, without a pause.
SettleLive(h) ==
  /\ Alive
  /\ pc[h] = "committed" /\ job[h].kind \in {"contain", "release"}
  /\ persisted' = job[h].next
  /\ revision' = job[h].next.rev
  /\ Goto(h, "settled")
  /\ UNCHANGED <<daemon, store, snap, live, liveTurn, job, serve, bounds>>

InstallEdit(h) ==
  /\ Alive
  /\ pc[h] = "settled"
  /\ Installed(job[h].next.ident)
  /\ Goto(h, "reporting")
  /\ UNCHANGED <<daemon, store, persisted, revision, live, liveTurn, job, loop, stop, stopHad,
                 torn, bounds>>

\* ReloadIo::commit; the mirror is published before the install.
SettleReload ==
  /\ Alive
  /\ pc[Reload] = "committed"
  /\ persisted' = job[Reload].next
  /\ Goto(Reload, "installing")
  /\ UNCHANGED <<daemon, store, revision, snap, live, liveTurn, job, serve, bounds>>

InstallReload ==
  /\ Alive
  /\ pc[Reload] = "installing"
  /\ Installed(job[Reload].next.ident)
  /\ Goto(Reload, "reporting")
  /\ UNCHANGED <<daemon, store, persisted, revision, live, liveTurn, job, loop, stop, stopHad,
                 torn, bounds>>

\* Faulty: a live baseline whose checkpoint failed is not installed, and nothing
\* asks for a restart.
UncleanDrainKept(h) == drain

\* A live baseline that is not durable or not checkpointed is not installed.
UncleanDrain(h) == IF Restart(h) \/ job[h].clean THEN drain ELSE "applied"

\* accept_named after its commit.  A clean live baseline goes to the thread that
\* holds the live turn; any other thread is let go.
SettleAccept(h) ==
  /\ Alive
  /\ pc[h] = "committed" /\ job[h].kind = "accept"
  /\ persisted' = job[h].next
  /\ revision' = job[h].next.rev
  /\ drain' = UncleanDrain(h)
  /\ IF ~job[h].restart /\ job[h].clean
       THEN /\ sent' = job[h].base
            /\ Goto(h, "installing")
            /\ UNCHANGED held
       ELSE /\ held' = IF held = h THEN Nobody ELSE held
            /\ Goto(h, "mirroring")
            /\ UNCHANGED sent
  /\ UNCHANGED <<turn, stopping, store, snap, live, sharing, job, serve, bounds>>

Notify(step) == pc' = IF pc[held] = "installing" THEN [pc EXCEPT ![held] = step] ELSE pc

\* install_in, on the blocking thread: it ends even if the accept is gone.
InstallLive ==
  /\ Alive
  /\ held # Nobody /\ sent # Nobody
  /\ live' = sent
  /\ held' = Nobody /\ sent' = Nobody
  /\ Notify("mirroring")
  /\ UNCHANGED <<daemon, store, persisted, revision, snap, sharing, job, serve, bounds>>

\* The thread panics or refuses: the daemon restarts to apply what is stored.
InstallFails ==
  /\ Alive
  /\ held # Nobody /\ sent # Nobody
  /\ Fault
  /\ held' = Nobody /\ sent' = Nobody
  /\ drain' = IF pc[held] = "installing" THEN "applied" ELSE drain
  /\ Notify("mirroring")
  /\ UNCHANGED <<turn, stopping, graphs, sharing, job, serve, ops, reloads>>

\* publish_mirror, then the guard and the turn are dropped.
LeaveTurn(h) ==
  /\ Alive
  /\ pc[h] = "mirroring"
  /\ turn' = Nobody
  /\ Goto(h, "reporting")
  /\ UNCHANGED <<stopping, drain, graphs, liveTurn, job, serve, bounds>>

\* The outcome record.  An accept whose outcome is not recorded restarts the daemon;
\* a reload advances the counter when it is over.
Report(a) ==
  /\ Alive
  /\ pc[a] = "reporting"
  /\ \E recorded \in BOOLEAN :
       /\ MayFail(recorded)
       /\ drain' = IF job[a].kind = "accept" /\ ~recorded /\ drain = "serving"
                     THEN "applied" ELSE drain
  /\ turn' = IF turn = a THEN Nobody ELSE turn
  /\ revision' = IF a = Reload THEN job[a].next.rev ELSE revision
  /\ Ends(a)
  /\ UNCHANGED <<stopping, store, persisted, snap, live, liveTurn, serve, ops, reloads>>

-----------------------------------------------------------------------------
(* A future that is dropped, by a panic or by an abort *)

\* Faulty DrainGuard: a drain that had begun is left as it is.
GuardedDrainLeft(h) ==
  IF drain = "serving" /\ pc[h] = "installing" THEN "applied" ELSE drain

\* DrainGuard::drop.
GuardedDrain(h) ==
  CASE drain = "begun" -> "failed"
    [] drain = "serving" /\ pc[h] = "installing" -> "applied"
    [] OTHER -> drain

\* The reload task is not started again.
Dropped(a) ==
  /\ drain' = IF turn = a /\ job[a].kind = "accept" THEN GuardedDrain(a) ELSE drain
  /\ turn' = IF turn = a THEN Nobody ELSE turn
  /\ held' = IF held = a /\ sent = Nobody THEN Nobody ELSE held
  /\ Goto(a, IF a = Reload THEN "dead" ELSE "idle")
  /\ job' = [job EXCEPT ![a] = NoJob]
  /\ UNCHANGED <<stopping, graphs, sharing, sent, loop, stop, stopHad, ops, reloads>>

\* Its graph is stored, and the counter does not follow it yet: an accept and a live edit
\* up to their settling, a reload up to its report.
Unsettled(a) ==
  \/ pc[a] \in {"published", "checkpointing", "committed"}
  \/ a = Reload /\ pc[a] \in {"installing", "reporting"} /\ revision < job[a].next.rev

InOperation ==
  {"entered", "loading", "taking", "writing", "ready", "published", "checkpointing",
   "committed", "settled", "installing", "mirroring", "reporting"}

\* At any step of an operation.  The unwinding drops the guards; live_unsettled is set
\* only when accept_named settles, and a live edit and a reload have no guard at all.
Panic(a) ==
  /\ Alive
  /\ pc[a] \in InOperation
  /\ Fault
  /\ Dropped(a)
  /\ torn' = (torn \/ Unsettled(a))
  /\ behind' = (behind \/ pc[a] = "settled")

\* drain_handlers_bounded aborts what its bound left running.  An abort lands where
\* the handler awaits; "ready", "published", "committed" and "settled" run on to the next.
Abort(h) ==
  /\ loop = "aborted"
  /\ pc[h] \notin {"idle", "ready", "published", "committed", "settled"}
  /\ Dropped(h)
  /\ UNCHANGED <<ghosts, faults>>

-----------------------------------------------------------------------------
(* The stop *)

MayStop == drain \in {"applied", "failed"}

Drained == loop \in {"drained", "aborted"}

BeginStop ==
  /\ stop = "no"
  /\ stopping' = TRUE
  /\ stop' = "waiting"
  /\ UNCHANGED <<turn, drain, graphs, liveTurn, pc, job, loop, stopHad, ghosts, bounds>>

\* shutdown_on: a signal, at any time, or an accept that persisted or failed.
Signal == loop = "accepting" /\ BeginStop

StopOnDrain == loop = "accepting" /\ MayStop /\ BeginStop

\* The stop after the loop, when it is the first one.
FinalStop == Drained /\ BeginStop

\* With the turn: the reload task is aborted.
StopHasTurn ==
  /\ Alive
  /\ stop = "waiting" /\ turn = Nobody
  /\ Goto(Reload, "dead")
  /\ stop' = "done" /\ stopHad' = TRUE
  /\ UNCHANGED <<daemon, graphs, liveTurn, job, loop, ghosts, bounds>>

\* RELOAD_STOP_TIMEOUT elapses: whoever holds the turn is left running.
StopElapses ==
  /\ Alive
  /\ stop = "waiting" /\ turn # Nobody
  /\ stop' = "done"
  /\ UNCHANGED <<daemon, graphs, liveTurn, pc, job, loop, stopHad, ghosts, bounds>>

EndLoop ==
  /\ loop = "accepting" /\ stop = "done"
  /\ loop' = "draining"
  /\ UNCHANGED <<daemon, graphs, liveTurn, pc, job, stop, stopHad, ghosts, bounds>>

\* The loop ends without a stop, or drops one that waits.
SupervisorExits ==
  /\ loop = "accepting"
  /\ loop' = "draining"
  /\ stop' = IF stop = "waiting" THEN "done" ELSE stop
  /\ UNCHANGED <<daemon, graphs, liveTurn, pc, job, stopHad, ghosts, bounds>>

HandlersEnd ==
  /\ loop = "draining"
  /\ \A h \in Handlers : pc[h] = "idle"
  /\ loop' = "drained"
  /\ UNCHANGED <<daemon, graphs, liveTurn, pc, job, stop, stopHad, ghosts, bounds>>

\* What is left running is aborted, and the process waits a while for that to land.
DrainElapses ==
  /\ loop = "draining"
  /\ loop' = "aborted"
  /\ UNCHANGED <<daemon, graphs, liveTurn, pc, job, stop, stopHad, ghosts, bounds>>

Exit ==
  /\ Drained /\ stop = "done"
  /\ loop' = "exited"
  /\ UNCHANGED <<daemon, graphs, liveTurn, pc, job, stop, stopHad, ghosts, bounds>>

-----------------------------------------------------------------------------

Client(h) ==
  \/ Connect(h) \/ Disconnect(h) \/ Decide(h) \/ Decided(h) \/ DecisionExpires(h)
  \/ OrphanEnds(h)

InTurn(h) ==
  \/ PlanLive(h) \/ PlanAccept(h) \/ TakeLive(h) \/ Refuse(h)
  \/ SettleLive(h) \/ InstallEdit(h) \/ SettleAccept(h) \/ LeaveTurn(h)

Commit(a) ==
  \/ CommitRefused(a) \/ WriteAhead(a) \/ PersistFails(a) \/ Publish(a)
  \/ BeginCheckpoint(a) \/ Checkpoint(a) \/ Report(a)

ReloadStep ==
  \/ RecordIntent \/ LoadRefused \/ Loaded \/ SettleReload \/ InstallReload

Shutdown ==
  \/ StopOnDrain \/ FinalStop \/ StopHasTurn \/ StopElapses \/ EndLoop
  \/ HandlersEnd \/ DrainElapses \/ Exit

Next ==
  \/ \E h \in Handlers : Client(h) \/ Busy(h) \/ InTurn(h) \/ Abort(h)
  \/ \E a \in Actors : EnterTurn(a) \/ RefuseTurn(a) \/ Commit(a) \/ Panic(a)
  \/ Hup \/ ReloadStep
  \/ InstallLive \/ InstallFails
  \/ Signal \/ SupervisorExits
  \/ Shutdown

Spec == Init /\ [][Next]_vars

\* Appends, waits for the turn, the stop and the drains are bounded and the disk
\* answers, so that some operation in the turn goes on and so does the stop.
\* Clients, signals and the supervisor do what they like.
Fairness ==
  /\ WF_vars(Shutdown)
  /\ WF_vars(InstallLive \/ \E h \in Handlers : InTurn(h) \/ Commit(h))

FairSpec == Spec /\ Fairness

-----------------------------------------------------------------------------
(* Properties *)

Steps == {"idle", "connected", "deciding", "waiting", "entered", "taking", "loading",
          "writing", "ready", "published", "checkpointing", "committed", "settled",
          "installing", "mirroring", "reporting", "dead"}

\* Every variable holds a value of its kind, and only who is in the turn has it.
TypeOK ==
  /\ turn \in Actors \union {Nobody} /\ stopping \in BOOLEAN
  /\ drain \in {"serving", "begun", "applied", "failed"}
  /\ store \in Graph /\ persisted \in Graph /\ revision \in Nat
  /\ snap \subseteq Handlers /\ live \in Bases
  /\ sharing \subseteq Handlers
  /\ held \in Handlers \union {Nobody} /\ sent \in Bases \union {Nobody}
  /\ pc \in [Actors -> Steps]
  /\ job \in [Actors -> Job]
  /\ loop \in {"accepting", "draining", "drained", "aborted", "exited"}
  /\ stop \in {"no", "waiting", "done"}
  /\ stopHad \in BOOLEAN /\ torn \in BOOLEAN /\ behind \in BOOLEAN
  /\ ops \in Nat /\ reloads \in Nat /\ faults \in Nat

\* While the daemon serves and nobody is in the turn, what it enforces and what it counts
\* from is what is stored, whichever append, persist or install failed and wherever an
\* operation panicked, with two exceptions.  A panic between a persist and its settling
\* (an accept arms its guard, live_unsettled, only then) leaves the daemon serving what it
\* had; but its counter lags the store, so that every further commit is stale and refused
\* (persist): nothing is built on the graph it serves by mistake.  A panic between the
\* counter and the install of a live edit leaves the snapshot behind until the next edit or
\* reload installs one.
ServedIsStored ==
  (turn = Nobody /\ drain = "serving" /\ loop = "accepting")
    => \/ /\ persisted = store
          /\ revision = store.rev
          /\ snap = store.ident \/ behind
          /\ live = store.base
       \/ torn /\ revision < store.rev

\* No decision runs on another baseline than the stored one while the daemon serves,
\* although a live-class accept persists before it installs (HeldLiveTurn), unless a panic
\* tore an operation from its persist.
DecidedOnStored ==
  (sharing # {} /\ drain = "serving" /\ loop = "accepting") => live = store.base \/ torn

\* Once a stop has had the turn nothing is stored or installed any more: whoever
\* was waiting for the turn, the reload task included, finds the daemon stopping.
StopIsFinal == [][stopHad => UNCHANGED <<store, snap>>]_vars

\* A live edit is stored only while the installed snapshot permits its requester,
\* although it was permitted before it waited for the turn.
AuthorityCurrent ==
  [][\A h \in Handlers :
       (pc[h] = "ready" /\ job[h].kind \in {"contain", "release"} /\ store' # store)
         => h \notin snap]_vars

\* A drain ends in the process's exit: it is never left begun, refusing for ever.
DrainEnds == (drain # "serving") ~> (loop = "exited")
==============================================================================
