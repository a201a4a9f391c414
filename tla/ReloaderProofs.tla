--------------------------- MODULE ReloaderProofs ---------------------------
(***************************************************************************)
(* The turn, for any number of connections, baselines and requests: a stop *)
(* that had it is final, a commit has its requester's authority, and what  *)
(* is served and decided on is what is stored.                             *)
(***************************************************************************)
EXTENDS Reloader, TLAPS

-----------------------------------------------------------------------------
(* Types *)

\* What an actor without an operation is recorded to do is a job.
LEMMA NoJobIsJob == NoGraph \in Graph /\ NoJob \in Job
<1>1. NoGraph \in Graph
  BY ReloaderAssumption DEF NoGraph, Graph
<1> HIDE DEF NoGraph
<1> QED
  BY <1>1 DEF NoJob, Job

\* The graph of a commit is a graph (identity::build).
LEMMA NextGraphIsGraph ==
  ASSUME TypeOK, NEW b \in Bases, NEW c \in SUBSET Handlers
  PROVE  NextGraph(b, c) \in Graph
BY DEF TypeOK, NextGraph, Graph

\* An operation that ends leaves a step and a job.
LEMMA EndsTypes ==
  ASSUME TypeOK, NEW a \in Actors, Ends(a)
  PROVE  pc' \in [Actors -> Steps] /\ job' \in [Actors -> Job]
<1>1. NoJob \in Job
  BY NoJobIsJob DEF TypeOK
<1>2. Rest(a) \in Steps
  BY DEF Rest, Steps
<1> QED
  BY <1>1, <1>2 DEF Ends, Goto, TypeOK

\* What the jobs have in common, and what each kind names.
LEMMA JobParts ==
  ASSUME NEW j \in Job
  PROVE  /\ j.next \in Graph /\ j.clean \in BOOLEAN /\ j.restart \in BOOLEAN
         /\ j.base \in Bases \union {Nobody}
         /\ j.kind \in {"contain", "release"} => j.target \in Handlers
         /\ j.kind = "accept" => j.base \in Bases
BY DEF Job

\* A job keeps being one when its graph or its outcome is recorded.
LEMMA JobUpdates ==
  ASSUME NEW j \in Job
  PROVE  /\ \A g \in Graph : [j EXCEPT !.next = g] \in Job
         /\ \A c \in BOOLEAN : [j EXCEPT !.clean = c] \in Job
<1> HIDE DEF Graph
<1>1. CASE j \in [kind : {"none", "reload"}, target : {Nobody}, base : {Nobody},
                  restart : {FALSE}, next : Graph, clean : BOOLEAN]
  BY <1>1 DEF Job
<1>2. CASE j \in [kind : {"contain", "release"}, target : Handlers, base : {Nobody},
                  restart : {FALSE}, next : Graph, clean : BOOLEAN]
  BY <1>2 DEF Job
<1>3. CASE j \in [kind : {"accept"}, target : {Nobody}, base : Bases, restart : BOOLEAN,
                  next : Graph, clean : BOOLEAN]
  BY <1>3 DEF Job
<1> QED
  BY <1>1, <1>2, <1>3 DEF Job

\* What a handler asks for is a job.
LEMMA RequestsAreJobs ==
  ASSUME TypeOK, NEW h \in Handlers, NEW r \in Requests(h)
  PROVE  r \in Job
<1>1. NoGraph \in Graph
  BY NoJobIsJob DEF TypeOK
<1> HIDE DEF NoGraph
<1>2. CASE r \in [kind : {"contain", "release"}, target : Handlers, base : {Nobody},
                  restart : {FALSE}, next : {NoGraph}, clean : {TRUE}]
  BY <1>1, <1>2 DEF Job
<1>3. CASE r \in [kind : {"accept"}, target : {Nobody}, base : Bases \ {persisted.base},
                  restart : BOOLEAN, next : {NoGraph}, clean : {TRUE}]
  BY <1>1, <1>3 DEF Job
<1> QED
  BY <1>2, <1>3 DEF Requests

\* Every step of a client keeps the types.
LEMMA ClientTypes ==
  ASSUME TypeOK, NEW h \in Handlers, Client(h) \/ Busy(h)
  PROVE  TypeOK'
<1> USE DEF Actors, daemon, graphs, liveTurn, serve, ghosts, bounds
<1>1. CASE Connect(h) \/ Disconnect(h)
  BY <1>1 DEF Connect, Disconnect, Goto, TypeOK, Steps
<1>2. CASE Decide(h)
  BY <1>2 DEF Decide, Goto, TypeOK, Steps
<1>3. CASE Decided(h)
  <2>1. CASE UNCHANGED <<job, ops>> /\ Goto(h, "connected")
    BY <1>3, <2>1 DEF Decided, Goto, TypeOK, Steps
  <2>2. CASE \E r \in Requests(h) : job' = [job EXCEPT ![h] = r] /\ Goto(h, "waiting")
    <3>1. PICK r \in Requests(h) : job' = [job EXCEPT ![h] = r] /\ Goto(h, "waiting")
      BY <2>2
    <3>2. job' \in [Actors -> Job]
      BY <3>1, RequestsAreJobs DEF TypeOK
    <3>3. ops' \in Nat
      BY <1>3 DEF Decided, TypeOK
    <3> QED
      BY <1>3, <3>1, <3>2, <3>3 DEF Decided, Goto, TypeOK, Steps
  <2> QED
    BY <1>3, <2>1, <2>2 DEF Decided
<1>4. CASE DecisionExpires(h)
  BY <1>4 DEF DecisionExpires, Goto, TypeOK, Steps
<1>5. CASE OrphanEnds(h)
  BY <1>5 DEF OrphanEnds, TypeOK
<1>6. CASE Busy(h)
  BY <1>6, EndsTypes DEF Busy, TypeOK
<1> QED
  BY <1>1, <1>2, <1>3, <1>4, <1>5, <1>6 DEF Client

\* An install keeps them.
LEMMA InstalledTypes ==
  ASSUME NEW ident \in SUBSET Handlers, Installed(ident)
  PROVE  snap' \subseteq Handlers /\ behind' \in BOOLEAN
BY DEF Installed

\* Every step for and in the turn keeps the types.
LEMMA TurnTypes ==
  ASSUME TypeOK, NEW h \in Handlers, InTurn(h)
  PROVE  TypeOK'
<1> USE DEF daemon, graphs, liveTurn, serve, ghosts, bounds
<1>h. h \in Actors
  BY DEF Actors
<1>1. CASE PlanLive(h)
  <2>1. persisted.base \in Bases /\ Contained(job[h]) \in SUBSET Handlers
    BY <1>1, <1>h, JobParts DEF TypeOK, Graph, Contained, PlanLive
  <2>2. NextGraph(persisted.base, Contained(job[h])) \in Graph
    BY <2>1, NextGraphIsGraph
  <2>3. job' = [job EXCEPT ![h].next = NextGraph(persisted.base, Contained(job[h]))]
    BY <1>1 DEF PlanLive
  <2> HIDE DEF NextGraph, Contained
  <2>4. job' \in [Actors -> Job]
    BY <1>h, <2>2, <2>3, JobUpdates DEF TypeOK
  <2> QED
    BY <1>1, <1>h, <2>4 DEF PlanLive, Goto, TypeOK, Steps
<1>2. CASE PlanAccept(h)
  <2>1. job[h].base \in Bases /\ persisted.ident \in SUBSET Handlers
    BY <1>2, <1>h, JobParts DEF PlanAccept, TypeOK, Graph
  <2>2. NextGraph(job[h].base, persisted.ident) \in Graph
    BY <2>1, NextGraphIsGraph
  <2>3. job' = [job EXCEPT ![h].next = NextGraph(job[h].base, persisted.ident)]
    BY <1>2 DEF PlanAccept
  <2> HIDE DEF NextGraph
  <2>4. job' \in [Actors -> Job]
    BY <1>h, <2>2, <2>3, JobUpdates DEF TypeOK
  <2> QED
    BY <1>2, <1>h, <2>4 DEF PlanAccept, Goto, TypeOK, Steps
<1>3. CASE TakeLive(h)
  BY <1>3, <1>h DEF TakeLive, Goto, TypeOK, Steps
<1>4. CASE Refuse(h)
  BY <1>4, <1>h, EndsTypes DEF Refuse, Refused, TypeOK
<1>5. CASE SettleLive(h)
  <2>1. job[h].next \in Graph
    BY <1>h, JobParts DEF TypeOK
  <2> QED
    BY <1>5, <1>h, <2>1 DEF SettleLive, Goto, TypeOK, Steps, Graph
<1>i. CASE InstallEdit(h)
  <2>1. job[h].next.ident \in SUBSET Handlers
    BY <1>h, JobParts DEF TypeOK, Graph
  <2> QED
    BY <1>i, <1>h, <2>1, InstalledTypes DEF InstallEdit, Goto, TypeOK, Steps
<1>6. CASE SettleAccept(h)
  <2>1. job[h].next \in Graph /\ job[h].base \in Bases \union {Nobody}
    BY <1>h, JobParts DEF TypeOK
  <2>2. job[h].next.rev \in Nat
    BY <2>1 DEF Graph
  <2> QED
    BY <1>6, <1>h, <2>1, <2>2 DEF SettleAccept, UncleanDrain, Goto, TypeOK, Steps
<1>7. CASE LeaveTurn(h)
  BY <1>7, <1>h DEF LeaveTurn, Goto, TypeOK, Steps
<1> QED
  BY <1>1, <1>2, <1>3, <1>4, <1>5, <1>i, <1>6, <1>7 DEF InTurn

\* A reload that is refused reports the graph the daemon has.
LEMMA RefusedReloadTypes ==
  ASSUME TypeOK, ReloadRefused
  PROVE  pc' \in [Actors -> Steps] /\ job' \in [Actors -> Job]
<1>1. Reload \in Actors
  BY DEF Actors
<1>2. [persisted EXCEPT !.rev = revision] \in Graph
  BY DEF TypeOK, Graph
<1>3. job' \in [Actors -> Job]
  BY <1>1, <1>2, JobUpdates DEF ReloadRefused, TypeOK
<1> QED
  BY <1>1, <1>3 DEF ReloadRefused, Goto, TypeOK, Steps

\* A commit that fails keeps the types of what it touches.
LEMMA FailedCommitTypes ==
  ASSUME TypeOK, NEW a \in Actors, CommitFails(a)
  PROVE  /\ pc' \in [Actors -> Steps] /\ job' \in [Actors -> Job]
         /\ turn' \in Actors \union {Nobody}
         /\ held' \in Handlers \union {Nobody}
<1>1. CASE a = Reload
  BY <1>1, RefusedReloadTypes DEF CommitFails, TypeOK
<1>2. CASE a # Reload
  BY <1>2, EndsTypes DEF CommitFails, Refused, TypeOK
<1> QED
  BY <1>1, <1>2

\* Whether or not a step counts as a fault, the count stays one.
LEMMA FaultTypes ==
  ASSUME TypeOK
  PROVE  /\ Fault => faults' \in Nat
         /\ \A ok \in BOOLEAN : MayFail(ok) => faults' \in Nat
BY DEF TypeOK, Fault, MayFail

\* Every step of a commit keeps the types.
LEMMA CommitTypes ==
  ASSUME TypeOK, NEW a \in Actors, Commit(a)
  PROVE  TypeOK'
<1> USE DEF daemon, graphs, liveTurn, serve, ghosts, bounds
<1>j. job[a] \in Job /\ job[a].next \in Graph /\ job[a].clean \in BOOLEAN
  BY JobParts DEF TypeOK
<1>1. CASE CommitRefused(a)
  <2>1. MayFail(StoreRefuses(a)) /\ StoreRefuses(a) \in BOOLEAN
    BY <1>1 DEF CommitRefused, StoreRefuses
  <2>2. faults' \in Nat
    BY <2>1, FaultTypes
  <2> QED
    BY <1>1, <2>2, FailedCommitTypes DEF CommitRefused, TypeOK
<1>2. CASE WriteAhead(a)
  BY <1>2 DEF WriteAhead, Goto, TypeOK, Steps
<1>3. CASE PersistFails(a)
  BY <1>3, FaultTypes, FailedCommitTypes DEF PersistFails, TypeOK
<1>4. CASE Publish(a)
  <2>1. PICK durable \in BOOLEAN : /\ MayFail(durable)
                                   /\ job' = [job EXCEPT ![a].clean = durable]
    BY <1>4 DEF Publish
  <2>2. faults' \in Nat /\ job' \in [Actors -> Job]
    BY <1>j, <2>1, FaultTypes, JobUpdates DEF TypeOK
  <2> QED
    BY <1>4, <1>j, <2>2 DEF Publish, Goto, TypeOK, Steps
<1>5. CASE BeginCheckpoint(a)
  BY <1>5 DEF BeginCheckpoint, Goto, TypeOK, Steps
<1>6. CASE Checkpoint(a)
  <2>1. PICK recorded \in BOOLEAN :
               /\ MayFail(recorded)
               /\ job' = [job EXCEPT ![a].clean = job[a].clean /\ recorded]
    BY <1>6, <1>j DEF Checkpoint, TypeOK
  <2>2. (job[a].clean /\ recorded) \in BOOLEAN
    OBVIOUS
  <2>3. faults' \in Nat /\ job' \in [Actors -> Job]
    BY <1>j, <2>1, <2>2, FaultTypes, JobUpdates DEF TypeOK
  <2> QED
    BY <1>6, <2>3 DEF Checkpoint, Goto, TypeOK, Steps
<1>7. CASE Report(a)
  <2>1. faults' \in Nat
    BY <1>7, FaultTypes DEF Report
  <2>2. revision' \in Nat
    BY <1>7, <1>j DEF Report, TypeOK, Graph
  <2> QED
    BY <1>7, <2>1, <2>2, EndsTypes DEF Report, TypeOK
<1> QED
  BY <1>1, <1>2, <1>3, <1>4, <1>5, <1>6, <1>7 DEF Commit

\* Every step of the reload task keeps the types.
LEMMA ReloadTypes ==
  ASSUME TypeOK, Hup \/ ReloadStep
  PROVE  TypeOK'
<1> USE DEF daemon, graphs, liveTurn, serve, ghosts, bounds
<1>r. Reload \in Actors
  BY DEF Actors
<1>j. job[Reload] \in Job /\ job[Reload].next \in Graph
  BY <1>r, JobParts DEF TypeOK
<1>1. CASE Hup
  BY <1>1, <1>r DEF Hup, Goto, TypeOK, Steps
<1>2. CASE RecordIntent
  BY <1>2, <1>r, FaultTypes DEF RecordIntent, Goto, TypeOK, Steps
<1>3. CASE LoadRefused
  BY <1>3, RefusedReloadTypes DEF LoadRefused, TypeOK
<1>4. CASE Loaded
  <2>1. CASE Installed(persisted.ident) /\ ReloadRefused
    <3>1. snap' \subseteq Handlers /\ behind' \in BOOLEAN
      BY <2>1, InstalledTypes DEF TypeOK, Graph
    <3>2. UNCHANGED <<daemon, store, persisted, revision, live, liveTurn, loop, stop, stopHad,
                      torn, bounds>>
      BY <1>4 DEF Loaded
    <3> QED
      BY <2>1, <3>1, <3>2, RefusedReloadTypes DEF TypeOK
  <2>2. CASE \E ident \in SUBSET Handlers :
               /\ job' = [job EXCEPT ![Reload] =
                            [NoJob EXCEPT !.kind = "reload",
                                          !.next = NextGraph(persisted.base, ident)]]
               /\ Goto(Reload, "writing")
               /\ UNCHANGED <<snap, behind>>
    <3>1. PICK ident \in SUBSET Handlers :
                 /\ job' = [job EXCEPT ![Reload] =
                              [NoJob EXCEPT !.kind = "reload",
                                            !.next = NextGraph(persisted.base, ident)]]
                 /\ Goto(Reload, "writing")
                 /\ UNCHANGED <<snap, behind>>
      BY <2>2
    <3>2. NextGraph(persisted.base, ident) \in Graph
      BY NextGraphIsGraph DEF TypeOK, Graph
    <3>3. [NoJob EXCEPT !.kind = "reload", !.next = NextGraph(persisted.base, ident)]
            \in Job
      BY <3>2 DEF NoJob, Job
    <3>4. job' \in [Actors -> Job]
      BY <1>r, <3>1, <3>3 DEF TypeOK
    <3>5. UNCHANGED <<daemon, store, persisted, revision, live, liveTurn, loop, stop, stopHad,
                      torn, bounds>>
      BY <1>4 DEF Loaded
    <3> QED
      BY <1>r, <3>1, <3>4, <3>5 DEF Goto, TypeOK, Steps
  <2> QED
    BY <1>4, <2>1, <2>2 DEF Loaded
<1>5. CASE SettleReload
  BY <1>5, <1>r, <1>j DEF SettleReload, Goto, TypeOK, Steps
<1>6. CASE InstallReload
  <2>1. snap' \subseteq Handlers /\ behind' \in BOOLEAN
    BY <1>6, <1>j, InstalledTypes DEF InstallReload, Graph
  <2> QED
    BY <1>6, <1>r, <2>1 DEF InstallReload, Goto, TypeOK, Steps
<1> QED
  BY <1>1, <1>2, <1>3, <1>4, <1>5, <1>6 DEF ReloadStep

\* The thread that holds the live turn keeps the types.
LEMMA InstallTypes ==
  ASSUME TypeOK, InstallLive \/ InstallFails
  PROVE  TypeOK'
<1> USE DEF daemon, graphs, liveTurn, serve, ghosts, bounds
<1>1. held \in Actors
  BY DEF InstallLive, InstallFails, TypeOK, Actors
<1>2. Notify("mirroring") => pc' \in [Actors -> Steps]
  BY <1>1 DEF Notify, TypeOK, Steps
<1>3. CASE InstallLive
  BY <1>2, <1>3 DEF InstallLive, TypeOK
<1>4. CASE InstallFails
  BY <1>2, <1>4, FaultTypes DEF InstallFails, TypeOK
<1> QED
  BY <1>3, <1>4

\* A future that is dropped keeps the types.
LEMMA DroppedTypes ==
  ASSUME TypeOK, NEW h \in Actors, Panic(h) \/ Abort(h)
  PROVE  TypeOK'
<1> USE DEF daemon, graphs, liveTurn, serve, ghosts, bounds
<1>1. NoJob \in Job
  BY NoJobIsJob
<1>2. Dropped(h) /\ faults' \in Nat /\ torn' \in BOOLEAN /\ behind' \in BOOLEAN
  BY FaultTypes DEF Panic, Abort, TypeOK, Unsettled
<1>3. pc' \in [Actors -> Steps] /\ job' \in [Actors -> Job]
  BY <1>1, <1>2 DEF Dropped, Goto, TypeOK, Steps
<1>4. drain' \in {"serving", "begun", "applied", "failed"}
  BY <1>2 DEF Dropped, GuardedDrain, TypeOK
<1> QED
  BY <1>2, <1>3, <1>4 DEF Dropped, TypeOK

\* The stop keeps the types.
LEMMA StopTypes ==
  ASSUME TypeOK, Signal \/ SupervisorExits \/ Shutdown
  PROVE  TypeOK'
<1> USE DEF daemon, graphs, liveTurn, serve, ghosts, bounds
<1>1. CASE BeginStop
  BY <1>1 DEF BeginStop, TypeOK
<1>2. CASE StopHasTurn
  <2>1. Reload \in Actors
    BY DEF Actors
  <2> QED
    BY <1>2, <2>1 DEF StopHasTurn, Goto, TypeOK, Steps
<1>3. CASE StopElapses \/ EndLoop \/ SupervisorExits
  BY <1>3 DEF StopElapses, EndLoop, SupervisorExits, TypeOK
<1>4. CASE HandlersEnd \/ DrainElapses \/ Exit
  BY <1>4 DEF HandlersEnd, DrainElapses, Exit, TypeOK
<1> QED
  BY <1>1, <1>2, <1>3, <1>4 DEF Signal, Shutdown, StopOnDrain, FinalStop

\* One step keeps the types.
LEMMA TypeStep == TypeOK /\ [Next]_vars => TypeOK'
<1> SUFFICES ASSUME TypeOK, [Next]_vars
             PROVE  TypeOK'
  OBVIOUS
<1> USE DEF daemon, graphs, liveTurn, serve, ghosts, bounds
<1>1. ASSUME NEW a \in Actors, EnterTurn(a)
      PROVE  TypeOK'
  BY <1>1 DEF EnterTurn, Goto, TypeOK, Steps
<1>2. ASSUME NEW a \in Actors, RefuseTurn(a)
      PROVE  TypeOK'
  BY <1>2, EndsTypes DEF RefuseTurn, TypeOK
<1>3. CASE UNCHANGED vars
  BY <1>3 DEF vars, TypeOK
<1>4. Handlers \subseteq Actors
  BY DEF Actors
<1> QED
  BY <1>1, <1>2, <1>3, <1>4, ClientTypes, TurnTypes, CommitTypes, ReloadTypes, InstallTypes,
     DroppedTypes, StopTypes DEF Next

\* The variables of the serve hold values of their kinds in every behaviour; a
\* commit's job always names the subject or the baseline its kind is about.
THEOREM TypeCorrect == Spec => []TypeOK
<1>1. Init => TypeOK
  <2> SUFFICES ASSUME Init
               PROVE  TypeOK
    OBVIOUS
  <2>1. store \in Graph /\ live \in Bases
    BY ReloaderAssumption DEF Init, Graph
  <2>2. NoJob \in Job
    BY <2>1, NoJobIsJob
  <2> QED
    BY <2>1, <2>2 DEF Init, TypeOK, Steps
<1> QED
  BY <1>1, TypeStep, PTL DEF Spec

-----------------------------------------------------------------------------
(* The turn and the stop *)

\* The steps an actor takes only with the turn.
TurnSteps == {"entered", "taking", "loading", "writing", "ready", "published",
              "checkpointing", "committed", "settled", "installing", "mirroring"}

\* Whoever is at one of them has the turn.
OneInTurn == \A a \in Actors : pc[a] \in TurnSteps => turn = a

\* A stop says so first, and once it had the turn nobody gets it again.
StopHeld ==
  /\ stop # "no" => stopping
  /\ stopHad => stopping /\ turn = Nobody

\* A live edit on its way to the store has a requester the snapshot permits.
StillPermitted ==
  \A h \in Handlers :
    (pc[h] \in {"taking", "writing", "ready"} /\ job[h].kind \in {"contain", "release"})
      => h \notin snap

TurnInv == TypeOK /\ OneInTurn /\ StopHeld /\ StillPermitted

\* A step of one actor that does not take the turn, and that is out of the turn if it
\* gives it back; the others stand still.
Moves(a) ==
  /\ pc' = [pc EXCEPT ![a] = pc'[a]]
  /\ pc'[a] \in TurnSteps => pc[a] \in TurnSteps /\ turn' = turn
  /\ turn' = turn \/ (turn' = Nobody /\ turn = a)
  /\ pc'[a] \in {"taking", "writing", "ready"} /\ a \in Handlers
       => (job'[a].kind \in {"contain", "release"} => a \notin snap')
  /\ \A h \in Handlers \ {a} : job'[h] = job[h]
  /\ snap' = snap \/ pc[a] \in TurnSteps
  /\ UNCHANGED <<stopping, stop, stopHad>>

\* Such a step keeps the invariant.
LEMMA OneMoves ==
  ASSUME TurnInv, NEW a \in Actors, Moves(a)
  PROVE  OneInTurn' /\ StopHeld' /\ StillPermitted'
<1> USE DEF Moves
<1>t. pc \in [Actors -> Steps] /\ Handlers \subseteq Actors /\ Nobody \notin Actors
  BY ReloaderAssumption DEF TurnInv, TypeOK, Actors
<1>1. OneInTurn'
  <2> SUFFICES ASSUME NEW b \in Actors, pc'[b] \in TurnSteps
               PROVE  turn' = b
    BY DEF OneInTurn
  <2>1. CASE b = a
    BY <1>t, <2>1 DEF TurnInv, OneInTurn
  <2>2. CASE b # a
    BY <1>t, <2>2 DEF TurnInv, OneInTurn
  <2> QED
    BY <2>1, <2>2
<1>2. StopHeld'
  BY DEF TurnInv, StopHeld
<1>3. StillPermitted'
  <2> SUFFICES ASSUME NEW h \in Handlers, pc'[h] \in {"taking", "writing", "ready"},
                      job'[h].kind \in {"contain", "release"}
               PROVE  h \notin snap'
    BY DEF StillPermitted
  <2>1. CASE h = a
    BY <1>t, <2>1
  <2>2. CASE h # a
    <3>1. pc[h] \in {"taking", "writing", "ready"} /\ job[h].kind \in {"contain", "release"}
      BY <1>t, <2>2
    <3>2. turn = h
      BY <1>t, <3>1 DEF TurnInv, OneInTurn, TurnSteps
    <3>3. pc[a] \notin TurnSteps
      BY <2>2, <3>2 DEF TurnInv, OneInTurn
    <3> QED
      BY <3>1, <3>3 DEF TurnInv, StillPermitted
  <2> QED
    BY <2>1, <2>2
<1> QED
  BY <1>1, <1>2, <1>3

\* The clients' steps, and a wait for the turn that ends without it.
LEMMA ClientMoves ==
  ASSUME TurnInv, NEW h \in Handlers, Client(h) \/ Busy(h)
  PROVE  OneInTurn' /\ StopHeld' /\ StillPermitted'
<1> USE DEF daemon, graphs, liveTurn, serve, ghosts, bounds, Goto
<1>t. /\ h \in Actors /\ Handlers \subseteq Actors
      /\ pc \in [Actors -> Steps] /\ job \in [Actors -> Job]
  BY DEF TurnInv, TypeOK, Actors
<1>r. h # Reload
  BY ReloaderAssumption
<1>1. CASE Connect(h) \/ Disconnect(h) \/ DecisionExpires(h)
  <2>1. Moves(h)
    BY <1>1, <1>t DEF Connect, Disconnect, DecisionExpires, Moves, TurnSteps
  <2> QED
    BY <1>t, <2>1, OneMoves
<1>2. CASE Decide(h)
  <2>1. Moves(h)
    BY <1>2, <1>t DEF Decide, Moves, TurnSteps
  <2> QED
    BY <1>t, <2>1, OneMoves
<1>3. CASE Decided(h)
  <2>1. Moves(h)
    BY <1>3, <1>t DEF Decided, Moves, TurnSteps
  <2> QED
    BY <1>t, <2>1, OneMoves
<1>4. CASE OrphanEnds(h)
  BY <1>4 DEF OrphanEnds, TurnInv, OneInTurn, StopHeld, StillPermitted
<1>5. CASE Busy(h)
  <2>1. Moves(h)
    BY <1>5, <1>t, <1>r DEF Busy, Ends, Rest, Moves, TurnSteps
  <2> QED
    BY <1>t, <2>1, OneMoves
<1> QED
  BY <1>1, <1>2, <1>3, <1>4, <1>5 DEF Client

\* A refusal gives back the turn of who is in it.
LEMMA RefusedMoves ==
  ASSUME TurnInv, NEW a \in Actors, Refused(a),
         UNCHANGED <<stopping, snap, stop, stopHad>>
  PROVE  Moves(a)
<1>1. pc \in [Actors -> Steps] /\ job \in [Actors -> Job] /\ Handlers \subseteq Actors
  BY DEF TurnInv, TypeOK, Actors
<1>2. Rest(a) \notin TurnSteps /\ Rest(a) \notin {"taking", "writing", "ready"}
  BY DEF Rest, TurnSteps
<1> QED
  BY <1>1, <1>2 DEF Refused, Ends, Goto, Moves

\* The handlers' steps in the turn; a plan is made only for a permitted requester.
LEMMA TurnMoves ==
  ASSUME TurnInv, NEW h \in Handlers, InTurn(h)
  PROVE  OneInTurn' /\ StopHeld' /\ StillPermitted'
<1> USE DEF daemon, graphs, liveTurn, serve, ghosts, bounds, Goto
<1>t. /\ h \in Actors /\ Handlers \subseteq Actors
      /\ pc \in [Actors -> Steps] /\ job \in [Actors -> Job]
  BY DEF TurnInv, TypeOK, Actors
<1>o. pc[h] \in TurnSteps => turn = h
  BY <1>t DEF TurnInv, OneInTurn
<1> SUFFICES Moves(h)
  BY <1>t, OneMoves
<1>1. CASE PlanLive(h)
  <2>1. job' = [job EXCEPT ![h] = job'[h]]
    BY <1>1, <1>t DEF PlanLive
  <2> QED
    BY <1>1, <1>t, <2>1 DEF PlanLive, Reauthorized, Moves, TurnSteps
<1>2. CASE PlanAccept(h)
  <2>1. job' = [job EXCEPT ![h].next = NextGraph(job[h].base, persisted.ident)]
    BY <1>2 DEF PlanAccept
  <2> HIDE DEF NextGraph
  <2>2. job'[h].kind = job[h].kind /\ \A g \in Handlers \ {h} : job'[g] = job[g]
    BY <1>t, <2>1 DEF Job
  <2> QED
    BY <1>2, <1>t, <2>2 DEF PlanAccept, Moves, TurnSteps
<1>3. CASE TakeLive(h)
  BY <1>3, <1>t DEF TakeLive, Moves, TurnSteps, TurnInv, StillPermitted
<1>4. CASE Refuse(h)
  BY <1>4, <1>t, RefusedMoves DEF Refuse
<1>5. CASE SettleLive(h)
  BY <1>5, <1>t DEF SettleLive, Moves, TurnSteps
<1>i. CASE InstallEdit(h)
  BY <1>i, <1>t DEF InstallEdit, Installed, Moves, TurnSteps
<1>6. CASE SettleAccept(h)
  BY <1>6, <1>t DEF SettleAccept, Moves, TurnSteps
<1>7. CASE LeaveTurn(h)
  BY <1>7, <1>t, <1>o DEF LeaveTurn, Moves, TurnSteps
<1> QED
  BY <1>1, <1>2, <1>3, <1>4, <1>5, <1>i, <1>6, <1>7 DEF InTurn

\* The steps of a commit.
LEMMA CommitMoves ==
  ASSUME TurnInv, NEW a \in Actors, Commit(a)
  PROVE  OneInTurn' /\ StopHeld' /\ StillPermitted'
<1> USE DEF daemon, graphs, liveTurn, serve, ghosts, bounds, Goto
<1>t. /\ Handlers \subseteq Actors /\ Reload \in Actors
      /\ pc \in [Actors -> Steps] /\ job \in [Actors -> Job]
  BY DEF TurnInv, TypeOK, Actors
<1>o. pc[a] \in TurnSteps => turn = a
  BY DEF TurnInv, OneInTurn
<1> SUFFICES Moves(a)
  BY OneMoves
<1>1. ASSUME CommitFails(a), pc[a] \in TurnSteps, UNCHANGED <<stopping, snap, stop, stopHad>>
      PROVE  Moves(a)
  <2>1. CASE a = Reload
    BY <1>1, <1>t, <2>1, ReloaderAssumption
       DEF CommitFails, ReloadRefused, Moves, TurnSteps
  <2>2. CASE a # Reload
    BY <1>1, <2>2, RefusedMoves DEF CommitFails
  <2> QED
    BY <2>1, <2>2
<1>2. CASE CommitRefused(a)
  BY <1>1, <1>2 DEF CommitRefused, TurnSteps
<1>3. CASE WriteAhead(a)
  BY <1>3, <1>t DEF WriteAhead, Moves, TurnSteps, TurnInv, StillPermitted
<1>4. CASE PersistFails(a)
  BY <1>1, <1>4 DEF PersistFails, TurnSteps
<1>5. CASE Publish(a)
  BY <1>5, <1>t DEF Publish, Moves, TurnSteps
<1>6. CASE BeginCheckpoint(a)
  BY <1>6, <1>t DEF BeginCheckpoint, Moves, TurnSteps
<1>7. CASE Checkpoint(a)
  BY <1>7, <1>t DEF Checkpoint, Moves, TurnSteps
<1>8. CASE Report(a)
  <2>1. Rest(a) \notin TurnSteps /\ Rest(a) \notin {"taking", "writing", "ready"}
    BY DEF Rest, TurnSteps
  <2> QED
    BY <1>8, <1>t, <2>1 DEF Report, Ends, Moves
<1> QED
  BY <1>2, <1>3, <1>4, <1>5, <1>6, <1>7, <1>8 DEF Commit

\* The reload task's own steps.
LEMMA ReloadMoves ==
  ASSUME TurnInv, Hup \/ ReloadStep
  PROVE  OneInTurn' /\ StopHeld' /\ StillPermitted'
<1> USE DEF daemon, graphs, liveTurn, serve, ghosts, bounds, Goto
<1>t. /\ Handlers \subseteq Actors /\ Reload \in Actors /\ Reload \notin Handlers
      /\ pc \in [Actors -> Steps] /\ job \in [Actors -> Job]
  BY ReloaderAssumption DEF TurnInv, TypeOK, Actors
<1>o. pc[Reload] \in TurnSteps => turn = Reload
  BY <1>t DEF TurnInv, OneInTurn
<1> SUFFICES Moves(Reload)
  BY <1>t, OneMoves
<1>1. CASE Hup
  BY <1>1, <1>t DEF Hup, Moves, TurnSteps
<1>2. CASE RecordIntent
  BY <1>2, <1>t, <1>o DEF RecordIntent, Moves, TurnSteps
<1>3. CASE LoadRefused
  BY <1>3, <1>t DEF LoadRefused, ReloadRefused, Moves, TurnSteps
<1>4. CASE Loaded
  BY <1>4, <1>t DEF Loaded, Installed, ReloadRefused, Moves, TurnSteps
<1>5. CASE SettleReload
  BY <1>5, <1>t DEF SettleReload, Moves, TurnSteps
<1>6. CASE InstallReload
  BY <1>6, <1>t DEF InstallReload, Installed, Moves, TurnSteps
<1> QED
  BY <1>1, <1>2, <1>3, <1>4, <1>5, <1>6 DEF ReloadStep

\* The thread of the live turn, and handlers that are dropped.
LEMMA ThreadMoves ==
  ASSUME TurnInv, InstallLive \/ InstallFails
  PROVE  OneInTurn' /\ StopHeld' /\ StillPermitted'
<1> USE DEF daemon, graphs, liveTurn, serve, ghosts, bounds
<1>t. held \in Actors /\ Handlers \subseteq Actors /\ pc \in [Actors -> Steps]
  BY DEF TurnInv, TypeOK, Actors, InstallLive, InstallFails
<1>1. Notify("mirroring") /\ UNCHANGED <<turn, stopping, snap, job, stop, stopHad>>
  BY DEF InstallLive, InstallFails
<1>2. CASE pc[held] = "installing"
  <2>1. Moves(held)
    BY <1>t, <1>1, <1>2 DEF Notify, Moves, TurnSteps
  <2> QED
    BY <1>t, <2>1, OneMoves
<1>3. CASE pc[held] # "installing"
  BY <1>1, <1>3 DEF Notify, TurnInv, OneInTurn, StopHeld, StillPermitted
<1> QED
  BY <1>2, <1>3

\* A dropped handler gives the turn back.
LEMMA DropMoves ==
  ASSUME TurnInv, NEW h \in Actors, Panic(h) \/ Abort(h)
  PROVE  OneInTurn' /\ StopHeld' /\ StillPermitted'
<1> USE DEF daemon, graphs, liveTurn, serve, ghosts, bounds
<1>t. Handlers \subseteq Actors /\ pc \in [Actors -> Steps] /\ job \in [Actors -> Job]
  BY DEF TurnInv, TypeOK, Actors
<1>1. Moves(h)
  BY <1>t DEF Panic, Abort, Dropped, Goto, Moves, TurnSteps
<1> QED
  BY <1>t, <1>1, OneMoves

\* The stop takes the turn only when nobody has it.
LEMMA StopMoves ==
  ASSUME TurnInv, Signal \/ SupervisorExits \/ Shutdown
  PROVE  OneInTurn' /\ StopHeld' /\ StillPermitted'
<1> USE DEF daemon, graphs, liveTurn, serve, ghosts, bounds, TurnInv
<1>1. CASE BeginStop
  BY <1>1 DEF BeginStop, OneInTurn, StopHeld, StillPermitted
<1>2. CASE StopHasTurn
  <2>1. Reload \in Actors /\ Reload \notin Handlers /\ pc \in [Actors -> Steps]
    BY ReloaderAssumption DEF Actors, TypeOK
  <2>2. OneInTurn' /\ StillPermitted'
    BY <1>2, <2>1 DEF StopHasTurn, Goto, OneInTurn, StillPermitted, TurnSteps, Actors
  <2> QED
    BY <1>2, <2>2 DEF StopHasTurn, StopHeld
<1>3. CASE StopElapses \/ EndLoop \/ SupervisorExits \/ HandlersEnd \/ DrainElapses \/ Exit
  BY <1>3 DEF StopElapses, EndLoop, SupervisorExits, HandlersEnd, DrainElapses, Exit,
              OneInTurn, StopHeld, StillPermitted
<1> QED
  BY <1>1, <1>2, <1>3 DEF Signal, Shutdown, StopOnDrain, FinalStop

\* One step keeps the invariant: the turn is entered only by one who finds it free
\* and the daemon neither stopping nor draining.
LEMMA TurnStep == TurnInv /\ [Next]_vars => TurnInv'
<1> SUFFICES ASSUME TurnInv, [Next]_vars
             PROVE  TurnInv'
  OBVIOUS
<1> USE DEF daemon, graphs, liveTurn, serve, ghosts, bounds
<1>t. TypeOK'
  BY TypeStep DEF TurnInv
<1>1. ASSUME NEW a \in Actors, EnterTurn(a)
      PROVE  OneInTurn' /\ StopHeld' /\ StillPermitted'
  <2>1. pc \in [Actors -> Steps] /\ Handlers \subseteq Actors /\ Nobody \notin Actors
    BY ReloaderAssumption DEF TurnInv, TypeOK, Actors
  <2>2. OneInTurn'
    BY <1>1, <2>1 DEF EnterTurn, Goto, TurnInv, OneInTurn
  <2>3. StopHeld'
    BY <1>1 DEF EnterTurn, MayEnter, Serves, TurnInv, StopHeld
  <2>4. StillPermitted'
    BY <1>1, <2>1 DEF EnterTurn, Goto, TurnInv, StillPermitted
  <2> QED
    BY <2>2, <2>3, <2>4
<1>2. ASSUME NEW a \in Actors, RefuseTurn(a)
      PROVE  OneInTurn' /\ StopHeld' /\ StillPermitted'
  <2>1. pc \in [Actors -> Steps] /\ job \in [Actors -> Job] /\ Handlers \subseteq Actors
    BY DEF TurnInv, TypeOK, Actors
  <2>2. Rest(a) \notin TurnSteps /\ Rest(a) \notin {"taking", "writing", "ready"}
    BY DEF Rest, TurnSteps
  <2>3. Moves(a)
    BY <1>2, <2>1, <2>2 DEF RefuseTurn, Ends, Goto, Moves
  <2> QED
    BY <1>2, <2>3, OneMoves
<1>3. ASSUME UNCHANGED vars
      PROVE  OneInTurn' /\ StopHeld' /\ StillPermitted'
  BY <1>3 DEF vars, TurnInv, OneInTurn, StopHeld, StillPermitted
<1>4. ASSUME NEW h \in Handlers, Client(h) \/ Busy(h) \/ InTurn(h)
      PROVE  OneInTurn' /\ StopHeld' /\ StillPermitted'
  BY <1>4, ClientMoves, TurnMoves
<1>5. ASSUME NEW a \in Actors, Commit(a) \/ Panic(a) \/ Abort(a)
      PROVE  OneInTurn' /\ StopHeld' /\ StillPermitted'
  BY <1>5, CommitMoves, DropMoves
<1>a. Handlers \subseteq Actors
  BY DEF Actors
<1>6. ASSUME \/ Hup \/ ReloadStep \/ InstallLive \/ InstallFails
             \/ Signal \/ SupervisorExits \/ Shutdown
      PROVE  OneInTurn' /\ StopHeld' /\ StillPermitted'
  BY <1>6, ReloadMoves, ThreadMoves, StopMoves
<1>7. OneInTurn' /\ StopHeld' /\ StillPermitted'
  BY <1>1, <1>2, <1>3, <1>4, <1>5, <1>6, <1>a DEF Next
<1> QED
  BY <1>t, <1>7 DEF TurnInv

\* The invariant holds in every behaviour.
LEMMA TurnAlways == Spec => []TurnInv
<1>1. Init => TurnInv
  <2> SUFFICES ASSUME Init
               PROVE  TurnInv
    OBVIOUS
  <2>1. store \in Graph /\ live \in Bases
    BY ReloaderAssumption DEF Init, Graph
  <2>2. TypeOK
    BY <2>1, NoJobIsJob DEF Init, TypeOK, Steps
  <2> QED
    BY <2>2 DEF Init, TurnInv, OneInTurn, StopHeld, StillPermitted, TurnSteps, Actors
<1> QED
  BY <1>1, TurnStep, PTL DEF Spec

\* After a stop had the turn (Reloader::stop, Stop::Abort) no step stores a graph or
\* installs a snapshot: reloads, edits and accepts that were waiting are refused.
THEOREM StopAlwaysFinal == Spec => StopIsFinal
<1>1. ASSUME TurnInv, [Next]_vars
      PROVE  [stopHad => UNCHANGED <<store, snap>>]_vars
  <2> SUFFICES ASSUME Next, stopHad
               PROVE  UNCHANGED <<store, snap>>
    BY <1>1
  <2> USE DEF daemon, graphs, liveTurn, serve, ghosts, bounds
  <2>1. \A a \in Actors : pc[a] \notin TurnSteps
    BY <1>1, ReloaderAssumption DEF TurnInv, OneInTurn, StopHeld
  <2>2. ASSUME NEW h \in Handlers,
               Client(h) \/ Busy(h) \/ InTurn(h) \/ Abort(h)
        PROVE  UNCHANGED <<store, snap>>
    BY <2>1, <2>2
       DEF Client, Connect, Disconnect, Decide, Decided, DecisionExpires, OrphanEnds, Busy,
           InTurn, PlanLive, PlanAccept, TakeLive, Refuse, SettleLive, InstallEdit,
           SettleAccept, LeaveTurn, Abort, Dropped, TurnSteps, Actors
  <2>3. ASSUME NEW a \in Actors, EnterTurn(a) \/ RefuseTurn(a) \/ Commit(a) \/ Panic(a)
        PROVE  UNCHANGED <<store, snap>>
    BY <2>1, <2>3
       DEF EnterTurn, RefuseTurn, Commit, CommitRefused, WriteAhead, PersistFails, Publish,
           BeginCheckpoint, Checkpoint, Report, Panic, Dropped, TurnSteps
  <2>4. CASE Hup \/ ReloadStep
    BY <2>1, <2>4 DEF Hup, ReloadStep, RecordIntent, LoadRefused, Loaded, SettleReload,
                      InstallReload, Installed, TurnSteps, Actors
  <2>5. CASE InstallLive \/ InstallFails
    BY <2>5 DEF InstallLive, InstallFails
  <2>6. CASE Signal \/ SupervisorExits \/ Shutdown
    BY <2>6 DEF Signal, SupervisorExits, Shutdown, StopOnDrain, FinalStop, BeginStop,
                StopHasTurn, StopElapses, EndLoop, HandlersEnd, DrainElapses, Exit
  <2> QED
    BY <2>2, <2>3, <2>4, <2>5, <2>6 DEF Next
<1> QED
  BY <1>1, TurnAlways, PTL DEF Spec, StopIsFinal

\* A live edit is stored only while the installed snapshot permits its requester:
\* reauthorize decides in the turn, and nobody else installs before the commit.
THEOREM AuthorityAlwaysCurrent == Spec => AuthorityCurrent
<1>1. ASSUME TurnInv
      PROVE  [\A h \in Handlers :
                (pc[h] = "ready" /\ job[h].kind \in {"contain", "release"} /\ store' # store)
                  => h \notin snap]_vars
  BY <1>1 DEF TurnInv, StillPermitted
<1> QED
  BY <1>1, TurnAlways, PTL DEF Spec, AuthorityCurrent

-----------------------------------------------------------------------------
(* What is served *)

\* The graph the daemon has, its counter and its snapshot are the stored graph's.
Stored ==
  /\ persisted = store
  /\ revision = store.rev
  /\ snap = store.ident \/ behind

\* The daemon serves, and no panic has torn an operation from its persist.
Whole == loop = "accepting" /\ ~torn

Accepts(a) == job[a].kind = "accept"
LiveAccept(a) == Accepts(a) /\ ~job[a].restart

\* From its persist until its values are installed, or the daemon drains, a live
\* baseline is ahead of the live values.
Ahead(a) ==
  \/ LiveAccept(a) /\ pc[a] \in {"checkpointing", "committed"}
  \/ a \in Handlers /\ pc[a] = "installing"

\* The graphs, as far as the operation in the turn has come.
GraphsHere(a) ==
  /\ pc[a] \in TurnSteps \union {"reporting"}
  /\ pc[a] \in {"entered", "taking", "loading", "writing", "ready", "mirroring"} => Stored
  /\ (Accepts(a) /\ pc[a] \in {"taking", "writing", "ready"})
       => job[a].next.ident = store.ident /\ job[a].next.base = job[a].base
  /\ pc[a] = "ready" => Accepts(a) \/ job[a].next.base = store.base
  /\ pc[a] \in {"published", "checkpointing", "committed"}
       => /\ store = job[a].next
          /\ Accepts(a) => /\ snap = store.ident \/ behind
                           /\ store.base = job[a].base
  /\ pc[a] \in {"ready", "published", "checkpointing", "committed"}
       => revision < job[a].next.rev
  /\ pc[a] = "settled" => /\ ~Accepts(a) /\ a # Reload /\ job[a].next = store
                          /\ persisted = store /\ revision = store.rev
  /\ pc[a] = "installing" => IF a = Reload THEN /\ persisted = store /\ job[a].next = store
                                                /\ revision < store.rev
                                           ELSE Stored
  /\ pc[a] = "reporting" => /\ persisted = store /\ revision <= store.rev
                            /\ snap = store.ident \/ behind
                            /\ store.rev = IF a = Reload THEN job[a].next.rev ELSE revision

\* The live turn and the live values, likewise.
LiveHere(a) ==
  /\ held \in {Nobody, a}
  /\ held = a => /\ LiveAccept(a)
                 /\ pc[a] \in {"writing", "ready", "checkpointing", "committed", "installing"}
  /\ sent # Nobody => held = a /\ pc[a] = "installing"
  /\ (LiveAccept(a) /\ pc[a] \in {"writing", "ready", "checkpointing", "committed"})
       => held = a
  /\ (a \in Handlers /\ pc[a] = "installing") => held = a /\ sent = store.base
  /\ pc[a] = "taking" => LiveAccept(a)
  /\ pc[a] = "published" => Restart(a)
  /\ (Restart(a) /\ pc[a] \in {"ready", "published", "checkpointing", "committed"})
       => drain # "serving"
  /\ drain = "serving" => Ahead(a) \/ live = store.base

\* Values of an accept that is gone are installed only while the daemon drains.
AtRest ==
  /\ Stored
  /\ drain = "serving" => held = Nobody /\ sent = Nobody /\ live = store.base

\* Decisions and the live turn exclude each other; only an accept sends values, and
\* a reload is no accept and has the turn until it has reported.
Apart ==
  /\ held # Nobody => sharing = {}
  /\ ~Accepts(Reload)
  /\ pc[Reload] = "reporting" => turn = Reload

ServeInv ==
  /\ TurnInv
  /\ Apart
  /\ Whole => IF turn = Nobody THEN AtRest ELSE GraphsHere(turn) /\ LiveHere(turn)

\* The part of the invariant that is not TurnInv's.
LEMMA Here ==
  ASSUME ServeInv, NEW a \in Actors, turn = a, Whole
  PROVE  GraphsHere(a) /\ LiveHere(a)
<1>1. a # Nobody
  BY ReloaderAssumption
<1> QED
  BY <1>1 DEF ServeInv

\* Revisions are numbers.
LEMMA Revisions ==
  ASSUME ServeInv
  PROVE  /\ revision \in Nat /\ store.rev \in Nat
         /\ \A a \in Actors : job[a].next.rev \in Nat
<1>1. \A a \in Actors : job[a].next \in Graph
  BY JobParts DEF ServeInv, TurnInv, TypeOK
<1> QED
  BY <1>1 DEF ServeInv, TurnInv, TypeOK, Graph

\* A step in the turn: only the facts about who is in it are to be shown again.
LEMMA HereAgain ==
  ASSUME TurnInv', Apart', NEW a \in Actors, turn' = a,
         Whole' => GraphsHere(a)' /\ LiveHere(a)'
  PROVE  ServeInv'
<1>1. turn' # Nobody
  BY ReloaderAssumption
<1> QED
  BY <1>1 DEF ServeInv

\* What an update of one field leaves of a job.
LEMMA JobKeeps ==
  ASSUME NEW j \in Job
  PROVE  /\ \A g \in Graph : LET k == [j EXCEPT !.next = g] IN
              k.next = g /\ k.kind = j.kind /\ k.base = j.base /\ k.restart = j.restart
         /\ \A c \in BOOLEAN : LET k == [j EXCEPT !.clean = c] IN
              k.next = j.next /\ k.kind = j.kind /\ k.base = j.base /\ k.restart = j.restart
BY DEF Job

\* A step of an actor that is not in the turn, which leaves the graphs and the live
\* turn alone.
Outside(a) ==
  /\ pc' = [pc EXCEPT ![a] = pc'[a]]
  /\ \A b \in Actors \ {a} : job'[b] = job[b]
  /\ UNCHANGED <<turn, graphs, held, sent, loop, ghosts>>
  /\ drain' = "serving" => drain = "serving"

LEMMA OutsideServes ==
  ASSUME ServeInv, TurnInv', NEW a \in Actors, Outside(a), Apart',
         Whole => turn # a
  PROVE  ServeInv'
<1> SUFFICES ASSUME Whole
             PROVE  IF turn' = Nobody THEN AtRest'
                                      ELSE GraphsHere(turn)' /\ LiveHere(turn)'
  BY DEF ServeInv, Outside, Whole, ghosts
<1>1. turn' = turn /\ turn # a
  BY DEF Outside
<1>2. CASE turn = Nobody
  BY <1>1, <1>2 DEF Outside, graphs, ghosts, ServeInv, AtRest, Stored
<1>3. CASE turn # Nobody
  <2>1. PICK b \in Actors : b = turn
    BY <1>3 DEF ServeInv, TurnInv, TypeOK
  <2>2. pc'[b] = pc[b] /\ job'[b] = job[b]
    BY <1>1, <2>1 DEF Outside, ServeInv, TurnInv, TypeOK
  <2>3. GraphsHere(b) /\ LiveHere(b)
    BY <2>1, Here
  <2>4. GraphsHere(b)'
    BY <2>2, <2>3 DEF Outside, graphs, ghosts, GraphsHere, Stored, Accepts
  <2>5. LiveHere(b)'
    BY <2>2, <2>3 DEF Outside, graphs, LiveHere, LiveAccept, Accepts, Restart, Ahead
  <2> QED
    BY <1>1, <1>3, <2>1, <2>4, <2>5
<1> QED
  BY <1>2, <1>3

\* Who waits, decides or is connected is not in the turn.
LEMMA NotInTurn ==
  ASSUME ServeInv, NEW a \in Actors, pc[a] \notin TurnSteps \union {"reporting"}
  PROVE  Whole => turn # a
BY Here DEF GraphsHere

\* The clients' steps, and a wait for the turn that ends without it.
LEMMA ClientServes ==
  ASSUME ServeInv, TurnInv', NEW h \in Handlers, Client(h) \/ Busy(h)
  PROVE  ServeInv'
<1> USE DEF daemon, graphs, liveTurn, serve, ghosts, bounds, Whole, Goto
<1>t. /\ h \in Actors /\ h # Reload /\ Reload \in Actors
      /\ pc \in [Actors -> Steps] /\ job \in [Actors -> Job]
  BY ReloaderAssumption DEF ServeInv, TurnInv, TypeOK, Actors
<1>1. CASE OrphanEnds(h)
  <2>1. Apart'
    BY <1>1 DEF OrphanEnds, ServeInv, Apart, Accepts
  <2> QED
    BY <1>1, <2>1 DEF OrphanEnds, ServeInv, AtRest, GraphsHere, LiveHere, Stored, Accepts,
                      LiveAccept, Restart, Ahead
<1>2. CASE Connect(h) \/ Disconnect(h) \/ DecisionExpires(h)
  <2>1. Outside(h) /\ Apart' /\ pc[h] \notin TurnSteps \union {"reporting"}
    BY <1>2, <1>t DEF Connect, Disconnect, DecisionExpires, Outside, TurnSteps, ServeInv,
                      Apart, Accepts
  <2> QED
    BY <1>t, <2>1, NotInTurn, OutsideServes
<1>3. CASE Decide(h) \/ Decided(h)
  <2>1. Outside(h) /\ pc[h] \notin TurnSteps \union {"reporting"}
    BY <1>3, <1>t DEF Decide, Decided, Outside, TurnSteps
  <2>2. Apart'
    BY <1>3, <1>t DEF Decide, Decided, ServeInv, Apart, Accepts
  <2> QED
    BY <1>t, <2>1, <2>2, NotInTurn, OutsideServes
<1>4. CASE Busy(h)
  <2>1. Outside(h) /\ Apart' /\ pc[h] \notin TurnSteps \union {"reporting"}
    BY <1>4, <1>t DEF Busy, Ends, Outside, TurnSteps, ServeInv, Apart, Accepts
  <2> QED
    BY <1>t, <2>1, NotInTurn, OutsideServes
<1> QED
  BY <1>1, <1>2, <1>3, <1>4 DEF Client

\* The way into the turn: what is enforced there is what is stored.
LEMMA EnterServes ==
  ASSUME ServeInv, TurnInv', NEW a \in Actors, EnterTurn(a) \/ RefuseTurn(a)
  PROVE  ServeInv'
<1> USE DEF daemon, graphs, liveTurn, serve, ghosts, bounds, Whole, Goto
<1>t. /\ Reload \in Actors /\ Reload \notin Handlers /\ Nobody \notin Actors
      /\ pc \in [Actors -> Steps] /\ job \in [Actors -> Job]
  BY ReloaderAssumption DEF ServeInv, TurnInv, TypeOK, Actors
<1>1. CASE EnterTurn(a)
  <2>1. Apart'
    BY <1>1, <1>t DEF EnterTurn, ServeInv, Apart, Accepts
  <2>2. turn' = a /\ loop' = loop /\ torn' = torn /\ pc'[a] = "entered"
    BY <1>1, <1>t DEF EnterTurn
  <2>3. CASE Whole
    <3>1. AtRest
      BY <1>1, <2>3 DEF EnterTurn, ServeInv
    <3>2. GraphsHere(a)' /\ LiveHere(a)'
      BY <1>1, <1>t, <2>2, <3>1 
         DEF EnterTurn, MayEnter, Serves, AtRest, GraphsHere, LiveHere, Stored, TurnSteps, Ahead
    <3> QED
      BY <2>1, <2>2, <3>2, HereAgain
  <2> QED
    BY <2>1, <2>2, <2>3 DEF ServeInv
<1>2. CASE RefuseTurn(a)
  <2>1. Outside(a) /\ pc[a] \notin TurnSteps \union {"reporting"}
    BY <1>2, <1>t DEF RefuseTurn, Ends, Outside, TurnSteps
  <2>2. Apart'
    BY <1>2, <1>t DEF RefuseTurn, Ends, Rest, NoJob, ServeInv, Apart, Accepts
  <2> QED
    BY <2>1, <2>2, NotInTurn, OutsideServes
<1> QED
  BY <1>1, <1>2

\* A step that gives the turn back with nothing stored: the daemon is at rest again.
LEMMA BackServes ==
  ASSUME ServeInv, TurnInv', Apart', NEW a \in Actors, turn = a, turn' = Nobody,
         pc[a] \in {"entered", "taking", "loading", "writing", "ready"},
         UNCHANGED <<graphs, sent, loop, ghosts>>,
         held' = IF held = a THEN Nobody ELSE held,
         drain' = "serving" => drain = "serving"
  PROVE  ServeInv'
<1> SUFFICES ASSUME Whole
             PROVE  AtRest'
  BY DEF ServeInv, Whole, ghosts
<1>1. GraphsHere(a) /\ LiveHere(a)
  BY Here
<1>2. ~Ahead(a) /\ sent = Nobody /\ held' = Nobody
  BY <1>1 DEF LiveHere, Ahead
<1> QED
  BY <1>1, <1>2 DEF AtRest, GraphsHere, LiveHere, Stored, graphs, ghosts

\* The handlers' steps in the turn, outside the commit.
LEMMA InTurnServes ==
  ASSUME ServeInv, TurnInv', NEW h \in Handlers, InTurn(h)
  PROVE  ServeInv'
<1> USE DEF daemon, graphs, liveTurn, serve, ghosts, bounds, Whole, Goto
<1>t. /\ h \in Actors /\ Reload \in Actors /\ Reload \notin Handlers /\ Nobody \notin Actors
      /\ pc \in [Actors -> Steps] /\ job \in [Actors -> Job]
      /\ persisted \in Graph /\ h # Reload /\ job[h] \in Job
  BY ReloaderAssumption DEF ServeInv, TurnInv, TypeOK, Actors
<1>o. pc[h] \in TurnSteps => turn = h
  BY <1>t DEF ServeInv, TurnInv, OneInTurn
<1>l. ASSUME turn = h, Whole
      PROVE  GraphsHere(h) /\ LiveHere(h)
  BY <1>t, <1>l, Here
<1>1. CASE PlanLive(h)
  <2>1. turn = h
    BY <1>1, <1>o DEF PlanLive, TurnSteps
  <2> DEFINE g == NextGraph(persisted.base, Contained(job[h]))
  <2>2. g \in Graph
    BY <1>1, <1>t, JobParts, NextGraphIsGraph
       DEF ServeInv, TurnInv, TypeOK, Graph, Contained, PlanLive
  <2>3. job' = [job EXCEPT ![h].next = g] /\ g.base = persisted.base
    BY <1>1 DEF PlanLive, NextGraph
  <2> HIDE DEF g
  <2>4. /\ job'[h].next = g /\ job'[h].kind = job[h].kind
        /\ \A b \in Actors \ {h} : job'[b] = job[b]
    BY <1>t, <2>2, <2>3, JobKeeps
  <2>5. Apart'
    BY <1>1, <1>t, <2>4 DEF PlanLive, ServeInv, Apart, Accepts
  <2>6. ASSUME Whole
        PROVE  GraphsHere(h)' /\ LiveHere(h)'
    <3>1. GraphsHere(h) /\ LiveHere(h) /\ ~Accepts(h)' /\ pc'[h] = "writing"
      BY <1>1, <1>t, <1>l, <2>1, <2>4, <2>6 DEF PlanLive, Accepts
    <3>2. GraphsHere(h)'
      BY <1>1, <3>1 DEF PlanLive, GraphsHere, Stored, TurnSteps
    <3>3. LiveHere(h)'
      BY <1>1, <3>1 DEF PlanLive, LiveHere, LiveAccept, Restart, Accepts, Ahead
    <3> QED
      BY <3>2, <3>3
  <2> QED
    BY <1>1, <1>t, <2>1, <2>5, <2>6, HereAgain DEF PlanLive
<1>2. CASE PlanAccept(h)
  <2>1. turn = h
    BY <1>2, <1>o DEF PlanAccept, TurnSteps
  <2> DEFINE g == NextGraph(job[h].base, persisted.ident)
  <2>2. g \in Graph
    BY <1>2, <1>t, JobParts, NextGraphIsGraph
       DEF ServeInv, TurnInv, Graph, PlanAccept
  <2>3. job' = [job EXCEPT ![h].next = g] /\ g.base = job[h].base /\ g.ident = persisted.ident
    BY <1>2 DEF PlanAccept, NextGraph
  <2> HIDE DEF g
  <2>4. /\ job'[h].next = g /\ job'[h].kind = job[h].kind /\ job'[h].base = job[h].base
        /\ job'[h].restart = job[h].restart
        /\ \A b \in Actors \ {h} : job'[b] = job[b]
    BY <1>t, <2>2, <2>3, JobKeeps
  <2>5. Apart'
    BY <1>2, <1>t, <2>4 DEF PlanAccept, ServeInv, Apart, Accepts
  <2>6. ASSUME Whole
        PROVE  GraphsHere(h)' /\ LiveHere(h)'
    <3>1. /\ GraphsHere(h) /\ LiveHere(h) /\ pc[h] = "entered" /\ job[h].kind = "accept"
          /\ pc'[h] = IF job[h].restart THEN "writing" ELSE "taking"
      BY <1>2, <1>t, <1>l, <2>1, <2>6 DEF PlanAccept
    <3>2. GraphsHere(h)'
      BY <1>2, <2>3, <2>4, <3>1 DEF PlanAccept, GraphsHere, Stored, TurnSteps, Accepts
    <3>3. LiveHere(h)'
      BY <1>2, <2>4, <3>1 DEF PlanAccept, LiveHere, LiveAccept, Restart, Accepts, Ahead
    <3> QED
      BY <3>2, <3>3
  <2> QED
    BY <1>2, <1>t, <2>1, <2>5, <2>6, HereAgain DEF PlanAccept
<1>3. CASE TakeLive(h)
  <2>1. turn = h /\ Apart'
    BY <1>3, <1>t, <1>o DEF TakeLive, TurnSteps, ServeInv, Apart, Accepts
  <2>2. ASSUME Whole
        PROVE  GraphsHere(h)' /\ LiveHere(h)'
    <3>1. GraphsHere(h) /\ LiveHere(h) /\ pc'[h] = "writing"
      BY <1>3, <1>t, <1>l, <2>1, <2>2 DEF TakeLive
    <3>2. GraphsHere(h)'
      BY <1>3, <3>1 DEF TakeLive, GraphsHere, Stored, TurnSteps, Accepts
    <3>3. LiveHere(h)'
      BY <1>3, <3>1 DEF TakeLive, LiveHere, LiveAccept, Restart, Accepts, Ahead
    <3> QED
      BY <3>2, <3>3
  <2> QED
    BY <1>3, <1>t, <2>1, <2>2, HereAgain DEF TakeLive
<1>4. CASE Refuse(h)
  <2>1. turn = h /\ turn' = Nobody /\ Apart'
    BY <1>4, <1>t, <1>o DEF Refuse, Refused, Ends, TurnSteps, ServeInv, Apart, Accepts
  <2> QED
    BY <1>4, <1>t, <2>1, BackServes DEF Refuse, Refused
<1>5. CASE SettleLive(h)
  <2>1. turn = h /\ Apart'
    BY <1>5, <1>t, <1>o DEF SettleLive, TurnSteps, ServeInv, Apart, Accepts
  <2>2. ASSUME Whole
        PROVE  GraphsHere(h)' /\ LiveHere(h)'
    <3>1. /\ GraphsHere(h) /\ LiveHere(h) /\ pc'[h] = "settled" /\ pc[h] = "committed"
          /\ ~Accepts(h) /\ ~Accepts(h)'
      BY <1>5, <1>t, <1>l, <2>1, <2>2 DEF SettleLive, Accepts
    <3>2. GraphsHere(h)'
      BY <1>5, <1>t, <3>1 DEF SettleLive, GraphsHere, TurnSteps
    <3>3. LiveHere(h)'
      BY <1>5, <1>t, <3>1 DEF SettleLive, LiveHere, LiveAccept, Restart, Accepts, Ahead
    <3> QED
      BY <3>2, <3>3
  <2> QED
    BY <1>5, <1>t, <2>1, <2>2, HereAgain DEF SettleLive
<1>i. CASE InstallEdit(h)
  <2>1. turn = h /\ Apart'
    BY <1>i, <1>t, <1>o DEF InstallEdit, TurnSteps, ServeInv, Apart, Accepts
  <2>2. ASSUME Whole
        PROVE  GraphsHere(h)' /\ LiveHere(h)'
    <3>1. GraphsHere(h) /\ LiveHere(h) /\ pc'[h] = "reporting" /\ pc[h] = "settled"
      BY <1>i, <1>t, <1>l, <2>1, <2>2 DEF InstallEdit
    <3>2. GraphsHere(h)'
      BY <1>i, <1>t, <3>1, Revisions DEF InstallEdit, Installed, GraphsHere, TurnSteps
    <3>3. LiveHere(h)'
      BY <1>i, <1>t, <3>1 DEF InstallEdit, LiveHere, LiveAccept, Restart, Accepts, Ahead
    <3> QED
      BY <3>2, <3>3
  <2> QED
    BY <1>i, <1>t, <2>1, <2>2, HereAgain DEF InstallEdit
<1>6. CASE SettleAccept(h)
  <2>1. turn = h /\ Apart'
    BY <1>6, <1>t, <1>o DEF SettleAccept, TurnSteps, ServeInv, Apart, Accepts
  <2>2. ASSUME Whole
        PROVE  GraphsHere(h)' /\ LiveHere(h)'
    <3>1. GraphsHere(h) /\ LiveHere(h) /\ pc[h] = "committed" /\ Accepts(h)
      BY <1>6, <1>t, <1>l, <2>1, <2>2 DEF SettleAccept, Accepts
    <3>2. CASE ~job[h].restart /\ job[h].clean
      <4>1. pc'[h] = "installing" /\ sent' = job[h].base /\ held' = held
        BY <1>6, <1>t, <3>2 DEF SettleAccept
      <4>2. GraphsHere(h)'
        BY <1>6, <1>t, <3>1, <4>1 DEF SettleAccept, GraphsHere, Stored, TurnSteps
      <4>3. LiveHere(h)'
        BY <1>6, <1>t, <3>1, <3>2, <4>1
           DEF SettleAccept, GraphsHere, LiveHere, LiveAccept, Restart, Accepts, Ahead
      <4> QED
        BY <4>2, <4>3
    <3>3. CASE ~(~job[h].restart /\ job[h].clean)
      <4>1. pc'[h] = "mirroring" /\ sent' = sent /\ held' = Nobody
        BY <1>6, <1>t, <3>1, <3>3 DEF SettleAccept, LiveHere
      <4>2. drain' # "serving"
        BY <1>6, <1>t, <3>1, <3>3 DEF SettleAccept, UncleanDrain, LiveHere, Restart, Accepts
      <4>3. GraphsHere(h)'
        BY <1>6, <1>t, <3>1, <4>1 DEF SettleAccept, GraphsHere, Stored, TurnSteps
      <4>4. sent = Nobody
        BY <3>1 DEF LiveHere
      <4>5. LiveHere(h)'
        BY <1>t, <3>1, <4>1, <4>2, <4>4 DEF LiveHere
      <4> QED
        BY <4>3, <4>5
    <3> QED
      BY <3>2, <3>3
  <2> QED
    BY <1>6, <1>t, <2>1, <2>2, HereAgain DEF SettleAccept
<1>7. CASE LeaveTurn(h)
  <2>1. turn = h /\ turn' = Nobody /\ Apart'
    BY <1>7, <1>t, <1>o DEF LeaveTurn, TurnSteps, ServeInv, Apart, Accepts
  <2>2. ASSUME Whole
        PROVE  AtRest'
    <3>1. GraphsHere(h) /\ LiveHere(h) /\ ~Ahead(h) /\ pc[h] = "mirroring"
      BY <1>7, <1>t, <1>l, <2>1, <2>2 DEF LeaveTurn, Ahead
    <3> QED
      BY <1>7, <3>1 DEF LeaveTurn, AtRest, GraphsHere, LiveHere, Stored
  <2> QED
    BY <1>7, <2>1, <2>2 DEF LeaveTurn, ServeInv
<1> QED
  BY <1>1, <1>2, <1>3, <1>4, <1>5, <1>i, <1>6, <1>7 DEF InTurn

\* A reload that is refused still has the turn, to report what is stored.
LEMMA RefusedReloadServes ==
  ASSUME ServeInv, TurnInv', ReloadRefused, turn = Reload,
         pc[Reload] \in {"loading", "writing", "ready"},
         UNCHANGED <<turn, store, persisted, revision, live, sharing, held, sent, loop, torn>>,
         UNCHANGED <<snap, behind>> \/ Installed(persisted.ident),
         drain' = "serving" => drain = "serving"
  PROVE  ServeInv'
<1>t. /\ Reload \in Actors /\ Reload \notin Handlers /\ Reload # Nobody
      /\ pc \in [Actors -> Steps] /\ job \in [Actors -> Job] /\ job[Reload] \in Job
  BY ReloaderAssumption DEF ServeInv, TurnInv, TypeOK, Actors
<1>1. /\ [persisted EXCEPT !.rev = revision] \in Graph
      /\ [persisted EXCEPT !.rev = revision].rev = revision
  BY DEF ServeInv, TurnInv, TypeOK, Graph
<1>2. /\ job'[Reload].next.rev = revision
      /\ job'[Reload].kind = job[Reload].kind
      /\ pc'[Reload] = "reporting"
  BY <1>t, <1>1, JobKeeps DEF ReloadRefused, Goto
<1>3. Apart'
  BY <1>2 DEF ServeInv, Apart, Accepts
<1>4. ASSUME Whole
      PROVE  GraphsHere(Reload)' /\ LiveHere(Reload)'
  <2>1. GraphsHere(Reload) /\ LiveHere(Reload) /\ ~Accepts(Reload)
    BY <1>t, <1>4, Here DEF ServeInv, Apart
  <2>2. GraphsHere(Reload)'
    BY <1>2, <2>1, Revisions DEF GraphsHere, Stored, Installed
  <2>3. LiveHere(Reload)'
    BY <1>t, <1>2, <2>1 DEF LiveHere, LiveAccept, Restart, Ahead, Accepts
  <2> QED
    BY <2>2, <2>3
<1> QED
  BY <1>t, <1>3, <1>4, HereAgain DEF Whole

\* The steps of a commit.
LEMMA CommitServes ==
  ASSUME ServeInv, TurnInv', NEW a \in Actors, Commit(a)
  PROVE  ServeInv'
<1> USE DEF daemon, graphs, liveTurn, serve, ghosts, bounds, Whole, Goto
<1>t. /\ Reload \in Actors /\ Reload \notin Handlers /\ Nobody \notin Actors
      /\ pc \in [Actors -> Steps] /\ job \in [Actors -> Job] /\ job[a] \in Job
      /\ held # Reload
  BY ReloaderAssumption DEF ServeInv, TurnInv, TypeOK, Actors
<1>o. pc[a] \in TurnSteps => turn = a
  BY DEF ServeInv, TurnInv, OneInTurn
<1>l. ASSUME turn = a, Whole
      PROVE  GraphsHere(a) /\ LiveHere(a)
  BY <1>l, Here
<1>a. \A b \in Actors : b # Reload => b \in Handlers
  BY DEF Actors
<1>1. ASSUME CommitFails(a), pc[a] \in {"writing", "ready"},
             UNCHANGED <<stopping, graphs, sharing, sent, serve>>,
             drain' = "serving" => drain = "serving"
      PROVE  ServeInv'
  <2>1. turn = a
    BY <1>1, <1>o DEF TurnSteps
  <2>2. CASE a = Reload
    BY <1>1, <2>1, <2>2, RefusedReloadServes DEF CommitFails
  <2>3. CASE a # Reload
    <3>1. turn' = Nobody /\ Refused(a) /\ Apart'
      BY <1>1, <1>t, <2>1, <2>3 DEF CommitFails, Refused, Ends, ServeInv, Apart, Accepts
    <3> QED
      BY <1>1, <2>1, <3>1, BackServes DEF Refused
  <2> QED
    BY <2>2, <2>3
<1>2. CASE CommitRefused(a)
  BY <1>1, <1>2 DEF CommitRefused
<1>3. CASE PersistFails(a)
  BY <1>1, <1>3 DEF PersistFails
<1>4. CASE WriteAhead(a)
  <2>1. turn = a /\ Apart' /\ pc'[a] = "ready" /\ pc[a] = "writing"
    BY <1>4, <1>t, <1>o DEF WriteAhead, TurnSteps, ServeInv, Apart, Accepts
  <2>2. ASSUME Whole
        PROVE  GraphsHere(a)' /\ LiveHere(a)'
    <3>1. GraphsHere(a)'
      BY <1>4, <1>l, <2>1, <2>2, Revisions
         DEF WriteAhead, StoreRefuses, GraphsHere, Stored, TurnSteps, Accepts
    <3>2. LiveHere(a)'
      BY <1>4, <1>l, <2>1, <2>2 DEF WriteAhead, LiveHere, LiveAccept, Restart, Ahead, Accepts
    <3> QED
      BY <3>1, <3>2
  <2> QED
    BY <1>4, <2>1, <2>2, HereAgain DEF WriteAhead
<1>5. CASE Publish(a)
  <2>1. PICK durable \in BOOLEAN : job' = [job EXCEPT ![a].clean = durable]
    BY <1>5 DEF Publish
  <2>2. /\ job'[a].next = job[a].next /\ job'[a].kind = job[a].kind
        /\ job'[a].base = job[a].base /\ job'[a].restart = job[a].restart
        /\ \A b \in Actors \ {a} : job'[b] = job[b]
    BY <1>t, <2>1, JobKeeps
  <2>3. /\ turn = a /\ pc[a] = "ready"
        /\ pc'[a] = IF Restart(a) THEN "published" ELSE "checkpointing"
        /\ \A b \in Actors \ {a} : pc'[b] = pc[b]
    BY <1>5, <1>t, <1>o DEF Publish, TurnSteps
  <2>4. Apart'
    BY <1>5, <1>t, <2>2, <2>3 DEF Publish, ServeInv, Apart, Accepts
  <2>5. ASSUME Whole
        PROVE  GraphsHere(a)' /\ LiveHere(a)'
    <3>1. GraphsHere(a) /\ LiveHere(a)
      BY <1>l, <2>3, <2>5
    <3>2. GraphsHere(a)'
      BY <1>5, <2>2, <2>3, <3>1 DEF Publish, GraphsHere, Stored, TurnSteps, Accepts
    <3>3. LiveHere(a)'
      <4>1. UNCHANGED <<held, sent, drain, live>> /\ store' = job[a].next
        BY <1>5 DEF Publish
      <4>2. drain = "serving" => Ahead(a)' \/ live' = store'.base
        BY <2>2, <2>3, <3>1, <4>1 DEF GraphsHere, LiveHere, LiveAccept, Restart, Ahead, Accepts
      <4> QED
        BY <2>2, <2>3, <3>1, <4>1, <4>2 DEF LiveHere, LiveAccept, Restart, Accepts
    <3> QED
      BY <3>2, <3>3
  <2> QED
    BY <1>5, <2>3, <2>4, <2>5, HereAgain DEF Publish
<1>6. CASE BeginCheckpoint(a)
  <2>1. turn = a /\ Apart' /\ pc'[a] = "checkpointing" /\ pc[a] = "published"
    BY <1>6, <1>t, <1>o DEF BeginCheckpoint, TurnSteps, ServeInv, Apart, Accepts
  <2>2. ASSUME Whole
        PROVE  GraphsHere(a)' /\ LiveHere(a)'
    <3>1. GraphsHere(a)'
      BY <1>6, <1>l, <2>1, <2>2 DEF BeginCheckpoint, GraphsHere, TurnSteps, Accepts
    <3>2. LiveHere(a)'
      BY <1>6, <1>l, <2>1, <2>2
         DEF BeginCheckpoint, LiveHere, LiveAccept, Restart, Ahead, Accepts
    <3> QED
      BY <3>1, <3>2
  <2> QED
    BY <1>6, <2>1, <2>2, HereAgain DEF BeginCheckpoint
<1>7. CASE Checkpoint(a)
  <2>1. PICK recorded \in BOOLEAN :
               job' = [job EXCEPT ![a].clean = job[a].clean /\ recorded]
    BY <1>7, <1>t DEF Checkpoint
  <2>c. (job[a].clean /\ recorded) \in BOOLEAN
    OBVIOUS
  <2>2. /\ job'[a].next = job[a].next /\ job'[a].kind = job[a].kind
        /\ job'[a].base = job[a].base /\ job'[a].restart = job[a].restart
        /\ \A b \in Actors \ {a} : job'[b] = job[b]
    BY <1>t, <2>1, <2>c, JobKeeps
  <2>3. /\ turn = a /\ pc[a] = "checkpointing" /\ pc'[a] = "committed"
        /\ \A b \in Actors \ {a} : pc'[b] = pc[b]
    BY <1>7, <1>t, <1>o DEF Checkpoint, TurnSteps
  <2>4. Apart'
    BY <1>7, <1>t, <2>2, <2>3 DEF Checkpoint, ServeInv, Apart, Accepts
  <2>5. ASSUME Whole
        PROVE  GraphsHere(a)' /\ LiveHere(a)'
    <3>1. GraphsHere(a) /\ LiveHere(a)
      BY <1>l, <2>3, <2>5
    <3>2. GraphsHere(a)'
      BY <1>7, <2>2, <2>3, <3>1 DEF Checkpoint, GraphsHere, TurnSteps, Accepts
    <3>3. LiveHere(a)'
      BY <1>7, <2>2, <2>3, <3>1 DEF Checkpoint, LiveHere, LiveAccept, Restart, Ahead, Accepts
    <3> QED
      BY <3>2, <3>3
  <2> QED
    BY <1>7, <2>3, <2>4, <2>5, HereAgain DEF Checkpoint
<1>8. CASE Report(a)
  <2>1. /\ pc[a] = "reporting" /\ pc' = [pc EXCEPT ![a] = Rest(a)]
        /\ job' = [job EXCEPT ![a] = NoJob] /\ pc'[a] = Rest(a) /\ job'[a] = NoJob
        /\ UNCHANGED <<store, persisted, snap, live, sharing, held, sent, loop, ghosts>>
        /\ drain' = "serving" => drain = "serving"
        /\ revision' = IF a = Reload THEN job[a].next.rev ELSE revision
        /\ turn' = IF turn = a THEN Nobody ELSE turn
    BY <1>8, <1>t DEF Report, Ends
  <2>2. Apart'
    BY <1>t, <2>1 DEF Rest, NoJob, ServeInv, Apart, Accepts
  <2>3. CASE turn = a
    <3>1. ASSUME Whole
          PROVE  AtRest'
      <4>1. GraphsHere(a) /\ LiveHere(a) /\ ~Ahead(a)
        BY <1>l, <2>1, <2>3, <3>1 DEF Ahead
      <4> QED
        BY <2>1, <2>3, <4>1 DEF AtRest, Stored, GraphsHere, LiveHere
    <3> QED
      BY <2>1, <2>2, <2>3, <3>1 DEF ServeInv
  <2>4. CASE turn # a
    <3>1. a # Reload
      BY <2>1, <2>4 DEF ServeInv, Apart
    <3>2. Outside(a)
      BY <1>t, <2>1, <2>4, <3>1 DEF Outside
    <3> QED
      BY <2>2, <2>4, <3>2, OutsideServes
  <2> QED
    BY <2>3, <2>4
<1> QED
  BY <1>2, <1>3, <1>4, <1>5, <1>6, <1>7, <1>8 DEF Commit

\* The reload task's own steps.
LEMMA ReloadServes ==
  ASSUME ServeInv, TurnInv', Hup \/ ReloadStep
  PROVE  ServeInv'
<1> USE DEF daemon, graphs, liveTurn, serve, ghosts, bounds, Whole, Goto
<1>t. /\ Reload \in Actors /\ Reload \notin Handlers /\ Nobody \notin Actors
      /\ pc \in [Actors -> Steps] /\ job \in [Actors -> Job] /\ job[Reload] \in Job
  BY ReloaderAssumption DEF ServeInv, TurnInv, TypeOK, Actors
<1>o. pc[Reload] \in TurnSteps => turn = Reload
  BY <1>t DEF ServeInv, TurnInv, OneInTurn
<1>l. ASSUME turn = Reload, Whole
      PROVE  GraphsHere(Reload) /\ LiveHere(Reload) /\ ~Accepts(Reload)
  BY <1>t, <1>l, Here DEF ServeInv, Apart
<1>1. CASE Hup
  <2>1. Outside(Reload) /\ Apart' /\ pc[Reload] \notin TurnSteps \union {"reporting"}
    BY <1>1, <1>t DEF Hup, Outside, TurnSteps, ServeInv, Apart, Accepts
  <2> QED
    BY <1>t, <2>1, NotInTurn, OutsideServes
<1>2. CASE RecordIntent
  <2>1. turn = Reload /\ Apart'
    BY <1>2, <1>t, <1>o DEF RecordIntent, TurnSteps, ServeInv, Apart, Accepts
  <2>2. CASE turn' = turn /\ pc'[Reload] = "loading"
    <3>1. ASSUME Whole
          PROVE  GraphsHere(Reload)' /\ LiveHere(Reload)'
      BY <1>2, <1>t, <1>l, <2>1, <2>2, <3>1
         DEF RecordIntent, GraphsHere, LiveHere, Stored, TurnSteps, Accepts, LiveAccept,
             Restart, Ahead
    <3> QED
      BY <1>2, <1>t, <2>1, <2>2, <3>1, HereAgain DEF RecordIntent
  <2>3. CASE turn' = Nobody
    <3>1. held # Reload
      BY <1>t DEF ServeInv, TurnInv, TypeOK
    <3> QED
      BY <1>2, <1>t, <2>1, <2>3, <3>1, BackServes DEF RecordIntent
  <2> QED
    BY <1>2, <1>t, <2>2, <2>3 DEF RecordIntent
<1>3. CASE LoadRefused
  BY <1>3, <1>o, RefusedReloadServes DEF LoadRefused, TurnSteps
<1>4. CASE Loaded
  <2>1. turn = Reload
    BY <1>4, <1>o DEF Loaded, TurnSteps
  <2>2. CASE Installed(persisted.ident) /\ ReloadRefused
    BY <1>4, <2>1, <2>2, RefusedReloadServes DEF Loaded
  <2>3. CASE \E ident \in SUBSET Handlers :
               /\ job' = [job EXCEPT ![Reload] =
                            [NoJob EXCEPT !.kind = "reload",
                                          !.next = NextGraph(persisted.base, ident)]]
               /\ pc' = [pc EXCEPT ![Reload] = "writing"]
               /\ UNCHANGED <<snap, behind>>
    <3>1. job'[Reload].kind = "reload" /\ pc'[Reload] = "writing" /\ UNCHANGED <<snap, behind>>
      BY <1>t, <2>3 DEF NoJob
    <3>2. Apart'
      BY <1>4, <3>1 DEF Loaded, ServeInv, Apart, Accepts
    <3>3. ASSUME Whole
          PROVE  GraphsHere(Reload)' /\ LiveHere(Reload)'
      <4>1. /\ GraphsHere(Reload) /\ LiveHere(Reload) /\ pc[Reload] = "loading"
            /\ ~Accepts(Reload) /\ ~Accepts(Reload)'
        BY <1>4, <1>l, <2>1, <3>1, <3>3 DEF Loaded, Accepts
      <4>2. GraphsHere(Reload)'
        BY <1>4, <3>1, <4>1 DEF Loaded, GraphsHere, Stored, TurnSteps
      <4>3. LiveHere(Reload)'
        BY <1>4, <1>t, <3>1, <4>1 DEF Loaded, LiveHere, LiveAccept, Restart, Ahead, Accepts
      <4> QED
        BY <4>2, <4>3
    <3> QED
      BY <1>4, <1>t, <2>1, <3>2, <3>3, HereAgain DEF Loaded
  <2> QED
    BY <1>4, <2>2, <2>3 DEF Loaded
<1>5. CASE SettleReload
  <2>1. turn = Reload /\ Apart' /\ pc'[Reload] = "installing" /\ pc[Reload] = "committed"
    BY <1>5, <1>t, <1>o DEF SettleReload, TurnSteps, ServeInv, Apart, Accepts
  <2>2. ASSUME Whole
        PROVE  GraphsHere(Reload)' /\ LiveHere(Reload)'
    <3>1. GraphsHere(Reload)'
      BY <1>5, <1>l, <2>1, <2>2 DEF SettleReload, GraphsHere, TurnSteps, Accepts
    <3>2. LiveHere(Reload)'
      BY <1>5, <1>t, <1>l, <2>1, <2>2
         DEF SettleReload, LiveHere, LiveAccept, Restart, Ahead, Accepts
    <3> QED
      BY <3>1, <3>2
  <2> QED
    BY <1>5, <1>t, <2>1, <2>2, HereAgain DEF SettleReload
<1>6. CASE InstallReload
  <2>1. turn = Reload /\ Apart' /\ pc'[Reload] = "reporting" /\ pc[Reload] = "installing"
    BY <1>6, <1>t, <1>o DEF InstallReload, TurnSteps, ServeInv, Apart, Accepts
  <2>2. ASSUME Whole
        PROVE  GraphsHere(Reload)' /\ LiveHere(Reload)'
    <3>1. GraphsHere(Reload)'
      BY <1>6, <1>l, <2>1, <2>2, Revisions DEF InstallReload, Installed, GraphsHere, TurnSteps,
                                                   Accepts
    <3>2. LiveHere(Reload)'
      BY <1>6, <1>t, <1>l, <2>1, <2>2
         DEF InstallReload, LiveHere, LiveAccept, Restart, Ahead, Accepts
    <3> QED
      BY <3>1, <3>2
  <2> QED
    BY <1>6, <1>t, <2>1, <2>2, HereAgain DEF InstallReload
<1> QED
  BY <1>1, <1>2, <1>3, <1>4, <1>5, <1>6 DEF ReloadStep

\* The thread that holds the live turn ends it with the stored baseline installed, or
\* with a daemon that drains.
LEMMA ThreadServes ==
  ASSUME ServeInv, TurnInv', InstallLive \/ InstallFails
  PROVE  ServeInv'
<1> USE DEF daemon, graphs, liveTurn, serve, ghosts, bounds, Whole
<1>t. /\ held \in Handlers /\ held \in Actors /\ Reload \notin Handlers /\ Nobody \notin Actors
      /\ pc \in [Actors -> Steps]
  BY ReloaderAssumption DEF ServeInv, TurnInv, TypeOK, Actors, InstallLive, InstallFails
<1>1. /\ Notify("mirroring") /\ held' = Nobody /\ sent' = Nobody /\ sent # Nobody
      /\ UNCHANGED <<turn, store, persisted, revision, snap, sharing, job, loop, ghosts>>
  BY DEF InstallLive, InstallFails
<1>2. Apart'
  BY <1>t, <1>1 DEF Notify, ServeInv, Apart, Accepts
<1>3. CASE Whole /\ turn = Nobody
  BY <1>1, <1>2, <1>3 DEF ServeInv, AtRest, Stored, InstallLive, InstallFails
<1>4. CASE Whole /\ turn # Nobody
  <2>2. turn = held /\ pc[held] = "installing" /\ GraphsHere(held) /\ LiveHere(held)
    BY <1>1, <1>4 DEF ServeInv, LiveHere
  <2>3. PICK h \in Handlers : h = held
    BY <1>t
  <2>4. pc'[h] = "mirroring" /\ h # Reload /\ h # Nobody
    BY <1>t, <1>1, <2>2, <2>3 DEF Notify
  <2>5. drain' = "serving" => live' = store'.base
    BY <1>t, <1>1, <2>2 DEF InstallLive, InstallFails, LiveHere
  <2>6. GraphsHere(h)'
    BY <1>t, <1>1, <2>2, <2>3, <2>4 DEF GraphsHere, Stored, TurnSteps
  <2>7. LiveHere(h)'
    BY <1>1, <2>4, <2>5 DEF LiveHere
  <2> QED
    BY <1>t, <1>1, <1>2, <2>2, <2>3, <2>6, <2>7, HereAgain
<1> QED
  BY <1>1, <1>2, <1>3, <1>4 DEF ServeInv

\* A panic that tears nothing gives the turn back with what is stored in force, or with a
\* daemon that drains; an abort comes after the accept loop.
LEMMA DropServes ==
  ASSUME ServeInv, TurnInv', NEW a \in Actors, Panic(a) \/ Abort(a)
  PROVE  ServeInv'
<1> USE DEF daemon, graphs, liveTurn, serve, ghosts, bounds, Goto, Whole
<1>t. /\ Reload \in Actors /\ Reload \notin Handlers /\ Nobody \notin Actors
      /\ pc \in [Actors -> Steps] /\ job \in [Actors -> Job]
      /\ revision \in Nat /\ store.rev \in Nat
  BY ReloaderAssumption DEF ServeInv, TurnInv, TypeOK, Actors, Graph
<1>1. Dropped(a) /\ loop' = loop
  BY DEF Panic, Abort, Dropped
<1>2. Apart'
  BY <1>t, <1>1 DEF Dropped, ServeInv, Apart, Accepts, NoJob
<1>3. CASE Whole'
  <2>1. Whole /\ Panic(a) /\ ~Unsettled(a) /\ pc[a] \in InOperation
    BY <1>1, <1>3 DEF Panic, Abort
  <2>2. UNCHANGED <<graphs, sent, loop>> /\ (drain' = "serving" => drain = "serving")
    BY <1>1 DEF Dropped, GuardedDrain
  <2>3. CASE turn = a
    <3>1. GraphsHere(a) /\ LiveHere(a)
      BY <2>1, <2>3, Here
    <3>2. turn' = Nobody /\ held' = IF held = a /\ sent = Nobody THEN Nobody ELSE held
      BY <1>1, <2>3 DEF Dropped
    <3>3. Stored'
      <4>1. CASE pc[a] = "settled"
        BY <2>1, <2>2, <3>1, <4>1 DEF Panic, GraphsHere, Stored
      <4>2. CASE pc[a] # "settled"
        <5>1. Stored
          BY <1>t, <2>1, <3>1, <4>2 DEF GraphsHere, Stored, Unsettled, InOperation
        <5>2. behind => behind'
          BY <2>1 DEF Panic
        <5> QED
          BY <2>2, <5>1, <5>2 DEF Stored
      <4> QED
        BY <4>1, <4>2
    <3>4. CASE a \in Handlers /\ pc[a] = "installing"
      <4>1. drain' # "serving"
        BY <1>1, <2>3, <3>1, <3>4 DEF Dropped, GuardedDrain, LiveHere, LiveAccept, Accepts
      <4> QED
        BY <1>2, <3>2, <3>3, <4>1 DEF ServeInv, AtRest
    <3>5. CASE ~(a \in Handlers /\ pc[a] = "installing")
      <4>1. ~Ahead(a) /\ sent = Nobody /\ held' = Nobody
        BY <1>t, <2>1, <3>1, <3>2, <3>5
           DEF LiveHere, LiveAccept, Accepts, Ahead, Unsettled, ServeInv, TurnInv, TypeOK
      <4>2. drain' = "serving" => sent' = Nobody /\ live' = store'.base
        BY <2>2, <3>1, <4>1 DEF LiveHere
      <4> QED
        BY <1>2, <3>2, <3>3, <4>1, <4>2 DEF ServeInv, AtRest
    <3> QED
      BY <3>4, <3>5
  <2>4. CASE turn # a
    <3>1. pc[a] = "reporting" /\ a # Reload
      BY <2>1, <2>4 DEF ServeInv, TurnInv, OneInTurn, Apart, InOperation, TurnSteps
    <3>2. CASE turn = Nobody
      <4>1. AtRest
        BY <2>1, <3>2 DEF ServeInv
      <4>b. behind' = behind
        BY <2>1, <3>1 DEF Panic, ServeInv, TurnInv, TypeOK
      <4>2. AtRest'
        BY <1>1, <2>2, <4>1, <4>b DEF Dropped, AtRest, Stored
      <4>3. turn' = Nobody
        BY <1>1, <2>4, <3>2 DEF Dropped
      <4> QED
        BY <1>2, <4>2, <4>3 DEF ServeInv
    <3>3. CASE turn # Nobody
      <4>1. held \in {Nobody, turn}
        BY <2>1, <3>3 DEF ServeInv, LiveHere
      <4>2. turn' = turn /\ held' = held
        BY <1>t, <1>1, <2>4, <4>1 DEF Dropped
      <4>3. torn' = torn
        BY <1>3, <2>1 DEF ServeInv, TurnInv, TypeOK
      <4>b. behind' = behind
        BY <2>1, <3>1 DEF Panic, ServeInv, TurnInv, TypeOK
      <4>4. pc' = [pc EXCEPT ![a] = pc'[a]] /\ \A b \in Actors \ {a} : job'[b] = job[b]
        BY <1>t, <1>1 DEF Dropped
      <4>5. Outside(a)
        BY <2>2, <4>2, <4>3, <4>b, <4>4 DEF Outside
      <4> QED
        BY <1>2, <2>4, <4>5, OutsideServes
    <3> QED
      BY <3>2, <3>3
  <2> QED
    BY <2>3, <2>4
<1>4. CASE ~Whole'
  BY <1>2, <1>4 DEF ServeInv
<1> QED
  BY <1>3, <1>4

\* The stop changes no graph; it aborts the reload task only when nobody is in the
\* turn.
LEMMA StopServes ==
  ASSUME ServeInv, TurnInv', Signal \/ SupervisorExits \/ Shutdown \/ UNCHANGED vars
  PROVE  ServeInv'
<1> USE DEF daemon, graphs, liveTurn, serve, ghosts, bounds, Whole
<1>t. Reload \in Actors /\ pc \in [Actors -> Steps]
  BY DEF ServeInv, TurnInv, TypeOK, Actors
<1>1. CASE StopHasTurn
  <2>1. Apart'
    BY <1>1, <1>t DEF StopHasTurn, Goto, ServeInv, Apart, Accepts
  <2> QED
    BY <1>1, <2>1 DEF StopHasTurn, ServeInv, AtRest, Stored
<1>2. CASE BeginStop \/ StopElapses \/ UNCHANGED vars
  <2>1. UNCHANGED <<turn, drain, graphs, liveTurn, pc, job, loop, ghosts>>
    BY <1>2 DEF BeginStop, StopElapses, vars
  <2> QED
    BY <2>1 DEF ServeInv, Apart, AtRest, GraphsHere, LiveHere, Stored, Accepts, LiveAccept,
                Restart, Ahead
<1>3. CASE EndLoop \/ SupervisorExits \/ HandlersEnd \/ DrainElapses \/ Exit
  <2>1. loop' # "accepting" /\ UNCHANGED <<turn, sharing, held, pc, job>>
    BY <1>3 DEF EndLoop, SupervisorExits, HandlersEnd, DrainElapses, Exit
  <2> QED
    BY <2>1 DEF ServeInv, Apart, Accepts
<1> QED
  BY <1>1, <1>2, <1>3 DEF Signal, Shutdown, StopOnDrain, FinalStop

\* One step keeps the invariant.
LEMMA ServeStep == ServeInv /\ [Next]_vars => ServeInv'
<1> SUFFICES ASSUME ServeInv, [Next]_vars
             PROVE  ServeInv'
  OBVIOUS
<1>1. TurnInv'
  BY TurnStep DEF ServeInv
<1>2. ASSUME NEW h \in Handlers, Client(h) \/ Busy(h) \/ InTurn(h)
      PROVE  ServeInv'
  BY <1>1, <1>2, ClientServes, InTurnServes
<1>3. ASSUME NEW a \in Actors,
             EnterTurn(a) \/ RefuseTurn(a) \/ Commit(a) \/ Panic(a) \/ Abort(a)
      PROVE  ServeInv'
  BY <1>1, <1>3, EnterServes, CommitServes, DropServes
<1>a. Handlers \subseteq Actors
  BY DEF Actors
<1>4. ASSUME \/ Hup \/ ReloadStep \/ InstallLive \/ InstallFails
             \/ Signal \/ SupervisorExits \/ Shutdown \/ UNCHANGED vars
      PROVE  ServeInv'
  BY <1>1, <1>4, ReloadServes, ThreadServes, StopServes
<1> QED
  BY <1>2, <1>3, <1>4, <1>a DEF Next

LEMMA ServeAlways == Spec => []ServeInv
<1>1. Init /\ TurnInv => ServeInv
  BY DEF Init, ServeInv, Apart, AtRest, Stored, Accepts, NoJob, Actors
<1> QED
  BY <1>1, ServeStep, TurnAlways, PTL DEF Spec

\* Who is in the turn of a torn daemon has not come past its plan, whose revision is one
\* the store has had; a reload that ends leaves the counter behind the store.
Barred(a) ==
  /\ pc[a] \in TurnSteps => pc[a] \in {"entered", "taking", "loading", "writing"}
  /\ pc[a] \in {"taking", "writing"} => job[a].next.rev <= store.rev
  /\ (a = Reload /\ pc[a] = "reporting") => job[a].next.rev < store.rev

\* A torn daemon counts from a revision that is behind the store.
TornInv ==
  /\ ServeInv
  /\ (loop = "accepting" /\ torn)
       => /\ revision < store.rev
          /\ \A a \in Actors : Barred(a)

\* A step of one actor that stores nothing and leaves the counter behind keeps everybody
\* barred if that actor stays so.
LEMMA BarredMoves ==
  ASSUME TornInv, ServeInv', NEW a \in Actors,
         UNCHANGED <<loop, torn>>,
         \A b \in Actors \ {a} : pc'[b] = pc[b] /\ job'[b] = job[b],
         (loop = "accepting" /\ torn)
           => store' = store /\ revision' < store.rev /\ Barred(a)'
  PROVE  TornInv'
BY DEF TornInv, Barred

\* A step that takes an actor out of the turn, or into it with nothing planned.
LEMMA BarredOut ==
  ASSUME NEW a \in Actors, pc'[a] \notin TurnSteps \ {"entered", "loading"},
         a # Reload \/ pc'[a] # "reporting"
  PROVE  Barred(a)'
BY DEF Barred, TurnSteps

\* The steps of a commit: a torn daemon's plan is stale, so that nothing is written ahead.
LEMMA TornCommit ==
  ASSUME TornInv, ServeInv', NEW a \in Actors, Commit(a)
  PROVE  TornInv'
<1> USE DEF daemon, graphs, liveTurn, serve, ghosts, bounds, Goto
<1>t. /\ pc \in [Actors -> Steps] /\ job \in [Actors -> Job] /\ Reload \in Actors
      /\ revision \in Nat /\ store.rev \in Nat /\ job[a].next.rev \in Nat
  BY Revisions DEF TornInv, ServeInv, TurnInv, TypeOK, Actors
<1>r. Rest(a) \notin TurnSteps \union {"reporting"}
  BY DEF Rest, TurnSteps
<1>m. /\ UNCHANGED <<loop, torn>>
      /\ \A b \in Actors \ {a} : pc'[b] = pc[b] /\ job'[b] = job[b]
  BY <1>t DEF Commit, CommitRefused, WriteAhead, PersistFails, Publish, BeginCheckpoint,
             Checkpoint, Report, CommitFails, ReloadRefused, Refused, Ends
<1>1. CASE ~(loop = "accepting" /\ torn)
  BY <1>m, <1>1, BarredMoves
<1>2. CASE loop = "accepting" /\ torn
  <2>1. revision < store.rev /\ Barred(a)
    BY <1>2 DEF TornInv
  <2>2. pc[a] \in {"writing", "reporting"} /\ ~WriteAhead(a)
    BY <1>t, <2>1 DEF Commit, CommitRefused, WriteAhead, PersistFails, Publish,
       BeginCheckpoint, Checkpoint, Report, Barred, TurnSteps, StoreRefuses
  <2>3. CASE CommitRefused(a)
    <3>1. UNCHANGED <<store, revision>>
      BY <2>3 DEF CommitRefused
    <3>2. CASE a = Reload
      <4>1. job[a] \in Job /\ [persisted EXCEPT !.rev = revision] \in Graph
            /\ [persisted EXCEPT !.rev = revision].rev = revision
        BY <1>t DEF TornInv, ServeInv, TurnInv, TypeOK, Graph
      <4>p. ReloadRefused
        BY <2>3, <3>2 DEF CommitRefused, CommitFails
      <4>2. job'[a].next.rev = revision /\ pc'[a] = "reporting"
        BY <1>t, <3>2, <4>1, <4>p, JobKeeps DEF ReloadRefused
      <4>3. Barred(a)'
        BY <2>1, <3>1, <4>2 DEF Barred, TurnSteps
      <4> QED
        BY <1>m, <2>1, <3>1, <4>3, BarredMoves
    <3>3. CASE a # Reload
      <4>1. pc'[a] = Rest(a)
        BY <1>t, <2>3, <3>3 DEF CommitRefused, CommitFails, Refused, Ends
      <4> QED
        BY <1>m, <1>r, <2>1, <3>1, <4>1, BarredOut, BarredMoves
    <3> QED
      BY <3>2, <3>3
  <2>4. CASE Report(a)
    <3>1. store' = store /\ pc'[a] = Rest(a) /\ revision' < store.rev
      BY <1>t, <2>1, <2>4 DEF Report, Ends, Barred
    <3> QED
      BY <1>m, <1>r, <3>1, BarredOut, BarredMoves
  <2> QED
    BY <2>2, <2>3, <2>4 DEF Commit, PersistFails, Publish, BeginCheckpoint, Checkpoint
<1> QED
  BY <1>1, <1>2

\* The clients' steps and the handlers' in the turn: a plan takes the revision after the
\* counter's, which the store has had.
LEMMA TornHandler ==
  ASSUME TornInv, ServeInv', NEW h \in Handlers, Client(h) \/ Busy(h) \/ InTurn(h)
  PROVE  TornInv'
<1> USE DEF daemon, graphs, liveTurn, serve, ghosts, bounds, Goto
<1>t. /\ h \in Actors /\ h # Reload /\ pc \in [Actors -> Steps] /\ job \in [Actors -> Job]
      /\ job[h] \in Job /\ persisted \in Graph /\ revision \in Nat /\ store.rev \in Nat
  BY ReloaderAssumption, Revisions DEF TornInv, ServeInv, TurnInv, TypeOK, Actors
<1>m. /\ UNCHANGED <<loop, torn>>
      /\ \A b \in Actors \ {h} : pc'[b] = pc[b] /\ job'[b] = job[b]
  <2>1. CASE Client(h)
    BY <1>t, <2>1 DEF Client, Connect, Disconnect, Decide, Decided, DecisionExpires, OrphanEnds
  <2>2. CASE Busy(h)
    BY <1>t, <2>2 DEF Busy, Ends
  <2>3. CASE InTurn(h)
    BY <1>t, <2>3 DEF InTurn, PlanLive, PlanAccept, TakeLive, Refuse, SettleLive,
       InstallEdit, SettleAccept, LeaveTurn, Refused, Ends
  <2> QED
    BY <2>1, <2>2, <2>3
<1>1. CASE ~(loop = "accepting" /\ torn)
  BY <1>t, <1>m, <1>1, BarredMoves
<1>2. CASE loop = "accepting" /\ torn
  <2>1. revision < store.rev /\ Barred(h)
    BY <1>t, <1>2 DEF TornInv
  <2>2. ASSUME UNCHANGED <<store, revision>>, Barred(h)'
        PROVE  TornInv'
    BY <1>t, <1>m, <2>1, <2>2, BarredMoves
  <2>3. CASE OrphanEnds(h)
    BY <2>1, <2>2, <2>3 DEF OrphanEnds, Barred
  <2>4. CASE \/ Connect(h) \/ Disconnect(h) \/ Decide(h) \/ Decided(h) \/ DecisionExpires(h)
             \/ Busy(h) \/ Refuse(h)
    <3>1. pc'[h] \in {"connected", "idle", "deciding", "waiting"}
      BY <1>t, <2>4 DEF Connect, Disconnect, Decide, Decided, DecisionExpires, Busy, Refuse,
                        Refused, Ends, Rest
    <3>2. UNCHANGED <<store, revision>>
      BY <2>4 DEF Connect, Disconnect, Decide, Decided, DecisionExpires, Busy, Refuse
    <3>3. Barred(h)'
      BY <1>t, <3>1, BarredOut DEF TurnSteps
    <3> QED
      BY <2>2, <3>2, <3>3
  <2>5. CASE PlanLive(h)
    <3> DEFINE g == NextGraph(persisted.base, Contained(job[h]))
    <3>1. g \in Graph /\ g.rev = revision + 1
      BY <1>t, <2>5, JobParts, NextGraphIsGraph
         DEF TornInv, ServeInv, TurnInv, Graph, Contained, PlanLive, NextGraph
    <3>2. job' = [job EXCEPT ![h].next = g]
      BY <2>5 DEF PlanLive
    <3> HIDE DEF g
    <3>p. job'[h].next = g
      BY <1>t, <3>1, <3>2, JobKeeps
    <3>3. job'[h].next.rev = revision + 1 /\ pc'[h] = "writing" /\ UNCHANGED <<store, revision>>
      BY <1>t, <2>5, <3>1, <3>p DEF PlanLive
    <3>4. Barred(h)'
      BY <1>t, <2>1, <3>3 DEF Barred, TurnSteps
    <3> QED
      BY <2>2, <3>3, <3>4
  <2>6. CASE PlanAccept(h)
    <3> DEFINE g == NextGraph(job[h].base, persisted.ident)
    <3>1. g \in Graph /\ g.rev = revision + 1
      BY <1>t, <2>6, JobParts, NextGraphIsGraph
         DEF TornInv, ServeInv, TurnInv, Graph, PlanAccept, NextGraph
    <3>2. job' = [job EXCEPT ![h].next = g]
      BY <2>6 DEF PlanAccept
    <3> HIDE DEF g
    <3>p. job'[h].next = g
      BY <1>t, <3>1, <3>2, JobKeeps
    <3>3. /\ job'[h].next.rev = revision + 1 /\ pc'[h] \in {"writing", "taking"}
          /\ UNCHANGED <<store, revision>>
      BY <1>t, <2>6, <3>1, <3>p DEF PlanAccept
    <3>4. Barred(h)'
      BY <1>t, <2>1, <3>3 DEF Barred, TurnSteps
    <3> QED
      BY <2>2, <3>3, <3>4
  <2>7. CASE TakeLive(h)
    <3>1. Barred(h)' /\ UNCHANGED <<store, revision>>
      BY <1>t, <2>1, <2>7 DEF TakeLive, Barred, TurnSteps
    <3> QED
      BY <2>2, <3>1
  <2>8. ~(SettleLive(h) \/ InstallEdit(h) \/ SettleAccept(h) \/ LeaveTurn(h))
    BY <2>1 DEF SettleLive, InstallEdit, SettleAccept, LeaveTurn, Barred, TurnSteps
  <2> QED
    BY <2>3, <2>4, <2>5, <2>6, <2>7, <2>8 DEF Client, InTurn
<1> QED
  BY <1>1, <1>2

\* The reload task's own steps, likewise.
LEMMA TornReload ==
  ASSUME TornInv, ServeInv', Hup \/ ReloadStep
  PROVE  TornInv'
<1> USE DEF daemon, graphs, liveTurn, serve, ghosts, bounds, Goto
<1>t. /\ Reload \in Actors /\ pc \in [Actors -> Steps] /\ job \in [Actors -> Job]
      /\ job[Reload] \in Job /\ persisted \in Graph /\ revision \in Nat /\ store.rev \in Nat
  BY Revisions DEF TornInv, ServeInv, TurnInv, TypeOK, Actors
<1>m. /\ UNCHANGED <<loop, torn>>
      /\ \A b \in Actors \ {Reload} : pc'[b] = pc[b] /\ job'[b] = job[b]
  BY <1>t DEF Hup, ReloadStep, RecordIntent, LoadRefused, Loaded, ReloadRefused, SettleReload,
             InstallReload
<1>1. CASE ~(loop = "accepting" /\ torn)
  BY <1>t, <1>m, <1>1, BarredMoves
<1>2. CASE loop = "accepting" /\ torn
  <2>1. revision < store.rev /\ Barred(Reload)
    BY <1>t, <1>2 DEF TornInv
  <2>2. ASSUME UNCHANGED <<store, revision>>, Barred(Reload)'
        PROVE  TornInv'
    BY <1>t, <1>m, <2>1, <2>2, BarredMoves
  <2>3. UNCHANGED <<store, revision>>
    BY DEF Hup, ReloadStep, RecordIntent, LoadRefused, Loaded, SettleReload, InstallReload
  <2>4. CASE Hup \/ RecordIntent
    <3>1. pc'[Reload] \in {"waiting", "loading", "idle"}
      BY <1>t, <2>4 DEF Hup, RecordIntent
    <3> QED
      BY <1>t, <2>2, <2>3, <3>1, BarredOut DEF TurnSteps
  <2>5. CASE ReloadRefused
    <3>1. /\ [persisted EXCEPT !.rev = revision] \in Graph
          /\ [persisted EXCEPT !.rev = revision].rev = revision
      BY <1>t DEF Graph
    <3>2. job'[Reload].next.rev = revision /\ pc'[Reload] = "reporting"
      BY <1>t, <2>5, <3>1, JobKeeps DEF ReloadRefused
    <3>3. Barred(Reload)'
      BY <2>1, <2>3, <3>2 DEF Barred, TurnSteps
    <3> QED
      BY <2>2, <2>3, <3>3
  <2>6. CASE \E ident \in SUBSET Handlers :
               /\ job' = [job EXCEPT ![Reload] =
                            [NoJob EXCEPT !.kind = "reload",
                                          !.next = NextGraph(persisted.base, ident)]]
               /\ pc' = [pc EXCEPT ![Reload] = "writing"]
    <3>1. job'[Reload].next.rev = revision + 1 /\ pc'[Reload] = "writing"
      BY <1>t, <2>6 DEF NoJob, NextGraph
    <3>2. Barred(Reload)'
      BY <1>t, <2>1, <2>3, <3>1 DEF Barred, TurnSteps
    <3> QED
      BY <2>2, <2>3, <3>2
  <2>7. ~(SettleReload \/ InstallReload)
    BY <2>1 DEF SettleReload, InstallReload, Barred, TurnSteps
  <2>8. CASE Loaded
    BY <2>5, <2>6, <2>8 DEF Loaded
  <2> QED
    BY <2>4, <2>5, <2>7, <2>8 DEF ReloadStep, LoadRefused
<1> QED
  BY <1>1, <1>2

\* The panic that tears: what it leaves stored is ahead of the counter.
LEMMA TornDrop ==
  ASSUME TornInv, ServeInv', NEW a \in Actors, Panic(a) \/ Abort(a)
  PROVE  TornInv'
<1> USE DEF daemon, graphs, liveTurn, serve, ghosts, bounds, Goto
<1>t. /\ pc \in [Actors -> Steps] /\ job \in [Actors -> Job] /\ Reload \in Actors
  BY DEF TornInv, ServeInv, TurnInv, TypeOK, Actors
<1>1. /\ UNCHANGED <<store, revision, loop>> /\ pc'[a] \in {"dead", "idle"}
      /\ \A b \in Actors \ {a} : pc'[b] = pc[b] /\ job'[b] = job[b]
  BY <1>t DEF Panic, Abort, Dropped
<1>2. Barred(a)'
  BY <1>1, BarredOut DEF TurnSteps
<1>3. CASE ~(loop = "accepting" /\ torn')
  BY <1>1, <1>3 DEF TornInv
<1>4. CASE loop = "accepting" /\ torn' /\ torn
  <2>1. UNCHANGED <<loop, torn>>
    BY <1>1, <1>4 DEF ServeInv, TurnInv, TypeOK, TornInv
  <2>2. revision' < store.rev /\ store' = store
    BY <1>1, <1>4 DEF TornInv
  <2> QED
    BY <1>1, <1>2, <2>1, <2>2, BarredMoves
<1>5. CASE loop = "accepting" /\ torn' /\ ~torn
  <2>1. Unsettled(a)
    BY <1>5 DEF Panic, Abort
  <2>2. turn = a
    BY <2>1 DEF Unsettled, TornInv, ServeInv, TurnInv, OneInTurn, TurnSteps, Apart
  <2>3. GraphsHere(a)
    BY <1>5, <2>2, Here DEF TornInv, Whole
  <2>4. revision < store.rev
    BY <2>1, <2>3 DEF Unsettled, GraphsHere
  <2>5. ASSUME NEW b \in Actors, b # a
        PROVE  Barred(b)'
    <3>1. pc[b] \notin TurnSteps /\ (b = Reload => pc[b] # "reporting")
      BY <2>2, <2>5 DEF TornInv, ServeInv, TurnInv, OneInTurn, Apart
    <3> QED
      BY <1>1, <2>5, <3>1, BarredOut
  <2> QED
    BY <1>1, <1>2, <2>4, <2>5 DEF TornInv
<1> QED
  BY <1>3, <1>4, <1>5

\* The rest: nobody waits for the thread of the live turn in a torn daemon, and the stop
\* only aborts the reload task.
LEMMA TornRest ==
  ASSUME TornInv, ServeInv',
         \/ InstallLive \/ InstallFails \/ Signal \/ SupervisorExits \/ Shutdown
         \/ UNCHANGED vars
  PROVE  TornInv'
<1> USE DEF daemon, graphs, liveTurn, serve, ghosts, bounds, Goto
<1>t. /\ Reload \in Actors /\ pc \in [Actors -> Steps] /\ Handlers \subseteq Actors
      /\ held \in Handlers \union {Nobody}
  BY DEF TornInv, ServeInv, TurnInv, TypeOK, Actors
<1>1. CASE InstallLive \/ InstallFails
  <2>1. held \in Actors /\ UNCHANGED <<store, revision, job, loop, torn>> /\ Notify("mirroring")
    BY <1>t, <1>1 DEF InstallLive, InstallFails
  <2>2. (loop = "accepting" /\ torn) => pc' = pc
    BY <2>1 DEF TornInv, Barred, TurnSteps, Notify
  <2> QED
    BY <2>1, <2>2 DEF TornInv, Barred
<1>2. CASE StopHasTurn
  <2>1. pc'[Reload] = "dead" /\ \A b \in Actors \ {Reload} : pc'[b] = pc[b]
    BY <1>t, <1>2 DEF StopHasTurn
  <2>2. Barred(Reload)'
    BY <1>t, <2>1, BarredOut DEF TurnSteps
  <2>3. UNCHANGED <<store, revision, job, loop, torn>>
    BY <1>2 DEF StopHasTurn
  <2>4. (loop = "accepting" /\ torn) => revision < store.rev
    BY DEF TornInv
  <2> QED
    BY <1>t, <2>1, <2>2, <2>3, <2>4, BarredMoves
<1>3. CASE \/ BeginStop \/ StopElapses \/ EndLoop \/ SupervisorExits \/ HandlersEnd
           \/ DrainElapses \/ Exit \/ UNCHANGED vars
  <2>1. /\ UNCHANGED <<store, revision, pc, job, torn>>
        /\ loop' = "accepting" => loop = "accepting"
    BY <1>3 DEF BeginStop, StopElapses, EndLoop, SupervisorExits, HandlersEnd, DrainElapses,
                Exit, vars
  <2> QED
    BY <2>1 DEF TornInv, Barred
<1> QED
  BY <1>1, <1>2, <1>3 DEF Signal, Shutdown, StopOnDrain, FinalStop

\* One step keeps the invariant.
LEMMA TornStep == TornInv /\ [Next]_vars => TornInv'
<1> SUFFICES ASSUME TornInv, [Next]_vars
             PROVE  TornInv'
  OBVIOUS
<1>1. ServeInv'
  BY ServeStep DEF TornInv
<1>2. ASSUME NEW a \in Actors, EnterTurn(a) \/ RefuseTurn(a)
      PROVE  TornInv'
  <2> USE DEF daemon, graphs, liveTurn, serve, ghosts, bounds, Goto
  <2>1. pc \in [Actors -> Steps] /\ job \in [Actors -> Job]
    BY DEF TornInv, ServeInv, TurnInv, TypeOK
  <2>2. pc'[a] \in {"entered", "idle", "connected"}
    BY <1>2, <2>1 DEF EnterTurn, RefuseTurn, Ends, Rest
  <2>3. Barred(a)'
    BY <2>2, BarredOut DEF TurnSteps
  <2>4. /\ UNCHANGED <<store, revision, loop, torn>>
        /\ \A b \in Actors \ {a} : pc'[b] = pc[b] /\ job'[b] = job[b]
    BY <1>2, <2>1 DEF EnterTurn, RefuseTurn, Ends
  <2>5. (loop = "accepting" /\ torn) => revision < store.rev
    BY DEF TornInv
  <2> QED
    BY <1>1, <2>3, <2>4, <2>5, BarredMoves
<1>3. Handlers \subseteq Actors
  BY DEF Actors
<1> QED
  BY <1>1, <1>2, <1>3, TornCommit, TornHandler, TornReload, TornDrop, TornRest DEF Next

LEMMA TornAlways == Spec => []TornInv
<1>1. Init /\ ServeInv => TornInv
  BY DEF Init, TornInv
<1> QED
  BY <1>1, TornStep, ServeAlways, PTL DEF Spec

\* While the daemon accepts connections, is not draining and nobody is in the turn,
\* the graph it commits from, its revision counter, its snapshot and its live values
\* are the stored graph's, whatever failed or panicked before (run.rs, reload.rs), but for
\* a snapshot that a panic kept from being installed and the next install replaces; or a
\* panic struck between a persist and its settling, and the counter is behind the store,
\* so that the daemon commits nothing more.
THEOREM AlwaysServesStored == Spec => []ServedIsStored
<1>1. TornInv => ServedIsStored
  BY DEF TornInv, ServeInv, ServedIsStored, AtRest, Stored, Whole
<1> QED
  BY <1>1, TornAlways, PTL

\* No decision shares the live turn while the stored baseline is ahead of the
\* installed one: HeldLiveTurn is taken before the persist and kept until the install;
\* only a panic in between lets go of it earlier.
THEOREM AlwaysDecidesOnStored == Spec => []DecidedOnStored
<1>1. ServeInv => DecidedOnStored
  <2> SUFFICES ASSUME ServeInv, sharing # {}, drain = "serving", Whole
               PROVE  live = store.base
    BY DEF DecidedOnStored, Whole
  <2>1. held = Nobody
    BY DEF ServeInv, Apart
  <2>2. CASE turn = Nobody
    BY <2>2 DEF ServeInv, AtRest
  <2>3. CASE turn # Nobody
    <3>1. turn \in Actors /\ LiveHere(turn)
      BY <2>3 DEF ServeInv, TurnInv, TypeOK
    <3> QED
      BY <2>1, <2>3, <3>1 DEF LiveHere, Ahead
  <2> QED
    BY <2>2, <2>3
<1> QED
  BY <1>1, ServeAlways, PTL
=============================================================================
