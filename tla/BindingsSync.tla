---------------------------- MODULE BindingsSync ----------------------------
(***************************************************************************)
(* bindings.yaml and the daemon's live bindings: root edits the file, the   *)
(* daemon edits its own copy (contain, release), every load merges the two  *)
(* entry by entry against the base (maknae-config bindings_sync.rs), the    *)
(* daemon publishes a mirror of the result (maknae-kernel sync.rs), and     *)
(* `maknae policy sync` installs the mirror as the file (mirror.rs,         *)
(* policy_sync.rs), at a terminal or unattended.                            *)
(***************************************************************************)
EXTENDS Naturals

CONSTANTS
  Names,         \* entries that name an account
  Uids,          \* entries `uid: <n>`, accepted under adversary only
  UidOf,         \* the account each name resolves to, or NoUid
  NoUid,
  BoundRoles,    \* admin, user, guest
  Adversary,     \* the role that contains
  EditKinds,     \* the live edits with a verb: contain, release (bind, unbind: none yet)
  RootSections,  \* what root may write
  MaxRoot, MaxLive, MaxFaults   \* bounds: root edits, live edits, failures

Entries == Names \union Uids

RolesOf(e) == IF e \in Uids THEN {Adversary} ELSE BoundRoles \union {Adversary}

Nobody == [e \in Entries |-> {}]

\* The roles each entry is listed in.
Listings ==
  {v \in [Entries -> SUBSET (BoundRoles \union {Adversary})] :
     \A e \in Entries : v[e] \subseteq RolesOf(e)}

\* A bindings section: its file is missing, has no bindings key, or lists roles.
Section ==
  [kind : {"missing", "absent"}, of : {Nobody}] \union [kind : {"present"}, of : Listings]

Present(s) == s.kind = "present"

Missing == [kind |-> "missing", of |-> Nobody]

NoMirror == [kind |-> "none"]

ASSUME SyncAssumption ==
  /\ Names \cap Uids = {}
  /\ Adversary \notin BoundRoles
  /\ UidOf \in [Names -> Uids \union {NoUid}] /\ NoUid \notin Uids
  /\ EditKinds \subseteq {"contain", "release", "bind", "unbind"}
  /\ RootSections \subseteq Section /\ RootSections # {}
  /\ MaxRoot \in Nat /\ MaxLive \in Nat /\ MaxFaults \in Nat

VARIABLES
  file,      \* bindings.yaml
  by,        \* ghost: who gave each entry of the file its value
  store,     \* the stored SyncBase: [base, live, conflicts, revision]
  mirror,    \* the published mirror, or NoMirror
  status,    \* SyncStatus: [lost, stale]
  daemon,    \* [phase, file, by]: the turn, and the file a load read
  sync,      \* [phase, terminal, mirror, restore]: the policy sync that runs
  used       \* [root, live, faults] used up of the bounds

vars == <<file, by, store, mirror, status, daemon, sync, used>>

\* A sync is late when the daemon committed something since the mirror it installs.
Authors == {"root", "terminal", "unattended", "late"}

ByRoot == [e \in Entries |-> "root"]

Quiet == [phase |-> "idle", file |-> Missing, by |-> ByRoot]

NoSync ==
  [phase |-> "idle", terminal |-> FALSE, mirror |-> NoMirror, restore |-> FALSE,
   seen |-> Missing]

Render == [kind |-> "mirror", base |-> store.base, section |-> store.live,
           conflicts |-> store.conflicts, revision |-> store.revision]

Fault == /\ used.faults < MaxFaults
         /\ used' = [used EXCEPT !.faults = @ + 1]

\* A daemon that loaded the file, with no live edit and its mirror published; the first
\* start of a store refuses a missing file (refuse_missing).
Init ==
  \E s \in RootSections \ {Missing} :
    /\ file = s
    /\ by = ByRoot
    /\ store = [base |-> s, live |-> s, conflicts |-> {}, revision |-> 1]
    /\ mirror = Render
    /\ status = [lost |-> FALSE, stale |-> FALSE]
    /\ daemon = Quiet
    /\ sync = NoSync
    /\ used = [root |-> 0, live |-> 0, faults |-> 0]

-----------------------------------------------------------------------------
(* The merge *)

\* Root and a live edit disagree: contained if either contains, else no role.
Safe(l, f) == IF Adversary \in f \union l THEN {Adversary} ELSE {}

\* Faulty rule: the file wins, as in a plain reload.
EntryValueFileWins(b, l, f, listed) == f

\* The merged value of an entry with base b, live l and file value f.
EntryValue(b, l, f, listed) ==
  IF listed THEN (IF f # b \/ f = l THEN f ELSE l)
  ELSE IF f = b THEN l
  ELSE IF l = b \/ f = l THEN f
  ELSE Safe(l, f)

\* Faulty rule: a conflict that ends unbound is not recorded.
EntryListedContained(b, l, f, listed) ==
  IF listed THEN f = b /\ f # l
  ELSE f # b /\ l # b /\ f # l /\ Safe(l, f) # f /\ Safe(l, f) # {}

\* Faulty rule: root's next edit does not resolve a conflict.
EntryListedForever(b, l, f, listed) ==
  IF listed THEN f # l
  ELSE f # b /\ l # b /\ f # l /\ Safe(l, f) # f

\* Whether the entry is on the conflict list after the merge.
EntryListed(b, l, f, listed) ==
  IF listed THEN f = b /\ f # l
  ELSE f # b /\ l # b /\ f # l /\ Safe(l, f) # f

\* A file that went missing, or lost its key, is not an edit.
Lost(f) == Present(store.base) /\ ~Present(f)

\* merged_section: the shape is the file's; only a present section lists anyone.
MergedSection(shape, values) == IF Present(shape) THEN [shape EXCEPT !.of = values] ELSE shape

MergedValue(f, e) ==
  EntryValue(store.base.of[e], store.live.of[e], f.of[e], e \in store.conflicts)

MergedListed(f, e) ==
  EntryListed(store.base.of[e], store.live.of[e], f.of[e], e \in store.conflicts)

Adopt(f) ==
  [store EXCEPT !.base = f,
                !.live = MergedSection(f, [e \in Entries |-> MergedValue(f, e)]),
                !.conflicts = {e \in Entries : MergedListed(f, e)}]

\* Faulty merge: a lost file becomes the base under the live section that stands.
MergeLostBase(f) == IF Lost(f) THEN [store EXCEPT !.base = f] ELSE Adopt(f)

\* merge: the new sync base a load of file f proposes.
Merge(f) == IF Lost(f) THEN store ELSE Adopt(f)

-----------------------------------------------------------------------------
(* The store and the mirror *)

\* A commit removes the mirror before the new store is published.
Commit(next) ==
  /\ store' = [next EXCEPT !.revision = store.revision + 1]
  /\ mirror' = NoMirror
  /\ daemon' = [Quiet EXCEPT !.phase = "publishing"]

\* Faulty commit: a failure does not mark the mirror stale.
CommitFailsQuietly ==
  /\ Fault
  /\ mirror' \in {mirror, NoMirror}
  /\ UNCHANGED <<store, status>>

\* A refused commit may have removed the mirror; the status says so.
CommitFails ==
  /\ Fault
  /\ mirror' \in {mirror, NoMirror}
  /\ status' = [status EXCEPT !.stale = TRUE]
  /\ UNCHANGED store

\* publish_or_remove; a failure removes the old mirror, if it can.
PublishMirror ==
  /\ daemon.phase = "publishing"
  /\ daemon' = Quiet
  /\ \/ /\ mirror' = Render
        /\ status' = [status EXCEPT !.stale = FALSE]
        /\ UNCHANGED used
     \/ /\ Fault
        /\ mirror' \in {mirror, NoMirror}
        /\ status' = [status EXCEPT !.stale = TRUE]
  /\ UNCHANGED <<file, by, store, sync>>

-----------------------------------------------------------------------------
(* Loads: a reload, or the start of a daemon *)

ReloadLoad ==
  /\ daemon.phase = "idle"
  /\ daemon' = [phase |-> "loaded", file |-> file, by |-> by]
  /\ UNCHANGED <<file, by, store, mirror, status, sync, used>>

Boot ==
  /\ daemon.phase = "down"
  /\ daemon' = [phase |-> "booting", file |-> file, by |-> by]
  /\ status' = [lost |-> FALSE, stale |-> FALSE]
  /\ UNCHANGED <<file, by, store, mirror, sync, used>>

\* The merge is persisted when it changes the sync base.  A load that changes
\* nothing republishes a stale mirror, and the mirror of a file just lost; a start
\* always publishes.
Merged ==
  LET next == Merge(daemon.file)
      lost == Lost(daemon.file)
      booting == daemon.phase = "booting"
  IN /\ daemon.phase \in {"loaded", "booting"}
     /\ \/ /\ next = store
           /\ daemon' = IF booting \/ status.stale \/ (lost /\ ~status.lost)
                          THEN [Quiet EXCEPT !.phase = "publishing"] ELSE Quiet
           /\ status' = [status EXCEPT !.lost = lost]
           /\ UNCHANGED <<store, mirror, used>>
        \/ /\ next # store
           /\ Commit(next)
           /\ status' = [status EXCEPT !.lost = lost]
           /\ UNCHANGED used
        \/ /\ next # store
           /\ CommitFails
           /\ daemon' = [Quiet EXCEPT !.phase = IF booting THEN "down" ELSE "idle"]
     /\ UNCHANGED <<file, by, sync>>

\* The daemon ends, possibly inside a commit that had removed the mirror.
Crash ==
  /\ daemon.phase # "down"
  /\ Fault
  /\ mirror' \in {mirror, NoMirror}
  /\ daemon' = [Quiet EXCEPT !.phase = "down"]
  /\ UNCHANGED <<file, by, store, status, sync>>

-----------------------------------------------------------------------------
(* Live edits *)

ResolvesTo(e, u) == e = u \/ (e \in Names /\ UidOf[e] = u)

\* is_contained: an adversary entry of the stored layer claims the account.
IsContained(u) == \E e \in Entries : ResolvesTo(e, u) /\ Adversary \in store.live.of[e]

\* apply_edit over the live roles, and the conflicts it leaves.
Edited(values) ==
  LET changed == {e \in Entries : values[e] # store.live.of[e]}
  IN [store EXCEPT !.live.of = values, !.conflicts = @ \ changed]

Contain(u) == [store.live.of EXCEPT ![u] = @ \union {Adversary}]

Release(u) ==
  [e \in Entries |-> IF ResolvesTo(e, u) THEN store.live.of[e] \ {Adversary} ELSE store.live.of[e]]

Bind(n, roles) == [store.live.of EXCEPT ![n] = (@ \ BoundRoles) \union roles]

LiveValues ==
  {Contain(u) : u \in {u \in Uids : "contain" \in EditKinds /\ ~IsContained(u)}}
  \union {Release(u) : u \in {u \in Uids : "release" \in EditKinds}}
  \union {Bind(n, {r}) : n \in {n \in Names : "bind" \in EditKinds}, r \in BoundRoles}
  \union {Bind(n, {}) : n \in {n \in Names : "unbind" \in EditKinds}}

\* A live edit needs explicit bindings.
Explicit == Present(store.base) /\ Present(store.live)

\* live_edit holds the turn from its checks to its mirror.
LiveEdit ==
  /\ daemon.phase = "idle"
  /\ used.live < MaxLive
  /\ Explicit
  /\ \E values \in LiveValues \ {store.live.of} :
       \/ /\ Commit(Edited(values))
          /\ used' = [used EXCEPT !.live = @ + 1]
          /\ UNCHANGED status
       \/ /\ CommitFails
          /\ UNCHANGED daemon
  /\ UNCHANGED <<file, by, sync>>

-----------------------------------------------------------------------------
(* The file *)

WriteFile(s, who) ==
  /\ file' = s
  /\ by' = [e \in Entries |-> IF s.of[e] = file.of[e] THEN by[e] ELSE who]

\* Root edits at any time, also between a sync's last check and its rename.
RootEdit ==
  /\ used.root < MaxRoot
  /\ \E s \in RootSections \ {file} : WriteFile(s, "root")
  /\ used' = [used EXCEPT !.root = @ + 1]
  /\ UNCHANGED <<store, mirror, status, daemon, sync>>

-----------------------------------------------------------------------------
(* maknae policy sync *)

Equivalent(a, b) == Present(a) = Present(b) /\ a.of = b.of

\* loosens: the entry gains a role or leaves adversary.
Loosens(was, now) ==
  \/ (now \ {Adversary}) \ was # {}
  \/ Adversary \in was /\ Adversary \notin now

\* An account is a subject; so is a name with no account.
Subjects == Uids \union {n \in Names : UidOf[n] = NoUid}

Claims(e, s) == e = s \/ (e \in Names /\ UidOf[e] = s)

\* effective: what the roles listed for a subject amount to.
Effective(section, s) ==
  LET held == UNION {section.of[e] : e \in {e \in Entries : Claims(e, s)}}
      As(kind) == [kind |-> kind, roles |-> IF kind = "bound" THEN held ELSE {}]
  IN IF held = {} THEN As("unlisted")
     ELSE IF Adversary \in held THEN As("contained")
     ELSE IF \E r \in held : held = {r} THEN As("bound")
     ELSE As("unbound")

MayInstall(was, now) ==
  \/ now.kind = "contained" \/ now = was
  \/ now.kind = "unbound" /\ was.kind = "bound"
  \/ now.kind = "unlisted" /\ was.kind \in {"bound", "unbound"}

\* What an unattended sync may install over f: a tightening of every entry and of
\* every account.
Tightens(f, s) ==
  /\ \A e \in Entries : ~Loosens(f.of[e], s.of[e])
  /\ \A u \in Subjects : MayInstall(Effective(f, u), Effective(s, u))

\* plan_sync: what installing mirror m over file f would be.
PlanOf(m, f) ==
  IF Equivalent(f, m.section) THEN "nothing"
  ELSE IF ~Present(f) THEN "restore"
  ELSE IF ~Present(m.section) THEN "keyless"
  ELSE IF f # m.base THEN "basechanged"
  ELSE "install"

SyncStart(terminal) ==
  /\ sync.phase = "idle"
  /\ mirror # NoMirror
  /\ sync' = [NoSync EXCEPT !.phase = "read", !.terminal = terminal, !.mirror = mirror]
  /\ UNCHANGED <<file, by, store, mirror, status, daemon, used>>

\* sync: the plan, and what an unattended one refuses.
SyncPlan ==
  /\ sync.phase = "read"
  /\ LET plan == PlanOf(sync.mirror, file)
         proceeds ==
           \/ plan = "restore" /\ (sync.terminal \/ file = Missing)
           \/ plan = "install" /\ (sync.terminal \/ (/\ Tightens(file, sync.mirror.section)
                                                     /\ sync.mirror.conflicts = {}))
     IN sync' = IF proceeds THEN [sync EXCEPT !.phase = "planned", !.restore = (plan = "restore")]
                ELSE NoSync
  /\ UNCHANGED <<file, by, store, mirror, status, daemon, used>>

\* The conflicts are not accepted at the prompt.
SyncDecline ==
  /\ sync.phase = "planned"
  /\ sync.terminal /\ ~sync.restore /\ sync.mirror.conflicts # {}
  /\ sync' = NoSync
  /\ UNCHANGED <<file, by, store, mirror, status, daemon, used>>

\* still_as_planned reads the mirror, then the file.
RecheckMirror ==
  /\ sync.phase = "planned"
  /\ sync' = IF mirror = sync.mirror THEN [sync EXCEPT !.phase = "mirrored"] ELSE NoSync
  /\ UNCHANGED <<file, by, store, mirror, status, daemon, used>>

\* Faulty recheck: the plan was made a moment ago.
RecheckFileSkipped ==
  /\ sync.phase = "mirrored"
  /\ sync' = [sync EXCEPT !.phase = "checked", !.seen = file]
  /\ UNCHANGED <<file, by, store, mirror, status, daemon, used>>

RecheckFile ==
  /\ sync.phase = "mirrored"
  /\ sync' = IF \/ /\ sync.restore /\ PlanOf(sync.mirror, file) = "restore"
                   /\ sync.terminal \/ file = Missing
                \/ ~sync.restore /\ PlanOf(sync.mirror, file) = "install"
               THEN [sync EXCEPT !.phase = "checked", !.seen = file]
               ELSE NoSync
  /\ UNCHANGED <<file, by, store, mirror, status, daemon, used>>

\* Ghost: who gives the entries that a sync changes their value.
Installer ==
  IF sync.terminal THEN "terminal"
  ELSE IF sync.mirror.revision = store.revision THEN "unattended" ELSE "late"

\* The rename; the watcher reloads after it, as anyone may at any time.
Install ==
  /\ sync.phase = "checked"
  /\ sync' = NoSync
  /\ \/ /\ WriteFile(sync.mirror.section, Installer)
        /\ UNCHANGED used
     \/ /\ Fault
        /\ UNCHANGED <<file, by>>
  /\ UNCHANGED <<store, mirror, status, daemon>>

Next ==
  \/ RootEdit \/ LiveEdit
  \/ ReloadLoad \/ Boot \/ Merged \/ PublishMirror \/ Crash
  \/ \E terminal \in BOOLEAN : SyncStart(terminal)
  \/ SyncPlan \/ SyncDecline \/ RecheckMirror \/ RecheckFile \/ Install

Spec == Init /\ [][Next]_vars

\* The daemon is restarted when it ends and reloaded again and again, and an
\* administrator runs the sync at a terminal again and again and does not decline
\* for ever.
Fairness ==
  /\ WF_vars(ReloadLoad) /\ WF_vars(Boot) /\ WF_vars(Merged) /\ WF_vars(PublishMirror)
  /\ SF_vars(SyncStart(TRUE)) /\ WF_vars(SyncPlan)
  /\ SF_vars(RecheckMirror) /\ WF_vars(RecheckFile) /\ WF_vars(Install)

FairSpec == Spec /\ Fairness

-----------------------------------------------------------------------------
(* Properties *)

SyncBases == [base : Section, live : Section, conflicts : SUBSET Entries, revision : Nat]

Mirrors ==
  [kind : {"mirror"}, base : Section, section : Section, conflicts : SUBSET Entries,
   revision : Nat]

\* Every variable holds a value of its kind; a section without its key lists nobody,
\* and a uid only under adversary (the role rules a load enforces).
TypeOK ==
  /\ file \in Section
  /\ by \in [Entries -> Authors]
  /\ store \in SyncBases
  /\ mirror \in Mirrors \union {NoMirror}
  /\ status \in [lost : BOOLEAN, stale : BOOLEAN]
  /\ daemon \in [phase : {"idle", "loaded", "booting", "publishing", "down"}, file : Section,
                 by : [Entries -> Authors]]
  /\ sync \in [phase : {"idle", "read", "planned", "mirrored", "checked"}, terminal : BOOLEAN,
               mirror : Mirrors \union {NoMirror}, restore : BOOLEAN, seen : Section]
  /\ sync.phase # "idle" => sync.mirror # NoMirror
  /\ used \in [root : Nat, live : Nat, faults : Nat]

\* The stored base and live section agree on whether there are explicit bindings,
\* through losses, restores, edits and failed commits: a store where they disagree is
\* refused at every later start (maknae-graph sync.rs extract).
ExplicitAgree == Present(store.base) <=> Present(store.live)

\* A listed conflict is failed closed, contained or without a role, and still differs
\* from the file's value, so that a sync has something to resolve.
ConflictsFailClosed ==
  \A e \in store.conflicts :
    /\ store.live.of[e] \in {{}, {Adversary}}
    /\ store.live.of[e] # store.base.of[e]

Merging == daemon.phase \in {"loaded", "booting"}

\* A containment the file does not have is never merged away, by a reload, a restart, a
\* lost file or an unattended sync, unless its conflict is resolved: the entry is listed
\* and root, or a sync at a terminal, changed it since the daemon last loaded the file. (A
\* sync that is overtaken between its last checks and its rename may change it too: edit
\* bindings.yaml or run the sync, not both at once, says docs/runbook.md.)
ReleaseIsDeliberate ==
  [][\A e \in Entries :
       /\ Merging
       /\ Adversary \in store.live.of[e] \ store.base.of[e]
       /\ Adversary \notin store'.live.of[e]
       => /\ e \in store.conflicts
          /\ daemon.by[e] # "unattended"
          /\ daemon.file.of[e] # store.base.of[e]]_vars

\* Neither side wins silently: an entry both changed is enforced as the file says only
\* if that is the fail-closed value, and otherwise it is listed as a conflict; an entry
\* only one side changed has that side's value.
NoSilentWinner ==
  [][\A e \in Entries :
       Merging /\ store' # store /\ e \notin store.conflicts \union store'.conflicts =>
         LET b == store.base.of[e]
             l == store.live.of[e]
             f == daemon.file.of[e]
             n == store'.live.of[e]
         IN IF f = b THEN n = l
            ELSE n = f /\ (l = b \/ n \in {l, {}, {Adversary}})]_vars

\* What an unattended sync installs over a present file tightens that very file, entry
\* by entry and account by account, although root may edit it and the daemon replace the
\* mirror while the sync runs; only an edit between the last check (still_as_planned)
\* and the rename may be lost.
UnattendedTightens ==
  [][sync.phase = "checked" /\ sync' # sync /\ ~sync.terminal /\ Present(file)
     /\ file = sync.seen /\ file' # file => Tightens(file, file')]_vars

\* A load of the file a sync installed adopts it: nothing enforced changes, and no
\* conflict is left.
SyncAdopted ==
  [][Merging /\ daemon.file = store.live /\ store' # store =>
       store'.live = store.live /\ store'.conflicts = {}]_vars

\* Once root and the live edits pause, syncs and reloads come to rest with file, base
\* and live equal and no conflict, whatever failed on the way: a mirror that was removed
\* is published again, and no conflict comes back.
Converges == <>[](file = store.base /\ store.base = store.live /\ store.conflicts = {})
=============================================================================
