------------------------- MODULE BindingsSyncProofs -------------------------
(***************************************************************************)
(* The merge of file, base and live bindings, for every set of entries and *)
(* roles and any number of edits and failures: neither side wins silently, *)
(* conflicts fail closed, an unattended sync tightens, and a containment   *)
(* ends on purpose only.                                                   *)
(***************************************************************************)
EXTENDS BindingsSync, TLAPS

-----------------------------------------------------------------------------
(* Sections and sync bases *)

\* What a member of Section is made of (bindings_sync.rs Section).
LEMMA SectionParts ==
  ASSUME NEW s \in Section
  PROVE  /\ s.kind \in {"missing", "absent", "present"}
         /\ s.of \in Listings
         /\ ~Present(s) => s.of = Nobody
<1>1. Nobody \in Listings
  BY DEF Nobody, Listings
<1>2. CASE s \in [kind : {"missing", "absent"}, of : {Nobody}]
  BY <1>1, <1>2 DEF Present
<1>3. CASE s \in [kind : {"present"}, of : Listings]
  BY <1>3 DEF Present
<1> QED
  BY <1>2, <1>3 DEF Section

\* The roles a listing gives an entry are roles the entry may have.
LEMMA ListingRoles ==
  ASSUME NEW v \in Listings, NEW e \in Entries
  PROVE  v[e] \subseteq RolesOf(e)
BY DEF Listings

\* A function of allowed roles is a listing (check_roles).
LEMMA ListingOf ==
  ASSUME NEW v, v = [e \in Entries |-> v[e]], \A e \in Entries : v[e] \subseteq RolesOf(e)
  PROVE  v \in Listings
<1>1. \A e \in Entries : RolesOf(e) \subseteq BoundRoles \union {Adversary}
  BY DEF RolesOf
<1>2. v \in [Entries -> SUBSET (BoundRoles \union {Adversary})]
  BY <1>1
<1> QED
  BY <1>2 DEF Listings

\* A present section keeps being one when its listing is replaced.
LEMMA Relisted ==
  ASSUME NEW s \in Section, Present(s), NEW v \in Listings
  PROVE  /\ [s EXCEPT !.of = v] \in Section
         /\ [s EXCEPT !.of = v].of = v
         /\ Present([s EXCEPT !.of = v])
<1>1. s \in [kind : {"present"}, of : Listings]
  BY DEF Section, Present
<1> QED
  BY <1>1 DEF Section, Present

\* A missing file is a section.
LEMMA MissingSection == Missing \in Section /\ ~Present(Missing)
BY DEF Missing, Section, Present

\* Every value of the merge is one of the values merged, or a fail-closed one.
LEMMA MergedValueRoles ==
  ASSUME store \in SyncBases, NEW f \in Section, NEW e \in Entries
  PROVE  MergedValue(f, e) \subseteq RolesOf(e)
<1>1. /\ store.base.of[e] \subseteq RolesOf(e)
      /\ store.live.of[e] \subseteq RolesOf(e)
      /\ f.of[e] \subseteq RolesOf(e)
  <2>1. store.base \in Section /\ store.live \in Section
    BY DEF SyncBases
  <2> QED
    BY <2>1, SectionParts, ListingRoles
<1>2. Adversary \in RolesOf(e)
  BY DEF RolesOf
<1> QED
  BY <1>1, <1>2 DEF MergedValue, EntryValue, Safe

\* What an adopted file makes of the sync base, field by field.
LEMMA AdoptParts ==
  ASSUME store \in SyncBases, NEW f \in Section
  PROVE  /\ Adopt(f) \in SyncBases
         /\ Adopt(f).base = f
         /\ Present(Adopt(f).live) <=> Present(f)
         /\ Present(f) => Adopt(f).live.of = [e \in Entries |-> MergedValue(f, e)]
         /\ ~Present(f) => Adopt(f).live = f
         /\ Adopt(f).conflicts = {e \in Entries : MergedListed(f, e)}
<1> DEFINE v == [e \in Entries |-> MergedValue(f, e)]
           live == MergedSection(f, v)
           listed == {e \in Entries : MergedListed(f, e)}
<1>1. v \in Listings
  <2>1. \A e \in Entries : v[e] \subseteq RolesOf(e)
    BY MergedValueRoles
  <2>2. v = [e \in Entries |-> v[e]]
    OBVIOUS
  <2> HIDE DEF v
  <2> QED
    BY <2>1, <2>2, ListingOf
<1>2. Adopt(f) = [store EXCEPT !.base = f, !.live = live, !.conflicts = listed]
  BY DEF Adopt
<1>3. listed \subseteq Entries
  OBVIOUS
<1> HIDE DEF v, listed
<1>4. /\ live \in Section
      /\ Present(live) <=> Present(f)
      /\ Present(f) => live.of = v
      /\ ~Present(f) => live = f
  <2>1. CASE Present(f)
    BY <1>1, <2>1, Relisted DEF MergedSection
  <2>2. CASE ~Present(f)
    BY <2>2 DEF MergedSection
  <2> QED
    BY <2>1, <2>2
<1> HIDE DEF live
<1>5. /\ Adopt(f) \in SyncBases
      /\ Adopt(f).base = f /\ Adopt(f).live = live /\ Adopt(f).conflicts = listed
  BY <1>2, <1>3, <1>4 DEF SyncBases
<1> QED
  BY <1>4, <1>5 DEF v, listed

\* merge yields a sync base (bindings_sync.rs merge).
LEMMA MergeType ==
  ASSUME store \in SyncBases, NEW f \in Section
  PROVE  Merge(f) \in SyncBases
BY AdoptParts DEF Merge

\* A live edit leaves an allowed listing: a uid gets adversary only, and a bound role goes
\* to a name only (bindings_sync.rs edit_section).
LEMMA LiveValuesType ==
  ASSUME store \in SyncBases, NEW values \in LiveValues
  PROVE  values \in Listings
<1> DEFINE was == store.live.of
<1>1. was \in Listings
  <2>1. store.live \in Section
    BY DEF SyncBases
  <2> QED
    BY <2>1, SectionParts
<1>2. was = [e \in Entries |-> was[e]] /\ \A e \in Entries : was[e] \subseteq RolesOf(e)
  BY <1>1 DEF Listings
<1>3. values = [e \in Entries |-> values[e]] /\ \A e \in Entries : values[e] \subseteq RolesOf(e)
  <2>1. CASE \E u \in Uids : values = Contain(u)
    <3>1. PICK u \in Uids : values = Contain(u)
      BY <2>1
    <3>2. values = [was EXCEPT ![u] = @ \union {Adversary}]
      BY <3>1 DEF Contain
    <3>3. Adversary \in RolesOf(u) /\ u \in Entries
      BY DEF RolesOf, Entries
    <3> HIDE DEF was
    <3> QED
      BY <1>2, <3>2, <3>3
  <2>2. CASE \E u \in Uids : values = Release(u)
    <3>1. PICK u \in Uids : values = Release(u)
      BY <2>2
    <3>2. values = [e \in Entries |-> IF ResolvesTo(e, u) THEN was[e] \ {Adversary} ELSE was[e]]
      BY <3>1 DEF Release
    <3> HIDE DEF was
    <3> QED
      BY <1>2, <3>2
  <2>3. CASE \E n \in Names, roles \in SUBSET BoundRoles : values = Bind(n, roles)
    <3>1. PICK n \in Names, roles \in SUBSET BoundRoles : values = Bind(n, roles)
      BY <2>3
    <3>2. values = [was EXCEPT ![n] = (@ \ BoundRoles) \union roles]
      BY <3>1 DEF Bind
    <3>3. RolesOf(n) = BoundRoles \union {Adversary} /\ n \in Entries
      BY SyncAssumption DEF RolesOf, Entries
    <3> HIDE DEF was
    <3> QED
      BY <1>2, <3>2, <3>3
  <2>4. \/ \E u \in Uids : values = Contain(u)
        \/ \E u \in Uids : values = Release(u)
        \/ \E n \in Names, r \in BoundRoles : values = Bind(n, {r})
        \/ \E n \in Names : values = Bind(n, {})
    BY DEF LiveValues
  <2>5. \A r \in BoundRoles : {r} \in SUBSET BoundRoles
    OBVIOUS
  <2>6. {} \in SUBSET BoundRoles
    OBVIOUS
  <2> QED
    BY <2>1, <2>2, <2>3, <2>4, <2>5, <2>6
<1> QED
  BY <1>3, ListingOf

\* What a live edit makes of the sync base, field by field (bindings_sync.rs apply_edit).
LEMMA EditedParts ==
  ASSUME store \in SyncBases, Present(store.live), NEW values \in Listings
  PROVE  /\ Edited(values) \in SyncBases
         /\ Edited(values).base = store.base
         /\ Present(Edited(values).live) /\ Edited(values).live.of = values
         /\ Edited(values).conflicts =
              store.conflicts \ {e \in Entries : values[e] # store.live.of[e]}
<1> DEFINE left == store.conflicts \ {e \in Entries : values[e] # store.live.of[e]}
           live == [store.live EXCEPT !.of = values]
<1>1. store.live \in Section
  BY DEF SyncBases
<1>2. live \in Section /\ live.of = values /\ Present(live)
  BY <1>1, Relisted
<1>3. Edited(values) = [store EXCEPT !.live = live, !.conflicts = left]
  BY DEF Edited, SyncBases
<1>4. left \in SUBSET Entries
  BY DEF SyncBases
<1> HIDE DEF live, left
<1>5. /\ Edited(values) \in SyncBases
      /\ Edited(values).base = store.base /\ Edited(values).live = live
      /\ Edited(values).conflicts = left
  BY <1>2, <1>3, <1>4 DEF SyncBases
<1> QED
  BY <1>2, <1>5 DEF left

-----------------------------------------------------------------------------
(* Types *)

\* The mirror rendered from a sync base is a mirror (kernel sync.rs render).
LEMMA RenderType ==
  ASSUME store \in SyncBases
  PROVE  Render \in Mirrors /\ Render # NoMirror
BY DEF Render, Mirrors, SyncBases, NoMirror

\* Idle turns and no running sync are values of their kinds.
LEMMA IdleTypes ==
  /\ ByRoot \in [Entries -> Authors]
  /\ \A p \in {"idle", "publishing", "down"} :
       [Quiet EXCEPT !.phase = p] \in
         [phase : {"idle", "loaded", "booting", "publishing", "down"}, file : Section,
          by : [Entries -> Authors]]
  /\ Quiet \in [phase : {"idle", "loaded", "booting", "publishing", "down"}, file : Section,
                by : [Entries -> Authors]]
  /\ NoSync \in [phase : {"idle", "read", "planned", "mirrored", "checked"}, terminal : BOOLEAN,
                 mirror : Mirrors \union {NoMirror}, restore : BOOLEAN, seen : Section]
  /\ NoSync.phase = "idle"
<1>1. ByRoot \in [Entries -> Authors]
  BY DEF ByRoot, Authors
<1> QED
  BY <1>1, MissingSection DEF Quiet, NoSync

\* A commit leaves a sync base (store.rs commit).
LEMMA CommitType ==
  ASSUME TypeOK, NEW next \in SyncBases, Commit(next)
  PROVE  /\ store' \in SyncBases
         /\ mirror' \in Mirrors \union {NoMirror}
         /\ daemon' \in [phase : {"idle", "loaded", "booting", "publishing", "down"},
                         file : Section, by : [Entries -> Authors]]
<1>1. store.revision + 1 \in Nat
  BY DEF TypeOK, SyncBases
<1>2. [next EXCEPT !.revision = store.revision + 1] \in SyncBases
  BY <1>1 DEF SyncBases
<1> QED
  BY <1>2, IdleTypes DEF Commit

\* The bounds stay natural numbers when a failure is counted.
LEMMA FaultType ==
  ASSUME TypeOK, Fault
  PROVE  used' \in [root : Nat, live : Nat, faults : Nat]
BY DEF TypeOK, Fault

\* A refused commit keeps the store (run.rs Store::commit).
LEMMA CommitFailsType ==
  ASSUME TypeOK, CommitFails
  PROVE  /\ store' \in SyncBases
         /\ mirror' \in Mirrors \union {NoMirror}
         /\ status' \in [lost : BOOLEAN, stale : BOOLEAN]
         /\ used' \in [root : Nat, live : Nat, faults : Nat]
BY FaultType DEF TypeOK, CommitFails

\* A written file is a section and every entry of it has an author.
LEMMA WriteFileType ==
  ASSUME TypeOK, NEW s \in Section, NEW who \in Authors, WriteFile(s, who)
  PROVE  file' \in Section /\ by' \in [Entries -> Authors]
BY DEF TypeOK, WriteFile

\* The start of the daemon satisfies the type invariant.
LEMMA InitTypeOK == Init => TypeOK
<1> SUFFICES ASSUME Init PROVE TypeOK
  OBVIOUS
<1>1. PICK s \in RootSections \ {Missing} :
        file = s /\ store = [base |-> s, live |-> s, conflicts |-> {}, revision |-> 1]
  BY DEF Init
<1>2. s \in Section
  BY SyncAssumption
<1>3. store \in SyncBases
  BY <1>1, <1>2 DEF SyncBases
<1>4. mirror \in Mirrors
  BY <1>3, RenderType DEF Init
<1>5. used \in [root : Nat, live : Nat, faults : Nat] /\ status \in [lost : BOOLEAN, stale : BOOLEAN]
  BY DEF Init
<1> QED
  BY <1>1, <1>2, <1>3, <1>4, <1>5, IdleTypes DEF Init, TypeOK

\* Every step keeps the type invariant.
LEMMA NextTypeOK == TypeOK /\ [Next]_vars => TypeOK'
<1> SUFFICES ASSUME TypeOK, [Next]_vars PROVE TypeOK'
  OBVIOUS
<1>1. CASE RootEdit
  <2>1. PICK s \in RootSections : WriteFile(s, "root")
    BY <1>1 DEF RootEdit
  <2>2. file' \in Section /\ by' \in [Entries -> Authors]
    BY <2>1, WriteFileType, SyncAssumption DEF Authors
  <2>3. used' \in [root : Nat, live : Nat, faults : Nat]
    BY <1>1 DEF RootEdit, TypeOK
  <2> QED
    BY <1>1, <2>2, <2>3 DEF RootEdit, TypeOK
<1>2. CASE LiveEdit
  <2>1. PICK values \in LiveValues :
          \/ /\ Commit(Edited(values))
             /\ used' = [used EXCEPT !.live = @ + 1]
             /\ UNCHANGED status
          \/ CommitFails /\ UNCHANGED daemon
    BY <1>2 DEF LiveEdit
  <2>2. Edited(values) \in SyncBases
    BY <1>2, EditedParts, LiveValuesType DEF LiveEdit, Explicit, TypeOK
  <2>3. CASE /\ Commit(Edited(values))
             /\ used' = [used EXCEPT !.live = @ + 1]
             /\ UNCHANGED status
    <3>1. used' \in [root : Nat, live : Nat, faults : Nat]
      BY <2>3 DEF TypeOK
    <3> QED
      BY <1>2, <2>2, <2>3, <3>1, CommitType DEF LiveEdit, TypeOK
  <2>4. CASE CommitFails /\ UNCHANGED daemon
    BY <1>2, <2>4, CommitFailsType DEF LiveEdit, TypeOK
  <2> QED
    BY <2>1, <2>3, <2>4
<1>3. CASE ReloadLoad
  BY <1>3 DEF ReloadLoad, TypeOK
<1>4. CASE Boot
  BY <1>4 DEF Boot, TypeOK
<1>5. CASE Merged
  <2> DEFINE next == Merge(daemon.file)
             lost == Lost(daemon.file)
  <2>1. next \in SyncBases
    BY MergeType DEF TypeOK
  <2>2. lost \in BOOLEAN
    BY DEF Lost, Present
  <2> HIDE DEF next, lost
  <2>3. CASE /\ next = store
             /\ daemon' = IF daemon.phase = "booting" \/ status.stale \/ (lost /\ ~status.lost)
                            THEN [Quiet EXCEPT !.phase = "publishing"] ELSE Quiet
             /\ status' = [status EXCEPT !.lost = lost]
             /\ UNCHANGED <<store, mirror, used>>
    BY <1>5, <2>2, <2>3, IdleTypes DEF Merged, TypeOK
  <2>4. CASE /\ next # store
             /\ Commit(next)
             /\ status' = [status EXCEPT !.lost = lost]
             /\ UNCHANGED used
    BY <1>5, <2>1, <2>2, <2>4, CommitType DEF Merged, TypeOK
  <2>5. CASE /\ next # store
             /\ CommitFails
             /\ daemon' = [Quiet EXCEPT !.phase = IF daemon.phase = "booting" THEN "down" ELSE "idle"]
    BY <1>5, <2>5, CommitFailsType, IdleTypes DEF Merged, TypeOK
  <2> QED
    BY <1>5, <2>3, <2>4, <2>5 DEF Merged, next, lost
<1>6. CASE PublishMirror
  <2>1. Render \in Mirrors
    BY RenderType DEF TypeOK
  <2>2. mirror' \in Mirrors \union {NoMirror} /\ status' \in [lost : BOOLEAN, stale : BOOLEAN]
    BY <1>6, <2>1 DEF PublishMirror, TypeOK
  <2>3. used' \in [root : Nat, live : Nat, faults : Nat]
    BY <1>6, FaultType DEF PublishMirror, TypeOK
  <2> QED
    BY <1>6, <2>2, <2>3, IdleTypes DEF PublishMirror, TypeOK
<1>7. CASE Crash
  <2>1. used' \in [root : Nat, live : Nat, faults : Nat]
    BY <1>7, FaultType DEF Crash
  <2> QED
    BY <1>7, <2>1, IdleTypes DEF Crash, TypeOK
<1>8. CASE \E terminal \in BOOLEAN : SyncStart(terminal)
  BY <1>8, MissingSection DEF SyncStart, NoSync, TypeOK
<1>9. CASE SyncPlan
  BY <1>9, IdleTypes DEF SyncPlan, TypeOK
<1>10. CASE SyncDecline
  BY <1>10, IdleTypes DEF SyncDecline, TypeOK
<1>11. CASE RecheckMirror
  BY <1>11, IdleTypes DEF RecheckMirror, TypeOK
<1>12. CASE RecheckFile
  BY <1>12, IdleTypes DEF RecheckFile, TypeOK
<1>13. CASE Install
  <2>1. sync.mirror \in Mirrors
    BY <1>13 DEF Install, TypeOK
  <2>2. sync.mirror.section \in Section
    BY <2>1 DEF Mirrors
  <2>3. file' \in Section /\ by' \in [Entries -> Authors]
    BY <1>13, <2>2, WriteFileType DEF Install, Installer, Authors, TypeOK
  <2>4. used' \in [root : Nat, live : Nat, faults : Nat]
    BY <1>13, FaultType DEF Install, TypeOK
  <2> QED
    BY <1>13, <2>3, <2>4, IdleTypes DEF Install, TypeOK
<1>14. CASE UNCHANGED vars
  BY <1>14 DEF vars, TypeOK
<1> QED
  BY <1>1, <1>2, <1>3, <1>4, <1>5, <1>6, <1>7, <1>8, <1>9, <1>10, <1>11, <1>12, <1>13, <1>14
     DEF Next

\* Every reachable state is well formed: no merge, live edit or sync ever leaves a
\* keyless section that lists somebody, or a uid in a role it may not have.
THEOREM TypeCorrect == Spec => []TypeOK
BY InitTypeOK, NextTypeOK, PTL DEF Spec

-----------------------------------------------------------------------------
(* The merge *)

\* The sync base changes only by a commit: of a merge, or of a live edit.
LEMMA StoreSteps ==
  ASSUME TypeOK, [Next]_vars, store' # store
  PROVE  \/ /\ Merging /\ ~Lost(daemon.file)
            /\ store' = [Adopt(daemon.file) EXCEPT !.revision = store.revision + 1]
         \/ /\ ~Merging /\ Explicit
            /\ \E values \in LiveValues :
                 store' = [Edited(values) EXCEPT !.revision = store.revision + 1]
<1>1. CASE Merged
  BY <1>1 DEF Merged, Merging, Merge, Commit, CommitFails
<1>2. CASE LiveEdit
  BY <1>2 DEF LiveEdit, Commit, CommitFails, Merging
<1>3. CASE \/ RootEdit \/ ReloadLoad \/ Boot \/ PublishMirror \/ Crash \/ SyncPlan
           \/ SyncDecline \/ RecheckMirror \/ RecheckFile \/ Install \/ UNCHANGED vars
           \/ \E terminal \in BOOLEAN : SyncStart(terminal)
  BY <1>3 DEF RootEdit, ReloadLoad, Boot, PublishMirror, Crash, SyncStart, SyncPlan,
              SyncDecline, RecheckMirror, RecheckFile, Install, vars
<1> QED
  BY <1>1, <1>2, <1>3 DEF Next

\* A commit numbers the sync base and changes nothing else of it.
LEMMA Renumbered ==
  ASSUME NEW base \in SyncBases, NEW n
  PROVE  /\ [base EXCEPT !.revision = n].base = base.base
         /\ [base EXCEPT !.revision = n].live = base.live
         /\ [base EXCEPT !.revision = n].conflicts = base.conflicts
BY DEF SyncBases

\* The invariant of the stored sync base.
StoreSafe == ExplicitAgree /\ ConflictsFailClosed

\* A merge keeps the sync base safe: a listed conflict was just failed closed, or the file
\* still has the value it conflicts with.
LEMMA AdoptSafe ==
  ASSUME TypeOK, StoreSafe, NEW f \in Section, ~Lost(f)
  PROVE  /\ Present(Adopt(f).base) <=> Present(Adopt(f).live)
         /\ \A e \in Adopt(f).conflicts :
              /\ Adopt(f).live.of[e] \in {{}, {Adversary}}
              /\ Adopt(f).live.of[e] # Adopt(f).base.of[e]
<1>1. store \in SyncBases /\ store.base \in Section /\ store.live \in Section
  BY DEF TypeOK, SyncBases
<1>2. Present(Adopt(f).base) <=> Present(Adopt(f).live)
  BY <1>1, AdoptParts
<1>3. ASSUME NEW e \in Adopt(f).conflicts
      PROVE  /\ Adopt(f).live.of[e] \in {{}, {Adversary}}
             /\ Adopt(f).live.of[e] # Adopt(f).base.of[e]
  <2>1. e \in Entries /\ MergedListed(f, e) /\ Adopt(f).base = f
    BY <1>1, <1>3, AdoptParts
  <2>2. Present(f)
    <3>1. SUFFICES ASSUME ~Present(f) PROVE FALSE
      OBVIOUS
    <3>2. ~Present(store.base) /\ ~Present(store.live)
      BY <3>1 DEF Lost, StoreSafe, ExplicitAgree
    <3>3. f.of = Nobody /\ store.base.of = Nobody /\ store.live.of = Nobody
      BY <1>1, <3>1, <3>2, SectionParts
    <3> QED
      BY <2>1, <3>3 DEF MergedListed, EntryListed
  <2>3. Adopt(f).live.of[e] = MergedValue(f, e)
    BY <1>1, <2>1, <2>2, AdoptParts
  <2>4. e \in store.conflicts => store.live.of[e] \in {{}, {Adversary}}
    BY DEF StoreSafe, ConflictsFailClosed
  <2>5. MergedValue(f, e) \in {{}, {Adversary}} /\ MergedValue(f, e) # f.of[e]
    BY <2>1, <2>4 DEF MergedListed, EntryListed, MergedValue, EntryValue, Safe
  <2> QED
    BY <2>1, <2>3, <2>5
<1> QED
  BY <1>2, <1>3

\* Every step keeps the sync base safe.
LEMMA NextStoreSafe == TypeOK /\ StoreSafe /\ [Next]_vars => StoreSafe'
<1> SUFFICES ASSUME TypeOK, StoreSafe, [Next]_vars PROVE StoreSafe'
  OBVIOUS
<1>1. CASE store' = store
  BY <1>1 DEF StoreSafe, ExplicitAgree, ConflictsFailClosed
<1>2. CASE Merging /\ ~Lost(daemon.file)
           /\ store' = [Adopt(daemon.file) EXCEPT !.revision = store.revision + 1]
  <2>1. daemon.file \in Section /\ store \in SyncBases
    BY DEF TypeOK
  <2>2. /\ store'.base = Adopt(daemon.file).base
        /\ store'.live = Adopt(daemon.file).live
        /\ store'.conflicts = Adopt(daemon.file).conflicts
    BY <1>2, <2>1, AdoptParts, Renumbered
  <2> QED
    BY <1>2, <2>1, <2>2, AdoptSafe DEF StoreSafe, ExplicitAgree, ConflictsFailClosed
<1>3. ASSUME Explicit, NEW values \in LiveValues,
             store' = [Edited(values) EXCEPT !.revision = store.revision + 1]
      PROVE  StoreSafe'
  <2>1. store \in SyncBases /\ Present(store.live) /\ values \in Listings
    BY <1>3, LiveValuesType DEF TypeOK, Explicit
  <2>2. /\ store'.base = store.base
        /\ Present(store'.live) /\ store'.live.of = values
        /\ store'.conflicts = store.conflicts \ {e \in Entries : values[e] # store.live.of[e]}
    BY <1>3, <2>1, EditedParts, Renumbered
  <2>3. store.conflicts \subseteq Entries
    BY <2>1 DEF SyncBases
  <2> QED
    BY <1>3, <2>2, <2>3 DEF Explicit, StoreSafe, ExplicitAgree, ConflictsFailClosed
<1> QED
  BY <1>1, <1>2, <1>3, StoreSteps

\* Through every merge, live edit, failure and restart the stored base and live section
\* agree on whether there are explicit bindings, so that no later start refuses the store.
THEOREM ExplicitAlwaysAgree == Spec => []ExplicitAgree
<1>1. Init => StoreSafe
  BY DEF Init, StoreSafe, ExplicitAgree, ConflictsFailClosed
<1> QED
  BY <1>1, TypeCorrect, NextStoreSafe, PTL DEF Spec, StoreSafe

\* A conflict the merge lists stays failed closed and different from the file until it is
\* resolved, whatever else is merged or edited meanwhile.
THEOREM ConflictsStayFailClosed == Spec => []ConflictsFailClosed
<1>1. Init => StoreSafe
  BY DEF Init, StoreSafe, ExplicitAgree, ConflictsFailClosed
<1> QED
  BY <1>1, TypeCorrect, NextStoreSafe, PTL DEF Spec, StoreSafe

\* What a merge step does to one entry.
LEMMA MergeStepEntry ==
  ASSUME TypeOK, StoreSafe, [Next]_vars, Merging, store' # store, NEW e \in Entries
  PROVE  /\ store'.live.of[e] = MergedValue(daemon.file, e)
         /\ e \in store'.conflicts <=> MergedListed(daemon.file, e)
<1> DEFINE f == daemon.file
<1>1. /\ ~Lost(f)
      /\ store' = [Adopt(f) EXCEPT !.revision = store.revision + 1]
  BY StoreSteps
<1>2. f \in Section /\ store \in SyncBases /\ store.base \in Section /\ store.live \in Section
  BY DEF TypeOK, SyncBases
<1> HIDE DEF f
<1>3. store'.live = Adopt(f).live /\ store'.conflicts = Adopt(f).conflicts
  BY <1>1, <1>2, AdoptParts, Renumbered
<1>4. Adopt(f).live.of[e] = MergedValue(f, e)
  <2>1. CASE Present(f)
    BY <1>2, <2>1, AdoptParts
  <2>2. CASE ~Present(f)
    <3>1. ~Present(store.base) /\ ~Present(store.live)
      BY <1>1, <2>2 DEF Lost, StoreSafe, ExplicitAgree
    <3>2. f.of = Nobody /\ store.base.of = Nobody /\ store.live.of = Nobody
      BY <1>2, <2>2, <3>1, SectionParts
    <3>3. Adopt(f).live = f
      BY <1>2, <2>2, AdoptParts
    <3> QED
      BY <3>2, <3>3 DEF MergedValue, EntryValue
  <2> QED
    BY <2>1, <2>2
<1> QED
  BY <1>2, <1>3, <1>4, AdoptParts DEF f

\* Neither root nor a live edit wins silently where both changed an entry, and where only
\* one of them did its value is the merged one.
THEOREM NobodyWinsSilently == Spec => NoSilentWinner
<1> DEFINE A ==
      \A e \in Entries :
        Merging /\ store' # store /\ e \notin store.conflicts \union store'.conflicts =>
          LET b == store.base.of[e]
              l == store.live.of[e]
              f == daemon.file.of[e]
              n == store'.live.of[e]
          IN IF f = b THEN n = l
             ELSE n = f /\ (l = b \/ n \in {l, {}, {Adversary}})
<1>1. Init => StoreSafe
  BY DEF Init, StoreSafe, ExplicitAgree, ConflictsFailClosed
<1>2. TypeOK /\ StoreSafe /\ [Next]_vars => [A]_vars
  <2> SUFFICES ASSUME TypeOK, StoreSafe, [Next]_vars, NEW e \in Entries, Merging, store' # store,
                      e \notin store.conflicts, e \notin store'.conflicts
               PROVE  LET b == store.base.of[e]
                          l == store.live.of[e]
                          f == daemon.file.of[e]
                          n == store'.live.of[e]
                      IN IF f = b THEN n = l
                         ELSE n = f /\ (l = b \/ n \in {l, {}, {Adversary}})
    OBVIOUS
  <2>1. /\ store'.live.of[e] = MergedValue(daemon.file, e)
        /\ ~MergedListed(daemon.file, e)
    BY MergeStepEntry
  <2> QED
    BY <2>1 DEF MergedValue, MergedListed, EntryValue, EntryListed, Safe
<1> QED
  BY <1>1, <1>2, TypeCorrect, NextStoreSafe, PTL DEF Spec, NoSilentWinner

\* A load that finds in the file what the daemon enforces, as after a sync, adopts it:
\* nothing enforced changes and every conflict is resolved.
THEOREM SyncAlwaysAdopted == Spec => SyncAdopted
<1> DEFINE A ==
      Merging /\ daemon.file = store.live /\ store' # store =>
        store'.live = store.live /\ store'.conflicts = {}
<1>1. Init => StoreSafe
  BY DEF Init, StoreSafe, ExplicitAgree, ConflictsFailClosed
<1>2. TypeOK /\ StoreSafe /\ [Next]_vars => [A]_vars
  <2> SUFFICES ASSUME TypeOK, StoreSafe, [Next]_vars, Merging, daemon.file = store.live,
                      store' # store
               PROVE  store'.live = store.live /\ store'.conflicts = {}
    OBVIOUS
  <2> DEFINE f == store.live
  <2>1. f \in Section /\ store \in SyncBases
    BY DEF TypeOK, SyncBases
  <2>2. /\ \A e \in Entries : MergedValue(f, e) = f.of[e]
        /\ \A e \in Entries : ~MergedListed(f, e)
    BY DEF MergedValue, MergedListed, EntryValue, EntryListed
  <2>3. store' = [Adopt(f) EXCEPT !.revision = store.revision + 1]
    BY StoreSteps
  <2>4. store'.live = Adopt(f).live /\ store'.conflicts = Adopt(f).conflicts
    BY <2>1, <2>3, AdoptParts, Renumbered
  <2>5. Adopt(f).conflicts = {}
    BY <2>1, <2>2, AdoptParts
  <2>6. Adopt(f).live = f
    <3> HIDE DEF f
    <3>1. CASE Present(f)
      <4>1. f.of = [e \in Entries |-> f.of[e]]
        BY <2>1, SectionParts DEF Listings
      <4>2. [e \in Entries |-> MergedValue(f, e)] = f.of
        BY <2>2, <4>1
      <4>3. f \in [kind : {"present"}, of : Listings]
        BY <2>1, <3>1 DEF Section, Present
      <4>4. Adopt(f).live = [f EXCEPT !.of = f.of]
        BY <2>1, <3>1, <4>2 DEF Adopt, MergedSection, SyncBases
      <4> QED
        BY <4>3, <4>4
    <3>2. CASE ~Present(f)
      BY <2>1, <3>2, AdoptParts
    <3> QED
      BY <3>1, <3>2
  <2> QED
    BY <2>4, <2>5, <2>6
<1> QED
  BY <1>1, <1>2, TypeCorrect, NextStoreSafe, PTL DEF Spec, SyncAdopted

-----------------------------------------------------------------------------
(* The unattended sync *)

\* An unattended install was planned as a tightening of the base of its mirror, and the
\* file it checked last is that base.
Planned ==
  /\ sync.phase \in {"planned", "mirrored", "checked"} /\ ~sync.terminal /\ ~sync.restore =>
       Tightens(sync.mirror.base, sync.mirror.section)
  /\ sync.phase = "checked" =>
       IF sync.restore THEN ~Present(sync.seen) ELSE sync.seen = sync.mirror.base

\* No step disturbs what a sync planned.
LEMMA NextPlanned == TypeOK /\ Planned /\ [Next]_vars => Planned'
<1> SUFFICES ASSUME TypeOK, Planned, [Next]_vars PROVE Planned'
  OBVIOUS
<1> USE DEF TypeOK, Planned
<1>1. CASE RootEdit
  BY <1>1 DEF RootEdit
<1>2. CASE \/ LiveEdit \/ ReloadLoad \/ Boot \/ Merged \/ PublishMirror \/ Crash
           \/ UNCHANGED vars
  BY <1>2 DEF LiveEdit, ReloadLoad, Boot, Merged, PublishMirror, Crash, vars
<1>3. CASE \E terminal \in BOOLEAN : SyncStart(terminal)
  BY <1>3 DEF SyncStart, NoSync
<1>4. CASE SyncPlan
  BY <1>4 DEF SyncPlan, PlanOf, NoSync
<1>5. CASE SyncDecline
  BY <1>5 DEF SyncDecline, NoSync
<1>6. CASE RecheckMirror
  BY <1>6 DEF RecheckMirror, NoSync
<1>7. CASE RecheckFile
  BY <1>7 DEF RecheckFile, PlanOf, NoSync
<1>8. CASE Install
  BY <1>8 DEF Install, NoSync
<1> QED
  BY <1>1, <1>2, <1>3, <1>4, <1>5, <1>6, <1>7, <1>8 DEF Next

\* What an unattended sync installs tightens the file it replaces, unless that was edited
\* after the sync's last check, for every set of names, accounts and roles.
THEOREM UnattendedAlwaysTightens == Spec => UnattendedTightens
<1> DEFINE A ==
      sync.phase = "checked" /\ sync' # sync /\ ~sync.terminal /\ Present(file)
        /\ file = sync.seen /\ file' # file => Tightens(file, file')
<1>1. Init => Planned
  BY DEF Init, Planned, NoSync
<1>2. TypeOK /\ Planned /\ [Next]_vars => [A]_vars
  <2> SUFFICES ASSUME TypeOK, Planned, [Next]_vars, sync.phase = "checked", sync' # sync,
                      ~sync.terminal, Present(file), file = sync.seen, file' # file
               PROVE  Tightens(file, file')
    OBVIOUS
  <2>1. CASE Install
    <3>1. file' = sync.mirror.section
      BY <2>1 DEF Install, WriteFile
    <3>2. file = sync.mirror.base /\ Tightens(sync.mirror.base, sync.mirror.section)
      BY DEF Planned, TypeOK
    <3> QED
      BY <3>1, <3>2
  <2>2. CASE RootEdit
    BY <2>2 DEF RootEdit
  <2>3. CASE \/ LiveEdit \/ ReloadLoad \/ Boot \/ Merged \/ PublishMirror \/ Crash \/ SyncPlan
             \/ SyncDecline \/ RecheckMirror \/ RecheckFile \/ UNCHANGED vars
             \/ \E terminal \in BOOLEAN : SyncStart(terminal)
    BY <2>3 DEF LiveEdit, ReloadLoad, Boot, Merged, PublishMirror, Crash, SyncStart, SyncPlan,
                SyncDecline, RecheckMirror, RecheckFile, vars
  <2> QED
    BY <2>1, <2>2, <2>3 DEF Next
<1>3. TypeOK /\ Planned /\ [Next]_vars => Planned'
  BY NextPlanned
<1> QED
  BY <1>1, <1>2, <1>3, TypeCorrect, PTL DEF Spec, UnattendedTightens

-----------------------------------------------------------------------------
(* Releases *)

\* What an unattended sync wrote into f for a listed containment keeps it, or is what the
\* daemon already loaded.
Spared(f, b) ==
  \A e \in store.conflicts :
    b[e] = "unattended" /\ Adversary \in store.live.of[e] \ store.base.of[e] =>
      Adversary \in f.of[e] \/ f.of[e] = store.base.of[e]

\* A published mirror is what is stored, and so is the mirror of a sync unless the daemon
\* committed since; while a load merges, an unattended sync writes what is enforced.
Sparing ==
  /\ mirror # NoMirror => mirror = Render
  /\ sync.phase # "idle" =>
       /\ sync.mirror.revision <= store.revision
       /\ sync.mirror.revision = store.revision => sync.mirror = Render
  /\ Spared(file, by)
  /\ Merging =>
       /\ Spared(daemon.file, daemon.by)
       /\ \A e \in Entries : by[e] = "unattended" =>
            file.of[e] \in {daemon.file.of[e], store.live.of[e]}

\* Render depends on the store alone.
LEMMA RenderKept == ASSUME store' = store PROVE Render' = Render
BY DEF Render

\* The file is written by root, or by the install of a sync.
LEMMA FileSteps ==
  ASSUME [Next]_vars, <<file, by>>' # <<file, by>>
  PROVE  /\ UNCHANGED <<store, mirror, daemon>>
         /\ \/ /\ UNCHANGED sync
               /\ \E s \in RootSections : WriteFile(s, "root")
            \/ /\ sync.phase = "checked" /\ sync' = NoSync
               /\ WriteFile(sync.mirror.section, Installer)
<1>1. CASE RootEdit
  BY <1>1 DEF RootEdit
<1>2. CASE Install
  BY <1>2 DEF Install
<1>3. CASE \/ LiveEdit \/ ReloadLoad \/ Boot \/ Merged \/ PublishMirror \/ Crash \/ SyncPlan
           \/ SyncDecline \/ RecheckMirror \/ RecheckFile \/ UNCHANGED vars
           \/ \E terminal \in BOOLEAN : SyncStart(terminal)
  BY <1>3 DEF LiveEdit, ReloadLoad, Boot, Merged, PublishMirror, Crash, SyncStart, SyncPlan,
              SyncDecline, RecheckMirror, RecheckFile, vars
<1> QED
  BY <1>1, <1>2, <1>3 DEF Next

\* A commit removes the mirror; every other step keeps, removes or renders it.
LEMMA MirrorSteps ==
  ASSUME [Next]_vars
  PROVE  /\ store' # store => mirror' = NoMirror
         /\ mirror' \in {mirror, NoMirror, Render}
<1>1. CASE Merged
  BY <1>1 DEF Merged, Commit, CommitFails
<1>2. CASE LiveEdit
  BY <1>2 DEF LiveEdit, Commit, CommitFails
<1>3. CASE PublishMirror \/ Crash
  BY <1>3 DEF PublishMirror, Crash
<1>4. CASE \/ RootEdit \/ ReloadLoad \/ Boot \/ SyncPlan \/ SyncDecline \/ RecheckMirror
           \/ RecheckFile \/ Install \/ UNCHANGED vars
           \/ \E terminal \in BOOLEAN : SyncStart(terminal)
  BY <1>4 DEF RootEdit, ReloadLoad, Boot, SyncStart, SyncPlan, SyncDecline, RecheckMirror,
              RecheckFile, Install, vars
<1> QED
  BY <1>1, <1>2, <1>3, <1>4 DEF Next

\* A running sync keeps the mirror it read, which was the published one.
LEMMA SyncSteps ==
  ASSUME TypeOK, [Next]_vars, sync'.phase # "idle"
  PROVE  \/ sync.phase # "idle" /\ sync'.mirror = sync.mirror
         \/ /\ mirror # NoMirror /\ sync'.mirror = mirror
            /\ UNCHANGED store
<1> USE DEF TypeOK
<1>1. CASE \E terminal \in BOOLEAN : SyncStart(terminal)
  BY <1>1 DEF SyncStart, NoSync
<1>2. CASE SyncPlan
  BY <1>2 DEF SyncPlan, NoSync
<1>3. CASE SyncDecline \/ Install
  BY <1>3 DEF SyncDecline, Install, NoSync
<1>4. CASE RecheckMirror
  BY <1>4 DEF RecheckMirror, NoSync
<1>5. CASE RecheckFile
  BY <1>5 DEF RecheckFile, NoSync
<1>6. CASE \/ RootEdit \/ LiveEdit \/ ReloadLoad \/ Boot \/ Merged \/ PublishMirror \/ Crash
           \/ UNCHANGED vars
  BY <1>6 DEF RootEdit, LiveEdit, ReloadLoad, Boot, Merged, PublishMirror, Crash, vars
<1> QED
  BY <1>1, <1>2, <1>3, <1>4, <1>5, <1>6 DEF Next

\* A load takes the file as it is, and the store is not committed to until it merges.
LEMMA LoadSteps ==
  ASSUME TypeOK, [Next]_vars, Merging'
  PROVE  /\ UNCHANGED store
         /\ \/ Merging /\ UNCHANGED daemon
            \/ daemon'.file = file /\ daemon'.by = by /\ UNCHANGED <<file, by>>
<1> USE DEF TypeOK, Merging
<1>1. CASE ReloadLoad \/ Boot
  BY <1>1 DEF ReloadLoad, Boot
<1>2. CASE Merged
  BY <1>2 DEF Merged, Commit, Quiet
<1>3. CASE LiveEdit
  BY <1>3 DEF LiveEdit, Commit, CommitFails, Quiet
<1>4. CASE PublishMirror \/ Crash
  BY <1>4 DEF PublishMirror, Crash, Quiet
<1>5. CASE \/ RootEdit \/ SyncPlan \/ SyncDecline \/ RecheckMirror
           \/ RecheckFile \/ Install \/ UNCHANGED vars
           \/ \E terminal \in BOOLEAN : SyncStart(terminal)
  BY <1>5 DEF RootEdit, SyncStart, SyncPlan, SyncDecline, RecheckMirror,
              RecheckFile, Install, vars
<1> QED
  BY <1>1, <1>2, <1>3, <1>4, <1>5 DEF Next

\* What a write leaves of one entry: the old value, or a value its author is known for.
LEMMA WrittenEntry ==
  ASSUME TypeOK, Sparing, [Next]_vars, <<file, by>>' # <<file, by>>, NEW e \in Entries,
         by'[e] = "unattended"
  PROVE  \/ by[e] = "unattended" /\ file'.of[e] = file.of[e]
         \/ file'.of[e] = store.live.of[e]
<1>1. CASE \E s \in RootSections : WriteFile(s, "root")
  BY <1>1 DEF WriteFile
<1>2. CASE sync.phase = "checked" /\ WriteFile(sync.mirror.section, Installer)
  <2>1. by'[e] = IF file'.of[e] = file.of[e] THEN by[e] ELSE Installer
    BY <1>2 DEF WriteFile
  <2>2. CASE file'.of[e] = file.of[e]
    BY <2>1, <2>2
  <2>3. CASE file'.of[e] # file.of[e]
    <3>1. sync.mirror = Render
      BY <1>2, <2>1, <2>3 DEF Installer, Sparing
    <3>2. file' = store.live
      BY <1>2, <3>1 DEF WriteFile, Render
    <3> QED
      BY <3>2
  <2> QED
    BY <2>2, <2>3
<1> QED
  BY <1>1, <1>2, FileSteps

\* A merge spares what the file held before it did: a conflict that stays keeps its base,
\* and one newly listed contains because the live edit did.
LEMMA MergeSpares ==
  ASSUME TypeOK, StoreSafe, Sparing, [Next]_vars, Merging, store' # store, UNCHANGED <<file, by>>
  PROVE  Spared(file, by)'
<1> SUFFICES ASSUME NEW e \in store'.conflicts, by[e] = "unattended",
                    Adversary \in store'.live.of[e], Adversary \notin store'.base.of[e]
             PROVE  Adversary \in file.of[e] \/ file.of[e] = store'.base.of[e]
  BY DEF Spared
<1> DEFINE g == daemon.file
<1>1. store' \in SyncBases /\ g \in Section /\ store \in SyncBases
  BY NextTypeOK DEF TypeOK
<1>2. e \in Entries
  BY <1>1 DEF SyncBases
<1>3. store' = [Adopt(g) EXCEPT !.revision = store.revision + 1]
  BY StoreSteps
<1>4. /\ store'.live.of[e] = MergedValue(g, e)
      /\ MergedListed(g, e)
  BY <1>2, MergeStepEntry
<1>5. file.of[e] \in {g.of[e], store.live.of[e]}
  BY <1>2 DEF Sparing
<1> HIDE DEF g
<1>6. store'.base = g
  <2>1. Adopt(g) \in SyncBases /\ Adopt(g).base = g
    BY <1>1, AdoptParts
  <2>2. store'.base = Adopt(g).base
    BY <1>3, <2>1, Renumbered
  <2> QED
    BY <2>1, <2>2
<1>7. CASE e \in store.conflicts
  <2>1. g.of[e] = store.base.of[e] /\ store'.live.of[e] = store.live.of[e]
    BY <1>4, <1>7 DEF MergedValue, MergedListed, EntryValue, EntryListed
  <2>2. Spared(file, by)
    BY DEF Sparing
  <2> QED
    BY <1>6, <1>7, <2>1, <2>2 DEF Spared
<1>8. CASE e \notin store.conflicts
  <2>1. Adversary \in store.live.of[e]
    BY <1>4, <1>6, <1>8 DEF MergedValue, MergedListed, EntryValue, EntryListed, Safe
  <2> QED
    BY <1>5, <1>6, <2>1
<1> QED
  BY <1>7, <1>8

\* Every step keeps the invariant.
LEMMA NextSparing == TypeOK /\ StoreSafe /\ Sparing /\ [Next]_vars => Sparing'
<1> SUFFICES ASSUME TypeOK, StoreSafe, Sparing, [Next]_vars PROVE Sparing'
  OBVIOUS
<1>1. (mirror # NoMirror => mirror = Render)'
  <2>1. CASE store' = store
    <3>1. mirror' \in {NoMirror, Render}
      BY MirrorSteps DEF Sparing
    <3> QED
      BY <2>1, <3>1, RenderKept
  <2>2. CASE store' # store
    BY <2>2, MirrorSteps
  <2> QED
    BY <2>1, <2>2
<1>2. ASSUME sync'.phase # "idle"
      PROVE  /\ sync'.mirror.revision <= store'.revision
             /\ sync'.mirror.revision = store'.revision => sync'.mirror = Render'
  <2>1. /\ sync'.mirror.revision <= store.revision
        /\ sync'.mirror.revision = store.revision => sync'.mirror = Render
    <3>1. CASE sync.phase # "idle" /\ sync'.mirror = sync.mirror
      BY <3>1 DEF Sparing
    <3>2. CASE mirror # NoMirror /\ sync'.mirror = mirror
      <4>1. sync'.mirror = Render
        BY <3>2 DEF Sparing
      <4>2. Render.revision = store.revision /\ store.revision \in Nat
        BY DEF Render, TypeOK, SyncBases
      <4> QED
        BY <4>1, <4>2
    <3> QED
      BY <1>2, <3>1, <3>2, SyncSteps
  <2>2. CASE store' = store
    BY <2>1, <2>2, RenderKept
  <2>3. CASE store' # store
    <3>1. store'.revision = store.revision + 1
      <4>1. \A base \in SyncBases :
              [base EXCEPT !.revision = store.revision + 1].revision = store.revision + 1
        BY DEF SyncBases
      <4>2. store \in SyncBases /\ daemon.file \in Section
        BY DEF TypeOK
      <4>3. Adopt(daemon.file) \in SyncBases
        BY <4>2, AdoptParts
      <4>4. Explicit => \A values \in LiveValues : Edited(values) \in SyncBases
        BY <4>2, EditedParts, LiveValuesType DEF Explicit
      <4> QED
        BY <2>3, <4>1, <4>3, <4>4, StoreSteps
    <3>2. store.revision \in Nat
      BY DEF TypeOK, SyncBases
    <3>3. sync'.mirror.revision \in Nat
      <4>1. sync'.mirror \in Mirrors
        BY <1>2, NextTypeOK DEF TypeOK
      <4> QED
        BY <4>1 DEF Mirrors
    <3> QED
      BY <2>1, <3>1, <3>2, <3>3
  <2> QED
    BY <2>2, <2>3
<1>3. Spared(file, by)'
  <2>0. Spared(file, by)
    BY DEF Sparing
  <2>1. CASE <<file, by>>' # <<file, by>>
    <3>1. store' = store
      BY <2>1, FileSteps
    <3>2. store.conflicts \subseteq Entries
      BY DEF TypeOK, SyncBases
    <3> SUFFICES ASSUME NEW e \in store.conflicts, by'[e] = "unattended",
                        Adversary \in store.live.of[e], Adversary \notin store.base.of[e]
                 PROVE  Adversary \in file'.of[e] \/ file'.of[e] = store.base.of[e]
      BY <3>1 DEF Spared
    <3>3. \/ by[e] = "unattended" /\ file'.of[e] = file.of[e]
          \/ file'.of[e] = store.live.of[e]
      BY <2>1, <3>2, WrittenEntry
    <3> QED
      BY <2>0, <3>3 DEF Spared
  <2>2. CASE UNCHANGED <<file, by>> /\ store' = store
    BY <2>0, <2>2 DEF Spared
  <2>3. CASE UNCHANGED <<file, by>> /\ store' # store /\ Merging
    BY <2>3, MergeSpares
  <2>4. CASE UNCHANGED <<file, by>> /\ store' # store /\ ~Merging
    <3>1. PICK values \in LiveValues :
            /\ Explicit
            /\ store' = [Edited(values) EXCEPT !.revision = store.revision + 1]
      BY <2>4, StoreSteps
    <3>2. store \in SyncBases /\ Present(store.live) /\ values \in Listings
      BY <3>1, LiveValuesType DEF TypeOK, Explicit
    <3>3. /\ store'.base = store.base /\ store'.live.of = values
          /\ store'.conflicts = store.conflicts \ {e \in Entries : values[e] # store.live.of[e]}
      BY <3>1, <3>2, EditedParts, Renumbered
    <3>4. store.conflicts \subseteq Entries
      BY <3>2 DEF SyncBases
    <3> QED
      BY <2>0, <2>4, <3>3, <3>4 DEF Spared
  <2> QED
    BY <2>1, <2>2, <2>3, <2>4
<1>4. ASSUME Merging'
      PROVE  /\ Spared(daemon.file, daemon.by)'
             /\ \A e \in Entries : by'[e] = "unattended" =>
                  file'.of[e] \in {daemon'.file.of[e], store'.live.of[e]}
  <2>1. store' = store
    BY <1>4, LoadSteps
  <2>2. CASE daemon'.file = file /\ daemon'.by = by /\ UNCHANGED <<file, by>>
    BY <2>1, <2>2 DEF Sparing, Spared
  <2>3. CASE Merging /\ UNCHANGED daemon
    <3>1. Spared(daemon.file, daemon.by)'
      BY <2>1, <2>3 DEF Sparing, Spared
    <3>2. ASSUME NEW e \in Entries, by'[e] = "unattended"
          PROVE  file'.of[e] \in {daemon.file.of[e], store.live.of[e]}
      <4>1. CASE <<file, by>>' = <<file, by>>
        BY <2>3, <3>2, <4>1 DEF Sparing
      <4>2. CASE <<file, by>>' # <<file, by>>
        BY <2>3, <3>2, <4>2, WrittenEntry DEF Sparing
      <4> QED
        BY <4>1, <4>2
    <3> QED
      BY <2>1, <2>3, <3>1, <3>2
  <2> QED
    BY <1>4, <2>2, <2>3, LoadSteps
<1> QED
  BY <1>1, <1>2, <1>3, <1>4 DEF Sparing

\* A containment the file does not have is merged away only when its conflict is listed and
\* root, a sync at a terminal or an overtaken one changed the entry: never by an unattended
\* sync of what is stored, for every set of entries and every number of edits and failures.
THEOREM ReleasesStayDeliberate == Spec => ReleaseIsDeliberate
<1> DEFINE A ==
      \A e \in Entries :
        /\ Merging
        /\ Adversary \in store.live.of[e] \ store.base.of[e]
        /\ Adversary \notin store'.live.of[e]
        => /\ e \in store.conflicts
           /\ daemon.by[e] # "unattended"
           /\ daemon.file.of[e] # store.base.of[e]
<1>1. Init => StoreSafe /\ Sparing
  <2> SUFFICES ASSUME Init PROVE StoreSafe /\ Sparing
    OBVIOUS
  <2>1. StoreSafe
    BY DEF Init, StoreSafe, ExplicitAgree, ConflictsFailClosed
  <2>2. store.conflicts = {} /\ mirror = Render /\ sync.phase = "idle" /\ ~Merging
    BY DEF Init, NoSync, Quiet, Merging
  <2> QED
    BY <2>1, <2>2 DEF Sparing, Spared
<1>2. TypeOK /\ StoreSafe /\ Sparing /\ [Next]_vars => [A]_vars
  <2> SUFFICES ASSUME TypeOK, StoreSafe, Sparing, [Next]_vars, NEW e \in Entries, Merging,
                      Adversary \in store.live.of[e], Adversary \notin store.base.of[e],
                      Adversary \notin store'.live.of[e]
               PROVE  /\ e \in store.conflicts
                      /\ daemon.by[e] # "unattended"
                      /\ daemon.file.of[e] # store.base.of[e]
    OBVIOUS
  <2>1. store'.live.of[e] = MergedValue(daemon.file, e)
    BY MergeStepEntry
  <2>2. /\ e \in store.conflicts
        /\ daemon.file.of[e] # store.base.of[e]
        /\ Adversary \notin daemon.file.of[e]
    BY <2>1 DEF MergedValue, EntryValue, Safe
  <2>3. Spared(daemon.file, daemon.by)
    BY DEF Sparing
  <2> QED
    BY <2>2, <2>3 DEF Spared
<1>3. TypeOK /\ StoreSafe /\ Sparing /\ [Next]_vars => Sparing'
  BY NextSparing
<1> QED
  BY <1>1, <1>2, <1>3, TypeCorrect, NextStoreSafe, PTL DEF Spec, ReleaseIsDeliberate
=============================================================================
