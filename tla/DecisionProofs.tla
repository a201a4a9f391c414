--------------------------- MODULE DecisionProofs ---------------------------
(***************************************************************************)
(* What the decision guarantees for every policy, subject, path and        *)
(* request: a recursive delete is permitted only where every descendant's  *)
(* would be, denies and limits only tighten, the site's denies are a       *)
(* floor, containment shuts everything, and content above the ceiling      *)
(* never passes. And of the identity layer it reads, over every series of  *)
(* loads: containments end only on purpose.                                *)
(***************************************************************************)
EXTENDS Identity, WellFoundedInduction, TLAPS

-----------------------------------------------------------------------------
(* Globs *)

\* A non-empty set of naturals has a least element.
LEMMA LeastNat ==
  ASSUME NEW T, T \subseteq Nat, T # {}
  PROVE  \E x \in T : \A y \in T : ~(y < x)
<1>1. \E x \in T : \A y \in T : <<y, x>> \notin OpToRel(<, Nat)
  BY WFMin, NatLessThanWellFounded
<1> QED
  BY <1>1 DEF OpToRel

\* A function that starts at a and grows by one through k steps is a + i.
LEMMA StepsAdd ==
  ASSUME NEW n \in Nat, NEW k \in 0..n, NEW a \in Nat, NEW f \in [0..n -> Nat],
         f[0] = a, \A i \in 1..k : f[i] = f[i - 1] + 1
  PROVE  \A i \in 0..k : f[i] = a + i
<1> DEFINE T == { i \in 0..k : f[i] # a + i }
<1>1. SUFFICES ASSUME T # {} PROVE FALSE
  OBVIOUS
<1>2. PICK x \in T : \A y \in T : ~(y < x)
  <2>1. T \subseteq Nat
    OBVIOUS
  <2> HIDE DEF T
  <2> QED BY <1>1, <2>1, LeastNat
<1>3. x # 0 /\ x \in 1..k /\ x - 1 \in 0..k
  OBVIOUS
<1>4. f[x - 1] = a + (x - 1)
  BY <1>2, <1>3
<1> QED
  BY <1>3, <1>4

\* A literal prefix and "**" accept every path at or below a root that has
\* the prefix.
LEMMA CoversMatches ==
  ASSUME NEW glob \in PathGlob, NEW home \in Seq(Name), NEW root \in Seq(Name),
         NEW path \in Seq(Name), starts_with(path, root), covers_subtree(glob, root, home)
  PROVE  matches(glob, path, home)
<1> DEFINE b   == base(glob, home)
           seg == glob.segments
           n   == Len(seg)
           at  == [i \in 0..n |-> IF i < n THEN Len(b) + i ELSE Len(path)]
<1>1. b \in Seq(Name) /\ seg \in Seq(GlobSeg) /\ n \in Nat /\ Len(b) \in Nat
      /\ Len(path) \in Nat /\ Len(root) \in Nat
  BY DEF base, PathGlob
<1>2. /\ n > 0 /\ seg[n].deep /\ starts_with(root, b) /\ Len(b) + n - 1 <= Len(root)
      /\ \A i \in 1..(n - 1) : ~seg[i].deep /\ root[Len(b) + i] = seg[i].text
  BY DEF covers_subtree
<1>3. Len(root) <= Len(path) /\ \A i \in 1..Len(root) : path[i] = root[i]
  BY DEF starts_with
<1> HIDE DEF b, seg, n
<1>4. starts_with(path, b)
  <2>1. Len(b) <= Len(root) /\ \A i \in 1..Len(b) : root[i] = b[i]
    BY <1>2 DEF starts_with
  <2>2. ASSUME NEW i \in 1..Len(b) PROVE path[i] = b[i]
    <3>1. i \in 1..Len(root)
      BY <1>1, <2>1
    <3> QED BY <1>3, <2>1, <3>1
  <2>3. Len(b) <= Len(path)
    BY <1>1, <1>3, <2>1
  <2> QED BY <2>2, <2>3 DEF starts_with
<1>5. at \in [0..n -> Len(b)..Len(path)] /\ at[0] = Len(b) /\ at[n] = Len(path)
  BY <1>1, <1>2, <1>3
<1>6. ASSUME NEW i \in 1..n
      PROVE  IF seg[i].deep THEN at[i] >= at[i - 1]
             ELSE at[i] = at[i - 1] + 1 /\ path[at[i]] \in seg[i].names
  <2>1. CASE i = n
    BY <1>1, <1>2, <1>3, <2>1
  <2>2. CASE i # n
    <3>1. i \in 1..(n - 1) /\ at[i] = Len(b) + i /\ at[i - 1] = Len(b) + (i - 1)
      BY <1>1, <2>2
    <3>2. path[Len(b) + i] = seg[i].text
      <4>1. Len(b) + i \in 1..Len(root)
        BY <1>1, <1>2, <3>1
      <4> QED BY <1>2, <1>3, <3>1, <4>1
    <3>3. seg[i] \in GlobSeg
      BY <1>1 DEF n
    <3>4. seg[i].text \in seg[i].names
      BY <3>3 DEF GlobSeg
    <3>5. at[i] = at[i - 1] + 1
      BY <1>1, <3>1
    <3>6. ~seg[i].deep
      BY <1>2, <3>1
    <3> HIDE DEF at
    <3> QED
      BY <3>1, <3>2, <3>4, <3>5, <3>6
  <2> QED
    BY <2>1, <2>2
<1>7. match_segs(seg, path, Len(b))
  <2> HIDE DEF at
  <2> QED BY <1>5, <1>6 DEF match_segs, n
<1> QED
  BY <1>4, <1>7 DEF matches, b, seg

\* A glob that accepts some path at or below a root is not told apart from
\* the root's subtree.
LEMMA MatchesIntersects ==
  ASSUME NEW glob \in PathGlob, NEW home \in Seq(Name), NEW root \in Seq(Name),
         NEW path \in Seq(Name), starts_with(path, root), matches(glob, path, home)
  PROVE  may_intersect_subtree(glob, root, home)
<1> DEFINE b   == base(glob, home)
           seg == glob.segments
           n   == Len(seg)
<1>1. b \in Seq(Name) /\ seg \in Seq(GlobSeg) /\ n \in Nat /\ Len(b) \in Nat
      /\ Len(path) \in Nat /\ Len(root) \in Nat
  BY DEF base, PathGlob
<1>2. Len(root) <= Len(path) /\ \A i \in 1..Len(root) : path[i] = root[i]
  BY DEF starts_with
<1>3. starts_with(path, b) /\ match_segs(seg, path, Len(b))
  BY DEF matches
<1>4. PICK at \in [0..n -> Len(b)..Len(path)] :
        /\ at[0] = Len(b)
        /\ \A i \in 1..n : IF seg[i].deep THEN at[i] >= at[i - 1]
                           ELSE at[i] = at[i - 1] + 1 /\ path[at[i]] \in seg[i].names
  BY <1>3 DEF match_segs
<1> HIDE DEF b, seg, n
<1>5. ASSUME NEW i \in 1..n, \A j \in 1..i : ~seg[j].deep /\ ~seg[j].wild,
             Len(b) + i <= Len(root)
      PROVE  seg[i].text = root[Len(b) + i]
  <2>1. at \in [0..n -> Nat]
    BY <1>1, <1>4
  <2>2. ASSUME NEW j \in 1..i PROVE at[j] = at[j - 1] + 1
    <3>1. j \in 1..n /\ ~seg[j].deep
      BY <1>1, <1>5
    <3> QED BY <1>4, <3>1
  <2>3. at[i] = Len(b) + i
    <3>1. i \in 0..n /\ i \in 0..i
      BY <1>1, <1>5
    <3> QED BY <1>1, <1>4, <2>1, <2>2, <3>1, StepsAdd
  <2>4. seg[i] \in GlobSeg /\ ~seg[i].wild /\ ~seg[i].deep
    BY <1>1, <1>5 DEF n
  <2>5. seg[i].names = {seg[i].text}
    BY <2>4 DEF GlobSeg
  <2>6. path[at[i]] = seg[i].text
    BY <1>4, <2>4, <2>5
  <2>7. Len(b) + i \in 1..Len(root)
    BY <1>1, <1>5
  <2> QED
    BY <1>2, <2>3, <2>6, <2>7
<1>6. \A i \in 1..Len(b) : i <= Len(root) => b[i] = root[i]
  BY <1>1, <1>2, <1>3 DEF starts_with
<1> QED
  BY <1>5, <1>6 DEF may_intersect_subtree, b, seg, n

-----------------------------------------------------------------------------
(* Verdicts *)

Verdicts == {permit_with_audit, Deny, NotApplicable, Indeterminate}

\* The kernel enforces a permit.
permits(lp, principal, ceiling, panics, req) ==
  Composition_decide(lp, principal, ceiling, panics, req).is = "Permit"

LEMMA Match3Values ==
  ASSUME NEW u, NEW d, NEW a
  PROVE  Match3(u, d, a) \in {"HomeUnbound", "DenyMatch", "AllowMatch", "NoMatch"}
BY DEF Match3

LEMMA FsVerdict ==
  ASSUME NEW lp, NEW req, NEW scope, NEW entry
  PROVE  decide_fs(lp, req, scope, entry) \in Verdicts
<1> DEFINE matched == IF scope = "WriteSubtree"
                 THEN evaluate_write_subtree_floored(lp.policy, entry, req.path, req.home)
                 ELSE evaluate3_floored(lp.policy, entry, scope, req.path, req.home)
<1>1. matched \in {"HomeUnbound", "DenyMatch", "AllowMatch", "NoMatch"}
  BY Match3Values DEF evaluate_write_subtree_floored, evaluate3_floored
<1>2. decide_fs(lp, req, scope, entry) =
        IF ~req.pathOk THEN Indeterminate
        ELSE IF ~req.canonical THEN Deny
        ELSE IF ~req.homeOk THEN Indeterminate
        ELSE CASE matched = "HomeUnbound" -> Indeterminate
               [] matched = "DenyMatch"   -> Deny
               [] matched = "AllowMatch"  -> permit_with_audit
               [] matched = "NoMatch"     -> NotApplicable
  BY DEF decide_fs
<1> HIDE DEF matched
<1> QED
  BY <1>1, <1>2 DEF Verdicts

LEMMA BaselineVerdict ==
  ASSUME NEW lp, NEW principal, NEW req
  PROVE  decide_loaded(lp, principal, req) \in Verdicts
<1>1. ASSUME NEW role, NEW entry PROVE decide_role(lp, req, role, entry) \in Verdicts
  <2>1. decide_prompt(lp, req, role, entry) \in Verdicts
    BY DEF decide_prompt, Verdicts
  <2>2. decide_grant(lp, req.action) \in Verdicts
    BY DEF decide_grant, Verdicts
  <2>3. decide_fs(lp, req, attempt_scope(req), entry) \in Verdicts
    BY FsVerdict
  <2> QED
    BY <2>1, <2>2, <2>3 DEF decide_role, Verdicts
<1>2. kernel_decided(req) \in Verdicts
  BY DEF kernel_decided, Verdicts
<1>3. decide_role(lp, req, role_for(lp.roles, req.uid, principal), lp.subjects[req.uid]) \in Verdicts
  BY <1>1
<1> QED
  BY <1>2, <1>3 DEF decide_loaded, Verdicts

\* Two operands of which the second never permits: the fold permits exactly
\* when the first permits and the second has no objection.
LEMMA FoldOfTwo ==
  ASSUME NEW v \in Verdicts, NEW w \in {Deny, NotApplicable, Indeterminate}
  PROVE  finalize(combine(<<v, w>>)).is = "Permit" <=> v = permit_with_audit /\ w = NotApplicable
<1> DEFINE vs   == <<v, w>>
           some(kind) == v.is = kind \/ w.is = kind
           m    == UNION { vs[i].obligations : i \in DOMAIN vs }
<1>1. DOMAIN vs = {1, 2} /\ vs[1] = v /\ vs[2] = w
  OBVIOUS
<1>2. \A kind : (\E i \in DOMAIN vs : vs[i].is = kind) <=> some(kind)
  BY <1>1
<1>3. combine(vs) = IF some("Deny") \/ some("Indeterminate") THEN Deny
                    ELSE IF ~some("Permit") THEN NotApplicable
                    ELSE IF ObligationConflict(m) THEN Deny
                    ELSE Permit(m)
  <2> HIDE DEF vs
  <2> QED BY <1>2 DEF combine
<1>4. m = v.obligations \union w.obligations
  BY <1>1
<1> HIDE DEF vs, m
<1>5. CASE v = permit_with_audit /\ w = NotApplicable
  <2>1. v.is = "Permit" /\ w.is = "NotApplicable" /\ m = {audit_obligation}
    BY <1>4, <1>5 DEF permit_with_audit, Permit, NotApplicable
  <2>2. ~ObligationConflict(m)
    BY <2>1 DEF ObligationConflict
  <2>3. combine(vs) = Permit(m)
    BY <1>3, <2>1, <2>2
  <2> QED
    BY <1>5, <2>3 DEF finalize, Permit, vs
<1>6. CASE ~(v = permit_with_audit /\ w = NotApplicable)
  <2>1. some("Deny") \/ some("Indeterminate") \/ ~some("Permit")
    BY <1>6 DEF Verdicts, permit_with_audit, Permit, Deny, NotApplicable, Indeterminate
  <2>2. combine(vs) = Deny \/ combine(vs) = NotApplicable
    <3> HIDE DEF some
    <3> QED BY <1>3, <2>1
  <2>3. finalize(combine(vs)) = Deny
    BY <2>2 DEF finalize, Deny, NotApplicable
  <2> QED
    BY <1>6, <2>3 DEF Deny, vs
<1> QED
  BY <1>5, <1>6

\* The kernel permits exactly when no operand panics, the baseline permits
\* and the ceiling has no objection.
LEMMA ComposedPermit ==
  ASSUME NEW lp, NEW principal, NEW ceiling, NEW panics, NEW req
  PROVE  permits(lp, principal, ceiling, panics, req) <=>
           /\ "baseline" \notin panics /\ "ceiling" \notin panics
           /\ decide_loaded(lp, principal, req) = permit_with_audit
           /\ decide_ceiling(ceiling, req) = NotApplicable
<1> DEFINE v == guarded_decide("baseline" \in panics, decide_loaded(lp, principal, req))
           w == guarded_decide("ceiling" \in panics, decide_ceiling(ceiling, req))
<1>1. v \in Verdicts
  BY BaselineVerdict DEF guarded_decide, Verdicts
<1>2. w \in {Deny, NotApplicable, Indeterminate}
  BY DEF guarded_decide, decide_ceiling
<1>3. permits(lp, principal, ceiling, panics, req) <=> v = permit_with_audit /\ w = NotApplicable
  <2>1. permits(lp, principal, ceiling, panics, req) <=> finalize(combine(<<v, w>>)).is = "Permit"
    BY DEF permits, Composition_decide
  <2> HIDE DEF v, w
  <2> QED BY <1>1, <1>2, <2>1, FoldOfTwo
<1>4. Indeterminate # permit_with_audit /\ Indeterminate # NotApplicable
  <2>1. Indeterminate.is = "Indeterminate" /\ permit_with_audit.is = "Permit"
        /\ NotApplicable.is = "NotApplicable"
    BY DEF Indeterminate, permit_with_audit, Permit, NotApplicable
  <2> QED BY <2>1
<1> QED
  BY <1>3, <1>4 DEF guarded_decide

-----------------------------------------------------------------------------
(* Why the baseline permits *)

\* The path policy admits the attempt.
FsAdmits(lp, req, entry) ==
  /\ req.action \in FsTerms /\ attempt_scope(req) # "none"
  /\ req.pathOk /\ req.canonical /\ req.homeOk
  /\ IF attempt_scope(req) = "WriteSubtree"
     THEN evaluate_write_subtree_floored(lp.policy, entry, req.path, req.home) = "AllowMatch"
     ELSE evaluate3_floored(lp.policy, entry, attempt_scope(req), req.path, req.home) = "AllowMatch"

\* The role's grant, its destinations and the subject's models admit the prompt.
PromptAdmits(lp, req, role, entry) ==
  /\ req.action = "session.prompt"
  /\ "session.prompt" \in lp.grants[role].allow \ lp.grants[role].deny
  /\ req.destinationIs \notin {"mistyped", "absent"} /\ req.destination \in lp.destinations[role]
  /\ entry.listed => req.modelOk /\ req.model \in entry.models

\* The one reason a role's gates permit.
RoleAdmits(lp, req, role, entry) ==
  \/ role \in {"admin", "user"} /\ FsAdmits(lp, req, entry)
  \/ role \in {"admin", "user"} /\ PromptAdmits(lp, req, role, entry)
  \/ req.action = "liveness.ping"
  \/ role = "admin" /\ req.action = "admin.whoami"
  \/ /\ role = "admin" /\ req.action \in GrantableAdmin
     /\ req.action \in lp.grants["admin"].allow \ lp.grants["admin"].deny

LEMMA VerdictsDiffer ==
  /\ permit_with_audit # Deny /\ permit_with_audit # NotApplicable
  /\ permit_with_audit # Indeterminate /\ Deny # NotApplicable
<1>1. /\ permit_with_audit.is = "Permit" /\ Deny.is = "Deny"
      /\ NotApplicable.is = "NotApplicable" /\ Indeterminate.is = "Indeterminate"
  BY DEF permit_with_audit, Permit, Deny, NotApplicable, Indeterminate
<1> QED
  BY <1>1

LEMMA ClassFacts ==
  ASSUME NEW a
  PROVE  /\ class_of(a) = "Liveness" <=> a = "liveness.ping"
         /\ class_of(a) = "Kernel" <=> a \in {"kernel.contain", "kernel.session.terminate"}
BY DEF class_of, GrantableAdmin, FsTerms

LEMMA FsPermit ==
  ASSUME NEW lp, NEW req, NEW entry, req.action \in FsTerms, attempt_scope(req) # "none"
  PROVE  decide_fs(lp, req, attempt_scope(req), entry) = permit_with_audit
           <=> FsAdmits(lp, req, entry)
<1> DEFINE scope == attempt_scope(req)
           matched == IF scope = "WriteSubtree"
                 THEN evaluate_write_subtree_floored(lp.policy, entry, req.path, req.home)
                 ELSE evaluate3_floored(lp.policy, entry, scope, req.path, req.home)
<1>1. matched \in {"HomeUnbound", "DenyMatch", "AllowMatch", "NoMatch"}
  BY Match3Values DEF evaluate_write_subtree_floored, evaluate3_floored
<1>2. decide_fs(lp, req, scope, entry) =
        IF ~req.pathOk THEN Indeterminate
        ELSE IF ~req.canonical THEN Deny
        ELSE IF ~req.homeOk THEN Indeterminate
        ELSE CASE matched = "HomeUnbound" -> Indeterminate
               [] matched = "DenyMatch"   -> Deny
               [] matched = "AllowMatch"  -> permit_with_audit
               [] matched = "NoMatch"     -> NotApplicable
  BY DEF decide_fs
<1>3. FsAdmits(lp, req, entry) <=>
        req.pathOk /\ req.canonical /\ req.homeOk /\ matched = "AllowMatch"
  BY DEF FsAdmits
<1> HIDE DEF matched, scope
<1>4. decide_fs(lp, req, scope, entry) = permit_with_audit <=> FsAdmits(lp, req, entry)
  BY <1>1, <1>2, <1>3, VerdictsDiffer
<1> QED
  BY <1>4 DEF scope

LEMMA RolePermit ==
  ASSUME NEW lp, NEW req, NEW role, NEW entry
  PROVE  decide_role(lp, req, role, entry) = permit_with_audit <=> RoleAdmits(lp, req, role, entry)
<1>1. decide_prompt(lp, req, role, entry) = permit_with_audit <=>
        /\ "session.prompt" \in lp.grants[role].allow \ lp.grants[role].deny
        /\ req.destinationIs \notin {"mistyped", "absent"}
        /\ req.destination \in lp.destinations[role]
        /\ entry.listed => req.modelOk /\ req.model \in entry.models
  BY VerdictsDiffer DEF decide_prompt, evaluate3_action, Match3
<1>2. decide_grant(lp, req.action) = permit_with_audit <=>
        req.action \in lp.grants["admin"].allow \ lp.grants["admin"].deny
  BY VerdictsDiffer DEF decide_grant, evaluate3_action, Match3
<1>3. CASE role \in {"admin", "user"} /\ req.action \in FsTerms
  <2>1. /\ req.action # "session.prompt" /\ req.action # "liveness.ping"
        /\ req.action # "admin.whoami" /\ req.action \notin GrantableAdmin
    BY <1>3 DEF FsTerms, GrantableAdmin
  <2>2. RoleAdmits(lp, req, role, entry) <=> FsAdmits(lp, req, entry)
    BY <1>3, <2>1 DEF RoleAdmits, PromptAdmits
  <2>3. CASE attempt_scope(req) = "none"
    BY <1>3, <2>2, <2>3, VerdictsDiffer DEF decide_role, FsAdmits
  <2>4. CASE attempt_scope(req) # "none"
    BY <1>3, <2>2, <2>4, FsPermit DEF decide_role
  <2> QED BY <2>3, <2>4
<1>4. CASE role \in {"admin", "user"} /\ req.action = "session.prompt"
  <2>1. req.action \notin FsTerms /\ req.action \notin GrantableAdmin
    BY <1>4 DEF FsTerms, GrantableAdmin
  <2>2. RoleAdmits(lp, req, role, entry) <=> PromptAdmits(lp, req, role, entry)
    BY <1>4, <2>1 DEF RoleAdmits, FsAdmits
  <2>3. decide_role(lp, req, role, entry) = decide_prompt(lp, req, role, entry)
    BY <1>4, <2>1 DEF decide_role
  <2> QED
    BY <1>1, <1>4, <2>2, <2>3 DEF PromptAdmits
<1>5. CASE /\ ~(role \in {"admin", "user"} /\ req.action \in FsTerms)
           /\ ~(role \in {"admin", "user"} /\ req.action = "session.prompt")
  <2>1. RoleAdmits(lp, req, role, entry) <=>
          \/ req.action = "liveness.ping"
          \/ role = "admin" /\ req.action = "admin.whoami"
          \/ /\ role = "admin" /\ req.action \in GrantableAdmin
             /\ req.action \in lp.grants["admin"].allow \ lp.grants["admin"].deny
    BY <1>5 DEF RoleAdmits, FsAdmits, PromptAdmits
  <2>2. req.action \in GrantableAdmin => req.action # "liveness.ping" /\ req.action # "admin.whoami"
    BY DEF GrantableAdmin
  <2> QED
    BY <1>2, <1>5, <2>1, <2>2, VerdictsDiffer, ClassFacts DEF decide_role
<1> QED
  BY <1>3, <1>4, <1>5

\* The baseline permits the kernel's own containment, and otherwise what the
\* role of a subject that is not contained admits within its limits.
LEMMA BaselinePermit ==
  ASSUME NEW lp, NEW principal, NEW req
  PROVE  decide_loaded(lp, principal, req) = permit_with_audit <=>
           /\ req.uidOk
           /\ \/ req.kernel /\ req.action = "kernel.contain"
              \/ /\ req.action \notin {"kernel.contain", "kernel.session.terminate"}
                 /\ role_for(lp.roles, req.uid, principal) \notin {"none", "adversary"}
                 /\ ~action_limit(lp.subjects[req.uid], req.action)
                 /\ RoleAdmits(lp, req, role_for(lp.roles, req.uid, principal),
                               lp.subjects[req.uid])
<1> DEFINE role  == role_for(lp.roles, req.uid, principal)
           entry == lp.subjects[req.uid]
<1>1. decide_role(lp, req, role, entry) = permit_with_audit <=> RoleAdmits(lp, req, role, entry)
  BY RolePermit
<1>2. kernel_decided(req) = permit_with_audit <=> req.kernel /\ req.action = "kernel.contain"
  BY VerdictsDiffer DEF kernel_decided
<1>3. class_of(req.action) = "Kernel" <=>
        req.action \in {"kernel.contain", "kernel.session.terminate"}
  BY ClassFacts
<1>4. decide_loaded(lp, principal, req) =
        IF ~req.uidOk THEN Indeterminate
        ELSE IF class_of(req.action) = "Kernel" THEN kernel_decided(req)
        ELSE IF role = "none" THEN NotApplicable
        ELSE IF role = "adversary" THEN Deny
        ELSE IF action_limit(entry, req.action) THEN Deny
        ELSE decide_role(lp, req, role, entry)
  BY DEF decide_loaded
<1> HIDE DEF role, entry
<1>5. decide_loaded(lp, principal, req) = permit_with_audit <=>
           /\ req.uidOk
           /\ \/ req.kernel /\ req.action = "kernel.contain"
              \/ /\ req.action \notin {"kernel.contain", "kernel.session.terminate"}
                 /\ role \notin {"none", "adversary"}
                 /\ ~action_limit(entry, req.action)
                 /\ RoleAdmits(lp, req, role, entry)
  BY <1>1, <1>2, <1>3, <1>4, VerdictsDiffer
<1> QED
  BY <1>5 DEF role, entry

-----------------------------------------------------------------------------
(* Recursive delete *)

LEMMA ListsTyped ==
  ASSUME NEW lp \in LoadedPolicy, NEW u \in Uid
  PROVE  lists(lp.policy, lp.subjects[u]) \in Lists
<1>1. lp.policy \in Lists /\ lp.subjects[u] \in SubjectEntry
  BY DEF LoadedPolicy
<1>2. lp.subjects[u].permissions \in Lists
  BY <1>1 DEF SubjectEntry
<1> QED
  BY <1>1, <1>2 DEF lists, Lists

\* What the subtree evaluation allows, the point evaluation allows for every
\* path of the subtree.
LEMMA SubtreeAllows ==
  ASSUME NEW site, NEW entry, lists(site, entry) \in Lists,
         NEW home \in Seq(Name), NEW root \in Seq(Name), NEW path \in Seq(Name),
         starts_with(path, root),
         evaluate_write_subtree_floored(site, entry, root, home) = "AllowMatch"
  PROVE  evaluate3_floored(site, entry, "Write", path, home) = "AllowMatch"
<1> DEFINE ls == lists(site, entry)
<1>1. /\ ~unbound_home(ls, "Write", home)
      /\ ~\E p \in ls.deny  : p.cap = "Write" /\ may_intersect_subtree(p.glob, root, home)
      /\ \E p \in ls.allow : p.cap = "Write" /\ covers_subtree(p.glob, root, home)
  BY DEF evaluate_write_subtree_floored, Match3
<1>2. \A p \in ls.deny \union ls.allow : p.glob \in PathGlob
  BY DEF Lists, Pattern
<1> HIDE DEF ls
<1>3. ~\E p \in ls.deny : p.cap = "Write" /\ matches(p.glob, path, home)
  BY <1>1, <1>2, MatchesIntersects
<1>4. \E p \in ls.allow : p.cap = "Write" /\ matches(p.glob, path, home)
  BY <1>1, <1>2, CoversMatches
<1> QED
  BY <1>1, <1>3, <1>4 DEF evaluate3_floored, Match3, ls

LEMMA RequestTyped ==
  ASSUME NEW req \in Request
  PROVE  /\ req.uid \in Uid /\ req.path \in Seq(Name) /\ req.home \in Seq(Name)
         /\ req.action \in Action
BY DEF Request

\* A recursive delete the kernel permits, it would permit entry by entry:
\* for every path at or below the root, the same request to delete that one
\* entry is permitted (evaluate_write_subtree_floored against
\* evaluate3_floored; denies by intersection, allows by cover).
THEOREM TreeDeleteCoversEveryEntry ==
  ASSUME NEW lp \in LoadedPolicy, NEW principal, NEW ceiling, NEW panics,
         NEW req \in Request, req.action = "fs.delete", req.operation = "delete-tree",
         permits(lp, principal, ceiling, panics, req),
         NEW path \in Seq(Name), starts_with(path, req.path)
  PROVE  permits(lp, principal, ceiling, panics,
                 [req EXCEPT !.operation = "delete-entry", !.path = path])
<1> DEFINE one   == [req EXCEPT !.operation = "delete-entry", !.path = path]
           entry == lp.subjects[req.uid]
           role  == role_for(lp.roles, req.uid, principal)
<1>1. /\ one.operation = "delete-entry" /\ one.path = path /\ one.action = "fs.delete"
      /\ one.uidOk = req.uidOk /\ one.uid = req.uid /\ one.kernel = req.kernel
      /\ one.local = req.local /\ one.preapproved = req.preapproved
      /\ one.pathOk = req.pathOk /\ one.canonical = req.canonical
      /\ one.homeOk = req.homeOk /\ one.home = req.home /\ one.marking = req.marking
  BY DEF Request
<1> HIDE DEF one
<1>2. /\ "baseline" \notin panics /\ "ceiling" \notin panics
      /\ decide_loaded(lp, principal, req) = permit_with_audit
      /\ decide_ceiling(ceiling, req) = NotApplicable
  BY ComposedPermit
<1>3. decide_ceiling(ceiling, one) = NotApplicable
  BY <1>1, <1>2 DEF decide_ceiling
<1>4. /\ req.uidOk /\ role \notin {"none", "adversary"}
      /\ ~action_limit(entry, req.action) /\ RoleAdmits(lp, req, role, entry)
  BY <1>2, BaselinePermit
<1>5. role \in {"admin", "user"} /\ FsAdmits(lp, req, entry)
  BY <1>4 DEF RoleAdmits, PromptAdmits, GrantableAdmin
<1>6. attempt_scope(req) = "WriteSubtree" /\ attempt_scope(one) = "Write"
  <2>1. req.local /\ ~req.preapproved
    BY <1>5 DEF FsAdmits, attempt_scope
  <2> QED BY <1>1, <2>1 DEF attempt_scope
<1>7. evaluate_write_subtree_floored(lp.policy, entry, req.path, req.home) = "AllowMatch"
  BY <1>5, <1>6 DEF FsAdmits
<1>8. evaluate3_floored(lp.policy, entry, "Write", path, req.home) = "AllowMatch"
  BY <1>7, RequestTyped, ListsTyped, SubtreeAllows
<1>9. FsAdmits(lp, one, entry)
  BY <1>1, <1>5, <1>6, <1>8 DEF FsAdmits
<1>10. RoleAdmits(lp, one, role, entry)
  BY <1>5, <1>9 DEF RoleAdmits
<1>11. decide_loaded(lp, principal, one) = permit_with_audit
  BY <1>1, <1>4, <1>10, BaselinePermit
<1>12. permits(lp, principal, ceiling, panics, one)
  BY <1>2, <1>3, <1>11, ComposedPermit
<1> QED
  BY <1>12 DEF one

-----------------------------------------------------------------------------
(* The site's denies are a floor *)

\* Nothing a site deny of the capability names is ever touched, whatever the
\* subject's own permissions say: not the path of a permitted read, write,
\* mkdir or delete, and no path below the root of a permitted recursive one.
THEOREM NothingDeniedIsTouched ==
  ASSUME NEW lp \in LoadedPolicy, NEW principal, NEW ceiling, NEW panics,
         NEW req \in Request, req.action \in FsTerms,
         permits(lp, principal, ceiling, panics, req),
         NEW p \in lp.policy.deny,
         p.cap = (IF req.action = "fs.read" THEN "Read" ELSE "Write"),
         NEW path \in Seq(Name), starts_with(path, req.path),
         req.operation = "delete-tree" \/ path = req.path
  PROVE  ~matches(p.glob, path, req.home)
<1> DEFINE entry == lp.subjects[req.uid]
           ls    == lists(lp.policy, entry)
           scope == attempt_scope(req)
<1>1. FsAdmits(lp, req, entry)
  <2>1. decide_loaded(lp, principal, req) = permit_with_audit
    BY ComposedPermit
  <2> QED
    BY <2>1, BaselinePermit DEF RoleAdmits, PromptAdmits, GrantableAdmin, FsTerms
<1>2. p \in ls.deny /\ p.glob \in PathGlob
  <2>1. lp.policy \in Lists
    BY DEF LoadedPolicy
  <2> QED BY <2>1 DEF lists, Lists, Pattern
<1>3. /\ scope \in {"Read", "Write", "WriteSubtree"}
      /\ scope = "WriteSubtree" <=> req.operation = "delete-tree"
      /\ scope # "WriteSubtree" => p.cap = scope
      /\ scope = "WriteSubtree" => p.cap = "Write"
  BY <1>1 DEF FsAdmits, attempt_scope, FsTerms
<1>4. CASE scope = "WriteSubtree"
  <2>1. evaluate_write_subtree_floored(lp.policy, entry, req.path, req.home) = "AllowMatch"
    BY <1>1, <1>4 DEF FsAdmits
  <2>2. ~may_intersect_subtree(p.glob, req.path, req.home)
    BY <1>2, <1>3, <1>4, <2>1 DEF evaluate_write_subtree_floored, Match3
  <2> QED
    BY <1>2, <2>2, RequestTyped, MatchesIntersects
<1>5. CASE scope # "WriteSubtree"
  <2>1. evaluate3_floored(lp.policy, entry, scope, req.path, req.home) = "AllowMatch"
    BY <1>1, <1>5 DEF FsAdmits
  <2>2. ~matches(p.glob, req.path, req.home)
    BY <1>2, <1>3, <1>5, <2>1 DEF evaluate3_floored, Match3
  <2> QED
    BY <1>3, <1>5, <2>2
<1> QED
  BY <1>4, <1>5

-----------------------------------------------------------------------------
(* Tightening a policy *)

\* More denies and fewer allows.  An allow that is anchored at the home stays:
\* while no home is bound its mere presence makes the evaluation fail, so its
\* removal can turn a refusal into a permit.
ListsTighten(new, old) ==
  /\ old.deny \subseteq new.deny
  /\ new.allow \subseteq old.allow
  /\ \A p \in old.allow \ new.allow : ~p.glob.home

\* A subjects: entry that adds or narrows limits.  Whether it has its own
\* permissions is the same: they replace the site's allows.
EntryTightens(new, old) ==
  /\ new.permitted = old.permitted
  /\ ListsTighten(new.permissions, old.permissions)
  /\ old.limited => /\ new.limited
                    /\ new.actions.allow \subseteq old.actions.allow
                    /\ old.actions.deny \subseteq new.actions.deny
  /\ old.listed => new.listed /\ new.models \subseteq old.models

PolicyTightens(new, old) ==
  /\ ListsTighten(new.policy, old.policy)
  /\ new.roles.explicit = old.roles.explicit
  /\ new.roles.binds = old.roles.binds
  /\ old.roles.contained \subseteq new.roles.contained
  /\ \A r \in Role : /\ new.grants[r].allow \subseteq old.grants[r].allow
                     /\ old.grants[r].deny \subseteq new.grants[r].deny
                     /\ new.destinations[r] \subseteq old.destinations[r]
  /\ \A u \in Uid : EntryTightens(new.subjects[u], old.subjects[u])

LEMMA ListsStayTight ==
  ASSUME NEW nsite, NEW osite, NEW nentry, NEW oentry,
         ListsTighten(nsite, osite), EntryTightens(nentry, oentry)
  PROVE  ListsTighten(lists(nsite, nentry), lists(osite, oentry))
BY DEF ListsTighten, EntryTightens, lists

\* Point and subtree evaluations allow no more under tighter lists.
LEMMA EvaluationTightens ==
  ASSUME NEW nsite, NEW osite, NEW nentry, NEW oentry, NEW cap, NEW path, NEW home,
         ListsTighten(lists(nsite, nentry), lists(osite, oentry))
  PROVE  /\ evaluate3_floored(nsite, nentry, cap, path, home) = "AllowMatch" =>
              evaluate3_floored(osite, oentry, cap, path, home) = "AllowMatch"
         /\ evaluate_write_subtree_floored(nsite, nentry, path, home) = "AllowMatch" =>
              evaluate_write_subtree_floored(osite, oentry, path, home) = "AllowMatch"
<1> DEFINE nl == lists(nsite, nentry)
           ol == lists(osite, oentry)
<1>1. ol.deny \subseteq nl.deny /\ nl.allow \subseteq ol.allow
      /\ \A p \in ol.allow \ nl.allow : ~p.glob.home
  BY DEF ListsTighten
<1> HIDE DEF nl, ol
<1>2. ASSUME NEW c, ~unbound_home(nl, c, home) PROVE ~unbound_home(ol, c, home)
  BY <1>1, <1>2 DEF unbound_home
<1>3. ASSUME evaluate3_floored(nsite, nentry, cap, path, home) = "AllowMatch"
      PROVE  evaluate3_floored(osite, oentry, cap, path, home) = "AllowMatch"
  <2>1. /\ ~unbound_home(nl, cap, home)
        /\ ~\E p \in nl.deny : p.cap = cap /\ matches(p.glob, path, home)
        /\ \E p \in nl.allow : p.cap = cap /\ matches(p.glob, path, home)
    BY <1>3 DEF evaluate3_floored, Match3, nl
  <2>2. /\ ~unbound_home(ol, cap, home)
        /\ ~\E p \in ol.deny : p.cap = cap /\ matches(p.glob, path, home)
        /\ \E p \in ol.allow : p.cap = cap /\ matches(p.glob, path, home)
    BY <1>1, <1>2, <2>1
  <2> QED
    BY <2>2 DEF evaluate3_floored, Match3, ol
<1>4. ASSUME evaluate_write_subtree_floored(nsite, nentry, path, home) = "AllowMatch"
      PROVE  evaluate_write_subtree_floored(osite, oentry, path, home) = "AllowMatch"
  <2>1. /\ ~unbound_home(nl, "Write", home)
        /\ ~\E p \in nl.deny  : p.cap = "Write" /\ may_intersect_subtree(p.glob, path, home)
        /\ \E p \in nl.allow : p.cap = "Write" /\ covers_subtree(p.glob, path, home)
    BY <1>4 DEF evaluate_write_subtree_floored, Match3, nl
  <2>2. /\ ~unbound_home(ol, "Write", home)
        /\ ~\E p \in ol.deny  : p.cap = "Write" /\ may_intersect_subtree(p.glob, path, home)
        /\ \E p \in ol.allow : p.cap = "Write" /\ covers_subtree(p.glob, path, home)
    BY <1>1, <1>2, <2>1
  <2> QED
    BY <2>2 DEF evaluate_write_subtree_floored, Match3, ol
<1> QED
  BY <1>3, <1>4

\* Tightening only removes permits: a deny added, a grant, destination or
\* action withdrawn, a limit or a model list added, a subject contained never
\* makes the kernel permit a request it refused before.
THEOREM TighteningOnlyRemoves ==
  ASSUME NEW new \in LoadedPolicy, NEW old \in LoadedPolicy, PolicyTightens(new, old),
         NEW principal, NEW ceiling, NEW panics, NEW req \in Request,
         permits(new, principal, ceiling, panics, req)
  PROVE  permits(old, principal, ceiling, panics, req)
<1> DEFINE ne == new.subjects[req.uid]
           oe == old.subjects[req.uid]
           nr == role_for(new.roles, req.uid, principal)
           or == role_for(old.roles, req.uid, principal)
<1>1. req.uid \in Uid
  BY RequestTyped
<1>2. EntryTightens(ne, oe)
  BY <1>1 DEF PolicyTightens
<1>3. decide_loaded(new, principal, req) = permit_with_audit
  BY ComposedPermit
<1>4. SUFFICES decide_loaded(old, principal, req) = permit_with_audit
  BY ComposedPermit
<1>5. CASE req.kernel /\ req.action = "kernel.contain"
  BY <1>3, <1>5, BaselinePermit
<1>6. CASE ~(req.kernel /\ req.action = "kernel.contain")
  <2>1. /\ req.uidOk /\ req.action \notin {"kernel.contain", "kernel.session.terminate"}
        /\ nr \notin {"none", "adversary"}
        /\ ~action_limit(ne, req.action) /\ RoleAdmits(new, req, nr, ne)
    BY <1>3, <1>6, BaselinePermit
  <2>2. or = nr
    BY <2>1 DEF PolicyTightens, role_for
  <2>3. nr \in Role
    <3>1. nr \in Bound
      BY <1>1 DEF role_for, LoadedPolicy, Roles, Bound, Role
    <3> QED BY <2>1, <3>1 DEF Bound
  <2> HIDE DEF ne, oe, nr, or
  <2>4. ~action_limit(oe, req.action)
    BY <1>2, <2>1 DEF EntryTightens, action_limit
  <2>5. FsAdmits(new, req, ne) => FsAdmits(old, req, oe)
    <3>1. ListsTighten(lists(new.policy, ne), lists(old.policy, oe))
      BY <1>2, ListsStayTight DEF PolicyTightens
    <3> QED
      BY <3>1, EvaluationTightens DEF FsAdmits
  <2>6. /\ new.grants[nr].allow \subseteq old.grants[nr].allow
        /\ old.grants[nr].deny \subseteq new.grants[nr].deny
        /\ new.destinations[nr] \subseteq old.destinations[nr]
    BY <2>3 DEF PolicyTightens
  <2>7. PromptAdmits(new, req, nr, ne) => PromptAdmits(old, req, nr, oe)
    BY <1>2, <2>6 DEF PromptAdmits, EntryTightens
  <2>8. RoleAdmits(old, req, nr, oe)
    BY <2>1, <2>5, <2>6, <2>7 DEF RoleAdmits
  <2> QED
    BY <2>1, <2>2, <2>4, <2>8, BaselinePermit DEF oe, or
<1> QED
  BY <1>5, <1>6

-----------------------------------------------------------------------------
(* Containment and the ceiling *)

\* A contained subject gets nothing but the kernel's own containment: with a
\* bindings section in the graph, no grant, no permission entry and no other
\* operand of the fold brings a permit back.
THEOREM ContainedIsShutOut ==
  ASSUME NEW lp \in LoadedPolicy, NEW principal, NEW ceiling, NEW panics, NEW req \in Request,
         lp.roles.explicit, req.uid \in lp.roles.contained,
         permits(lp, principal, ceiling, panics, req)
  PROVE  req.kernel /\ req.action = "kernel.contain"
<1>1. role_for(lp.roles, req.uid, principal) = "adversary"
  BY DEF role_for
<1> QED
  BY <1>1, ComposedPermit, BaselinePermit

\* A verdict that refuses, or a panic, anywhere in a list of operands refuses
\* the whole, whatever the others permit and however many they are.
LEMMA AnyRefusalRefuses ==
  ASSUME NEW verdicts, NEW i \in DOMAIN verdicts,
         verdicts[i].is \in {"Deny", "Indeterminate"}
  PROVE  finalize(combine(verdicts)) = Deny
<1>1. combine(verdicts) = Deny
  BY DEF combine
<1> QED
  BY <1>1 DEF finalize, Deny

\* Content marked above the booted ceiling, or marked in no way the system
\* knows, is never served, whatever the policy grants.
THEOREM NothingAboveTheCeiling ==
  ASSUME NEW lp \in LoadedPolicy, NEW principal, NEW ceiling \in Ceiling, NEW panics,
         NEW req \in Request, permits(lp, principal, ceiling, panics, req),
         req.action \in FsTerms \union {"session.prompt"}
  PROVE  /\ req.marking.kind # "refused"
         /\ req.marking.kind = "ranked" => req.marking.level <= ceiling.level
<1>1. decide_ceiling(ceiling, req) = NotApplicable
  BY ComposedPermit
<1>2. ~is_control_plane(req.action)
  BY DEF is_control_plane, class_of, FsTerms, GrantableAdmin
<1>3. req.marking.level \in Nat /\ ceiling.level \in Nat
  BY DEF Request, Marking, Ceiling
<1> QED
  BY <1>1, <1>2, <1>3, VerdictsDiffer DEF decide_ceiling

-----------------------------------------------------------------------------
(* The identity layer *)

\* A layer as build and extract leave it: every alias is a contained subject's,
\* and no name is said of two.
Sound(l) ==
  /\ l \in Layer
  /\ builds(l)
  /\ \A u \in Uid : l.own[u] # {} => l.held[u] = "adversary"
  /\ \A u, v \in Uid : \A a \in l.own[u] : a \in l.own[v] => u = v

LEMMA OptionOf ==
  ASSUME NEW S, NEW o \in Option(S)
  PROVE  /\ o \subseteq S
         /\ \A x \in o : o = {x}
BY DEF Option

LEMMA OptionIs ==
  ASSUME NEW S, NEW o, o \subseteq S, \A x, y \in o : x = y
  PROVE  o \in Option(S)
BY DEF Option

LEMMA LayerTyped ==
  ASSUME NEW l \in Layer
  PROVE  /\ l = [explicit |-> l.explicit, held |-> l.held, own |-> l.own, aliases |-> l.aliases]
         /\ l.explicit \in BOOLEAN /\ l.held \in [Uid -> Bound]
         /\ l.own \in [Uid -> Option(Account)] /\ l.aliases \in [Account -> Option(Uid)]
         /\ \A u \in Uid : l.own[u] \in Option(Account)
         /\ \A a \in Account : l.aliases[a] \in Option(Uid)
BY DEF Layer

\* A sound layer claims each name for one contained subject, and every own name.
LEMMA SoundClaims ==
  ASSUME NEW l, Sound(l)
  PROVE  /\ claims(l) \in [Account -> Option(Uid)]
         /\ \A a \in Account : \A u \in claims(l)[a] : u \in Uid /\ l.held[u] = "adversary"
         /\ \A u \in Uid : \A a \in l.own[u] : a \in Account /\ claims(l)[a] = {u}
<1>1. l \in Layer
  BY DEF Sound
<1>2. ASSUME NEW a \in Account
      PROVE  /\ claims(l)[a] \in Option(Uid)
             /\ \A u \in claims(l)[a] : u \in Uid /\ l.held[u] = "adversary"
  <2>1. l.aliases[a] \in Option(Uid)
    BY <1>1, LayerTyped
  <2>2. CASE l.aliases[a] # {}
    <3>1. claims(l)[a] = l.aliases[a]
      BY <2>2 DEF claims
    <3>2. \A u \in l.aliases[a] : u \in Uid /\ l.held[u] = "adversary"
      BY <2>1, OptionOf DEF Sound, builds
    <3> QED
      BY <2>1, <3>1, <3>2
  <2>3. CASE l.aliases[a] = {}
    <3>1. claims(l)[a] = {u \in Uid : l.held[u] = "adversary" /\ a \in l.own[u]}
      BY <2>3 DEF claims
    <3>2. \A x, y \in claims(l)[a] : x = y
      BY <3>1 DEF Sound
    <3> QED
      BY <3>1, <3>2, OptionIs
  <2> QED
    BY <2>2, <2>3
<1>3. claims(l) = [a \in Account |-> claims(l)[a]]
  BY DEF claims
<1>4. ASSUME NEW u \in Uid, NEW a \in l.own[u]
      PROVE  a \in Account /\ claims(l)[a] = {u}
  <2>1. a \in Account
    BY <1>1, <1>4, LayerTyped, OptionOf
  <2>2. l.held[u] = "adversary"
    BY <1>4 DEF Sound
  <2>3. l.aliases[a] = {}
    BY <1>1, <1>4, <2>1, <2>2 DEF Sound, builds
  <2>4. claims(l)[a] = {v \in Uid : l.held[v] = "adversary" /\ a \in l.own[v]}
    BY <2>1, <2>3 DEF claims
  <2>5. \A v \in claims(l)[a] : v = u
    BY <1>4, <2>4 DEF Sound
  <2> QED
    BY <1>4, <2>1, <2>2, <2>4, <2>5
<1> QED
  BY <1>2, <1>3, <1>4

\* with_claims stores claims that agree with the contained subjects and their own
\* names, and claims reads them back.
LEMMA ClaimsReadBack ==
  ASSUME NEW l \in Layer, NEW c \in [Account -> Option(Uid)],
         \A a \in Account : \A u \in c[a] : l.held[u] = "adversary",
         \A u \in Uid : l.own[u] # {} => l.held[u] = "adversary",
         \A u \in Uid : \A a \in l.own[u] : c[a] = {u}
  PROVE  /\ Sound(with_claims(l, c))
         /\ claims(with_claims(l, c)) = c
         /\ with_claims(l, c).held = l.held
         /\ with_claims(l, c).own = l.own
         /\ with_claims(l, c).explicit = l.explicit
<1> DEFINE w == with_claims(l, c)
           al == [a \in Account |-> {u \in c[a] : ~(l.held[u] = "adversary" /\ a \in l.own[u])}]
<1>1. w = [explicit |-> l.explicit, held |-> l.held, own |-> l.own, aliases |-> al]
  <2>1. w = [l EXCEPT !.aliases = al]
    BY DEF with_claims
  <2> HIDE DEF w, al
  <2> QED
    BY <2>1 DEF Layer
<1> HIDE DEF w
<1>2. \A a \in Account : al[a] \in Option(Uid) /\ al[a] \subseteq c[a]
  <2> TAKE a \in Account
  <2>1. c[a] \in Option(Uid)
    OBVIOUS
  <2>2. c[a] \subseteq Uid /\ \A x, y \in c[a] : x = y
    BY <2>1 DEF Option
  <2> QED
    BY <2>2, OptionIs
<1>3. al \in [Account -> Option(Uid)]
  BY <1>2
<1>4. w \in Layer
  BY <1>1, <1>3, LayerTyped DEF Layer
<1>5. ASSUME NEW a \in Account, NEW u \in Uid, a \in l.own[u]
      PROVE  al[a] = {}
  <2>1. c[a] = {u} /\ l.held[u] = "adversary"
    BY <1>5
  <2> QED
    BY <1>5, <2>1
<1>6. builds(w)
  <2> w.aliases = al /\ w.held = l.held /\ w.own = l.own
    BY <1>1
  <2> SUFFICES ASSUME NEW a \in Account, NEW u \in al[a]
               PROVE  /\ l.held[u] = "adversary"
                      /\ \A v \in Uid : ~(l.held[v] = "adversary" /\ a \in l.own[v])
    <3> HIDE DEF al
    <3> QED
      BY DEF builds
  <2>1. l.held[u] = "adversary"
    BY <1>2
  <2> QED
    BY <1>5, <2>1
<1>7. \A u, v \in Uid : \A a \in l.own[u] : a \in l.own[v] => u = v
  OBVIOUS
<1>8. Sound(w)
  BY <1>1, <1>4, <1>6, <1>7 DEF Sound
<1>9. ASSUME NEW a \in Account
      PROVE  claims(w)[a] = c[a]
  <2>1. claims(w)[a] = IF al[a] # {} THEN al[a]
                       ELSE {u \in Uid : l.held[u] = "adversary" /\ a \in l.own[u]}
    BY <1>1 DEF claims
  <2>2. CASE \E u \in Uid : a \in l.own[u]
    <3> PICK u \in Uid : a \in l.own[u]
      BY <2>2
    <3>1. al[a] = {} /\ c[a] = {u} /\ l.held[u] = "adversary"
      BY <1>5
    <3>2. \A v \in Uid : a \in l.own[v] => v = u
      BY <1>7
    <3> QED
      BY <2>1, <3>1, <3>2
  <2>3. CASE ~\E u \in Uid : a \in l.own[u]
    <3>1. c[a] \subseteq Uid
      BY DEF Option
    <3>2. al[a] = c[a]
      BY <2>3, <3>1
    <3> QED
      BY <2>1, <2>3, <3>2
  <2> QED
    BY <2>2, <2>3
<1>10. claims(w) = c
  <2>1. claims(w) = [a \in Account |-> claims(w)[a]]
    BY DEF claims
  <2> QED
    BY <1>9, <2>1
<1> QED
  BY <1>1, <1>8, <1>10 DEF w

LEMMA EffectiveTyped ==
  ASSUME NEW roles
  PROVE  /\ effective(roles) \in Bound
         /\ effective(roles) = "adversary" <=> "adversary" \in roles
<1>1. (\E r \in Role : roles = {r}) => (CHOOSE r \in Role : roles = {r}) \in Role
  OBVIOUS
<1>2. "adversary" \notin Role /\ "none" # "adversary"
  BY DEF Role
<1> QED
  BY <1>1, <1>2 DEF effective, Bound

\* A declared layer is sound and claims the adversary names that were found.
LEMMA DeclaredSound ==
  ASSUME NEW file \in Section, NEW lookup \in Lookups, NEW l \in Layer, Declares(file, lookup, l)
  PROVE  /\ Sound(l)
         /\ claims(l) = adversary_names(file, lookup)
         /\ \A u \in Uid : l.held[u] = "adversary" <=> "adversary" \in listed(file, lookup, u)
<1> DEFINE named == adversary_names(file, lookup)
           held  == [u \in Uid |-> effective(listed(file, lookup, u))]
           plain == [explicit |-> file.present, held |-> held, own |-> l.own, aliases |-> l.aliases]
<1>1. l = with_claims(plain, named)
  BY DEF Declares
<1>2. held \in [Uid -> Bound] /\ \A u \in Uid : held[u] = "adversary" <=> "adversary" \in listed(file, lookup, u)
  BY EffectiveTyped
<1>3. plain \in Layer
  <2> HIDE DEF held
  <2>1. file.present \in BOOLEAN
    BY DEF Section
  <2> QED
    BY <1>2, <2>1, LayerTyped DEF Layer
<1>4. \A a \in Account : lookup[a] \in Option(Uid) /\ lookup[a] \subseteq Uid /\ named[a] \subseteq lookup[a]
  BY OptionOf DEF Lookups, adversary_names
<1>5. named \in [Account -> Option(Uid)]
  <2>1. \A a \in Account : named[a] \in Option(Uid)
    BY <1>4 DEF adversary_names, Option
  <2> QED
    BY <2>1 DEF adversary_names
<1>6. ASSUME NEW a \in Account, NEW u \in named[a]
      PROVE  u \in Uid /\ held[u] = "adversary"
  <2>1. u \in lookup[a] /\ u \in Uid /\ "adversary" \in file.roles[a]
    BY <1>4, <1>6 DEF adversary_names
  <2>2. "adversary" \in UNION {file.roles[b] : b \in {b \in Account : u \in lookup[b]}}
    BY <2>1
  <2>3. "adversary" \in listed(file, lookup, u)
    BY <2>2 DEF listed
  <2> QED
    BY <1>2, <2>1, <2>3
<1>7. \A u \in Uid : \A a \in l.own[u] : a \in Account /\ u \in named[a]
  BY LayerTyped, OptionOf DEF Declares
<1>8. \A u \in Uid : \A a \in l.own[u] : named[a] = {u} /\ held[u] = "adversary"
  <2> HIDE DEF named, held
  <2> TAKE u \in Uid
  <2> TAKE a \in l.own[u]
  <2>1. a \in Account /\ u \in named[a]
    BY <1>7
  <2>2. named[a] \in Option(Uid)
    BY <1>5, <2>1
  <2> QED
    BY <1>6, <2>1, <2>2, OptionOf
<1> HIDE DEF named, held
<1>9. plain.held = held /\ plain.own = l.own
  OBVIOUS
<1> HIDE DEF plain
<1>10. /\ \A a \in Account : \A u \in named[a] : plain.held[u] = "adversary"
       /\ \A u \in Uid : plain.own[u] # {} => plain.held[u] = "adversary"
       /\ \A u \in Uid : \A a \in plain.own[u] : named[a] = {u}
  BY <1>6, <1>8, <1>9
<1>11. Sound(with_claims(plain, named)) /\ claims(with_claims(plain, named)) = named
       /\ with_claims(plain, named).held = plain.held
  BY <1>3, <1>5, <1>10, ClaimsReadBack
<1> QED
  BY <1>1, <1>2, <1>9, <1>11 DEF named

\* The parts of a carry: the names kept for a uid, the claims, the layer before them.
KeptFor(U, p) == [u \in Uid |-> {a \in U : u \in claims(p)[a]}]

ClaimsAfter(f, U, p) ==
  [a \in Account |-> IF a \in U /\ claims(p)[a] # {} THEN claims(p)[a] ELSE claims(f)[a]]

Taken(f, kept) == {u \in Uid : kept[u] # {} /\ f.held[u] # "adversary"}

Holding(f, kept) ==
  [f EXCEPT
     !.held = [u \in Uid |-> IF u \in Taken(f, kept) THEN "adversary" ELSE f.held[u]],
     !.own  = [u \in Uid |-> IF u \in Taken(f, kept) THEN {CHOOSE a \in kept[u] : TRUE} ELSE f.own[u]]]

LEMMA CarryParts ==
  ASSUME NEW f, NEW U, NEW p
  PROVE  carry_forward(f, U, p) = with_claims(Holding(f, KeptFor(U, p)), ClaimsAfter(f, U, p))
BY DEF carry_forward, Holding, Taken, KeptFor, ClaimsAfter

LEMMA HoldingIs ==
  ASSUME NEW f \in Layer, NEW kept
  PROVE  LET mid == Holding(f, kept) IN
         /\ mid.explicit = f.explicit
         /\ mid.held = [u \in Uid |-> IF u \in Taken(f, kept) THEN "adversary" ELSE f.held[u]]
         /\ mid.own = [u \in Uid |-> IF u \in Taken(f, kept) THEN {CHOOSE a \in kept[u] : TRUE}
                                    ELSE f.own[u]]
         /\ mid.aliases = f.aliases
         /\ mid = [explicit |-> mid.explicit, held |-> mid.held, own |-> mid.own, aliases |-> mid.aliases]
<1> DEFINE h == [u \in Uid |-> IF u \in Taken(f, kept) THEN "adversary" ELSE f.held[u]]
           o == [u \in Uid |-> IF u \in Taken(f, kept) THEN {CHOOSE a \in kept[u] : TRUE} ELSE f.own[u]]
           mid == Holding(f, kept)
<1>1. mid = [f EXCEPT !.held = h, !.own = o]
  BY DEF Holding
<1> HIDE DEF h, o, mid
<1>2. mid = [explicit |-> f.explicit, held |-> h, own |-> o, aliases |-> f.aliases]
  BY <1>1 DEF Layer
<1>3. /\ mid.explicit = f.explicit /\ mid.held = h /\ mid.own = o /\ mid.aliases = f.aliases
      /\ mid = [explicit |-> mid.explicit, held |-> mid.held, own |-> mid.own, aliases |-> mid.aliases]
  BY <1>2
<1> QED
  BY <1>3, Zenon DEF h, o, mid

\* Carrying forward keeps a layer sound, adds containments only, and claims what it says.
LEMMA CarrySound ==
  ASSUME NEW f, Sound(f), NEW p, Sound(p), NEW U, U \subseteq Account,
         \A a \in U : claims(f)[a] = {}
  PROVE  LET out == carry_forward(f, U, p) IN
         /\ Sound(out)
         /\ claims(out) = ClaimsAfter(f, U, p)
         /\ out.explicit = f.explicit
         /\ \A u \in Uid : out.held[u] = "adversary" <=>
              f.held[u] = "adversary" \/ \E a \in U : u \in claims(p)[a]
         /\ \A u \in Uid : out.held[u] # "adversary" => out.held[u] = f.held[u]
<1> DEFINE kept == KeptFor(U, p)
           mid  == Holding(f, kept)
           now  == ClaimsAfter(f, U, p)
<1>1. f \in Layer /\ p \in Layer
  BY DEF Sound
<1>2. /\ mid.explicit = f.explicit
      /\ mid.held = [u \in Uid |-> IF u \in Taken(f, kept) THEN "adversary" ELSE f.held[u]]
      /\ mid.own = [u \in Uid |-> IF u \in Taken(f, kept) THEN {CHOOSE a \in kept[u] : TRUE} ELSE f.own[u]]
      /\ mid.aliases = f.aliases
      /\ mid = [explicit |-> mid.explicit, held |-> mid.held, own |-> mid.own, aliases |-> mid.aliases]
  <2> HIDE DEF kept
  <2> QED
    BY <1>1, HoldingIs, Zenon
<1>3. /\ claims(p) \in [Account -> Option(Uid)]
      /\ \A a \in Account : \A u \in claims(p)[a] : u \in Uid /\ claims(p)[a] = {u}
  BY SoundClaims, OptionOf
<1>4. /\ claims(f) \in [Account -> Option(Uid)]
      /\ \A a \in Account : \A u \in claims(f)[a] : u \in Uid /\ f.held[u] = "adversary"
      /\ \A u \in Uid : \A a \in f.own[u] : a \in Account /\ claims(f)[a] = {u}
  BY SoundClaims
<1>5. \A u \in Uid : kept[u] = {a \in U : u \in claims(p)[a]}
  BY DEF KeptFor
<1> HIDE DEF kept, mid
<1>6. \A u \in Taken(f, kept) : u \in Uid /\ (CHOOSE a \in kept[u] : TRUE) \in kept[u] /\ f.held[u] # "adversary"
  BY DEF Taken
<1>7. mid \in Layer
  <2>1. mid.held \in [Uid -> Bound]
    BY <1>1, <1>2, LayerTyped DEF Bound
  <2>2. \A u \in Uid : mid.own[u] \in Option(Account)
    <3> TAKE u \in Uid
    <3>1. CASE u \in Taken(f, kept)
      <4>1. mid.own[u] = {CHOOSE a \in kept[u] : TRUE} /\ (CHOOSE a \in kept[u] : TRUE) \in Account
        BY <1>2, <1>5, <1>6, <3>1
      <4> QED
        BY <4>1, OptionIs
    <3>2. CASE u \notin Taken(f, kept)
      BY <1>1, <1>2, <3>2, LayerTyped
    <3> QED
      BY <3>1, <3>2
  <2>3. mid.own \in [Uid -> Option(Account)]
    BY <1>2, <2>2
  <2> QED
    BY <1>1, <1>2, <2>1, <2>3, LayerTyped DEF Layer
<1>8. now \in [Account -> Option(Uid)] /\ \A a \in Account : now[a] = IF a \in U /\ claims(p)[a] # {} THEN claims(p)[a] ELSE claims(f)[a]
  BY <1>3, <1>4 DEF ClaimsAfter
<1> HIDE DEF now
<1>9. \A u \in Uid : mid.held[u] = "adversary" <=>
        f.held[u] = "adversary" \/ \E a \in U : u \in claims(p)[a]
  <2> TAKE u \in Uid
  <2>1. u \in Taken(f, kept) <=> f.held[u] # "adversary" /\ \E a \in U : u \in claims(p)[a]
    BY <1>5 DEF Taken
  <2>2. mid.held[u] = IF u \in Taken(f, kept) THEN "adversary" ELSE f.held[u]
    BY <1>2
  <2> QED
    BY <2>1, <2>2
<1>10. \A a \in Account : \A u \in now[a] : mid.held[u] = "adversary"
  <2> TAKE a \in Account
  <2> TAKE u \in now[a]
  <2>1. CASE a \in U /\ claims(p)[a] # {}
    BY <1>3, <1>8, <1>9, <2>1
  <2>2. CASE ~(a \in U /\ claims(p)[a] # {})
    BY <1>4, <1>8, <1>9, <2>2
  <2> QED
    BY <2>1, <2>2
<1>11. ASSUME NEW u \in Uid, NEW a \in mid.own[u]
       PROVE  mid.held[u] = "adversary" /\ now[a] = {u}
  <2>1. CASE u \in Taken(f, kept)
    <3>1. a \in U /\ a \in Account /\ u \in claims(p)[a]
      BY <1>2, <1>5, <1>6, <1>11, <2>1
    <3> QED
      BY <1>3, <1>8, <1>9, <3>1
  <2>2. CASE u \notin Taken(f, kept)
    <3>1. a \in f.own[u]
      BY <1>2, <1>11, <2>2
    <3>2. a \in Account /\ claims(f)[a] = {u} /\ f.held[u] = "adversary"
      BY <1>4, <3>1 DEF Sound
    <3>3. a \notin U
      BY <3>2
    <3> QED
      BY <1>8, <1>9, <3>2, <3>3
  <2> QED
    BY <2>1, <2>2
<1>12. /\ Sound(with_claims(mid, now)) /\ claims(with_claims(mid, now)) = now
       /\ with_claims(mid, now).held = mid.held /\ with_claims(mid, now).explicit = mid.explicit
  <2>1. \A u \in Uid : mid.own[u] # {} => mid.held[u] = "adversary"
    BY <1>11
  <2>2. \A u \in Uid : \A a \in mid.own[u] : now[a] = {u}
    BY <1>11
  <2> QED
    BY <1>7, <1>8, <1>10, <2>1, <2>2, ClaimsReadBack
<1>13. carry_forward(f, U, p) = with_claims(mid, now)
  BY CarryParts DEF mid, now, kept
<1>14. \A u \in Uid : mid.held[u] # "adversary" => mid.held[u] = f.held[u]
  BY <1>2
<1> QED
  BY <1>2, <1>9, <1>12, <1>13, <1>14 DEF now

\* Carrying forward over what was carried forward changes nothing.
LEMMA CarryTwice ==
  ASSUME NEW f, Sound(f), NEW p, Sound(p), NEW U, U \subseteq Account,
         \A a \in U : claims(f)[a] = {}
  PROVE  carry_forward(f, U, carry_forward(f, U, p)) = carry_forward(f, U, p)
<1> DEFINE out == carry_forward(f, U, p)
<1>1. claims(out) = ClaimsAfter(f, U, p)
  BY CarrySound
<1> HIDE DEF out
<1>2. \A a \in U : claims(out)[a] = claims(p)[a]
  BY <1>1 DEF ClaimsAfter
<1>3. KeptFor(U, out) = KeptFor(U, p)
  BY <1>2 DEF KeptFor
<1>4. ClaimsAfter(f, U, out) = ClaimsAfter(f, U, p)
  <2>1. \A a \in Account : ClaimsAfter(f, U, out)[a] = ClaimsAfter(f, U, p)[a]
    BY <1>2 DEF ClaimsAfter
  <2>2. /\ ClaimsAfter(f, U, out) = [a \in Account |-> ClaimsAfter(f, U, out)[a]]
        /\ ClaimsAfter(f, U, p) = [a \in Account |-> ClaimsAfter(f, U, p)[a]]
    BY DEF ClaimsAfter
  <2> QED
    BY <2>1, <2>2
<1>5. carry_forward(f, U, out) = carry_forward(f, U, p)
  BY <1>3, <1>4, CarryParts
<1> QED
  BY <1>5 DEF out

LEMMA LoadFacts ==
  ASSUME NEW ld \in Loads
  PROVE  LET U == unresolved_adversaries(ld.file, ld.lookup) IN
         /\ ld.file \in Section /\ ld.lookup \in Lookups
         /\ Sound(ld.declared)
         /\ claims(ld.declared) = adversary_names(ld.file, ld.lookup)
         /\ \A u \in ld.file.uids : u \in Uid => ld.declared.held[u] = "adversary"
         /\ ld.declared.explicit = ld.file.present
         /\ U \subseteq Account
         /\ \A a \in U : claims(ld.declared)[a] = {}
<1>1. /\ ld.file \in Section /\ ld.lookup \in Lookups /\ ld.declared \in Layer
      /\ Declares(ld.file, ld.lookup, ld.declared)
  BY DEF Loads, Load
<1>2. /\ Sound(ld.declared)
      /\ claims(ld.declared) = adversary_names(ld.file, ld.lookup)
      /\ \A u \in Uid : ld.declared.held[u] = "adversary" <=> "adversary" \in listed(ld.file, ld.lookup, u)
  BY <1>1, DeclaredSound
<1>3. \A u \in ld.file.uids : "adversary" \in listed(ld.file, ld.lookup, u)
  BY DEF listed
<1>4. \A a \in unresolved_adversaries(ld.file, ld.lookup) :
        a \in Account /\ adversary_names(ld.file, ld.lookup)[a] = {}
  BY DEF unresolved_adversaries, adversary_names
<1>5. ld.declared.explicit = ld.file.present
  BY <1>1 DEF Declares, with_claims
<1> QED
  BY <1>1, <1>2, <1>3, <1>4, <1>5

LEMMA NextLayerSound ==
  ASSUME Sound(layer), NEW ld \in Loads
  PROVE  LET U == unresolved_adversaries(ld.file, ld.lookup) IN
         /\ Sound(next_layer(ld))
         /\ claims(next_layer(ld)) = ClaimsAfter(ld.declared, U, layer)
         /\ next_layer(ld).explicit = ld.file.present
         /\ \A u \in Uid : next_layer(ld).held[u] = "adversary" <=>
              ld.declared.held[u] = "adversary" \/ \E a \in U : u \in claims(layer)[a]
<1> DEFINE U == unresolved_adversaries(ld.file, ld.lookup)
<1>1. /\ Sound(ld.declared) /\ U \subseteq Account /\ \A a \in U : claims(ld.declared)[a] = {}
      /\ ld.declared.explicit = ld.file.present
  BY LoadFacts
<1> HIDE DEF U
<1>2. /\ Sound(carry_forward(ld.declared, U, layer))
      /\ claims(carry_forward(ld.declared, U, layer)) = ClaimsAfter(ld.declared, U, layer)
      /\ carry_forward(ld.declared, U, layer).explicit = ld.declared.explicit
      /\ \A u \in Uid : carry_forward(ld.declared, U, layer).held[u] = "adversary" <=>
              ld.declared.held[u] = "adversary" \/ \E a \in U : u \in claims(layer)[a]
  BY <1>1, CarrySound
<1>3. next_layer(ld) = carry_forward(ld.declared, U, layer)
  BY DEF next_layer, U
<1> QED
  BY <1>1, <1>2, <1>3 DEF U

LEMMA AlwaysSound == Spec => []Sound(layer)
<1>1. Init => Sound(layer)
  BY LoadFacts DEF Init
<1>2. Sound(layer) /\ [Next]_vars => Sound(layer)'
  <2> SUFFICES ASSUME Sound(layer), [Next]_vars PROVE Sound(layer)'
    OBVIOUS
  <2>1. ASSUME NEW ld \in Loads, NextLoad(ld) PROVE Sound(layer)'
    <3>1. Sound(next_layer(ld)) /\ layer' = next_layer(ld)
      BY <2>1, NextLayerSound DEF NextLoad
    <3> QED
      BY <3>1 DEF Sound, builds
  <2>2. ASSUME UNCHANGED vars PROVE Sound(layer)'
    BY <2>2 DEF vars, Sound, builds
  <2> QED
    BY <2>1, <2>2 DEF Next
<1> QED
  BY <1>1, <1>2, PTL DEF Spec

\* However often the host loses and finds accounts and root edits the section, the
\* next load is not refused by build's alias rule, nor by compile, which carries
\* forward once more over the graph just built and wants no difference.
THEOREM LoadsAlwaysGoThrough == Spec => []LoadsGoThrough
<1>1. Sound(layer) => LoadsGoThrough
  <2> SUFFICES ASSUME Sound(layer), NEW ld \in Loads
               PROVE  builds(next_layer(ld)) /\ compiles(ld, next_layer(ld))
    BY DEF LoadsGoThrough
  <2> DEFINE U == unresolved_adversaries(ld.file, ld.lookup)
  <2>1. builds(next_layer(ld))
    BY NextLayerSound DEF Sound
  <2>2. Sound(ld.declared) /\ U \subseteq Account /\ \A a \in U : claims(ld.declared)[a] = {}
    BY LoadFacts
  <2> HIDE DEF U
  <2>3. carry_forward(ld.declared, U, carry_forward(ld.declared, U, layer))
          = carry_forward(ld.declared, U, layer)
    BY <2>2, CarryTwice
  <2>4. compiles(ld, next_layer(ld))
    BY <2>3 DEF compiles, next_layer, U
  <2> QED
    BY <2>1, <2>4
<1> QED
  BY <1>1, AlwaysSound, PTL

\* A name listed under adversary keeps its uid contained, and its claim to it, over
\* every load that does not find the name at another uid.
THEOREM ClaimsAlwaysKept == Spec => ClaimsAreKept
<1> DEFINE Kept(a, u) ==
      (/\ u \in claims(layer)[a]
       /\ "adversary" \in load'.file.roles[a]
       /\ load'.lookup[a] \subseteq {u})
      => u \in claims(layer')[a] /\ u \in roles_of(layer').contained
<1>1. Sound(layer) /\ [Next]_vars => [\A a \in Account, u \in Uid : Kept(a, u)]_vars
  <2> SUFFICES ASSUME Sound(layer), NEW ld \in Loads, NextLoad(ld), NEW a \in Account, NEW u \in Uid,
                      u \in claims(layer)[a], "adversary" \in ld.file.roles[a], ld.lookup[a] \subseteq {u}
               PROVE  u \in claims(next_layer(ld))[a] /\ next_layer(ld).held[u] = "adversary"
    BY DEF Next, NextLoad, roles_of
  <2> DEFINE U == unresolved_adversaries(ld.file, ld.lookup)
  <2>1. claims(layer)[a] = {u}
    BY SoundClaims, OptionOf
  <2>2. /\ claims(next_layer(ld)) = ClaimsAfter(ld.declared, U, layer)
        /\ Sound(next_layer(ld))
    BY NextLayerSound
  <2>3. claims(ld.declared) = adversary_names(ld.file, ld.lookup)
    BY LoadFacts
  <2>4. a \in U <=> ld.lookup[a] = {}
    BY DEF unresolved_adversaries
  <2>5. claims(next_layer(ld))[a] = IF a \in U /\ claims(layer)[a] # {} THEN claims(layer)[a] ELSE claims(ld.declared)[a]
    BY <2>2 DEF ClaimsAfter
  <2> HIDE DEF U
  <2>6. claims(ld.declared)[a] = ld.lookup[a]
    BY <2>3 DEF adversary_names
  <2>7. u \in claims(next_layer(ld))[a]
    BY <2>1, <2>4, <2>5, <2>6
  <2> QED
    BY <2>2, <2>7, SoundClaims
<1>2. Spec => [][\A a \in Account, u \in Uid : Kept(a, u)]_vars
  BY <1>1, AlwaysSound, PTL DEF Spec
<1> QED
  BY <1>2 DEF ClaimsAreKept

\* The policy loaded from a layer permits a subject nothing but the kernel's containment.
ShutOut(l, u) ==
  \A lp \in LoadedPolicy, req \in Request : \A principal, ceiling, panics :
    (lp.roles = roles_of(l) /\ req.uid = u /\ permits(lp, principal, ceiling, panics, req))
      => req.kernel /\ req.action = "kernel.contain"

\* Deleting or renaming an adversary's account does not let it back in: while the
\* section lists a name that once resolved to a uid and the name is not found at
\* another, each load stores a graph under which the kernel permits that uid nothing
\* but its own containment, through every gate and the fold.
THEOREM ListedAdversaryStaysOut ==
  Spec => [][\A a \in Account, u \in Uid :
               (/\ u \in claims(layer)[a]
                /\ "adversary" \in load'.file.roles[a]
                /\ load'.lookup[a] \subseteq {u})
               => ShutOut(layer', u)]_vars
<1> DEFINE Listed(a, u) == /\ u \in claims(layer)[a]
                           /\ "adversary" \in load'.file.roles[a]
                           /\ load'.lookup[a] \subseteq {u}
           Kept(a, u) == Listed(a, u) => u \in claims(layer')[a] /\ u \in roles_of(layer').contained
           Out(a, u)  == Listed(a, u) => ShutOut(layer', u)
<1>1. ASSUME [Next]_vars, [\A a \in Account, u \in Uid : Kept(a, u)]_vars
      PROVE  [\A a \in Account, u \in Uid : Out(a, u)]_vars
  <2> SUFFICES ASSUME NEW ld \in Loads, layer' = next_layer(ld), load' = ld,
                      \A a \in Account, u \in Uid : Kept(a, u),
                      NEW a \in Account, NEW u \in Uid, Listed(a, u)
               PROVE  ShutOut(layer', u)
    BY <1>1 DEF Next, NextLoad
  <2>1. u \in roles_of(layer').contained
    OBVIOUS
  <2>2. ld.file.present
    BY DEF Loads
  <2>3. ld.declared.explicit
    BY <2>2 DEF Loads, Declares, with_claims
  <2>4. layer'.explicit
    BY <2>3 DEF next_layer, carry_forward, with_claims, Loads, Load, Layer
  <2>5. roles_of(layer').explicit
    BY <2>4 DEF roles_of
  <2> QED
    BY <2>1, <2>5, ContainedIsShutOut DEF ShutOut
<1>2. Spec => [][\A a \in Account, u \in Uid : Kept(a, u)]_vars
  BY ClaimsAlwaysKept DEF ClaimsAreKept
<1> QED
  BY <1>1, <1>2, PTL DEF Spec

\* A containment ends only on purpose and for the cause recorded: an account that is
\* gone releases nobody, and a name that moved is recorded as such.
THEOREM ReleasesAreDeliberate == Spec => ReleasedOnPurpose
<1> DEFINE Good(r) == /\ r.uid \notin load'.file.uids
                      /\ \A a \in StillListed(layer, load'.file, r.uid) :
                           load'.lookup[a] # {} /\ r.uid \notin load'.lookup[a]
                      /\ r.cause = "NameNowResolvesTo" <=> ~load'.live /\ StillListed(layer, load'.file, r.uid) # {}
<1>1. Sound(layer) /\ [Next]_vars => [\A r \in released(layer, layer', lists_nobody(load'.file), load'.live) : Good(r)]_vars
  <2> SUFFICES ASSUME Sound(layer), NEW ld \in Loads, layer' = next_layer(ld), load' = ld,
                      NEW r \in released(layer, layer', lists_nobody(ld.file), ld.live)
               PROVE  Good(r)
    BY DEF Next, NextLoad
  <2> DEFINE U     == unresolved_adversaries(ld.file, ld.lookup)
             moved == {a \in Account : r.uid \in claims(layer)[a] /\ claims(layer')[a] # {}}
  <2>1. /\ r.uid \in Uid /\ layer.held[r.uid] = "adversary" /\ layer'.held[r.uid] # "adversary"
        /\ r.cause = IF ld.live THEN "Live"
                     ELSE IF lists_nobody(ld.file) THEN "BindingsEmpty"
                     ELSE IF moved # {} THEN "NameNowResolvesTo"
                     ELSE IF layer'.held[r.uid] # "none" THEN "BoundAs"
                     ELSE "NotListed"
    BY DEF released
  <2>2. /\ claims(layer') = ClaimsAfter(ld.declared, U, layer)
        /\ ld.declared.held[r.uid] # "adversary"
        /\ \A a \in U : r.uid \notin claims(layer)[a]
    BY <2>1, NextLayerSound
  <2>3. r.uid \notin ld.file.uids
    BY <2>1, <2>2, LoadFacts
  <2>4. /\ claims(ld.declared) = adversary_names(ld.file, ld.lookup)
        /\ Sound(ld.declared)
    BY LoadFacts
  <2>5. ASSUME NEW a \in Account, r.uid \in claims(layer)[a]
        PROVE  /\ claims(layer')[a] = IF "adversary" \in ld.file.roles[a] THEN ld.lookup[a] ELSE {}
               /\ "adversary" \in ld.file.roles[a] => ld.lookup[a] # {} /\ r.uid \notin ld.lookup[a]
    <3>1. a \notin U
      BY <2>2, <2>5
    <3>2. claims(layer')[a] = claims(ld.declared)[a]
      BY <2>2, <3>1 DEF ClaimsAfter
    <3>3. claims(ld.declared)[a] = IF "adversary" \in ld.file.roles[a] THEN ld.lookup[a] ELSE {}
      BY <2>4 DEF adversary_names
    <3>4. r.uid \notin claims(ld.declared)[a]
      BY <2>2, <2>4, SoundClaims
    <3>5. "adversary" \in ld.file.roles[a] => ld.lookup[a] # {}
      BY <3>1 DEF unresolved_adversaries
    <3> QED
      BY <3>2, <3>3, <3>4, <3>5
  <2>6. moved = StillListed(layer, ld.file, r.uid)
    BY <2>5 DEF StillListed
  <2>7. lists_nobody(ld.file) => StillListed(layer, ld.file, r.uid) = {}
    BY DEF lists_nobody, StillListed
  <2>8. \A a \in StillListed(layer, ld.file, r.uid) : ld.lookup[a] # {} /\ r.uid \notin ld.lookup[a]
    BY <2>5 DEF StillListed
  <2> HIDE DEF moved
  <2>9. r.cause = "NameNowResolvesTo" <=> ~ld.live /\ StillListed(layer, ld.file, r.uid) # {}
    BY <2>1, <2>6, <2>7
  <2> QED
    BY <2>3, <2>8, <2>9
<1>2. Spec => [][\A r \in released(layer, layer', lists_nobody(load'.file), load'.live) : Good(r)]_vars
  BY <1>1, AlwaysSound, PTL DEF Spec
<1> QED
  BY <1>2 DEF ReleasedOnPurpose
=============================================================================
