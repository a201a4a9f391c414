------------------------------ MODULE Decision ------------------------------
(***************************************************************************)
(* The kernel's policy decision, a pure function of the loaded policy and  *)
(* one request: the discretionary baseline (maknae-authz-basic), the       *)
(* classification ceiling, and the fold that composes their verdicts       *)
(* (maknae-security).                                                      *)
(*                                                                         *)
(* Data.  A path and a home are sequences of names, the home empty when    *)
(* the request carries none that is valid.  A component pattern is its     *)
(* text with the set of names it accepts.  Lists of patterns, terms and    *)
(* obligations are sets: their order picks only which entry the audit      *)
(* record cites.  A verdict keeps its obligations and drops its wording.   *)
(***************************************************************************)
EXTENDS Integers, Sequences

CONSTANTS Uid,           \* user ids
          Name,          \* path components
          Destination,   \* egress destinations
          Model          \* provider/model pairs

-----------------------------------------------------------------------------
(* Path globs *)

\* A "**", or one component; a starless component accepts only its text, and
\* every component accepts its own text.
GlobSeg ==
  { s \in [deep : BOOLEAN, wild : BOOLEAN, text : Name, names : SUBSET Name] :
      /\ s.text \in s.names
      /\ ~s.wild => s.names = {s.text} }

PathGlob == [home : BOOLEAN, segments : Seq(GlobSeg)]
Pattern  == [cap : {"Read", "Write"}, glob : PathGlob]

base(glob, home) == IF glob.home THEN home ELSE <<>>

starts_with(comps, prefix) ==
  /\ Len(prefix) <= Len(comps)
  /\ \A i \in 1..Len(prefix) : comps[i] = prefix[i]

\* pat accepts comps[from..]: the components are cut into consecutive pieces,
\* at[i] being where the piece of pat[i] ends; a "**" takes any number of them
\* and a component pattern exactly one, which it accepts.
match_segs(pat, comps, from) ==
  \E at \in [0..Len(pat) -> from..Len(comps)] :
    /\ at[0] = from
    /\ at[Len(pat)] = Len(comps)
    /\ \A i \in 1..Len(pat) :
         IF pat[i].deep THEN at[i] >= at[i - 1]
         ELSE at[i] = at[i - 1] + 1 /\ comps[at[i]] \in pat[i].names

matches(glob, path, home) ==
  LET b == base(glob, home) IN
  starts_with(path, b) /\ match_segs(glob.segments, path, Len(b))

\* The grant side of a recursive delete: a literal prefix, then "**".
covers_subtree(glob, root, home) ==
  LET b == base(glob, home)
      n == Len(glob.segments)
  IN  /\ n > 0
      /\ glob.segments[n].deep
      /\ starts_with(root, b)
      /\ Len(b) + n - 1 <= Len(root)
      /\ \A i \in 1..(n - 1) : /\ ~glob.segments[i].deep
                               /\ root[Len(b) + i] = glob.segments[i].text

\* The deny side: only a conflict between fixed components shows that the
\* glob and the subtree are disjoint.
may_intersect_subtree(glob, root, home) ==
  LET b     == base(glob, home)
      fixed == { i \in 1..Len(glob.segments) :
                   \A j \in 1..i : ~glob.segments[j].deep /\ ~glob.segments[j].wild }
  IN  /\ \A i \in 1..Len(b) : i <= Len(root) => b[i] = root[i]
      /\ \A i \in fixed :
           Len(b) + i <= Len(root) => glob.segments[i].text = root[Len(b) + i]

-----------------------------------------------------------------------------
(* The permission lists *)

Lists == [allow : SUBSET Pattern, deny : SUBSET Pattern]

\* A subject's own set keeps the site's denies and replaces its allows.
lists(site, entry) ==
  IF entry.permitted
  THEN [deny |-> site.deny \union entry.permissions.deny, allow |-> entry.permissions.allow]
  ELSE site

\* Some "~" entry of the capability has no home to stand for.
unbound_home(ls, cap, home) ==
  home = <<>> /\ \E p \in ls.deny \union ls.allow : p.cap = cap /\ p.glob.home

\* Deny before allow, and neither when a "~" is unbound.
Match3(unbound, denied, allowed) ==
  IF unbound THEN "HomeUnbound"
  ELSE IF denied THEN "DenyMatch"
  ELSE IF allowed THEN "AllowMatch" ELSE "NoMatch"

evaluate3_floored(site, entry, cap, path, home) ==
  LET ls == lists(site, entry)
      matched(list) == \E p \in list : p.cap = cap /\ matches(p.glob, path, home)
  IN  Match3(unbound_home(ls, cap, home), matched(ls.deny), matched(ls.allow))

evaluate_write_subtree_floored(site, entry, root, home) ==
  LET ls == lists(site, entry)
  IN  Match3(unbound_home(ls, "Write", home),
             \E p \in ls.deny  : p.cap = "Write" /\ may_intersect_subtree(p.glob, root, home),
             \E p \in ls.allow : p.cap = "Write" /\ covers_subtree(p.glob, root, home))

-----------------------------------------------------------------------------
(* The action vocabulary.  The classes' unbuilt terms are each represented *)
(* by one of them, and a term no class holds by "unplaced".                *)

FsTerms        == {"fs.read", "fs.write", "fs.delete", "fs.mkdir"}
GrantableAdmin == {"admin.status", "admin.config.show", "admin.subject.list",
                   "admin.baseline.show", "admin.baseline.accept",
                   "admin.contain", "admin.release"}
Action == FsTerms \union GrantableAdmin \union
          {"liveness.ping", "admin.whoami", "admin.audit.tail", "session.prompt",
           "session.new", "fs.move", "terminal.create", "mcp.tool.call",
           "kernel.contain", "kernel.session.terminate", "unplaced"}

ActionVocabulary == FsTerms \union GrantableAdmin \union {"session.prompt"}

class_of(a) ==
  CASE a = "liveness.ping"                                             -> "Liveness"
    [] a \in GrantableAdmin \union {"admin.whoami", "admin.audit.tail"} -> "Admin"
    [] a \in {"session.prompt", "session.new"}                         -> "Session"
    [] a \in FsTerms \union {"fs.move"}                                -> "Fs"
    [] a = "terminal.create"                                           -> "Terminal"
    [] a = "mcp.tool.call"                                             -> "Mcp"
    [] a \in {"kernel.contain", "kernel.session.terminate"}            -> "Kernel"
    [] OTHER                                                           -> "None"

-----------------------------------------------------------------------------
(* The loaded policy and a request *)

Role  == {"admin", "user", "guest"}
Bound == Role \union {"adversary", "none"}

\* The identity layer: whether the bindings section is there, the role each
\* subject binds to, and the subjects with a contained edge.
Roles == [explicit : BOOLEAN, binds : [Uid -> Bound], contained : SUBSET Uid]

\* A subjects: entry; each flag says whether that key is present.
SubjectEntry ==
  [permitted : BOOLEAN, permissions : Lists,
   limited   : BOOLEAN, actions : [allow : SUBSET ActionVocabulary, deny : SUBSET ActionVocabulary],
   listed    : BOOLEAN, models  : SUBSET Model]

LoadedPolicy ==
  [policy       : Lists,
   roles        : Roles,
   grants       : [Role -> [allow : SUBSET Action, deny : SUBSET Action]],
   destinations : [Role -> SUBSET Destination],
   subjects     : [Uid -> SubjectEntry]]

FsOperation == {"write-existing", "write-create", "delete-entry", "delete-tree", "mkdir", "read"}
Marking     == [kind : {"absent", "ranked", "refused"}, level : Nat]

\* An attribute that is absent or has the wrong type is the matching state.
Request ==
  [uidOk : BOOLEAN, uid : Uid, kernel : BOOLEAN, action : Action,
   local : BOOLEAN, operation : FsOperation \union {"none"}, preapproved : BOOLEAN,
   pathOk : BOOLEAN, canonical : BOOLEAN, path : Seq(Name),
   homeOk : BOOLEAN, home : Seq(Name),
   destinationIs : {"absent", "mistyped", "given"}, destination : Destination,
   modelOk : BOOLEAN, model : Model,
   marking : Marking]

\* Containment is consulted before the binding, and neither without a section.
role_for(roles, uid, principal) ==
  IF ~roles.explicit THEN (IF uid = principal THEN "admin" ELSE "none")
  ELSE IF uid \in roles.contained THEN "adversary"
  ELSE roles.binds[uid]

-----------------------------------------------------------------------------
(* Verdicts *)

audit_obligation  == [id |-> "audit", params |-> "empty"]
Permit(os)        == [is |-> "Permit", obligations |-> os]
Deny              == [is |-> "Deny", obligations |-> {}]
NotApplicable     == [is |-> "NotApplicable", obligations |-> {}]
Indeterminate     == [is |-> "Indeterminate", obligations |-> {}]
permit_with_audit == Permit({audit_obligation})

-----------------------------------------------------------------------------
(* The baseline *)

\* A subject's actions list refuses the action; liveness, whoami and the
\* kernel's own actions are not limited.
action_limit(entry, action) ==
  /\ entry.limited
  /\ class_of(action) \notin {"Liveness", "Kernel", "None"}
  /\ action # "admin.whoami"
  /\ action \in entry.actions.deny \/ action \notin entry.actions.allow

kernel_decided(req) ==
  IF req.kernel /\ req.action = "kernel.contain" THEN permit_with_audit ELSE NotApplicable

\* The scope the kernel's preparation fits, "none" when it fits the action not.
attempt_scope(req) ==
  CASE ~req.local \/ req.preapproved                                    -> "none"
    [] OTHER ->
       CASE req.action = "fs.read"   /\ req.operation = "read"          -> "Read"
         [] req.action = "fs.write"  /\ req.operation \in {"write-existing", "write-create"}
                                                                        -> "Write"
         [] req.action = "fs.delete" /\ req.operation = "delete-entry"  -> "Write"
         [] req.action = "fs.mkdir"  /\ req.operation = "mkdir"         -> "Write"
         [] req.action = "fs.delete" /\ req.operation = "delete-tree"   -> "WriteSubtree"
         [] OTHER                                                       -> "none"

decide_fs(lp, req, scope, entry) ==
  LET matched == IF scope = "WriteSubtree"
                 THEN evaluate_write_subtree_floored(lp.policy, entry, req.path, req.home)
                 ELSE evaluate3_floored(lp.policy, entry, scope, req.path, req.home)
  IN  IF ~req.pathOk THEN Indeterminate
      ELSE IF ~req.canonical THEN Deny
      ELSE IF ~req.homeOk THEN Indeterminate
      ELSE CASE matched = "HomeUnbound" -> Indeterminate
             [] matched = "DenyMatch"   -> Deny
             [] matched = "AllowMatch"  -> permit_with_audit
             [] matched = "NoMatch"     -> NotApplicable

evaluate3_action(lp, role, action) ==
  Match3(FALSE, action \in lp.grants[role].deny, action \in lp.grants[role].allow)

decide_prompt(lp, req, role, entry) ==
  LET granted == evaluate3_action(lp, role, "session.prompt") IN
  IF granted = "DenyMatch" THEN Deny
  ELSE IF granted = "NoMatch" THEN NotApplicable
  ELSE IF req.destinationIs = "mistyped" THEN Indeterminate
  ELSE IF req.destinationIs = "absent" \/ req.destination \notin lp.destinations[role] THEN Deny
  ELSE IF entry.listed /\ ~req.modelOk THEN Indeterminate
  ELSE IF entry.listed /\ req.model \notin entry.models THEN Deny
  ELSE permit_with_audit

decide_grant(lp, action) ==
  LET granted == evaluate3_action(lp, "admin", action) IN
  IF granted = "DenyMatch" THEN Deny
  ELSE IF granted = "AllowMatch" THEN permit_with_audit ELSE NotApplicable

\* The gates of a role that is not the adversary's, past the subject's limit.
decide_role(lp, req, role, entry) ==
  IF role \in {"admin", "user"} /\ req.action \in FsTerms
  THEN IF attempt_scope(req) = "none" THEN Deny
       ELSE decide_fs(lp, req, attempt_scope(req), entry)
  ELSE IF role \in {"admin", "user"} /\ req.action = "session.prompt"
  THEN decide_prompt(lp, req, role, entry)
  ELSE IF class_of(req.action) = "Liveness" THEN permit_with_audit
  ELSE IF role = "admin" /\ req.action = "admin.whoami" THEN permit_with_audit
  ELSE IF role = "admin" /\ req.action \in GrantableAdmin THEN decide_grant(lp, req.action)
  ELSE NotApplicable

decide_loaded(lp, principal, req) ==
  LET role  == role_for(lp.roles, req.uid, principal)
      entry == lp.subjects[req.uid]
  IN  IF ~req.uidOk THEN Indeterminate
      ELSE IF class_of(req.action) = "Kernel" THEN kernel_decided(req)
      ELSE IF role = "none" THEN NotApplicable
      ELSE IF role = "adversary" THEN Deny
      ELSE IF action_limit(entry, req.action) THEN Deny
      ELSE decide_role(lp, req, role, entry)

-----------------------------------------------------------------------------
(* The ceiling: a booted level, unranked when its system does not carry it *)

Ceiling == [ranked : BOOLEAN, level : Nat]

is_control_plane(action) == class_of(action) \in {"Liveness", "Admin", "Kernel"}

\* It never permits: being at or below the ceiling entitles nobody.  An
\* unmarked content has the system's lowest level.
decide_ceiling(ceiling, req) ==
  LET level == IF req.marking.kind = "ranked" THEN req.marking.level ELSE 0 IN
  IF is_control_plane(req.action) THEN NotApplicable
  ELSE IF req.marking.kind = "refused" \/ ~ceiling.ranked \/ level > ceiling.level THEN Deny
  ELSE NotApplicable

-----------------------------------------------------------------------------
(* Composition *)

\* An operand that panics yields Indeterminate.
guarded_decide(panics, verdict) == IF panics THEN Indeterminate ELSE verdict

\* merge_obligations finds two parameters for one id.
ObligationConflict(os) == \E x, y \in os : x.id = y.id /\ x.params # y.params

combine(verdicts) ==
  LET some(kind) == \E i \in DOMAIN verdicts : verdicts[i].is = kind
      merged     == UNION { verdicts[i].obligations : i \in DOMAIN verdicts }
  IN  IF some("Deny") \/ some("Indeterminate") THEN Deny
      ELSE IF ~some("Permit") THEN NotApplicable
      ELSE IF ObligationConflict(merged) THEN Deny
      ELSE Permit(merged)

finalize(verdict) == IF verdict.is = "Permit" THEN verdict ELSE Deny

\* What the kernel enforces: the baseline first, then the ceiling, each
\* behind the panic boundary (panics names the operands that do).
Composition_decide(lp, principal, ceiling, panics, req) ==
  finalize(combine(<<guarded_decide("baseline" \in panics, decide_loaded(lp, principal, req)),
                     guarded_decide("ceiling" \in panics, decide_ceiling(ceiling, req))>>))
=============================================================================
