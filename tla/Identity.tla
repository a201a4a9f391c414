------------------------------ MODULE Identity ------------------------------
(***************************************************************************)
(* The identity layer of the stored graph (maknae-graph identity.rs) over  *)
(* a series of loads: a start, a reload or a live edit resolves the        *)
(* bindings section it will enforce against the host's accounts            *)
(* (maknae-authz-basic binding.rs), carries forward the containments whose *)
(* name no longer resolves, records what it releases, and builds and       *)
(* compiles the graph that Decision's role_for reads.                      *)
(*                                                                         *)
(* Before each load root may have edited the section and accounts may have *)
(* come, gone or changed their uid. A lookup that fails refuses the load   *)
(* and is left out, as are the migration to a new vocabulary and the names *)
(* of bound subjects, which nothing reads. An option is a set of at most   *)
(* one element.                                                            *)
(***************************************************************************)
EXTENDS Decision

CONSTANT Account      \* account names

VARIABLES
  layer,    \* the identity layer of the stored graph
  load      \* the load that stored it

vars == <<layer, load>>

Option(S) == {s \in SUBSET S : \A x, y \in s : x = y}

Listing == Role \union {"adversary"}

\* A bindings section; "uid:" entries are accepted under adversary only.
Section == [present : BOOLEAN, roles : [Account -> SUBSET Listing], uids : SUBSET Uid]

\* The uids found, by name.
Lookups == [Account -> Option(Uid)]

\* held: the role of each subject; own: the name a contained subject carries,
\* none for one contained by its uid; aliases: its other names.
Layer ==
  [explicit : BOOLEAN, held : [Uid -> Bound], own : [Uid -> Option(Account)],
   aliases : [Account -> Option(Uid)]]

\* What a load has in hand: whether a live edit asked for it, the section to
\* enforce, and the layer the section declares.
Load == [live : BOOLEAN, file : Section, lookup : Lookups, declared : Layer]

-----------------------------------------------------------------------------
(* Claims: every adversary name with the uid it last resolved to *)

claims(l) ==
  [a \in Account |->
     IF l.aliases[a] # {} THEN l.aliases[a]
     ELSE {u \in Uid : l.held[u] = "adversary" /\ a \in l.own[u]}]

with_claims(l, c) ==
  [l EXCEPT !.aliases =
     [a \in Account |-> {u \in c[a] : ~(l.held[u] = "adversary" /\ a \in l.own[u])}]]

-----------------------------------------------------------------------------
(* One load *)

\* The roles a subject is listed under, by its uid or by a name found for it.
listed(file, lookup, u) ==
  (IF u \in file.uids THEN {"adversary"} ELSE {})
    \union UNION {file.roles[a] : a \in {b \in Account : u \in lookup[b]}}

\* One adversary listing contains; two other roles bind nobody.
effective(roles) ==
  IF "adversary" \in roles THEN "adversary"
  ELSE IF \E r \in Role : roles = {r} THEN CHOOSE r \in Role : roles = {r}
  ELSE "none"

adversary_names(file, lookup) ==
  [a \in Account |-> IF "adversary" \in file.roles[a] THEN lookup[a] ELSE {}]

\* identity_layer: a contained subject carries the first of its adversary
\* entries, a name or "uid:"; the order of the section picks it.
Declares(file, lookup, l) ==
  LET named == adversary_names(file, lookup)
      plain == [explicit |-> file.present,
                held     |-> [u \in Uid |-> effective(listed(file, lookup, u))],
                own      |-> l.own,
                aliases  |-> l.aliases]
  IN  /\ l.own \in [Uid -> Option(Account)]
      /\ \A u \in Uid :
           /\ \A a \in l.own[u] : u \in named[a]
           /\ (l.own[u] = {} /\ plain.held[u] = "adversary") => u \in file.uids
      /\ l = with_claims(plain, named)

unresolved_adversaries(file, lookup) ==
  {a \in Account : "adversary" \in file.roles[a] /\ lookup[a] = {}}

carry_forward(file, unresolved, persisted) ==
  LET was   == claims(persisted)
      kept  == [u \in Uid |-> {a \in unresolved : u \in was[a]}]
      taken == {u \in Uid : kept[u] # {} /\ file.held[u] # "adversary"}
      now   == [a \in Account |-> IF a \in unresolved /\ was[a] # {} THEN was[a] ELSE claims(file)[a]]
      out   == [file EXCEPT
                  !.held = [u \in Uid |-> IF u \in taken THEN "adversary" ELSE file.held[u]],
                  !.own  = [u \in Uid |-> IF u \in taken THEN {CHOOSE a \in kept[u] : TRUE} ELSE file.own[u]]]
  IN  with_claims(out, now)

\* The containments a load ends, with the cause it records.
released(persisted, next, nobody, live) ==
  LET moved(u) == {a \in Account : u \in claims(persisted)[a] /\ claims(next)[a] # {}} IN
  {[uid   |-> u,
    cause |-> IF live THEN "Live"
              ELSE IF nobody THEN "BindingsEmpty"
              ELSE IF moved(u) # {} THEN "NameNowResolvesTo"
              ELSE IF next.held[u] # "none" THEN "BoundAs"
              ELSE "NotListed"] :
     u \in {v \in Uid : persisted.held[v] = "adversary" /\ next.held[v] # "adversary"}}

\* Before there is a sync base; with one, the merge keeps a lost section away.
drops_explicit_bindings(persisted, file) == persisted.explicit /\ ~file.present

lists_nobody(file) == file.present /\ file.uids = {} /\ \A a \in Account : file.roles[a] = {}

\* build refuses an alias of a subject that is not contained, or one that is
\* some contained subject's own name.
builds(l) ==
  \A a \in Account : \A u \in l.aliases[a] :
    /\ l.held[u] = "adversary"
    /\ \A v \in Uid : ~(l.held[v] = "adversary" /\ a \in l.own[v])

\* compile carries forward over the graph just built and refuses a difference.
compiles(ld, l) ==
  carry_forward(ld.declared, unresolved_adversaries(ld.file, ld.lookup), l) = l

\* The identity layer as role_for reads it.
roles_of(l) ==
  [explicit  |-> l.explicit,
   binds     |-> [u \in Uid |-> IF l.held[u] = "adversary" THEN "none" ELSE l.held[u]],
   contained |-> {u \in Uid : l.held[u] = "adversary"}]

-----------------------------------------------------------------------------

\* An absent section lists nobody.
Loads == {ld \in Load :
            /\ Declares(ld.file, ld.lookup, ld.declared)
            /\ ~ld.file.present => ld.file.uids = {} /\ \A a \in Account : ld.file.roles[a] = {}}

\* A seed stores what the section declares.
Init == load \in Loads /\ layer = load.declared

next_layer(ld) ==
  carry_forward(ld.declared, unresolved_adversaries(ld.file, ld.lookup), layer)

\* A boot, a reload or a live edit: refused, or stored.  A reseed, which stores a layer with
\* no past to carry forward, is left out.
NextLoad(ld) ==
  /\ ~drops_explicit_bindings(layer, ld.file)
  /\ builds(next_layer(ld))
  /\ compiles(ld, next_layer(ld))
  /\ layer' = next_layer(ld)
  /\ load' = ld

Next == \E ld \in Loads : NextLoad(ld)

Spec == Init /\ [][Next]_vars

-----------------------------------------------------------------------------
(* Properties *)

\* No load is refused for what carrying forward made of it: whatever the
\* section, the accounts and the past, the next layer builds, and compile,
\* which carries forward once more over it, finds no difference.
LoadsGoThrough == \A ld \in Loads : builds(next_layer(ld)) /\ compiles(ld, next_layer(ld))

\* The names a layer holds against a uid that a section still lists.
StillListed(l, file, u) == {a \in Account : u \in claims(l)[a] /\ "adversary" \in file.roles[a]}

\* A containment ends only on purpose and, but for a live edit, which records who
\* asked, for the cause recorded: the section
\* no longer lists the uid, nor any name that ever resolved to it, except one
\* that now is another account. An account that is gone releases nobody.
ReleasedOnPurpose ==
  [][\A r \in released(layer, layer', lists_nobody(load'.file), load'.live) :
       /\ r.uid \notin load'.file.uids
       /\ \A a \in StillListed(layer, load'.file, r.uid) :
            load'.lookup[a] # {} /\ r.uid \notin load'.lookup[a]
       /\ r.cause = "NameNowResolvesTo"
            <=> ~load'.live /\ StillListed(layer, load'.file, r.uid) # {}]_vars

\* A name listed under adversary keeps its uid contained, and its claim to it,
\* over every load that does not find the name at another uid.
ClaimsAreKept ==
  [][\A a \in Account, u \in Uid :
       (/\ u \in claims(layer)[a]
        /\ "adversary" \in load'.file.roles[a]
        /\ load'.lookup[a] \subseteq {u})
       => u \in claims(layer')[a] /\ u \in roles_of(layer').contained]_vars
=============================================================================
