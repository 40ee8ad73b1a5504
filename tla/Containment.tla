----------------------------- MODULE Containment -----------------------------
(***************************************************************************)
(* The relationships between work items: one parent per item, direct       *)
(* membership in an Arena, dependencies and blockers (named_work.py,       *)
(* arenas.py, relationships.py), and where an item is placed by them.      *)
(*                                                                         *)
(* The named receiver holds the guard node from its first read to its      *)
(* commit, so one named operation runs at a time.  The HTTP write routes   *)
(* do not take the guard: they edit and archive items between the checks   *)
(* of a named operation and its writes, and only the version each write    *)
(* compares tells the operation that they did.                             *)
(***************************************************************************)
EXTENDS Integers, FiniteSets, Functions

CONSTANTS
    Works,       \* the work items
    Kind,        \* the kind of each item
    Arenas,      \* arena ids
    Links,       \* the relationships explored: a subset of {"DEPENDS_ON", "BLOCKS"}
    MaxVersion,  \* bound: versions of one item or arena explored
    None

Kinds == {"Proposal", "Initiative", "Project", "Issue", "Task"}

ASSUME ContainmentAssumption ==
    /\ Kind \in [Works -> Kinds]
    /\ Links \subseteq {"DEPENDS_ON", "BLOCKS"}
    /\ MaxVersion \in Nat
    /\ None \notin Works \cup Arenas

VARIABLES
    work,        \* each item: its version, whether it is archived, and done
    arena,       \* each arena: its version (0: not created), whether it is archived
    child,       \* HAS_CHILD edges <<parent, child>>
    member,      \* CONTAINS_WORK edges <<arena, item>>
    link,        \* the edges of each relationship of Links
    tx           \* the named operation that holds the guard

vars == <<work, arena, child, member, link, tx>>

-----------------------------------------------------------------------------
(* Kinds                                                                   *)

\* PARENTS: what may contain an item of each kind.
ParentKinds(k) ==
    CASE k = "Project" -> {"Initiative"}
      [] k = "Issue"   -> {"Initiative", "Project"}
      [] k = "Task"    -> {"Initiative", "Project", "Issue"}
      [] OTHER         -> {}

\* DIRECT_KINDS: what an Arena may contain directly.
DirectKinds == {"Initiative", "Task"}

ParentsOf(w) == {p \in Works : <<p, w>> \in child}

ArenasOf(w) == {a \in Arenas : <<a, w>> \in member}

\* An optional reference as the set of what it refers to.
Just(x) == {x} \ {None}

Active(w) == ~work[w].archived

\* Mutant of Reopened: completed work may change its scope.
ReopenedMut(w) == TRUE

\* _reopen_before_scope_change
Reopened(w) == ~work[w].done

NoTx == [do |-> "none"]

Init ==
    /\ work = [w \in Works |-> [version |-> 1, archived |-> FALSE, done |-> FALSE]]
    /\ arena = [a \in Arenas |-> [version |-> 0, archived |-> FALSE]]
    /\ child = {}
    /\ member = {}
    /\ link = [r \in Links |-> {}]
    /\ tx = NoTx

-----------------------------------------------------------------------------
(* Checks of the named operations, from what they read behind the guard    *)

\* The versions of the items an operation will write, as it read them.
Seen(ws) == [w \in ws |-> work[w].version]

\* parent.set: w moves from parent "from" to parent "to", leaving arena a.
SetParent(w, from, to, a) ==
    /\ ParentKinds(Kind[w]) # {}
    /\ \A p \in Just(from) \cup Just(to) : Kind[p] \in ParentKinds(Kind[w])
    /\ {from, to, a} # {None}
    /\ a # None => Kind[w] = "Task" /\ to # None
    /\ Active(w) /\ Reopened(w)
    /\ ParentsOf(w) = Just(from)
    /\ \A p \in Just(from) \cup Just(to) : Active(p) /\ Reopened(p)
    /\ ArenasOf(w) = Just(a)
    /\ a # None => ParentsOf(w) = {}
    /\ tx' = [do |-> "parent", w |-> w, from |-> from, to |-> to, arena |-> a,
              seen |-> Seen({w} \cup Just(from) \cup Just(to))]
    /\ UNCHANGED <<work, arena, child, member, link>>

\* membership() finds the item to be its own root.
Parentless(w) == ParentsOf(w) = {}

\* member.set: w moves from arena "from" to arena "to".
SetMember(w, from, to) ==
    /\ Kind[w] \in DirectKinds
    /\ {from, to} # {None}
    /\ Active(w)
    /\ Parentless(w)
    /\ ArenasOf(w) = Just(from)
    /\ to # None => arena[to].version > 0 /\ ~arena[to].archived
    /\ tx' = [do |-> "member", w |-> w, from |-> from, to |-> to, seen |-> Seen({w})]
    /\ UNCHANGED <<work, arena, child, member, link>>

\* Mutant of Reaches: only the direct edge back is looked for.
ReachesMut(r, x, y) == x = y \/ <<x, y>> \in link[r]

\* The search of _edge_change finds y from x: every set that holds x and the
\* targets of its members' edges holds y.
Reaches(r, x, y) ==
    \A S \in SUBSET Works :
        x \in S /\ (\A e \in link[r] : e[1] \in S => e[2] \in S) => y \in S

\* dependency.add, dependency.remove, blocker.add and blocker.remove.
ChangeLink(r, add, w, t) ==
    /\ w # t
    /\ r = "BLOCKS" => Kind[w] = "Task" /\ Kind[t] = "Task"
    /\ Active(w) /\ Active(t)
    /\ Reopened(w) /\ Reopened(t)
    /\ add => ~Reaches(r, t, w)
    /\ tx' = [do |-> "link", rel |-> r, add |-> add, w |-> w, to |-> t,
              seen |-> Seen({w, t})]
    /\ UNCHANGED <<work, arena, child, member, link>>

-----------------------------------------------------------------------------
(* The writes of the named operation, and its end                          *)

\* repository.update finds every item the operation bumps active and at the
\* version it read.
Current ==
    \A w \in DOMAIN tx.seen : Active(w) /\ work[w].version = tx.seen[w]

Bump(ws) ==
    work' = [w \in Works |-> IF w \in ws THEN [work[w] EXCEPT !.version = @ + 1]
                                         ELSE work[w]]

BumpArenas(as) ==
    arena' = [a \in Arenas |-> IF a \in as THEN [arena[a] EXCEPT !.version = @ + 1]
                                           ELSE arena[a]]

\* The operation fails and is rolled back.
Rollback ==
    /\ tx # NoTx
    /\ tx' = NoTx
    /\ UNCHANGED <<work, arena, child, member, link>>

\* Mutant of Touched: only the new parent's version advances.
TouchedMut == {tx.w} \cup Just(tx.to)

\* The items whose version parent.set advances.
Touched == {tx.w} \cup Just(tx.from) \cup Just(tx.to)

\* Mutant of Departed: the membership edge stays when the task gets a parent.
DepartedMut == {}

\* remove_for_parent: the direct membership that ends with parent.set.
Departed == Just(tx.arena) \X {tx.w}

\* The writes of _set_parent.
CommitParent ==
    /\ tx.do = "parent"
    /\ Current
    /\ member' = member \ Departed
    /\ BumpArenas(Just(tx.arena))
    /\ child' = (child \ (Just(tx.from) \X {tx.w})) \cup (Just(tx.to) \X {tx.w})
    /\ Bump(Touched)
    /\ tx' = NoTx
    /\ UNCHANGED link

Swapped == (member \ (Just(tx.from) \X {tx.w})) \cup (Just(tx.to) \X {tx.w})

\* The writes of ArenaMutations._member.
CommitMember ==
    /\ tx.do = "member"
    /\ Current
    /\ member' = Swapped
    /\ BumpArenas(Just(tx.from) \cup Just(tx.to))
    /\ Bump({tx.w})
    /\ tx' = NoTx
    /\ UNCHANGED <<child, link>>

\* The writes of _edge_change.
CommitLink ==
    /\ tx.do = "link"
    /\ Current
    /\ link' = [link EXCEPT ![tx.rel] =
                  IF tx.add THEN @ \cup {<<tx.w, tx.to>>} ELSE @ \ {<<tx.w, tx.to>>}]
    /\ Bump({tx.w, tx.to})
    /\ tx' = NoTx
    /\ UNCHANGED <<arena, child, member>>

-----------------------------------------------------------------------------
(* The other operations on items and arenas                                *)

\* An operation on one item that keeps its relationships.  The HTTP route
\* edits and archives at any time; the other changes are named operations
\* and wait for the guard.
Change(w, becomes) ==
    /\ work[w].version < MaxVersion
    /\ work' = [work EXCEPT ![w] = [becomes EXCEPT !.version = @ + 1]]
    /\ UNCHANGED <<arena, child, member, link, tx>>

\* PATCH, status change or archive.
Edit(w) ==
    /\ Active(w)
    /\ Change(w, work[w])

Archive(w) ==
    /\ Active(w)
    /\ Change(w, [work[w] EXCEPT !.archived = TRUE])

Restore(w) ==
    /\ tx = NoTx
    /\ work[w].archived
    /\ Change(w, [work[w] EXCEPT !.archived = FALSE])

\* progress.set or the last workflow transition completes the item, and
\* progress.set reopens it; what allows it is the subject of Workflow.
SetDone(w) ==
    /\ tx = NoTx
    /\ Active(w)
    /\ Change(w, [work[w] EXCEPT !.done = ~@])

CreateArena(a) ==
    /\ tx = NoTx
    /\ arena[a].version = 0
    /\ BumpArenas({a})
    /\ UNCHANGED <<work, child, member, link, tx>>

\* patch and archive of an arena; its members stay.
ChangeArena(a, archive) ==
    /\ tx = NoTx
    /\ arena[a].version \in 1 .. MaxVersion - 1
    /\ ~arena[a].archived
    /\ arena' = [arena EXCEPT ![a].version = @ + 1, ![a].archived = archive]
    /\ UNCHANGED <<work, child, member, link, tx>>

\* Bound: the operation stays below the last version explored.
Bounded ==
    /\ \A w \in DOMAIN tx.seen : work[w].version < MaxVersion
    /\ \A a \in Arenas : arena[a].version < MaxVersion

Next ==
    \/ /\ tx = NoTx
       /\ \/ \E w \in Works, from, to \in Works \cup {None}, a \in Arenas \cup {None} :
               SetParent(w, from, to, a)
          \/ \E w \in Works, from, to \in Arenas \cup {None} : SetMember(w, from, to)
          \/ \E r \in Links, add \in BOOLEAN, w, t \in Works : ChangeLink(r, add, w, t)
    \/ tx # NoTx /\ Bounded /\ (CommitParent \/ CommitMember \/ CommitLink)
    \/ Rollback
    \/ \E w \in Works : Edit(w) \/ Archive(w) \/ Restore(w) \/ SetDone(w)
    \/ \E a \in Arenas : CreateArena(a) \/ \E archive \in BOOLEAN : ChangeArena(a, archive)

Spec == Init /\ [][Next]_vars

-----------------------------------------------------------------------------
(* Where an item is placed: the arena it belongs to directly or through    *)
(* its ancestors.  ArenaRepository resolves one item by walking up         *)
(* (membership) and a page of items in one pass that shares the ancestors  *)
(* it has already resolved (membership_ids).                               *)

Parent(w) == CHOOSE p \in Works : p \in ParentsOf(w)

\* membership(): the arena of the root of w's chain of parents.
Membership(w) ==
    LET up[v \in Works] == IF ParentsOf(v) = {} THEN ArenasOf(v) ELSE up[Parent(v)]
    IN  up[w]

\* One key of the page: walk up to the root or to an item already resolved,
\* and give everything on the trail what is found there.
Resolve(resolved, key) ==
    LET trail[v \in Works] ==
          IF v \in DOMAIN resolved THEN {}
          ELSE {v} \cup (IF ParentsOf(v) = {} THEN {} ELSE trail[Parent(v)])
        found[v \in Works] ==
          IF v \in DOMAIN resolved THEN resolved[v]
          ELSE IF ParentsOf(v) = {} THEN ArenasOf(v) ELSE found[Parent(v)]
    IN  [v \in DOMAIN resolved \cup trail[key] |-> IF v \in DOMAIN resolved THEN resolved[v] ELSE found[key]]

\* membership_ids(): the keys in the order of the page.
MembershipIds(keys) ==
    LET first[n \in 0..Cardinality(DOMAIN keys)] ==
          IF n = 0 THEN << >> ELSE Resolve(first[n - 1], keys[n])
    IN  first[Cardinality(DOMAIN keys)]

-----------------------------------------------------------------------------
(* Properties                                                              *)

\* The type of the state: edges join items and arenas in their direction.
TypeOK ==
    /\ work \in [Works -> [version : Nat, archived : BOOLEAN, done : BOOLEAN]]
    /\ arena \in [Arenas -> [version : Nat, archived : BOOLEAN]]
    /\ child \subseteq Works \X Works
    /\ member \subseteq Arenas \X Works
    /\ link \in [Links -> SUBSET (Works \X Works)]
    /\ tx # NoTx => tx.do \in {"parent", "member", "link"} /\ tx.w \in Works

\* Every item resolves to one place: it has at most one parent, of a kind
\* that may contain it, and an arena directly only where it has no parent
\* and its kind allows it.  This is what membership() and membership_ids()
\* walk; where it fails they raise ArenaConflict for the item and for
\* everything below it.
MembershipResolves ==
    \A w \in Works :
        /\ Cardinality(ParentsOf(w)) <= 1
        /\ Cardinality(ArenasOf(w)) <= 1
        /\ \A p \in ParentsOf(w) : Kind[p] \in ParentKinds(Kind[w])
        /\ ArenasOf(w) # {} => ParentsOf(w) = {} /\ Kind[w] \in DirectKinds
        /\ \A a \in ArenasOf(w) : arena[a].version > 0

\* The page and the single lookup agree on the arena of every item, in
\* whatever order the page lists them and whatever ancestors they share.  (An
\* open operation has written nothing yet: the graphs without one are all.)
PlacementAgrees ==
    tx = NoTx =>
        \A keys \in Bijection(1..Cardinality(Works), Works) :
            MembershipIds(keys) = [w \in Works |-> Membership(w)]

\* Every item has one place, and every way of looking it up finds that place.
ContainmentInv == TypeOK /\ MembershipResolves /\ PlacementAgrees

\* The dependencies and the blockers never form a cycle: every set of items
\* has one that depends on (blocks) no other of the set.
Acyclic ==
    \A r \in Links : \A S \in (SUBSET Works) \ {{}} :
        \E w \in S : \A v \in S : <<w, v>> \notin link[r]

\* The parent, children, dependencies and blockers of an item.
Scope(w) ==
    [up   |-> {e \in child : e[2] = w}, down |-> {e \in child : e[1] = w},
     link |-> [r \in Links |-> {e \in link[r] : w \in {e[1], e[2]}}]]

\* All its edges.
Ends(w) == [scope |-> Scope(w), arenas |-> {e \in member : e[2] = w}]

\* Whoever read an item before its relationships changed is told so: the
\* version of both ends of every edge that appears or disappears advances in
\* the same commit ("Relationship changes advance the versions of both Work
\* endpoints ... Reparenting also advances the old parent's version",
\* docs/named-work-v1.md).
ChangesAreVersioned ==
    [][\A w \in Works :
         Ends(w)' # Ends(w) => work'[w].version > work[w].version]_vars

\* A relationship never appears or disappears at an item that is archived at
\* that moment, even when the archive came after the operation's checks
\* ("Relationships cannot involve archived endpoints").
ArchivedIsLeftAlone ==
    [][\A w \in Works : Ends(w)' # Ends(w) => Active(w)]_vars

\* The scope of completed work is fixed until it is reopened: no parent,
\* child, dependency or blocker of it changes while it is done ("Changes to
\* completed scope require reopening", docs/todo-progress-v2.md).
CompletedScopeIsFixed ==
    [][\A w \in Works : work[w].done => Scope(w)' = Scope(w)]_vars
=============================================================================
