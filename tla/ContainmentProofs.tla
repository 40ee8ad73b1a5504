-------------------------- MODULE ContainmentProofs --------------------------
(***************************************************************************)
(* Proofs about Containment, for every set of items, kinds and arenas.     *)
(*                                                                         *)
(* The HTTP route changes items while a named operation is open, but it    *)
(* never writes an edge and never completes or reopens an item.  So what   *)
(* the operation checked about edges and completion still holds when it    *)
(* commits (Checked below), and the versions it compares make up for the   *)
(* rest.                                                                   *)
(***************************************************************************)
EXTENDS Containment, FiniteSetTheorems, TLAPS

\* At most one element: what MembershipResolves says without counting.
Single(S) == \A x, y \in S : x = y

Placed(w) ==
    /\ Single(ParentsOf(w))
    /\ Single(ArenasOf(w))
    /\ \A p \in ParentsOf(w) : Kind[p] \in ParentKinds(Kind[w])
    /\ ArenasOf(w) # {} => ParentsOf(w) = {} /\ Kind[w] \in DirectKinds
    /\ \A a \in ArenasOf(w) : arena[a].version > 0

AllPlaced == \A w \in Works : Placed(w)

\* What the checks of an open operation established.
CheckedParent ==
    /\ tx.from \in Works \cup {None} /\ tx.to \in Works \cup {None}
    /\ tx.arena \in Arenas \cup {None}
    /\ DOMAIN tx.seen = {tx.w} \cup Just(tx.from) \cup Just(tx.to)
    /\ \A p \in Just(tx.to) : Kind[p] \in ParentKinds(Kind[tx.w])
    /\ ParentsOf(tx.w) = Just(tx.from)
    /\ ArenasOf(tx.w) = Just(tx.arena)
    /\ \A x \in DOMAIN tx.seen : ~work[x].done

CheckedMember ==
    /\ tx.from \in Arenas \cup {None} /\ tx.to \in Arenas \cup {None}
    /\ DOMAIN tx.seen = {tx.w}
    /\ Kind[tx.w] \in DirectKinds
    /\ ParentsOf(tx.w) = {}
    /\ ArenasOf(tx.w) = Just(tx.from)
    /\ tx.to # None => arena[tx.to].version > 0

CheckedLink ==
    /\ tx.rel \in Links /\ tx.to \in Works
    /\ DOMAIN tx.seen = {tx.w, tx.to}
    /\ tx.add => ~Reaches(tx.rel, tx.to, tx.w)
    /\ \A x \in DOMAIN tx.seen : ~work[x].done

Checked ==
    tx # NoTx =>
        /\ tx.w \in Works
        /\ \/ tx.do = "parent" /\ CheckedParent
           \/ tx.do = "member" /\ CheckedMember
           \/ tx.do = "link" /\ CheckedLink

IInv == TypeOK /\ Checked /\ AllPlaced /\ Acyclic

\* The operations that write no edge: they keep what was checked.
Quiet ==
    /\ UNCHANGED <<child, member, link>>
    /\ \A w \in Works : work'[w].done = work[w].done \/ tx = NoTx
    /\ \A a \in Arenas : arena'[a].version >= arena[a].version

-----------------------------------------------------------------------------
\* Single sets have at most one element.
LEMMA SingleIsSmall ==
  ASSUME NEW S, Single(S)
  PROVE  Cardinality(S) <= 1
<1>1. CASE S = {}
  BY <1>1, FS_EmptySet
<1>2. CASE S # {}
  <2>1. PICK x \in S : TRUE
    BY <1>2
  <2>2. S = {x}
    BY <2>1 DEF Single
  <2> QED
    BY <2>2, FS_Singleton
<1> QED
  BY <1>1, <1>2

\* The invariant gives the property that TLC checks.
LEMMA PlacedResolves ==
  ASSUME AllPlaced
  PROVE  MembershipResolves
BY SingleIsSmall DEF AllPlaced, Placed, MembershipResolves

\* An edge from w to t closes no cycle when t does not reach w: a set that meets
\* what t reaches has its sink there, any other does not contain t.
LEMMA AddKeepsAcyclic ==
  ASSUME Acyclic, NEW r \in Links, NEW w \in Works, NEW t \in Works, ~Reaches(r, t, w),
         NEW S \in SUBSET Works, S # {}
  PROVE  \E x \in S : \A v \in S : <<x, v>> \notin link[r] \cup {<<w, t>>}
<1>1. PICK C \in SUBSET Works : /\ t \in C /\ w \notin C
                                /\ \A e \in link[r] : e[1] \in C => e[2] \in C
  BY DEF Reaches
<1>2. CASE S \cap C # {}
  <2>1. PICK x \in S \cap C : \A v \in S \cap C : <<x, v>> \notin link[r]
    BY <1>2, Zenon DEF Acyclic
  <2>2. ASSUME NEW v \in S, <<x, v>> \in link[r] \cup {<<w, t>>}
        PROVE  FALSE
    <3>1. <<x, v>> \in link[r]
      BY <1>1, <2>1, <2>2
    <3>2. v \in C
      BY <1>1, <2>1, <3>1
    <3> QED
      BY <2>1, <3>1, <3>2
  <2> QED
    BY <2>1, <2>2
<1>3. CASE S \cap C = {}
  <2>1. PICK x \in S : \A v \in S : <<x, v>> \notin link[r]
    BY DEF Acyclic
  <2> QED
    BY <1>1, <1>3, <2>1
<1> QED
  BY <1>2, <1>3

\* A step that writes no edge keeps every item placed.
LEMMA QuietKeepsPlaces ==
  ASSUME TypeOK, AllPlaced, Acyclic, UNCHANGED <<child, member, link>>,
         \A a \in Arenas : arena'[a].version \in Nat /\ arena'[a].version >= arena[a].version
  PROVE  AllPlaced' /\ Acyclic'
<1>1. AllPlaced'
  <2>1. \A w \in Works : ParentsOf(w)' = ParentsOf(w) /\ ArenasOf(w)' = ArenasOf(w)
    BY DEF ParentsOf, ArenasOf
  <2>2. \A a \in Arenas : arena[a].version > 0 => arena'[a].version > 0
    BY DEF TypeOK
  <2>3. \A w \in Works : ArenasOf(w) \subseteq Arenas
    BY DEF ArenasOf
  <2> QED
    BY <2>1, <2>2, <2>3 DEF AllPlaced, Placed, Single
<1>2. Acyclic'
  BY DEF Acyclic
<1> QED
  BY <1>1, <1>2

\* The operations on single items and arenas.
LEMMA QuietSteps ==
  ASSUME TypeOK,
         \/ \E w \in Works : Edit(w) \/ Archive(w) \/ Restore(w) \/ SetDone(w)
         \/ \E a \in Arenas : CreateArena(a) \/ \E archive \in BOOLEAN : ChangeArena(a, archive)
  PROVE  TypeOK' /\ Quiet /\ tx' = tx
<1>1. ASSUME NEW w \in Works, Edit(w) \/ Archive(w) \/ Restore(w) \/ SetDone(w)
      PROVE  TypeOK' /\ Quiet /\ tx' = tx
  <2>1. PICK i \in [version : Nat, archived : BOOLEAN, done : BOOLEAN] :
           /\ work' = [work EXCEPT ![w] = i] /\ UNCHANGED <<arena, child, member, link, tx>>
           /\ i.done = work[w].done \/ tx = NoTx
    <3> DEFINE Item == [version : Nat, archived : BOOLEAN, done : BOOLEAN]
               i(b) == [b EXCEPT !.version = @ + 1]
    <3>1. work[w] \in Item
      BY DEF TypeOK
    <3>2. \A b \in Item : i(b) \in Item /\ i(b).done = b.done
      OBVIOUS
    <3>3. CASE Edit(w)
      BY <3>1, <3>2, <3>3, Zenon DEF Edit, Change
    <3>4. CASE Archive(w)
      <4> DEFINE b == [work[w] EXCEPT !.archived = TRUE]
      <4>1. b \in Item /\ b.done = work[w].done
        BY <3>1, Zenon
      <4>2. /\ work' = [work EXCEPT ![w] = i(b)]
            /\ UNCHANGED <<arena, child, member, link, tx>>
        BY <3>4, Zenon DEF Archive, Change
      <4>3. i(b) \in Item /\ i(b).done = work[w].done
        BY <3>2, <4>1, Zenon
      <4> HIDE DEF i, b
      <4> QED
        BY <4>2, <4>3, Zenon
    <3>5. CASE Restore(w)
      <4> DEFINE b == [work[w] EXCEPT !.archived = FALSE]
      <4>1. b \in Item /\ b.done = work[w].done
        BY <3>1, Zenon
      <4>2. /\ work' = [work EXCEPT ![w] = i(b)]
            /\ UNCHANGED <<arena, child, member, link, tx>>
        BY <3>5, Zenon DEF Restore, Change
      <4>3. i(b) \in Item /\ i(b).done = work[w].done
        BY <3>2, <4>1, Zenon
      <4> HIDE DEF i, b
      <4> QED
        BY <4>2, <4>3, Zenon
    <3>6. CASE SetDone(w)
      <4>1. [work[w] EXCEPT !.done = ~@] \in Item
        BY <3>1, Zenon
      <4> QED
        BY <3>1, <3>2, <3>6, <4>1, Zenon DEF SetDone, Change
    <3> QED
      BY <1>1, <3>3, <3>4, <3>5, <3>6
  <2>2. TypeOK'
    BY <2>1 DEF TypeOK
  <2> QED
    BY <2>1, <2>2 DEF Quiet, TypeOK
<1>2. ASSUME NEW a \in Arenas, CreateArena(a)
      PROVE  TypeOK' /\ Quiet /\ tx' = tx
  BY <1>2 DEF CreateArena, BumpArenas, Quiet, TypeOK
<1>3. ASSUME NEW a \in Arenas, NEW archive \in BOOLEAN, ChangeArena(a, archive)
      PROVE  TypeOK' /\ Quiet /\ tx' = tx
  BY <1>3 DEF ChangeArena, Quiet, TypeOK
<1> QED
  BY <1>1, <1>2, <1>3

\* They keep what an open operation checked.
LEMMA QuietKeepsChecks ==
  ASSUME TypeOK, Checked, TypeOK', Quiet, tx' = tx
  PROVE  Checked'
<1> SUFFICES ASSUME tx # NoTx
             PROVE  Checked'
  BY DEF Checked
<1>1. tx.w \in Works /\ UNCHANGED <<child, member, link, tx>>
  BY DEF Checked, Quiet
<1>2. \A x \in Works : work'[x].done = work[x].done
  BY DEF Quiet
<1>3. CASE tx.do = "parent" /\ CheckedParent
  <2>1. \A x \in DOMAIN tx.seen : x \in Works
    BY <1>1, <1>3 DEF CheckedParent, Just
  <2> QED
    BY <1>1, <1>2, <1>3, <2>1 DEF Checked, CheckedParent, ParentsOf, ArenasOf
<1>4. CASE tx.do = "member" /\ CheckedMember
  BY <1>1, <1>4 DEF Checked, CheckedMember, ParentsOf, ArenasOf, Quiet, TypeOK
<1>5. CASE tx.do = "link" /\ CheckedLink
  BY <1>1, <1>2, <1>5 DEF Checked, CheckedLink, Reaches
<1> QED
  BY <1>3, <1>4, <1>5 DEF Checked

\* Opening an operation: its guards are what Checked records.
LEMMA CheckSteps ==
  ASSUME IInv,
         \/ \E w \in Works, from, to \in Works \cup {None}, a \in Arenas \cup {None} :
              SetParent(w, from, to, a)
         \/ \E w \in Works, from, to \in Arenas \cup {None} : SetMember(w, from, to)
         \/ \E r \in Links, add \in BOOLEAN, w, t \in Works : ChangeLink(r, add, w, t)
  PROVE  TypeOK' /\ Checked' /\ UNCHANGED <<work, arena, child, member, link>>
<1>1. ASSUME NEW w \in Works, NEW from \in Works \cup {None}, NEW to \in Works \cup {None},
             NEW a \in Arenas \cup {None}, SetParent(w, from, to, a)
      PROVE  TypeOK' /\ Checked' /\ UNCHANGED <<work, arena, child, member, link>>
  <2>1. /\ tx' = [do |-> "parent", w |-> w, from |-> from, to |-> to, arena |-> a,
                  seen |-> Seen({w} \cup Just(from) \cup Just(to))]
        /\ UNCHANGED <<work, arena, child, member, link>>
    BY <1>1 DEF SetParent
  <2>2. TypeOK'
    BY <2>1 DEF TypeOK, IInv
  <2>3. CheckedParent'
    BY <1>1, <2>1, SMTT(30) DEF SetParent, CheckedParent, Seen, ParentsOf, ArenasOf, Reopened, Just
  <2> QED
    BY <2>1, <2>2, <2>3 DEF Checked
<1>2. ASSUME NEW w \in Works, NEW from \in Arenas \cup {None}, NEW to \in Arenas \cup {None},
             SetMember(w, from, to)
      PROVE  TypeOK' /\ Checked' /\ UNCHANGED <<work, arena, child, member, link>>
  <2>1. /\ tx' = [do |-> "member", w |-> w, from |-> from, to |-> to, seen |-> Seen({w})]
        /\ UNCHANGED <<work, arena, child, member, link>>
    BY <1>2 DEF SetMember
  <2>2. TypeOK'
    BY <2>1 DEF TypeOK, IInv
  <2>3. CheckedMember'
    BY <1>2, <2>1 DEF SetMember, CheckedMember, Seen, ParentsOf, ArenasOf, Parentless
  <2> QED
    BY <2>1, <2>2, <2>3 DEF Checked
<1>3. ASSUME NEW r \in Links, NEW add \in BOOLEAN, NEW w \in Works, NEW t \in Works,
             ChangeLink(r, add, w, t)
      PROVE  TypeOK' /\ Checked' /\ UNCHANGED <<work, arena, child, member, link>>
  <2>1. /\ tx' = [do |-> "link", rel |-> r, add |-> add, w |-> w, to |-> t, seen |-> Seen({w, t})]
        /\ UNCHANGED <<work, arena, child, member, link>>
    BY <1>3 DEF ChangeLink
  <2>2. TypeOK'
    BY <2>1 DEF TypeOK, IInv
  <2>3. CheckedLink'
    BY <1>3, <2>1 DEF ChangeLink, CheckedLink, Seen, Reaches, Reopened
  <2> QED
    BY <2>1, <2>2, <2>3 DEF Checked
<1> QED
  BY <1>1, <1>2, <1>3, Zenon

\* What a bump of versions changes.
LEMMA BumpWorks ==
  ASSUME TypeOK, NEW ws, Bump(ws)
  PROVE  /\ work' \in [Works -> [version : Nat, archived : BOOLEAN, done : BOOLEAN]]
         /\ \A w \in Works : work'[w].done = work[w].done
         /\ \A w \in Works : w \in ws => work'[w].version > work[w].version
<1> DEFINE i(b) == [b EXCEPT !.version = @ + 1]
           Item == [version : Nat, archived : BOOLEAN, done : BOOLEAN]
<1>1. \A b \in Item : i(b) \in Item /\ i(b).done = b.done /\ i(b).version > b.version
  OBVIOUS
<1>2. work' = [w \in Works |-> IF w \in ws THEN i(work[w]) ELSE work[w]]
  BY DEF Bump
<1>3. \A w \in Works : work[w] \in Item
  BY DEF TypeOK
<1> HIDE DEF i, Item
<1>4. /\ work' \in [Works -> Item]
      /\ \A w \in Works : work'[w].done = work[w].done
      /\ \A w \in Works : w \in ws => work'[w].version > work[w].version
  BY <1>1, <1>2, <1>3
<1> QED
  BY <1>4 DEF Item

LEMMA BumpedArenas ==
  ASSUME TypeOK, NEW as, BumpArenas(as)
  PROVE  /\ arena' \in [Arenas -> [version : Nat, archived : BOOLEAN]]
         /\ \A a \in Arenas : arena'[a].version >= arena[a].version
<1> DEFINE i(b) == [b EXCEPT !.version = @ + 1]
           Item == [version : Nat, archived : BOOLEAN]
<1>1. \A b \in Item : i(b) \in Item /\ i(b).version >= b.version
  OBVIOUS
<1>2. arena' = [a \in Arenas |-> IF a \in as THEN i(arena[a]) ELSE arena[a]]
  BY DEF BumpArenas
<1>3. \A a \in Arenas : arena[a] \in Item /\ arena[a].version >= arena[a].version
  BY DEF TypeOK
<1> HIDE DEF i, Item
<1>4. arena' \in [Arenas -> Item] /\ \A a \in Arenas : arena'[a].version >= arena[a].version
  BY <1>1, <1>2, <1>3, Zenon
<1> QED
  BY <1>4 DEF Item

\* An item whose edges stay is still placed.
LEMMA OthersStayPlaced ==
  ASSUME TypeOK, NEW v \in Works, Placed(v),
         ParentsOf(v)' = ParentsOf(v), ArenasOf(v)' = ArenasOf(v),
         \A a \in Arenas : arena'[a].version \in Nat /\ arena'[a].version >= arena[a].version
  PROVE  Placed(v)'
<1>1. \A a \in ArenasOf(v) : a \in Arenas /\ arena[a].version > 0
  BY DEF Placed, ArenasOf
<1>2. \A a \in ArenasOf(v) : arena'[a].version > 0
  BY <1>1 DEF TypeOK
<1> QED
  BY <1>2 DEF Placed, Single

\* parent.set: the item's old parent and its arena make room for the new parent.
LEMMA CommitParentKeeps ==
  ASSUME IInv, tx # NoTx, CommitParent
  PROVE  IInv'
<1>1. CheckedParent /\ tx.w \in Works /\ tx' = NoTx
  BY DEF IInv, Checked, CommitParent
<1>2. /\ work' \in [Works -> [version : Nat, archived : BOOLEAN, done : BOOLEAN]]
      /\ arena' \in [Arenas -> [version : Nat, archived : BOOLEAN]]
      /\ \A a \in Arenas : arena'[a].version >= arena[a].version
  BY BumpWorks, BumpedArenas DEF IInv, CommitParent
<1>3. TypeOK'
  BY <1>1, <1>2 DEF TypeOK, IInv, CommitParent, CheckedParent, Just
<1>4. Checked'
  BY <1>1 DEF Checked
<1>5. Acyclic'
  BY DEF IInv, Acyclic, CommitParent
<1>6. ASSUME NEW v \in Works PROVE Placed(v)'
  <2>1. CASE v = tx.w
    <3>1. ParentsOf(v)' = Just(tx.to)
      BY <1>1, <2>1 DEF ParentsOf, CommitParent, CheckedParent, Just
    <3>2. ArenasOf(v)' = {}
      BY <1>1, <2>1 DEF ArenasOf, CommitParent, CheckedParent, Just, Departed
    <3> QED
      BY <1>1, <2>1, <3>1, <3>2 DEF Placed, Single, Just, CheckedParent
  <2>2. CASE v # tx.w
    <3>1. ParentsOf(v)' = ParentsOf(v) /\ ArenasOf(v)' = ArenasOf(v)
      BY <1>1, <2>2 DEF ParentsOf, ArenasOf, CommitParent, Departed
    <3> QED
      BY <1>2, <3>1, OthersStayPlaced DEF IInv, AllPlaced
  <2> QED
    BY <2>1, <2>2
<1> QED
  BY <1>3, <1>4, <1>5, <1>6 DEF IInv, AllPlaced

\* member.set: the new arena takes the place of the old one.
LEMMA CommitMemberKeeps ==
  ASSUME IInv, tx # NoTx, CommitMember
  PROVE  IInv'
<1>1. CheckedMember /\ tx.w \in Works /\ tx' = NoTx
  BY DEF IInv, Checked, CommitMember
<1>2. /\ work' \in [Works -> [version : Nat, archived : BOOLEAN, done : BOOLEAN]]
      /\ arena' \in [Arenas -> [version : Nat, archived : BOOLEAN]]
      /\ \A a \in Arenas : arena'[a].version >= arena[a].version
  BY BumpWorks, BumpedArenas DEF IInv, CommitMember
<1>3. TypeOK'
  BY <1>1, <1>2 DEF TypeOK, IInv, CommitMember, CheckedMember, Just, Swapped
<1>4. Checked'
  BY <1>1 DEF Checked
<1>5. Acyclic'
  BY DEF IInv, Acyclic, CommitMember
<1>6. ASSUME NEW v \in Works PROVE Placed(v)'
  <2>1. CASE v = tx.w
    <3>1. ParentsOf(v)' = {}
      BY <1>1, <2>1 DEF ParentsOf, CommitMember, CheckedMember
    <3>2. ArenasOf(v)' = Just(tx.to)
      BY <1>1, <2>1 DEF ArenasOf, CommitMember, CheckedMember, Just, Swapped
    <3>3. \A a \in Just(tx.to) : a \in Arenas /\ arena[a].version > 0
      BY <1>1 DEF CheckedMember, Just
    <3>4. \A a \in Just(tx.to) : arena'[a].version > 0
      BY <1>2, <3>3 DEF TypeOK, IInv
    <3> QED
      BY <1>1, <2>1, <3>1, <3>2, <3>4 DEF Placed, Single, Just, CheckedMember
  <2>2. CASE v # tx.w
    <3>1. ParentsOf(v)' = ParentsOf(v) /\ ArenasOf(v)' = ArenasOf(v)
      BY <1>1, <2>2 DEF ParentsOf, ArenasOf, CommitMember, Swapped
    <3> QED
      BY <1>2, <3>1, OthersStayPlaced DEF IInv, AllPlaced
  <2> QED
    BY <2>1, <2>2
<1> QED
  BY <1>3, <1>4, <1>5, <1>6 DEF IInv, AllPlaced

\* dependency.* and blocker.*: a removed edge closes no cycle, and an added one
\* was searched for a way back.
LEMMA CommitLinkKeeps ==
  ASSUME IInv, tx # NoTx, CommitLink
  PROVE  IInv'
<1>1. CheckedLink /\ tx.w \in Works /\ tx' = NoTx
  BY DEF IInv, Checked, CommitLink
<1>2. work' \in [Works -> [version : Nat, archived : BOOLEAN, done : BOOLEAN]]
  BY BumpWorks DEF IInv, CommitLink
<1>3. TypeOK'
  BY <1>1, <1>2 DEF TypeOK, IInv, CommitLink, CheckedLink
<1>4. Checked'
  BY <1>1 DEF Checked
<1>5. AllPlaced'
  <2>1. \A a \in Arenas : arena'[a].version \in Nat /\ arena'[a].version >= arena[a].version
    BY DEF CommitLink, IInv, TypeOK
  <2>2. \A v \in Works : ParentsOf(v)' = ParentsOf(v) /\ ArenasOf(v)' = ArenasOf(v)
    BY DEF CommitLink, ParentsOf, ArenasOf
  <2> QED
    BY <2>1, <2>2, OthersStayPlaced DEF IInv, AllPlaced
<1>6. Acyclic'
  <2> SUFFICES ASSUME NEW r \in Links, NEW S \in SUBSET Works, S # {}
               PROVE  \E x \in S : \A v \in S : <<x, v>> \notin link'[r]
    BY DEF Acyclic
  <2>1. PICK x \in S : \A v \in S : <<x, v>> \notin link[r]
    BY DEF IInv, Acyclic
  <2>2. CASE link'[r] \subseteq link[r]
    BY <2>1, <2>2
  <2>3. CASE ~(link'[r] \subseteq link[r])
    <3>1. r = tx.rel /\ tx.add /\ link'[r] = link[r] \cup {<<tx.w, tx.to>>}
      BY <1>1, <2>3 DEF CommitLink, CheckedLink, IInv, TypeOK
    <3>2. ~Reaches(r, tx.to, tx.w) /\ tx.to \in Works
      BY <1>1, <3>1 DEF CheckedLink
    <3> QED
      BY <1>1, <3>1, <3>2, AddKeepsAcyclic DEF IInv
  <2> QED
    BY <2>2, <2>3
<1> QED
  BY <1>3, <1>4, <1>5, <1>6 DEF IInv

LEMMA InitIInv == Init => IInv
<1> SUFFICES ASSUME Init PROVE IInv
  OBVIOUS
<1>1. TypeOK /\ Checked
  BY DEF Init, TypeOK, Checked
<1>2. AllPlaced
  BY DEF Init, AllPlaced, Placed, Single, ParentsOf, ArenasOf
<1>3. Acyclic
  BY DEF Init, Acyclic
<1> QED
  BY <1>1, <1>2, <1>3 DEF IInv

LEMMA NextIInv == IInv /\ [Next]_vars => IInv'
<1> SUFFICES ASSUME IInv, [Next]_vars PROVE IInv'
  OBVIOUS
<1> DEFINE Opens ==
             \/ \E w \in Works, from, to \in Works \cup {None}, a \in Arenas \cup {None} :
                  SetParent(w, from, to, a)
             \/ \E w \in Works, from, to \in Arenas \cup {None} : SetMember(w, from, to)
             \/ \E r \in Links, add \in BOOLEAN, w, t \in Works : ChangeLink(r, add, w, t)
           Changes ==
             \/ \E w \in Works : Edit(w) \/ Archive(w) \/ Restore(w) \/ SetDone(w)
             \/ \E a \in Arenas : CreateArena(a)
                                  \/ \E archive \in BOOLEAN : ChangeArena(a, archive)
<1>0. \A a \in Arenas : arena[a].version \in Nat /\ arena[a].version >= arena[a].version
  BY DEF IInv, TypeOK
<1>1. CASE Opens
  <2>1. TypeOK' /\ Checked' /\ UNCHANGED <<work, arena, child, member, link>>
    BY <1>1, CheckSteps
  <2> QED
    BY <1>0, <2>1, QuietKeepsPlaces DEF IInv
<1>2. CASE Changes
  <2>1. TypeOK' /\ Quiet /\ tx' = tx
    BY <1>2, QuietSteps DEF IInv
  <2>2. \A a \in Arenas : arena'[a].version \in Nat /\ arena'[a].version >= arena[a].version
    BY <2>1 DEF TypeOK, Quiet
  <2> QED
    BY <2>1, <2>2, QuietKeepsPlaces, QuietKeepsChecks DEF IInv, Quiet
<1>3. CASE tx # NoTx /\ (CommitParent \/ CommitMember \/ CommitLink)
  BY <1>3, CommitParentKeeps, CommitMemberKeeps, CommitLinkKeeps
<1>4. CASE Rollback
  <2>1. UNCHANGED <<work, arena, child, member, link>> /\ tx' = NoTx
    BY <1>4 DEF Rollback
  <2>2. TypeOK' /\ Checked'
    BY <2>1 DEF IInv, TypeOK, Checked
  <2> QED
    BY <1>0, <2>1, <2>2, QuietKeepsPlaces DEF IInv
<1>5. CASE UNCHANGED vars
  <2>1. UNCHANGED <<work, arena, child, member, link, tx>>
    BY <1>5 DEF vars
  <2>2. TypeOK' /\ Quiet
    BY <1>0, <2>1 DEF IInv, TypeOK, Quiet
  <2> QED
    BY <1>0, <2>1, <2>2, QuietKeepsPlaces, QuietKeepsChecks DEF IInv
<1> QED
  BY <1>1, <1>2, <1>3, <1>4, <1>5 DEF Next

\* The invariant of every behaviour.
LEMMA Invariant == Spec => []IInv
BY InitIInv, NextIInv, PTL DEF Spec

\* Whatever the HTTP route does between the checks of an operation and its
\* writes, every stored edge has the right type.
THEOREM TypeCorrect == Spec => []TypeOK
<1>1. IInv => TypeOK
  BY DEF IInv
<1> QED
  BY <1>1, Invariant, PTL

\* membership() and membership_ids() never meet an item with two parents, two
\* arenas, or both a parent and an arena.
THEOREM EveryItemResolves == Spec => []MembershipResolves
<1>1. IInv => MembershipResolves
  BY PlacedResolves DEF IInv
<1> QED
  BY <1>1, Invariant, PTL

\* The search of _edge_change keeps the dependencies and the blockers acyclic.
THEOREM NoCycles == Spec => []Acyclic
<1>1. IInv => Acyclic
  BY DEF IInv
<1> QED
  BY <1>1, Invariant, PTL

-----------------------------------------------------------------------------
\* Only a commit writes edges.
LEMMA CommitsWriteEdges ==
  ASSUME [Next]_vars, ~UNCHANGED <<child, member, link>>
  PROVE  tx # NoTx /\ (CommitParent \/ CommitMember \/ CommitLink)
<1>1. \A v \in Works : Edit(v) \/ Archive(v) \/ Restore(v) \/ SetDone(v) =>
         UNCHANGED <<child, member, link>>
  BY DEF Edit, Archive, Restore, SetDone, Change
<1>2. \A a \in Arenas : CreateArena(a) => UNCHANGED <<child, member, link>>
  BY DEF CreateArena
<1>3. \A a \in Arenas, archive \in BOOLEAN :
         ChangeArena(a, archive) => UNCHANGED <<child, member, link>>
  BY DEF ChangeArena
<1>4. \A v \in Works, from, to \in Works \cup {None}, a \in Arenas \cup {None} :
         SetParent(v, from, to, a) => UNCHANGED <<child, member, link>>
  BY DEF SetParent
<1>5. \A v \in Works, from, to \in Arenas \cup {None} :
         SetMember(v, from, to) => UNCHANGED <<child, member, link>>
  BY DEF SetMember
<1>6. \A r \in Links, add \in BOOLEAN, v, t \in Works :
         ChangeLink(r, add, v, t) => UNCHANGED <<child, member, link>>
  BY DEF ChangeLink
<1>7. Rollback \/ UNCHANGED vars => UNCHANGED <<child, member, link>>
  BY DEF Rollback, vars
<1> QED
  BY <1>1, <1>2, <1>3, <1>4, <1>5, <1>6, <1>7, Zenon DEF Next

\* Only the commit of a named operation writes an edge, and only at the items
\* whose version it compares.
LEMMA EdgesChangeAtCommit ==
  ASSUME IInv, [Next]_vars, NEW w \in Works, Ends(w)' # Ends(w)
  PROVE  /\ tx # NoTx /\ w \in DOMAIN tx.seen /\ Current
         /\ work'[w].version > work[w].version
         /\ work'[w].done = work[w].done
<1>1. ~UNCHANGED <<child, member, link>>
  BY Zenon DEF Ends, Scope
<1>2. tx # NoTx /\ (CommitParent \/ CommitMember \/ CommitLink)
  BY <1>1, CommitsWriteEdges
<1>3. tx.w \in Works
  BY <1>2 DEF IInv, Checked
<1>4. CASE CommitParent
  <2>1. CheckedParent
    BY <1>2, <1>4 DEF IInv, Checked, CommitParent
  <2>2. w \in DOMAIN tx.seen
    <3> SUFFICES ASSUME w # tx.w, w \notin Just(tx.from), w \notin Just(tx.to) PROVE FALSE
      BY <2>1 DEF CheckedParent
    <3>1. /\ {e \in child' : e[2] = w} = {e \in child : e[2] = w}
          /\ {e \in child' : e[1] = w} = {e \in child : e[1] = w}
      BY <1>4 DEF CommitParent
    <3>2. {e \in member' : e[2] = w} = {e \in member : e[2] = w}
      BY <1>4 DEF CommitParent, Departed
    <3> QED
      BY <1>4, <3>1, <3>2, Zenon DEF CommitParent, Ends, Scope
  <2> QED
    BY <1>2, <1>4, <2>1, <2>2, BumpWorks DEF CommitParent, Touched, CheckedParent, IInv
<1>5. CASE CommitMember
  <2>1. CheckedMember
    BY <1>2, <1>5 DEF IInv, Checked, CommitMember
  <2>2. w = tx.w
    <3> SUFFICES ASSUME w # tx.w PROVE FALSE
      OBVIOUS
    <3>1. {e \in member' : e[2] = w} = {e \in member : e[2] = w}
      BY <1>5 DEF CommitMember, Swapped
    <3> QED
      BY <1>5, <3>1, Zenon DEF CommitMember, Ends, Scope
  <2> QED
    BY <1>2, <1>5, <2>1, <2>2, BumpWorks DEF CommitMember, CheckedMember, IInv
<1>6. CASE CommitLink
  <2>1. CheckedLink
    BY <1>2, <1>6 DEF IInv, Checked, CommitLink
  <2>2. w \in {tx.w, tx.to}
    <3> SUFFICES ASSUME w # tx.w, w # tx.to PROVE FALSE
      OBVIOUS
    <3>1. \A r \in Links : {e \in link'[r] : w \in {e[1], e[2]}} = {e \in link[r] : w \in {e[1], e[2]}}
      BY <1>6, <2>1 DEF CommitLink, CheckedLink, IInv, TypeOK
    <3> QED
      BY <1>6, <3>1, Zenon DEF CommitLink, Ends, Scope
  <2> QED
    BY <1>2, <1>6, <2>1, <2>2, BumpWorks DEF CommitLink, CheckedLink, IInv
<1> QED
  BY <1>2, <1>4, <1>5, <1>6

\* Both ends of every edge that a commit writes advance their version.
THEOREM EveryChangeIsVersioned == Spec => ChangesAreVersioned
<1>1. IInv /\ [Next]_vars =>
        [\A w \in Works : Ends(w)' # Ends(w) => work'[w].version > work[w].version]_vars
  BY EdgesChangeAtCommit
<1> QED
  BY <1>1, Invariant, PTL DEF Spec, ChangesAreVersioned

\* No edge appears or disappears at an item that is archived at that moment.
THEOREM ArchivedItemsKeepTheirEdges == Spec => ArchivedIsLeftAlone
<1>1. IInv /\ [Next]_vars => [\A w \in Works : Ends(w)' # Ends(w) => Active(w)]_vars
  BY EdgesChangeAtCommit DEF Current
<1> QED
  BY <1>1, Invariant, PTL DEF Spec, ArchivedIsLeftAlone

\* Done work keeps its parent, children, dependencies and blockers.
THEOREM CompletedWorkKeepsItsScope == Spec => CompletedScopeIsFixed
<1>1. ASSUME IInv, [Next]_vars, NEW w \in Works, work[w].done
      PROVE  Scope(w)' = Scope(w)
  <2> SUFFICES ASSUME Scope(w)' # Scope(w) PROVE FALSE
    OBVIOUS
  <2>1. tx # NoTx /\ w \in DOMAIN tx.seen
    BY <1>1, EdgesChangeAtCommit, Zenon DEF Ends
  <2>2. tx.do = "member"
    BY <1>1, <2>1 DEF IInv, Checked, CheckedParent, CheckedLink
  <2>3. ~CommitParent /\ ~CommitLink
    BY <2>2 DEF CommitParent, CommitLink
  <2>4. CommitMember
    BY <1>1, <2>3, CommitsWriteEdges, Zenon DEF Scope
  <2> QED
    BY <2>4 DEF CommitMember, Scope
<1>2. IInv /\ [Next]_vars => [\A w \in Works : work[w].done => Scope(w)' = Scope(w)]_vars
  BY <1>1
<1> QED
  BY <1>2, Invariant, PTL DEF Spec, CompletedScopeIsFixed
=============================================================================
