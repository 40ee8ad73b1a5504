--------------------------- MODULE LifecycleProofs ---------------------------
(***************************************************************************)
(* Proofs about WorkLifecycle, for any number of processes, proposals,     *)
(* decisions and versions: dispositions are consistent, no change is lost  *)
(* and an archived proposal is frozen.                                     *)
(*                                                                         *)
(* What an operation read is still true while the version has not moved:   *)
(* every commit that touches the proposal, or its Decision edges, raises   *)
(* the version.  The compare-and-set on the version therefore re-checks    *)
(* all that the operation decided from, and the lock of the written node   *)
(* keeps it true until the commit.                                         *)
(***************************************************************************)
EXTENDS WorkLifecycle, FiniteSetTheorems, TLAPS

Pcs == {"idle", "requested", "read", "checked", "created", "written"}
Begun == {"read", "checked", "created", "written"}

AnyArg == Contents \cup Statuses \cup Decisions \cup Issues \cup {None}

Jobs == [pc : Pcs, op : NamedOps \cup {"none"}, named : BOOLEAN, x : Proposals \cup {None},
         arg : AnyArg, expect : Nat, next : Nodes, decision : Decisions \cup {None}]

Decides(j) == j.op \in {"accept", "reject"}

\* The version is still the one the operation read.
Current(j) == node[j.x].version = j.next.version - 1

\* What a request may rely on at each place.
Good(j) ==
    /\ j \in Jobs
    /\ j.pc # "idle" => j.op \in NamedOps /\ j.x \in Proposals /\ j.arg \in Args(j.op)
    /\ j.pc \in Begun =>
         /\ node[j.x].version >= j.next.version - 1
         /\ Current(j) => Admits(j, node[j.x]) /\ j.next = Planned(j, node[j.x])
    /\ j.pc \in {"checked", "created", "written"} =>
         /\ Decides(j) /\ Current(j) => Disposed(j.x) = {}
         /\ j.op = "convert" =>
              [from |-> j.x, rel |-> "ACCEPTED_BY_DECISION", to |-> j.decision] \in edges
    /\ j.pc = "written" /\ Writes(j) => Current(j)

\* What the locks of the transactions under way exclude.
Locks ==
    /\ \A p \in Procs : Open(p) /\ Decides(job[p]) => job[p].arg \notin decisions
    /\ \A p, q \in Procs : p # q =>
         /\ ~ /\ job[p].pc = "written" /\ job[q].pc = "written"
              /\ Writes(job[p]) /\ Writes(job[q]) /\ job[p].x = job[q].x
         /\ ~ /\ Open(p) /\ Open(q) /\ Decides(job[p]) /\ Decides(job[q])
              /\ job[p].arg = job[q].arg

EdgeInv ==
    /\ \A e \in edges : e.to \in decisions
    /\ \A e, f \in edges : e.from = f.from => e = f
    /\ AcceptedIsDecided /\ DecisionsAreSpentOnce /\ ConversionsAreDecided

StoreType ==
    /\ node \in [Proposals -> Nodes]
    /\ decisions \subseteq Decisions
    /\ edges \subseteq Edges
    /\ issue \in [Issues -> [from : Proposals, decision : Decisions] \cup {NoIssue}]

\* The inductive invariant.
IInv ==
    /\ StoreType /\ EdgeInv /\ NothingLost
    /\ job \in [Procs -> Jobs] /\ \A p \in Procs : Good(job[p])
    /\ Locks

-----------------------------------------------------------------------------
LEMMA IdleIsGood == Idle \in Jobs /\ Good(Idle)
<1>1. Absent \in Nodes
  BY DEF Absent, Nodes
<1>2. Idle \in Jobs /\ Idle.pc = "idle"
  BY <1>1 DEF Idle, Jobs, Pcs, AnyArg
<1> QED
  BY <1>2 DEF Good, Begun

LEMMA InitIInv == Init => IInv
<1> SUFFICES ASSUME Init PROVE IInv
  OBVIOUS
<1>1. StoreType /\ NothingLost
  BY DEF Init, StoreType, NothingLost, Absent, Nodes
<1>2. job \in [Procs -> Jobs] /\ (\A p \in Procs : Good(job[p])) /\ \A p \in Procs : job[p].pc = "idle"
  <2>1. Idle.pc = "idle"
    BY DEF Idle
  <2> QED
    BY <2>1, IdleIsGood DEF Init
<1>3. Locks
  BY <1>2 DEF Locks, Open
<1>4. EdgeInv
  BY DEF Init, EdgeInv, AcceptedIsDecided, DecisionsAreSpentOnce, ConversionsAreDecided,
     AcceptedBy, Disposed, Absent
<1> QED
  BY <1>1, <1>2, <1>3, <1>4 DEF IInv

\* What the invariant gives.
LEMMA IInvImplies == IInv => DispositionInv /\ NothingLost
<1> SUFFICES ASSUME IInv PROVE DispositionInv
  BY DEF IInv
<1>1. TypeOK
  BY Zenon DEF IInv, StoreType, NothingLost, TypeOK, Good, Jobs, Pcs
<1>2. OneDisposition
  <2> SUFFICES ASSUME NEW x \in Proposals PROVE Cardinality(Disposed(x)) <= 1
    BY DEF OneDisposition
  <2>1. CASE Disposed(x) = {}
    BY <2>1, FS_EmptySet
  <2>2. CASE Disposed(x) # {}
    <3>1. PICK e \in Disposed(x) : TRUE
      BY <2>2
    <3>2. Disposed(x) = {e}
      BY <3>1 DEF IInv, EdgeInv, Disposed
    <3> QED
      BY <3>2, FS_Singleton
  <2> QED
    BY <2>1, <2>2
<1> QED
  BY <1>1, <1>2 DEF IInv, EdgeInv, DispositionInv

-----------------------------------------------------------------------------
(* Steps that leave the store alone.                                       *)

\* One process goes on from its record to the record k.
LEMMA JobStep ==
  ASSUME IInv, NEW p \in Procs, NEW k, job' = [job EXCEPT ![p] = k], UNCHANGED Store,
         Good(k),
         k.pc \in {"created", "written"} /\ Decides(k) =>
           /\ k.arg \notin decisions
           /\ \A q \in Procs \ {p} : ~ (Open(q) /\ Decides(job[q]) /\ job[q].arg = k.arg),
         k.pc = "written" /\ Writes(k) =>
           \A q \in Procs \ {p} : ~ (job[q].pc = "written" /\ Writes(job[q]) /\ job[q].x = k.x)
  PROVE  IInv'
<1>0. UNCHANGED <<node, decisions, edges, issue, meant>>
  BY DEF Store
<1>1. StoreType' /\ EdgeInv' /\ NothingLost'
  BY <1>0 DEF IInv, StoreType, EdgeInv, NothingLost, AcceptedIsDecided, DecisionsAreSpentOnce,
     ConversionsAreDecided, AcceptedBy, Disposed
<1>2. job' \in [Procs -> Jobs] /\ job'[p] = k /\ \A q \in Procs \ {p} : job'[q] = job[q]
  BY DEF IInv, Good
<1>3. \A j : Good(j)' <=> Good(j)
  BY <1>0 DEF Good, Current, Disposed
<1>4. \A q \in Procs : Good(job'[q])
  BY <1>2 DEF IInv
<1>5. \A q \in Procs : Good(job[q])'
  BY <1>3, <1>4
<1>6. Locks'
  BY <1>0, <1>2 DEF IInv, Locks, Open
<1> QED
  BY <1>1, <1>2, <1>5, <1>6 DEF IInv

LEMMA LeaveKeeps ==
  ASSUME IInv, NEW p \in Procs, Leave(p)
  PROVE  IInv'
<1>1. Idle.pc = "idle"
  BY DEF Idle
<1> QED
  BY <1>1, IdleIsGood, JobStep, Zenon DEF Leave, Store

LEMMA RequestKeeps ==
  ASSUME IInv, NEW p \in Procs, Request(p)
  PROVE  IInv'
<1>0. \A op \in NamedOps : Args(op) \subseteq AnyArg
  BY DEF Args, AnyArg
<1>1. PICK named \in BOOLEAN, x \in Proposals, op \in NamedOps, arg \in AnyArg :
        arg \in Args(op) /\ job' = [job EXCEPT ![p] =
                  [Idle EXCEPT !.pc = "requested", !.op = op, !.named = named,
                               !.x = x, !.arg = arg, !.expect = node[x].version]]
  BY <1>0, Zenon DEF Request, NamedOps
<1> DEFINE k == [Idle EXCEPT !.pc = "requested", !.op = op, !.named = named,
                             !.x = x, !.arg = arg, !.expect = node[x].version]
<1>2. node[x].version \in Nat
  BY DEF IInv, StoreType, Nodes
<1>4. Idle \in Jobs
  BY IdleIsGood
<1>5. k \in Jobs
  BY <1>2, <1>4, Zenon DEF Jobs, Pcs
<1>6. k.pc = "requested" /\ k.op = op /\ k.x = x /\ k.arg = arg
  BY <1>4 DEF Jobs
<1>7. job' = [job EXCEPT ![p] = k] /\ UNCHANGED Store
  BY <1>1, Zenon DEF Request
<1> HIDE DEF k
<1>8. Good(k)
  BY <1>1, <1>5, <1>6 DEF Good, Begun
<1> QED
  BY <1>6, <1>7, <1>8, JobStep, Zenon

\* What an operation plans is a node, one version on.
LEMMA PlannedFacts ==
  ASSUME NEW j \in Jobs, j.op \in NamedOps, j.arg \in Args(j.op), NEW n \in Nodes, Admits(j, n)
  PROVE  Planned(j, n) \in Nodes /\ Planned(j, n).version = n.version + 1
<1>0. n.version \in Nat /\ n.archived \in BOOLEAN
  BY DEF Nodes
<1>1. Bumped(n) \in Nodes /\ Bumped(n).version = n.version + 1
  BY <1>0 DEF Bumped, Nodes
<1>2. CASE j.op = "create"
  <2>1. j.arg \in Contents /\ n.version = 0
    BY <1>2 DEF Args, Admits, Absent
  <2> QED
    BY <1>2, <2>1 DEF Planned, Nodes, Statuses
<1>3. CASE j.op = "patch"
  <2>1. j.arg \in Contents
    BY <1>3 DEF Args
  <2>2. Planned(j, n) = [Bumped(n) EXCEPT !.content = j.arg]
    BY <1>3 DEF Planned
  <2> QED
    BY <1>1, <2>1, <2>2 DEF Nodes
<1>4. CASE j.op = "archive"
  BY <1>1, <1>4, Zenon DEF Planned, Archived, Nodes
<1>5. CASE j.op = "restore"
  BY <1>1, <1>5, Zenon DEF Planned, Restored, Nodes
<1>6. CASE j.op = "status"
  <2>1. j.arg \in Statuses
    BY <1>6 DEF Args
  <2>2. Planned(j, n) = [Bumped(n) EXCEPT !.status = j.arg]
    BY <1>6 DEF Planned
  <2> QED
    BY <1>1, <2>1, <2>2 DEF Nodes
<1>7. CASE j.op = "accept"
  <2>2. Planned(j, n) = [Bumped(n) EXCEPT !.status = "accepted"]
    BY <1>7 DEF Planned
  <2> QED
    BY <1>1, <2>2 DEF Nodes, Statuses
<1>8. CASE j.op \in {"reject", "convert"}
  <2>2. Planned(j, n) = Bumped(n)
    BY <1>8 DEF Planned
  <2> QED
    BY <1>1, <2>2
<1> QED
  BY <1>2, <1>3, <1>4, <1>5, <1>6, <1>7, <1>8 DEF NamedOps, GenericOps

LEMMA ReadKeeps ==
  ASSUME IInv, NEW p \in Procs, Read(p)
  PROVE  IInv'
<1> DEFINE j == job[p]
           n == node[j.x]
<1>1. CASE ~ (Expected(j, n) /\ Admits(j, n))
  BY <1>1, LeaveKeeps DEF Read
<1>2. CASE Expected(j, n) /\ Admits(j, n)
  <2>0. /\ Good(j) /\ j.pc = "requested" /\ job \in [Procs -> Jobs] /\ UNCHANGED Store
        /\ job' = [job EXCEPT ![p].pc = "read", ![p].next = Planned(j, n)]
    BY <1>2 DEF IInv, Read
  <2>1. j \in Jobs /\ j.op \in NamedOps /\ j.x \in Proposals /\ j.arg \in Args(j.op)
    BY <2>0 DEF Good
  <2>2. n \in Nodes /\ n.version \in Nat
    BY <2>1 DEF IInv, StoreType, Nodes
  <2>3. Planned(j, n) \in Nodes /\ Planned(j, n).version = n.version + 1
    BY <1>2, <2>1, <2>2, PlannedFacts
  <2> DEFINE k == [j EXCEPT !.pc = "read", !.next = Planned(j, n)]
  <2>4. k \in Jobs
    BY <2>1, <2>3, Zenon DEF Jobs, Pcs
  <2>5. /\ k.pc = "read" /\ k.op = j.op /\ k.x = j.x /\ k.arg = j.arg
        /\ k.next = Planned(j, n)
    BY <2>1 DEF Jobs
  <2>6. job' = [job EXCEPT ![p] = k]
    BY <2>0, Zenon
  <2> HIDE DEF k
  <2>7. Admits(k, n) /\ Planned(k, n) = Planned(j, n)
    BY <1>2, <2>5 DEF Admits, Planned
  <2>8. node[k.x].version >= k.next.version - 1
    BY <2>2, <2>3, <2>5
  <2>9. Good(k)
    BY <2>1, <2>4, <2>5, <2>7, <2>8 DEF Good, Begun
  <2> QED
    BY <2>0, <2>5, <2>6, <2>9, JobStep, Zenon
<1> QED
  BY <1>1, <1>2

\* A request goes on, what it has read and decided staying as it is.
LEMMA Onward ==
  ASSUME IInv, NEW p \in Procs, NEW c \in Pcs, NEW d \in Decisions \cup {None}
  PROVE  LET j == job[p]
             k == [j EXCEPT !.pc = c, !.decision = d]
         IN  /\ k \in Jobs /\ k.pc = c /\ k.op = j.op /\ k.x = j.x /\ k.arg = j.arg
             /\ k.next = j.next /\ k.named = j.named /\ k.decision = d
             /\ \A n : (Admits(k, n) <=> Admits(j, n)) /\ Planned(k, n) = Planned(j, n)
             /\ Current(k) <=> Current(j)
             /\ Decides(k) <=> Decides(j)
             /\ Writes(k) <=> Writes(j)
<1> DEFINE j == job[p]
           k == [j EXCEPT !.pc = c, !.decision = d]
<1>0. j \in Jobs
  BY DEF IInv
<1>1. k \in Jobs
  BY <1>0, Zenon DEF Jobs
<1>2. /\ k.pc = c /\ k.op = j.op /\ k.x = j.x /\ k.arg = j.arg
      /\ k.next = j.next /\ k.named = j.named /\ k.decision = d
  BY <1>0 DEF Jobs
<1> HIDE DEF k
<1>3. \A n : (Admits(k, n) <=> Admits(j, n)) /\ Planned(k, n) = Planned(j, n)
  BY <1>2 DEF Admits, Planned
<1>4. (Current(k) <=> Current(j)) /\ (Decides(k) <=> Decides(j)) /\ (Writes(k) <=> Writes(j))
  BY <1>2 DEF Current, Decides, Writes
<1> QED
  BY <1>1, <1>2, <1>3, <1>4 DEF k

LEMMA AdvanceKeeps ==
  ASSUME IInv, NEW p \in Procs, NEW c \in {"checked", "created", "written"},
         NEW d \in Decisions \cup {None},
         job' = [job EXCEPT ![p] = [job[p] EXCEPT !.pc = c, !.decision = d]], UNCHANGED Store,
         job[p].pc \in Begun,
         Decides(job[p]) /\ Current(job[p]) => Disposed(job[p].x) = {},
         job[p].op = "convert" =>
           [from |-> job[p].x, rel |-> "ACCEPTED_BY_DECISION", to |-> d] \in edges,
         c = "written" /\ Writes(job[p]) => Current(job[p]) /\ Writable(p, job[p].x),
         c \in {"created", "written"} /\ Decides(job[p]) =>
           /\ job[p].arg \notin decisions
           /\ \A q \in Procs \ {p} : ~ (Open(q) /\ Decides(job[q]) /\ job[q].arg = job[p].arg)
  PROVE  IInv'
<1> DEFINE j == job[p]
           k == [j EXCEPT !.pc = c, !.decision = d]
<1>1. c \in Pcs
  BY DEF Pcs
<1>2. /\ k \in Jobs /\ k.pc = c /\ k.op = j.op /\ k.x = j.x /\ k.arg = j.arg
      /\ k.next = j.next /\ k.named = j.named /\ k.decision = d
      /\ \A n : (Admits(k, n) <=> Admits(j, n)) /\ Planned(k, n) = Planned(j, n)
      /\ Current(k) <=> Current(j)
      /\ Decides(k) <=> Decides(j)
      /\ Writes(k) <=> Writes(j)
  BY <1>1, Onward, Zenon
<1>3. Good(j) /\ j.pc \in Begun /\ j.pc # "idle"
  BY DEF IInv, Begun
<1>4. job' = [job EXCEPT ![p] = k]
  OBVIOUS
<1> HIDE DEF k
<1>5. k.op \in NamedOps /\ k.x \in Proposals /\ k.arg \in Args(k.op)
  BY <1>2, <1>3 DEF Good
<1>6. /\ node[k.x].version >= k.next.version - 1
      /\ Current(k) => Admits(k, node[k.x]) /\ k.next = Planned(k, node[k.x])
  BY <1>2, <1>3 DEF Good
<1>7. Good(k)
  BY <1>2, <1>5, <1>6 DEF Good
<1>8. k.pc \in {"created", "written"} /\ Decides(k) =>
        /\ k.arg \notin decisions
        /\ \A q \in Procs \ {p} : ~ (Open(q) /\ Decides(job[q]) /\ job[q].arg = k.arg)
  BY <1>2
<1>9. k.pc = "written" /\ Writes(k) =>
        \A q \in Procs \ {p} : ~ (job[q].pc = "written" /\ Writes(job[q]) /\ job[q].x = k.x)
  BY <1>2 DEF Writable
<1> QED
  BY <1>4, <1>7, <1>8, <1>9, JobStep, Zenon

\* Only the program counter moves.
LEMMA OnlyPc ==
  ASSUME IInv, NEW p \in Procs, NEW c
  PROVE  /\ [job EXCEPT ![p].pc = c] = [job EXCEPT ![p] = [job[p] EXCEPT !.pc = c,
                                                            !.decision = job[p].decision]]
         /\ job[p].decision \in Decisions \cup {None}
<1>1. job[p] \in Jobs /\ job \in [Procs -> Jobs]
  BY DEF IInv
<1>2. [job[p] EXCEPT !.pc = c] = [job[p] EXCEPT !.pc = c, !.decision = job[p].decision]
  BY <1>1, Zenon DEF Jobs
<1>3. [job EXCEPT ![p].pc = c] = [job EXCEPT ![p] = [job[p] EXCEPT !.pc = c]]
  OBVIOUS
<1>4. job[p].decision \in Decisions \cup {None}
  BY <1>1 DEF Jobs
<1> QED
  BY <1>2, <1>3, <1>4, Zenon

LEMMA ProvenanceKeeps ==
  ASSUME IInv, NEW p \in Procs, Provenance(p)
  PROVE  IInv'
<1>0. job[p].pc = "read" /\ job[p].op \in Creating /\ job[p].pc \in Begun
  BY DEF Provenance, Begun
<1>1. CASE Leave(p)
  BY <1>1, LeaveKeeps
<1>2. CASE /\ job[p].op # "convert" /\ Undisposed(job[p])
           /\ job' = [job EXCEPT ![p].pc = "checked"] /\ UNCHANGED Store
  BY <1>0, <1>2, OnlyPc, AdvanceKeeps, Zenon DEF Undisposed
<1>3. CASE /\ job[p].op = "convert" /\ UNCHANGED Store
           /\ \E e \in {e \in AcceptedBy(job[p].x) : e.to \in decisions} :
                job' = [job EXCEPT ![p].pc = "checked", ![p].decision = e.to]
  <2>1. PICK e \in AcceptedBy(job[p].x) :
          job' = [job EXCEPT ![p].pc = "checked", ![p].decision = e.to]
    BY <1>3, Zenon
  <2>2. e \in edges /\ e \in Edges /\ e.from = job[p].x /\ e.rel = "ACCEPTED_BY_DECISION"
    BY DEF IInv, StoreType, AcceptedBy, Disposed
  <2>3. e.to \in Decisions /\ [from |-> job[p].x, rel |-> "ACCEPTED_BY_DECISION", to |-> e.to] = e
    BY <2>2 DEF Edges
  <2>4. job' = [job EXCEPT ![p] = [job[p] EXCEPT !.pc = "checked", !.decision = e.to]]
    BY <2>1, Zenon DEF IInv
  <2>5. ~ Decides(job[p])
    BY <1>3 DEF Decides
  <2> QED
    BY <1>0, <1>3, <2>2, <2>3, <2>4, <2>5, AdvanceKeeps, ZenonT(30)
<1> QED
  BY <1>1, <1>2, <1>3 DEF Provenance

LEMMA CreateKeeps ==
  ASSUME IInv, NEW p \in Procs, Create(p)
  PROVE  IInv'
<1>1. CASE Stored(job[p].arg)
  BY <1>1, LeaveKeeps DEF Create
<1>2. CASE ~ Stored(job[p].arg)
  <2>1. /\ job[p].pc = "checked" /\ Good(job[p]) /\ job[p].pc \in Begun
        /\ job' = [job EXCEPT ![p].pc = "created"] /\ UNCHANGED Store
        /\ Creatable(p, job[p].arg) /\ job[p].arg \notin decisions
    BY <1>2 DEF Create, IInv, Begun, Stored
  <2>2. /\ Decides(job[p]) /\ Current(job[p]) => Disposed(job[p].x) = {}
        /\ job[p].op = "convert" =>
             [from |-> job[p].x, rel |-> "ACCEPTED_BY_DECISION", to |-> job[p].decision] \in edges
    BY <2>1 DEF Good
  <2> QED
    BY <2>1, <2>2, OnlyPc, AdvanceKeeps, Zenon DEF Creatable
<1> QED
  BY <1>1, <1>2

LEMMA WriteKeeps ==
  ASSUME IInv, NEW p \in Procs, Write(p)
  PROVE  IInv'
<1>1. CASE Leave(p)
  BY <1>1, LeaveKeeps
<1>2. CASE ~ Leave(p)
  <2>1. /\ job[p].pc \in {"created", "read"} /\ Good(job[p]) /\ job[p].pc \in Begun
        /\ job[p].pc = "read" => job[p].op \notin Creating
        /\ Writes(job[p]) => Writable(p, job[p].x) /\ Unchanged(job[p], node[job[p].x])
        /\ job' = [job EXCEPT ![p].pc = "written"] /\ UNCHANGED Store
    BY <1>2 DEF Write, IInv, Begun
  <2>2. /\ Decides(job[p]) /\ Current(job[p]) => Disposed(job[p].x) = {}
        /\ job[p].op = "convert" =>
             [from |-> job[p].x, rel |-> "ACCEPTED_BY_DECISION", to |-> job[p].decision] \in edges
    BY <2>1 DEF Good, Decides, Creating
  <2>3. Writes(job[p]) => Current(job[p])
    BY <2>1 DEF Unchanged, Current
  <2>4. Decides(job[p]) =>
          /\ job[p].arg \notin decisions
          /\ \A q \in Procs \ {p} : ~ (Open(q) /\ Decides(job[q]) /\ job[q].arg = job[p].arg)
    BY <2>1 DEF IInv, Locks, Open, Decides, Creating
  <2> QED
    BY <2>1, <2>2, <2>3, <2>4, OnlyPc, AdvanceKeeps, Zenon
<1> QED
  BY <1>1, <1>2

-----------------------------------------------------------------------------
(* The commit.                                                             *)

\* What an operation does to the status, and to an archived node.
LEMMA PlannedStatus ==
  ASSUME NEW j \in Jobs, j.op \in NamedOps, NEW n \in Nodes, Admits(j, n)
  PROVE  /\ j.op = "accept" => Planned(j, n).status = "accepted"
         /\ j.op # "accept" => (Planned(j, n).status = "accepted" <=> n.status = "accepted")
         /\ n.archived => Planned(j, n) = [Bumped(n) EXCEPT !.archived = FALSE]
<1>1. Bumped(n).status = n.status /\ Bumped(n) \in [status : Statuses \cup {"absent"}, archived : BOOLEAN,
                                          version : Int, content : Contents \cup {None}]
  BY DEF Bumped, Nodes
<1>2. CASE j.op = "create"
  BY <1>2 DEF Planned, Admits, Absent
<1>3. CASE j.op \in {"patch", "reject", "convert", "archive", "accept"}
  <2>1. ~ n.archived
    BY <1>3 DEF Admits
  <2> QED
    BY <1>1, <1>3, <2>1 DEF Planned, Archived
<1>4. CASE j.op = "restore"
  BY <1>1, <1>4 DEF Planned, Restored
<1>5. CASE j.op = "status"
  <2>1. ~ n.archived /\ <<n.status, j.arg>> \in Moves
    BY <1>5 DEF Admits
  <2>2. n.status # "accepted" /\ j.arg # "accepted"
    BY <2>1 DEF Moves
  <2>3. Planned(j, n).status = j.arg
    BY <1>1, <1>5 DEF Planned
  <2> QED
    BY <1>5, <2>1, <2>2, <2>3
<1> QED
  BY <1>2, <1>3, <1>4, <1>5 DEF NamedOps, GenericOps

\* A commit leaves what the other requests rely on, or moves the version.
LEMMA OthersKeep ==
  ASSUME NEW k, Good(k), StoreType, StoreType', edges \subseteq edges',
         \A y \in Proposals :
           \/ node'[y] = node[y] /\ Disposed(y)' = Disposed(y)
           \/ node'[y].version = node[y].version + 1,
         k.pc = "written" /\ Writes(k) => node'[k.x] = node[k.x] /\ Disposed(k.x)' = Disposed(k.x)
  PROVE  Good(k)'
<1>0. k \in Jobs /\ k.next.version \in Nat
  BY DEF Good, Jobs, Nodes
<1>1. CASE k.pc \notin Begun
  BY <1>0, <1>1 DEF Good, Begun
<1>2. CASE k.pc \in Begun
  <2>1. k.x \in Proposals /\ k.pc # "idle"
    BY <1>2 DEF Good, Begun
  <2>2. node[k.x].version \in Nat /\ node'[k.x].version \in Nat
    BY <2>1 DEF StoreType, Nodes
  <2>3. node[k.x].version >= k.next.version - 1
    BY <1>2 DEF Good
  <2>4. CASE node'[k.x] = node[k.x] /\ Disposed(k.x)' = Disposed(k.x)
    BY <1>0, <1>2, <2>1, <2>4 DEF Good, Current
  <2>5. CASE node'[k.x].version = node[k.x].version + 1
    <3>1. node'[k.x].version >= k.next.version - 1 /\ ~ (node'[k.x].version = k.next.version - 1)
      BY <1>0, <2>2, <2>3, <2>5
    <3>2. ~ (node'[k.x] = node[k.x])
      BY <2>2, <2>5
    <3> QED
      BY <1>0, <1>2, <2>1, <3>1, <3>2 DEF Good, Current
  <2> QED
    BY <2>1, <2>4, <2>5
<1> QED
  BY <1>1, <1>2

\* What a step may do to an archived proposal.
Frozen ==
    \A x \in Proposals :
        node[x].archived /\ node'[x] # node[x] =>
            node'[x] = [Bumped(node[x]) EXCEPT !.archived = FALSE]

LEMMA CommitKeeps ==
  ASSUME IInv, NEW p \in Procs, Commit(p)
  PROVE  IInv' /\ Frozen
<1>1. PICK j \in Jobs : j = job[p]
  BY DEF IInv
<1>2. PICK x \in Proposals : x = j.x
  BY <1>1, Zenon DEF IInv, Good, Commit
<1>3. PICK n \in Nodes : n = node[x]
  BY DEF IInv, StoreType
<1>4. /\ Good(j) /\ j.pc = "written" /\ j.op \in NamedOps /\ j.arg \in Args(j.op)
      /\ StoreType /\ EdgeInv /\ NothingLost
  BY <1>1, Zenon DEF IInv, Good, Commit
<1>5. /\ Decides(j) => Writes(j) /\ j.arg \in Decisions /\ j.op # "convert"
      /\ j.op = "convert" => j.arg \in Issues
      /\ j.op = "accept" => Decides(j)
  BY <1>4 DEF Decides, Writes, Args
<1>6. Writes(j) => /\ Admits(j, n) /\ j.next = Planned(j, n) /\ j.next \in Nodes
                   /\ j.next.version = n.version + 1
  <2>1. Writes(j) => Admits(j, n) /\ j.next = Planned(j, n)
    BY <1>2, <1>3, <1>4 DEF Good, Begun
  <2> QED
    BY <1>4, <2>1, PlannedFacts
<1>7. Decides(j) => Disposed(x) = {} /\ j.arg \notin decisions
  <2>1. Decides(j) => Disposed(x) = {}
    BY <1>2, <1>4, <1>5 DEF Good
  <2>2. Decides(j) => j.arg \notin decisions
    BY <1>1, <1>4 DEF IInv, Locks, Open
  <2> QED
    BY <2>1, <2>2
<1>8. j.op = "convert" =>
        /\ [from |-> x, rel |-> "ACCEPTED_BY_DECISION", to |-> j.decision] \in edges
        /\ j.decision \in Decisions
  <2>1. j.op = "convert" =>
          [from |-> x, rel |-> "ACCEPTED_BY_DECISION", to |-> j.decision] \in edges
    BY <1>2, <1>4 DEF Good
  <2> QED
    BY <1>4, <2>1 DEF StoreType, Edges
<1>9. /\ node' = IF Writes(j) THEN [node EXCEPT ![x] = j.next] ELSE node
      /\ meant' = IF Writes(j) THEN [meant EXCEPT ![x] = Planned(j, @)] ELSE meant
      /\ decisions' = IF Decides(j) THEN decisions \cup {j.arg} ELSE decisions
      /\ edges' = IF Decides(j) THEN edges \cup {NewEdge(j)} ELSE edges
      /\ issue' = IF j.op = "convert"
                  THEN [issue EXCEPT ![j.arg] = [from |-> x, decision |-> j.decision]]
                  ELSE issue
      /\ job' = [job EXCEPT ![p] = Idle]
  BY <1>1, <1>2 DEF Commit, Decides
<1>10. /\ Writes(j) => node'[x] = j.next
       /\ ~ Writes(j) => node'[x] = node[x]
       /\ \A y \in Proposals \ {x} : node'[y] = node[y]
  BY <1>4, <1>9 DEF StoreType
<1>11. Decides(j) =>
         /\ NewEdge(j) \in Edges /\ NewEdge(j).from = x /\ NewEdge(j).to = j.arg
         /\ NewEdge(j).rel = IF j.op = "accept" THEN "ACCEPTED_BY_DECISION" ELSE "REJECTED_BY_DECISION"
  BY <1>2, <1>5 DEF NewEdge, Edges, Relations
<1>12. StoreType'
  <2>1. node' \in [Proposals -> Nodes]
    BY <1>4, <1>6, <1>9 DEF StoreType
  <2>2. decisions' \subseteq Decisions /\ edges' \subseteq Edges
    BY <1>4, <1>5, <1>9, <1>11 DEF StoreType
  <2>3. issue' \in [Issues -> [from : Proposals, decision : Decisions] \cup {NoIssue}]
    BY <1>4, <1>5, <1>8, <1>9 DEF StoreType
  <2> QED
    BY <2>1, <2>2, <2>3 DEF StoreType
<1>13. NothingLost'
  BY <1>3, <1>4, <1>6, <1>9, Zenon DEF NothingLost, StoreType
<1>14. Frozen
  <2>1. Writes(j) /\ n.archived => j.next = [Bumped(n) EXCEPT !.archived = FALSE]
    BY <1>4, <1>6, PlannedStatus, Zenon
  <2> QED
    BY <1>3, <1>10, <2>1, Zenon DEF Frozen
<1>15. EdgeInv'
  <2>1. \A e \in edges' : e.to \in decisions'
    BY <1>4, <1>9, <1>11 DEF EdgeInv
  <2>2. \A e, f \in edges' : e.from = f.from => e = f
    BY <1>4, <1>7, <1>9, <1>11 DEF EdgeInv, Disposed
  <2>3. DecisionsAreSpentOnce'
    BY <1>4, <1>7, <1>9, <1>11 DEF EdgeInv, DecisionsAreSpentOnce
  <2>4. \A y \in Proposals : node[y].status = "accepted" <=>
          \E e \in edges : e.from = y /\ e.rel = "ACCEPTED_BY_DECISION"
    BY <1>4 DEF EdgeInv, AcceptedIsDecided, AcceptedBy, Disposed
  <2>5. \A y \in Proposals : node'[y].status = "accepted" <=>
          \E e \in edges' : e.from = y /\ e.rel = "ACCEPTED_BY_DECISION"
    <3> SUFFICES ASSUME NEW y \in Proposals
                 PROVE  node'[y].status = "accepted" <=>
                          \E e \in edges' : e.from = y /\ e.rel = "ACCEPTED_BY_DECISION"
      OBVIOUS
    <3>1. CASE y # x
      BY <1>9, <1>10, <1>11, <2>4, <3>1
    <3>2. CASE y = x /\ j.op = "accept"
      BY <1>4, <1>5, <1>6, <1>9, <1>10, <1>11, <3>2, PlannedStatus
    <3>3. CASE y = x /\ j.op # "accept"
      <4>1. node'[x].status = "accepted" <=> node[x].status = "accepted"
        BY <1>3, <1>4, <1>6, <1>10, <3>3, PlannedStatus
      <4>2. \A e : e.rel = "ACCEPTED_BY_DECISION" => (e \in edges' <=> e \in edges)
        BY <1>9, <1>11, <3>3
      <4> QED
        BY <2>4, <3>3, <4>1, <4>2
    <3> QED
      BY <3>1, <3>2, <3>3
  <2>6. AcceptedIsDecided'
    BY <2>1, <2>5 DEF AcceptedIsDecided, AcceptedBy, Disposed
  <2>7. ConversionsAreDecided'
    <3> SUFFICES ASSUME NEW i \in Issues, issue'[i] # NoIssue
                 PROVE  /\ [from |-> issue'[i].from, rel |-> "ACCEPTED_BY_DECISION",
                            to |-> issue'[i].decision] \in edges'
                        /\ node'[issue'[i].from].status = "accepted"
      BY DEF ConversionsAreDecided
    <3>1. issue'[i] \in [from : Proposals, decision : Decisions]
      BY <1>12 DEF StoreType
    <3>2. [from |-> issue'[i].from, rel |-> "ACCEPTED_BY_DECISION",
           to |-> issue'[i].decision] \in edges
      BY <1>4, <1>5, <1>8, <1>9 DEF EdgeInv, ConversionsAreDecided, StoreType
    <3>3. [from |-> issue'[i].from, rel |-> "ACCEPTED_BY_DECISION",
           to |-> issue'[i].decision] \in edges'
      BY <1>9, <3>2
    <3> QED
      BY <2>5, <3>1, <3>3
  <2> QED
    BY <2>1, <2>2, <2>3, <2>6, <2>7 DEF EdgeInv
<1>16. job' \in [Procs -> Jobs] /\ job'[p] = Idle /\ \A q \in Procs \ {p} : job'[q] = job[q]
  BY <1>9, IdleIsGood DEF IInv
<1>17. \A q \in Procs : Good(job[q])'
  <2> SUFFICES ASSUME NEW q \in Procs PROVE Good(job[q])'
    OBVIOUS
  <2>1. CASE q = p
    <3>1. Idle \in Jobs /\ Idle.pc = "idle"
      BY IdleIsGood DEF Idle
    <3> QED
      BY <1>16, <2>1, <3>1 DEF Good, Begun
  <2>2. CASE q # p
    <3>1. PICK k \in Jobs : k = job[q]
      BY DEF IInv
    <3>2. Good(k) /\ edges \subseteq edges'
      BY <1>9, <3>1 DEF IInv
    <3>3. \A y \in Proposals : y # x \/ ~ Writes(j) =>
            node'[y] = node[y] /\ Disposed(y)' = Disposed(y)
      BY <1>5, <1>9, <1>10, <1>11 DEF Disposed
    <3>4. Writes(j) => node'[x].version = node[x].version + 1
      BY <1>3, <1>6, <1>10
    <3>5. k.pc = "written" /\ Writes(k) => k.x \in Proposals /\ (k.x # x \/ ~ Writes(j))
      BY <1>1, <1>2, <1>4, <2>2, <3>1, <3>2, Zenon DEF IInv, Locks, Good
    <3>6. Good(k)'
      BY <1>4, <1>12, <3>2, <3>3, <3>4, <3>5, OthersKeep
    <3> QED
      BY <1>16, <2>2, <3>1, <3>6
  <2> QED
    BY <2>1, <2>2
<1>18. Locks'
  <2>1. Idle.pc = "idle"
    BY DEF Idle
  <2>2. \A q \in Procs \ {p} : Open(q) /\ Decides(job[q]) => job[q].arg \notin decisions'
    BY <1>1, <1>4, <1>9 DEF IInv, Locks, Open
  <2> QED
    BY <1>16, <2>1, <2>2 DEF IInv, Locks, Open
<1> QED
  BY <1>12, <1>13, <1>14, <1>15, <1>16, <1>17, <1>18 DEF IInv

-----------------------------------------------------------------------------
LEMMA NextKeeps == IInv /\ [Next]_vars => IInv' /\ (Frozen \/ UNCHANGED vars)
<1> SUFFICES ASSUME IInv, [Next]_vars PROVE IInv' /\ (Frozen \/ UNCHANGED vars)
  OBVIOUS
<1>1. CASE UNCHANGED vars
  <2>1. /\ node' = node /\ decisions' = decisions /\ edges' = edges /\ issue' = issue
        /\ job' = job /\ meant' = meant
    BY <1>1 DEF vars
  <2>2. StoreType' /\ NothingLost'
    BY <2>1 DEF IInv, StoreType, NothingLost
  <2>3. EdgeInv'
    BY <2>1 DEF IInv, EdgeInv, AcceptedIsDecided, DecisionsAreSpentOnce, ConversionsAreDecided,
                AcceptedBy, Disposed
  <2>4. \A p \in Procs : Good(job[p])'
    BY <2>1, Zenon DEF IInv, Good, Current, AcceptedBy, Disposed, Open
  <2>5. Locks'
    BY <2>1, Zenon DEF IInv, Locks, Open
  <2> QED
    BY <1>1, <2>1, <2>2, <2>3, <2>4, <2>5 DEF IInv
<1>2. CASE Next
  <2>1. PICK p \in Procs : \/ Request(p) \/ Read(p) \/ Provenance(p)
                           \/ Create(p) \/ Write(p) \/ Commit(p) \/ Abort(p)
    BY <1>2 DEF Next
  <2>2. CASE Commit(p)
    BY <2>2, CommitKeeps
  <2>3. CASE ~ Commit(p)
    <3>1. node' = node
      BY <2>1, <2>3, Zenon DEF Request, Read, Provenance, Create, Write, Abort, Leave, Store
    <3>2. IInv'
      BY <2>1, <2>3, RequestKeeps, ReadKeeps, ProvenanceKeeps, CreateKeeps, WriteKeeps, LeaveKeeps
         DEF Abort
    <3> QED
      BY <3>1, <3>2 DEF Frozen
  <2> QED
    BY <2>2, <2>3
<1> QED
  BY <1>1, <1>2

\* Whatever operations of lifecycle.py and repository.py are under way at once, on
\* any number of proposals: a proposal is disposed of once and accepted exactly
\* when a stored Decision accepted it, no committed change is lost, and an
\* archived proposal only changes by being restored.
THEOREM DispositionsAreSound == Spec => DispositionsHold
<1>1. IInv /\ [Next]_vars =>
        [\A x \in Proposals :
           node[x].archived /\ node'[x] # node[x] =>
               node'[x] = [Bumped(node[x]) EXCEPT !.archived = FALSE]]_vars
  BY NextKeeps DEF Frozen
<1>2. IInv /\ [Next]_vars => IInv'
  BY NextKeeps
<1> QED
  BY <1>1, <1>2, InitIInv, IInvImplies, PTL DEF Spec, DispositionsHold, ArchivedIsFrozen
=============================================================================
