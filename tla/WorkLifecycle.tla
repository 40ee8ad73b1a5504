---------------------------- MODULE WorkLifecycle ----------------------------
(***************************************************************************)
(* The versioned work repository and the Proposal lifecycle over it        *)
(* (model/repository.py, model/lifecycle.py, and the operations of         *)
(* named_work.py and progress_mutations.py on a Proposal's status, content *)
(* and provenance), run by several processes against the Neo4j store.      *)
(*                                                                         *)
(* Two routes reach the same records.  The named receiver serialises its   *)
(* operations on one guard node and states the version it expects; the     *)
(* HTTP write routes open a plain transaction, take no guard, and only     *)
(* PATCH states a version.  In both, what an operation decides from is     *)
(* read without a lock, and its writes are compare-and-set statements on   *)
(* the version it read.  A statement is atomic and keeps the locks of the  *)
(* nodes it wrote until the transaction ends; nobody sees its writes       *)
(* before the commit.                                                      *)
(***************************************************************************)
EXTENDS Integers, FiniteSets, TLC

CONSTANTS
    Procs,       \* concurrent requests
    Proposals,   \* proposal ids
    Decisions,   \* decision ids
    Issues,      \* ids of the issues a proposal is converted to
    Contents,    \* the values of title, description and links
    MaxVersion,  \* bound: versions of one proposal explored
    None

ASSUME LifecycleAssumption ==
    /\ None \notin Procs \cup Decisions \cup Contents
    /\ MaxVersion \in Nat

VARIABLES
    node,        \* the stored Proposal nodes
    decisions,   \* the stored Decision nodes
    edges,       \* ACCEPTED_BY_DECISION and REJECTED_BY_DECISION
    issue,       \* the stored Issues with their conversion provenance
    job,         \* what each process is doing
    meant        \* what the committed requests asked for, field by field

vars == <<node, decisions, edges, issue, job, meant>>

Statuses == {"draft", "review", "accepted"}

Nodes == [status : Statuses \cup {"absent"}, archived : BOOLEAN,
          version : Nat, content : Contents \cup {None}]

Absent == [status |-> "absent", archived |-> FALSE, version |-> 0, content |-> None]

Relations == {"ACCEPTED_BY_DECISION", "REJECTED_BY_DECISION"}

Edges == [from : Proposals, rel : Relations, to : Decisions]

NoIssue == [from |-> None, decision |-> None]

\* The operations of each route, and what each takes besides the proposal.
GenericOps == {"create", "patch", "archive", "status", "accept", "convert"}

NamedOps == GenericOps \cup {"restore", "reject"}

\* These create the Decision or Issue node that their argument names.
Creating == {"accept", "reject", "convert"}

Args(op) ==
    CASE op \in {"create", "patch"}    -> Contents
      [] op = "status"                 -> Statuses
      [] op \in {"accept", "reject"}   -> Decisions
      [] op = "convert"                -> Issues
      [] OTHER                         -> {None}

Idle == [pc |-> "idle", op |-> "none", named |-> FALSE, x |-> None,
         arg |-> None, expect |-> 0, next |-> Absent, decision |-> None]

Init ==
    /\ node = [x \in Proposals |-> Absent]
    /\ decisions = {}
    /\ edges = {}
    /\ issue = [i \in Issues |-> NoIssue]
    /\ job = [p \in Procs |-> Idle]
    /\ meant = [x \in Proposals |-> Absent]

-----------------------------------------------------------------------------
(* Reading and locking                                                     *)

Disposed(x) == {e \in edges : e.from = x}

AcceptedBy(x) == {e \in Disposed(x) : e.rel = "ACCEPTED_BY_DECISION"}

Open(q) == job[q].pc \in {"created", "written"}

\* The guard node is held from the first statement of a named transaction to
\* its end.
GuardFree(p) ==
    \A q \in Procs \ {p} : job[q].named => job[q].pc \in {"idle", "requested"}

\* The HTTP route's conversion records the issue and leaves the proposal
\* alone; every other operation writes the proposal.
Writes(j) == j.named \/ j.op # "convert"

\* No open transaction of another process has written proposal x.
Writable(p, x) ==
    \A q \in Procs \ {p} :
        ~(job[q].pc = "written" /\ job[q].x = x /\ Writes(job[q]))

\* No open transaction of another process has created the node id names.
Creatable(p, id) ==
    \A q \in Procs \ {p} : ~(Open(q) /\ job[q].arg = id)

\* The request is refused, or its transaction fails and is rolled back.
Leave(p) ==
    /\ job' = [job EXCEPT ![p] = Idle]
    /\ UNCHANGED <<node, decisions, edges, issue, meant>>

Store == <<node, decisions, edges, issue, meant>>

-----------------------------------------------------------------------------
(* What an operation decides from what it reads                            *)

\* A client asks for op, on the version of the proposal it has read.
Request(p) ==
    /\ job[p].pc = "idle"
    /\ \E named \in BOOLEAN, x \in Proposals :
         \E op \in IF named THEN NamedOps ELSE GenericOps :
           \E arg \in Args(op) :
             job' = [job EXCEPT ![p] =
                       [Idle EXCEPT !.pc = "requested", !.op = op,
                                    !.named = named, !.x = x, !.arg = arg,
                                    !.expect = node[x].version]]
    /\ UNCHANGED Store

\* The named receiver, and PATCH on either route, compare the version the
\* client expects with the one they read (NamedWorkMutations._current,
\* WorkObjectRepository.update_content).
Expected(j, n) ==
    (j.named /\ j.op # "create") \/ j.op = "patch" => n.version = j.expect

Bumped(n) == [n EXCEPT !.version = @ + 1]

\* archive() keeps the status and only sets the archive attribute.
Archived(n) == [Bumped(n) EXCEPT !.archived = TRUE]

Restored(n) == [Bumped(n) EXCEPT !.archived = FALSE]

\* GENERIC_STATUS_TRANSITIONS without the acceptance of a Proposal.
Moves == {<<"draft", "review">>, <<"review", "draft">>}

\* The node the operation means to write, and whether what it read of the
\* node admits it.
Admits(j, n) ==
    CASE j.op = "create"  -> n = Absent
      [] j.op = "restore" -> n # Absent /\ n.archived
      [] j.op = "status"  -> ~n.archived /\ <<n.status, j.arg>> \in Moves
      [] j.op = "convert" -> ~n.archived /\ n.status = "accepted"
      [] OTHER            -> n # Absent /\ ~n.archived

Planned(j, n) ==
    CASE j.op = "create"  -> [status |-> "draft", archived |-> FALSE,
                              version |-> 1, content |-> j.arg]
      [] j.op = "patch"   -> [Bumped(n) EXCEPT !.content = j.arg]
      [] j.op = "archive" -> Archived(n)
      [] j.op = "restore" -> Restored(n)
      [] j.op = "status"  -> [Bumped(n) EXCEPT !.status = j.arg]
      [] j.op = "accept"  -> [Bumped(n) EXCEPT !.status = "accepted"]
      [] OTHER            -> Bumped(n)

\* The transaction opens, a named one behind the guard, and the operation
\* reads the proposal.
Read(p) ==
    LET j == job[p]
        n == node[j.x]
    IN  /\ j.pc = "requested"
        /\ j.named => GuardFree(p)
        /\ n.version < MaxVersion
        /\ IF Expected(j, n) /\ Admits(j, n)
           THEN /\ job' = [job EXCEPT ![p].pc = "read", ![p].next = Planned(j, n)]
                /\ UNCHANGED Store
           ELSE Leave(p)

\* Mutant of Undisposed: acceptance looks for an earlier acceptance only.
UndisposedMut(j) ==
    IF j.op = "accept" THEN AcceptedBy(j.x) = {} ELSE Disposed(j.x) = {}

\* Neither disposition is recorded yet (accept_proposal, reject_proposal).
Undisposed(j) == Disposed(j.x) = {}

\* An operation on the provenance reads the proposal's Decision edges; one
\* that converts needs exactly one acceptance, by a Decision that is stored.
Provenance(p) ==
    LET j == job[p]
        sound == {e \in AcceptedBy(j.x) : e.to \in decisions}
    IN  /\ j.pc = "read"
        /\ j.op \in Creating
        /\ \/ /\ j.op # "convert"
              /\ Undisposed(j)
              /\ job' = [job EXCEPT ![p].pc = "checked"]
              /\ UNCHANGED Store
           \/ /\ j.op = "convert"
              /\ Cardinality(AcceptedBy(j.x)) = 1
              /\ \E e \in sound :
                   job' = [job EXCEPT ![p].pc = "checked", ![p].decision = e.to]
              /\ UNCHANGED Store
           \/ /\ IF j.op = "convert"
                 THEN Cardinality(AcceptedBy(j.x)) # 1 \/ sound = {}
                 ELSE ~Undisposed(j)
              /\ Leave(p)

-----------------------------------------------------------------------------
(* The statements of the transaction                                       *)

\* The id names a stored Decision, or a stored Issue.
Stored(id) ==
    id \in decisions \/ (id \in Issues /\ issue[id] # NoIssue)

\* create_node merges the Decision or Issue node: it waits for a transaction
\* that has created the same id, and fails if the node turns out to exist.
Create(p) ==
    LET j == job[p]
    IN  /\ j.pc = "checked"
        /\ Creatable(p, j.arg)
        /\ IF Stored(j.arg)
           THEN Leave(p)
           ELSE /\ job' = [job EXCEPT ![p].pc = "created"]
                /\ UNCHANGED Store

\* Mutant of Unchanged: update_node does not compare the version.
UnchangedMut(j, n) == (n = Absent) = (j.op = "create")

\* The predicate of update_node, archive_node and restore_node: the stored
\* version is the one before the version being written, and the node is
\* archived exactly when it is being restored.
Unchanged(j, n) ==
    /\ n.version = j.next.version - 1
    /\ n.archived = (j.op = "restore")

\* The statement that writes the proposal, or for the HTTP route's
\* conversion the edges only.
Write(p) ==
    LET j == job[p]
        n == node[j.x]
    IN  /\ j.pc = (IF j.op \in Creating THEN "created" ELSE "read")
        /\ Writes(j) => Writable(p, j.x)
        /\ IF Writes(j) => Unchanged(j, n)
           THEN /\ job' = [job EXCEPT ![p].pc = "written"]
                /\ UNCHANGED Store
           ELSE Leave(p)

NewEdge(j) ==
    [from |-> j.x, to |-> j.arg,
     rel |-> IF j.op = "accept" THEN "ACCEPTED_BY_DECISION" ELSE "REJECTED_BY_DECISION"]

\* The commit makes everything the transaction wrote visible at once.
Commit(p) ==
    LET j == job[p]
        decides == j.op \in {"accept", "reject"}
    IN  /\ j.pc = "written"
        /\ node' = IF Writes(j) THEN [node EXCEPT ![j.x] = j.next] ELSE node
        /\ meant' = IF Writes(j) THEN [meant EXCEPT ![j.x] = Planned(j, @)] ELSE meant
        /\ decisions' = IF decides THEN decisions \cup {j.arg} ELSE decisions
        /\ edges' = IF decides THEN edges \cup {NewEdge(j)} ELSE edges
        /\ issue' = IF j.op = "convert"
                    THEN [issue EXCEPT ![j.arg] = [from |-> j.x, decision |-> j.decision]]
                    ELSE issue
        /\ job' = [job EXCEPT ![p] = Idle]

\* The transaction fails, times out or the process dies before its commit.
Abort(p) ==
    /\ job[p].pc # "idle"
    /\ Leave(p)

Next ==
    \E p \in Procs :
        \/ Request(p) \/ Read(p) \/ Provenance(p)
        \/ Create(p) \/ Write(p) \/ Commit(p) \/ Abort(p)

Spec == Init /\ [][Next]_vars

-----------------------------------------------------------------------------
(* Properties                                                              *)

TypeOK ==
    /\ node \in [Proposals -> Nodes]
    /\ meant \in [Proposals -> Nodes]
    /\ decisions \subseteq Decisions
    /\ edges \subseteq Edges
    /\ issue \in [Issues -> [from : Proposals, decision : Decisions] \cup {NoIssue}]
    /\ \A p \in Procs :
         /\ job[p].pc \in {"idle", "requested", "read", "checked", "created", "written"}
         /\ job[p].pc # "idle" =>
              /\ job[p].op \in NamedOps
              /\ job[p].x \in Proposals
              /\ job[p].arg \in Args(job[p].op)
         /\ job[p].next \in Nodes

\* A proposal is disposed of once: it never has two Decision edges, whatever
\* acceptances and rejections raced on either route (accept_proposal and
\* reject_proposal check for one before they write, without a lock).
OneDisposition ==
    \A x \in Proposals : Cardinality(Disposed(x)) <= 1

\* A proposal is "accepted" exactly when an acceptance Decision that is
\* stored stands behind it; no status change, edit, archive or restore makes
\* or loses the status ("Proposal -> ACCEPTED is ... exclusively
\* ProposalLifecycle.accept_proposal", model/base.py).
AcceptedIsDecided ==
    \A x \in Proposals :
        node[x].status = "accepted" <=> \E e \in AcceptedBy(x) : e.to \in decisions

\* No committed change is lost or undone by a transaction that read the
\* proposal before it: the stored node is what the committed operations give
\* when they are applied one after the other in the order of their commits
\* (update_node writes every property of the record it was given).
NothingLost ==
    node = meant

\* A Decision disposes of one proposal: an id used by one transaction is
\* refused to every other (_upsert_decision, create_node).
DecisionsAreSpentOnce ==
    \A e, f \in edges : e.to = f.to => e = f

\* An issue converted from a proposal names the Decision that accepted that
\* proposal, and the proposal is still accepted (convert_accepted_proposal_
\* to_issue reads both before its transaction, on the HTTP route without
\* writing the proposal).
ConversionsAreDecided ==
    \A i \in Issues :
        issue[i] # NoIssue =>
            /\ [from |-> issue[i].from, rel |-> "ACCEPTED_BY_DECISION",
                to |-> issue[i].decision] \in edges
            /\ node[issue[i].from].status = "accepted"

\* Dispositions are consistent: the types and the four invariants above.
DispositionInv ==
    /\ TypeOK /\ OneDisposition /\ AcceptedIsDecided
    /\ DecisionsAreSpentOnce /\ ConversionsAreDecided

\* An archived proposal changes only by being restored, and restoring it
\* changes nothing else, although the operations that were admitted before
\* the archive may still be under way.
ArchivedIsFrozen ==
    [][\A x \in Proposals :
         node[x].archived /\ node'[x] # node[x] =>
             node'[x] = [Bumped(node[x]) EXCEPT !.archived = FALSE]]_vars

\* A proposal is decided once and stays decided, no change of it is lost, and it is frozen
\* while archived, with every operation of lifecycle.py and repository.py under way at once.
DispositionsHold == [](DispositionInv /\ NothingLost) /\ ArchivedIsFrozen

\* Processes, proposals, decisions and contents are interchangeable in the instances that TLC
\* checks.
Symmetry ==
    Permutations(Procs) \cup Permutations(Proposals)
        \cup Permutations(Decisions) \cup Permutations(Contents)
=============================================================================
