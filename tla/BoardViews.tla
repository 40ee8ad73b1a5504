----------------------------- MODULE BoardViews -----------------------------
(***************************************************************************)
(* The board (kanban.build_board) and the Todo list (todo_views.todo_page),*)
(* read page by page while other callers edit Work.  Every page reads all  *)
(* Work again, kind by kind and in bounded queries, fingerprints what it   *)
(* read, and refuses to continue a walk whose fingerprint moved.           *)
(*                                                                         *)
(* Work keys are numbers in the order of their keys.                       *)
(***************************************************************************)
EXTENDS Integers, Sequences, SequencesExt, FiniteSets

CONSTANTS
    WorkKeys, KindSeq, KindOfKey,
    Existing,       \* the Work there is at first
    QueryLimit,     \* the 100 of storage.query
    BoardBudget,    \* the 10000 of the boardWork budget
    CardLimit,      \* filters.limit
    NoParent,
    MaxEdits

VARIABLES boardWork, parentOf, edits, walk

boardVars == <<boardWork, parentOf, edits, walk>>

Issues == {k \in WorkKeys : KindOfKey[k] = "Issue"}
ProgressValues == {"not_started", "done"}

NoCapture == [items |-> <<>>, parents |-> <<>>]
NoWalk ==
    [at |-> "idle", surface |-> "board", order |-> "key", scope |-> NoParent, progress |-> "done",
     archived |-> "include", kind |-> 1, cursor |-> 0, read |-> <<>>,
     after |-> 0, revision |-> <<>>, first |-> NoCapture, collected |-> <<>>]

BoardInit ==
    /\ boardWork = [k \in WorkKeys |-> [made |-> k \in Existing, version |-> 1, progress |-> "not_started",
                                   priority |-> 0, archived |-> FALSE]]
    /\ parentOf = [k \in WorkKeys |-> NoParent]
    /\ edits = 0
    /\ walk = NoWalk

-----------------------------------------------------------------------------
(* Other callers.                                                           *)

\* A new item, or an update of any field: the version moves.
EditWork(k, new) ==
    /\ edits < MaxEdits
    /\ edits' = edits + 1
    /\ boardWork' = [boardWork EXCEPT ![k] = [new EXCEPT !.made = TRUE, !.version = boardWork[k].version + 1]]
    /\ UNCHANGED <<parentOf, walk>>

\* A HAS_CHILD edge is made, moved or removed.
MoveWork(k, p) ==
    /\ edits < MaxEdits
    /\ KindOfKey[k] = "Task"
    /\ edits' = edits + 1
    /\ parentOf' = [parentOf EXCEPT ![k] = p]
    /\ UNCHANGED <<boardWork, walk>>

-----------------------------------------------------------------------------
(* Reading all Work.                                                        *)

Walks(new) == walk' = new /\ UNCHANGED <<boardWork, parentOf, edits>>

Fails(at) == Walks([NoWalk EXCEPT !.at = at])

\* BoardFilter.parse and TodoFilters.parse: a list is always in priority order and has no scope.
ValidFilter(f) == f.surface = "todos" => f.order = "priority" /\ f.scope = NoParent

StartWalk(f) ==
    /\ walk.at = "idle" /\ ValidFilter(f)
    /\ Walks([NoWalk EXCEPT !.at = "query", !.surface = f.surface, !.order = f.order,
                            !.scope = f.scope, !.progress = f.progress, !.archived = f.archived])

\* One storage.query: the next items of this kind; a full page asks for another.
QueryKind ==
    /\ walk.at = "query"
    /\ LET kind == KindSeq[walk.kind]
           later == {k \in WorkKeys : boardWork[k].made /\ KindOfKey[k] = kind /\ k > walk.cursor}
           page == {k \in later : Cardinality({j \in later : j < k}) < QueryLimit}
           read == [k \in DOMAIN walk.read \cup page |->
                      IF k \in page THEN boardWork[k] ELSE walk.read[k]]
       IN  IF Cardinality(DOMAIN read) > BoardBudget
           THEN Fails("unavailable")
           ELSE IF Cardinality(page) = QueryLimit
           THEN Walks([walk EXCEPT !.read = read, !.cursor = CHOOSE k \in page : \A j \in page : j <= k])
           ELSE IF walk.kind < Len(KindSeq)
           THEN Walks([walk EXCEPT !.read = read, !.cursor = 0, !.kind = @ + 1])
           ELSE Walks([walk EXCEPT !.read = read, !.cursor = 0, !.kind = 1, !.at = "edges"])

-----------------------------------------------------------------------------
(* A page.                                                                  *)

\* Mutant of Fingerprint: versions are left out.
NoVersionMut(c) ==
    <<[k \in DOMAIN c.items |-> <<c.items[k].progress, c.items[k].archived>>], c.parents>>

\* What the revision covers.
Fingerprint(c) ==
    <<[k \in DOMAIN c.items |-> <<c.items[k].version, c.items[k].progress, c.items[k].archived>>],
      c.parents>>

Selected(c, f, k) ==
    LET w == c.items[k]
    IN  /\ w.progress = f.progress
        /\ f.archived = "include" \/ (w.archived <=> f.archived = "only")
        /\ f.scope # NoParent => k \in DOMAIN c.parents /\ c.parents[k] = f.scope

\* The rows of the column, or of the list, in the order asked for.
BoardRows(c, f) ==
    LET before(a, b) ==
            IF f.order = "priority"
            THEN \/ c.items[a].priority > c.items[b].priority
                 \/ c.items[a].priority = c.items[b].priority /\ a < b
            ELSE a < b
    IN  SetToSortSeq({k \in DOMAIN c.items : Selected(c, f, k)}, before)

Index(rows, k) == CHOOSE i \in DOMAIN rows : rows[i] = k

\* The rows that follow the cursor.
Available(rows, f) ==
    IF f.after = 0 THEN rows
    ELSE IF f.order = "priority" THEN SelectSeq(rows, LAMBDA k : Index(rows, k) > Index(rows, f.after))
    ELSE SelectSeq(rows, LAMBDA k : k > f.after)

\* The children whose HAS_CHILD edge the revision covers: the board drops an edge to Work it did
\* not read.
EdgesRead ==
    {k \in WorkKeys : parentOf[k] # NoParent
                      /\ (walk.surface = "board" => {k, parentOf[k]} \subseteq DOMAIN walk.read)}

\* HAS_CHILD edges, the revision, and the page.
AnswerBoard ==
    /\ walk.at = "edges"
    /\ LET c == [items |-> walk.read,
                 parents |-> [k \in EdgesRead |-> parentOf[k]]]
           rows == BoardRows(c, walk)
           available == Available(rows, walk)
           more == Len(available) > CardLimit
           cards == IF more THEN SubSeq(available, 1, CardLimit) ELSE available
       IN  IF walk.revision # <<>> /\ walk.revision # Fingerprint(c)
           THEN Fails("changed")
           ELSE IF walk.surface = "board" /\ walk.scope # NoParent /\ walk.scope \notin DOMAIN c.items
           THEN Fails("missing")
           ELSE IF walk.order = "priority" /\ walk.after # 0 /\ walk.after \notin Range(rows)
           THEN Fails("outside")
           ELSE Walks([walk EXCEPT
                    !.at = IF more THEN "more" ELSE "complete",
                    !.collected = @ \o cards,
                    !.after = IF more THEN cards[CardLimit] ELSE 0,
                    !.revision = Fingerprint(c),
                    !.first = IF walk.revision = <<>> THEN c ELSE @,
                    !.read = <<>>])

\* The client follows next_cursor with the revision it was given.
NextPage == walk.at = "more" /\ Walks([walk EXCEPT !.at = "query"])

WalkAgain ==
    /\ walk.at \in {"complete", "changed", "missing", "outside", "unavailable"}
    /\ Walks(NoWalk)

BoardFilters ==
    [surface : {"board", "todos"}, order : {"key", "priority"}, progress : {"not_started"},
     scope : {NoParent} \cup Issues,
     archived : {"include", "exclude"}]

Edits ==
    {e \in [progress : ProgressValues, priority : 0 .. 1, archived : BOOLEAN] :
        e.archived => e.progress = "not_started" /\ e.priority = 0}

BoardNext ==
    \/ \E k \in WorkKeys, e \in Edits :
           EditWork(k, [boardWork[k] EXCEPT !.progress = e.progress, !.priority = e.priority,
                                       !.archived = e.archived])
    \/ \E k \in WorkKeys, p \in Issues \cup {NoParent} : MoveWork(k, p)
    \/ \E f \in BoardFilters : StartWalk(f)
    \/ QueryKind
    \/ AnswerBoard
    \/ NextPage
    \/ WalkAgain

BoardSpec == BoardInit /\ [][BoardNext]_boardVars

-----------------------------------------------------------------------------
\* A walk that reaches the last page has shown every row of the column or list that its first
\* page was cut from, each exactly once and in order, whatever was edited between its pages:
\* the revision build_board and todo_page check covers everything the rows depend on.
BoardWalkIsWhole ==
    walk.at = "complete" => walk.collected = BoardRows(walk.first, walk)
=============================================================================
