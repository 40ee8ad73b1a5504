------------------------------ MODULE MCWorkflow ------------------------------
(***************************************************************************)
(* Two instances of Workflow for TLC, of which part names the one that     *)
(* runs: one Proposal through its whole workflow with its disposition, and *)
(* a Project with a Task that a Todo blocks, shortly before their delivery. *)
(***************************************************************************)
EXTENDS Workflow, TLC

CONSTANTS p1, t1, j1, d1, c1, c2

MCKind ==
    [w \in Works |-> CASE w = p1 -> "Proposal" [] w = t1 -> "Task"
                       [] w = j1 -> "Project"  [] w = d1 -> "Todo"]

MCBlocks == {<<d1, t1>>}

VARIABLE part

\* The family starts shortly before both deliveries: the project is being
\* executed with both plans approved, the task lacks its last reviews.
Given(P) ==
    [ph \in Phases |->
        IF ph \in P THEN [verdict |-> "approved", content |-> c1, kids |-> {}, excluded |-> {},
                          seen |-> <<>>, stale |-> FALSE]
                    ELSE None]

MCInit ==
    /\ part \in {"proposal", "family"}
    /\ \E stored \in Stored(p1) :
          item = [w \in Works |->
                     CASE w = p1 /\ part = "proposal" -> stored
                       [] w = j1 -> [Fresh(w) EXCEPT !.stage = "in_progress", !.progress = "in_progress"]
                       [] w = t1 -> [Fresh(w) EXCEPT !.stage = "layer_review", !.progress = "in_progress"]
                       [] OTHER  -> Fresh(w)]
    /\ reviews = [w \in Works |-> CASE w = j1 -> Given({"developer_plan", "ceo_plan"})
                                    [] w = t1 -> Given({"baseline", "commit", "requirements"})
                                    [] OTHER  -> NoReviews]
    /\ kids = [w \in Works |-> {}]
    /\ disposition = [w \in Works |-> None]
    /\ pause = [w \in Works |-> NotWaiting]
    /\ old = [w \in Works |-> {}]
    /\ changes = 0

\* The delivery of the two, reviewed favourably: the operations by which the
\* reviews of one item depend on another.
FamilyNext ==
    \/ \E w \in {j1, t1} :
          \/ \E ph \in {"commit", "ceo_delivery", "technical", "handoff"} : Record(w, ph, "approved", {})
          \/ \E X \in SUBSET kids[w] : Record(w, "requirements", "approved", X)
          \/ Advance(w)
          \/ item[w].stage # WorkStage(item[w].flow) /\ Return(w)
    \/ SetDone(d1)
    \/ \E w \in {t1, d1} : Reopen(w)
    \/ \E p \in {j1, None} : SetParent(t1, p)

MCNext ==
    \/ part = "proposal" /\ Steps(p1) /\ UNCHANGED part
    \/ part = "family" /\ FamilyNext /\ UNCHANGED part

MCSpec == MCInit /\ [][MCNext]_<<vars, part>>
====
