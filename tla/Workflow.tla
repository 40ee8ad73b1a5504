------------------------------- MODULE Workflow -------------------------------
(***************************************************************************)
(* The review workflow of a work item and its shared progress              *)
(* (workflows.py, workflow_contract.py, progress.py and                    *)
(* progress_mutations.py), together with the operations that invalidate    *)
(* what a review attested: edits, archival, changes of parent, and changes *)
(* of the evidence, the records and the requirements.                      *)
(*                                                                         *)
(* Every operation here runs under the guard of the named receiver, so one *)
(* operation is one step.  A review carries a fingerprint (its basis) of   *)
(* the item's content, of its children with their versions, and of the     *)
(* attached requirements; a gate counts a review only while the            *)
(* fingerprint still matches.  Versions only grow, so that part of the     *)
(* fingerprint is modelled by a flag: a review goes stale, for good, when  *)
(* a child, a requirement or a piece of evidence that it covers changes.   *)
(* The content and the set of children are compared by value: going back   *)
(* to what was approved makes the approval current again.                  *)
(***************************************************************************)
EXTENDS Integers, FiniteSets, Sequences, Functions

CONSTANTS
    Works,      \* the work items
    Kind,       \* the kind of each
    Blocks,     \* the blockers: pairs <<blocking item, blocked item>>
    Contents,   \* the values of title, description and links
    MaxChanges, \* bound: changes that invalidate reviews, in one behaviour
    None

ASSUME WorkflowAssumption ==
    /\ Kind \in [Works -> {"Todo", "Proposal", "Initiative", "Project", "Issue", "Task"}]
    /\ Blocks \subseteq Works \X Works
    /\ Contents # {}
    /\ MaxChanges \in Nat

VARIABLES
    item,         \* the stored item: progress, workflow stage, archival, content
    reviews,      \* the current review record of each phase
    kids,         \* the HAS_CHILD edges
    disposition,  \* the Decision on a Proposal
    pause,        \* history: where the item started to wait, and if it was answered
    old,          \* history: the phases whose record is older than the last return
    changes       \* the changes so far (see MaxChanges)

vars == <<item, reviews, kids, disposition, pause, old, changes>>

Phases == {"requirements", "baseline", "developer_plan", "ceo_plan", "commit",
           "ceo_delivery", "technical", "handoff", "resolution"}

Waiting == "blocked_waiting_input"

Flows == {"vibe-ceo.v1", "execution.v1"}

DefaultFlow(w) == IF Kind[w] \in {"Issue", "Task"} THEN "execution.v1" ELSE "vibe-ceo.v1"

\* The stages of each workflow in order; every one can also wait for input.
Stages ==
    [f \in Flows |->
        IF f = "execution.v1"
          THEN <<"backlog", "intake", "requirements_normalized", "baseline_captured",
                 "implementing_commit", "commit_ready_for_review", "layer_review",
                 "reconciling_ledger", "delivery_packet_ready", "done">>
          ELSE <<"backlog", "planning", "developer_plan_approval", "ceo_plan_approval",
                 "ready", "in_progress", "ceo_delivery_approval", "technical_review",
                 "handoff_verification", "done">>]

AllStages == UNION {Range(Stages[f]) : f \in Flows}

Position(f, s) == CHOOSE i \in DOMAIN Stages[f] : Stages[f][i] = s

\* The step forward from stage s (not "done").
Forward(f, s) == Stages[f][Position(f, s) + 1]

PlanStage(f) == IF f = "execution.v1" THEN "intake" ELSE "planning"

WorkStage(f) == IF f = "execution.v1" THEN "implementing_commit" ELSE "in_progress"

\* Work goes back to planning from the work stage and from the plan approvals,
\* and back to work from every review.
Returns(f, s) ==
    CASE s \in {WorkStage(f), "developer_plan_approval", "ceo_plan_approval"} -> PlanStage(f)
      [] s \in Range(SubSeq(Stages[f], Position(f, WorkStage(f)) + 1, 9)) -> WorkStage(f)
      [] OTHER -> None

EntryReviews(s) ==
    CASE s \in {"developer_plan_approval", "requirements_normalized"} -> {"requirements"}
      [] s = "ceo_plan_approval"       -> {"developer_plan"}
      [] s = "ready"                   -> {"ceo_plan"}
      [] s = "baseline_captured"       -> {"baseline"}
      [] s = "commit_ready_for_review" -> {"commit"}
      [] s = "technical_review"        -> {"ceo_delivery"}
      [] s \in {"reconciling_ledger", "handoff_verification"} -> {"technical"}
      [] s = "done"                    -> {"technical", "handoff"}
      [] OTHER                         -> {}

CompletionGates ==
    {"ceo_delivery_approval", "delivery_packet_ready", "handoff_verification", "done"}

\* The stages at which a phase may be recorded.
OwnGate(ph) ==
    CASE ph = "developer_plan" -> {"developer_plan_approval"}
      [] ph = "ceo_plan"       -> {"ceo_plan_approval"}
      [] ph = "ceo_delivery"   -> {"ceo_delivery_approval"}
      [] ph = "baseline"       -> {"requirements_normalized"}
      [] ph = "commit"         -> {"implementing_commit"}
      [] ph = "technical"      -> {"technical_review", "layer_review"}
      [] ph = "handoff"        -> {"handoff_verification", "delivery_packet_ready"}
      [] ph = "resolution"     -> {Waiting}
      [] OTHER                 -> AllStages \cup {Waiting}

StageProgress(s) ==
    IF s = "backlog" THEN "not_started" ELSE IF s = "done" THEN "done" ELSE "in_progress"

(***************************************************************************)
(* Reviews                                                                 *)
(***************************************************************************)

\* The basis of these phases leaves the children out.
PlanPhases == {"developer_plan", "ceo_plan", "baseline"}

\* "approved" has its evidence, every layer, and for the requirements phase a
\* ledger with no unmet row that covers every attached requirement; an approved
\* ledger may lack the evidence ("bare") or some rows ("partial").
Verdicts(ph) ==
    IF ph = "requirements" THEN {"approved", "bare", "partial", "refused"}
                           ELSE {"approved", "refused"}

\* excluded: the children the ledger takes out of scope; stale: see above; seen:
\* (history) the progress that the children had.
Progresses == {None, "not_started", "in_progress", "done"}

Records == [verdict : {"approved", "bare", "partial", "refused"}, content : Contents,
            kids : SUBSET Works, excluded : SUBSET Works, stale : BOOLEAN,
            seen : UNION {[S -> Progresses] : S \in SUBSET Works}]

ASSUME NoneAssumption ==
    None \notin Records \cup AllStages \cup {Waiting, "not_started", "in_progress"}
             \cup [value : {"accepted", "rejected"}, active : BOOLEAN]

NoReviews == [ph \in Phases |-> None]

\* The record of a phase while it still matches what it attested, else None.
Review(w, ph) ==
    LET r == reviews[w][ph] IN
    IF r # None /\ ~r.stale /\ r.content = item[w].content
                /\ (ph \in PlanPhases \/ r.kids = kids[w])
      THEN r ELSE None

Passing(ph) == IF ph = "requirements" THEN {"approved", "partial"} ELSE {"approved"}

Approved(w, ph) ==
    /\ Review(w, ph) # None
    /\ Review(w, ph).verdict \in Passing(ph)

Unblocked(w) == \A x \in Works : <<x, w>> \in Blocks => item[x].progress = "done"

\* No completion gap.
Complete(w) ==
    LET ledger == Review(w, "requirements") IN
    /\ ledger # None
    /\ ledger.verdict \in {"approved", "bare"}
    /\ \A c \in kids[w] : item[c].progress = "done" \/ c \in ledger.excluded
    /\ Unblocked(w)

\* The phases that count towards completion besides the entry reviews.
FinalPhases(f) ==
    IF f = "execution.v1" THEN {"baseline", "commit"}
                   ELSE {"developer_plan", "ceo_plan", "ceo_delivery"}

\* Mutant of Required: the entry reviews are asked for at the end only.
RequiredMut(f, s) == IF s = "done" THEN EntryReviews(s) \cup FinalPhases(f) ELSE {}

Required(f, s) == EntryReviews(s) \cup (IF s = "done" THEN FinalPhases(f) ELSE {})

\* The Proposal has one valid Decision on it.
Decided(w) == disposition[w] # None /\ disposition[w].active

\* Nothing is missing for the move of an item that is not waiting to stage s.
NoGaps(w, s) ==
    \/ s \in {Waiting, Returns(item[w].flow, item[w].stage)}
    \/ /\ \A ph \in Required(item[w].flow, s) : Approved(w, ph)
       /\ s \in CompletionGates => Complete(w)
       /\ s = "done" /\ Kind[w] = "Proposal" => Decided(w)

-----------------------------------------------------------------------------
NotWaiting == [at |-> None, answered |-> FALSE]

\* The first stage of the workflow that a new item has; base Todos have none.
Fresh(w) ==
    [progress |-> "not_started", archived |-> FALSE, content |-> CHOOSE c \in Contents : TRUE,
     flow |-> IF Kind[w] = "Todo" THEN None ELSE DefaultFlow(w),
     stage |-> IF Kind[w] = "Todo" THEN None ELSE "backlog", resume |-> None]

\* Items created by this version, and older ones stored without a progress or
\* without a workflow.
Stored(w) ==
    {Fresh(w), [Fresh(w) EXCEPT !.progress = None],
     [Fresh(w) EXCEPT !.progress = None, !.flow = None, !.stage = None]}

Items == [progress : Progresses, archived : BOOLEAN,
          content : Contents, flow : Flows \cup {None},
          stage : AllStages \cup {Waiting, None}, resume : AllStages \cup {None}]

Init ==
    /\ item \in {f \in [Works -> UNION {Stored(w) : w \in Works}] :
                    \A w \in Works : f[w] \in Stored(w)}
    /\ reviews = [w \in Works |-> NoReviews]
    /\ kids = [w \in Works |-> {}]
    /\ disposition = [w \in Works |-> None]
    /\ pause = [w \in Works |-> NotWaiting]
    /\ old = [w \in Works |-> {}]
    /\ changes = 0

(***************************************************************************)
(* Every operation on an item advances its version: the reviews of its     *)
(* parent that cover it go stale.                                          *)
(***************************************************************************)
Outdated(r, S) == IF r # None /\ r.kids \cap S # {} THEN [r EXCEPT !.stale = TRUE] ELSE r

\* Mutant of Bumped: a change of a child does not reach the parent's reviews.
BumpedMut(revs, S) == revs

Bumped(revs, S) == [w \in Works |-> [ph \in Phases |-> Outdated(revs[w][ph], S)]]

\* Write the item and its reviews.
Save(w, i, revs) ==
    /\ item' = [item EXCEPT ![w] = i]
    /\ reviews' = Bumped([reviews EXCEPT ![w] = revs], {w})

\* workflow.assign: an older item is classified, never past the planning stage.
Assign(w, f, s) ==
    /\ ~item[w].archived /\ Kind[w] # "Todo"
    /\ item[w].stage = None
    /\ s \in Range(Stages[f]) \cap {"backlog", "planning", "intake"}
    /\ s = "backlog" => item[w].progress \notin {"in_progress", "done"}
    /\ Save(w, [item[w] EXCEPT !.flow = f, !.stage = s, !.progress = StageProgress(s)], NoReviews)
    /\ UNCHANGED <<kids, disposition, pause, old, changes>>

\* Operations on an item that is in a workflow and not completed.
Open(w) == ~item[w].archived /\ item[w].stage \notin {None, "done"}

\* The record of a review of the item as it is now.
Recorded(w, ph, v, X) ==
    [verdict |-> v, content |-> item[w].content, excluded |-> X, stale |-> FALSE,
     seen |-> [c \in kids[w] |-> item[c].progress],
     kids |-> IF ph \in PlanPhases THEN {} ELSE kids[w]]

\* workflow.review: a record is stored and replaces the phase's current one.
Record(w, ph, v, X) ==
    /\ Open(w)
    /\ item[w].stage \in OwnGate(ph)
    /\ v \in Verdicts(ph)
    /\ ph # "requirements" => X = {}
    /\ Save(w, item[w], [reviews[w] EXCEPT ![ph] = Recorded(w, ph, v, X)])
    /\ pause' = [pause EXCEPT ![w].answered = @ \/ ph = "resolution"]
    /\ old' = [old EXCEPT ![w] = @ \ {ph}]
    /\ UNCHANGED <<kids, disposition, changes>>

Without(revs, P) == [ph \in Phases |-> IF ph \in P THEN None ELSE revs[ph]]

\* Mutant of Asked: an earlier resolution is kept.
AskedMut(w) == reviews[w]

\* The reviews of an item that starts to wait.
Asked(w) == Without(reviews[w], {"resolution"})

\* What a return to stage s invalidates.
Dropped(s) ==
    IF s \in {"planning", "intake"} THEN Phases
    ELSE {"commit", "technical", "ceo_delivery", "handoff", "requirements"}

\* The phases that a return to stage s sends back to review.
Repeated(f, s) ==
    IF s = PlanStage(f) THEN Phases ELSE Phases \ (PlanPhases \cup {"resolution"})

\* workflow.transition to blocked_waiting_input.
Wait(w) ==
    /\ Open(w) /\ item[w].stage # Waiting
    /\ Save(w, [item[w] EXCEPT !.stage = Waiting, !.resume = item[w].stage,
                               !.progress = StageProgress(Waiting)], Asked(w))
    /\ pause' = [pause EXCEPT ![w] = [at |-> item[w].stage, answered |-> FALSE]]
    /\ UNCHANGED <<kids, disposition, old, changes>>

\* workflow.transition of a waiting item: only to where it was.
Resume(w) ==
    /\ Open(w) /\ item[w].stage = Waiting
    /\ Approved(w, "resolution")
    /\ Save(w, [item[w] EXCEPT !.stage = item[w].resume, !.resume = None,
                               !.progress = StageProgress(item[w].resume)], reviews[w])
    /\ pause' = [pause EXCEPT ![w] = NotWaiting]
    /\ UNCHANGED <<kids, disposition, old, changes>>

\* workflow.transition to an earlier stage, with feedback.
Return(w) ==
    LET s == Returns(item[w].flow, item[w].stage) IN
    /\ Open(w) /\ item[w].stage # Waiting
    /\ s # None
    /\ Save(w, [item[w] EXCEPT !.stage = s, !.progress = StageProgress(s)],
            Without(reviews[w], Dropped(s)))
    /\ old' = [old EXCEPT ![w] =
                  @ \cup {ph \in Repeated(item[w].flow, s) : reviews'[w][ph] # None}]
    /\ UNCHANGED <<kids, disposition, pause, changes>>

\* workflow.transition to the next stage.
Advance(w) ==
    LET s == Forward(item[w].flow, item[w].stage) IN
    /\ Open(w) /\ item[w].stage # Waiting
    /\ NoGaps(w, s)
    /\ Save(w, [item[w] EXCEPT !.stage = s, !.progress = StageProgress(s)], reviews[w])
    /\ UNCHANGED <<kids, disposition, pause, old, changes>>

(***************************************************************************)
(* progress.set and the disposition of a Proposal                          *)
(***************************************************************************)
Rejected(w) == Decided(w) /\ disposition[w].value = "rejected"

\* A rejected Proposal is completed from any stage.
Completed(i) ==
    [i EXCEPT !.progress = "done", !.resume = None,
              !.stage = IF @ = None THEN None ELSE "done"]

\* progress.set to done.  An item in a workflow gets there by its transitions;
\* only a stored "done" stage without a progress is confirmed here.
SetDone(w) ==
    /\ item[w].progress # "done" /\ ~item[w].archived
    /\ Unblocked(w)
    /\ \/ Rejected(w) /\ Save(w, Completed(item[w]), reviews[w])
       \/ /\ Kind[w] = "Todo"
          /\ Save(w, [item[w] EXCEPT !.progress = "done"], reviews[w])
    /\ pause' = [pause EXCEPT ![w] = NotWaiting]
    /\ UNCHANGED <<kids, disposition, old, changes>>

\* progress.set of completed work back to in progress.
Reopen(w) ==
    LET s == IF item[w].stage = None THEN None ELSE PlanStage(item[w].flow) IN
    /\ item[w].progress = "done" /\ ~item[w].archived
    /\ Save(w, [item[w] EXCEPT !.progress = "in_progress", !.stage = s],
            IF s = None THEN reviews[w] ELSE NoReviews)
    /\ old' = [old EXCEPT ![w] = {ph \in Phases : reviews'[w][ph] # None}]
    /\ UNCHANGED <<kids, disposition, pause, changes>>

\* progress.set that classifies an older item, or starts one without a workflow.
Classify(w, p) ==
    /\ ~item[w].archived
    /\ p # item[w].progress /\ item[w].progress # "done"
    /\ p = "not_started" => item[w].progress = None
    /\ item[w].stage # None => p = StageProgress(item[w].stage)
    /\ Save(w, [item[w] EXCEPT !.progress = p], reviews[w])
    /\ UNCHANGED <<kids, disposition, pause, old, changes>>

Change ==
    /\ changes < MaxChanges
    /\ changes' = changes + 1

\* proposal.accept and proposal.reject record one Decision, which the HTTP
\* route can archive.
Dispose(w, v) ==
    /\ Kind[w] = "Proposal" /\ ~item[w].archived
    /\ disposition[w] = None
    /\ disposition' = [disposition EXCEPT ![w] = [value |-> v, active |-> TRUE]]
    /\ Save(w, item[w], reviews[w])
    /\ UNCHANGED <<kids, pause, old, changes>>

ArchiveDecision(w) ==
    /\ Decided(w)
    /\ disposition' = [disposition EXCEPT ![w].active = FALSE]
    /\ Change
    /\ UNCHANGED <<item, reviews, kids, pause, old>>

(***************************************************************************)
(* What invalidates reviews                                                *)
(***************************************************************************)

\* Mutant of Editable: completed work can be edited.
EditableMut(w, c) == ~item[w].archived

\* Completed work keeps its content; its priority can still change.
Editable(w, c) ==
    /\ ~item[w].archived
    /\ item[w].progress = "done" => c = item[w].content

Edit(w, c) ==
    /\ Editable(w, c)
    /\ Save(w, [item[w] EXCEPT !.content = c], reviews[w])
    /\ IF c = item[w].content THEN UNCHANGED changes ELSE Change
    /\ UNCHANGED <<kids, disposition, pause, old>>

Archive(w) ==
    /\ ~item[w].archived
    /\ Save(w, [item[w] EXCEPT !.archived = TRUE], reviews[w])
    /\ Change
    /\ UNCHANGED <<kids, disposition, pause, old>>

Restore(w) ==
    /\ item[w].archived
    /\ Save(w, [item[w] EXCEPT !.archived = FALSE], reviews[w])
    /\ UNCHANGED <<kids, disposition, pause, old, changes>>

ParentKinds(k) ==
    CASE k = "Project" -> {"Initiative"}
      [] k = "Issue"   -> {"Initiative", "Project"}
      [] k = "Task"    -> {"Initiative", "Project", "Issue"}
      [] OTHER         -> {}

\* parent.set of c to p, None to detach it; both ends of either edge are bumped.
SetParent(c, p) ==
    LET ends == ({c, p} \cap Works) \cup {w \in Works : c \in kids[w]} IN
    /\ p # None => Kind[p] \in ParentKinds(Kind[c])
    /\ \A w \in ends : ~item[w].archived /\ item[w].progress # "done"
    /\ kids' = [w \in Works |-> IF w = p THEN kids[w] \cup {c} ELSE kids[w] \ {c}]
    /\ kids' # kids
    /\ reviews' = Bumped(reviews, ends)
    /\ Change
    /\ UNCHANGED <<item, disposition, pause, old>>

\* The evidence or the record of one review changes or is archived, or an
\* attached requirement changes, on which every basis depends.
Disturb(w, P) ==
    /\ \E ph \in P : reviews[w][ph] # None /\ ~reviews[w][ph].stale
    /\ reviews' = [reviews EXCEPT ![w] =
                      [ph \in Phases |-> IF ph \in P /\ @[ph] # None
                                           THEN [@[ph] EXCEPT !.stale = TRUE] ELSE @[ph]]]
    /\ Change
    /\ UNCHANGED <<item, kids, disposition, pause, old>>

-----------------------------------------------------------------------------
Steps(w) ==
    \/ item[w].stage = None /\ \E f \in Flows, s \in AllStages : Assign(w, f, s)
    \/ Open(w) /\ \E ph \in Phases, v \in Verdicts("requirements"), X \in SUBSET kids[w] :
                      Record(w, ph, v, X)
    \/ Wait(w) \/ Resume(w) \/ Return(w) \/ Advance(w)
    \/ SetDone(w) \/ Reopen(w)
    \/ \E p \in {"not_started", "in_progress"} : Classify(w, p)
    \/ \E v \in {"accepted", "rejected"} : Dispose(w, v)
    \/ ArchiveDecision(w)
    \/ \E c \in Contents : Edit(w, c)
    \/ Archive(w) \/ Restore(w)
    \/ \E p \in Works \cup {None} : SetParent(w, p)
    \/ changes < MaxChanges /\ \E P \in {Phases} \cup {{ph} : ph \in Phases} : Disturb(w, P)

Next == \E w \in Works : Steps(w)

Spec == Init /\ [][Next]_vars

-----------------------------------------------------------------------------
(***************************************************************************)
(* Properties                                                              *)
(***************************************************************************)

\* The type of the state, with what WorkflowState.valid demands of a stored
\* workflow: a waiting item, and no other, knows where to resume.
TypeOK ==
    /\ item \in [Works -> Items]
    /\ reviews \in [Works -> [Phases -> Records \cup {None}]]
    /\ kids \in [Works -> SUBSET Works]
    /\ disposition \in [Works -> [value : {"accepted", "rejected"}, active : BOOLEAN] \cup {None}]
    /\ old \in [Works -> SUBSET Phases]
    /\ changes \in 0 .. MaxChanges
    /\ \A w \in Works :
          /\ (item[w].stage = Waiting) = (item[w].resume # None)
          /\ item[w].resume \notin {"done", Waiting}

\* A stored item can be read back: validate_progress refuses a progress that
\* does not follow from the stage, so every writer has to move the two together.
ProgressFollowsStage ==
    \A w \in Works :
        item[w].progress # None /\ item[w].stage # None =>
            item[w].progress = StageProgress(item[w].stage)

\* Completed work was reviewed as it is: unless it is a rejected Proposal, each
\* approval that completion needs is there, covers the present content, and was
\* given after the last return or reopening that sent its phase back to review.
DoneIsEarned ==
    \A w \in Works :
        item[w].stage = "done" /\ (disposition[w] = None \/ disposition[w].value = "accepted") =>
            \A ph \in Required(item[w].flow, "done") \cup {"requirements"} :
                /\ reviews[w][ph] # None
                /\ reviews[w][ph].verdict \in Verdicts(ph) \ {"refused", "partial"}
                /\ reviews[w][ph].content = item[w].content
                /\ ph \notin old[w]


\* No gate is passed without its review: wherever an item stands (or waits), the
\* reviews that admit to the stages up to it are recorded and approve.  The
\* ledger is left out, since it is reviewed anew after each return.
GatesInOrder ==
    \A w \in Works :
        LET s == IF item[w].stage = Waiting THEN item[w].resume ELSE item[w].stage IN
        s # None /\ (disposition[w] = None \/ disposition[w].value = "accepted") =>
            \A j \in 1 .. Position(item[w].flow, s) :
                \A ph \in EntryReviews(Stages[item[w].flow][j]) \ {"requirements"} :
                    reviews[w][ph] # None /\ reviews[w][ph].verdict = "approved"

\* Waiting "remembers the interrupted stage, and requires a recorded
\* resolution": work that stops waiting is back where it stopped, with an answer
\* given since; only a rejected Proposal is closed instead.
WaitingIsAnswered ==
    [][\A w \in Works :
          item[w].stage = Waiting /\ item'[w].stage # Waiting =>
              \/ pause[w].answered /\ item'[w].stage = pause[w].at
              \/ item'[w].stage = "done" /\ Rejected(w)]_vars

\* Work is completed over the children that its reviewers saw: each child is done
\* or excluded by the ledger, its progress is the one it had when every review
\* of the delivery was recorded, and no item that blocks the work is open.
CompletionIsWhole ==
    [][\A w \in Works :
          item[w].stage # "done" /\ item'[w].stage = "done" /\ ~Rejected(w) =>
              /\ \A c \in kids[w] :
                    /\ item[c].progress = "done" \/ c \in reviews[w]["requirements"].excluded
                    /\ \A ph \in {"requirements", "technical", "handoff"} :
                          reviews[w][ph].seen[c] = item[c].progress
              /\ \A x \in Works : <<x, w>> \in Blocks => item[x].progress = "done"]_vars


\* A stored item can be read back, is done only if it has earned it, and has passed no gate
\* without its review (workflows.py, progress_mutations.py).
StageInv == TypeOK /\ ProgressFollowsStage /\ DoneIsEarned /\ GatesInOrder

\* Work moves on only as answered and as reviewed: it leaves a wait where it stopped and with
\* an answer, and is completed over what its reviewers saw (Workflows.advance, resume).
MovesAreEarned == WaitingIsAnswered /\ CompletionIsWhole
====
