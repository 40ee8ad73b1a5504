---------------------------- MODULE WorkflowProofs ----------------------------
(***************************************************************************)
(* Proofs about Workflow, for any work items, kinds, blockers, contents    *)
(* and number of changes.                                                  *)
(***************************************************************************)
EXTENDS Workflow, TLAPS

-----------------------------------------------------------------------------
(* The two workflows, as tables.                                           *)

LEMMA ExecutionTable ==
  LET S == Stages["execution.v1"] IN
  /\ DOMAIN S = 1..10
  /\ S[1] = "backlog" /\ S[2] = "intake" /\ S[3] = "requirements_normalized"
  /\ S[4] = "baseline_captured" /\ S[5] = "implementing_commit" /\ S[6] = "commit_ready_for_review"
  /\ S[7] = "layer_review" /\ S[8] = "reconciling_ledger" /\ S[9] = "delivery_packet_ready"
  /\ S[10] = "done"
BY DEF Stages, Flows

LEMMA PlanTable ==
  LET S == Stages["vibe-ceo.v1"] IN
  /\ DOMAIN S = 1..10
  /\ S[1] = "backlog" /\ S[2] = "planning" /\ S[3] = "developer_plan_approval"
  /\ S[4] = "ceo_plan_approval" /\ S[5] = "ready" /\ S[6] = "in_progress"
  /\ S[7] = "ceo_delivery_approval" /\ S[8] = "technical_review" /\ S[9] = "handoff_verification"
  /\ S[10] = "done"
BY DEF Stages, Flows

LEMMA Indices == \A i \in 1..10 : i \in {1, 2, 3, 4, 5, 6, 7, 8, 9, 10}
OBVIOUS

LEMMA Distinct ==
  ASSUME NEW f \in Flows, NEW i \in 1..10, NEW k \in 1..10, Stages[f][i] = Stages[f][k]
  PROVE  i = k
<1>1. i \in {1, 2, 3, 4, 5, 6, 7, 8, 9, 10} /\ k \in {1, 2, 3, 4, 5, 6, 7, 8, 9, 10}
  BY Indices
<1>2. CASE f = "execution.v1"
  BY <1>1, <1>2, ExecutionTable
<1>3. CASE f = "vibe-ceo.v1"
  BY <1>1, <1>3, PlanTable
<1> QED
  BY <1>2, <1>3 DEF Flows

LEMMA PositionOf ==
  ASSUME NEW f \in Flows, NEW i \in 1..10
  PROVE  Position(f, Stages[f][i]) = i
<1>1. DOMAIN Stages[f] = 1..10
  BY ExecutionTable, PlanTable DEF Flows
<1>2. \A k \in DOMAIN Stages[f] : Stages[f][k] = Stages[f][i] => k = i
  BY <1>1, Distinct
<1> QED
  BY <1>1, <1>2 DEF Position

\* The position of the stage where work is done.
WorkPlace(f) == IF f = "execution.v1" THEN 5 ELSE 6

LEMMA Places ==
  ASSUME NEW f \in Flows
  PROVE  /\ DOMAIN Stages[f] = 1..10
         /\ WorkPlace(f) \in 5..6
         /\ Stages[f][WorkPlace(f)] = WorkStage(f) /\ Position(f, WorkStage(f)) = WorkPlace(f)
         /\ Stages[f][2] = PlanStage(f) /\ Stages[f][10] = "done" /\ Stages[f][1] = "backlog"
<1>1. /\ DOMAIN Stages[f] = 1..10 /\ WorkPlace(f) \in 5..6
      /\ Stages[f][WorkPlace(f)] = WorkStage(f)
      /\ Stages[f][2] = PlanStage(f) /\ Stages[f][10] = "done" /\ Stages[f][1] = "backlog"
  BY ExecutionTable, PlanTable DEF Flows, WorkPlace, WorkStage, PlanStage
<1>2. WorkPlace(f) \in 1..10
  BY <1>1
<1> QED
  BY <1>1, <1>2, PositionOf

LEMMA StagesOf ==
  ASSUME NEW f \in Flows, NEW s
  PROVE  s \in Range(Stages[f]) <=> \E i \in 1..10 : s = Stages[f][i]
BY Places DEF Range

LEMMA StageFacts ==
  ASSUME NEW f \in Flows, NEW i \in 1..10
  PROVE  /\ Stages[f][i] \in AllStages /\ Stages[f][i] \in Range(Stages[f])
         /\ Stages[f][i] # Waiting /\ Stages[f][i] # None
         /\ Stages[f][i] = "done" <=> i = 10
<1>1. Stages[f][i] \in Range(Stages[f])
  BY StagesOf
<1>2. Stages[f][i] \in AllStages
  BY <1>1 DEF AllStages
<1>3. Stages[f][i] # None
  BY <1>2, NoneAssumption
<1>4. Stages[f][i] # Waiting
  BY Indices, ExecutionTable, PlanTable DEF Flows, Waiting
<1>5. 10 \in 1..10
  OBVIOUS
<1>6. Stages[f][i] = "done" <=> i = 10
  BY <1>5, Places, Distinct
<1> QED
  BY <1>1, <1>2, <1>3, <1>4, <1>6

LEMMA ForwardOf ==
  ASSUME NEW f \in Flows, NEW i \in 1..9
  PROVE  Forward(f, Stages[f][i]) = Stages[f][i + 1]
<1>1. i \in 1..10
  OBVIOUS
<1> QED
  BY <1>1, PositionOf, Zenon DEF Forward

\* A return leads back, to planning or to the work.
LEMMA ReturnsBack ==
  ASSUME NEW f \in Flows, NEW i \in 1..9, Returns(f, Stages[f][i]) # None
  PROVE  \/ Returns(f, Stages[f][i]) = PlanStage(f) /\ 2 < i
         \/ Returns(f, Stages[f][i]) = WorkStage(f) /\ WorkPlace(f) < i
<1> DEFINE s == Stages[f][i]
<1>0. i \in 1..10 /\ WorkPlace(f) \in 1..10 /\ WorkPlace(f) \in Nat
  BY Places
<1>1. s \in {WorkStage(f), "developer_plan_approval", "ceo_plan_approval"} =>
        2 < i /\ i <= WorkPlace(f)
  <2>1. i \in {1, 2, 3, 4, 5, 6, 7, 8, 9, 10}
    BY <1>0, Indices, Zenon
  <2> QED
    BY <2>1, ExecutionTable, PlanTable DEF Flows, WorkStage, WorkPlace
<1>2. s \in Range(SubSeq(Stages[f], Position(f, WorkStage(f)) + 1, 9)) => WorkPlace(f) < i
  <2> SUFFICES ASSUME s \in Range(SubSeq(Stages[f], WorkPlace(f) + 1, 9))
               PROVE  WorkPlace(f) < i
    BY Places, Zenon
  <2>1. PICK k \in DOMAIN SubSeq(Stages[f], WorkPlace(f) + 1, 9) :
              s = SubSeq(Stages[f], WorkPlace(f) + 1, 9)[k]
    BY Zenon DEF Range
  <2>2. k \in 1..(9 - WorkPlace(f)) /\ s = Stages[f][k + WorkPlace(f)]
    BY <1>0, <2>1
  <2>3. k + WorkPlace(f) \in 1..10
    BY <1>0, <2>2, Places
  <2>4. i = k + WorkPlace(f)
    BY <1>0, <2>2, <2>3, Distinct, Zenon
  <2> QED
    BY <1>0, <2>2, <2>4
<1>3. CASE s \in {WorkStage(f), "developer_plan_approval", "ceo_plan_approval"}
  <2>1. s \notin Range(SubSeq(Stages[f], Position(f, WorkStage(f)) + 1, 9))
    BY <1>0, <1>1, <1>2, <1>3
  <2> QED
    BY <1>1, <1>3, <2>1, Zenon DEF Returns
<1>4. CASE s \notin {WorkStage(f), "developer_plan_approval", "ceo_plan_approval"}
  BY <1>2, <1>4, Zenon DEF Returns
<1> QED
  BY <1>3, <1>4, Zenon

\* The next stage is not one to return to.
LEMMA ForwardIsNoReturn ==
  ASSUME NEW f \in Flows, NEW i \in 1..9
  PROVE  Stages[f][i + 1] \notin {Waiting, Returns(f, Stages[f][i])}
<1>0. i + 1 \in 1..10 /\ i \in 1..10 /\ WorkPlace(f) \in 1..10 /\ 2 \in 1..10
  BY Places
<1>1. Stages[f][i + 1] # Waiting /\ Stages[f][i + 1] # None
  BY <1>0, StageFacts, Zenon
<1>2. CASE Returns(f, Stages[f][i]) = PlanStage(f) /\ 2 < i
  <2>1. Stages[f][i + 1] # Stages[f][2]
    BY <1>0, <1>2, Distinct
  <2> QED
    BY <1>1, <1>2, <2>1, Places, Zenon
<1>3. CASE Returns(f, Stages[f][i]) = WorkStage(f) /\ WorkPlace(f) < i
  <2>1. Stages[f][i + 1] # Stages[f][WorkPlace(f)]
    BY <1>0, <1>3, Distinct
  <2> QED
    BY <1>1, <1>3, <2>1, Places, Zenon
<1> QED
  BY <1>1, <1>2, <1>3, ReturnsBack, Zenon

\* The reviews that admit to a stage, the ledger aside.
Entry(f, i) == EntryReviews(Stages[f][i]) \ {"requirements"}

LEMMA EntryTable ==
  ASSUME NEW f \in Flows, NEW i \in 1..10
  PROVE  /\ Entry(f, i) \subseteq Phases \ {"requirements", "resolution"}
         /\ i <= 2 => Entry(f, i) = {}
         /\ i <= WorkPlace(f) => Entry(f, i) \subseteq PlanPhases
<1>1. i \in {1, 2, 3, 4, 5, 6, 7, 8, 9, 10}
  BY Indices, Zenon
<1>2. CASE f = "execution.v1"
  BY <1>1, <1>2, ExecutionTable DEF Entry, EntryReviews, Phases, PlanPhases, WorkPlace
<1>3. CASE f = "vibe-ceo.v1"
  BY <1>1, <1>3, PlanTable DEF Entry, EntryReviews, Phases, PlanPhases, WorkPlace
<1> QED
  BY <1>2, <1>3, Zenon DEF Flows

\* A review is recorded before the stage it admits to is reached.
LEMMA RecordedBefore ==
  ASSUME NEW f \in Flows, NEW i \in 1..10, NEW j \in 1..i, NEW ph \in Phases \ {"requirements"},
         Stages[f][i] \in OwnGate(ph)
  PROVE  ph \notin Entry(f, j)
<1>1. i \in {1, 2, 3, 4, 5, 6, 7, 8, 9, 10} /\ j \in {1, 2, 3, 4, 5, 6, 7, 8, 9, 10} /\ j <= i
  BY Indices
<1>2. CASE f = "execution.v1"
  BY <1>1, <1>2, ExecutionTable DEF Entry, EntryReviews, Phases, OwnGate, Waiting
<1>3. CASE f = "vibe-ceo.v1"
  BY <1>1, <1>3, PlanTable DEF Entry, EntryReviews, Phases, OwnGate, Waiting
<1> QED
  BY <1>2, <1>3, Zenon DEF Flows

-----------------------------------------------------------------------------
(* The invariant.                                                          *)

\* The stage of the workflow an item is at, or waits at.
At(i) == IF i.stage = Waiting THEN i.resume ELSE i.stage

NotRejected(d) == d = None \/ d.value = "accepted"

\* The reviews that admit to the first n stages are there and approve.
Passed(f, R, n) ==
    \A j \in 1..n : \A ph \in Entry(f, j) : R[ph] # None /\ R[ph].verdict = "approved"

\* What completion needs is there, for the present content.
Finished(i, R) ==
    \A ph \in Required(i.flow, "done") \cup {"requirements"} :
        /\ R[ph] # None
        /\ R[ph].verdict \in Verdicts(ph) \ {"refused", "partial"}
        /\ R[ph].content = i.content

\* What holds of an item i with its reviews R, its pause p and its disposition
\* d.  A review that has gone stale still counts: staleness bars the next gate.
Sound(w, i, R, p, d) ==
    /\ i.stage = None => \A ph \in Phases : R[ph] = None
    /\ i.stage # None =>
         /\ i.flow \in Flows /\ Kind[w] # "Todo"
         /\ \E n \in 1..10 : At(i) = Stages[i.flow][n] /\ (NotRejected(d) => Passed(i.flow, R, n))
    /\ i.progress # None /\ i.stage # None => i.progress = StageProgress(i.stage)
    /\ i.stage = "done" => i.progress = "done" /\ (NotRejected(d) => Finished(i, R))
    /\ i.stage = Waiting => p.at = i.resume /\ (R["resolution"] # None => p.answered)

\* A review that is not stale saw its children as they are.
Sees(r) == r # None /\ ~r.stale => \A c \in r.kids : r.seen[c] = item[c].progress

Pauses == [at : AllStages \cup {None}, answered : BOOLEAN]

Dispositions == [value : {"accepted", "rejected"}, active : BOOLEAN] \cup {None}

\* The inductive invariant.
IInv ==
    /\ TypeOK /\ pause \in [Works -> Pauses]
    /\ \A w \in Works : old[w] = {}
    /\ \A w \in Works, ph \in Phases : Sees(reviews[w][ph])
    /\ \A w \in Works : Sound(w, item[w], reviews[w], pause[w], disposition[w])

\* What a step may do to an item that waits, or to one that is completed.
EarnedAt(w) ==
    /\ item[w].stage = Waiting /\ item'[w].stage # Waiting =>
         \/ pause[w].answered /\ item'[w].stage = pause[w].at
         \/ item'[w].stage = "done" /\ Rejected(w)
    /\ item[w].stage # "done" /\ item'[w].stage = "done" /\ ~Rejected(w) =>
         /\ \A c \in kids[w] :
               /\ item[c].progress = "done" \/ c \in reviews[w]["requirements"].excluded
               /\ \A ph \in {"requirements", "technical", "handoff"} :
                     reviews[w][ph].seen[c] = item[c].progress
         /\ \A x \in Works : <<x, w>> \in Blocks => item[x].progress = "done"

Earned == \A w \in Works : EarnedAt(w)

\* None is no stage, progress or review, and these are not each other.
LEMMA NoneFacts ==
  /\ None \notin Records /\ None # Waiting /\ None # "done" /\ None # "backlog"
  /\ None # "not_started" /\ None # "in_progress"
  /\ Waiting \notin {"done", "backlog"}
  /\ "backlog" \in AllStages /\ "done" \in AllStages
<1>1. "execution.v1" \in Flows /\ 1 \in 1..10 /\ 10 \in 1..10
  BY DEF Flows
<1>2. "backlog" \in AllStages /\ "done" \in AllStages
  BY <1>1, StageFacts, Places, Zenon
<1> QED
  BY <1>2, NoneAssumption, Zenon DEF Waiting

LEMMA IInvImplies == IInv => StageInv
<1> SUFFICES ASSUME IInv PROVE StageInv
  OBVIOUS
<1>1. ProgressFollowsStage
  BY Zenon DEF IInv, Sound, ProgressFollowsStage
<1>2. DoneIsEarned
  BY ZenonT(40) DEF IInv, Sound, Finished, DoneIsEarned, NotRejected
<1>3. GatesInOrder
  <2> SUFFICES ASSUME NEW w \in Works, At(item[w]) # None, NotRejected(disposition[w]),
                      NEW j \in 1..Position(item[w].flow, At(item[w])),
                      NEW ph \in Entry(item[w].flow, j)
               PROVE  reviews[w][ph] # None /\ reviews[w][ph].verdict = "approved"
    BY Zenon DEF GatesInOrder, At, NotRejected, Entry
  <2>1. item[w].stage # None
    BY NoneFacts, Zenon DEF At
  <2>2. item[w].flow \in Flows
    BY <2>1, Zenon DEF IInv, Sound
  <2>3. PICK n \in 1..10 : At(item[w]) = Stages[item[w].flow][n]
                           /\ Passed(item[w].flow, reviews[w], n)
    BY <2>1, Zenon DEF IInv, Sound
  <2>4. Position(item[w].flow, At(item[w])) = n
    BY <2>2, <2>3, PositionOf, Zenon
  <2> QED
    BY <2>3, <2>4, Zenon DEF Passed
<1> QED
  BY <1>1, <1>2, <1>3, Zenon DEF IInv, StageInv

\* An item no phase of which is recorded, at a stage before any review.
LEMMA EarlyIsPassed ==
  ASSUME NEW f \in Flows, NEW R, NEW n \in 1..2
  PROVE  Passed(f, R, n)
<1> SUFFICES ASSUME NEW j \in 1..n PROVE Entry(f, j) = {}
  BY Zenon DEF Passed
<1>1. j \in 1..10 /\ j <= 2
  OBVIOUS
<1> QED
  BY <1>1, EntryTable, Zenon

\* A fresh or older item, in the three forms it is stored in.
LEMMA StoredFacts ==
  ASSUME NEW w \in Works, NEW i \in Stored(w)
  PROVE  /\ i \in Items /\ i.resume = None
         /\ \/ i.stage = None
            \/ i.stage = "backlog" /\ i.flow \in Flows /\ Kind[w] # "Todo"
         /\ i.progress \in {None, "not_started"}
<1>1. PICK c0 \in Contents : c0 = CHOOSE c \in Contents : TRUE
  BY WorkflowAssumption, Zenon
<1>2. PICK f0 \in Flows : f0 = DefaultFlow(w)
  BY Zenon DEF DefaultFlow, Flows
<1>3. PICK f \in Flows \cup {None}, st \in AllStages \cup {None} :
        /\ Fresh(w) = [progress |-> "not_started", archived |-> FALSE, content |-> c0,
                       flow |-> f, stage |-> st, resume |-> None]
        /\ st = None \/ (st = "backlog" /\ f \in Flows /\ Kind[w] # "Todo")
  <2>1. CASE Kind[w] = "Todo"
    BY <1>1, <2>1, Zenon DEF Fresh
  <2>2. CASE Kind[w] # "Todo"
    BY <1>1, <1>2, <2>2, NoneFacts, Zenon DEF Fresh
  <2> QED
    BY <2>1, <2>2, Zenon
<1>4. PICK fr \in Items : fr = Fresh(w)
  BY <1>3, Zenon DEF Items, Progresses
<1>5. fr.progress = "not_started" /\ fr.flow = f /\ fr.stage = st /\ fr.resume = None
  BY <1>3, <1>4
<1>6. CASE i = fr
  BY <1>3, <1>5, <1>6, Zenon
<1>7. CASE i = [fr EXCEPT !.progress = None]
  <2>1. i \in Items
    BY <1>7, Zenon DEF Items, Progresses
  <2>2. i.progress = None /\ i.stage = fr.stage /\ i.flow = fr.flow /\ i.resume = fr.resume
    BY <1>7, Zenon DEF Items
  <2> QED
    BY <1>3, <1>5, <2>1, <2>2, Zenon
<1>8. CASE i = [fr EXCEPT !.progress = None, !.flow = None, !.stage = None]
  <2>1. i \in Items
    BY <1>8, Zenon DEF Items, Progresses
  <2>2. i.progress = None /\ i.stage = None /\ i.resume = fr.resume
    BY <1>8, Zenon DEF Items
  <2> QED
    BY <1>5, <2>1, <2>2, Zenon
<1> QED
  BY <1>4, <1>6, <1>7, <1>8, Zenon DEF Stored

LEMMA InitIInv == Init => IInv
<1> SUFFICES ASSUME Init PROVE IInv
  OBVIOUS
<1>1. \A w \in Works : item[w] \in Stored(w)
  BY Zenon DEF Init
<1>2. \A w \in Works :
        /\ item[w] \in Items /\ item[w].resume = None
        /\ \/ item[w].stage = None
           \/ item[w].stage = "backlog" /\ item[w].flow \in Flows /\ Kind[w] # "Todo"
        /\ item[w].progress \in {None, "not_started"}
  BY <1>1, StoredFacts, Zenon
<1>3. /\ \A w \in Works, ph \in Phases : reviews[w][ph] = None
      /\ \A w \in Works : old[w] = {}
  BY Zenon DEF Init, NoReviews
<1>4. TypeOK /\ pause \in [Works -> Pauses]
  <2>1. item \in [Works -> Items]
    BY <1>2, Zenon DEF Init
  <2>2. reviews \in [Works -> [Phases -> Records \cup {None}]] /\ kids \in [Works -> SUBSET Works]
    BY Zenon DEF Init, NoReviews
  <2>3. disposition \in [Works -> [value : {"accepted", "rejected"}, active : BOOLEAN] \cup {None}]
        /\ old \in [Works -> SUBSET Phases] /\ changes \in 0..MaxChanges
    BY WorkflowAssumption DEF Init
  <2>4. pause \in [Works -> Pauses]
    BY Zenon DEF Init, NotWaiting, Pauses
  <2>5. \A w \in Works : /\ (item[w].stage = Waiting) = (item[w].resume # None)
                         /\ item[w].resume \notin {"done", Waiting}
    BY <1>2, NoneFacts, Zenon
  <2> QED
    BY <2>1, <2>2, <2>3, <2>4, <2>5, Zenon DEF TypeOK
<1>5. \A w \in Works : Sound(w, item[w], reviews[w], pause[w], disposition[w])
  <2> SUFFICES ASSUME NEW w \in Works
               PROVE  Sound(w, item[w], reviews[w], pause[w], disposition[w])
    OBVIOUS
  <2>1. CASE item[w].stage = None
    BY <1>3, <2>1, NoneFacts, Zenon DEF Sound
  <2>2. CASE item[w].stage # None
    <3>1. /\ item[w].stage = "backlog" /\ item[w].flow \in Flows /\ Kind[w] # "Todo"
          /\ item[w].progress \in {None, "not_started"}
      BY <1>2, <2>2, Zenon
    <3>2. At(item[w]) = Stages[item[w].flow][1] /\ Passed(item[w].flow, reviews[w], 1)
      BY <3>1, Places, EarlyIsPassed, NoneFacts DEF At
    <3>3. item[w].stage # None /\ item[w].stage # "done" /\ item[w].stage # Waiting
      BY <3>1, NoneFacts, Zenon
    <3>4. StageProgress(item[w].stage) = "not_started"
      BY <3>1, Zenon DEF StageProgress
    <3> QED
      BY <3>1, <3>2, <3>3, <3>4 DEF Sound
  <2> QED
    BY <2>1, <2>2, Zenon
<1>6. \A w \in Works, ph \in Phases : Sees(reviews[w][ph])
  BY <1>3, Zenon DEF Sees
<1> QED
  BY <1>3, <1>4, <1>5, <1>6, Zenon DEF IInv

-----------------------------------------------------------------------------
(* What reviews go through.                                                *)

\* The same review, perhaps stale now.
Aged(r, s) ==
    /\ (s = None) = (r = None)
    /\ r # None => /\ s.verdict = r.verdict /\ s.content = r.content
                   /\ s.kids = r.kids /\ s.seen = r.seen
                   /\ ~s.stale => ~r.stale

LEMMA StaleFacts ==
  ASSUME NEW r \in Records
  PROVE  /\ [r EXCEPT !.stale = TRUE] \in Records
         /\ Aged(r, [r EXCEPT !.stale = TRUE]) /\ [r EXCEPT !.stale = TRUE].stale
<1>1. [r EXCEPT !.stale = TRUE] \in Records
  BY Zenon DEF Records
<1>2. [r EXCEPT !.stale = TRUE] # None /\ r # None
  BY <1>1, NoneFacts, Zenon
<1> QED
  BY <1>1, <1>2, Zenon DEF Aged, Records

LEMMA OutdatedFacts ==
  ASSUME NEW r \in Records \cup {None}, NEW S
  PROVE  /\ Outdated(r, S) \in Records \cup {None}
         /\ Aged(r, Outdated(r, S))
         /\ r # None /\ ~Outdated(r, S).stale => r.kids \cap S = {}
<1>1. CASE r # None /\ r.kids \cap S # {}
  BY <1>1, StaleFacts, Zenon DEF Outdated
<1>2. CASE ~ (r # None /\ r.kids \cap S # {})
  <2>1. Outdated(r, S) = r
    BY <1>2, Zenon DEF Outdated
  <2> QED
    BY <1>2, <2>1, Zenon DEF Aged
<1> QED
  BY <1>1, <1>2, Zenon

\* Reviews that only age, and an item that keeps its place, keep what holds of
\* them.
LEMMA AgedSound ==
  ASSUME NEW w \in Works, NEW i, NEW R, NEW p, NEW d, NEW k, NEW S, NEW e,
         Sound(w, i, R, p, d),
         \A ph \in Phases : Aged(R[ph], S[ph]),
         k.stage = i.stage, k.flow = i.flow, k.resume = i.resume, k.progress = i.progress,
         i.stage = "done" => k.content = i.content,
         NotRejected(e) => NotRejected(d)
  PROVE  Sound(w, k, S, p, e)
<1>1. At(k) = At(i)
  BY Zenon DEF At
<1>2. i.stage = None => \A ph \in Phases : S[ph] = None
  BY Zenon DEF Sound, Aged
<1>3. i.stage # None =>
         /\ i.flow \in Flows /\ Kind[w] # "Todo"
         /\ \E n \in 1..10 : At(i) = Stages[i.flow][n] /\ (NotRejected(e) => Passed(i.flow, S, n))
  <2> SUFFICES ASSUME i.stage # None
               PROVE  /\ i.flow \in Flows /\ Kind[w] # "Todo"
                      /\ \E n \in 1..10 : At(i) = Stages[i.flow][n]
                                          /\ (NotRejected(e) => Passed(i.flow, S, n))
    OBVIOUS
  <2>1. i.flow \in Flows /\ Kind[w] # "Todo"
    BY Zenon DEF Sound
  <2>2. PICK n \in 1..10 : At(i) = Stages[i.flow][n] /\ (NotRejected(d) => Passed(i.flow, R, n))
    BY Zenon DEF Sound
  <2>3. ASSUME NotRejected(e), NEW j \in 1..n, NEW ph \in Entry(i.flow, j)
        PROVE  S[ph] # None /\ S[ph].verdict = "approved"
    <3>1. ph \in Phases
      BY <2>1, EntryTable
    <3>2. R[ph] # None /\ R[ph].verdict = "approved"
      BY <2>2, <2>3, Zenon DEF Passed
    <3> QED
      BY <3>1, <3>2, Zenon DEF Aged
  <2> QED
    BY <2>1, <2>2, <2>3, Zenon DEF Passed
<1>4. i.stage = "done" => i.progress = "done" /\ (NotRejected(e) => Finished(k, S))
  <2> SUFFICES ASSUME i.stage = "done", NotRejected(e),
                      NEW ph \in Required(i.flow, "done") \cup {"requirements"}
               PROVE  /\ S[ph] # None
                      /\ S[ph].verdict \in Verdicts(ph) \ {"refused", "partial"}
                      /\ S[ph].content = k.content
    BY Zenon DEF Sound, Finished
  <2>1. ph \in Phases
    BY Zenon DEF Required, EntryReviews, FinalPhases, Phases
  <2>2. /\ R[ph] # None
        /\ R[ph].verdict \in Verdicts(ph) \ {"refused", "partial"}
        /\ R[ph].content = i.content
    BY Zenon DEF Sound, Finished
  <2> QED
    BY <2>1, <2>2, Zenon DEF Aged
<1>5. i.stage = Waiting => p.at = i.resume /\ (S["resolution"] # None => p.answered)
  BY Zenon DEF Sound, Aged, Phases
<1> QED
  BY <1>1, <1>2, <1>3, <1>4, <1>5, Zenon DEF Sound

-----------------------------------------------------------------------------
(* Steps that write an item, and steps that only make reviews stale.       *)

LEMMA SaveFacts ==
  ASSUME TypeOK, NEW w \in Works, NEW i \in Items, NEW revs \in [Phases -> Records \cup {None}],
         Save(w, i, revs)
  PROVE  /\ item' \in [Works -> Items] /\ reviews' \in [Works -> [Phases -> Records \cup {None}]]
         /\ item'[w] = i /\ \A x \in Works \ {w} : item'[x] = item[x]
         /\ \A ph \in Phases : reviews'[w][ph] = Outdated(revs[ph], {w})
         /\ \A x \in Works \ {w}, ph \in Phases :
              reviews'[x][ph] = Outdated(reviews[x][ph], {w})
<1>1. item \in [Works -> Items] /\ reviews \in [Works -> [Phases -> Records \cup {None}]]
  BY Zenon DEF TypeOK
<1>2. item' \in [Works -> Items] /\ item'[w] = i /\ \A x \in Works \ {w} : item'[x] = item[x]
  BY <1>1, Zenon DEF Save
<1>3. PICK all \in [Works -> [Phases -> Records \cup {None}]] :
        /\ all = [reviews EXCEPT ![w] = revs]
        /\ all[w] = revs /\ \A x \in Works \ {w} : all[x] = reviews[x]
  <2> DEFINE new == [reviews EXCEPT ![w] = revs]
  <2>1. new \in [Works -> [Phases -> Records \cup {None}]]
    BY <1>1, Zenon
  <2>2. new[w] = revs /\ \A x \in Works \ {w} : new[x] = reviews[x]
    BY <1>1, Zenon
  <2> QED
    BY <2>1, <2>2, Zenon
<1>4. reviews' = [x \in Works |-> [ph \in Phases |-> Outdated(all[x][ph], {w})]]
  BY <1>3, Zenon DEF Save, Bumped
<1>5. \A x \in Works, ph \in Phases : Outdated(all[x][ph], {w}) \in Records \cup {None}
  BY OutdatedFacts
<1> QED
  BY <1>2, <1>3, <1>4, <1>5, Zenon

LEMMA SavedReviews ==
  ASSUME TypeOK, NEW w \in Works, NEW i \in Items, NEW revs \in [Phases -> Records \cup {None}],
         Save(w, i, revs)
  PROVE  \A ph \in Phases : reviews'[w][ph] = Outdated(revs[ph], {w})
BY SaveFacts, ZenonT(40)

\* No review is left fresh that covers the item just written.
LEMMA SaveSees ==
  ASSUME TypeOK, NEW w \in Works, NEW i \in Items, NEW revs \in [Phases -> Records \cup {None}],
         Save(w, i, revs),
         \A x \in Works, ph \in Phases : Sees(reviews[x][ph]), \A ph \in Phases : Sees(revs[ph])
  PROVE  \A x \in Works, ph \in Phases : Sees(reviews[x][ph])'
<1>0. /\ \A q \in Phases : reviews'[w][q] = Outdated(revs[q], {w})
      /\ \A v \in Works \ {w} : item'[v] = item[v]
      /\ \A v \in Works \ {w}, q \in Phases : reviews'[v][q] = Outdated(reviews[v][q], {w})
  BY SaveFacts, ZenonT(40)
<1> SUFFICES ASSUME NEW x \in Works, NEW ph \in Phases, reviews'[x][ph] # None,
                    ~reviews'[x][ph].stale, NEW c \in reviews'[x][ph].kids
             PROVE  reviews'[x][ph].seen[c] = item'[c].progress
  BY Zenon DEF Sees
<1>1. PICK r \in Records \cup {None} : reviews'[x][ph] = Outdated(r, {w}) /\ Sees(r)
  <2>1. CASE x = w
    <3>1. reviews'[x][ph] = Outdated(revs[ph], {w})
      BY <1>0, <2>1, Zenon
    <3>2. revs[ph] \in Records \cup {None} /\ Sees(revs[ph])
      OBVIOUS
    <3> QED
      BY <3>1, <3>2, Zenon
  <2>2. CASE x # w
    <3>1. reviews'[x][ph] = Outdated(reviews[x][ph], {w})
      BY <1>0, <2>2, Zenon
    <3>2. reviews[x][ph] \in Records \cup {None} /\ Sees(reviews[x][ph])
      BY DEF TypeOK
    <3> QED
      BY <3>1, <3>2, Zenon
  <2> QED
    BY <2>1, <2>2, Zenon
<1>2. Aged(r, reviews'[x][ph])
  BY <1>1, OutdatedFacts
<1>3. /\ r # None /\ r \in Records /\ ~r.stale
      /\ reviews'[x][ph].kids = r.kids /\ reviews'[x][ph].seen = r.seen
  BY <1>2, Zenon DEF Aged
<1>4. r.kids \cap {w} = {} /\ r.kids \subseteq Works
  BY <1>1, <1>3, OutdatedFacts, ZenonT(40) DEF Records
<1>5. item'[c] = item[c]
  BY <1>0, <1>3, <1>4, Zenon
<1> QED
  BY <1>1, <1>3, <1>5, Zenon DEF Sees

\* A step that writes item w preserves the invariant when what it writes is
\* sound; the other items are where they were.
LEMMA SaveKeeps ==
  ASSUME IInv, NEW w \in Works, NEW i \in Items, NEW revs \in [Phases -> Records \cup {None}],
         Save(w, i, revs), kids' = kids, changes' \in 0..MaxChanges,
         pause' \in [Works -> Pauses], disposition' \in [Works -> Dispositions],
         \A x \in Works \ {w} : pause'[x] = pause[x] /\ disposition'[x] = disposition[x],
         old' \in [Works -> SUBSET Phases], \A x \in Works : old'[x] = {},
         (i.stage = Waiting) = (i.resume # None), i.resume \notin {"done", Waiting},
         \A ph \in Phases : Sees(revs[ph]),
         Sound(w, i, revs, pause'[w], disposition'[w])
  PROVE  IInv' /\ \A x \in Works \ {w} : EarnedAt(x)
<1>0. TypeOK /\ pause \in [Works -> Pauses] /\ disposition \in [Works -> Dispositions]
  BY Zenon DEF IInv, TypeOK, Dispositions
<1>1. /\ item' \in [Works -> Items] /\ reviews' \in [Works -> [Phases -> Records \cup {None}]]
      /\ item'[w] = i /\ \A x \in Works \ {w} : item'[x] = item[x]
      /\ \A ph \in Phases : reviews'[w][ph] = Outdated(revs[ph], {w})
      /\ \A x \in Works \ {w}, ph \in Phases : reviews'[x][ph] = Outdated(reviews[x][ph], {w})
  BY <1>0, SaveFacts, Zenon
<1>4. TypeOK'
  <2>1. \A x \in Works : /\ (item'[x].stage = Waiting) = (item'[x].resume # None)
                         /\ item'[x].resume \notin {"done", Waiting}
    <3>1. \A x \in Works : /\ (item[x].stage = Waiting) = (item[x].resume # None)
                           /\ item[x].resume \notin {"done", Waiting}
      BY <1>0, Zenon DEF TypeOK
    <3>2. \A x \in Works \ {w} : item'[x] = item[x]
      BY <1>1, Zenon
    <3> SUFFICES ASSUME NEW x \in Works
                 PROVE  /\ (item'[x].stage = Waiting) = (item'[x].resume # None)
                        /\ item'[x].resume \notin {"done", Waiting}
      BY Zenon
    <3>3. CASE x = w
      BY <1>1, <3>3, Zenon
    <3>4. CASE x # w
      <4>1. item'[x] = item[x]
        BY <3>2, <3>4, Zenon
      <4> QED
        BY <3>1, <4>1, Zenon
    <3> QED
      BY <3>3, <3>4, Zenon
  <2> QED
    BY <1>0, <1>1, <2>1, Zenon DEF TypeOK, Dispositions
<1>5. \A x \in Works, ph \in Phases : Sees(reviews[x][ph])'
  BY <1>0, SaveSees, Zenon DEF IInv
<1>6. \A x \in Works : Sound(x, item'[x], reviews'[x], pause'[x], disposition'[x])
  <2> SUFFICES ASSUME NEW x \in Works
               PROVE  Sound(x, item'[x], reviews'[x], pause'[x], disposition'[x])
    OBVIOUS
  <2>1. CASE x = w
    <3>1. \A ph \in Phases : Aged(revs[ph], reviews'[w][ph])
      <4> SUFFICES ASSUME NEW ph \in Phases PROVE Aged(revs[ph], reviews'[w][ph])
        OBVIOUS
      <4>1. revs[ph] \in Records \cup {None}
        OBVIOUS
      <4>2. reviews'[w][ph] = Outdated(revs[ph], {w})
        BY <1>1, Zenon
      <4> QED
        BY <4>1, <4>2, OutdatedFacts
    <3>2. Sound(w, i, reviews'[w], pause'[w], disposition'[w])
      BY <3>1, AgedSound, Zenon
    <3> QED
      BY <1>1, <2>1, <3>2, Zenon
  <2>2. CASE x # w
    <3>1. Sound(x, item[x], reviews[x], pause[x], disposition[x])
      BY Zenon DEF IInv
    <3>2. \A ph \in Phases : Aged(reviews[x][ph], reviews'[x][ph])
      <4> SUFFICES ASSUME NEW ph \in Phases PROVE Aged(reviews[x][ph], reviews'[x][ph])
        OBVIOUS
      <4>1. reviews[x][ph] \in Records \cup {None}
        BY <1>0 DEF TypeOK
      <4>2. reviews'[x][ph] = Outdated(reviews[x][ph], {w})
        BY <1>1, <2>2, Zenon
      <4> QED
        BY <4>1, <4>2, OutdatedFacts
    <3>3. Sound(x, item[x], reviews'[x], pause[x], disposition[x])
      BY <3>1, <3>2, AgedSound, ZenonT(40)
    <3> QED
      BY <1>1, <2>2, <3>3, Zenon
  <2> QED
    BY <2>1, <2>2, Zenon
<1>7. \A x \in Works \ {w} : EarnedAt(x)
  BY <1>1, Zenon DEF EarnedAt
<1> QED
  BY <1>4, <1>5, <1>6, <1>7, Zenon DEF IInv

\* A step that leaves the items alone and makes reviews stale.
LEMMA AgeKeeps ==
  ASSUME IInv, item' = item, pause' = pause, old' = old, changes' \in 0..MaxChanges,
         kids' \in [Works -> SUBSET Works], disposition' \in [Works -> Dispositions],
         reviews' \in [Works -> [Phases -> Records \cup {None}]],
         \A x \in Works, ph \in Phases : Aged(reviews[x][ph], reviews'[x][ph]),
         \A x \in Works : NotRejected(disposition'[x]) => NotRejected(disposition[x])
  PROVE  IInv' /\ Earned
<1>1. TypeOK'
  BY Zenon DEF IInv, TypeOK, Dispositions
<1>2. \A x \in Works, ph \in Phases : Sees(reviews[x][ph])'
  <2> SUFFICES ASSUME NEW x \in Works, NEW ph \in Phases PROVE Sees(reviews[x][ph])'
    OBVIOUS
  <2>1. Sees(reviews[x][ph]) /\ Aged(reviews[x][ph], reviews'[x][ph])
    BY Zenon DEF IInv
  <2> QED
    BY <2>1, Zenon DEF Sees, Aged
<1>3. \A x \in Works : Sound(x, item'[x], reviews'[x], pause'[x], disposition'[x])
  <2> SUFFICES ASSUME NEW x \in Works
               PROVE  Sound(x, item[x], reviews'[x], pause[x], disposition'[x])
    OBVIOUS
  <2>1. Sound(x, item[x], reviews[x], pause[x], disposition[x])
    BY Zenon DEF IInv
  <2> QED
    BY <2>1, AgedSound, Zenon
<1>4. Earned
  BY Zenon DEF Earned, EarnedAt
<1> QED
  BY <1>1, <1>2, <1>3, <1>4, Zenon DEF IInv

-----------------------------------------------------------------------------
(* One lemma per action: it preserves the invariant and its moves are      *)
(* earned.                                                                 *)

\* What the invariant says of one item.
LEMMA Here ==
  ASSUME IInv, NEW w \in Works
  PROVE  /\ item[w] \in Items /\ reviews[w] \in [Phases -> Records \cup {None}]
         /\ pause[w] \in Pauses /\ disposition[w] \in Dispositions /\ kids[w] \subseteq Works
         /\ pause \in [Works -> Pauses] /\ disposition \in [Works -> Dispositions]
         /\ old \in [Works -> SUBSET Phases] /\ (\A x \in Works : old[x] = {})
         /\ changes \in 0..MaxChanges
         /\ (item[w].stage = Waiting) = (item[w].resume # None)
         /\ item[w].resume \notin {"done", Waiting}
         /\ \A ph \in Phases : Sees(reviews[w][ph])
         /\ Sound(w, item[w], reviews[w], pause[w], disposition[w])
<1>1. /\ item[w] \in Items /\ reviews[w] \in [Phases -> Records \cup {None}]
      /\ disposition[w] \in Dispositions /\ kids[w] \subseteq Works
      /\ old \in [Works -> SUBSET Phases] /\ changes \in 0..MaxChanges
  BY Zenon DEF IInv, TypeOK, Dispositions
<1>2. /\ (item[w].stage = Waiting) = (item[w].resume # None)
      /\ item[w].resume \notin {"done", Waiting}
  BY Zenon DEF IInv, TypeOK
<1>3. pause[w] \in Pauses /\ pause \in [Works -> Pauses] /\ disposition \in [Works -> Dispositions]
  BY Zenon DEF IInv, TypeOK, Dispositions
<1> QED
  BY <1>1, <1>2, <1>3, Zenon DEF IInv

LEMMA NoReviewsFacts ==
  /\ NoReviews \in [Phases -> Records \cup {None}]
  /\ \A ph \in Phases : NoReviews[ph] = None /\ Sees(NoReviews[ph])
BY Zenon DEF NoReviews, Sees

LEMMA ProgressFacts ==
  ASSUME NEW st
  PROVE  /\ StageProgress(st) \in Progresses /\ StageProgress(st) # None
         /\ StageProgress(st) = "done" <=> st = "done"
BY NoneFacts, Zenon DEF StageProgress, Progresses

\* An item that stays at its stage, and one that neither waits nor is completed.
LEMMA Unmoved ==
  ASSUME NEW w \in Works,
         \/ item'[w].stage = item[w].stage
         \/ item[w].stage # Waiting /\ item'[w].stage # "done"
  PROVE  EarnedAt(w)
BY Zenon DEF EarnedAt

LEMMA SameReviews == ASSUME NEW R PROVE \A ph \in Phases : Aged(R[ph], R[ph])
BY Zenon DEF Aged

LEMMA AssignKeeps ==
  ASSUME IInv, NEW w \in Works, NEW f \in Flows, NEW s \in AllStages, Assign(w, f, s)
  PROVE  IInv' /\ Earned
<1> DEFINE i == [item[w] EXCEPT !.flow = f, !.stage = s, !.progress = StageProgress(s)]
<1>1. /\ item[w] \in Items /\ item[w].stage = None /\ Kind[w] # "Todo"
      /\ Save(w, i, NoReviews) /\ UNCHANGED <<kids, disposition, pause, old, changes>>
      /\ s \in Range(Stages[f]) /\ s \in {"backlog", "planning", "intake"}
  BY Here, Zenon DEF Assign
<1>2. i \in Items
  BY <1>1, ProgressFacts, Zenon DEF Items
<1>3. i.flow = f /\ i.stage = s /\ i.progress = StageProgress(s) /\ i.resume = item[w].resume
  BY <1>1, Zenon DEF Items
<1> HIDE DEF i
<1>4. PICK n \in 1..2 : s = Stages[f][n]
  <2>1. PICK m \in 1..10 : s = Stages[f][m]
    BY <1>1, StagesOf, Zenon
  <2>2. m \in {1, 2, 3, 4, 5, 6, 7, 8, 9, 10}
    BY Indices, Zenon
  <2>3. m \in 1..2
    BY <1>1, <2>1, <2>2, ExecutionTable, PlanTable DEF Flows
  <2> QED
    BY <2>1, <2>3, Zenon
<1>5. s # None /\ s # Waiting /\ s # "done"
  <2>1. n \in 1..10 /\ n # 10
    OBVIOUS
  <2> QED
    BY <1>4, <2>1, StageFacts, Zenon
<1>6. item[w].resume = None
  BY <1>1, Here, NoneFacts, Zenon
<1>7. Sound(w, i, NoReviews, pause[w], disposition[w])
  <2>1. At(i) = Stages[f][n] /\ Passed(f, NoReviews, n) /\ n \in 1..10
    BY <1>3, <1>4, <1>5, EarlyIsPassed DEF At
  <2> QED
    BY <1>1, <1>3, <1>5, <2>1, Zenon DEF Sound
<1>8. IInv' /\ \A x \in Works \ {w} : EarnedAt(x)
  BY <1>1, <1>2, <1>3, <1>5, <1>6, <1>7, Here, NoneFacts, NoReviewsFacts, SaveKeeps, Zenon
<1>9. item'[w].stage = s
  BY <1>1, <1>2, <1>3, SaveFacts, NoReviewsFacts, Zenon DEF IInv
<1> QED
  BY <1>1, <1>5, <1>8, <1>9, NoneFacts, Unmoved, Zenon DEF Earned

\* Where an item that is in a workflow and not completed stands.
LEMMA OpenPlace ==
  ASSUME IInv, NEW w \in Works, Open(w)
  PROVE  /\ item[w].flow \in Flows /\ Kind[w] # "Todo" /\ item[w].stage \notin {None, "done"}
         /\ \E n \in 1..9 : /\ At(item[w]) = Stages[item[w].flow][n]
                            /\ NotRejected(disposition[w]) => Passed(item[w].flow, reviews[w], n)
<1>1. item[w].stage \notin {None, "done"}
  BY Zenon DEF Open
<1>2. Sound(w, item[w], reviews[w], pause[w], disposition[w])
  BY Here, Zenon
<1>3. item[w].flow \in Flows /\ Kind[w] # "Todo"
  BY <1>1, <1>2, Zenon DEF Sound
<1>4. PICK n \in 1..10 : /\ At(item[w]) = Stages[item[w].flow][n]
                         /\ NotRejected(disposition[w]) => Passed(item[w].flow, reviews[w], n)
  BY <1>1, <1>2, Zenon DEF Sound
<1>5. At(item[w]) # "done"
  BY <1>1, Here, Zenon DEF At
<1>6. n \in 1..9
  BY <1>3, <1>4, <1>5, StageFacts
<1> QED
  BY <1>1, <1>3, <1>4, <1>6, Zenon

LEMMA RecordedFacts ==
  ASSUME IInv, NEW w \in Works, NEW ph \in Phases, NEW v \in Verdicts("requirements"),
         NEW X \in SUBSET kids[w]
  PROVE  Recorded(w, ph, v, X) \in Records /\ Sees(Recorded(w, ph, v, X))
<1>1. /\ item[w].content \in Contents /\ kids[w] \subseteq Works
      /\ \A c \in Works : item[c].progress \in Progresses
  BY Here, Zenon DEF Items
<1>2. PICK K \in SUBSET Works : K = kids[w]
  BY <1>1, Zenon
<1>3. PICK sn \in [K -> Progresses] : sn = [c \in kids[w] |-> item[c].progress]
  BY <1>1, <1>2, Zenon
<1>4. PICK L \in SUBSET K : L = IF ph \in PlanPhases THEN {} ELSE kids[w]
  BY <1>2, Zenon
<1>5. PICK r : /\ r = Recorded(w, ph, v, X)
               /\ r = [verdict |-> v, content |-> item[w].content, excluded |-> X, stale |-> FALSE,
                       seen |-> sn, kids |-> L]
  BY <1>3, <1>4, Zenon DEF Recorded
<1>6. r \in Records
  <2>1. sn \in UNION {[S -> Progresses] : S \in SUBSET Works}
    BY <1>2, Zenon
  <2>2. X \in SUBSET Works /\ L \in SUBSET Works /\ v \in {"approved", "bare", "partial", "refused"}
    BY <1>1, <1>2, Zenon DEF Verdicts
  <2> QED
    BY <1>1, <1>5, <2>1, <2>2 DEF Records
<1>7. \A c \in r.kids : r.seen[c] = item[c].progress
  BY <1>2, <1>3, <1>5
<1> QED
  BY <1>5, <1>6, <1>7, Zenon DEF Sees

LEMMA RecordKeeps ==
  ASSUME IInv, NEW w \in Works, NEW ph \in Phases, NEW v \in Verdicts("requirements"),
         NEW X \in SUBSET kids[w], Record(w, ph, v, X)
  PROVE  IInv' /\ Earned
<1>1. PICK r \in Records : r = Recorded(w, ph, v, X) /\ Sees(r)
  BY RecordedFacts, Zenon
<1>2. PICK R \in [Phases -> Records \cup {None}] : R = reviews[w]
  BY Here, Zenon
<1> DEFINE revs == [R EXCEPT ![ph] = r]
<1>3. /\ Open(w) /\ item[w].stage \in OwnGate(ph) /\ Save(w, item[w], revs)
      /\ UNCHANGED <<kids, disposition, changes>>
      /\ pause' = [pause EXCEPT ![w].answered = @ \/ ph = "resolution"]
      /\ old' = [old EXCEPT ![w] = @ \ {ph}]
  BY <1>1, <1>2, Zenon DEF Record
<1>4. /\ revs \in [Phases -> Records \cup {None}] /\ revs[ph] = r
      /\ \A q \in Phases \ {ph} : revs[q] = R[q]
  BY <1>1, <1>2, Zenon
<1>5. PICK p \in Pauses : /\ p.at = pause[w].at
                          /\ p.answered <=> pause[w].answered \/ ph = "resolution"
                          /\ pause' = [pause EXCEPT ![w] = p]
  <2>1. pause[w] \in Pauses
    BY Here, Zenon
  <2> DEFINE q == [pause[w] EXCEPT !.answered = @ \/ ph = "resolution"]
  <2>2. q \in Pauses /\ q.at = pause[w].at /\ (q.answered <=> pause[w].answered \/ ph = "resolution")
    BY <2>1, Zenon DEF Pauses
  <2> QED
    BY <1>3, <2>2, Zenon
<1>6. old' \in [Works -> SUBSET Phases] /\ \A x \in Works : old'[x] = {}
  BY <1>3, Here, Zenon
<1> HIDE DEF revs
<1>7. \A q \in Phases : Sees(revs[q])
  BY <1>1, <1>2, <1>4, Here, Zenon
<1>8. Sound(w, item[w], revs, p, disposition[w])
  <2>1. PICK n \in 1..9 : /\ At(item[w]) = Stages[item[w].flow][n]
                          /\ NotRejected(disposition[w]) => Passed(item[w].flow, R, n)
    BY <1>2, <1>3, OpenPlace, Zenon
  <2>2. item[w].flow \in Flows /\ Kind[w] # "Todo" /\ item[w].stage \notin {None, "done"}
    BY <1>3, OpenPlace, Zenon
  <2>3. ASSUME NEW j \in 1..n PROVE ph \notin Entry(item[w].flow, j)
    <3>0. n \in 1..10 /\ j \in 1..10
      OBVIOUS
    <3>1. CASE ph \in {"requirements", "resolution"}
      BY <2>2, <3>0, <3>1, EntryTable, Zenon
    <3>2. CASE ph \notin {"requirements", "resolution"}
      <4>1. item[w].stage # Waiting
        BY <1>3, <3>2, NoneFacts, Zenon DEF OwnGate, Phases, Waiting
      <4>2. Stages[item[w].flow][n] \in OwnGate(ph)
        BY <1>3, <2>1, <4>1, Zenon DEF At
      <4> QED
        BY <2>2, <3>0, <3>2, <4>2, RecordedBefore, Zenon
    <3> QED
      BY <3>1, <3>2, Zenon
  <2>4. NotRejected(disposition[w]) => Passed(item[w].flow, revs, n)
    <3> SUFFICES ASSUME Passed(item[w].flow, R, n), NEW j \in 1..n, NEW q \in Entry(item[w].flow, j)
                 PROVE  revs[q] # None /\ revs[q].verdict = "approved"
      BY <2>1, Zenon DEF Passed
    <3>1. q # ph /\ q \in Phases
      <4>1. j \in 1..10
        OBVIOUS
      <4> QED
        BY <2>2, <2>3, <4>1, EntryTable, Zenon
    <3>2. R[q] # None /\ R[q].verdict = "approved"
      BY Zenon DEF Passed
    <3> QED
      BY <1>4, <3>1, <3>2, Zenon
  <2>5. Sound(w, item[w], R, pause[w], disposition[w])
    BY <1>2, Here, Zenon
  <2>6. item[w].stage = Waiting => p.at = item[w].resume /\ (revs["resolution"] # None => p.answered)
    <3>1. item[w].stage = Waiting =>
            pause[w].at = item[w].resume /\ (R["resolution"] # None => pause[w].answered)
      BY <2>5, Zenon DEF Sound
    <3>2. ph # "resolution" => revs["resolution"] = R["resolution"]
      BY <1>4, Zenon DEF Phases
    <3> QED
      BY <1>5, <3>1, <3>2, Zenon
  <2>7. n \in 1..10
    OBVIOUS
  <2>8. item[w].progress # None /\ item[w].stage # None =>
          item[w].progress = StageProgress(item[w].stage)
    BY <2>5, Zenon DEF Sound
  <2> QED
    BY <2>1, <2>2, <2>4, <2>6, <2>7, <2>8, Zenon DEF Sound
<1>9. IInv' /\ \A x \in Works \ {w} : EarnedAt(x)
  <2>1. /\ item[w] \in Items /\ disposition' \in [Works -> Dispositions]
        /\ kids' = kids /\ changes' \in 0..MaxChanges
        /\ (item[w].stage = Waiting) = (item[w].resume # None)
        /\ item[w].resume \notin {"done", Waiting}
    BY <1>3, Here, Zenon
  <2>2. /\ pause' \in [Works -> Pauses]
        /\ \A x \in Works \ {w} : pause'[x] = pause[x] /\ disposition'[x] = disposition[x]
        /\ pause'[w] = p /\ disposition'[w] = disposition[w]
    <3>1. pause \in [Works -> Pauses] /\ disposition' = disposition
      BY <1>3, Here, Zenon
    <3>2. pause' \in [Works -> Pauses] /\ pause'[w] = p /\ \A x \in Works \ {w} : pause'[x] = pause[x]
      BY <1>5, <3>1, Zenon
    <3> QED
      BY <3>1, <3>2, Zenon
  <2>3. Save(w, item[w], revs) /\ Sound(w, item[w], revs, pause'[w], disposition'[w])
    BY <1>3, <1>8, <2>2, Zenon
  <2> QED
    BY <1>4, <1>6, <1>7, <2>1, <2>2, <2>3, SaveKeeps, Zenon
<1>10. item'[w] = item[w]
  BY <1>3, <1>4, Here, SaveFacts, Zenon DEF IInv
<1> QED
  BY <1>9, <1>10, Unmoved, Zenon DEF Earned

-----------------------------------------------------------------------------
(* The steps that move an item.                                            *)

\* A step that writes item w and nothing else.
LEMMA ItemStep ==
  ASSUME IInv, NEW w \in Works, NEW i \in Items, NEW revs \in [Phases -> Records \cup {None}],
         Save(w, i, revs), UNCHANGED <<kids, disposition, pause, old>>, changes' \in 0..MaxChanges,
         (i.stage = Waiting) = (i.resume # None), i.resume \notin {"done", Waiting},
         \A ph \in Phases : Sees(revs[ph]),
         Sound(w, i, revs, pause[w], disposition[w])
  PROVE  IInv' /\ item'[w] = i /\ \A x \in Works \ {w} : EarnedAt(x)
<1>1. /\ kids' = kids /\ pause' \in [Works -> Pauses] /\ disposition' \in [Works -> Dispositions]
      /\ old' \in [Works -> SUBSET Phases] /\ \A x \in Works : old'[x] = {}
  BY Here, Zenon
<1>2. /\ \A x \in Works \ {w} : pause'[x] = pause[x] /\ disposition'[x] = disposition[x]
      /\ Sound(w, i, revs, pause'[w], disposition'[w])
  BY Zenon
<1>3. IInv' /\ \A x \in Works \ {w} : EarnedAt(x)
  BY <1>1, <1>2, SaveKeeps, Zenon
<1>4. TypeOK
  BY Zenon DEF IInv
<1> QED
  BY <1>3, <1>4, SaveFacts, Zenon

\* The same for one that also moves its pause.
LEMMA PausedStep ==
  ASSUME IInv, NEW w \in Works, NEW i \in Items, NEW revs \in [Phases -> Records \cup {None}],
         NEW p \in Pauses,
         Save(w, i, revs), pause' = [pause EXCEPT ![w] = p],
         UNCHANGED <<kids, disposition, old, changes>>,
         (i.stage = Waiting) = (i.resume # None), i.resume \notin {"done", Waiting},
         \A ph \in Phases : Sees(revs[ph]),
         Sound(w, i, revs, p, disposition[w])
  PROVE  IInv' /\ item'[w] = i /\ \A x \in Works \ {w} : EarnedAt(x)
<1>0. pause \in [Works -> Pauses]
  BY Here, Zenon
<1>1. /\ kids' = kids /\ disposition' \in [Works -> Dispositions]
      /\ old' \in [Works -> SUBSET Phases] /\ (\A x \in Works : old'[x] = {})
      /\ changes' \in 0..MaxChanges
  BY Here, Zenon
<1>2. /\ pause' \in [Works -> Pauses] /\ pause'[w] = p
      /\ \A x \in Works \ {w} : pause'[x] = pause[x]
  BY <1>0, Zenon
<1>3. /\ \A x \in Works \ {w} : pause'[x] = pause[x] /\ disposition'[x] = disposition[x]
      /\ Sound(w, i, revs, pause'[w], disposition'[w])
  BY <1>2, Zenon
<1>4. IInv' /\ \A x \in Works \ {w} : EarnedAt(x)
  BY <1>1, <1>2, <1>3, SaveKeeps, Zenon
<1>5. TypeOK
  BY Zenon DEF IInv
<1> QED
  BY <1>4, <1>5, SaveFacts, Zenon

LEMMA WithoutFacts ==
  ASSUME NEW R \in [Phases -> Records \cup {None}], NEW P
  PROVE  /\ Without(R, P) \in [Phases -> Records \cup {None}]
         /\ \A ph \in Phases \cap P : Without(R, P)[ph] = None
         /\ \A ph \in Phases \ P : Without(R, P)[ph] = R[ph]
         /\ (\A ph \in Phases : Sees(R[ph])) => \A ph \in Phases : Sees(Without(R, P)[ph])
<1>1. /\ Without(R, P) \in [Phases -> Records \cup {None}]
      /\ \A ph \in Phases \cap P : Without(R, P)[ph] = None
      /\ \A ph \in Phases \ P : Without(R, P)[ph] = R[ph]
  BY Zenon DEF Without
<1>2. Sees(None)
  BY Zenon DEF Sees
<1>3. ASSUME \A ph \in Phases : Sees(R[ph]), NEW ph \in Phases PROVE Sees(Without(R, P)[ph])
  <2>1. CASE ph \in P
    BY <1>1, <1>2, <2>1, Zenon
  <2>2. CASE ph \notin P
    BY <1>1, <1>3, <2>2, Zenon
  <2> QED
    BY <2>1, <2>2, Zenon
<1> QED
  BY <1>1, <1>3, Zenon

\* Reviews that admit to the first stages are passed on with them.
LEMMA PassedOn ==
  ASSUME NEW f \in Flows, NEW n \in 1..10, NEW m \in 1..n, NEW R, NEW S, Passed(f, R, n),
         \A j \in 1..m : \A ph \in Entry(f, j) : S[ph] = R[ph]
  PROVE  Passed(f, S, m)
<1> SUFFICES ASSUME NEW j \in 1..m, NEW ph \in Entry(f, j)
             PROVE  S[ph] # None /\ S[ph].verdict = "approved"
  BY Zenon DEF Passed
<1>1. j \in 1..n
  OBVIOUS
<1>2. R[ph] # None /\ R[ph].verdict = "approved"
  BY <1>1, Zenon DEF Passed
<1> QED
  BY <1>2, Zenon

\* What holds of an item that is in a workflow, not completed and not waiting.
LEMMA WorkingPlace ==
  ASSUME IInv, NEW w \in Works, Open(w), item[w].stage # Waiting
  PROVE  /\ item[w].flow \in Flows /\ Kind[w] # "Todo" /\ item[w].resume = None
         /\ \E n \in 1..9 : /\ item[w].stage = Stages[item[w].flow][n]
                            /\ NotRejected(disposition[w]) => Passed(item[w].flow, reviews[w], n)
<1>1. item[w].resume = None
  BY Here, Zenon
<1>2. At(item[w]) = item[w].stage
  BY Zenon DEF At
<1> QED
  BY <1>1, <1>2, OpenPlace, Zenon

LEMMA WaitKeeps == ASSUME IInv, NEW w \in Works, Wait(w) PROVE IInv' /\ Earned
<1>1. PICK R \in [Phases -> Records \cup {None}] : R = reviews[w] /\ \A ph \in Phases : Sees(R[ph])
  BY Here, Zenon
<1>2. PICK it \in Items : it = item[w]
  BY Here, Zenon
<1> DEFINE i == [it EXCEPT !.stage = Waiting, !.resume = it.stage,
                           !.progress = StageProgress(Waiting)]
           revs == Without(R, {"resolution"})
           p == [at |-> it.stage, answered |-> FALSE]
<1>3. /\ Open(w) /\ it.stage # Waiting /\ Save(w, i, revs) /\ pause' = [pause EXCEPT ![w] = p]
      /\ UNCHANGED <<kids, disposition, old, changes>>
  BY <1>1, <1>2, Zenon DEF Wait, Asked
<1>4. PICK n \in 1..9 : /\ it.stage = Stages[it.flow][n]
                        /\ NotRejected(disposition[w]) => Passed(it.flow, R, n)
  BY <1>1, <1>2, <1>3, WorkingPlace, Zenon
<1>5. it.flow \in Flows /\ Kind[w] # "Todo"
  BY <1>2, <1>3, WorkingPlace, Zenon
<1>6. n \in 1..10 /\ it.stage \in AllStages /\ it.stage # None /\ it.stage # "done"
  BY <1>4, <1>5, StageFacts
<1>7. i \in Items
  BY <1>6, ProgressFacts, Zenon DEF Items
<1>8. /\ i.stage = Waiting /\ i.resume = it.stage /\ i.flow = it.flow
      /\ i.progress = StageProgress(Waiting)
  BY Zenon DEF Items
<1>9. p \in Pauses /\ p.at = it.stage
  BY <1>6, Zenon DEF Pauses
<1>10. /\ revs \in [Phases -> Records \cup {None}]
       /\ revs["resolution"] = None
       /\ \A ph \in Phases \ {"resolution"} : revs[ph] = R[ph]
       /\ \A ph \in Phases : Sees(revs[ph])
  BY <1>1, WithoutFacts DEF Phases
<1> HIDE DEF i, revs, p
<1>11. NotRejected(disposition[w]) => Passed(i.flow, revs, n)
  <2> SUFFICES ASSUME Passed(it.flow, R, n) PROVE Passed(it.flow, revs, n)
    BY <1>4, <1>8, Zenon
  <2>1. \A j \in 1..n : \A ph \in Entry(it.flow, j) : revs[ph] = R[ph]
    <3> SUFFICES ASSUME NEW j \in 1..n, NEW ph \in Entry(it.flow, j) PROVE revs[ph] = R[ph]
      OBVIOUS
    <3>1. j \in 1..10
      OBVIOUS
    <3> QED
      BY <1>5, <1>10, <3>1, EntryTable, Zenon
  <2>2. n \in 1..n
    OBVIOUS
  <2> QED
    BY <1>5, <1>6, <2>1, <2>2, PassedOn, Zenon
<1>12. Sound(w, i, revs, p, disposition[w])
  <2>1. At(i) = Stages[i.flow][n]
    BY <1>4, <1>8, Zenon DEF At
  <2> QED
    BY <1>5, <1>6, <1>8, <1>9, <1>10, <1>11, <2>1, NoneFacts, Zenon DEF Sound
<1>13. (i.stage = Waiting) = (i.resume # None) /\ i.resume \notin {"done", Waiting}
  BY <1>3, <1>6, <1>8, Zenon
<1>14. IInv' /\ item'[w] = i /\ \A x \in Works \ {w} : EarnedAt(x)
  BY <1>3, <1>7, <1>9, <1>10, <1>12, <1>13, PausedStep, Zenon
<1>15. item[w].stage # Waiting /\ item'[w].stage # "done"
  BY <1>2, <1>3, <1>8, <1>14, NoneFacts, Zenon
<1>16. EarnedAt(w)
  BY <1>15, Unmoved, Zenon
<1> QED
  BY <1>14, <1>16, Zenon DEF Earned

LEMMA ResumeKeeps == ASSUME IInv, NEW w \in Works, Resume(w) PROVE IInv' /\ Earned
<1>1. PICK R \in [Phases -> Records \cup {None}] : R = reviews[w] /\ \A ph \in Phases : Sees(R[ph])
  BY Here
<1>2. PICK it \in Items : it = item[w]
  BY Here
<1> DEFINE i == [it EXCEPT !.stage = it.resume, !.resume = None,
                           !.progress = StageProgress(it.resume)]
<1>3. /\ Open(w) /\ it.stage = Waiting /\ Approved(w, "resolution") /\ Save(w, i, R)
      /\ pause' = [pause EXCEPT ![w] = NotWaiting]
      /\ UNCHANGED <<kids, disposition, old, changes>>
  BY <1>1, <1>2, Zenon DEF Resume
<1>4. PICK n \in 1..9 : /\ it.resume = Stages[it.flow][n]
                        /\ NotRejected(disposition[w]) => Passed(it.flow, R, n)
  BY <1>1, <1>2, <1>3, OpenPlace, Zenon DEF At
<1>5. it.flow \in Flows /\ Kind[w] # "Todo"
  BY <1>2, <1>3, OpenPlace, Zenon
<1>6. /\ n \in 1..10 /\ it.resume \in AllStages /\ it.resume # None /\ it.resume # "done"
      /\ it.resume # Waiting
  BY <1>4, <1>5, StageFacts
<1>7. i \in Items
  BY <1>6, ProgressFacts, Zenon DEF Items
<1>8. /\ i.stage = it.resume /\ i.resume = None /\ i.flow = it.flow
      /\ i.progress = StageProgress(it.resume)
  BY Zenon DEF Items
<1> HIDE DEF i
<1>9. NotWaiting \in Pauses
  BY Zenon DEF NotWaiting, Pauses
<1>10. Sound(w, i, R, NotWaiting, disposition[w])
  <2>1. At(i) = Stages[i.flow][n]
    BY <1>4, <1>6, <1>8, Zenon DEF At
  <2> QED
    BY <1>4, <1>5, <1>6, <1>8, <2>1, Zenon DEF Sound
<1>11. (i.stage = Waiting) = (i.resume # None) /\ i.resume \notin {"done", Waiting}
  BY <1>6, <1>8, NoneFacts, Zenon
<1>12. IInv' /\ item'[w] = i /\ \A x \in Works \ {w} : EarnedAt(x)
  BY <1>1, <1>3, <1>7, <1>9, <1>10, <1>11, PausedStep, Zenon
<1>13. pause[w].answered /\ pause[w].at = it.resume
  <2>1. Sound(w, it, R, pause[w], disposition[w])
    BY <1>1, <1>2, Here, Zenon
  <2>2. R["resolution"] # None
    BY <1>1, <1>3, Zenon DEF Approved, Review
  <2> QED
    BY <1>3, <2>1, <2>2, Zenon DEF Sound
<1>14. EarnedAt(w)
  BY <1>6, <1>8, <1>12, <1>13, Zenon DEF EarnedAt
<1> QED
  BY <1>12, <1>14 DEF Earned

LEMMA ReturnKeeps == ASSUME IInv, NEW w \in Works, Return(w) PROVE IInv' /\ Earned
<1>1. PICK R \in [Phases -> Records \cup {None}] : R = reviews[w] /\ \A ph \in Phases : Sees(R[ph])
  BY Here
<1>2. PICK it \in Items : it = item[w]
  BY Here
<1>3. PICK s : s = Returns(it.flow, it.stage)
  OBVIOUS
<1> DEFINE i == [it EXCEPT !.stage = s, !.progress = StageProgress(s)]
           revs == Without(R, Dropped(s))
<1>4. /\ Open(w) /\ it.stage # Waiting /\ s # None /\ Save(w, i, revs)
      /\ old' = [old EXCEPT ![w] = @ \cup {ph \in Repeated(it.flow, s) : reviews'[w][ph] # None}]
      /\ UNCHANGED <<kids, disposition, pause, changes>>
  BY <1>1, <1>2, <1>3, Zenon DEF Return
<1>5. PICK n \in 1..9 : /\ it.stage = Stages[it.flow][n]
                        /\ NotRejected(disposition[w]) => Passed(it.flow, R, n)
  BY <1>1, <1>2, <1>4, WorkingPlace, Zenon
<1>6. it.flow \in Flows /\ Kind[w] # "Todo" /\ it.resume = None
  BY <1>2, <1>4, WorkingPlace, Zenon
<1>7. \/ s = PlanStage(it.flow) /\ 2 < n
      \/ s = WorkStage(it.flow) /\ WorkPlace(it.flow) < n
  BY <1>3, <1>4, <1>5, <1>6, ReturnsBack, Zenon
<1>8. PICK m \in 2..9 : /\ s = Stages[it.flow][m] /\ m < n
                        /\ \/ m = 2 /\ s = PlanStage(it.flow)
                           \/ m = WorkPlace(it.flow) /\ s = WorkStage(it.flow)
  <2>1. WorkPlace(it.flow) \in 5..6 /\ 2 \in 2..9
    BY <1>6, Places
  <2> QED
    BY <1>6, <1>7, <2>1, Places
<1>9. m \in 1..10 /\ m \in 1..n /\ n \in 1..10 /\ m # 10
  BY <1>8
<1>10. s \in AllStages /\ s # Waiting /\ s # None /\ s # "done"
  BY <1>6, <1>8, <1>9, StageFacts, Zenon
<1>11. i \in Items
  BY <1>10, ProgressFacts, Zenon DEF Items
<1>12. i.stage = s /\ i.resume = None /\ i.flow = it.flow /\ i.progress = StageProgress(s)
  BY <1>6, Zenon DEF Items
<1>13. /\ revs \in [Phases -> Records \cup {None}]
       /\ \A ph \in Phases \cap Dropped(s) : revs[ph] = None
       /\ \A ph \in Phases \ Dropped(s) : revs[ph] = R[ph]
       /\ \A ph \in Phases : Sees(revs[ph])
  BY <1>1, WithoutFacts
<1> HIDE DEF i, revs
<1>14. Repeated(it.flow, s) \subseteq Phases \cap Dropped(s)
  BY Zenon DEF Repeated, Dropped, PlanStage, Phases, PlanPhases
<1>15. ASSUME Passed(it.flow, R, n) PROVE Passed(it.flow, revs, m)
  <2>1. CASE m = 2
    BY <1>6, <2>1, EarlyIsPassed
  <2>2. CASE m = WorkPlace(it.flow) /\ s = WorkStage(it.flow)
    <3>1. Phases \cap PlanPhases \subseteq Phases \ Dropped(s)
      BY <2>2, Zenon DEF Dropped, WorkStage, Phases, PlanPhases
    <3>2. \A j \in 1..m : \A ph \in Entry(it.flow, j) : revs[ph] = R[ph]
      <4> SUFFICES ASSUME NEW j \in 1..m, NEW ph \in Entry(it.flow, j) PROVE revs[ph] = R[ph]
        OBVIOUS
      <4>1. j \in 1..10 /\ j <= WorkPlace(it.flow)
        BY <1>9, <2>2
      <4>2. ph \in Phases \cap PlanPhases
        BY <1>6, <4>1, EntryTable, Zenon
      <4> QED
        BY <1>13, <3>1, <4>2, Zenon
    <3> QED
      BY <1>6, <1>9, <1>15, <3>2, PassedOn, Zenon
  <2> QED
    BY <1>8, <2>1, <2>2, Zenon
<1>16. Sound(w, i, revs, pause[w], disposition[w])
  <2>1. At(i) = Stages[i.flow][m] /\ (NotRejected(disposition[w]) => Passed(i.flow, revs, m))
    BY <1>5, <1>8, <1>10, <1>12, <1>15, Zenon DEF At
  <2> QED
    BY <1>6, <1>9, <1>10, <1>12, <2>1, Zenon DEF Sound
<1>17. \A x \in Works : old'[x] = {}
  <2>0. TypeOK
    BY Zenon DEF IInv
  <2>1. \A ph \in Phases : reviews'[w][ph] = Outdated(revs[ph], {w})
    BY <1>4, <1>11, <1>13, <2>0, SavedReviews, Zenon
  <2>2. \A ph \in Repeated(it.flow, s) : reviews'[w][ph] = None
    BY <1>13, <1>14, <2>1, Zenon DEF Outdated
  <2>3. {ph \in Repeated(it.flow, s) : reviews'[w][ph] # None} = {}
    BY <2>2, Zenon
  <2>4. old' = [old EXCEPT ![w] = @ \cup {}]
    BY <1>4, <2>3, Zenon
  <2>5. old \in [Works -> SUBSET Phases] /\ \A x \in Works : old[x] = {}
    BY Here, Zenon
  <2> QED
    BY <2>4, <2>5, Zenon
<1>18. old' \in [Works -> SUBSET Phases]
  BY <1>4, <1>17, Here, Zenon
<1>19. /\ (i.stage = Waiting) = (i.resume # None) /\ i.resume \notin {"done", Waiting}
  BY <1>10, <1>12, NoneFacts, Zenon
<1>20. /\ kids' = kids /\ changes' \in 0..MaxChanges
       /\ pause' \in [Works -> Pauses] /\ disposition' \in [Works -> Dispositions]
       /\ \A x \in Works \ {w} : pause'[x] = pause[x] /\ disposition'[x] = disposition[x]
       /\ Sound(w, i, revs, pause'[w], disposition'[w])
  BY <1>4, <1>16, Here, Zenon
<1>21. IInv' /\ \A x \in Works \ {w} : EarnedAt(x)
  BY <1>4, <1>11, <1>13, <1>17, <1>18, <1>19, <1>20, SaveKeeps, Zenon
<1>22. item'[w] = i
  BY <1>4, <1>11, <1>13, SaveFacts, Zenon DEF IInv
<1>23. EarnedAt(w)
  BY <1>2, <1>4, <1>10, <1>12, <1>22, Unmoved, Zenon
<1> QED
  BY <1>21, <1>23, Zenon DEF Earned

\* What an approval says of the stored record, and of the children it covers.
LEMMA ApprovedFacts ==
  ASSUME IInv, NEW w \in Works, NEW ph \in Phases, Review(w, ph) # None
  PROVE  /\ Review(w, ph) = reviews[w][ph] /\ reviews[w][ph] # None
         /\ reviews[w][ph].content = item[w].content
         /\ ph \notin PlanPhases =>
              \A c \in kids[w] : reviews[w][ph].seen[c] = item[c].progress
<1>1. /\ reviews[w][ph] # None /\ ~reviews[w][ph].stale
      /\ reviews[w][ph].content = item[w].content /\ Review(w, ph) = reviews[w][ph]
      /\ ph \notin PlanPhases => reviews[w][ph].kids = kids[w]
  BY Zenon DEF Review
<1>2. Sees(reviews[w][ph])
  BY Here, Zenon
<1>3. \A c \in reviews[w][ph].kids : reviews[w][ph].seen[c] = item[c].progress
  BY <1>1, <1>2, Zenon DEF Sees
<1> QED
  BY <1>1, <1>3, Zenon

\* What an item that reaches the last stage has.
LEMMA FinalFacts ==
  ASSUME IInv, NEW w \in Works, NEW f \in Flows, f = item[w].flow,
         \A ph \in Required(f, "done") : Approved(w, ph), Complete(w)
  PROVE  /\ \A ph \in Required(f, "done") \cup {"requirements"} :
              /\ reviews[w][ph] # None
              /\ reviews[w][ph].verdict \in Verdicts(ph) \ {"refused", "partial"}
              /\ reviews[w][ph].content = item[w].content
         /\ \A c \in kids[w] :
              /\ item[c].progress = "done" \/ c \in reviews[w]["requirements"].excluded
              /\ \A ph \in {"requirements", "technical", "handoff"} :
                    reviews[w][ph].seen[c] = item[c].progress
         /\ \A x \in Works : <<x, w>> \in Blocks => item[x].progress = "done"
<1>1. /\ Required(f, "done") \subseteq Phases \ {"requirements"} /\ "requirements" \in Phases
      /\ {"technical", "handoff"} \subseteq Required(f, "done")
      /\ {"requirements", "technical", "handoff"} \cap PlanPhases = {}
  BY Zenon DEF Required, EntryReviews, FinalPhases, Phases, PlanPhases
<1>2. /\ Review(w, "requirements") # None
      /\ Review(w, "requirements").verdict \in {"approved", "bare"}
      /\ \A c \in kids[w] : item[c].progress = "done" \/ c \in Review(w, "requirements").excluded
      /\ \A x \in Works : <<x, w>> \in Blocks => item[x].progress = "done"
  BY Zenon DEF Complete, Unblocked
<1>3. ASSUME NEW ph \in Required(f, "done")
      PROVE  /\ Review(w, ph) # None /\ Review(w, ph).verdict = "approved" /\ ph \in Phases
             /\ ph # "requirements"
  BY <1>1, Zenon DEF Approved, Passing
<1>4. ASSUME NEW ph \in Required(f, "done") \cup {"requirements"}
      PROVE  /\ reviews[w][ph] # None
             /\ reviews[w][ph].verdict \in Verdicts(ph) \ {"refused", "partial"}
             /\ reviews[w][ph].content = item[w].content
  <2>1. CASE ph = "requirements"
    <3>1. /\ Review(w, ph) = reviews[w][ph] /\ reviews[w][ph] # None
          /\ reviews[w][ph].content = item[w].content
      BY <1>1, <1>2, <2>1, ApprovedFacts, Zenon
    <3> QED
      BY <1>2, <2>1, <3>1, Zenon DEF Verdicts
  <2>2. CASE ph \in Required(f, "done")
    <3>1. /\ Review(w, ph) = reviews[w][ph] /\ reviews[w][ph] # None
          /\ reviews[w][ph].content = item[w].content
      BY <1>3, <2>2, ApprovedFacts, Zenon
    <3> QED
      BY <1>3, <2>2, <3>1, Zenon DEF Verdicts
  <2> QED
    BY <2>1, <2>2, Zenon
<1>5. ASSUME NEW c \in kids[w], NEW ph \in {"requirements", "technical", "handoff"}
      PROVE  reviews[w][ph].seen[c] = item[c].progress
  <2>1. ph \in Phases /\ Review(w, ph) # None /\ ph \notin PlanPhases
    BY <1>1, <1>2, <1>3, Zenon
  <2> QED
    BY <2>1, ApprovedFacts, Zenon
<1>6. Review(w, "requirements") = reviews[w]["requirements"]
  BY <1>1, <1>2, ApprovedFacts, Zenon
<1> QED
  BY <1>2, <1>4, <1>5, <1>6, Zenon

LEMMA AdvanceKeeps == ASSUME IInv, NEW w \in Works, Advance(w) PROVE IInv' /\ Earned
<1>1. PICK R \in [Phases -> Records \cup {None}] : R = reviews[w] /\ \A ph \in Phases : Sees(R[ph])
  BY Here
<1>2. PICK it \in Items : it = item[w]
  BY Here
<1>3. PICK s : s = Forward(it.flow, it.stage)
  OBVIOUS
<1> DEFINE i == [it EXCEPT !.stage = s, !.progress = StageProgress(s)]
<1>4. /\ Open(w) /\ it.stage # Waiting /\ NoGaps(w, s) /\ Save(w, i, R)
      /\ UNCHANGED <<kids, disposition, pause, old, changes>>
  BY <1>1, <1>2, <1>3, Zenon DEF Advance
<1>5. PICK n \in 1..9 : /\ it.stage = Stages[it.flow][n]
                        /\ NotRejected(disposition[w]) => Passed(it.flow, R, n)
  BY <1>1, <1>2, <1>4, WorkingPlace, Zenon
<1>6. it.flow \in Flows /\ Kind[w] # "Todo" /\ it.resume = None
  BY <1>2, <1>4, WorkingPlace, Zenon
<1>7. n + 1 \in 1..10 /\ n \in 1..10
  OBVIOUS
<1>8. s = Stages[it.flow][n + 1]
  BY <1>3, <1>5, <1>6, ForwardOf, Zenon
<1>9. s \in AllStages /\ s # Waiting /\ s # None
  BY <1>6, <1>7, <1>8, StageFacts, Zenon
<1>10. /\ \A ph \in Required(it.flow, s) : Approved(w, ph)
       /\ s \in CompletionGates => Complete(w)
  <2>1. s \notin {Waiting, Returns(it.flow, it.stage)}
    BY <1>5, <1>6, <1>8, ForwardIsNoReturn, Zenon
  <2> QED
    BY <1>2, <1>4, <2>1, Zenon DEF NoGaps
<1>11. i \in Items
  BY <1>9, ProgressFacts, Zenon DEF Items
<1>12. /\ i.stage = s /\ i.resume = None /\ i.flow = it.flow /\ i.content = it.content
       /\ i.progress = StageProgress(s)
  BY <1>6, Zenon DEF Items
<1> HIDE DEF i
<1>13. ASSUME NEW ph \in Entry(it.flow, n + 1)
       PROVE  R[ph] # None /\ R[ph].verdict = "approved"
  <2>1. ph \in Required(it.flow, s) /\ ph # "requirements"
    BY <1>8, Zenon DEF Entry, Required
  <2>2. ph \in Phases
    BY <1>6, <1>7, EntryTable, Zenon
  <2>3. Review(w, ph) # None /\ Review(w, ph).verdict = "approved"
    BY <1>10, <2>1, Zenon DEF Approved, Passing
  <2> QED
    BY <1>1, <2>2, <2>3, ApprovedFacts, Zenon
<1>14. NotRejected(disposition[w]) => Passed(it.flow, R, n + 1)
  <2> SUFFICES ASSUME Passed(it.flow, R, n), NEW j \in 1..(n + 1), NEW ph \in Entry(it.flow, j)
               PROVE  R[ph] # None /\ R[ph].verdict = "approved"
    BY <1>5, Zenon DEF Passed
  <2>1. CASE j = n + 1
    BY <1>13, <2>1, Zenon
  <2>2. CASE j \in 1..n
    BY <2>2, Zenon DEF Passed
  <2>3. j = n + 1 \/ j \in 1..n
    OBVIOUS
  <2> QED
    BY <2>1, <2>2, <2>3, Zenon
<1>15. ASSUME s = "done"
       PROVE  (\A ph \in Required(it.flow, "done") : Approved(w, ph)) /\ Complete(w)
  BY <1>10, <1>15, Zenon DEF CompletionGates
<1>16. s = "done" => Finished(i, R)
  <2> SUFFICES ASSUME s = "done",
                      NEW ph \in Required(it.flow, "done") \cup {"requirements"}
               PROVE  /\ R[ph] # None
                      /\ R[ph].verdict \in Verdicts(ph) \ {"refused", "partial"}
                      /\ R[ph].content = i.content
    BY <1>12, Zenon DEF Finished
  <2>1. it.flow = item[w].flow
    BY <1>2, Zenon
  <2>2. /\ reviews[w][ph] # None
        /\ reviews[w][ph].verdict \in Verdicts(ph) \ {"refused", "partial"}
        /\ reviews[w][ph].content = item[w].content
    BY <1>6, <1>15, <2>1, FinalFacts, ZenonT(40)
  <2> QED
    BY <1>1, <1>2, <1>12, <2>2, Zenon
<1>17. Sound(w, i, R, pause[w], disposition[w])
  <2>1. At(i) = Stages[i.flow][n + 1] /\ (NotRejected(disposition[w]) => Passed(i.flow, R, n + 1))
    BY <1>8, <1>9, <1>12, <1>14, Zenon DEF At
  <2>2. i.stage = "done" => i.progress = "done" /\ Finished(i, R)
    BY <1>12, <1>16, Zenon DEF StageProgress
  <2> QED
    BY <1>6, <1>7, <1>9, <1>12, <2>1, <2>2, Zenon DEF Sound
<1>18. /\ (i.stage = Waiting) = (i.resume # None) /\ i.resume \notin {"done", Waiting}
       /\ changes' \in 0..MaxChanges
  BY <1>4, <1>9, <1>12, Here, NoneFacts, Zenon
<1>19. IInv' /\ item'[w] = i /\ \A x \in Works \ {w} : EarnedAt(x)
  BY <1>1, <1>4, <1>11, <1>17, <1>18, ItemStep, Zenon
<1>20. EarnedAt(w)
  <2>1. CASE s = "done"
    <3>1. it.flow = item[w].flow
      BY <1>2, Zenon
    <3>2. /\ \A c \in kids[w] :
               /\ item[c].progress = "done" \/ c \in reviews[w]["requirements"].excluded
               /\ \A ph \in {"requirements", "technical", "handoff"} :
                     reviews[w][ph].seen[c] = item[c].progress
          /\ \A x \in Works : <<x, w>> \in Blocks => item[x].progress = "done"
      BY <1>6, <1>15, <2>1, <3>1, FinalFacts, Zenon
    <3>3. item[w].stage # Waiting
      BY <1>2, <1>4, Zenon
    <3> QED
      BY <3>2, <3>3, Zenon DEF EarnedAt
  <2>2. CASE s # "done"
    BY <1>2, <1>4, <1>12, <1>19, <2>2, Unmoved, Zenon
  <2> QED
    BY <2>1, <2>2, Zenon
<1> QED
  BY <1>19, <1>20 DEF Earned

LEMMA SetDoneKeeps == ASSUME IInv, NEW w \in Works, SetDone(w) PROVE IInv' /\ Earned
<1>1. PICK R \in [Phases -> Records \cup {None}] : R = reviews[w] /\ \A ph \in Phases : Sees(R[ph])
  BY Here
<1>2. PICK it \in Items : it = item[w]
  BY Here
<1>3. /\ Sound(w, it, R, pause[w], disposition[w])
      /\ (it.stage = Waiting) = (it.resume # None) /\ it.resume \notin {"done", Waiting}
  BY <1>1, <1>2, Here, Zenon
<1>4. /\ pause' = [pause EXCEPT ![w] = NotWaiting]
      /\ UNCHANGED <<kids, disposition, old, changes>>
  BY Zenon DEF SetDone
<1>5. NotWaiting \in Pauses
  BY Zenon DEF NotWaiting, Pauses
<1>6. "done" \in Progresses
  BY Zenon DEF Progresses
<1>7. CASE Rejected(w) /\ Save(w, Completed(item[w]), reviews[w])
  <2>1. ~NotRejected(disposition[w])
    BY <1>7, Zenon DEF Rejected, Decided, NotRejected
  <2>2. PICK s : s = IF it.stage = None THEN None ELSE "done"
    OBVIOUS
  <2> DEFINE i == [it EXCEPT !.progress = "done", !.resume = None, !.stage = s]
  <2>3. s \in AllStages \cup {Waiting, None} /\ s # Waiting
    BY <2>2, NoneFacts, Zenon
  <2>4. i \in Items
    BY <1>6, <2>3, Zenon DEF Items
  <2>5. i.stage = s /\ i.resume = None /\ i.flow = it.flow /\ i.progress = "done"
    BY Zenon DEF Items
  <2>6. Save(w, i, R)
    BY <1>1, <1>2, <1>7, <2>2, Zenon DEF Completed, Items
  <2> HIDE DEF i
  <2>7. Sound(w, i, R, NotWaiting, disposition[w])
    <3>1. CASE it.stage = None
      BY <1>3, <2>2, <2>5, <3>1, NoneFacts, Zenon DEF Sound
    <3>2. CASE it.stage # None
      <4>1. it.flow \in Flows /\ Kind[w] # "Todo"
        BY <1>3, <3>2, Zenon DEF Sound
      <4>2. s = "done" /\ s # None /\ s # Waiting /\ 10 \in 1..10
        BY <2>2, <2>3, <3>2, NoneFacts
      <4>3. At(i) = Stages[i.flow][10]
        BY <2>5, <4>1, <4>2, Places, Zenon DEF At
      <4>4. StageProgress(s) = "done"
        BY <4>2, ProgressFacts, Zenon
      <4> QED
        BY <2>1, <2>5, <4>1, <4>2, <4>3, <4>4, Zenon DEF Sound
    <3> QED
      BY <3>1, <3>2, Zenon
  <2>8. (i.stage = Waiting) = (i.resume # None) /\ i.resume \notin {"done", Waiting}
    BY <2>3, <2>5, NoneFacts, Zenon
  <2>9. IInv' /\ item'[w] = i /\ \A x \in Works \ {w} : EarnedAt(x)
    BY <1>1, <1>4, <1>5, <2>4, <2>6, <2>7, <2>8, PausedStep, Zenon
  <2>10. EarnedAt(w)
    <3>1. item[w].stage = Waiting => item'[w].stage = "done"
      BY <1>2, <2>2, <2>5, <2>9, NoneFacts, Zenon
    <3> QED
      BY <1>7, <3>1, Zenon DEF EarnedAt
  <2> QED
    BY <2>9, <2>10, Zenon DEF Earned
<1>8. CASE Kind[w] = "Todo" /\ Save(w, [item[w] EXCEPT !.progress = "done"], reviews[w])
  <2>1. it.stage = None
    BY <1>3, <1>8, Zenon DEF Sound
  <2> DEFINE i == [it EXCEPT !.progress = "done"]
  <2>2. i \in Items
    BY <1>6, Zenon DEF Items
  <2>3. i.stage = it.stage /\ i.resume = it.resume
    BY Zenon DEF Items
  <2>4. Save(w, i, R)
    BY <1>1, <1>2, <1>8, Zenon
  <2> HIDE DEF i
  <2>5. Sound(w, i, R, NotWaiting, disposition[w])
    BY <1>3, <2>1, <2>3, NoneFacts, Zenon DEF Sound
  <2>6. (i.stage = Waiting) = (i.resume # None) /\ i.resume \notin {"done", Waiting}
    BY <1>3, <2>3, Zenon
  <2>7. IInv' /\ item'[w] = i /\ \A x \in Works \ {w} : EarnedAt(x)
    BY <1>1, <1>4, <1>5, <2>2, <2>4, <2>5, <2>6, PausedStep, Zenon
  <2>8. EarnedAt(w)
    BY <1>2, <2>3, <2>7, Unmoved, Zenon
  <2> QED
    BY <2>7, <2>8 DEF Earned
<1> QED
  BY <1>7, <1>8, Zenon DEF SetDone

LEMMA ReopenKeeps == ASSUME IInv, NEW w \in Works, Reopen(w) PROVE IInv' /\ Earned
<1>1. PICK R \in [Phases -> Records \cup {None}] : R = reviews[w] /\ \A ph \in Phases : Sees(R[ph])
  BY Here
<1>2. PICK it \in Items : it = item[w]
  BY Here
<1>3. /\ Sound(w, it, R, pause[w], disposition[w])
      /\ (it.stage = Waiting) = (it.resume # None)
  BY <1>1, <1>2, Here, Zenon
<1>4. PICK s : s = IF it.stage = None THEN None ELSE PlanStage(it.flow)
  OBVIOUS
<1> DEFINE i == [it EXCEPT !.progress = "in_progress", !.stage = s]
           revs == IF s = None THEN R ELSE NoReviews
<1>5. /\ it.progress = "done" /\ Save(w, i, revs)
      /\ old' = [old EXCEPT ![w] = {ph \in Phases : reviews'[w][ph] # None}]
      /\ UNCHANGED <<kids, disposition, pause, changes>>
  BY <1>1, <1>2, <1>4, Zenon DEF Reopen
<1>6. it.stage # None => it.stage = "done" /\ it.flow \in Flows /\ Kind[w] # "Todo"
  <2>1. it.progress # None
    BY <1>5, NoneFacts, Zenon
  <2> QED
    BY <1>3, <1>5, <2>1, ProgressFacts, Zenon DEF Sound
<1>7. it.resume = None
  BY <1>3, <1>6, NoneFacts, Zenon
<1>8. it.stage # None => /\ s = Stages[it.flow][2] /\ s \in AllStages
                         /\ s # Waiting /\ s # None /\ s # "done"
                         /\ StageProgress(s) = "in_progress"
  <2> SUFFICES ASSUME it.stage # None
               PROVE  /\ s = Stages[it.flow][2] /\ s \in AllStages
                      /\ s # Waiting /\ s # None /\ s # "done"
                      /\ StageProgress(s) = "in_progress"
    OBVIOUS
  <2>1. s = PlanStage(it.flow) /\ s = Stages[it.flow][2]
    BY <1>4, <1>6, Places, Zenon
  <2>2. 2 \in 1..10 /\ 2 # 10
    OBVIOUS
  <2>3. StageProgress(s) = "in_progress"
    BY <2>1, Zenon DEF StageProgress, PlanStage
  <2> QED
    BY <1>6, <2>1, <2>2, <2>3, StageFacts, ZenonT(40)
<1>9. it.stage = None => s = None /\ \A ph \in Phases : R[ph] = None
  BY <1>3, <1>4, Zenon DEF Sound
<1>10. i \in Items
  BY <1>8, <1>9, Zenon DEF Items, Progresses
<1>11. i.stage = s /\ i.resume = None /\ i.flow = it.flow /\ i.progress = "in_progress"
  BY <1>7, Zenon DEF Items
<1>12. /\ revs \in [Phases -> Records \cup {None}]
       /\ \A ph \in Phases : revs[ph] = None /\ Sees(revs[ph])
  BY <1>1, <1>8, <1>9, NoReviewsFacts, Zenon
<1> HIDE DEF i, revs
<1>13. Sound(w, i, revs, pause[w], disposition[w])
  <2>1. CASE it.stage = None
    BY <1>9, <1>11, <1>12, <2>1, NoneFacts, Zenon DEF Sound
  <2>2. CASE it.stage # None
    <3>1. At(i) = Stages[i.flow][2] /\ Passed(i.flow, revs, 2) /\ 2 \in 1..10
      BY <1>6, <1>8, <1>11, <2>2, EarlyIsPassed DEF At
    <3> QED
      BY <1>6, <1>8, <1>11, <2>2, <3>1, Zenon DEF Sound
  <2> QED
    BY <2>1, <2>2, Zenon
<1>14. old' \in [Works -> SUBSET Phases] /\ \A x \in Works : old'[x] = {}
  <2>0. PICK j \in Items, Q \in [Phases -> Records \cup {None}] : j = i /\ Q = revs
    BY <1>10, <1>12, Zenon
  <2>01. TypeOK /\ Save(w, j, Q) /\ \A ph \in Phases : Q[ph] = None
    BY <1>5, <1>12, <2>0, Zenon DEF IInv
  <2>1. \A ph \in Phases : reviews'[w][ph] = Outdated(Q[ph], {w})
    BY <2>01, SavedReviews, Zenon
  <2>2. {ph \in Phases : reviews'[w][ph] # None} = {}
    BY <2>01, <2>1, Zenon DEF Outdated
  <2>3. old \in [Works -> SUBSET Phases] /\ \A x \in Works : old[x] = {}
    BY Here, Zenon
  <2>4. old' = [old EXCEPT ![w] = {}]
    BY <1>5, <2>2, Zenon
  <2> QED
    BY <2>3, <2>4, Zenon
<1>15. (i.stage = Waiting) = (i.resume # None) /\ i.resume \notin {"done", Waiting}
  BY <1>8, <1>9, <1>11, NoneFacts, Zenon
<1>16. /\ kids' = kids /\ changes' \in 0..MaxChanges
       /\ pause' \in [Works -> Pauses] /\ disposition' \in [Works -> Dispositions]
       /\ \A x \in Works \ {w} : pause'[x] = pause[x] /\ disposition'[x] = disposition[x]
       /\ Sound(w, i, revs, pause'[w], disposition'[w])
  BY <1>5, <1>13, Here, Zenon
<1>17. IInv' /\ \A x \in Works \ {w} : EarnedAt(x)
  BY <1>5, <1>10, <1>12, <1>14, <1>15, <1>16, SaveKeeps, Zenon
<1>18. item'[w] = i
  BY <1>5, <1>10, <1>12, SaveFacts, Zenon DEF IInv
<1>19. item[w].stage # Waiting /\ item'[w].stage # "done"
  BY <1>2, <1>6, <1>8, <1>9, <1>11, <1>18, NoneFacts, Zenon
<1> QED
  BY <1>17, <1>19, Unmoved, Zenon DEF Earned

LEMMA ClassifyKeeps ==
  ASSUME IInv, NEW w \in Works, NEW p \in {"not_started", "in_progress"}, Classify(w, p)
  PROVE  IInv' /\ Earned
<1>1. PICK R \in [Phases -> Records \cup {None}] : R = reviews[w] /\ \A ph \in Phases : Sees(R[ph])
  BY Here, Zenon
<1>2. PICK it \in Items : it = item[w]
  BY Here, Zenon
<1>3. /\ Sound(w, it, R, pause[w], disposition[w])
      /\ (it.stage = Waiting) = (it.resume # None) /\ it.resume \notin {"done", Waiting}
  BY <1>1, <1>2, Here, Zenon
<1> DEFINE i == [it EXCEPT !.progress = p]
<1>4. /\ it.progress # "done" /\ (it.stage # None => p = StageProgress(it.stage))
      /\ Save(w, i, R) /\ UNCHANGED <<kids, disposition, pause, old, changes>>
  BY <1>1, <1>2, Zenon DEF Classify
<1>5. i \in Items
  BY Zenon DEF Items, Progresses
<1>6. i.stage = it.stage /\ i.resume = it.resume /\ i.flow = it.flow /\ i.progress = p
  BY Zenon DEF Items
<1> HIDE DEF i
<1>7. it.stage # "done"
  BY <1>3, <1>4, Zenon DEF Sound
<1>8. Sound(w, i, R, pause[w], disposition[w])
  <2>1. At(i) = At(it)
    BY <1>6, Zenon DEF At
  <2> QED
    BY <1>3, <1>4, <1>6, <1>7, <2>1, Zenon DEF Sound
<1>9. (i.stage = Waiting) = (i.resume # None) /\ i.resume \notin {"done", Waiting}
  BY <1>3, <1>6, Zenon
<1>10. changes' \in 0..MaxChanges
  BY <1>4, Here, Zenon
<1>11. IInv' /\ item'[w] = i /\ \A x \in Works \ {w} : EarnedAt(x)
  BY <1>1, <1>4, <1>5, <1>8, <1>9, <1>10, ItemStep, Zenon
<1>12. EarnedAt(w)
  BY <1>2, <1>6, <1>11, Unmoved, Zenon
<1> QED
  BY <1>11, <1>12, Zenon DEF Earned

\* A step that writes an item and keeps it at its place.
LEMMA StayKeeps ==
  ASSUME IInv, NEW w \in Works, NEW i \in Items, Save(w, i, reviews[w]),
         UNCHANGED <<kids, disposition, pause, old>>, changes' \in 0..MaxChanges,
         i.stage = item[w].stage, i.flow = item[w].flow, i.resume = item[w].resume,
         i.progress = item[w].progress, item[w].stage = "done" => i.content = item[w].content
  PROVE  IInv' /\ Earned
<1>1. PICK R \in [Phases -> Records \cup {None}] : R = reviews[w] /\ \A ph \in Phases : Sees(R[ph])
  BY Here, Zenon
<1>2. Sound(w, item[w], R, pause[w], disposition[w])
  BY <1>1, Here, Zenon
<1>3. Sound(w, i, R, pause[w], disposition[w])
  BY <1>2, SameReviews, AgedSound, Zenon
<1>4. (i.stage = Waiting) = (i.resume # None) /\ i.resume \notin {"done", Waiting}
  BY Here, Zenon
<1>5. Save(w, i, R)
  BY <1>1, Zenon
<1>6. IInv' /\ item'[w] = i /\ \A x \in Works \ {w} : EarnedAt(x)
  BY <1>1, <1>3, <1>4, <1>5, ItemStep, Zenon
<1>7. EarnedAt(w)
  BY <1>6, Unmoved, Zenon
<1> QED
  BY <1>6, <1>7, Zenon DEF Earned

LEMMA ChangeFacts == ASSUME IInv, NEW w \in Works, Change PROVE changes' \in 0..MaxChanges
<1>1. changes \in 0..MaxChanges /\ MaxChanges \in Nat
  BY Here, WorkflowAssumption, Zenon
<1> QED
  BY <1>1 DEF Change

LEMMA EditKeeps ==
  ASSUME IInv, NEW w \in Works, NEW c \in Contents, Edit(w, c)
  PROVE  IInv' /\ Earned
<1>1. PICK it \in Items : it = item[w]
  BY Here, Zenon
<1> DEFINE i == [it EXCEPT !.content = c]
<1>2. /\ it.progress = "done" => c = it.content
      /\ Save(w, i, reviews[w]) /\ UNCHANGED <<kids, disposition, pause, old>>
  BY <1>1, Zenon DEF Edit, Editable
<1>3. changes' \in 0..MaxChanges
  BY Here, ChangeFacts, Zenon DEF Edit
<1>4. i \in Items
  BY Zenon DEF Items
<1>5. /\ i.stage = it.stage /\ i.flow = it.flow /\ i.resume = it.resume
      /\ i.progress = it.progress /\ i.content = c
  BY Zenon DEF Items
<1> HIDE DEF i
<1>6. it.stage = "done" => it.progress = "done"
  <2>1. Sound(w, it, reviews[w], pause[w], disposition[w])
    BY <1>1, Here, Zenon
  <2> QED
    BY <2>1, Zenon DEF Sound
<1> QED
  BY <1>1, <1>2, <1>3, <1>4, <1>5, <1>6, StayKeeps, Zenon

LEMMA ArchiveKeeps ==
  ASSUME IInv, NEW w \in Works, Archive(w) \/ Restore(w)
  PROVE  IInv' /\ Earned
<1>1. PICK it \in Items : it = item[w]
  BY Here, Zenon
<1>2. PICK b \in BOOLEAN : Save(w, [it EXCEPT !.archived = b], reviews[w])
  BY <1>1, Zenon DEF Archive, Restore
<1> DEFINE i == [it EXCEPT !.archived = b]
<1>3. UNCHANGED <<kids, disposition, pause, old>> /\ changes' \in 0..MaxChanges
  BY Here, ChangeFacts, Zenon DEF Archive, Restore
<1>4. i \in Items
  BY Zenon DEF Items
<1>5. /\ i.stage = it.stage /\ i.flow = it.flow /\ i.resume = it.resume
      /\ i.progress = it.progress /\ i.content = it.content
  BY Zenon DEF Items
<1>6. Save(w, i, reviews[w])
  BY <1>2, Zenon
<1> HIDE DEF i
<1> QED
  BY <1>1, <1>3, <1>4, <1>5, <1>6, StayKeeps, Zenon

LEMMA DisposeKeeps ==
  ASSUME IInv, NEW w \in Works, NEW v \in {"accepted", "rejected"}, Dispose(w, v)
  PROVE  IInv' /\ Earned
<1>1. PICK R \in [Phases -> Records \cup {None}] : R = reviews[w] /\ \A ph \in Phases : Sees(R[ph])
  BY Here, Zenon
<1>2. PICK it \in Items : it = item[w]
  BY Here, Zenon
<1>3. PICK d \in Dispositions : d = [value |-> v, active |-> TRUE]
  BY Zenon DEF Dispositions
<1>4. /\ disposition[w] = None /\ disposition' = [disposition EXCEPT ![w] = d] /\ Save(w, it, R)
      /\ UNCHANGED <<kids, pause, old, changes>>
  BY <1>1, <1>2, <1>3, Zenon DEF Dispose
<1>5. Sound(w, it, R, pause[w], None)
  BY <1>1, <1>2, <1>4, Here, Zenon
<1>6. Sound(w, it, R, pause[w], d)
  <2>1. NotRejected(None)
    BY Zenon DEF NotRejected
  <2> QED
    BY <1>5, <2>1, SameReviews, AgedSound, Zenon
<1>7. /\ disposition' \in [Works -> Dispositions] /\ disposition'[w] = d
      /\ \A x \in Works \ {w} : disposition'[x] = disposition[x]
  <2>1. disposition \in [Works -> Dispositions]
    BY Here, Zenon
  <2> QED
    BY <1>4, <2>1, Zenon
<1>8. /\ kids' = kids /\ changes' \in 0..MaxChanges /\ pause' \in [Works -> Pauses]
      /\ old' \in [Works -> SUBSET Phases] /\ (\A x \in Works : old'[x] = {})
  BY <1>4, Here, Zenon
<1>9. /\ \A x \in Works \ {w} : pause'[x] = pause[x] /\ disposition'[x] = disposition[x]
      /\ Sound(w, it, R, pause'[w], disposition'[w])
  BY <1>4, <1>6, <1>7, Zenon
<1>10. (it.stage = Waiting) = (it.resume # None) /\ it.resume \notin {"done", Waiting}
  BY <1>2, Here, Zenon
<1>11. IInv' /\ \A x \in Works \ {w} : EarnedAt(x)
  BY <1>1, <1>4, <1>7, <1>8, <1>9, <1>10, SaveKeeps, Zenon
<1>12. item'[w] = item[w]
  BY <1>2, <1>4, SaveFacts, Zenon DEF IInv
<1> QED
  BY <1>11, <1>12, Unmoved, Zenon DEF Earned

\* The steps that write no item.
LEMMA ArchiveDecisionKeeps ==
  ASSUME IInv, NEW w \in Works, ArchiveDecision(w)
  PROVE  IInv' /\ Earned
<1>1. disposition \in [Works -> Dispositions] /\ reviews \in [Works -> [Phases -> Records \cup {None}]]
      /\ kids \in [Works -> SUBSET Works]
  BY Zenon DEF IInv, TypeOK, Dispositions
<1>2. PICK d \in Dispositions : d = disposition[w]
  BY <1>1, Zenon
<1> DEFINE e == [d EXCEPT !.active = FALSE]
<1>3. /\ d # None /\ disposition' = [disposition EXCEPT ![w] = e]
      /\ UNCHANGED <<item, reviews, kids, pause, old>>
  BY <1>2, Zenon DEF ArchiveDecision, Decided
<1>4. e \in Dispositions /\ e.value = d.value /\ e # None
  BY <1>3, NoneAssumption, Zenon DEF Dispositions
<1> HIDE DEF e
<1>5. /\ disposition' \in [Works -> Dispositions] /\ disposition'[w] = e
      /\ \A x \in Works \ {w} : disposition'[x] = disposition[x]
  BY <1>1, <1>3, <1>4, Zenon
<1>6. \A x \in Works : NotRejected(disposition'[x]) => NotRejected(disposition[x])
  <2> SUFFICES ASSUME NEW x \in Works, NotRejected(disposition'[x]) PROVE NotRejected(disposition[x])
    OBVIOUS
  <2>1. CASE x = w
    BY <1>2, <1>4, <1>5, <2>1, Zenon DEF NotRejected
  <2>2. CASE x # w
    BY <1>5, <2>2, Zenon
  <2> QED
    BY <2>1, <2>2, Zenon
<1>7. changes' \in 0..MaxChanges
  BY ChangeFacts, Zenon DEF ArchiveDecision
<1>8. \A x \in Works, ph \in Phases : Aged(reviews[x][ph], reviews'[x][ph])
  BY <1>3, SameReviews, Zenon
<1> QED
  BY <1>1, <1>3, <1>5, <1>6, <1>7, <1>8, AgeKeeps, Zenon

LEMMA SetParentKeeps ==
  ASSUME IInv, NEW c \in Works, NEW p \in Works \cup {None}, SetParent(c, p)
  PROVE  IInv' /\ Earned
<1>1. disposition \in [Works -> Dispositions] /\ reviews \in [Works -> [Phases -> Records \cup {None}]]
      /\ kids \in [Works -> SUBSET Works]
  BY Zenon DEF IInv, TypeOK, Dispositions
<1>2. PICK ends : /\ reviews' = Bumped(reviews, ends)
                  /\ UNCHANGED <<item, disposition, pause, old>>
                  /\ kids' = [x \in Works |-> IF x = p THEN kids[x] \cup {c} ELSE kids[x] \ {c}]
  BY Zenon DEF SetParent
<1>3. \A x \in Works, ph \in Phases : /\ reviews[x][ph] \in Records \cup {None}
                                      /\ reviews'[x][ph] = Outdated(reviews[x][ph], ends)
  BY <1>1, <1>2, Zenon DEF Bumped
<1>4. \A x \in Works, ph \in Phases : /\ Outdated(reviews[x][ph], ends) \in Records \cup {None}
                                      /\ Aged(reviews[x][ph], reviews'[x][ph])
  BY <1>3, OutdatedFacts
<1>5. reviews' \in [Works -> [Phases -> Records \cup {None}]]
  BY <1>2, <1>4, Zenon DEF Bumped
<1>6. kids' \in [Works -> SUBSET Works]
  BY <1>1, <1>2, Zenon
<1>7. changes' \in 0..MaxChanges
  BY ChangeFacts, Zenon DEF SetParent
<1>8. \A x \in Works : NotRejected(disposition'[x]) => NotRejected(disposition[x])
  BY <1>2, Zenon
<1> QED
  BY <1>1, <1>2, <1>4, <1>5, <1>6, <1>7, <1>8, AgeKeeps, Zenon

LEMMA DisturbKeeps ==
  ASSUME IInv, NEW w \in Works, NEW P, Disturb(w, P)
  PROVE  IInv' /\ Earned
<1>1. disposition \in [Works -> Dispositions] /\ reviews \in [Works -> [Phases -> Records \cup {None}]]
      /\ kids \in [Works -> SUBSET Works]
  BY Zenon DEF IInv, TypeOK, Dispositions
<1>2. PICK R \in [Phases -> Records \cup {None}] : R = reviews[w]
  BY <1>1, Zenon
<1> DEFINE fade(r) == [r EXCEPT !.stale = TRUE]
           S == [ph \in Phases |-> IF ph \in P /\ R[ph] # None THEN fade(R[ph]) ELSE R[ph]]
<1>3. reviews' = [reviews EXCEPT ![w] = S] /\ UNCHANGED <<item, kids, disposition, pause, old>>
  BY <1>2, Zenon DEF Disturb
<1>4. \A ph \in Phases : S[ph] \in Records \cup {None} /\ Aged(R[ph], S[ph])
  <2> SUFFICES ASSUME NEW ph \in Phases PROVE S[ph] \in Records \cup {None} /\ Aged(R[ph], S[ph])
    OBVIOUS
  <2>1. CASE ph \in P /\ R[ph] # None
    <3>1. PICK r \in Records : r = R[ph]
      BY <2>1, Zenon
    <3>2. S[ph] = [r EXCEPT !.stale = TRUE]
      BY <2>1, <3>1, Zenon
    <3> QED
      BY <3>1, <3>2, StaleFacts, Zenon
  <2>2. CASE ~ (ph \in P /\ R[ph] # None)
    <3>1. S[ph] = R[ph]
      BY <2>2, Zenon
    <3> QED
      BY <3>1, Zenon DEF Aged
  <2> QED
    BY <2>1, <2>2, Zenon
<1>5. S \in [Phases -> Records \cup {None}]
  BY <1>4, Zenon
<1> HIDE DEF S
<1>6. /\ reviews' \in [Works -> [Phases -> Records \cup {None}]] /\ reviews'[w] = S
      /\ \A x \in Works \ {w} : reviews'[x] = reviews[x]
  BY <1>1, <1>3, <1>5, Zenon
<1>7. \A x \in Works, ph \in Phases : Aged(reviews[x][ph], reviews'[x][ph])
  <2> SUFFICES ASSUME NEW x \in Works, NEW ph \in Phases PROVE Aged(reviews[x][ph], reviews'[x][ph])
    OBVIOUS
  <2>1. CASE x = w
    BY <1>2, <1>4, <1>6, <2>1, Zenon
  <2>2. CASE x # w
    <3>1. reviews'[x] = reviews[x]
      BY <1>6, <2>2, Zenon
    <3> QED
      BY <3>1, SameReviews, Zenon
  <2> QED
    BY <2>1, <2>2, Zenon
<1>8. changes' \in 0..MaxChanges
  BY ChangeFacts, Zenon DEF Disturb
<1>9. \A x \in Works : NotRejected(disposition'[x]) => NotRejected(disposition[x])
  BY <1>3, Zenon
<1> QED
  BY <1>1, <1>3, <1>6, <1>7, <1>8, <1>9, AgeKeeps, Zenon

LEMMA StutterKeeps == ASSUME IInv, UNCHANGED vars PROVE IInv' /\ Earned
<1>1. /\ disposition \in [Works -> Dispositions] /\ kids \in [Works -> SUBSET Works]
      /\ reviews \in [Works -> [Phases -> Records \cup {None}]] /\ changes \in 0..MaxChanges
  BY Zenon DEF IInv, TypeOK, Dispositions
<1>2. UNCHANGED <<item, reviews, kids, disposition, pause, old, changes>>
  BY Zenon DEF vars
<1>3. /\ \A x \in Works, ph \in Phases : Aged(reviews[x][ph], reviews'[x][ph])
      /\ \A x \in Works : NotRejected(disposition'[x]) => NotRejected(disposition[x])
  BY <1>2, SameReviews, Zenon
<1> QED
  BY <1>1, <1>2, <1>3, AgeKeeps, Zenon

LEMMA StepKeeps == ASSUME IInv, [Next]_vars PROVE IInv' /\ Earned
<1>1. CASE UNCHANGED vars
  BY <1>1, StutterKeeps, Zenon
<1>2. ASSUME NEW w \in Works, Steps(w) PROVE IInv' /\ Earned
  <2>1. CASE \E f \in Flows, s \in AllStages : Assign(w, f, s)
    BY <2>1, AssignKeeps, Zenon
  <2>2. CASE \E ph \in Phases, v \in Verdicts("requirements"), X \in SUBSET kids[w] :
               Record(w, ph, v, X)
    BY <2>2, RecordKeeps, Zenon
  <2>3. CASE Wait(w) \/ Resume(w) \/ Return(w) \/ Advance(w)
    BY <2>3, WaitKeeps, ResumeKeeps, ReturnKeeps, AdvanceKeeps, Zenon
  <2>4. CASE SetDone(w) \/ Reopen(w) \/ \E p \in {"not_started", "in_progress"} : Classify(w, p)
    BY <2>4, SetDoneKeeps, ReopenKeeps, ClassifyKeeps, Zenon
  <2>5. CASE ArchiveDecision(w) \/ \E v \in {"accepted", "rejected"} : Dispose(w, v)
    BY <2>5, DisposeKeeps, ArchiveDecisionKeeps, Zenon
  <2>6. CASE Archive(w) \/ Restore(w) \/ \E c \in Contents : Edit(w, c)
    BY <2>6, EditKeeps, ArchiveKeeps, Zenon
  <2>7. CASE \E p \in Works \cup {None} : SetParent(w, p)
    BY <2>7, SetParentKeeps, Zenon
  <2>8. CASE \E P \in {Phases} \cup {{ph} : ph \in Phases} : Disturb(w, P)
    BY <2>8, DisturbKeeps, Zenon
  <2> QED
    BY <1>2, <2>1, <2>2, <2>3, <2>4, <2>5, <2>6, <2>7, <2>8, Zenon DEF Steps
<1> QED
  BY <1>1, <1>2, Zenon DEF Next

-----------------------------------------------------------------------------
(* The theorems.                                                           *)

\* A stored work item can be read back, is done only with the approvals its workflow asks for,
\* given for its present content, and has passed no gate without its review, whatever the
\* interleaving of transitions, edits, returns, moves of children and changes of evidence
\* (workflows.py, progress_mutations.py).
THEOREM StagesAreSound == Spec => []StageInv
<1>1. Init => IInv
  BY InitIInv, Zenon
<1>2. IInv /\ [Next]_vars => IInv'
  BY StepKeeps, Zenon
<1>3. IInv => StageInv
  BY IInvImplies, Zenon
<1> QED
  BY <1>1, <1>2, <1>3, PTL DEF Spec

\* Work leaves a wait only where it stopped and with an answer, and is completed only over
\* children that are done or excluded, as every reviewer of the delivery saw them, with no
\* open blocker (transition of workflows.py; _completion_gaps and _review_basis).
THEOREM MovesAreAlwaysEarned == Spec => MovesAreEarned
<1> DEFINE A == \A w \in Works :
                  item[w].stage = Waiting /\ item'[w].stage # Waiting =>
                      \/ pause[w].answered /\ item'[w].stage = pause[w].at
                      \/ item'[w].stage = "done" /\ Rejected(w)
           B == \A w \in Works :
                  item[w].stage # "done" /\ item'[w].stage = "done" /\ ~Rejected(w) =>
                      /\ \A c \in kids[w] :
                            /\ item[c].progress = "done" \/ c \in reviews[w]["requirements"].excluded
                            /\ \A ph \in {"requirements", "technical", "handoff"} :
                                  reviews[w][ph].seen[c] = item[c].progress
                      /\ \A x \in Works : <<x, w>> \in Blocks => item[x].progress = "done"
<1>1. Init => IInv
  BY InitIInv
<1>2. IInv /\ [Next]_vars => IInv'
  BY StepKeeps
<1>3. IInv /\ [Next]_vars => [A]_vars
  BY StepKeeps, Zenon DEF Earned, EarnedAt
<1>4. IInv /\ [Next]_vars => [B]_vars
  BY StepKeeps, Zenon DEF Earned, EarnedAt
<1>5. Spec => [][A]_vars
  BY <1>1, <1>2, <1>3, PTL DEF Spec
<1>6. Spec => [][B]_vars
  BY <1>1, <1>2, <1>4, PTL DEF Spec
<1> QED
  BY <1>5, <1>6, PTL DEF MovesAreEarned, WaitingIsAnswered, CompletionIsWhole

=============================================================================
