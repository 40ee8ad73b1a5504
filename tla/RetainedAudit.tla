---------------------------- MODULE RetainedAudit ----------------------------
(***************************************************************************)
(* RetainedAuditLog and the HTTP middleware in front of it.                *)
(*                                                                         *)
(* Every request submits an attempt record before the application runs,    *)
(* perhaps an operation record while it runs, and a response record before *)
(* the response starts; the readiness probe submits an empty record.  One  *)
(* writer thread groups the submissions into durable transactions.  The    *)
(* condition _admission is a lock: the writer holds it while it forms a    *)
(* batch, and nobody submits or times out meanwhile.                       *)
(***************************************************************************)
EXTENDS Integers, Sequences, FiniteSets, FiniteSetsExt

CONSTANTS
  Callers,          \* request identities: one HTTP request at a time on each
  OperationSizes,   \* how many records an authorised operation may publish
  MaxPending,       \* MAX_PENDING_SUBMISSIONS
  MaxPendingEvents, \* MAX_PENDING_EVENTS
  MaxBatch,         \* MAX_BATCH_SUBMISSIONS
  MaxBatchEvents    \* MAX_BATCH_EVENTS

ASSUME LimitAssumption ==
  /\ IsFiniteSet(Callers)
  /\ OperationSizes \subseteq Nat
  /\ MaxPending \in Nat /\ MaxPendingEvents \in Nat
  /\ MaxBatch \in Nat \ {0} /\ MaxBatchEvents \in Nat \ {0}

VARIABLES
  pending,   \* _pending, the queue of submissions, named by their callers
  count,     \* _pending_count
  events,    \* _pending_events
  blocked,   \* _admission_blocked
  writer,    \* where the writer thread is
  batch,     \* the submissions of the transaction being formed or written
  written,   \* the writer's local "successful"
  sub,       \* state of each caller's latest submission
  cancelled, \* its "cancelled" flag
  size,      \* its number of entries
  callerPc,        \* where each caller is
  phase,     \* the record it submits
  durable    \* committed records of the callers' present requests

queueVars == <<pending, count, events, blocked>>
writerVars == <<writer, batch, written>>
callerVars == <<sub, cancelled, size, callerPc, phase>>
auditVars == <<pending, count, events, blocked, writer, batch, written,
          sub, cancelled, size, callerPc, phase, durable>>

-----------------------------------------------------------------------------
Done(c) == sub[c] \in {"none", "ok", "failed"}

LockFree == writer # "forming"

Entries(S) == MapThenSumSet(LAMBDA c : size[c], S)

AuditInit ==
  /\ pending = <<>> /\ count = 0 /\ events = 0 /\ blocked = FALSE
  /\ writer = "stopped" /\ batch = {} /\ written = FALSE
  /\ sub = [c \in Callers |-> "none"]
  /\ cancelled = [c \in Callers |-> FALSE]
  /\ size = [c \in Callers |-> 0]
  /\ callerPc = [c \in Callers |-> "idle"]
  /\ phase = [c \in Callers |-> "attempt"]
  /\ durable = {}

\* A caller is about to call append (or check) with n entries.
Submitting(c, p, n) ==
  /\ callerPc' = [callerPc EXCEPT ![c] = "submit"]
  /\ phase' = [phase EXCEPT ![c] = p]
  /\ size' = [size EXCEPT ![c] = n]
  /\ UNCHANGED <<queueVars, writerVars, sub, cancelled>>

\* A request arrives under a fresh identifier; the liveness and readiness
\* routes pass the middleware by, and readiness calls check.
Arrive(c) ==
  /\ callerPc[c] \in {"idle", "sent", "refused"}
  /\ Done(c)
  /\ durable' = {e \in durable : e[1] # c}
  /\ Submitting(c, "check", 0) \/ Submitting(c, "attempt", 1)

\* The application runs: it may publish the records of an authorised operation.
Operate(c) ==
  /\ callerPc[c] = "app" /\ phase[c] = "attempt"
  /\ \E n \in OperationSizes : Submitting(c, "operation", n)
  /\ UNCHANGED durable

\* audited_send, or the 500 of an application that raised.
Respond(c) ==
  /\ callerPc[c] = "app"
  /\ Submitting(c, "response", 1)
  /\ UNCHANGED durable

Overloaded(c) ==
  \/ blocked
  \/ count >= MaxPending
  \/ events + size[c] > MaxPendingEvents

\* append refuses an oversized batch of entries, _submit an overload; a writer
\* thread that cannot be started takes the submission back.
Refused(c) ==
  /\ callerPc[c] = "submit" /\ LockFree
  /\ size[c] > MaxBatchEvents \/ Overloaded(c) \/ writer = "stopped"
  /\ callerPc' = [callerPc EXCEPT ![c] = "refused"]
  /\ UNCHANGED <<queueVars, writerVars, sub, cancelled, size, phase, durable>>

\* _submit: queue the submission, start the writer if none runs, notify it.
Submit(c) ==
  /\ callerPc[c] = "submit" /\ LockFree
  /\ size[c] <= MaxBatchEvents /\ ~ Overloaded(c)
  /\ pending' = Append(pending, c)
  /\ count' = count + 1
  /\ events' = events + size[c]
  /\ writer' = IF writer = "stopped" THEN "waiting" ELSE writer
  /\ sub' = [sub EXCEPT ![c] = "queued"]
  /\ cancelled' = [cancelled EXCEPT ![c] = FALSE]
  /\ callerPc' = [callerPc EXCEPT ![c] = "waiting"]
  /\ UNCHANGED <<blocked, batch, written, size, phase, durable>>

\* Mutant of Outcome: a settled submission releases its caller, whatever its result.
OutcomeIgnored(c) ==
  IF phase[c] \in {"attempt", "operation"} THEN "app" ELSE "sent"

\* What _submit returns to: the next stage of the request, or AuditUnavailable.
Outcome(c) ==
  IF sub[c] # "ok" \/ cancelled[c] THEN "refused"
  ELSE IF phase[c] \in {"attempt", "operation"} THEN "app" ELSE "sent"

\* done.wait returns.
Released(c) ==
  /\ callerPc[c] \in {"waiting", "late"} /\ Done(c)
  /\ callerPc[c] = "late" => LockFree
  /\ callerPc' = [callerPc EXCEPT ![c] = Outcome(c)]
  /\ UNCHANGED <<queueVars, writerVars, sub, cancelled, size, phase, durable>>

\* done.wait gives up; the caller has yet to take the lock and look again.
TimeOut(c) ==
  /\ callerPc[c] = "waiting" /\ ~ Done(c)
  /\ callerPc' = [callerPc EXCEPT ![c] = "late"]
  /\ UNCHANGED <<queueVars, writerVars, sub, cancelled, size, phase, durable>>

\* Mutant of Cancel: a caller that finds its submission unsettled waits again.
CancelWaits(c) ==
  /\ callerPc[c] = "late" /\ ~ Done(c) /\ LockFree
  /\ callerPc' = [callerPc EXCEPT ![c] = "waiting"]
  /\ UNCHANGED <<queueVars, writerVars, sub, cancelled, size, phase, durable>>

\* Under the lock the submission is still not done: give it up, close admission.
Cancel(c) ==
  /\ callerPc[c] = "late" /\ ~ Done(c) /\ LockFree
  /\ cancelled' = [cancelled EXCEPT ![c] = TRUE]
  /\ blocked' = TRUE
  /\ callerPc' = [callerPc EXCEPT ![c] = "refused"]
  /\ UNCHANGED <<pending, count, events, writerVars, sub, size, phase, durable>>

-----------------------------------------------------------------------------
\* _finish of every submission in S.
Finish(S, successful) ==
  /\ sub' = [c \in Callers |->
               IF c \notin S THEN sub[c]
               ELSE IF successful /\ ~ cancelled[c] THEN "ok" ELSE "failed"]
  /\ count' = count - Cardinality(S)
  /\ events' = events - Entries(S)

\* Mutant of IdleExit: the wait times out and the queue is not looked at again.
IdleExitBlind ==
  /\ writer = "waiting"
  /\ writer' = "stopped"
  /\ UNCHANGED <<queueVars, batch, written, callerVars, durable>>

\* The idle wait times out and there is still nothing to do.
IdleExit ==
  /\ writer = "waiting" /\ pending = <<>>
  /\ writer' = "stopped"
  /\ UNCHANGED <<queueVars, batch, written, callerVars, durable>>

\* The batch window closes with something pending.
Form ==
  /\ writer = "waiting" /\ pending # <<>>
  /\ writer' = "forming" /\ batch' = {}
  /\ UNCHANGED <<queueVars, written, callerVars, durable>>

Room == pending # <<>> /\ Cardinality(batch) < MaxBatch

Fits(c) == Entries(batch) + size[c] <= MaxBatchEvents

\* A cancelled submission is dropped before it is written.
Drop ==
  /\ writer = "forming" /\ Room /\ cancelled[Head(pending)]
  /\ pending' = Tail(pending)
  /\ Finish({Head(pending)}, FALSE)
  /\ UNCHANGED <<blocked, writerVars, cancelled, size, callerPc, phase, durable>>

Take ==
  /\ writer = "forming" /\ Room
  /\ ~ cancelled[Head(pending)] /\ Fits(Head(pending))
  /\ pending' = Tail(pending)
  /\ batch' = batch \cup {Head(pending)}
  /\ sub' = [sub EXCEPT ![Head(pending)] = "batched"]
  /\ UNCHANGED <<count, events, blocked, writer, written, cancelled, size, callerPc, phase, durable>>

\* The batch is complete; the lock is released for the time of the transaction.
Close ==
  /\ writer = "forming"
  /\ Room => ~ cancelled[Head(pending)] /\ ~ Fits(Head(pending))
  /\ writer' = "writing" /\ written' = FALSE
  /\ UNCHANGED <<queueVars, batch, callerVars, durable>>

AuditRecords == {<<c, phase[c]>> : c \in batch}

Commit ==
  /\ writer = "writing" /\ batch # {}
  /\ writer' = "settling" /\ written' = TRUE
  /\ durable' = durable \cup AuditRecords
  /\ UNCHANGED <<queueVars, batch, callerVars>>

\* The transaction raises.  Most often nothing is durable; if the error came
\* with or after the commit everything is.  An empty batch opens none.
WriteFails ==
  /\ writer = "writing"
  /\ writer' = "settling"
  /\ durable' \in {durable, durable \cup AuditRecords}
  /\ UNCHANGED <<queueVars, batch, written, callerVars>>

\* Mutant of Settle: admission is not opened again.
SettleStaysBlocked ==
  /\ writer = "settling"
  /\ Finish(batch, written)
  /\ writer' = "waiting" /\ batch' = {}
  /\ UNCHANGED <<pending, blocked, written, cancelled, size, callerPc, phase, durable>>

\* finally: every participant is released, and admission is open again.
Settle ==
  /\ writer = "settling"
  /\ Finish(batch, written)
  /\ blocked' = FALSE
  /\ writer' = "waiting" /\ batch' = {}
  /\ UNCHANGED <<pending, written, cancelled, size, callerPc, phase, durable>>

-----------------------------------------------------------------------------
Writer == IdleExit \/ Form \/ Drop \/ Take \/ Close \/ Commit \/ WriteFails \/ Settle

Caller(c) ==
  \/ Arrive(c) \/ Operate(c) \/ Respond(c) \/ Refused(c) \/ Submit(c)
  \/ Released(c) \/ TimeOut(c) \/ Cancel(c)

AuditNext == Writer \/ \E c \in Callers : Caller(c)

AuditSpec == AuditInit /\ [][AuditNext]_auditVars

\* Threads run and the lock is not withheld from anyone for ever, but the disk
\* may hang: nothing makes the writer finish a transaction.
AuditFairness ==
  /\ WF_auditVars(Form \/ Drop \/ Take \/ Close \/ Settle)
  /\ \A c \in Callers :
       /\ SF_auditVars(Submit(c) \/ Refused(c))
       /\ SF_auditVars(Released(c) \/ Cancel(c))
       /\ WF_auditVars(TimeOut(c))

-----------------------------------------------------------------------------
Unfinished == {c \in Callers : ~ Done(c)}

\* The types of the queue, the writer and the callers.
AuditTypeOK ==
  /\ pending \in Seq(Callers)
  /\ count \in Nat /\ events \in Nat /\ blocked \in BOOLEAN
  /\ writer \in {"stopped", "waiting", "forming", "writing", "settling"}
  /\ batch \subseteq Callers /\ written \in BOOLEAN
  /\ sub \in [Callers -> {"none", "queued", "batched", "ok", "failed"}]
  /\ cancelled \in [Callers -> BOOLEAN]
  /\ size \in [Callers -> Nat]
  /\ callerPc \in [Callers -> {"idle", "submit", "waiting", "late", "app", "sent", "refused"}]
  /\ phase \in [Callers -> {"check", "attempt", "operation", "response"}]
  /\ durable \subseteq Callers \X {"check", "attempt", "operation", "response"}

\* "Each caller waits for its transaction to commit before a protected request
\* can run or its response can be sent": the application runs only for a caller
\* whose attempt is durable, and goes on after an operation, and a response
\* starts, only when that record is durable as well.
NothingUnaudited ==
  \A c \in Callers :
     /\ callerPc[c] = "app" => <<c, "attempt">> \in durable /\ <<c, phase[c]>> \in durable
     /\ callerPc[c] = "sent" => <<c, phase[c]>> \in durable
     /\ callerPc[c] = "sent" /\ phase[c] # "check" =>
          {<<c, "attempt">>, <<c, "response">>} \subseteq durable

\* The admission counters are those of the submissions not yet settled, through
\* time-outs, dropped submissions and failed transactions, and they stay bounded.
CountersAreExact ==
  /\ count = Cardinality(Unfinished) /\ count <= MaxPending
  /\ events = Entries(Unfinished) /\ events <= MaxPendingEvents

\* A transaction never exceeds its limits.
BatchIsBounded ==
  Cardinality(batch) <= MaxBatch /\ Entries(batch) <= MaxBatchEvents

\* Whoever waits is in the queue or in the batch of a living writer, and closed
\* admission always has a writer at work that will open it.
NothingStranded ==
  /\ \A c \in Callers : sub[c] = "queued" <=> \E i \in 1..Len(pending) : pending[i] = c
  /\ batch = {c \in Callers : sub[c] = "batched"}
  /\ \A c \in Callers : callerPc[c] = "waiting" => sub[c] # "none"
  /\ Unfinished # {} => writer # "stopped"
  /\ blocked => Unfinished # {} \/ writer \in {"forming", "writing", "settling"}

\* The queue is sound and nothing runs or leaves unaudited: the five parts above,
\* through time-outs, cancellations, failed transactions and a writer that comes
\* and goes.
QueueInv ==
  AuditTypeOK /\ CountersAreExact /\ BatchIsBounded /\ NothingStranded /\ NothingUnaudited

\* Even if a transaction never ends, every submitter is released.
EveryCallerReleased ==
  \A c \in Callers : callerPc[c] \in {"submit", "waiting", "late"} ~> callerPc[c] \in {"app", "sent", "refused"}

\* If transactions end (the store has time-outs for its lock and its file),
\* admission does not stay closed.
AdmissionReopens == WF_auditVars(Commit \/ WriteFails) => (blocked ~> ~ blocked)

\* Neither a caller nor the service stays stuck behind the writer (retained_audit.py,
\* _submit and _run): every caller is released, and admission reopens.
AuditRecovers == EveryCallerReleased /\ AdmissionReopens
=============================================================================
