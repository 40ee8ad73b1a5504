----------------------------- MODULE HostsProofs -----------------------------
(***************************************************************************)
(* Proofs about two programs that run beside the service, each with its    *)
(* own inductive invariant and for any number of processes: migrations     *)
(* (Migration) and the outbox dispatcher (Dispatcher).                     *)
(***************************************************************************)
EXTENDS Migration, Dispatcher, TLAPS

-----------------------------------------------------------------------------
(* Dispatcher.  Each stored and each selected row is sound by itself: its    *)
(* attempts were really made on its receipt (tried), so an outcome computed *)
(* from an old selection is as true as one computed from the stored row.    *)

Tries == [made : Nat, good : Nat]

\* What holds of a row, stored or selected, on whose receipt the attempts t were made.
SoundRow(row, t) ==
    /\ row \in Row /\ row.attempts <= MaxAttempts
    /\ row.status \notin SettledReceipt =>
         row.attempts < MaxAttempts /\ row.attempts <= t.made - t.good
    /\ row.status = "dispatched_dry_run" => t.good > 0
    /\ row.status = "failed" => t.made - t.good >= MaxAttempts

\* What holds of a selection: its rows are sound and not settled.
SoundBatch(b, done) ==
    b # Closed =>
        /\ b.at \in Nat /\ DOMAIN b.rows \subseteq Receipts
        /\ \A r \in DOMAIN b.rows : SoundRow(b.rows[r], done[r]) /\ b.rows[r].status \notin SettledReceipt

\* The inductive invariant.  Over the serialised store one selection is open, and
\* its rows are the stored ones.
DispatchIInv ==
    /\ serialised \in BOOLEAN /\ now \in 0 .. MaxTime
    /\ tried \in [Receipts -> Tries] /\ receipt \in [Receipts -> Row]
    /\ \A r \in Receipts : SoundRow(receipt[r], tried[r])
    /\ batch = [d \in Dispatchers |-> batch[d]]
    /\ \A d \in Dispatchers : SoundBatch(batch[d], tried)
    /\ serialised =>
         /\ \A d, e \in Dispatchers : batch[d] # Closed /\ batch[e] # Closed => d = e
         /\ \A d \in Dispatchers : \A r \in DOMAIN batch[d].rows : batch[d].rows[r] = receipt[r]

LEMMA ClosedIsEmpty == DOMAIN Closed.rows = {} /\ Closed.at = -1
BY DEF Closed

LEMMA DelayIsNatural == ASSUME NEW n \in 1 .. MaxAttempts PROVE BackoffDelay(n) \in Nat
<1>1. 2 ^ (n - 1) \in Nat /\ Backoff \in Nat
  BY DispatcherAssumption, Zenon DEF PowersAreNatural
<1> QED
  BY <1>1 DEF BackoffDelay

\* A row stays sound as attempts are added.
LEMMA MoreTries ==
  ASSUME NEW row, NEW t \in Tries, NEW u \in Tries, SoundRow(row, t),
         t.good <= u.good, t.made - t.good <= u.made - u.good
  PROVE  SoundRow(row, u)
<1>1. /\ t.made \in Nat /\ t.good \in Nat /\ u.made \in Nat /\ u.good \in Nat
      /\ MaxAttempts \in Nat
  BY DispatcherAssumption, Zenon DEF Tries
<1>2. row \in Row /\ row.attempts \in Nat
  BY Zenon DEF SoundRow, Row
<1> QED
  BY <1>1, <1>2 DEF SoundRow

\* What an attempt makes of an unsettled row is sound.
LEMMA OutcomeIsSound ==
  ASSUME NEW row, NEW t \in Tries, NEW u \in Tries, NEW when \in Nat, NEW failing \in BOOLEAN,
         SoundRow(row, t), row.status \notin SettledReceipt,
         failing => t.made - t.good + 1 <= u.made - u.good,
         ~failing => u.good > 0
  PROVE  SoundRow(Outcome(row, when, failing), u)
<1>1. PICK n \in 1 .. MaxAttempts : /\ n = row.attempts + 1 /\ n - 1 <= t.made - t.good
  <2>1. row.attempts \in Nat /\ row.attempts < MaxAttempts /\ row.attempts <= t.made - t.good
    BY Zenon DEF SoundRow, Row
  <2>2. row.attempts + 1 \in 1 .. MaxAttempts
    BY <2>1, DispatcherAssumption
  <2> QED
    BY <2>1, <2>2
<1>2. /\ t.made \in Nat /\ t.good \in Nat /\ u.made \in Nat /\ u.good \in Nat
      /\ MaxAttempts \in Nat \ {0} /\ n \in Nat
  BY DispatcherAssumption DEF Tries
<1>3. CASE ~failing
  <2>0. Outcome(row, when, failing) = [status |-> "dispatched_dry_run", attempts |-> n, due |-> 0]
    BY <1>1, <1>3, Zenon DEF Outcome
  <2>1. PICK o \in Row : o = [status |-> "dispatched_dry_run", attempts |-> n, due |-> 0]
    BY <1>2, Zenon DEF Row, Statuses
  <2>11. o = Outcome(row, when, failing) /\ o.status = "dispatched_dry_run" /\ o.attempts = n
    BY <2>0, <2>1, Zenon
  <2> QED
    BY <1>2, <1>3, <2>11 DEF SoundRow, SettledReceipt
<1>4. CASE failing /\ n >= MaxAttempts
  <2>0. Outcome(row, when, failing) = [status |-> "failed", attempts |-> n, due |-> 0]
    BY <1>1, <1>4, Zenon DEF Outcome
  <2>1. PICK o \in Row : o = [status |-> "failed", attempts |-> n, due |-> 0]
    BY <1>2, Zenon DEF Row, Statuses
  <2>11. o = Outcome(row, when, failing) /\ o.status = "failed" /\ o.attempts = n
    BY <2>0, <2>1, Zenon
  <2>2. u.made - u.good >= MaxAttempts
    BY <1>1, <1>2, <1>4
  <2> QED
    BY <1>2, <2>11, <2>2 DEF SoundRow, SettledReceipt
<1>5. CASE failing /\ ~ (n >= MaxAttempts)
  <2>1. when + BackoffDelay(n) \in Nat
    BY DelayIsNatural
  <2>0. Outcome(row, when, failing) =
          [status |-> "retry_scheduled", attempts |-> n, due |-> when + BackoffDelay(n)]
    BY <1>1, <1>5, Zenon DEF Outcome
  <2>11. PICK o \in Row :
           o = [status |-> "retry_scheduled", attempts |-> n, due |-> when + BackoffDelay(n)]
    BY <1>2, <2>1, Zenon DEF Row, Statuses
  <2>2. o = Outcome(row, when, failing) /\ o.status = "retry_scheduled" /\ o.attempts = n
    BY <2>0, <2>11, Zenon
  <2>3. n < MaxAttempts /\ n <= MaxAttempts /\ n <= u.made - u.good
    BY <1>1, <1>2, <1>5
  <2> QED
    BY <2>2, <2>3, Zenon DEF SoundRow, SettledReceipt
<1> QED
  BY <1>3, <1>4, <1>5, Zenon

\* One attempt on each selected receipt.
LEMMA TryFacts ==
  ASSUME tried \in [Receipts -> Tries], NEW rows, NEW F, Try(rows, F)
  PROVE  /\ tried' \in [Receipts -> Tries]
         /\ \A r \in Receipts : /\ tried[r].good <= tried'[r].good
                                /\ tried[r].made - tried[r].good <= tried'[r].made - tried'[r].good
         /\ \A r \in Receipts \cap DOMAIN rows :
              /\ r \in F => tried[r].made - tried[r].good + 1 <= tried'[r].made - tried'[r].good
              /\ r \notin F => tried'[r].good > 0
<1>1. ASSUME NEW r \in Receipts
      PROVE  /\ tried'[r] \in Tries /\ tried[r].good <= tried'[r].good
             /\ tried[r].made - tried[r].good <= tried'[r].made - tried'[r].good
             /\ r \in DOMAIN rows =>
                  /\ r \in F => tried[r].made - tried[r].good + 1 <= tried'[r].made - tried'[r].good
                  /\ r \notin F => tried'[r].good > 0
  <2>1. PICK m \in Nat, g \in Nat : tried[r] = [made |-> m, good |-> g]
    BY Zenon DEF Tries
  <2>2. tried[r].made = m /\ tried[r].good = g
    BY <2>1
  <2>3. CASE r \notin DOMAIN rows
    <3>1. tried'[r] = tried[r]
      BY <2>3, Zenon DEF Try
    <3> QED
      BY <2>1, <2>3, <3>1 DEF Tries
  <2>4. CASE r \in DOMAIN rows /\ r \in F
    <3>1. tried'[r] = [made |-> m + 1, good |-> g]
      BY <2>2, <2>4 DEF Try
    <3> QED
      BY <2>2, <2>4, <3>1 DEF Tries
  <2>5. CASE r \in DOMAIN rows /\ r \notin F
    <3>1. tried'[r] = [made |-> m + 1, good |-> g + 1]
      BY <2>2, <2>5, Zenon DEF Try
    <3> QED
      BY <2>2, <2>5, <3>1 DEF Tries
  <2> QED
    BY <2>3, <2>4, <2>5, Zenon
<1>2. tried' \in [Receipts -> Tries]
  BY <1>1, Zenon DEF Try
<1> QED
  BY <1>1, <1>2, Zenon

LEMMA TriedStays ==
  ASSUME DispatchIInv, NEW rows, NEW F, Try(rows, F)
  PROVE  /\ \A r \in Receipts : SoundRow(receipt[r], tried'[r])
         /\ \A d \in Dispatchers : SoundBatch(batch[d], tried')
<1>1. /\ tried \in [Receipts -> Tries] /\ tried' \in [Receipts -> Tries]
      /\ \A r \in Receipts : /\ tried[r].good <= tried'[r].good
                             /\ tried[r].made - tried[r].good <= tried'[r].made - tried'[r].good
  BY TryFacts, Zenon DEF DispatchIInv
<1>2. ASSUME NEW r \in Receipts, NEW row, SoundRow(row, tried[r]) PROVE SoundRow(row, tried'[r])
  BY <1>1, <1>2, MoreTries, Zenon
<1>3. \A r \in Receipts : SoundRow(receipt[r], tried'[r])
  BY <1>2, Zenon DEF DispatchIInv
<1>4. ASSUME NEW d \in Dispatchers PROVE SoundBatch(batch[d], tried')
  <2>1. SoundBatch(batch[d], tried)
    BY Zenon DEF DispatchIInv
  <2> QED
    BY <1>2, <2>1, Zenon DEF SoundBatch
<1> QED
  BY <1>3, <1>4, Zenon

LEMMA DispatchInitSound == DispatchInit => DispatchIInv
<1> SUFFICES ASSUME DispatchInit PROVE DispatchIInv
  OBVIOUS
<1>1. /\ serialised \in BOOLEAN /\ now \in 0 .. MaxTime
      /\ tried \in [Receipts -> Tries] /\ receipt \in [Receipts -> Row]
  BY DispatcherAssumption DEF DispatchInit, Tries, Row, Statuses
<1>2. \A r \in Receipts : SoundRow(receipt[r], tried[r])
  <2> SUFFICES ASSUME NEW r \in Receipts PROVE SoundRow(receipt[r], tried[r])
    OBVIOUS
  <2>1. /\ receipt[r].status = "pending" /\ receipt[r].attempts = 0
        /\ tried[r].made = 0 /\ tried[r].good = 0
    BY Zenon DEF DispatchInit
  <2> QED
    BY <1>1, <2>1, DispatcherAssumption DEF SoundRow
<1>3. batch = [d \in Dispatchers |-> batch[d]] /\ \A d \in Dispatchers : batch[d] = Closed
  BY Zenon DEF DispatchInit
<1> QED
  BY <1>1, <1>2, <1>3, ClosedIsEmpty, Zenon DEF DispatchIInv, SoundBatch

LEMMA SelectKeeps ==
  ASSUME DispatchIInv, UNCHANGED serialised, NEW d \in Dispatchers, Select(d)
  PROVE  DispatchIInv'
<1> DEFINE b == [at |-> now, rows |-> [r \in {x \in Receipts : Eligible(x)} |-> receipt[r]]]
<1>1. /\ b.at = now /\ DOMAIN b.rows = {x \in Receipts : Eligible(x)}
      /\ \A r \in DOMAIN b.rows : b.rows[r] = receipt[r]
  OBVIOUS
<1>2. /\ batch' = [batch EXCEPT ![d] = b] /\ UNCHANGED <<serialised, receipt, now, tried>>
      /\ serialised => \A e \in Dispatchers : batch[e] = Closed
  BY Zenon DEF Select
<1> HIDE DEF b
<1>3. batch = [e \in Dispatchers |-> batch[e]]
  BY Zenon DEF DispatchIInv
<1>4. /\ batch' = [e \in Dispatchers |-> batch'[e]]
      /\ batch'[d] = b /\ \A e \in Dispatchers \ {d} : batch'[e] = batch[e]
  BY <1>2, <1>3, Zenon
<1>5. SoundBatch(b, tried)
  <2>1. now \in Nat
    BY DispatcherAssumption DEF DispatchIInv
  <2>2. \A r \in DOMAIN b.rows : SoundRow(b.rows[r], tried[r]) /\ b.rows[r].status \notin SettledReceipt
    BY <1>1, Zenon DEF DispatchIInv, Eligible
  <2> QED
    BY <1>1, <2>1, <2>2, Zenon DEF SoundBatch
<1>6. \A e \in Dispatchers : SoundBatch(batch'[e], tried)
  BY <1>4, <1>5, Zenon DEF DispatchIInv
<1>7. serialised =>
        /\ \A f, e \in Dispatchers : batch'[f] # Closed /\ batch'[e] # Closed => f = e
        /\ \A f \in Dispatchers : \A r \in DOMAIN batch'[f].rows : batch'[f].rows[r] = receipt[r]
  <2> SUFFICES ASSUME serialised
               PROVE  /\ \A f, e \in Dispatchers : batch'[f] # Closed /\ batch'[e] # Closed => f = e
                      /\ \A f \in Dispatchers : \A r \in DOMAIN batch'[f].rows :
                            batch'[f].rows[r] = receipt[r]
    OBVIOUS
  <2>1. \A e \in Dispatchers \ {d} : batch'[e] = Closed
    BY <1>2, <1>4, Zenon
  <2> QED
    BY <1>1, <1>4, <2>1, ClosedIsEmpty, Zenon
<1> QED
  BY <1>2, <1>4, <1>6, <1>7 DEF DispatchIInv

\* The batch of d is closed.
LEMMA CloseFacts ==
  ASSUME DispatchIInv, NEW d \in Dispatchers, batch' = [batch EXCEPT ![d] = Closed]
  PROVE  /\ batch' = [e \in Dispatchers |-> batch'[e]]
         /\ batch'[d] = Closed /\ \A e \in Dispatchers \ {d} : batch'[e] = batch[e]
<1>1. batch = [e \in Dispatchers |-> batch[e]]
  BY Zenon DEF DispatchIInv
<1> QED
  BY <1>1, Zenon

LEMMA RollbackKeeps ==
  ASSUME DispatchIInv, UNCHANGED serialised, NEW d \in Dispatchers, NEW F, Rollback(d, F)
  PROVE  DispatchIInv'
<1>1. PICK rows : rows = batch[d].rows
  OBVIOUS
<1>2. /\ Try(rows, F) /\ batch' = [batch EXCEPT ![d] = Closed]
      /\ UNCHANGED <<serialised, receipt, now>>
  BY <1>1, Zenon DEF Rollback
<1>3. /\ batch' = [e \in Dispatchers |-> batch'[e]]
      /\ batch'[d] = Closed /\ \A e \in Dispatchers \ {d} : batch'[e] = batch[e]
  BY <1>2, CloseFacts, Zenon
<1>4. tried' \in [Receipts -> Tries]
  BY <1>2, TryFacts, Zenon DEF DispatchIInv
<1>5. /\ \A r \in Receipts : SoundRow(receipt[r], tried'[r])
      /\ \A e \in Dispatchers : SoundBatch(batch[e], tried')
  BY <1>2, TriedStays, Zenon
<1>6. \A e \in Dispatchers : SoundBatch(batch'[e], tried')
  BY <1>3, <1>5, Zenon DEF SoundBatch
<1>7. serialised =>
        /\ \A f, e \in Dispatchers : batch'[f] # Closed /\ batch'[e] # Closed => f = e
        /\ \A f \in Dispatchers : \A r \in DOMAIN batch'[f].rows : batch'[f].rows[r] = receipt[r]
  BY <1>3, ClosedIsEmpty DEF DispatchIInv
<1> QED
  BY <1>2, <1>3, <1>4, <1>5, <1>6, <1>7 DEF DispatchIInv

LEMMA DispatchKeeps ==
  ASSUME DispatchIInv, UNCHANGED serialised, NEW d \in Dispatchers, NEW F, Dispatch(d, F)
  PROVE  /\ DispatchIInv'
         /\ \A r \in Receipts :
              serialised /\ receipt[r].status \in SettledReceipt => receipt'[r] = receipt[r]
<1>1. PICK rows, when : rows = batch[d].rows /\ when = batch[d].at
  OBVIOUS
<1>2. /\ batch[d] # Closed /\ Try(rows, F) /\ batch' = [batch EXCEPT ![d] = Closed]
      /\ UNCHANGED <<serialised, now>>
      /\ receipt' = [r \in Receipts |-> IF r \in DOMAIN rows THEN Outcome(rows[r], when, r \in F)
                                                              ELSE receipt[r]]
  BY <1>1, Zenon DEF Dispatch
<1>3. /\ batch' = [e \in Dispatchers |-> batch'[e]]
      /\ batch'[d] = Closed /\ \A e \in Dispatchers \ {d} : batch'[e] = batch[e]
  BY <1>2, CloseFacts, Zenon
<1>4. /\ tried \in [Receipts -> Tries] /\ tried' \in [Receipts -> Tries]
      /\ \A r \in Receipts \cap DOMAIN rows :
              /\ r \in F => tried[r].made - tried[r].good + 1 <= tried'[r].made - tried'[r].good
              /\ r \notin F => tried'[r].good > 0
  BY <1>2, TryFacts, Zenon DEF DispatchIInv
<1>5. /\ \A r \in Receipts : SoundRow(receipt[r], tried'[r])
      /\ \A e \in Dispatchers : SoundBatch(batch[e], tried')
  BY <1>2, TriedStays, Zenon
<1>6. /\ when \in Nat /\ DOMAIN rows \subseteq Receipts
      /\ \A r \in DOMAIN rows : SoundRow(rows[r], tried[r]) /\ rows[r].status \notin SettledReceipt
  BY <1>1, <1>2, Zenon DEF DispatchIInv, SoundBatch
<1>7. ASSUME NEW r \in Receipts PROVE SoundRow(receipt'[r], tried'[r])
  <2>1. CASE r \in DOMAIN rows
    <3>1. receipt'[r] = Outcome(rows[r], when, r \in F)
      BY <1>2, <2>1, Zenon
    <3>2. (r \in F) \in BOOLEAN /\ tried[r] \in Tries /\ tried'[r] \in Tries
      BY <1>4
    <3>3. SoundRow(Outcome(rows[r], when, r \in F), tried'[r])
      BY <1>4, <1>6, <2>1, <3>2, OutcomeIsSound, Zenon
    <3> QED
      BY <3>1, <3>3, Zenon
  <2>2. CASE r \notin DOMAIN rows
    BY <1>2, <1>5, <2>2, Zenon
  <2> QED
    BY <2>1, <2>2, Zenon
<1>8. receipt' \in [Receipts -> Row]
  BY <1>2, <1>7, Zenon DEF SoundRow
<1>9. \A e \in Dispatchers : SoundBatch(batch'[e], tried')
  BY <1>3, <1>5 DEF SoundBatch
<1>10. serialised =>
        /\ \A f, e \in Dispatchers : batch'[f] # Closed /\ batch'[e] # Closed => f = e
        /\ \A f \in Dispatchers : \A r \in DOMAIN batch'[f].rows : batch'[f].rows[r] = receipt'[r]
  <2> SUFFICES ASSUME serialised
               PROVE  \A f \in Dispatchers : batch'[f] = Closed
    BY ClosedIsEmpty, Zenon
  <2>1. \A e \in Dispatchers \ {d} : batch[e] = Closed
    BY <1>2, Zenon DEF DispatchIInv
  <2> QED
    BY <1>3, <2>1
<1>11. \A r \in Receipts :
         serialised /\ receipt[r].status \in SettledReceipt => receipt'[r] = receipt[r]
  <2> SUFFICES ASSUME serialised, NEW r \in Receipts, receipt[r].status \in SettledReceipt
               PROVE  receipt'[r] = receipt[r]
    OBVIOUS
  <2>1. r \notin DOMAIN rows
    BY <1>1, <1>6, Zenon DEF DispatchIInv
  <2> QED
    BY <1>2, <2>1, Zenon
<1>12. serialised' = serialised /\ serialised \in BOOLEAN /\ now' \in 0 .. MaxTime
  BY <1>2, Zenon DEF DispatchIInv
<1>13. DispatchIInv'
  BY <1>3, <1>4, <1>7, <1>8, <1>9, <1>10, <1>12 DEF DispatchIInv
<1> QED
  BY <1>11, <1>13, Zenon

\* What a step may not do to a settled receipt.
SettledKept ==
    \A r \in Receipts : serialised /\ receipt[r].status \in SettledReceipt => receipt'[r] = receipt[r]

LEMMA DispatchStep ==
  ASSUME DispatchIInv, [DispatchNext]_dispatchVars PROVE DispatchIInv' /\ SettledKept
<1>1. CASE UNCHANGED dispatchVars
  BY <1>1, Zenon DEF dispatchVars, DispatchIInv, SettledKept
<1>2. CASE UNCHANGED serialised /\ Tick
  <2>1. now' \in 0 .. MaxTime /\ UNCHANGED <<serialised, receipt, batch, tried>>
    BY <1>2, DispatcherAssumption DEF Tick, DispatchIInv
  <2> QED
    BY <2>1, Zenon DEF DispatchIInv, SettledKept
<1>3. ASSUME NEW d \in Dispatchers, UNCHANGED serialised, Select(d) PROVE DispatchIInv' /\ SettledKept
  BY <1>3, SelectKeeps, Zenon DEF Select, SettledKept
<1>4. ASSUME NEW d \in Dispatchers, NEW F, UNCHANGED serialised, Rollback(d, F)
      PROVE  DispatchIInv' /\ SettledKept
  BY <1>4, RollbackKeeps, Zenon DEF Rollback, SettledKept
<1>5. ASSUME NEW d \in Dispatchers, NEW F, UNCHANGED serialised, Dispatch(d, F)
      PROVE  DispatchIInv' /\ SettledKept
  BY <1>5, DispatchKeeps, Zenon DEF SettledKept
<1> QED
  BY <1>1, <1>2, <1>3, <1>4, <1>5, Zenon DEF DispatchNext

LEMMA DispatchIInvImplies == DispatchIInv => DispatchTypeOK /\ SettledIsTrue
<1> SUFFICES ASSUME DispatchIInv PROVE DispatchTypeOK /\ SettledIsTrue
  OBVIOUS
<1>1. ASSUME NEW d \in Dispatchers, NEW r \in DOMAIN batch[d].rows PROVE batch[d].rows[r] \in Row
  <2>1. batch[d] # Closed
    BY <1>1, ClosedIsEmpty, Zenon
  <2> QED
    BY <1>1, <2>1, Zenon DEF DispatchIInv, SoundBatch, SoundRow
<1>2. DispatchTypeOK
  BY <1>1, Zenon DEF DispatchIInv, DispatchTypeOK, SoundRow
<1>3. SettledIsTrue
  BY Zenon DEF DispatchIInv, SettledIsTrue, SoundRow
<1> QED
  BY <1>2, <1>3, Zenon

\* A receipt is settled once and truly, whichever dispatchers select it together and whichever
\* of their transactions fail: a dispatched one was delivered, a failed one was refused as
\* often as the budget demands, and over a serialised store it is not touched again
\* (EventDispatcher.dispatch_due).
THEOREM ReceiptsSettleOnce == DispatchSpec => SettlesOnce
<1>1. DispatchInit => DispatchIInv
  BY DispatchInitSound, Zenon
<1>2. DispatchIInv /\ [DispatchNext]_dispatchVars => DispatchIInv'
  BY DispatchStep, Zenon
<1>3. DispatchIInv => DispatchTypeOK /\ SettledIsTrue
  BY DispatchIInvImplies, Zenon
<1>4. DispatchIInv /\ [DispatchNext]_dispatchVars => [SettledKept]_dispatchVars
  BY DispatchStep, Zenon
<1>5. DispatchSpec => [](DispatchTypeOK /\ SettledIsTrue)
  BY <1>1, <1>2, <1>3, PTL DEF DispatchSpec
<1>6. DispatchSpec => [][SettledKept]_dispatchVars
  BY <1>1, <1>2, <1>4, PTL DEF DispatchSpec
<1> QED
  BY <1>5, <1>6, PTL DEF SettlesOnce, SettledStays, SettledKept

-----------------------------------------------------------------------------
(* Migration.  What the journal says for good is that a row is applied and  *)
(* that a constraint exists.  All a runner may rely on while others run is  *)
(* of that kind (LocalOK); for anything else it writes by compare-and-set.  *)

IsApplied(v) == HasState(journal, v, {"applied"})

\* What a runner knows at each place.
LocalOK(r) ==
  /\ pc[r] # "idle" => att[r] \in Attempts
  /\ \A v \in Data : seen[r][v] # NoRecord => seen[r][v].state = "applied"
  /\ \A v \in Versions : HasState(seen[r], v, {"applied"}) => IsApplied(v)
  /\ pc[r] \in {"loop", "refresh", "raised", "giveup", "observe", "apply"} =>
       \A w \in 1..(at[r] - 1) : IsApplied(w)
  /\ pc[r] \in {"refresh", "raised", "giveup", "observe", "apply"} => at[r] \in Versions
  /\ pc[r] \in {"raised", "giveup", "observe"} =>
       at[r] \notin Data /\ HasState(seen[r], at[r], {"ddl_started"})
  /\ pc[r] = "apply" => at[r] \notin Data /\ HasState(seen[r], at[r], {"ddl_observed"})
  /\ pc[r] \in {"observe", "apply"} => at[r] \in schema

\* A data migration has no row before it is applied.
DataRows == \A v \in Data : journal[v] # NoRecord => journal[v].state = "applied"

DbInv == DataRows /\ JournalIsTrue /\ DataMigratedOnce /\ InOrder /\ OpenRowIsOwned

\* The inductive invariant.
IInv == TypeOK /\ DbInv /\ CleanIsTrue /\ \A r \in Runners : LocalOK(r)

\* What was applied stays applied, and constraints are not dropped.
Grows ==
  /\ \A v \in Versions : IsApplied(v) => IsApplied(v)'
  /\ schema \subseteq schema'

\* The versions are numbered from 1 on.
LEMMA VersionFacts ==
  ASSUME NEW n \in Versions
  PROVE  /\ n \in Nat /\ N \in Nat /\ n + 1 \in 1..(N + 1)
         /\ \A w \in 1..(n - 1) : w \in Versions /\ w # n
BY MigrationAssumption DEF Versions

LEMMA RecordFacts ==
  ASSUME NEW s \in States, NEW a \in Attempts
  PROVE  /\ Record(s, a) \in Records /\ Record(s, a) # NoRecord
         /\ Record(s, a).state = s /\ Record(s, a).owner = a
BY RecordAssumption DEF Record, Records

-----------------------------------------------------------------------------
(* The initial states, and what the invariant gives.                       *)

LEMMA InitIInv == Init => IInv
<1> SUFFICES ASSUME Init PROVE IInv
  OBVIOUS
<1>1. TypeOK
  BY MigrationAssumption DEF Init, TypeOK, Rows, Versions, Places
<1>2. \A v \in Versions : journal[v] = NoRecord
  BY Zenon DEF Init
<1>3. DbInv
  BY <1>2, MigrationAssumption, Zenon
     DEF Init, DbInv, DataRows, JournalIsTrue, DataMigratedOnce, InOrder, OpenRowIsOwned, HasState, Versions
<1>4. CleanIsTrue
  BY Zenon DEF Init, CleanIsTrue
<1>5. \A r \in Runners : LocalOK(r)
  BY MigrationAssumption, Zenon DEF Init, LocalOK, HasState, Versions
<1> QED
  BY <1>1, <1>3, <1>4, <1>5, Zenon DEF IInv

-----------------------------------------------------------------------------
(* The database.                                                           *)

\* At most one row is open, and it is the last one.
LEMMA OneOpen ==
  ASSUME TypeOK, InOrder, NEW v \in Versions, NEW w \in Versions,
         journal[v] # NoRecord, journal[v].state # "applied", journal[w] # NoRecord, w # v
  PROVE  journal[w].state = "applied"
<1>0. v \in Nat /\ w \in Nat /\ N \in Nat
  BY MigrationAssumption DEF Versions
<1>1. CASE w < v
  BY <1>0, <1>1 DEF InOrder, HasState, Versions
<1>2. CASE v < w
  BY <1>0, <1>2 DEF InOrder, HasState, Versions
<1> QED
  BY <1>0, <1>1, <1>2

LEMMA DbStill ==
  ASSUME TypeOK, DbInv, UNCHANGED <<owner, journal, ran>>, schema \subseteq schema'
  PROVE  DbInv' /\ Grows
BY Zenon DEF DbInv, DataRows, JournalIsTrue, DataMigratedOnce, InOrder, OpenRowIsOwned, HasState, Grows, IsApplied

\* The owner of the journal writes the row of a schema migration.
LEMMA DbWrite ==
  ASSUME TypeOK, DbInv, NEW v \in Versions \ Data, NEW s \in States, NEW a \in Attempts,
         owner = a, ~ IsApplied(v), \A w \in 1..(v - 1) : IsApplied(w),
         s \in {"ddl_observed", "applied"} => v \in schema,
         journal' = [journal EXCEPT ![v] = Record(s, a)],
         UNCHANGED <<owner, schema, ran>>
  PROVE  journal' \in Rows /\ DbInv' /\ Grows
<1>0. journal \in Rows /\ v \in Nat /\ N \in Nat
  BY MigrationAssumption DEF TypeOK, Versions
<1>1. Record(s, a) \in Records /\ Record(s, a) # NoRecord
      /\ Record(s, a).state = s /\ Record(s, a).owner = a
  BY RecordFacts, Zenon
<1>2. /\ journal' \in Rows /\ journal'[v] = Record(s, a)
      /\ \A w \in Versions \ {v} : journal'[w] = journal[w]
  BY <1>0, <1>1, Zenon DEF Rows
<1>3. DataRows'
  BY <1>2, MigrationAssumption, Zenon DEF DbInv, DataRows, Versions
<1>4. JournalIsTrue'
  BY <1>1, <1>2, Zenon DEF DbInv, JournalIsTrue, HasState
<1>5. DataMigratedOnce'
  BY <1>2, MigrationAssumption, Zenon DEF DbInv, DataMigratedOnce, Versions
<1>6. InOrder'
  <2> SUFFICES ASSUME NEW x \in Versions, journal'[x] # NoRecord, NEW w \in 1..(x - 1)
               PROVE  HasState(journal', w, {"applied"})
    BY Zenon DEF InOrder
  <2>0. w \in Versions /\ x \in Nat /\ w \in Nat /\ w < x
    BY MigrationAssumption DEF Versions
  <2>1. CASE x = v
    BY <1>2, <2>0, <2>1, Zenon DEF IsApplied, HasState
  <2>2. CASE x # v
    <3>1. IsApplied(w)
      BY <1>2, <2>0, <2>2, Zenon DEF DbInv, InOrder, IsApplied
    <3>2. w # v
      BY <3>1, Zenon
    <3> QED
      BY <1>2, <2>0, <3>1, <3>2, Zenon DEF IsApplied, HasState
  <2> QED
    BY <2>1, <2>2, Zenon
<1>7. OpenRowIsOwned'
  BY <1>1, <1>2, Zenon DEF DbInv, OpenRowIsOwned, HasState
<1>8. Grows
  BY <1>2, Zenon DEF Grows, IsApplied, HasState
<1> QED
  BY <1>2, <1>3, <1>4, <1>5, <1>6, <1>7, <1>8, Zenon DEF DbInv

\* The owner migrates the data of the first version without a row.
LEMMA DbData ==
  ASSUME TypeOK, DbInv, NEW v \in Data, NEW a \in Attempts,
         owner = a, journal[v] = NoRecord, \A w \in 1..(v - 1) : IsApplied(w),
         journal' = [journal EXCEPT ![v] = Record("applied", a)],
         ran' = [ran EXCEPT ![v] = @ + 1],
         UNCHANGED <<owner, schema>>
  PROVE  journal' \in Rows /\ ran' \in [Data -> Nat] /\ DbInv' /\ Grows
<1>0. journal \in Rows /\ ran \in [Data -> Nat] /\ v \in Versions /\ v \in Nat /\ N \in Nat
  BY MigrationAssumption DEF TypeOK, Versions
<1>1. Record("applied", a) \in Records /\ Record("applied", a) # NoRecord
      /\ Record("applied", a).state = "applied" /\ Record("applied", a).owner = a
  BY RecordFacts, Zenon DEF States
<1>2. /\ journal' \in Rows /\ journal'[v] = Record("applied", a)
      /\ \A w \in Versions \ {v} : journal'[w] = journal[w]
  BY <1>0, <1>1, Zenon DEF Rows
<1>3. /\ ran' \in [Data -> Nat] /\ ran'[v] = ran[v] + 1
      /\ \A w \in Data \ {v} : ran'[w] = ran[w]
  BY <1>0
<1>4. DataRows'
  BY <1>1, <1>2, MigrationAssumption, Zenon DEF DbInv, DataRows, Versions
<1>5. JournalIsTrue'
  BY <1>2, Zenon DEF DbInv, JournalIsTrue, HasState
<1>6. DataMigratedOnce'
  <2>1. ran[v] = 0
    BY Zenon DEF DbInv, DataMigratedOnce
  <2>2. \A w \in Data \ {v} : w \in Versions \ {v}
    BY MigrationAssumption, Zenon DEF Versions
  <2> QED
    BY <1>1, <1>2, <1>3, <2>1, <2>2 DEF DbInv, DataMigratedOnce
<1>7. InOrder'
  <2> SUFFICES ASSUME NEW x \in Versions, journal'[x] # NoRecord, NEW w \in 1..(x - 1)
               PROVE  HasState(journal', w, {"applied"})
    BY Zenon DEF InOrder
  <2>0. w \in Versions /\ x \in Nat /\ w \in Nat /\ w < x
    BY MigrationAssumption DEF Versions
  <2>1. CASE x = v
    BY <1>2, <2>0, <2>1, Zenon DEF IsApplied, HasState
  <2>2. CASE x # v
    <3>1. IsApplied(w)
      BY <1>2, <2>0, <2>2, Zenon DEF DbInv, InOrder, IsApplied
    <3>2. w # v
      BY <3>1, Zenon DEF IsApplied, HasState
    <3> QED
      BY <1>2, <2>0, <3>1, <3>2, Zenon DEF IsApplied, HasState
  <2> QED
    BY <2>1, <2>2, Zenon
<1>8. OpenRowIsOwned'
  BY <1>1, <1>2, Zenon DEF DbInv, OpenRowIsOwned, HasState, Settled
<1>9. Grows
  BY <1>1, <1>2, Zenon DEF Grows, IsApplied, HasState
<1> QED
  BY <1>2, <1>3, <1>4, <1>5, <1>6, <1>7, <1>8, <1>9, Zenon DEF DbInv

\* The ownership changes hands while no row is open.
LEMMA DbOwner ==
  ASSUME TypeOK, DbInv, NothingOpen \/ owner' = owner, UNCHANGED <<journal, schema, ran>>
  PROVE  DbInv' /\ Grows
<1>1. OpenRowIsOwned'
  BY Zenon DEF DbInv, OpenRowIsOwned, NothingOpen, HasState
<1>2. DataRows' /\ JournalIsTrue' /\ DataMigratedOnce' /\ InOrder' /\ Grows
  BY Zenon DEF DbInv, DataRows, JournalIsTrue, DataMigratedOnce, InOrder, HasState, Grows, IsApplied
<1> QED
  BY <1>1, <1>2, Zenon DEF DbInv

\* Without an owner nothing is open.
LEMMA UnownedIsClosed ==
  ASSUME TypeOK, DbInv, owner = NoAttempt
  PROVE  NothingOpen
BY MigrationAssumption, RecordAssumption, Zenon
   DEF TypeOK, Rows, Records, DbInv, OpenRowIsOwned, HasState, NothingOpen

\* recover_owner: the ownership and the one open row change hands together.
LEMMA DbRecover ==
  ASSUME TypeOK, DbInv, NEW r \in Runners, NEW a \in Attempts, RecoverAllowed(r),
         owner' = a,
         journal' = [v \in Versions |->
                       IF v \in Adopted(r) THEN Record("ddl_started", a) ELSE journal[v]],
         seenOwner[r] # NoAttempt, UNCHANGED <<schema, ran>>,
         \A v \in Data : seen[r][v] # NoRecord => seen[r][v].state = "applied"
  PROVE  /\ journal' \in Rows /\ DbInv' /\ Grows
         /\ \A v \in Versions : journal'[v] # journal[v] => journal'[v].owner = a /\ ~ IsApplied(v)
<1>0. /\ journal \in Rows /\ N \in Nat /\ Adopted(r) \subseteq Versions
      /\ seenOwner[r] \in Attempts
  BY MigrationAssumption, Zenon DEF TypeOK, Adopted
<1>1. Record("ddl_started", a) \in Records /\ Record("ddl_started", a) # NoRecord
      /\ Record("ddl_started", a).state = "ddl_started" /\ Record("ddl_started", a).owner = a
  BY RecordFacts, Zenon DEF States
<1>2. /\ journal' \in Rows
      /\ \A v \in Adopted(r) : journal'[v] = Record("ddl_started", a)
      /\ \A v \in Versions \ Adopted(r) : journal'[v] = journal[v]
  BY <1>0, <1>1, Zenon DEF Rows
<1>3. \A v \in Adopted(r) : /\ journal[v] # NoRecord /\ journal[v].state = "ddl_started"
                            /\ v \notin Data
  <2> SUFFICES ASSUME NEW v \in Adopted(r)
               PROVE  journal[v] # NoRecord /\ journal[v].state = "ddl_started" /\ v \notin Data
    OBVIOUS
  <2>1. journal[v] = Record("ddl_started", seenOwner[r]) /\ seen[r][v] = journal[v]
    BY Zenon DEF Adopted, RecoverAllowed
  <2>2. journal[v] # NoRecord /\ journal[v].state = "ddl_started"
    BY <1>0, <2>1, RecordFacts DEF States
  <2> QED
    BY <2>1, <2>2, Zenon
<1>4. \A v \in Versions : journal'[v] # journal[v] => journal'[v].owner = a /\ ~ IsApplied(v)
  BY <1>1, <1>2, <1>3, Zenon DEF IsApplied, HasState
<1>5. Grows
  BY <1>2, <1>3, Zenon DEF Grows, IsApplied, HasState
<1>6. DataRows' /\ DataMigratedOnce'
  <2>1. \A v \in Data : v \in Versions \ Adopted(r)
    BY <1>3, MigrationAssumption, Zenon DEF Versions
  <2> QED
    BY <1>2, <2>1, Zenon DEF DbInv, DataRows, DataMigratedOnce
<1>7. JournalIsTrue'
  BY <1>1, <1>2, Zenon DEF DbInv, JournalIsTrue, HasState
<1>8. InOrder'
  <2> SUFFICES ASSUME NEW x \in Versions, journal'[x] # NoRecord, NEW w \in 1..(x - 1)
               PROVE  HasState(journal', w, {"applied"})
    BY Zenon DEF InOrder
  <2>1. w \in Versions
    BY <1>0 DEF Versions
  <2>2. journal[x] # NoRecord
    BY <1>2, <1>3, Zenon
  <2>3. IsApplied(w)
    BY <2>2, Zenon DEF DbInv, InOrder, IsApplied
  <2> QED
    BY <1>5, <2>1, <2>3, Zenon DEF Grows, IsApplied
<1>9. OpenRowIsOwned'
  <2> SUFFICES ASSUME NEW v \in Versions, HasState(journal', v, States \ Settled)
               PROVE  journal'[v].owner = a
    BY Zenon DEF OpenRowIsOwned
  <2>1. CASE v \in Adopted(r)
    BY <1>1, <1>2, <2>1, Zenon
  <2>2. CASE v \notin Adopted(r)
    <3>1. journal[v] # NoRecord /\ journal[v].state \notin Settled
      BY <1>2, <2>2, Zenon DEF HasState
    <3>2. PICK x \in Adopted(r) : TRUE
      BY <3>1, Zenon DEF RecoverAllowed, NothingOpen
    <3>3. journal[v].state = "applied"
      BY <1>0, <1>3, <2>2, <3>1, <3>2, OneOpen, Zenon DEF DbInv
    <3> QED
      BY <3>1, <3>3, Zenon DEF Settled
  <2> QED
    BY <2>1, <2>2, Zenon
<1> QED
  BY <1>2, <1>4, <1>5, <1>6, <1>7, <1>8, <1>9, Zenon DEF DbInv

-----------------------------------------------------------------------------
(* The runners.                                                            *)

\* A runner's own state, as its invariant reads it, is as before.
Same(q) == /\ pc'[q] = pc[q] /\ att'[q] = att[q] /\ at'[q] = at[q]
           /\ seen'[q] = seen[q] /\ result'[q] = result[q]

\* What a runner knows is not undone by others.
LEMMA OthersKeep ==
  ASSUME TypeOK, NEW q \in Runners, LocalOK(q), Same(q), Grows
  PROVE  LocalOK(q)'
<1>0. at[q] \in 1..(N + 1) /\ N \in Nat
  BY MigrationAssumption, Zenon DEF TypeOK
<1>1. \A w \in 1..(at[q] - 1) : w \in Versions
  BY <1>0 DEF Versions
<1>2. \A w \in 1..(at[q] - 1) : IsApplied(w) => IsApplied(w)'
  BY <1>1, Zenon DEF Grows
<1>3. \A v \in Versions : IsApplied(v) => IsApplied(v)'
  BY Zenon DEF Grows
<1>4. schema \subseteq schema'
  BY Zenon DEF Grows
<1> QED
  BY <1>2, <1>3, <1>4, Zenon DEF LocalOK, Same, HasState

\* Every migration, once applied, stays applied.
LEMMA AppliedStays ==
  ASSUME Grows, NEW v \in Versions, Applied(v)
  PROVE  Applied(v)'
BY Zenon DEF Grows, Applied, IsApplied

\* A step of one runner keeps the invariant when it keeps the database's and
\* the runner's own part.
LEMMA StepKeeps ==
  ASSUME IInv, NEW r \in Runners, TypeOK', DbInv', Grows, LocalOK(r)',
         \A q \in Runners \ {r} : Same(q),
         probe' = probe,
         result'[r] = "clean" => result[r] = "clean" \/ \A v \in Versions : Applied(v)
  PROVE  IInv'
<1>1. \A q \in Runners : LocalOK(q)'
  BY OthersKeep, Zenon DEF IInv
<1>2. CleanIsTrue'
  <2> SUFFICES ASSUME probe' = "ready" \/ \E q \in Runners : result'[q] = "clean"
               PROVE  \A v \in Versions : Applied(v)'
    BY Zenon DEF CleanIsTrue
  <2>1. \A v \in Versions : Applied(v)
    BY Zenon DEF IInv, CleanIsTrue, Same
  <2> QED
    BY <2>1, AppliedStays, Zenon
<1> QED
  BY <1>1, <1>2, Zenon DEF IInv

\* A runner that returns keeps the invariant when the database does.
LEMMA ReturnKeeps ==
  ASSUME IInv, NEW r \in Runners, NEW status, Return(r, status),
         owner' \in Attempts \cup {NoAttempt}, journal' \in Rows, ran' \in [Data -> Nat],
         schema' \subseteq Versions, late' \subseteq Versions, faults' \in 0..MaxFaults,
         DbInv', Grows, probe' = probe,
         status = "clean" => \A v \in Versions : Applied(v)
  PROVE  IInv'
<1>0. N \in Nat \ {0} /\ [v \in Versions |-> NoRecord] \in Rows
  BY MigrationAssumption, Zenon DEF Rows
<1>1. TypeOK'
  BY <1>0 DEF IInv, TypeOK, Return, Places
<1>2. /\ pc'[r] = "idle" /\ seen'[r] = [v \in Versions |-> NoRecord]
      /\ result'[r] = "clean" => status = "clean"
  BY Zenon DEF IInv, TypeOK, Return
<1>3. LocalOK(r)'
  BY <1>2, MigrationAssumption, Zenon DEF LocalOK, HasState, Versions
<1>4. \A q \in Runners \ {r} : Same(q)
  BY Zenon DEF IInv, TypeOK, Return, Same
<1> QED
  BY <1>1, <1>2, <1>3, <1>4, StepKeeps, Zenon

\* What a step may do to the rows.
Written ==
  \A v \in Versions : journal'[v] # journal[v] =>
    journal'[v].owner = owner' /\ ~ HasState(journal, v, {"applied"})

\* A step of one runner that leaves the journal alone.
LEMMA PlainStep ==
  ASSUME IInv, NEW r \in Runners, TypeOK', UNCHANGED <<owner, journal, ran, probe>>,
         schema \subseteq schema', LocalOK(r)', \A q \in Runners \ {r} : Same(q),
         result'[r] = "clean" => result[r] = "clean"
  PROVE  IInv' /\ Written
<1>1. DbInv' /\ Grows
  BY DbStill, Zenon DEF IInv
<1> QED
  BY <1>1, StepKeeps, Zenon DEF Written

\* A runner that gives up without having changed the database.
LEMMA HoldKeeps ==
  ASSUME IInv, NEW r \in Runners, Return(r, "hold"), UNCHANGED <<database, probe>>,
         faults' \in 0..MaxFaults
  PROVE  IInv' /\ Written
<1>1. UNCHANGED <<owner, journal, schema, late, ran>>
  BY Zenon DEF database
<1>2. DbInv' /\ Grows
  BY <1>1, DbStill, Zenon DEF IInv
<1>3. /\ owner' \in Attempts \cup {NoAttempt} /\ journal' \in Rows /\ ran' \in [Data -> Nat]
      /\ schema' \subseteq Versions /\ late' \subseteq Versions
  BY <1>1, Zenon DEF IInv, TypeOK
<1> QED
  BY <1>1, <1>2, <1>3, ReturnKeeps, Zenon DEF Written

\* A step that only moves the program counter.
LEMMA GoToKeeps ==
  ASSUME IInv, NEW r \in Runners, NEW p \in Places, GoTo(r, p),
         UNCHANGED <<owner, journal, ran, probe>>, faults' \in 0..MaxFaults,
         schema \subseteq schema', schema' \subseteq Versions, late' \subseteq Versions,
         pc[r] # "idle",
         p \in {"reread", "loop", "raised", "giveup", "observe"},
         p # "reread" =>
           /\ \A w \in 1..(at[r] - 1) : IsApplied(w)
           /\ at[r] \in Versions \ Data /\ HasState(seen[r], at[r], {"ddl_started"}),
         p = "observe" => at[r] \in schema'
  PROVE  IInv' /\ Written
<1>0. /\ pc \in [Runners -> Places] /\ LocalOK(r) /\ TypeOK
      /\ UNCHANGED <<att, recovery, at, seenOwner, seen, fresh, result>>
  BY Zenon DEF IInv, TypeOK, GoTo
<1>1. pc' \in [Runners -> Places] /\ pc'[r] = p /\ \A q \in Runners \ {r} : pc'[q] = pc[q]
  BY <1>0, Zenon DEF GoTo
<1>2. TypeOK'
  BY <1>0, <1>1, Zenon DEF TypeOK
<1>3. \A q \in Runners \ {r} : Same(q)
  BY <1>0, <1>1, Zenon DEF Same
<1>4. att[r] \in Attempts
  BY <1>0, Zenon DEF LocalOK
<1>5. LocalOK(r)'
  BY <1>0, <1>1, <1>4, Zenon DEF LocalOK, IsApplied, HasState
<1> QED
  BY <1>0, <1>2, <1>3, <1>5, PlainStep, Zenon

\* compare_and_set_journal.
LEMMA SwapKeeps ==
  ASSUME IInv, NEW r \in Runners, NEW s \in States, NEW p \in {"loop", "apply", "release"},
         NEW v \in 1..(N + 1), Swap(r, s, p, v), probe' = probe,
         pc[r] # "idle", at[r] \in Versions \ Data,
         ~ HasState(seen[r], at[r], {"applied"}),
         \A w \in 1..(at[r] - 1) : IsApplied(w),
         s \in {"ddl_observed", "applied"} => at[r] \in schema,
         p = "apply" => s = "ddl_observed" /\ v = at[r],
         p = "loop" => v = at[r] \/ (v = at[r] + 1 /\ s = "applied")
  PROVE  IInv' /\ Written
<1>0. TypeOK /\ DbInv /\ LocalOK(r) /\ UNCHANGED <<owner, schema, late, ran, faults>>
  BY Zenon DEF IInv, Swap
<1>1. CASE ~ (Owns(r) /\ Unchanged(r))
  <2>1. Return(r, "hold") /\ UNCHANGED journal
    BY <1>1, Zenon DEF Swap
  <2>2. UNCHANGED database /\ faults' \in 0..MaxFaults
    BY <1>0, <2>1, Zenon DEF database, TypeOK
  <2> QED
    BY <2>1, <2>2, HoldKeeps, Zenon
<1>2. CASE Owns(r) /\ Unchanged(r)
  <2>0. PICK n \in Versions \ Data : n = at[r]
    OBVIOUS
  <2>1. PICK a \in Attempts : a = att[r]
    BY <1>0, Zenon DEF LocalOK
  <2>2. /\ journal' = [journal EXCEPT ![n] = Record(s, a)]
        /\ seen' = [seen EXCEPT ![r][n] = Record(s, a)]
        /\ pc' = [pc EXCEPT ![r] = p]
        /\ at' = [at EXCEPT ![r] = v]
        /\ fresh' = [fresh EXCEPT ![r] = (s = "ddl_started")]
        /\ UNCHANGED <<att, recovery, seenOwner, result>>
    BY <1>2, <2>0, <2>1, Zenon DEF Swap
  <2>3. owner = a /\ journal[n] = seen[r][n]
    BY <1>2, <2>0, <2>1, Zenon DEF Owns, Unchanged
  <2>4. ~ IsApplied(n)
    BY <2>0, <2>3, Zenon DEF IsApplied, HasState
  <2>5. journal' \in Rows /\ DbInv' /\ Grows
    BY <1>0, <2>0, <2>2, <2>3, <2>4, DbWrite, Zenon
  <2>6. Record(s, a) \in Records /\ Record(s, a) # NoRecord
        /\ Record(s, a).state = s /\ Record(s, a).owner = a
    BY RecordFacts, Zenon
  <2>7. /\ seen[r] \in Rows /\ seen \in [Runners -> Rows] /\ journal \in Rows
        /\ pc \in [Runners -> Places] /\ at \in [Runners -> 1..(N + 1)]
        /\ fresh \in [Runners -> BOOLEAN]
    BY <1>0, Zenon DEF TypeOK
  <2>8. /\ seen' \in [Runners -> Rows] /\ seen'[r][n] = Record(s, a)
        /\ \A x \in Versions \ {n} : seen'[r][x] = seen[r][x]
        /\ \A q \in Runners \ {r} : seen'[q] = seen[q]
    BY <2>2, <2>6, <2>7, Zenon DEF Rows
  <2>9. /\ pc' \in [Runners -> Places] /\ at' \in [Runners -> 1..(N + 1)]
        /\ fresh' \in [Runners -> BOOLEAN]
        /\ pc'[r] = p /\ at'[r] = v /\ att'[r] = a
        /\ \A q \in Runners \ {r} : pc'[q] = pc[q] /\ at'[q] = at[q]
    BY <2>1, <2>2, <2>7, Zenon DEF Places
  <2>10. TypeOK'
    BY <1>0, <2>2, <2>5, <2>8, <2>9, Zenon DEF TypeOK
  <2>11. \A q \in Runners \ {r} : Same(q)
    BY <2>2, <2>8, <2>9, Zenon DEF Same
  <2>12. /\ journal'[n] = Record(s, a)
         /\ \A x \in Versions \ {n} : journal'[x] = journal[x]
    BY <2>2, <2>7, Zenon DEF Rows
  <2>13. \A x \in Versions : HasState(seen'[r], x, {"applied"}) => HasState(journal', x, {"applied"})
    BY <1>0, <2>8, <2>12, ZenonT(30) DEF LocalOK, IsApplied, HasState
  <2>14. \A x \in Data : seen'[r][x] # NoRecord => seen'[r][x].state = "applied"
    BY <1>0, <2>8, MigrationAssumption, Zenon DEF LocalOK, Versions
  <2>15. n \in Nat /\ N \in Nat /\ \A w \in 1..(n - 1) : w \in Versions /\ w # n
    BY VersionFacts, Zenon
  <2>16. \A w \in 1..(n - 1) : HasState(journal', w, {"applied"})
    BY <2>0, <2>12, <2>15, Zenon DEF IsApplied, HasState
  <2>17. p \in {"loop", "apply"} => \A w \in 1..(v - 1) : HasState(journal', w, {"applied"})
    <3>1. CASE v = n
      BY <2>16, <3>1, Zenon
    <3>2. CASE v = n + 1 /\ s = "applied"
      <4>1. HasState(journal', n, {"applied"})
        BY <2>6, <2>12, <3>2, Zenon DEF HasState
      <4>2. \A w \in 1..(v - 1) : w \in 1..(n - 1) \/ w = n
        BY <2>15, <3>2
      <4> QED
        BY <2>16, <4>1, <4>2, Zenon
    <3> QED
      BY <2>0, <3>1, <3>2, Zenon
  <2>18. p = "apply" => /\ v \in Versions /\ v \notin Data /\ v \in schema'
                        /\ HasState(seen'[r], v, {"ddl_observed"})
    BY <1>0, <2>0, <2>6, <2>8, Zenon DEF HasState
  <2>19. LocalOK(r)'
    BY <2>1, <2>9, <2>13, <2>14, <2>17, <2>18, Zenon DEF LocalOK, IsApplied
  <2>20. Written
    BY <1>0, <2>3, <2>4, <2>6, <2>12, Zenon DEF Written, IsApplied
  <2> QED
    BY <2>2, <2>5, <2>10, <2>11, <2>19, <2>20, StepKeeps, Zenon
<1> QED
  BY <1>1, <1>2, Zenon

-----------------------------------------------------------------------------
(* The actions.                                                            *)

LEMMA StartKeeps ==
  ASSUME IInv, NEW r \in Runners, NEW a \in Attempts, NEW b \in Attempts \cup {NoAttempt},
         Start(r, a, b), probe' = probe
  PROVE  IInv' /\ Written
<1>0. TypeOK /\ LocalOK(r) /\ UNCHANGED <<owner, journal, schema, late, ran>>
  BY Zenon DEF IInv, Start, database
<1>1. TypeOK'
  BY <1>0, Zenon DEF TypeOK, Start, Places
<1>2. /\ pc'[r] = "owner" /\ att'[r] = a /\ result'[r] = "none"
      /\ seen'[r] = seen[r] /\ at'[r] = at[r]
      /\ \A q \in Runners \ {r} : Same(q)
  BY <1>0, Zenon DEF TypeOK, Start, Same
<1>3. LocalOK(r)'
  BY <1>0, <1>2, Zenon DEF LocalOK, IsApplied, HasState
<1> QED
  BY <1>0, <1>1, <1>2, <1>3, PlainStep, Zenon

LEMMA ReadKeeps ==
  ASSUME IInv, NEW r \in Runners, ReadOwner(r) \/ ReadJournal(r), probe' = probe
  PROVE  IInv' /\ Written
<1>0. TypeOK /\ LocalOK(r) /\ UNCHANGED <<owner, journal, schema, late, ran>>
  BY Zenon DEF IInv, ReadOwner, ReadJournal, database
<1>1. CASE ReadOwner(r)
  <2>1. TypeOK'
    BY <1>0, <1>1, Zenon DEF TypeOK, ReadOwner, Places
  <2>2. /\ pc'[r] = "journal" /\ att'[r] = att[r] /\ result'[r] = result[r]
        /\ seen'[r] = seen[r] /\ at'[r] = at[r]
        /\ \A q \in Runners \ {r} : Same(q)
    BY <1>0, <1>1, Zenon DEF TypeOK, ReadOwner, Same
  <2>3. LocalOK(r)'
    BY <1>0, <1>1, <2>2, Zenon DEF LocalOK, IsApplied, HasState, ReadOwner
  <2> QED
    BY <1>0, <2>1, <2>2, <2>3, PlainStep, Zenon
<1>2. CASE ReadJournal(r)
  <2>0. N \in Nat \ {0} /\ DataRows
    BY MigrationAssumption, Zenon DEF IInv, DbInv
  <2>1. TypeOK'
    BY <1>0, <1>2, <2>0 DEF TypeOK, ReadJournal, Places
  <2>2. /\ pc'[r] \in {"decide", "loop"} /\ att'[r] = att[r] /\ result'[r] = result[r]
        /\ seen'[r] = journal /\ at'[r] = 1
        /\ \A q \in Runners \ {r} : Same(q)
    BY <1>0, <1>2, Zenon DEF TypeOK, ReadJournal, Same
  <2>3. \A w \in 1..(1 - 1) : IsApplied(w)'
    OBVIOUS
  <2>4. LocalOK(r)'
    BY <1>0, <1>2, <2>0, <2>2, <2>3, Zenon DEF LocalOK, DataRows, IsApplied, ReadJournal
  <2> QED
    BY <1>0, <2>1, <2>2, <2>4, PlainStep, Zenon
<1> QED
  BY <1>1, <1>2, Zenon

\* The ownership was taken: the runner's own part of the invariant.
LEMMA DecidedKeeps ==
  ASSUME IInv, NEW r \in Runners, Decided(r), pc[r] = "decide",
         owner' \in Attempts \cup {NoAttempt}, journal' \in Rows, DbInv', Grows,
         UNCHANGED <<schema, late, ran, faults, probe>>
  PROVE  IInv'
<1>0. TypeOK /\ LocalOK(r) /\ [v \in Versions |-> NoRecord] \in Rows
  BY Zenon DEF IInv, Rows
<1>1. TypeOK'
  BY <1>0, Zenon DEF TypeOK, Decided, Places
<1>2. /\ pc'[r] = "verify" /\ att'[r] = att[r] /\ result'[r] = result[r]
      /\ seen'[r] = [v \in Versions |-> NoRecord]
      /\ \A q \in Runners \ {r} : Same(q)
  BY <1>0, Zenon DEF TypeOK, Decided, Same
<1>3. LocalOK(r)'
  BY <1>0, <1>2, MigrationAssumption, Zenon DEF LocalOK, HasState, Versions
<1> QED
  BY <1>1, <1>2, <1>3, StepKeeps, Zenon

LEMMA AcquireKeeps ==
  ASSUME IInv, NEW r \in Runners, Acquire(r), probe' = probe
  PROVE  IInv' /\ Written
<1>0. TypeOK /\ DbInv /\ LocalOK(r) /\ pc[r] = "decide"
      /\ UNCHANGED <<journal, schema, late, ran, faults>>
  BY Zenon DEF IInv, Acquire
<1>1. Written
  BY <1>0, Zenon DEF Written
<1>2. \/ owner \in {NoAttempt, att[r]} /\ owner' = att[r] /\ Decided(r)
      \/ owner' = owner /\ Return(r, "hold")
  BY Zenon DEF Acquire
<1>3. CASE owner' = owner /\ Return(r, "hold")
  <2>1. UNCHANGED database /\ faults' \in 0..MaxFaults
    BY <1>0, <1>3, Zenon DEF database, TypeOK
  <2> QED
    BY <1>3, <2>1, HoldKeeps, Zenon
<1>4. CASE owner \in {NoAttempt, att[r]} /\ owner' = att[r] /\ Decided(r)
  <2>1. NothingOpen \/ owner' = owner
    BY <1>0, <1>4, UnownedIsClosed, Zenon
  <2>2. DbInv' /\ Grows
    BY <1>0, <2>1, DbOwner, Zenon
  <2>3. owner' \in Attempts \cup {NoAttempt} /\ journal' \in Rows
    BY <1>0, <1>4, Zenon DEF TypeOK
  <2> QED
    BY <1>0, <1>1, <1>4, <2>2, <2>3, DecidedKeeps, Zenon
<1> QED
  BY <1>2, <1>3, <1>4, Zenon

LEMMA ResumeKeeps ==
  ASSUME IInv, NEW r \in Runners, Resume(r), probe' = probe
  PROVE  IInv' /\ Written
<1>0. TypeOK /\ DbInv /\ pc[r] = "decide" /\ Decided(r)
      /\ UNCHANGED <<owner, journal, schema, late, ran, faults>>
  BY Zenon DEF IInv, Resume, database
<1>1. DbInv' /\ Grows
  BY <1>0, DbStill, Zenon
<1>2. owner' \in Attempts \cup {NoAttempt} /\ journal' \in Rows
  BY <1>0, Zenon DEF TypeOK
<1> QED
  BY <1>0, <1>1, <1>2, DecidedKeeps, Zenon DEF Written

LEMMA RecoverKeeps ==
  ASSUME IInv, NEW r \in Runners, Recover(r), probe' = probe
  PROVE  IInv' /\ Written
<1>0. TypeOK /\ DbInv /\ LocalOK(r) /\ pc[r] = "decide" /\ seenOwner[r] # NoAttempt
      /\ UNCHANGED <<schema, late, ran, faults>>
  BY Zenon DEF IInv, Recover
<1>1. CASE Return(r, "hold") /\ UNCHANGED <<owner, journal>>
  <2>1. UNCHANGED database /\ faults' \in 0..MaxFaults
    BY <1>0, <1>1, Zenon DEF database, TypeOK
  <2> QED
    BY <1>1, <2>1, HoldKeeps, Zenon
<1>2. CASE /\ RecoverAllowed(r) /\ owner' = att[r] /\ Decided(r)
           /\ journal' = [v \in Versions |->
                IF v \in Adopted(r) THEN Record("ddl_started", att[r]) ELSE journal[v]]
  <2>0. PICK a \in Attempts : a = att[r]
    BY <1>0, Zenon DEF LocalOK
  <2>1. /\ owner' = a
        /\ journal' = [v \in Versions |->
             IF v \in Adopted(r) THEN Record("ddl_started", a) ELSE journal[v]]
    BY <1>2, <2>0, Zenon
  <2>2. \A v \in Data : seen[r][v] # NoRecord => seen[r][v].state = "applied"
    BY <1>0, Zenon DEF LocalOK
  <2>3. /\ journal' \in Rows /\ DbInv' /\ Grows
        /\ \A v \in Versions : journal'[v] # journal[v] => journal'[v].owner = a /\ ~ IsApplied(v)
    BY <1>0, <1>2, <2>1, <2>2, DbRecover, Zenon
  <2>4. Written
    BY <2>1, <2>3, Zenon DEF Written, IsApplied
  <2> QED
    BY <1>0, <1>2, <2>1, <2>3, <2>4, DecidedKeeps, Zenon
<1> QED
  BY <1>1, <1>2, Zenon DEF Recover

LEMMA VerifyKeeps ==
  ASSUME IInv, NEW r \in Runners, Verify(r), probe' = probe
  PROVE  IInv' /\ Written
<1>0. TypeOK /\ pc[r] = "verify" /\ UNCHANGED <<owner, journal, schema, late, ran, faults>>
      /\ UNCHANGED database
  BY Zenon DEF IInv, Verify, database
<1>1. /\ faults' \in 0..MaxFaults /\ schema \subseteq schema'
      /\ schema' \subseteq Versions /\ late' \subseteq Versions
  BY <1>0, Zenon DEF TypeOK
<1>2. CASE Return(r, "hold")
  BY <1>0, <1>1, <1>2, HoldKeeps, Zenon
<1>3. CASE GoTo(r, "reread")
  <2>1. "reread" \in Places
    BY Zenon DEF Places
  <2> QED
    BY <1>0, <1>1, <1>3, <2>1, GoToKeeps, Zenon
<1> QED
  BY <1>2, <1>3, Zenon DEF Verify

\* What a runner in the loop knows of the row it is at.
LEMMA LoopFacts ==
  ASSUME IInv, NEW r \in Runners, pc[r] = "loop"
  PROVE  /\ TypeOK /\ DbInv /\ LocalOK(r) /\ att[r] \in Attempts /\ N \in Nat \ {0}
         /\ at[r] \in 1..(N + 1) /\ \A w \in 1..(at[r] - 1) : IsApplied(w)
         /\ at[r] \in Data /\ seen[r][at[r]] # NoRecord => seen[r][at[r]].state = "applied"
BY MigrationAssumption, Zenon DEF IInv, LocalOK, TypeOK

\* The loop goes on with the next version.
LEMMA AdvanceKeeps ==
  ASSUME IInv, NEW r \in Runners, pc[r] \in {"loop", "refresh"}, at[r] \in Versions,
         IsApplied(at[r]), \A w \in 1..(at[r] - 1) : IsApplied(w),
         pc' = [pc EXCEPT ![r] = "loop"], at' = [at EXCEPT ![r] = @ + 1],
         seen' = [seen EXCEPT ![r] = journal] \/ seen' = seen,
         UNCHANGED <<owner, journal, schema, late, ran, faults, probe,
                     att, recovery, seenOwner, fresh, result>>
  PROVE  IInv' /\ Written
<1>0. /\ TypeOK /\ LocalOK(r) /\ DataRows /\ N \in Nat /\ at[r] \in Nat /\ at[r] + 1 \in 1..(N + 1)
      /\ journal \in Rows
  BY MigrationAssumption DEF IInv, DbInv, Versions, TypeOK
<1>1. TypeOK'
  <2>1. seen' \in [Runners -> Rows] /\ pc' \in [Runners -> Places]
    BY <1>0, Zenon DEF TypeOK, Places
  <2>2. at' \in [Runners -> 1..(N + 1)]
    BY <1>0, Zenon DEF TypeOK
  <2> QED
    BY <1>0, <2>1, <2>2, Zenon DEF TypeOK
<1>2. /\ pc'[r] = "loop" /\ at'[r] = at[r] + 1 /\ att'[r] = att[r] /\ result'[r] = result[r]
      /\ seen'[r] = journal \/ seen'[r] = seen[r]
      /\ \A q \in Runners \ {r} : Same(q)
  BY <1>0, Zenon DEF TypeOK, Same
<1>3. \A w \in 1..(at'[r] - 1) : IsApplied(w)
  <2>1. \A w \in 1..(at'[r] - 1) : w \in 1..(at[r] - 1) \/ w = at[r]
    BY <1>0, <1>2
  <2> QED
    BY <2>1, Zenon
<1>4. \A x \in Versions : HasState(seen'[r], x, {"applied"}) => IsApplied(x)
  BY <1>0, <1>2, Zenon DEF LocalOK, IsApplied
<1>5. \A x \in Data : seen'[r][x] # NoRecord => seen'[r][x].state = "applied"
  BY <1>0, <1>2, Zenon DEF LocalOK, DataRows
<1>6. att[r] \in Attempts
  BY <1>0, Zenon DEF LocalOK
<1>7. \A w : IsApplied(w)' <=> IsApplied(w)
  BY Zenon DEF IsApplied, HasState
<1>8. LocalOK(r)'
  BY <1>2, <1>3, <1>4, <1>5, <1>6, <1>7, Zenon DEF LocalOK
<1> QED
  BY <1>0, <1>1, <1>2, <1>8, PlainStep, Zenon

LEMMA SkipKeeps ==
  ASSUME IInv, NEW r \in Runners, SkipApplied(r) \/ Refresh(r), probe' = probe
  PROVE  IInv' /\ Written
<1>0. /\ TypeOK /\ LocalOK(r) /\ UNCHANGED database /\ faults' = faults
      /\ UNCHANGED <<owner, journal, schema, late, ran>> /\ faults' \in 0..MaxFaults
  BY Zenon DEF IInv, SkipApplied, Refresh, database, TypeOK
<1>1. CASE Return(r, "hold")
  BY <1>0, <1>1, HoldKeeps, Zenon
<1>2. CASE SkipApplied(r) /\ ~ Return(r, "hold")
  <2>1. /\ pc[r] = "loop" /\ at[r] \in Versions /\ HasState(seen[r], at[r], {"applied"})
        /\ at' = [at EXCEPT ![r] = @ + 1]
        /\ UNCHANGED <<pc, att, recovery, seenOwner, seen, fresh, result>>
    BY <1>2, Zenon DEF SkipApplied, AtRow
  <2>2. IsApplied(at[r]) /\ \A w \in 1..(at[r] - 1) : IsApplied(w)
    BY <1>0, <2>1, Zenon DEF LocalOK
  <2>3. pc' = [pc EXCEPT ![r] = "loop"]
    BY <1>0, <2>1, Zenon DEF TypeOK
  <2> QED
    BY <1>0, <2>1, <2>2, <2>3, AdvanceKeeps, Zenon
<1>3. CASE Refresh(r) /\ ~ Return(r, "hold")
  <2>1. /\ pc[r] = "refresh" /\ IsApplied(at[r])
        /\ seen' = [seen EXCEPT ![r] = journal] /\ at' = [at EXCEPT ![r] = @ + 1]
        /\ pc' = [pc EXCEPT ![r] = "loop"]
        /\ UNCHANGED <<att, recovery, seenOwner, fresh, result>>
    BY <1>3, Zenon DEF Refresh, IsApplied
  <2>2. at[r] \in Versions /\ \A w \in 1..(at[r] - 1) : IsApplied(w)
    BY <1>0, <2>1, Zenon DEF LocalOK
  <2> QED
    BY <1>0, <2>1, <2>2, AdvanceKeeps, Zenon
<1> QED
  BY <1>1, <1>2, <1>3, Zenon

LEMMA ApplyDataKeeps ==
  ASSUME IInv, NEW r \in Runners, ApplyData(r), probe' = probe
  PROVE  IInv' /\ Written
<1>0. /\ TypeOK /\ DbInv /\ LocalOK(r) /\ att[r] \in Attempts /\ pc[r] = "loop"
      /\ at[r] \in Data /\ at[r] \in Versions /\ UNCHANGED <<owner, schema, late, faults>>
  BY LoopFacts, Zenon DEF ApplyData, AtGap
<1>1. PICK n \in Data : n = at[r]
  BY <1>0, Zenon
<1>2. PICK a \in Attempts : a = att[r]
  BY <1>0, Zenon
<1>3. /\ ran' = [ran EXCEPT ![n] = @ + 1]
      /\ journal' = [journal EXCEPT ![n] = Record("applied", a)]
      /\ owner = a /\ journal[n] = NoRecord
      /\ \A w \in 1..(n - 1) : IsApplied(w)
  BY <1>1, <1>2, Zenon DEF ApplyData, DataAllowed, Owns, IsApplied
<1>4. journal' \in Rows /\ ran' \in [Data -> Nat] /\ DbInv' /\ Grows
  BY <1>0, <1>3, DbData, Zenon
<1>5. /\ pc' = [pc EXCEPT ![r] = "refresh"]
      /\ UNCHANGED <<att, recovery, at, seenOwner, seen, fresh, result>>
  BY Zenon DEF ApplyData, GoTo
<1>6. TypeOK'
  BY <1>0, <1>4, <1>5, Zenon DEF TypeOK, Places
<1>7. pc'[r] = "refresh" /\ \A q \in Runners \ {r} : Same(q)
  BY <1>0, <1>5, Zenon DEF TypeOK, Same
<1>8. \A w \in 1..(at[r] - 1) : IsApplied(w)'
  <2>1. \A w \in 1..(at[r] - 1) : w \in Versions
    BY <1>0, VersionFacts, Zenon
  <2> QED
    BY <1>1, <1>3, <1>4, <2>1, Zenon DEF Grows
<1>9. \A x \in Versions : HasState(seen[r], x, {"applied"}) => IsApplied(x)'
  BY <1>0, <1>4, Zenon DEF LocalOK, Grows
<1>10. LocalOK(r)'
  BY <1>0, <1>5, <1>7, <1>8, <1>9, Zenon DEF LocalOK
<1>11. Written
  <2>1. journal \in Rows /\ n \in Versions /\ Record("applied", a).owner = a
    BY <1>0, <1>1, RecordFacts, Zenon DEF TypeOK, States
  <2>2. \A v \in Versions : journal'[v] = IF v = n THEN Record("applied", a) ELSE journal[v]
    BY <1>3, <2>1, Zenon DEF Rows
  <2> QED
    BY <1>0, <1>3, <2>1, <2>2, Zenon DEF Written, HasState
<1> QED
  BY <1>4, <1>5, <1>6, <1>7, <1>10, <1>11, StepKeeps, Zenon

\* The steps in which a runner gives up and nothing else happens.
LEMMA GivesUpKeeps ==
  ASSUME IInv, NEW r \in Runners, DataFails(r) \/ ForeignRow(r) \/ Crash(r), probe' = probe
  PROVE  IInv' /\ Written
<1>1. Return(r, "hold") /\ UNCHANGED database
  BY Zenon DEF DataFails, ForeignRow, Crash
<1>2. faults' \in 0..MaxFaults
  BY MigrationAssumption DEF IInv, TypeOK, DataFails, ForeignRow, Crash
<1> QED
  BY <1>1, <1>2, HoldKeeps, Zenon

\* The compare-and-sets of the loop.
LEMMA LoopWritesKeep ==
  ASSUME IInv, NEW r \in Runners, probe' = probe,
         WritePending(r) \/ WriteStarted(r) \/ FinishObserved(r)
  PROVE  IInv' /\ Written
<1>0. pc[r] = "loop" /\ at[r] \in Versions
  BY Zenon DEF WritePending, WriteStarted, FinishObserved, AtRow, AtGap
<1>1. /\ TypeOK /\ DbInv /\ at[r] \in 1..(N + 1) /\ \A w \in 1..(at[r] - 1) : IsApplied(w)
      /\ at[r] \in Data /\ seen[r][at[r]] # NoRecord => seen[r][at[r]].state = "applied"
      /\ N \in Nat
  BY <1>0, LoopFacts, Zenon
<1>2. CASE WritePending(r)
  <2>1. at[r] \notin Data /\ ~ HasState(seen[r], at[r], {"applied"})
    BY <1>1, <1>2, Zenon DEF WritePending, AtGap, AtRow, HasState
  <2>2. Swap(r, "pending", "loop", at[r]) /\ "pending" \in States
    BY <1>2, Zenon DEF WritePending, States
  <2> QED
    BY <1>0, <1>1, <2>1, <2>2, SwapKeeps, Zenon
<1>3. CASE WriteStarted(r)
  <2>1. at[r] \notin Data /\ ~ HasState(seen[r], at[r], {"applied"})
    BY <1>3, Zenon DEF WriteStarted, AtRow, Mine, HasState
  <2>2. Swap(r, "ddl_started", "loop", at[r]) /\ "ddl_started" \in States
    BY <1>3, Zenon DEF WriteStarted, States
  <2> QED
    BY <1>0, <1>1, <2>1, <2>2, SwapKeeps, Zenon
<1>4. CASE FinishObserved(r)
  <2>1. at[r] \notin Data /\ ~ HasState(seen[r], at[r], {"applied"})
    BY <1>4, Zenon DEF FinishObserved, AtRow, Mine, HasState
  <2>2. CASE at[r] \in schema
    <3>1. Swap(r, "applied", "loop", at[r] + 1) /\ "applied" \in States
      BY <1>4, <2>2, Zenon DEF FinishObserved, States
    <3>2. at[r] + 1 \in 1..(N + 1)
      BY <1>0, VersionFacts, Zenon
    <3> QED
      BY <1>0, <1>1, <2>1, <2>2, <3>1, <3>2, SwapKeeps, Zenon
  <2>3. CASE at[r] \notin schema
    <3>1. Return(r, "hold") /\ UNCHANGED database /\ faults' \in 0..MaxFaults
      BY <1>1, <1>4, <2>3, Zenon DEF FinishObserved, TypeOK
    <3> QED
      BY <3>1, HoldKeeps, Zenon
  <2> QED
    BY <2>2, <2>3, Zenon
<1> QED
  BY <1>2, <1>3, <1>4, Zenon

\* The compare-and-sets after a schema command.
LEMMA CommandWritesKeep ==
  ASSUME IInv, NEW r \in Runners, probe' = probe,
         GiveUp(r) \/ WriteObserved(r) \/ WriteApplied(r)
  PROVE  IInv' /\ Written
<1>0. pc[r] \in {"giveup", "observe", "apply"}
  BY Zenon DEF GiveUp, WriteObserved, WriteApplied
<1>1. /\ at[r] \in Versions \ Data /\ at[r] \in 1..(N + 1) /\ N \in Nat
      /\ \A w \in 1..(at[r] - 1) : IsApplied(w)
      /\ ~ HasState(seen[r], at[r], {"applied"})
  BY <1>0, MigrationAssumption, Zenon DEF IInv, TypeOK, LocalOK, HasState
<1>2. pc[r] # "giveup" => at[r] \in schema
  BY <1>0, Zenon DEF IInv, LocalOK
<1>3. CASE GiveUp(r)
  <2>1. Swap(r, "recoverable", "release", at[r]) /\ "recoverable" \in States
    BY <1>3, Zenon DEF GiveUp, States
  <2> QED
    BY <1>0, <1>1, <2>1, SwapKeeps, Zenon
<1>4. CASE WriteObserved(r)
  <2>1. Swap(r, "ddl_observed", "apply", at[r]) /\ "ddl_observed" \in States /\ at[r] \in schema
    BY <1>2, <1>4, Zenon DEF WriteObserved, States
  <2> QED
    BY <1>0, <1>1, <2>1, SwapKeeps, Zenon
<1>5. CASE WriteApplied(r)
  <2>1. Swap(r, "applied", "loop", at[r] + 1) /\ "applied" \in States /\ at[r] \in schema
    BY <1>2, <1>5, Zenon DEF WriteApplied, States
  <2>2. at[r] + 1 \in 1..(N + 1)
    BY <1>1, VersionFacts, Zenon
  <2> QED
    BY <1>0, <1>1, <2>1, <2>2, SwapKeeps, Zenon
<1> QED
  BY <1>3, <1>4, <1>5

\* The schema command and what is found after it.
LEMMA CommandKeeps ==
  ASSUME IInv, NEW r \in Runners, probe' = probe,
         InspectStarted(r) \/ ExecuteDdl(r) \/ ExecuteFails(r)
  PROVE  IInv' /\ Written
<1>0. /\ pc[r] = "loop" /\ at[r] \in Versions \ Data /\ HasState(seen[r], at[r], {"ddl_started"})
      /\ UNCHANGED <<owner, journal, ran>>
  BY Zenon DEF InspectStarted, ExecuteDdl, ExecuteFails, AtRow, Mine, database
<1>1. TypeOK /\ \A w \in 1..(at[r] - 1) : IsApplied(w)
  BY <1>0, LoopFacts, Zenon
<1>2. /\ schema \subseteq schema' /\ schema' \subseteq Versions /\ late' \subseteq Versions
      /\ faults' \in 0..MaxFaults
  BY <1>0, <1>1, MigrationAssumption DEF TypeOK, InspectStarted, ExecuteDdl, ExecuteFails, database
<1>3. PICK p \in {"raised", "giveup", "observe"} :
        GoTo(r, p) /\ (p = "observe" => at[r] \in schema')
  BY Zenon DEF InspectStarted, ExecuteDdl, ExecuteFails, database
<1>4. p \in Places
  BY Zenon DEF Places
<1> QED
  BY <1>0, <1>1, <1>2, <1>3, <1>4, GoToKeeps, Zenon

LEMMA InspectRaisedKeeps ==
  ASSUME IInv, NEW r \in Runners, InspectRaised(r), probe' = probe
  PROVE  IInv' /\ Written
<1>0. /\ TypeOK /\ pc[r] = "raised" /\ UNCHANGED database
      /\ UNCHANGED <<owner, journal, schema, late, ran, faults>>
  BY Zenon DEF IInv, InspectRaised, database
<1>1. /\ faults' \in 0..MaxFaults /\ schema \subseteq schema'
      /\ schema' \subseteq Versions /\ late' \subseteq Versions
  BY <1>0, Zenon DEF TypeOK
<1>2. /\ at[r] \in Versions \ Data /\ HasState(seen[r], at[r], {"ddl_started"})
      /\ \A w \in 1..(at[r] - 1) : IsApplied(w)
  BY <1>0, Zenon DEF IInv, LocalOK
<1>3. CASE Return(r, "hold")
  BY <1>0, <1>1, <1>3, HoldKeeps, Zenon
<1>4. CASE GoTo(r, "giveup")
  <2>1. "giveup" \in Places
    BY Zenon DEF Places
  <2> QED
    BY <1>0, <1>1, <1>2, <1>4, <2>1, GoToKeeps, Zenon
<1> QED
  BY <1>3, <1>4, Zenon DEF InspectRaised

LEMMA ReleaseKeeps ==
  ASSUME IInv, NEW r \in Runners, Release(r), probe' = probe
  PROVE  IInv' /\ Written
<1>0. TypeOK /\ DbInv /\ UNCHANGED <<journal, schema, late, ran, faults>>
  BY Zenon DEF IInv, Release
<1>1. NothingOpen \/ owner' = owner
  BY Zenon DEF Release, ReleaseAllowed
<1>2. DbInv' /\ Grows
  BY <1>0, <1>1, DbOwner, Zenon
<1>3. /\ owner' \in Attempts \cup {NoAttempt} /\ journal' \in Rows /\ ran' \in [Data -> Nat]
      /\ schema' \subseteq Versions /\ late' \subseteq Versions /\ faults' \in 0..MaxFaults
  BY <1>0, Zenon DEF TypeOK, Release
<1>4. PICK status \in {"hold", "recoverable", "clean"} :
        Return(r, status) /\ (status = "clean" => pc[r] = "loop" /\ at[r] = N + 1)
  BY Zenon DEF Release
<1>5. status = "clean" => \A v \in Versions : Applied(v)
  <2> SUFFICES ASSUME pc[r] = "loop", at[r] = N + 1, NEW v \in Versions
               PROVE  Applied(v)
    BY <1>4, Zenon
  <2>1. v \in 1..(at[r] - 1)
    BY MigrationAssumption DEF Versions
  <2>2. IsApplied(v)
    BY <2>1, LoopFacts, Zenon
  <2> QED
    BY <1>0, <2>2, Zenon DEF DbInv, JournalIsTrue, Applied, IsApplied, HasState
<1> QED
  BY <1>0, <1>2, <1>3, <1>4, <1>5, ReturnKeeps, Zenon DEF Written

\* A late command, and the readiness check.
LEMMA RestKeeps ==
  ASSUME IInv, (Land /\ UNCHANGED probe) \/ ProbeOwner \/ ProbeJournal
  PROVE  IInv' /\ Written
<1>0. /\ TypeOK /\ DbInv /\ UNCHANGED <<owner, journal, ran, faults>>
      /\ UNCHANGED <<pc, att, recovery, at, seenOwner, seen, fresh, result>>
      /\ schema \subseteq schema' /\ schema' \subseteq Versions /\ late' \subseteq Versions
  BY Zenon DEF IInv, TypeOK, Land, ProbeOwner, ProbeJournal, database, locals
<1>1. TypeOK'
  BY <1>0, Zenon DEF TypeOK, Land, ProbeOwner, ProbeJournal
<1>2. DbInv' /\ Grows
  BY <1>0, DbStill, Zenon
<1>3. \A q \in Runners : LocalOK(q)'
  BY <1>0, <1>2, OthersKeep, Zenon DEF IInv, Same
<1>4. CleanIsTrue'
  <2> SUFFICES ASSUME probe' = "ready" \/ \E q \in Runners : result'[q] = "clean"
               PROVE  \A v \in Versions : Applied(v)'
    BY Zenon DEF CleanIsTrue
  <2>1. \A v \in Versions : Applied(v)
    BY <1>0, Zenon DEF IInv, CleanIsTrue, ProbeOwner, ProbeJournal
  <2> QED
    BY <1>2, <2>1, AppliedStays, Zenon
<1> QED
  BY <1>0, <1>1, <1>2, <1>3, <1>4, Zenon DEF IInv, Written

-----------------------------------------------------------------------------
LEMMA StepsKeep ==
  ASSUME IInv, NEW r \in Runners, Step(r), probe' = probe
  PROVE  IInv' /\ Written
BY Zenon, ReadKeeps, AcquireKeeps, ResumeKeeps, RecoverKeeps, VerifyKeeps, SkipKeeps, ApplyDataKeeps,
   GivesUpKeeps, LoopWritesKeep, CommandWritesKeep, CommandKeeps, InspectRaisedKeeps, ReleaseKeeps
   DEF Step

LEMMA NextKeeps == IInv /\ [Next]_vars => IInv' /\ (Written \/ UNCHANGED vars)
<1> SUFFICES ASSUME IInv, [Next]_vars
             PROVE  IInv' /\ (Written \/ UNCHANGED vars)
  OBVIOUS
<1>1. CASE UNCHANGED vars
  <2>1. /\ owner' = owner /\ journal' = journal /\ schema' = schema /\ late' = late /\ ran' = ran
        /\ faults' = faults /\ probe' = probe /\ pc' = pc /\ att' = att /\ recovery' = recovery
        /\ at' = at /\ seenOwner' = seenOwner /\ seen' = seen /\ fresh' = fresh /\ result' = result
    BY <1>1, Zenon DEF vars
  <2>2. TypeOK'
    BY <2>1, Zenon DEF IInv, TypeOK
  <2>3. DataRows' /\ JournalIsTrue' /\ DataMigratedOnce'
    BY <2>1, Zenon DEF IInv, DbInv, DataRows, JournalIsTrue, DataMigratedOnce, HasState
  <2>4. InOrder' /\ OpenRowIsOwned' /\ CleanIsTrue'
    BY <2>1, Zenon DEF IInv, DbInv, InOrder, OpenRowIsOwned, CleanIsTrue, Applied, HasState
  <2>5. \A r \in Runners : LocalOK(r)'
    BY <2>1, Zenon DEF IInv, LocalOK, IsApplied, HasState
  <2> QED
    BY <1>1, <2>2, <2>3, <2>4, <2>5, Zenon DEF IInv, DbInv
<1>2. CASE Next
  <2>1. ASSUME NEW r \in Runners, NEW a \in Attempts, NEW b \in Attempts \cup {NoAttempt},
               Start(r, a, b) /\ UNCHANGED probe
        PROVE  IInv' /\ Written
    BY <2>1, StartKeeps, Zenon
  <2>2. ASSUME NEW r \in Runners, (Step(r) \/ Crash(r)) /\ UNCHANGED probe
        PROVE  IInv' /\ Written
    BY <2>2, StepsKeep, GivesUpKeeps, Zenon
  <2> QED
    BY <1>2, <2>1, <2>2, RestKeeps, Zenon DEF Next
<1> QED
  BY <1>1, <1>2, Zenon

\* The journal of apply_migrations can be trusted, for any number of runners,
\* attempts and migrations and any crashes, failed commands and late commands:
\* a row that says so has its constraint, data is migrated once, in order, an
\* open row is its owner's, and a clean run and a ready database are complete.
THEOREM JournalCanBeTrusted == Spec => []JournalInv
<1>1. IInv => JournalInv
  BY Zenon DEF IInv, DbInv, JournalInv
<1> QED
  BY <1>1, InitIInv, NextKeeps, PTL DEF Spec

\* A runner that lost the ownership writes no row, and no row changes once it
\* is applied.
THEOREM LostOwnersDoNotWrite == Spec => OnlyTheOwnerWrites
<1>1. IInv /\ [Next]_vars =>
        [\A v \in Versions : journal'[v] # journal[v] =>
            /\ journal'[v].owner = owner'
            /\ ~ HasState(journal, v, {"applied"})]_vars
  BY NextKeeps, Zenon DEF Written
<1> QED
  BY <1>1, InitIInv, NextKeeps, PTL DEF Spec, OnlyTheOwnerWrites

=============================================================================
