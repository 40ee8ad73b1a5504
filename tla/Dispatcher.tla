------------------------------ MODULE Dispatcher ------------------------------
(***************************************************************************)
(* The dry-run dispatcher of the outbox (events/dispatcher.py): it selects *)
(* the receipts that are due, tries each one and stores the outcome, all   *)
(* in one storage transaction.                                             *)
(*                                                                         *)
(* The in-memory store holds its lock for the whole transaction.  Over     *)
(* Neo4j the selection takes no lock: two dispatchers can select the same  *)
(* receipt, and the one that writes last replaces the outcome of the other *)
(* with the one it computed from its own selection.                        *)
(***************************************************************************)
EXTENDS Integers, FiniteSets

CONSTANTS
    Receipts,
    Dispatchers,  \* concurrent calls of dispatch_due
    MaxAttempts,  \* max_attempts
    Backoff,      \* initial_backoff_seconds, in ticks
    MaxTime,      \* bound: the clock
    MaxTried      \* bound: attempts on one receipt, the lost ones included

\* The powers that multiply the back-off: a fact of arithmetic the provers do not know.
PowersAreNatural == \A n \in 1 .. MaxAttempts : 2 ^ (n - 1) \in Nat

ASSUME DispatcherAssumption ==
    /\ MaxAttempts \in Nat \ {0} /\ Backoff \in Nat /\ MaxTime \in Nat /\ MaxTried \in Nat
    /\ PowersAreNatural

VARIABLES
    serialised, \* the store runs one transaction at a time: fixed by the set-up
    receipt,   \* the stored receipts
    batch,     \* what each open dispatch_due has selected: time and receipts
    now,
    tried      \* history: the attempts made on each receipt, with their outcomes

dispatchVars == <<serialised, receipt, batch, now, tried>>

Statuses == {"pending", "retry_scheduled", "failed", "dispatched_dry_run"}

SettledReceipt == {"failed", "dispatched_dry_run"}

\* due is next_attempt_at; 0 stands for None, as nothing is due before time 0.
Row == [status : Statuses, attempts : Nat, due : Nat]

Closed == [at |-> -1, rows |-> <<>>]

DispatchInit ==
    /\ serialised \in BOOLEAN
    /\ receipt = [r \in Receipts |-> [status |-> "pending", attempts |-> 0, due |-> 0]]
    /\ batch = [d \in Dispatchers |-> Closed]
    /\ now = 0
    /\ tried = [r \in Receipts |-> [made |-> 0, good |-> 0]]

Tick ==
    /\ now < MaxTime
    /\ now' = now + 1
    /\ UNCHANGED <<receipt, batch, tried>>

\* Mutant of Eligible: failed receipts are tried again.
RevivedMut(r) == receipt[r].status # "dispatched_dry_run" /\ receipt[r].due <= now

Eligible(r) == receipt[r].status \notin SettledReceipt /\ receipt[r].due <= now

\* dispatch_due opens its transaction and selects what is due.
Select(d) ==
    /\ batch[d] = Closed
    /\ serialised => \A e \in Dispatchers : batch[e] = Closed
    /\ \A r \in Receipts : tried[r].made < MaxTried
    /\ batch' = [batch EXCEPT ![d] =
                    [at |-> now,
                     rows |-> [r \in {x \in Receipts : Eligible(x)} |-> receipt[r]]]]
    /\ UNCHANGED <<receipt, now, tried>>

\* The exponential back-off after the n-th attempt.
BackoffDelay(n) == Backoff * 2 ^ (n - 1)

\* Mutant of Outcome: the last attempt is given up.
GivenUpMut(row, at, failing) ==
    LET n == row.attempts + 1 IN
    IF ~failing THEN [status |-> "dispatched_dry_run", attempts |-> n, due |-> 0]
    ELSE IF n + 1 >= MaxAttempts THEN [status |-> "failed", attempts |-> n, due |-> 0]
    ELSE [status |-> "retry_scheduled", attempts |-> n, due |-> at + BackoffDelay(n)]

\* What an attempt at time `at' makes of a row.
Outcome(row, at, failing) ==
    LET n == row.attempts + 1 IN
    IF ~failing THEN [status |-> "dispatched_dry_run", attempts |-> n, due |-> 0]
    ELSE IF n >= MaxAttempts THEN [status |-> "failed", attempts |-> n, due |-> 0]
    ELSE [status |-> "retry_scheduled", attempts |-> n, due |-> at + BackoffDelay(n)]

\* One attempt on each selected receipt, without success on those in F.
Try(rows, F) ==
    tried' = [r \in Receipts |->
                 IF r \in DOMAIN rows
                   THEN [made |-> tried[r].made + 1,
                         good |-> tried[r].good + (IF r \in F THEN 0 ELSE 1)]
                   ELSE tried[r]]

\* The outcomes are written and committed together.
Dispatch(d, F) ==
    LET rows == batch[d].rows IN
    /\ batch[d] # Closed
    /\ F \subseteq DOMAIN rows
    /\ Try(rows, F)
    /\ receipt' = [r \in Receipts |-> IF r \in DOMAIN rows
                                        THEN Outcome(rows[r], batch[d].at, r \in F)
                                        ELSE receipt[r]]
    /\ batch' = [batch EXCEPT ![d] = Closed]
    /\ UNCHANGED now

\* The transaction fails (a lost connection, an exception, or a receipt that
\* changed between the re-read and the write): the outcomes are lost.
Rollback(d, F) ==
    LET rows == batch[d].rows IN
    /\ batch[d] # Closed
    /\ F \subseteq DOMAIN rows
    /\ Try(rows, F)
    /\ batch' = [batch EXCEPT ![d] = Closed]
    /\ UNCHANGED <<receipt, now>>

DispatchNext ==
    /\ UNCHANGED serialised
    /\ \/ Tick
       \/ \E d \in Dispatchers :
             \/ Select(d)
             \/ \E F \in SUBSET Receipts : Dispatch(d, F) \/ Rollback(d, F)

DispatchSpec == DispatchInit /\ [][DispatchNext]_dispatchVars

-----------------------------------------------------------------------------
\* The type of the state; the attempt budget holds in every stored row.
DispatchTypeOK ==
    /\ receipt \in [Receipts -> Row]
    /\ \A r \in Receipts : receipt[r].attempts <= MaxAttempts
    /\ \A d \in Dispatchers : \A r \in DOMAIN batch[d].rows : batch[d].rows[r] \in Row
    /\ now \in 0 .. MaxTime /\ serialised \in BOOLEAN

\* "At-least-once": a receipt is settled only on what really happened, whatever
\* transactions fail or overwrite each other: a dispatched one was delivered, a
\* failed one was refused as often as the budget demands.
SettledIsTrue ==
    \A r \in Receipts :
        /\ receipt[r].status = "dispatched_dry_run" => tried[r].good > 0
        /\ receipt[r].status = "failed" => tried[r].made - tried[r].good >= MaxAttempts

\* Over the serialised store a settled receipt is never touched again.
SettledStays ==
    [][\A r \in Receipts :
          serialised /\ receipt[r].status \in SettledReceipt => receipt'[r] = receipt[r]]_dispatchVars

\* A receipt is settled once and truly (EventDispatcher.dispatch_due), whichever dispatchers
\* select it together and whichever of their transactions fail.
SettlesOnce == [](DispatchTypeOK /\ SettledIsTrue) /\ SettledStays
====
