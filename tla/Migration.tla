------------------------------ MODULE Migration ------------------------------
(***************************************************************************)
(* apply_migrations and migration_status over the migration journal kept   *)
(* in the graph: the version 0 row names the owner, the rows 1..N are the  *)
(* journal of the manifest's migrations.                                   *)
(*                                                                         *)
(* Several operators may run the tool at once, under the same or different *)
(* attempt ids, with or without naming an earlier owner to recover from.   *)
(* A run may die anywhere; schema commands are not transactional, may fail *)
(* with or without effect, and may take effect after their caller is gone. *)
(* Each store operation is one statement or transaction of the database.   *)
(***************************************************************************)
EXTENDS Integers, FiniteSets

CONSTANTS
  Runners,    \* processes running scripts/devgraph_migrate.py or local_host
  Attempts,   \* attempt ids
  N,          \* number of migrations in the manifest
  Data,       \* the versions that are transactional_data; the rest are schema_ddl
  NoAttempt,  \* owner_attempt_id IS NULL; no recovery asked for
  NoRecord,   \* no journal row of this version
  MaxFaults   \* bound: crashes, failed commands and late commands

ASSUME MigrationAssumption ==
  /\ N \in Nat \ {0} /\ Data \subseteq 1..N
  /\ NoAttempt \notin Attempts
  /\ MaxFaults \in Nat

VARIABLES
  owner,     \* owner_attempt_id of the version 0 row
  journal,   \* the journal rows
  schema,    \* versions whose constraint exists
  late,      \* versions whose failed command may still take effect
  ran,       \* history: how often the data of a version was migrated
  faults,    \* faults so far
  probe,     \* where a readiness check is, or its last answer
  pc, att, recovery, at, seenOwner, seen, fresh, result
             \* of each runner: program counter, attempt_id,
             \* recovery_owner_attempt_id, the loop's version, the owner and
             \* the journal it read, whether it wrote ddl_started itself, and
             \* whether it returned clean

database == <<owner, journal, schema, late, ran>>
locals == <<pc, att, recovery, at, seenOwner, seen, fresh, result>>
vars == <<owner, journal, schema, late, ran, faults, probe,
          pc, att, recovery, at, seenOwner, seen, fresh, result>>

Versions == 1..N
States == {"pending", "ddl_started", "ddl_observed", "applied", "recoverable"}
Records == [state : States, owner : Attempts]

ASSUME RecordAssumption == NoRecord \notin Records

\* MigrationJournal, without the fields every record of a version shares.  The
\* time stamps compare_and_set_journal also compares are left out: the model's
\* comparison succeeds whenever the code's does.
Record(s, a) == [state |-> s, owner |-> a]

Settled == {"applied", "recoverable"}
HasState(j, v, S) == j[v] # NoRecord /\ j[v].state \in S

\* NOT EXISTS a journal row that is neither applied nor recoverable.
NothingOpen == \A v \in Versions : journal[v] # NoRecord => journal[v].state \in Settled

-----------------------------------------------------------------------------
Init ==
  /\ owner = NoAttempt
  /\ journal = [v \in Versions |-> NoRecord]
  /\ schema = {} /\ late = {}
  /\ ran = [v \in Data |-> 0]
  /\ faults = 0
  /\ probe = "notready"
  /\ pc = [r \in Runners |-> "idle"]
  /\ att = [r \in Runners |-> NoAttempt]
  /\ recovery = [r \in Runners |-> NoAttempt]
  /\ at = [r \in Runners |-> 1]
  /\ seenOwner = [r \in Runners |-> NoAttempt]
  /\ seen = [r \in Runners |-> [v \in Versions |-> NoRecord]]
  /\ fresh = [r \in Runners |-> FALSE]
  /\ result = [r \in Runners |-> "none"]

\* The runner returns; what it had read is gone.  No property tells the other
\* statuses, "hold" and "recoverable", from not having returned.
Return(r, status) ==
  /\ pc' = [pc EXCEPT ![r] = "idle"]
  /\ result' = [result EXCEPT ![r] = IF status = "clean" THEN "clean" ELSE "none"]
  /\ at' = [at EXCEPT ![r] = 1]
  /\ seenOwner' = [seenOwner EXCEPT ![r] = NoAttempt]
  /\ seen' = [seen EXCEPT ![r] = [v \in Versions |-> NoRecord]]
  /\ fresh' = [fresh EXCEPT ![r] = FALSE]
  /\ att' = [att EXCEPT ![r] = NoAttempt]
  /\ recovery' = [recovery EXCEPT ![r] = NoAttempt]

GoTo(r, p) ==
  /\ pc' = [pc EXCEPT ![r] = p]
  /\ UNCHANGED <<att, recovery, at, seenOwner, seen, fresh, result>>

\* The ownership was taken: what the decision was based on is not used again.
Decided(r) ==
  /\ pc' = [pc EXCEPT ![r] = "verify"]
  /\ seenOwner' = [seenOwner EXCEPT ![r] = NoAttempt]
  /\ seen' = [seen EXCEPT ![r] = [v \in Versions |-> NoRecord]]
  /\ recovery' = [recovery EXCEPT ![r] = NoAttempt]
  /\ UNCHANGED <<att, at, fresh, result>>

Start(r, a, b) ==
  /\ pc[r] = "idle"
  /\ pc' = [pc EXCEPT ![r] = "owner"]
  /\ att' = [att EXCEPT ![r] = a]
  /\ recovery' = [recovery EXCEPT ![r] = b]
  /\ result' = [result EXCEPT ![r] = "none"]
  /\ UNCHANGED <<database, faults, at, seenOwner, seen, fresh>>

\* The bootstrap constraint exists from here on; inspect_owner.
ReadOwner(r) ==
  /\ pc[r] = "owner"
  /\ pc' = [pc EXCEPT ![r] = "journal"]
  /\ seenOwner' = [seenOwner EXCEPT ![r] = owner]
  /\ UNCHANGED <<database, faults, att, recovery, at, seen, fresh, result>>

\* _read_journal, before ownership and again after it.
ReadJournal(r) ==
  /\ pc[r] \in {"journal", "reread"}
  /\ pc' = [pc EXCEPT ![r] = IF pc[r] = "journal" THEN "decide" ELSE "loop"]
  /\ seen' = [seen EXCEPT ![r] = journal]
  /\ at' = [at EXCEPT ![r] = 1]
  /\ UNCHANGED <<database, faults, att, recovery, seenOwner, fresh, result>>

\* The owner it read was nobody: refuse a journal another attempt left open,
\* else acquire_owner, one conditional statement.
Acquire(r) ==
  /\ pc[r] = "decide" /\ seenOwner[r] = NoAttempt
  /\ LET foreign == \E v \in Versions :
                      /\ seen[r][v] # NoRecord
                      /\ seen[r][v].state \notin Settled /\ seen[r][v].owner # att[r]
         free == owner \in {NoAttempt, att[r]}
     IN \/ /\ ~ foreign /\ free
           /\ owner' = att[r]
           /\ Decided(r)
        \/ /\ foreign \/ ~ free
           /\ owner' = owner
           /\ Return(r, "hold")
  /\ UNCHANGED <<journal, schema, late, ran, faults>>

\* It is the owner already: a resumed attempt.
Resume(r) ==
  /\ pc[r] = "decide" /\ seenOwner[r] = att[r]
  /\ Decided(r)
  /\ UNCHANGED <<database, faults>>

\* The one ddl_started record that changes hands with the ownership.
Adopted(r) == {v \in Versions : seen[r][v] = Record("ddl_started", seenOwner[r])}

\* The journal the runner read is fit for recovery: one command of the old owner
\* was under way and all else is applied, or nothing was under way.
Recoverable(r) ==
  \/ /\ Cardinality(Adopted(r)) = 1
     /\ \A v \in Versions :
          seen[r][v] # NoRecord => seen[r][v].state \in {"applied", "ddl_started"}
  \/ /\ Adopted(r) = {}
     /\ \A v \in Versions : seen[r][v] # NoRecord => seen[r][v].state \in Settled

\* recover_owner's conditions, in the statement that changes the owner.
RecoverAllowed(r) ==
  /\ owner = seenOwner[r]
  /\ IF Adopted(r) = {} THEN NothingOpen
     ELSE \A v \in Adopted(r) : journal[v] = seen[r][v]

\* Another attempt is the owner: only an explicit recovery from exactly that
\* owner goes on, with the one record that was under way.
Recover(r) ==
  /\ pc[r] = "decide" /\ seenOwner[r] \notin {NoAttempt, att[r]}
  /\ \/ /\ recovery[r] = seenOwner[r] /\ Recoverable(r) /\ RecoverAllowed(r)
        /\ owner' = att[r]
        /\ journal' = [v \in Versions |->
             IF v \in Adopted(r) THEN Record("ddl_started", att[r]) ELSE journal[v]]
        /\ Decided(r)
     \/ /\ ~ (recovery[r] = seenOwner[r] /\ Recoverable(r) /\ RecoverAllowed(r))
        /\ Return(r, "hold")
        /\ UNCHANGED <<owner, journal>>
  /\ UNCHANGED <<schema, late, ran, faults>>

\* inspect_owner after the ownership changed.
Verify(r) ==
  /\ pc[r] = "verify"
  /\ \/ owner = att[r] /\ GoTo(r, "reread")
     \/ owner # att[r] /\ Return(r, "hold")
  /\ UNCHANGED <<database, faults>>

-----------------------------------------------------------------------------
\* Mutant of Owns: compare_and_set_journal does not match the owner row.
OwnsAnything(r) == TRUE

\* The owner row every journal write matches on.
Owns(r) == owner = att[r]

Unchanged(r) == journal[at[r]] = seen[r][at[r]]

\* compare_and_set_journal: the row goes from what the runner read to state s.
Swap(r, s, p, v) ==
  /\ \/ /\ Owns(r) /\ Unchanged(r)
        /\ journal' = [journal EXCEPT ![at[r]] = Record(s, att[r])]
        /\ seen' = [seen EXCEPT ![r][at[r]] = Record(s, att[r])]
        /\ pc' = [pc EXCEPT ![r] = p]
        /\ at' = [at EXCEPT ![r] = v]
        /\ fresh' = [fresh EXCEPT ![r] = (s = "ddl_started")]
        /\ UNCHANGED <<att, recovery, seenOwner, result>>
     \/ /\ ~ (Owns(r) /\ Unchanged(r))
        /\ Return(r, "hold")
        /\ UNCHANGED journal
  /\ UNCHANGED <<owner, schema, late, ran, faults>>

\* The runner is at a migration whose row, as it read it, has one of these states.
AtRow(r, S) ==
  /\ pc[r] = "loop" /\ at[r] \in Versions
  /\ HasState(seen[r], at[r], S)

Mine(r) == seen[r][at[r]].owner = att[r] /\ at[r] \notin Data

AtGap(r) == pc[r] = "loop" /\ at[r] \in Versions /\ seen[r][at[r]] = NoRecord

\* An applied schema migration must still have its constraint.
SkipApplied(r) ==
  /\ AtRow(r, {"applied"})
  /\ IF at[r] \in Data \cup schema
     THEN /\ at' = [at EXCEPT ![r] = @ + 1]
          /\ UNCHANGED <<pc, att, recovery, seenOwner, seen, fresh, result>>
     ELSE Return(r, "hold")
  /\ UNCHANGED <<database, faults>>

\* The statement that writes the marker of a data migration matches all of this.
DataAllowed(r) ==
  /\ Owns(r)
  /\ journal[at[r]] = NoRecord
  /\ \A v \in 1..(at[r] - 1) : HasState(journal, v, {"applied"})

\* apply_transactional_data: the data and the marker in one transaction.
ApplyData(r) ==
  /\ AtGap(r) /\ at[r] \in Data
  /\ DataAllowed(r)
  /\ ran' = [ran EXCEPT ![at[r]] = @ + 1]
  /\ journal' = [journal EXCEPT ![at[r]] = Record("applied", att[r])]
  /\ GoTo(r, "refresh")
  /\ UNCHANGED <<owner, schema, late, faults>>

\* Preflight refuses the data, or the marker statement matches nothing.
DataFails(r) ==
  /\ AtGap(r) /\ at[r] \in Data
  /\ \/ ~ DataAllowed(r) /\ faults' = faults
     \/ faults < MaxFaults /\ faults' = faults + 1
  /\ Return(r, "hold")
  /\ UNCHANGED database

\* The journal is read again after a data migration.
Refresh(r) ==
  /\ pc[r] = "refresh"
  /\ IF HasState(journal, at[r], {"applied"})
     THEN /\ seen' = [seen EXCEPT ![r] = journal]
          /\ at' = [at EXCEPT ![r] = @ + 1]
          /\ pc' = [pc EXCEPT ![r] = "loop"]
          /\ UNCHANGED <<att, recovery, seenOwner, fresh, result>>
     ELSE Return(r, "hold")
  /\ UNCHANGED <<database, faults>>

\* A row of another attempt, or a data migration's row that is not applied.
ForeignRow(r) ==
  /\ AtRow(r, {"pending", "ddl_started", "ddl_observed"}) /\ ~ Mine(r)
  /\ Return(r, "hold")
  /\ UNCHANGED <<database, faults>>

\* A new row, or one given up earlier by this or another attempt.
WritePending(r) ==
  /\ (AtGap(r) /\ at[r] \notin Data) \/ AtRow(r, {"recoverable"})
  /\ Swap(r, "pending", "loop", at[r])

WriteStarted(r) ==
  /\ AtRow(r, {"pending"}) /\ Mine(r)
  /\ Swap(r, "ddl_started", "loop", at[r])

\* ddl_observed by an earlier run of this attempt: inspect, then applied.
FinishObserved(r) ==
  /\ AtRow(r, {"ddl_observed"}) /\ Mine(r)
  /\ IF at[r] \in schema
     THEN Swap(r, "applied", "loop", at[r] + 1)
     ELSE Return(r, "hold") /\ UNCHANGED <<database, faults>>

\* Mutant of InspectStarted: a missing constraint is left to the operator.
InspectStartedHolds(r) ==
  /\ AtRow(r, {"ddl_started"}) /\ Mine(r) /\ ~ fresh[r]
  /\ IF at[r] \in schema THEN GoTo(r, "observe") ELSE Return(r, "hold")
  /\ UNCHANGED <<database, faults>>

\* ddl_started by an earlier run: the constraint tells whether it took effect.
InspectStarted(r) ==
  /\ AtRow(r, {"ddl_started"}) /\ Mine(r) /\ ~ fresh[r]
  /\ GoTo(r, IF at[r] \in schema THEN "observe" ELSE "giveup")
  /\ UNCHANGED <<database, faults>>

ExecuteDdl(r) ==
  /\ AtRow(r, {"ddl_started"}) /\ Mine(r) /\ fresh[r]
  /\ schema' = schema \cup {at[r]}
  /\ GoTo(r, "observe")
  /\ UNCHANGED <<owner, journal, late, ran, faults>>

\* The command raises: it had no effect, or its effect, or will have it later.
ExecuteFails(r) ==
  /\ AtRow(r, {"ddl_started"}) /\ Mine(r) /\ fresh[r]
  /\ faults < MaxFaults /\ faults' = faults + 1
  /\ \/ schema' = schema /\ late' \in {late, late \cup {at[r]}}
     \/ schema' = schema \cup {at[r]} /\ late' = late
  /\ GoTo(r, "raised")
  /\ UNCHANGED <<owner, journal, ran>>

\* Mutant of InspectRaised: a raised command counts as executed.
RaisedIgnored(r) ==
  /\ pc[r] = "raised"
  /\ GoTo(r, "observe")
  /\ UNCHANGED <<database, faults>>

\* The handler inspects: an existing constraint is ambiguous and left alone.
InspectRaised(r) ==
  /\ pc[r] = "raised"
  /\ \/ at[r] \in schema /\ Return(r, "hold")
     \/ at[r] \notin schema /\ GoTo(r, "giveup")
  /\ UNCHANGED <<database, faults>>

GiveUp(r) == pc[r] = "giveup" /\ Swap(r, "recoverable", "release", at[r])

WriteObserved(r) == pc[r] = "observe" /\ Swap(r, "ddl_observed", "apply", at[r])

WriteApplied(r) == pc[r] = "apply" /\ Swap(r, "applied", "loop", at[r] + 1)

\* release_owner refuses while a row is open.
ReleaseAllowed(r) == Owns(r) /\ NothingOpen

\* The end of the loop, or of a migration that was given up.
Release(r) ==
  /\ pc[r] = "release" \/ (pc[r] = "loop" /\ at[r] = N + 1)
  /\ \/ /\ ReleaseAllowed(r)
        /\ owner' = NoAttempt
        /\ Return(r, IF pc[r] = "release" THEN "recoverable" ELSE "clean")
     \/ /\ ~ ReleaseAllowed(r)
        /\ owner' = owner
        /\ Return(r, "hold")
  /\ UNCHANGED <<journal, schema, late, ran, faults>>

\* The process dies, or a store operation raises before or after its effect.
Crash(r) ==
  /\ pc[r] # "idle" /\ faults < MaxFaults
  /\ faults' = faults + 1
  /\ Return(r, "hold")
  /\ UNCHANGED database

\* A command whose caller gave up takes effect.
Land ==
  /\ \E v \in late : schema' = schema \cup {v} /\ late' = late \ {v}
  /\ UNCHANGED <<owner, journal, ran, faults, locals>>

Applied(v) == HasState(journal, v, {"applied"}) /\ v \in Data \cup schema

\* migration_status reads the owner, and later the journal and the constraints;
\* it writes nothing.
ProbeOwner ==
  /\ probe # "clean"
  /\ probe' = IF owner = NoAttempt THEN "clean" ELSE "notready"
  /\ UNCHANGED <<database, faults, locals>>

ProbeJournal ==
  /\ probe = "clean"
  /\ probe' = IF \A v \in Versions : Applied(v) THEN "ready" ELSE "notready"
  /\ UNCHANGED <<database, faults, locals>>

Step(r) ==
  \/ ReadOwner(r) \/ ReadJournal(r) \/ Acquire(r) \/ Resume(r) \/ Recover(r) \/ Verify(r)
  \/ SkipApplied(r) \/ ApplyData(r) \/ DataFails(r) \/ Refresh(r) \/ ForeignRow(r)
  \/ WritePending(r) \/ WriteStarted(r) \/ FinishObserved(r) \/ InspectStarted(r)
  \/ ExecuteDdl(r) \/ ExecuteFails(r) \/ InspectRaised(r)
  \/ GiveUp(r) \/ WriteObserved(r) \/ WriteApplied(r) \/ Release(r)

Next ==
  \/ \E r \in Runners :
       \/ \E a \in Attempts, b \in Attempts \cup {NoAttempt} :
            Start(r, a, b) /\ UNCHANGED probe
       \/ (Step(r) \/ Crash(r)) /\ UNCHANGED probe
  \/ Land /\ UNCHANGED probe
  \/ ProbeOwner \/ ProbeJournal

Spec == Init /\ [][Next]_vars

\* An operator who goes on retrying under the attempt id that holds the
\* ownership, or under any when nobody does; started runs keep running.
Retry(r) ==
  \E a \in Attempts : owner \in {NoAttempt, a} /\ Start(r, a, NoAttempt) /\ UNCHANGED probe

Fairness == \A r \in Runners : WF_vars(Step(r) /\ UNCHANGED probe)

-----------------------------------------------------------------------------
Places ==
  {"idle", "owner", "journal", "decide", "verify", "reread", "loop", "refresh",
   "raised", "giveup", "observe", "apply", "release"}

Rows == [Versions -> Records \cup {NoRecord}]

TypeOK ==
  /\ owner \in Attempts \cup {NoAttempt}
  /\ journal \in Rows
  /\ schema \subseteq Versions /\ late \subseteq Versions
  /\ ran \in [Data -> Nat]
  /\ faults \in 0..MaxFaults
  /\ probe \in {"notready", "clean", "ready"}
  /\ pc \in [Runners -> Places]
  /\ att \in [Runners -> Attempts \cup {NoAttempt}]
  /\ recovery \in [Runners -> Attempts \cup {NoAttempt}]
  /\ at \in [Runners -> 1..(N + 1)]
  /\ seenOwner \in [Runners -> Attempts \cup {NoAttempt}]
  /\ seen \in [Runners -> Rows]
  /\ fresh \in [Runners -> BOOLEAN]
  /\ result \in [Runners -> {"none", "clean"}]

\* A schema row that says ddl_observed or applied has its constraint, whatever
\* runs crashed, raced or were taken over on the way there.
JournalIsTrue ==
  \A v \in Versions \ Data : HasState(journal, v, {"ddl_observed", "applied"}) => v \in schema

\* The data of a version was migrated exactly as often as its row says: once,
\* or never.
DataMigratedOnce ==
  \A v \in Data : ran[v] = IF journal[v] = NoRecord THEN 0 ELSE 1

\* Migrations are applied in order: a row exists only when every earlier one is
\* applied, so at most one row is ever open.
InOrder ==
  \A v \in Versions : journal[v] # NoRecord =>
     \A w \in 1..(v - 1) : HasState(journal, w, {"applied"})

\* An open row belongs to the owner; with no owner nothing is open.
OpenRowIsOwned ==
  \A v \in Versions : HasState(journal, v, States \ Settled) => journal[v].owner = owner

\* A run that returned clean, and a readiness check that found the database
\* ready, are right, whoever else was running between their reads: every
\* migration is applied and every constraint in place, and stays so.
CleanIsTrue ==
  probe = "ready" \/ (\E r \in Runners : result[r] = "clean")
    => \A v \in Versions : Applied(v)

\* The journal can be trusted: the five parts above together.
JournalInv ==
  TypeOK /\ JournalIsTrue /\ DataMigratedOnce /\ InOrder /\ OpenRowIsOwned /\ CleanIsTrue

\* A run that lost the ownership writes no row any more: a row only ever changes
\* to one of the attempt that owns the journal then, and never once applied.
OnlyTheOwnerWrites ==
  [][\A v \in Versions : journal'[v] # journal[v] =>
        /\ journal'[v].owner = owner'
        /\ ~ HasState(journal, v, {"applied"})]_vars

\* One operator who retries under the owning attempt finishes, however runs
\* crashed and commands failed before, and the ownership is given back.
Completes ==
  /\ <>[](\A v \in Versions : HasState(journal, v, {"applied"}))
  /\ []<>(owner = NoAttempt)
=============================================================================
