------------------------ MODULE MaintenanceMonitor ------------------------
(***************************************************************************)
(* The monitor beside the maintenance jobs (ops/local_maintenance.py,      *)
(* monitor): every five minutes it reads the records, tries the lock,      *)
(* probes the API and writes the alerts it found to status.json.           *)
(***************************************************************************)
EXTENDS Maintenance

VARIABLES
  mon,          \* the monitor's place and what it has read
  status        \* the alert codes of status.json

Quiet == [pc |-> "idle"]

MonitorInit == Init /\ mon = Quiet /\ status = {}

Locked == \E j \in Jobs : job[j] # NoJob

\* Both records are read before the lock is tried.
MonitorReads ==
  /\ mon.pc = "idle"
  /\ mon' = [pc |-> "lock", last |-> lastBackup, failed |-> ~result.successful]
  /\ UNCHANGED <<vars, status>>

\* flock with LOCK_SH | LOCK_NB: refused while a job holds the lock, otherwise
\* taken and given back.
MonitorLocks ==
  /\ mon.pc = "lock"
  /\ mon' = IF Locked THEN [mon EXCEPT !.pc = "probe"] @@ [held |-> TRUE]
                      ELSE [mon EXCEPT !.pc = "shared"]
  /\ UNCHANGED <<vars, status>>

MonitorUnlocks ==
  /\ mon.pc = "shared"
  /\ mon' = [mon EXCEPT !.pc = "probe"] @@ [held |-> FALSE]
  /\ UNCHANGED <<vars, status>>

\* evaluate_alerts, on the readiness seen now and the manifest of the last backup.
Alerts ==
  {c \in {"readiness_failed", "backup_failed", "backup_stale"} :
     \/ c = "readiness_failed" /\ ~mon.held /\ ~Healthy
     \/ c = "backup_failed" /\ ~mon.held /\ mon.failed
     \/ c = "backup_stale" /\ (mon.last \in BackupIds => ~Written(backups[mon.last]))}

MonitorReports ==
  /\ mon.pc = "probe"
  /\ status' = Alerts
  /\ mon' = Quiet
  /\ UNCHANGED vars

\* While the monitor shares the lock no job can take it.
Maintain ==
  /\ Next
  /\ mon.pc = "shared" => \A j \in Jobs : job[j] = NoJob => job'[j] = NoJob
  /\ UNCHANGED <<mon, status>>

MonitorNext == Maintain \/ MonitorReads \/ MonitorLocks \/ MonitorUnlocks \/ MonitorReports

MonitorSpec == MonitorInit /\ [][MonitorNext]_<<vars, mon, status>>

\* The services are down because a backup, which still holds the lock, stopped
\* them.
ExpectedDowntime ==
  \E j \in Jobs : job[j].pc \in {"exit", "dump", "manifest", "point", "recover", "readmit"}

\* "Expected brief backup downtime is suppressed while the lock is held": the
\* monitor does not report the readiness of services a backup has stopped.
DowntimeIsSuppressed ==
  [][ExpectedDowntime /\ status' # status => "readiness_failed" \notin status']_<<vars, mon, status>>
=============================================================================
