--------------------------- MODULE FileRetention ---------------------------
(***************************************************************************)
(* The rows that governed_files has for one path of one user, the reports  *)
(* of the scanner in the user's pod, and the daily clean-up under its lock.*)
(* (routers/file_governance.py, _run_file_ttl_cleanup and the locks of     *)
(* core/scheduler.py and core/redis_client.py of the auth-gateway.)        *)
(***************************************************************************)
EXTENDS Naturals, Sequences, FiniteSets

CONSTANTS
  FrReplica,      \* replicas; each runs the clean-up
  FrScan,         \* reports that can be under way at a time
  MaxReports,     \* bound: reports
  MaxCleanups,    \* bound: clean-ups
  MaxRedisFaults  \* bound: calls that Redis does not answer

ASSUME RetentionAssumption ==
  /\ MaxReports \in Nat /\ MaxCleanups \in Nat /\ MaxRedisFaults \in Nat
  /\ "none" \notin FrReplica

VARIABLES
  governed,      \* the rows, oldest first
  redisLock, \* lock:file_ttl_cleanup in Redis: the replica in it, or none
  ownLock,   \* the lock that each replica keeps in its memory
  cleanup,   \* the clean-up of each replica
  report,    \* the reports under way
  frLog      \* history: counts against the bounds; whether clean-ups, reports, or a report and
             \* a clean-up overlapped; expiries and their records, per row

frVars == <<governed, redisLock, ownLock, cleanup, report, frLog>>

Unlocked == "none"
MaxRows == MaxReports
FileRow == [status : {"active", "expired"}, due : BOOLEAN]
NoReport == [busy |-> FALSE, row |-> 0, saw |-> "active"]
NoCleanup == [pc |-> "idle", via |-> "redis", lapsed |-> FALSE, seen |-> {}]

FrInit ==
  /\ governed = <<>>
  /\ redisLock = Unlocked
  /\ ownLock = [r \in FrReplica |-> FALSE]
  /\ cleanup = [r \in FrReplica |-> NoCleanup]
  /\ report = [h \in FrScan |-> NoReport]
  /\ frLog = [reports |-> 0, cleanups |-> 0, faults |-> 0, twoJobs |-> FALSE,
              twoReports |-> FALSE, crossed |-> FALSE,
              dues |-> [i \in 1..MaxRows |-> 0], records |-> [i \in 1..MaxRows |-> 0]]

Cleaning(r) == cleanup[r].pc # "idle"

-----------------------------------------------------------------------------
(* The lock *)

\* The clean-up starts, with the lock from Redis or, when that does not answer, from memory.
EnterJob(r, via) ==
  /\ cleanup' = [cleanup EXCEPT ![r] = [NoCleanup EXCEPT !.pc = "locked", !.via = via]]
  /\ frLog' = [frLog EXCEPT
       !.cleanups = @ + 1,
       !.faults = IF via = "memory" THEN @ + 1 ELSE @,
       !.twoJobs = @ \/ \E q \in FrReplica : Cleaning(q),
       !.crossed = @ \/ \E h \in FrScan : report[h].busy]

DueNow(r) == cleanup[r].pc = "idle" /\ frLog.cleanups < MaxCleanups

\* A clean-up that finds the lock taken waits for the next day.
TakeRedisLock(r) ==
  /\ DueNow(r) /\ redisLock = Unlocked
  /\ redisLock' = r
  /\ EnterJob(r, "redis")
  /\ UNCHANGED <<governed, ownLock, report>>

\* Redis does not answer, whether or not it has set the lock.
TakeOwnLock(r) ==
  /\ DueNow(r) /\ frLog.faults < MaxRedisFaults
  /\ ~ownLock[r]
  /\ ownLock' = [ownLock EXCEPT ![r] = TRUE]
  /\ redisLock' \in {redisLock, IF redisLock = Unlocked THEN r ELSE redisLock}
  /\ EnterJob(r, "memory")
  /\ UNCHANGED <<governed, report>>

\* Five minutes pass: locks expire, under a running clean-up too.
RedisLockExpires ==
  /\ redisLock # Unlocked
  /\ cleanup' = [cleanup EXCEPT ![redisLock].lapsed = cleanup[redisLock].pc # "idle"]
  /\ redisLock' = Unlocked
  /\ UNCHANGED <<governed, ownLock, report, frLog>>

OwnLockExpires(r) ==
  /\ ownLock[r]
  /\ ownLock' = [ownLock EXCEPT ![r] = FALSE]
  /\ UNCHANGED <<governed, redisLock, cleanup, report, frLog>>

LeaveJob(r) == cleanup' = [cleanup EXCEPT ![r] = NoCleanup]

\* The script deletes the lock only when the replica is in it.  A lock taken from memory stays
\* in memory until it expires.
ReleaseRedisLock(r) ==
  /\ cleanup[r].pc = "written"
  /\ redisLock' = IF redisLock = r THEN Unlocked ELSE redisLock
  /\ LeaveJob(r)
  /\ UNCHANGED <<governed, ownLock, report, frLog>>

\* Redis does not answer: the lock in memory is released, the one in Redis has to expire.
ReleaseOwnLock(r) ==
  /\ cleanup[r].pc = "written" /\ frLog.faults < MaxRedisFaults
  /\ ownLock' = [ownLock EXCEPT ![r] = FALSE]
  /\ frLog' = [frLog EXCEPT !.faults = @ + 1]
  /\ LeaveJob(r)
  /\ UNCHANGED <<governed, redisLock, report>>

-----------------------------------------------------------------------------
(* The clean-up *)

ListDue(r) ==
  /\ cleanup[r].pc = "locked"
  /\ cleanup' = [cleanup EXCEPT ![r] =
       [@ EXCEPT !.pc = "listed",
                 !.seen = {i \in DOMAIN governed :
                             governed[i].due /\ governed[i].status = "active"}]]
  /\ UNCHANGED <<governed, redisLock, ownLock, report, frLog>>

\* Every row listed expires and gets an audit record.
WriteExpired(r) ==
  LET seen == cleanup[r].seen IN
  /\ cleanup[r].pc = "listed"
  /\ governed' = [i \in DOMAIN governed |->
                IF i \in seen THEN [governed[i] EXCEPT !.status = "expired"] ELSE governed[i]]
  /\ frLog' = [frLog EXCEPT !.records = [i \in 1..MaxRows |->
                 frLog.records[i] + IF i \in seen THEN 1 ELSE 0]]
  /\ cleanup' = [cleanup EXCEPT ![r].pc = "written"]
  /\ UNCHANGED <<redisLock, ownLock, report>>

\* The transaction fails; the lock is released all the same.
CleanupFails(r) ==
  /\ cleanup[r].pc \in {"locked", "listed"}
  /\ cleanup' = [cleanup EXCEPT ![r].pc = "written"]
  /\ UNCHANGED <<governed, redisLock, ownLock, report, frLog>>

\* The replica restarts: its lock in memory is gone, its lock in Redis stays.
CleanerDies(r) ==
  /\ Cleaning(r)
  /\ LeaveJob(r)
  /\ ownLock' = [ownLock EXCEPT ![r] = FALSE]
  /\ UNCHANGED <<governed, redisLock, report, frLog>>

-----------------------------------------------------------------------------
(* The scanner's reports *)

\* The first row of the path is taken, whichever the database returns; 0 if there is none.
BeginReport(h) ==
  /\ ~report[h].busy /\ frLog.reports < MaxReports
  /\ \E i \in IF governed = <<>> THEN {0} ELSE DOMAIN governed :
       report' = [report EXCEPT ![h] =
         [busy |-> TRUE, row |-> i, saw |-> IF i = 0 THEN "active" ELSE governed[i].status]]
  /\ frLog' = [frLog EXCEPT
       !.reports = @ + 1,
       !.twoReports = @ \/ \E k \in FrScan : report[k].busy,
       !.crossed = @ \/ \E r \in FrReplica : Cleaning(r)]
  /\ UNCHANGED <<governed, redisLock, ownLock, cleanup>>

\* Mutant of CommitReport: a known row keeps its status.
CommitReportUnrevived(h) ==
  LET w == report[h] IN
  /\ w.busy
  /\ governed' = IF w.row = 0 THEN Append(governed, [status |-> "active", due |-> FALSE])
             ELSE [governed EXCEPT ![w.row] = [@ EXCEPT !.due = FALSE]]
  /\ report' = [report EXCEPT ![h] = NoReport]
  /\ UNCHANGED <<redisLock, ownLock, cleanup, frLog>>

\* The row gets a new expiry and becomes active; "active" is written only over what was read
\* to be something else.
CommitReport(h) ==
  LET w == report[h] IN
  /\ w.busy
  /\ governed' = IF w.row = 0 THEN Append(governed, [status |-> "active", due |-> FALSE])
             ELSE [governed EXCEPT ![w.row] =
                     [status |-> IF w.saw = "expired" THEN "active" ELSE @.status,
                      due |-> FALSE]]
  /\ report' = [report EXCEPT ![h] = NoReport]
  /\ UNCHANGED <<redisLock, ownLock, cleanup, frLog>>

\* A row's time comes: after 7 or 30 days, as the file is sensitive or not.
FallsDue(i) ==
  /\ ~governed[i].due
  /\ governed' = [governed EXCEPT ![i].due = TRUE]
  /\ frLog' = [frLog EXCEPT !.dues[i] = @ + 1]
  /\ UNCHANGED <<redisLock, ownLock, cleanup, report>>

FrNext ==
  \/ \E r \in FrReplica :
       \/ TakeRedisLock(r) \/ TakeOwnLock(r) \/ OwnLockExpires(r)
       \/ ListDue(r) \/ WriteExpired(r) \/ CleanupFails(r)
       \/ ReleaseRedisLock(r) \/ ReleaseOwnLock(r) \/ CleanerDies(r)
  \/ RedisLockExpires
  \/ \E h \in FrScan : BeginReport(h) \/ CommitReport(h)
  \/ \E i \in DOMAIN governed : FallsDue(i)

FrSpec == FrInit /\ [][FrNext]_frVars

-----------------------------------------------------------------------------
(* Properties *)

\* The type invariant.
FrTypeOK ==
  /\ governed \in Seq(FileRow) /\ Len(governed) <= MaxRows
  /\ redisLock \in FrReplica \cup {Unlocked}
  /\ ownLock \in [FrReplica -> BOOLEAN]
  /\ cleanup \in [FrReplica -> [pc : {"idle", "locked", "listed", "written"},
                    via : {"redis", "memory"}, lapsed : BOOLEAN, seen : SUBSET (1..MaxRows)]]
  /\ report \in [FrScan -> [busy : BOOLEAN, row : 0..MaxRows, saw : {"active", "expired"}]]
  /\ frLog.reports \in 0..MaxReports /\ frLog.cleanups \in 0..MaxCleanups
  /\ frLog.faults \in 0..MaxRedisFaults

\* A clean-up that holds the lock of Redis keeps it until it expires: no other replica takes
\* it, and none deletes it, not even one whose own lock has expired in the meantime.
LockIsOwn ==
  \A r \in FrReplica :
    Cleaning(r) /\ cleanup[r].via = "redis" /\ ~cleanup[r].lapsed => redisLock = r

\* While clean-ups do not overlap every expiry of a row has one audit record at most.  They
\* overlap when Redis fails one of them, or when the lock expires under one.
ExpiredOnce ==
  ~frLog.twoJobs => \A i \in 1..MaxRows : frLog.records[i] <= frLog.dues[i]

\* A row that a report has just renewed is active, unless the report and a clean-up overlapped:
\* the clean-up then expires what it had listed before.
RenewedIsActive ==
  ~frLog.crossed /\ ~frLog.twoReports =>
    \A i \in DOMAIN governed : governed[i].status = "expired" => governed[i].due

\* A path has one row, unless two of its reports overlapped.
OneRowPerPath == ~frLog.twoReports => Len(governed) <= 1

\* The clean-up keeps its lock, and, apart from the overlaps that the parts name, a path has one
\* row, which is active after a report, and each of its expiries is recorded once.
RetentionKept == LockIsOwn /\ ExpiredOnce /\ RenewedIsActive /\ OneRowPerPath
=============================================================================
