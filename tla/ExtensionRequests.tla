------------------------- MODULE ExtensionRequests -------------------------
(***************************************************************************)
(* One person's requests for more time and what an administrator decides   *)
(* about them, on the web and in Telegram (routers/scheduling.py, the      *)
(* commands in routers/telegram.py).                                       *)
(*                                                                         *)
(* A handler reads, commits its row, waits for Telegram to answer to the   *)
(* notification, and, on the web, adds a line to the audit log.  It does   *)
(* not notice when nobody is notified.  The time of a terminal is not      *)
(* extended by any of this: what read the approved requests is switched    *)
(* off.                                                                    *)
(***************************************************************************)
EXTENDS Naturals, FiniteSets

CONSTANTS
  ExRequest,      \* request numbers, given out in order: 1..n
  ExHandler,      \* handlers that can be under way at a time
  MaxExOps,       \* bound: commands and web requests
  MaxExFaults     \* bound: notifications without an answer and dying replicas

ASSUME ExtensionAssumption ==
  /\ IsFiniteSet(ExRequest) /\ ExRequest = 1..Cardinality(ExRequest)
  /\ IsFiniteSet(ExHandler)
  /\ MaxExOps \in Nat /\ MaxExFaults \in Nat

Resolved == {"approved", "rejected"}

VARIABLES
  exRows,     \* extension_requests: the status, "none" before the insert
  mapped,     \* whose number the person's Telegram account is registered with
  adminMapped, \* whether a Telegram account is registered with the administrator's number
  exTasks,    \* handlers under way
  told,       \* what the person was last told about a request
  announced,  \* requests that the administrator was told of
  exLog       \* history: bounds; whether handlers overlapped, whether the web rejected what
              \* was decided; notifications that nobody got, by request and whom they were for;
              \* the first decision of each request, and how often one that waited was decided;
              \* web requests that were committed, and their lines in the audit log

exVars == <<exRows, mapped, adminMapped, exTasks, told, announced, exLog>>

ExRest == [op |-> "idle", via |-> "web", on |-> 0, phase |-> "none"]
ExQuiet == \A h \in ExHandler : exTasks[h].op = "idle"

ExInit ==
  /\ exRows = [r \in ExRequest |-> "none"]
  /\ mapped = "nobody" /\ adminMapped \in BOOLEAN
  /\ exTasks = [h \in ExHandler |-> ExRest]
  /\ told = [r \in ExRequest |-> "none"]
  /\ announced = {}
  /\ exLog = [ops |-> 0, faults |-> 0, overlapped |-> FALSE, overruled |-> FALSE,
              unheard |-> {}, first |-> [r \in ExRequest |-> "none"],
              decided |-> [r \in ExRequest |-> 0], done |-> 0, audited |-> 0]

\* The first message of an account registers it; the command /register does it again, with
\* any number: the person's account may get another one, the administrator's too.
Register(whose, admin) ==
  /\ exLog.ops < MaxExOps
  /\ <<whose, admin>> # <<mapped, adminMapped>>
  /\ whose = mapped \/ admin = adminMapped
  /\ whose = "nobody" => mapped = "nobody"
  /\ mapped' = whose /\ adminMapped' = admin
  /\ exLog' = [exLog EXCEPT !.ops = @ + 1]
  /\ UNCHANGED <<exRows, exTasks, told, announced>>

-----------------------------------------------------------------------------
(* Handlers *)

BeginEx(h, op, via, r) ==
  /\ exTasks[h].op = "idle"
  /\ exLog.ops < MaxExOps
  /\ exTasks' = [exTasks EXCEPT ![h] = [op |-> op, via |-> via, on |-> r, phase |-> "commit"]]
  /\ exLog' = [exLog EXCEPT !.ops = @ + 1, !.overlapped = @ \/ ~ExQuiet]
  /\ UNCHANGED <<exRows, mapped, adminMapped, told, announced>>

NonePending == \A r \in ExRequest : exRows[r] # "pending"

\* A new request gets its number when it is inserted.  An unregistered account has no command.
RequestExtension(h, via) ==
  /\ via = "telegram" => mapped = "person"
  /\ NonePending
  /\ BeginEx(h, "request", via, 0)

\* Mutant of Decidable: what was decided is decided again.
DecidableAgain(op, via, r) == exRows[r] # "none"

\* A rejection on the web looks at no status.
Overrules(op, via) == op = "reject" /\ via = "web"

\* What was decided is not decided again, but for a rejection on the web.
Decidable(op, via, r) ==
  /\ exRows[r] # "none"
  /\ Overrules(op, via) \/ exRows[r] = "pending"

\* In Telegram the account of the administrator decides.
Decide(h, op, via, r) ==
  /\ via = "telegram" => adminMapped
  /\ Decidable(op, via, r)
  /\ BeginEx(h, op, via, r)

Outcome(op) == IF op = "approve" THEN "approved" ELSE "rejected"

Inserted(r) == exRows[r] = "none" /\ \A q \in ExRequest : q < r => exRows[q] # "none"

CommitRequest(h) ==
  /\ exTasks[h].op = "request" /\ exTasks[h].phase = "commit"
  /\ \E r \in ExRequest :
       /\ Inserted(r)
       /\ exRows' = [exRows EXCEPT ![r] = "pending"]
       /\ exTasks' = [exTasks EXCEPT ![h].phase = "notify", ![h].on = r]
  /\ exLog' = [exLog EXCEPT !.done = IF exTasks[h].via = "web" THEN @ + 1 ELSE @]
  /\ UNCHANGED <<mapped, adminMapped, told, announced>>

\* The status is written whatever it has become since the handler read the row.
CommitDecision(h) ==
  LET t == exTasks[h] IN
  /\ t.op \in {"approve", "reject"} /\ t.phase = "commit"
  /\ exRows' = [exRows EXCEPT ![t.on] = Outcome(t.op)]
  /\ exTasks' = [exTasks EXCEPT ![h].phase = "notify"]
  /\ exLog' = [exLog EXCEPT
       !.first[t.on] = IF @ = "none" THEN Outcome(t.op) ELSE @,
       !.decided[t.on] = IF Overrules(t.op, t.via) THEN @ ELSE @ + 1,
       !.overruled = @ \/ (Overrules(t.op, t.via) /\ exRows[t.on] # "pending"),
       !.done = IF t.via = "web" THEN @ + 1 ELSE @]
  /\ UNCHANGED <<mapped, adminMapped, told, announced>>

\* Whom a notification is for.
Recipient(op) == IF op = "request" THEN "admin" ELSE "person"
Reachable(op) == IF op = "request" THEN adminMapped ELSE mapped = "person"

\* The administrator hears of a request, the person of a decision, if an account is registered
\* with the number, the gateway has a bot and Telegram takes the message.  Otherwise nobody
\* does, and the handler goes on just the same: whom it cannot reach it skips, and it does not
\* look at the status of the answer.
Notify(h) ==
  LET t == exTasks[h] IN
  /\ t.phase = "notify"
  /\ \E heard \in BOOLEAN :
       /\ heard => Reachable(t.op)
       /\ announced' = IF heard /\ t.op = "request" THEN announced \cup {t.on} ELSE announced
       /\ told' = IF heard /\ t.op # "request" THEN [told EXCEPT ![t.on] = Outcome(t.op)] ELSE told
       /\ exLog' = [exLog EXCEPT
            !.unheard = IF heard THEN @ ELSE @ \cup {<<t.on, Recipient(t.op)>>}]
  /\ exTasks' = [exTasks EXCEPT ![h] =
       IF t.via = "web" THEN [@ EXCEPT !.phase = "audit"] ELSE ExRest]
  /\ UNCHANGED <<exRows, mapped, adminMapped>>

\* The line of the audit log, in a transaction of its own.
Audit(h) ==
  /\ exTasks[h].phase = "audit"
  /\ exTasks' = [exTasks EXCEPT ![h] = ExRest]
  /\ exLog' = [exLog EXCEPT !.audited = @ + 1]
  /\ UNCHANGED <<exRows, mapped, adminMapped, told, announced>>

\* Telegram does not answer (nothing catches that), or the replica dies: the rest is not done.
ExFails(h) ==
  /\ exTasks[h].op # "idle" /\ exLog.faults < MaxExFaults
  /\ exTasks' = [exTasks EXCEPT ![h] = ExRest]
  /\ exLog' = [exLog EXCEPT !.faults = @ + 1]
  /\ UNCHANGED <<exRows, mapped, adminMapped, told, announced>>

ExNext ==
  \/ \E whose \in {"nobody", "person", "other"}, admin \in BOOLEAN : Register(whose, admin)
  \/ \E h \in ExHandler :
       \/ \E via \in {"web", "telegram"} : RequestExtension(h, via)
       \/ \E op \in {"approve", "reject"}, via \in {"web", "telegram"}, r \in ExRequest :
            Decide(h, op, via, r)
       \/ CommitRequest(h) \/ CommitDecision(h) \/ Notify(h) \/ Audit(h) \/ ExFails(h)

ExSpec == ExInit /\ [][ExNext]_exVars

-----------------------------------------------------------------------------
(* Properties *)

\* The type invariant.
ExTypeOK ==
  /\ exRows \in [ExRequest -> {"none", "pending"} \cup Resolved]
  /\ mapped \in {"nobody", "person", "other"} /\ adminMapped \in BOOLEAN
  /\ exTasks \in [ExHandler -> [op : {"idle", "request", "approve", "reject"},
                                via : {"web", "telegram"}, on : ExRequest \cup {0},
                                phase : {"none", "commit", "notify", "audit"}]]
  /\ told \in [ExRequest -> {"none"} \cup Resolved]
  /\ announced \subseteq ExRequest
  /\ exLog \in [ops : 0..MaxExOps, faults : 0..MaxExFaults, overlapped : BOOLEAN,
                overruled : BOOLEAN, unheard : SUBSET (ExRequest \X {"admin", "person"}),
                first : [ExRequest -> {"none"} \cup Resolved],
                decided : [ExRequest -> 0..MaxExOps],
                done : 0..MaxExOps, audited : 0..MaxExOps]

RequestsWaiting == {r \in ExRequest : exRows[r] = "pending"}

\* A person has no more requests waiting than handlers that overlapped: one at the same time
\* as another is inserted too, but none is after them.  One at most while handlers run one at
\* a time.
OneWaits ==
  /\ Cardinality(RequestsWaiting) <= Cardinality(ExHandler)
  /\ ~exLog.overlapped => Cardinality(RequestsWaiting) <= 1

\* While handlers run one at a time what was decided stays decided, but for a rejection on the
\* web.  When they overlap the last commit wins, yet a request that waited is decided by no
\* more of them than were under way.
DecisionStands ==
  /\ ~exLog.overlapped /\ ~exLog.overruled =>
       \A r \in ExRequest : exRows[r] \in Resolved => exRows[r] = exLog.first[r]
  /\ \A r \in ExRequest : exLog.decided[r] <= Cardinality(ExHandler)

\* While handlers run one at a time and Telegram answers, the person knows how his requests
\* stand and the administrator knows of each, but for those whose notification nobody got.
TellsTheStatus ==
  ExQuiet /\ ~exLog.overlapped /\ exLog.faults = 0 =>
    \A r \in ExRequest :
      /\ exRows[r] \in Resolved /\ <<r, "person">> \notin exLog.unheard => told[r] = exRows[r]
      /\ exRows[r] # "none" /\ <<r, "admin">> \notin exLog.unheard => r \in announced

\* However handlers overlap, what is done on the web is in the audit log, unless Telegram or
\* the replica fails in between; and nothing is there that was not done.
WebIsAudited ==
  /\ exLog.audited <= exLog.done
  /\ ExQuiet /\ exLog.faults = 0 => exLog.audited = exLog.done

\* A request is decided once and audited, on the web and in Telegram, and told to those
\* concerned whom the notification reaches.
RequestsAreHandled == OneWaits /\ DecisionStands /\ TellsTheStatus /\ WebIsAudited
=============================================================================
