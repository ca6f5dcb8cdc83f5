----------------------------- MODULE QuotaGate -----------------------------
(***************************************************************************)
(* The budget of one person: the policies that administrators keep and     *)
(* assign (routers/admin.py), the gate in front of the language model      *)
(* (routers/bedrock_proxy.py), and the daily sums it goes by, which the    *)
(* usage worker adds up later from a stream (module UsageWorker) and a     *)
(* snapshot of the terminals overwrites.                                   *)
(*                                                                         *)
(* A call costs 1 and its event has the date of its end.  Two replicas     *)
(* serve administrators; calls wait for the model and overlap.             *)
(***************************************************************************)
EXTENDS Naturals, Sequences, FiniteSets, FiniteSetsExt

CONSTANTS
  QgPolicy,      \* names of policies
  QgCall,        \* calls under way at the same time
  QgHandler,     \* requests of administrators under way at the same time
  LastDay,       \* bound: days 0..LastDay
  WeekDays,      \* days of a week
  Limits,        \* limits that policies have
  MaxQgCalls,    \* bound: calls
  MaxQgChanges,  \* bound: changes of policies, and assignments
  MaxQgLosses,   \* bound: events that are not published
  MaxSnapshots   \* bound: snapshots

ASSUME QuotaAssumption ==
  /\ IsFiniteSet(QgCall)
  /\ LastDay \in Nat /\ WeekDays \in Nat \ {0}
  /\ Limits \subseteq Nat
  /\ MaxQgCalls \in Nat /\ MaxQgChanges \in Nat /\ MaxQgLosses \in Nat
  /\ MaxSnapshots \in Nat

VARIABLES
  templates,  \* rows of the policies
  assigned,   \* rows of the person's assignments, in the order of their insertion
  assigning,  \* requests that assign
  calls,      \* calls
  events,     \* events in the stream, by date
  sums,       \* token_usage_daily, by date: costs by model, of the rows there are
  today,      \* date
  charged,    \* history: calls that the model has answered, by date
  qgLog       \* history: bounds; see QgInit

qgVars == <<templates, assigned, assigning, calls, events, sums, today, charged, qgLog>>

Day == 0..LastDay
Policy == [limit : Limits, cycle : {"daily", "weekly"}, unlimited : BOOLEAN]
NoPolicy == [limit |-> 0, cycle |-> "none", unlimited |-> FALSE]
NoAssigning == [policy |-> NoPolicy, over |-> 0]

\* The models of rows: the one that is called, and that of the rows a snapshot inserts.
Model == {"model", "unknown"}
NoRows == [m \in {} |-> 0]

\* last: the assignment that was committed last; overlap: whether two ever met; snapshots: how
\* many; base: what the cycle had cost, with the calls under way, when it or the assignment
\* began; behind: the most costs that were not summed when a call was admitted since.
QgInit ==
  /\ templates \in [QgPolicy -> {NoPolicy} \cup Policy]
  /\ assigned = <<>>
  /\ assigning = [h \in QgHandler |-> NoAssigning]
  /\ calls = [c \in QgCall |-> "none"]
  /\ events = [d \in Day |-> 0]
  /\ sums = [d \in Day |-> NoRows]
  /\ today = 0
  /\ charged = [d \in Day |-> 0]
  /\ qgLog = [calls |-> 0, changes |-> 0, losses |-> 0, snapshots |-> 0,
              last |-> NoPolicy, overlap |-> FALSE, base |-> 0, behind |-> 0]

-----------------------------------------------------------------------------
(* Cycles and their costs *)

\* Mutant of CycleStart: a week starts every day.
CycleStartToday(cycle) == today

\* The first day of the cycle that today is in.
CycleStart(cycle) == IF cycle = "weekly" THEN today - (today % WeekDays) ELSE today

\* What the gate adds up.
Total(d) == MapThenSumSet(LAMBDA m : sums[d][m], DOMAIN sums[d])
Totals == [d \in Day |-> Total(d)]
Summed(cycle) == MapThenSumSet(LAMBDA d : Totals[d], CycleStart(cycle)..today)

\* The days of the cycle so far, as the calendar has them, and what is kept of them.
CycleDays(cycle) ==
  {d \in Day : /\ d <= today
               /\ d = today \/ (cycle = "weekly" /\ d \div WeekDays = today \div WeekDays)}

\* What the cycle has cost so far, with the calls that are under way, and how much of it is not,
\* or not yet, in the sums.
UnderWay == {c \in QgCall : calls[c] # "none"}
Cost(cycle) == MapThenSumSet(LAMBDA d : charged[d], CycleDays(cycle)) + Cardinality(UnderWay)
Lag(cycle) ==
  LET summed == MapThenSumSet(LAMBDA d : Totals[d], CycleDays(cycle))
  IN IF Cost(cycle) > summed THEN Cost(cycle) - summed ELSE 0

-----------------------------------------------------------------------------
(* Policies and their assignment *)

PolicyChanges(t, p) ==
  /\ qgLog.changes < MaxQgChanges
  /\ qgLog' = [qgLog EXCEPT !.changes = @ + 1]
  /\ templates' = [templates EXCEPT ![t] = p]
  /\ UNCHANGED <<assigned, assigning, calls, events, sums, today, charged>>

\* create_quota_template refuses a name that is there.
CreatePolicy(t) == templates[t] = NoPolicy /\ \E p \in Policy : PolicyChanges(t, p)

\* update_quota_template and delete_quota_template leave the assignments alone.
UpdatePolicy(t) == templates[t] # NoPolicy /\ \E p \in Policy \ {templates[t]} : PolicyChanges(t, p)
DeletePolicy(t) == templates[t] # NoPolicy /\ PolicyChanges(t, NoPolicy)

\* The row that is changed: any of the person's, or none, 0.
Existing == IF assigned = <<>> THEN {0} ELSE DOMAIN assigned

\* assign_quota copies the policy, over the row it has found.
BeginAssign(h, t) ==
  /\ assigning[h] = NoAssigning
  /\ templates[t] # NoPolicy
  /\ qgLog.changes < MaxQgChanges
  /\ \E r \in Existing :
       assigning' = [assigning EXCEPT ![h] = [policy |-> templates[t], over |-> r]]
  /\ qgLog' = [qgLog EXCEPT !.changes = @ + 1,
       !.overlap = @ \/ \E g \in QgHandler : assigning[g] # NoAssigning]
  /\ UNCHANGED <<templates, assigned, calls, events, sums, today, charged>>

CommitAssign(h) ==
  /\ assigning[h] # NoAssigning
  /\ assigned' = IF assigning[h].over = 0 THEN Append(assigned, assigning[h].policy)
                 ELSE [assigned EXCEPT ![assigning[h].over] = assigning[h].policy]
  /\ assigning' = [assigning EXCEPT ![h] = NoAssigning]
  /\ qgLog' = [qgLog EXCEPT !.last = assigning[h].policy, !.behind = 0,
       !.base = Cost(assigning[h].policy.cycle)]
  /\ UNCHANGED <<templates, calls, events, sums, today, charged>>

-----------------------------------------------------------------------------
(* The gate *)

Exceeded(p) == Summed(p.cycle) >= p.limit

\* A person without an assignment is not limited; of several rows any may be read.
MayCall ==
  \/ assigned = <<>>
  \/ \E r \in DOMAIN assigned : assigned[r].unlimited \/ ~Exceeded(assigned[r])
MayBeRefused == \E r \in DOMAIN assigned : ~assigned[r].unlimited /\ Exceeded(assigned[r])

Admit(c) ==
  /\ calls[c] = "none" /\ MayCall
  /\ qgLog.calls < MaxQgCalls
  /\ calls' = [calls EXCEPT ![c] = "called"]
  /\ qgLog' = [qgLog EXCEPT !.calls = @ + 1,
       !.behind = Max({@, Lag(qgLog.last.cycle)})]
  /\ UNCHANGED <<templates, assigned, assigning, events, sums, today, charged>>

\* 429, and the model is not called.
Refuse429 ==
  /\ MayBeRefused
  /\ qgLog.calls < MaxQgCalls
  /\ qgLog' = [qgLog EXCEPT !.calls = @ + 1]
  /\ UNCHANGED <<templates, assigned, assigning, calls, events, sums, today, charged>>

\* The model answers, and the event is published with the date of now.
Answers(c) ==
  /\ calls[c] = "called"
  /\ calls' = [calls EXCEPT ![c] = "none"]
  /\ events' = [events EXCEPT ![today] = @ + 1]
  /\ charged' = [charged EXCEPT ![today] = @ + 1]
  /\ UNCHANGED <<templates, assigned, assigning, sums, today, qgLog>>

\* The model refuses: no cost, no event.
ModelFails(c) ==
  /\ calls[c] = "called"
  /\ calls' = [calls EXCEPT ![c] = "none"]
  /\ UNCHANGED <<templates, assigned, assigning, events, sums, today, charged, qgLog>>

\* The model has answered, but Redis is away, or the reader leaves before the end of a stream.
EventLost(c) ==
  /\ calls[c] = "called"
  /\ qgLog.losses < MaxQgLosses
  /\ calls' = [calls EXCEPT ![c] = "none"]
  /\ charged' = [charged EXCEPT ![today] = @ + 1]
  /\ qgLog' = [qgLog EXCEPT !.losses = @ + 1]
  /\ UNCHANGED <<templates, assigned, assigning, events, sums, today>>

\* The rows with n in that of model m.
WithRow(rows, m, n) == [x \in DOMAIN rows \cup {m} |-> IF x = m THEN n ELSE rows[x]]

\* The usage worker adds an event to the day of its date.
Sum(d) ==
  /\ events[d] > 0
  /\ events' = [events EXCEPT ![d] = @ - 1]
  /\ LET before == IF "model" \in DOMAIN sums[d] THEN sums[d]["model"] ELSE 0
     IN sums' = [sums EXCEPT ![d] = WithRow(@, "model", before + 1)]
  /\ UNCHANGED <<templates, assigned, assigning, calls, today, charged, qgLog>>

\* do_snapshot, which an administrator asks for and which precedes every end of an idle terminal,
\* anybody's: a row of today, any, or a new one, is given what the log of the person's terminal
\* adds up to, which goes back as far as the backup of its conversations.
Snapshot ==
  /\ qgLog.snapshots < MaxSnapshots
  /\ \E n \in 0..MapThenSumSet(LAMBDA d : charged[d], Day),
        m \in IF sums[today] = NoRows THEN {"unknown"} ELSE DOMAIN sums[today] :
       sums' = [sums EXCEPT ![today] = WithRow(@, m, n)]
  /\ qgLog' = [qgLog EXCEPT !.snapshots = @ + 1]
  /\ UNCHANGED <<templates, assigned, assigning, calls, events, today, charged>>

\* A new cycle has nothing behind it but the calls that are under way.
NextDay ==
  /\ today < LastDay
  /\ today' = today + 1
  /\ qgLog' = IF qgLog.last.cycle = "weekly" /\ ((today + 1) % WeekDays) # 0 THEN qgLog
               ELSE [qgLog EXCEPT !.behind = 0, !.base = Cardinality(UnderWay)]
  /\ UNCHANGED <<templates, assigned, assigning, calls, events, sums, charged>>

-----------------------------------------------------------------------------

QgNext ==
  \/ \E t \in QgPolicy : CreatePolicy(t) \/ UpdatePolicy(t) \/ DeletePolicy(t)
  \/ \E h \in QgHandler, t \in QgPolicy : BeginAssign(h, t)
  \/ \E h \in QgHandler : CommitAssign(h)
  \/ \E c \in QgCall : Admit(c) \/ Answers(c) \/ ModelFails(c) \/ EventLost(c)
  \/ \E d \in Day : Sum(d)
  \/ Refuse429 \/ Snapshot \/ NextDay

QgSpec == QgInit /\ [][QgNext]_qgVars

-----------------------------------------------------------------------------

\* Every variable has its type.
QgTypeOK ==
  /\ templates \in [QgPolicy -> {NoPolicy} \cup Policy]
  /\ assigned \in Seq(Policy)
  /\ assigning \in [QgHandler -> [policy : {NoPolicy} \cup Policy, over : Nat]]
  /\ calls \in [QgCall -> {"none", "called"}]
  /\ events \in [Day -> Nat] /\ charged \in [Day -> Nat]
  /\ DOMAIN sums = Day
  /\ \A d \in Day : \E rows \in SUBSET Model : sums[d] \in [rows -> Nat]
  /\ today \in Day

\* The gate goes by the last assignment, in the words its policy had then, whatever became of the
\* policy since, unless two assignments ever met: nothing keeps them from inserting a row each.
LastAssignmentRules ==
  ~qgLog.overlap => \A r \in DOMAIN assigned : assigned[r] = qgLog.last

\* Since an assignment or a cycle began, the cost of the cycle exceeds the limit by no more than
\* was under way, waited for the worker or was lost when a call was admitted; unless it was more
\* from the beginning, or a snapshot has overwritten the sums.
OverspendIsBehind ==
  ~qgLog.overlap /\ qgLog.snapshots = 0 /\ assigned # <<>> /\ ~qgLog.last.unlimited =>
    LET cost == Cost(qgLog.last.cycle)
    IN cost <= qgLog.last.limit + qgLog.behind \/ cost <= qgLog.base

\* The gate goes by the last assignment, and is overspent by no more than its sums are behind.
GateHolds == LastAssignmentRules /\ OverspendIsBehind

\* What the code says and does not do; a run shows how.

\* The usage worker alone keeps the sums: with what waits for it they are never more than the
\* calls have cost.
SumsAreCharged == \A d \in Day : Total(d) + events[d] <= charged[d]

=============================================================================
