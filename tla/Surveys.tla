------------------------------ MODULE Surveys ------------------------------
(***************************************************************************)
(* The surveys that one person answers through the Telegram bot            *)
(* (routers/telegram.py, routers/surveys.py).                              *)
(*                                                                         *)
(* A message is answered by a task: it reads the assignment's row and      *)
(* later commits the answer.  A photo is first fetched from Telegram and   *)
(* stored, which takes its time; other messages come and are answered      *)
(* meanwhile, at the same or at the other replica.                         *)
(***************************************************************************)
EXTENDS Naturals, Sequences, FiniteSets

CONSTANTS
  SvQuestions,   \* the kinds of the survey's questions, in order
  SvAssign,      \* the person's assignments, numbers in the order of their time
  SvTask,        \* tasks that can be under way
  MaxMessages    \* bound: messages

ASSUME SurveyAssumption ==
  /\ SvQuestions \in Seq({"text", "choice", "photo"}) /\ SvQuestions # <<>>
  /\ SvAssign \subseteq Nat /\ IsFiniteSet(SvAssign)
  /\ MaxMessages \in Nat

VARIABLES
  assignments,       \* survey_assignments
  responses,  \* survey_responses: the stored answers of an assignment, or none
  svTasks,    \* the tasks
  buttons,    \* choices the person has on his screen: assignment and question
  svLog       \* history: messages; whether two tasks overlapped; whether the button of a
              \* question was pressed that is not the current one

svVars == <<assignments, responses, svTasks, buttons, svLog>>

Count == Len(SvQuestions)
SvRow == [status : {"unassigned", "pending", "in_progress", "completed"},
          idx : 0..Count, answers : Seq([q : 0..Count, given : {"text", "choice", "photo"}])]
Unassigned == [status |-> "unassigned", idx |-> 0, answers |-> <<>>]
None == <<>>
NoTask == [phase |-> "idle", on |-> 0, given |-> "text", seen |-> Unassigned]

SvInit ==
  /\ assignments = [a \in SvAssign |-> Unassigned]
  /\ responses = [a \in SvAssign |-> None]
  /\ svTasks = [t \in SvTask |-> NoTask]
  /\ buttons = {}
  /\ svLog = [messages |-> 0, overlapped |-> FALSE, stale |-> FALSE]

SvQuiet == \A t \in SvTask : svTasks[t].phase = "idle"

\* Assignments are given out in the order of their numbers.
AssignSurvey(a) ==
  /\ assignments[a].status = "unassigned"
  /\ \A b \in SvAssign : b < a => assignments[b].status # "unassigned"
  /\ assignments' = [assignments EXCEPT ![a].status = "pending"]
  /\ UNCHANGED <<responses, svTasks, buttons, svLog>>

In(status) == {a \in SvAssign : assignments[a].status = status}
Oldest(S) == CHOOSE a \in S : \A b \in S : a <= b

\* A message is for the survey in progress, before any that waits.
Active(a) ==
  IF In("in_progress") # {} THEN a = Oldest(In("in_progress"))
  ELSE In("pending") # {} /\ a = Oldest(In("pending"))

Asked(row) == IF row.idx < Count THEN SvQuestions[row.idx + 1] ELSE "nothing"

-----------------------------------------------------------------------------
(* Messages *)

StartTask(t, a, phase, given) ==
  /\ svTasks[t].phase = "idle"
  /\ svLog.messages < MaxMessages
  /\ svTasks' = [svTasks EXCEPT ![t] =
       [phase |-> phase, on |-> a, given |-> given,
        seen |-> IF phase = "load" THEN Unassigned ELSE assignments[a]]]
  /\ svLog' = [svLog EXCEPT !.messages = @ + 1, !.overlapped = @ \/ ~SvQuiet,
       !.stale = @ \/ (given = "choice" /\ <<a, assignments[a].idx>> \notin buttons)]
  /\ UNCHANGED <<assignments, responses, buttons>>

\* Text answers anything but a photo question, also one that has not been sent yet.
Text(t) ==
  \E a \in SvAssign :
    /\ Active(a) /\ Asked(assignments[a]) \in {"text", "choice"}
    /\ StartTask(t, a, "save", "text")

\* A photo is accepted if one is asked for; a task of its own reads the row again.
Photo(t) ==
  \E a \in SvAssign :
    /\ Active(a) /\ Asked(assignments[a]) = "photo"
    /\ StartTask(t, a, "load", "photo")

\* The button carries the number of its question, which is not compared with the current one.
Press(t) ==
  \E b \in buttons : assignments[b[1]].status # "completed" /\ StartTask(t, b[1], "save", "choice")

\* The photo's task reads the row.
LoadRow(t) ==
  /\ svTasks[t].phase = "load"
  /\ svTasks' = [svTasks EXCEPT ![t].phase = "save", ![t].seen = assignments[svTasks[t].on]]
  /\ UNCHANGED <<assignments, responses, buttons, svLog>>

\* Telegram or the store fails, or the replica dies: the person is asked for it again.
PhotoFails(t) ==
  /\ svTasks[t].phase # "idle" /\ svTasks[t].given = "photo"
  /\ svTasks' = [svTasks EXCEPT ![t] = NoTask]
  /\ UNCHANGED <<assignments, responses, buttons, svLog>>

Answered(seen, given) ==
  [status |-> IF seen.idx + 1 >= Count THEN "completed" ELSE "in_progress",
   idx |-> seen.idx + 1,
   answers |-> Append(seen.answers, [q |-> seen.idx, given |-> given])]

\* Columns that differ from what the task had read are written.
Merge(row, seen, new) == [c \in DOMAIN row |-> IF new[c] = seen[c] THEN row[c] ELSE new[c]]

\* Mutant of Save: the response is stored by the next message.
SaveWithoutResponse(t) ==
  LET k == svTasks[t]
      new == Answered(k.seen, k.given)
  IN
  /\ k.phase = "save"
  /\ assignments' = [assignments EXCEPT ![k.on] = Merge(assignments[k.on], k.seen, new)]
  /\ buttons' = IF Asked(assignments'[k.on]) = "choice"
                  THEN buttons \cup {<<k.on, assignments'[k.on].idx>>} ELSE buttons
  /\ svTasks' = [svTasks EXCEPT ![t] = NoTask]
  /\ UNCHANGED <<responses, svLog>>

\* The answer, the position and the status in one transaction, with the response after the
\* last question.  A second response of an assignment breaks the transaction.  Then the
\* question at the row's position is sent.
Save(t) ==
  LET k == svTasks[t]
      new == Answered(k.seen, k.given)
      last == k.seen.idx + 1 >= Count
      ok == last => responses[k.on] = None
  IN
  /\ k.phase = "save"
  /\ assignments' = IF ok
                      THEN [assignments EXCEPT ![k.on] = Merge(assignments[k.on], k.seen, new)]
                      ELSE assignments
  /\ responses' = IF ok /\ last THEN [responses EXCEPT ![k.on] = new.answers] ELSE responses
  /\ buttons' = IF ok /\ ~last /\ Asked(assignments'[k.on]) = "choice"
                  THEN buttons \cup {<<k.on, assignments'[k.on].idx>>} ELSE buttons
  /\ svTasks' = [svTasks EXCEPT ![t] = NoTask]
  /\ UNCHANGED svLog

SvNext ==
  \/ \E a \in SvAssign : AssignSurvey(a)
  \/ \E t \in SvTask : Text(t) \/ Photo(t) \/ Press(t) \/ LoadRow(t) \/ PhotoFails(t) \/ Save(t)

SvSpec == SvInit /\ [][SvNext]_svVars

-----------------------------------------------------------------------------
(* Properties *)

\* The type invariant.
SvTypeOK ==
  /\ assignments \in [SvAssign -> SvRow]
  /\ responses \in [SvAssign -> Seq([q : 0..Count, given : {"text", "choice", "photo"}])]
  /\ svTasks \in [SvTask -> [phase : {"idle", "load", "save"}, on : SvAssign \cup {0},
                             given : {"text", "choice", "photo"}, seen : SvRow]]
  /\ buttons \subseteq SvAssign \X (0..Count)
  /\ svLog \in [messages : 0..MaxMessages, overlapped : BOOLEAN, stale : BOOLEAN]

InOrder(answers) == \A i \in DOMAIN answers : answers[i].q = i - 1

\* However tasks overlap and fall behind, the row holds one answer for each question up to its
\* position, in order: none is skipped or kept twice (a late task may set both back).
AnswersInOrder ==
  \A a \in SvAssign :
    /\ Len(assignments[a].answers) = assignments[a].idx
    /\ InOrder(assignments[a].answers)

\* However tasks overlap, a completed survey has its response, and a response answers every
\* question once.
ResponseComplete ==
  \A a \in SvAssign :
    /\ assignments[a].status = "completed" => responses[a] # None
    /\ responses[a] # None => Len(responses[a]) = Count /\ InOrder(responses[a])

\* While messages are answered one at a time a survey with a response stays completed, and one
\* survey is worked on at a time.  (A photo that is still being stored sets a survey back that
\* was completed meanwhile.)
StaysCompleted ==
  ~svLog.overlapped =>
    /\ \A a \in SvAssign : responses[a] # None => assignments[a].status = "completed"
    /\ Cardinality(In("in_progress")) <= 1

\* While messages are answered one at a time and only the buttons of the current question are
\* pressed, photo questions are answered by photos, the others by none.
AnswersFit ==
  ~svLog.overlapped /\ ~svLog.stale =>
    \A a \in SvAssign : \A i \in DOMAIN assignments[a].answers :
      assignments[a].answers[i].given = "photo" <=> SvQuestions[i] = "photo"

\* However the tasks of one person's messages overlap, a survey keeps one answer for each
\* question in order, and its response has them all; without overlaps and late buttons it also
\* stays completed and its answers fit the questions.
AnswersKept == AnswersInOrder /\ ResponseComplete /\ StaysCompleted /\ AnswersFit
=============================================================================
