----------------------------- MODULE Messaging -----------------------------
(***************************************************************************)
(* The text messages that one person sends through the gateway: by the SMS *)
(* and the MMS endpoint, and to those he has shared an app with            *)
(* (routers/sms.py, routers/mms.py, routers/portal.py).                    *)
(*                                                                         *)
(* A request checks the day's limit on the rows that are committed by      *)
(* then, waits for the moderation of the text or for the provider, and     *)
(* writes its row afterwards; requests interleave at these waits, those of *)
(* one replica too.  Requests without the permission change nothing.       *)
(***************************************************************************)
EXTENDS Naturals, FiniteSets

CONSTANTS
  MsPerson,      \* the people whom the app may be shared with
  MsPhoneless,   \* those without a telephone number
  MsHandler,     \* requests that can be under way at a time, at one replica or at several
  DailyLimit,    \* DAILY_LIMIT
  MaxSends,      \* bound: requests
  MaxRegrants,   \* bound: changes of the app's access list
  MaxMsFaults    \* bound: unreadable answers and dying replicas

ASSUME MessagingAssumption ==
  /\ MsPhoneless \subseteq MsPerson /\ IsFiniteSet(MsPerson) /\ MsPerson # {}
  /\ IsFiniteSet(MsHandler) /\ MsHandler # {}
  /\ DailyLimit \in Nat \ {0}
  /\ MaxSends \in Nat /\ MaxRegrants \in Nat /\ MaxMsFaults \in Nat

VARIABLES
  granted,   \* the person's row in the app's access list; company-wide rows do not count
  smsRows,   \* today's rows of sms_logs, by status; messages about an app are here too
  mmsRows,   \* today's rows of mms_logs
  msTasks,   \* requests under way
  msLog      \* history: bounds; whether requests overlapped, whether the SMS endpoint was used
             \* ("direct"), whether the list changed under a request; messages that reached
             \* somebody; those about the app that reached somebody not in the list

msVars == <<granted, smsRows, mmsRows, msTasks, msLog>>

NoRows == [sent |-> 0, failed |-> 0]
MsRest == [op |-> "idle", phase |-> "none", left |-> {}]
MsQuiet == \A h \in MsHandler : msTasks[h].op = "idle"
Logged(rows) == rows.sent + rows.failed

MsInit ==
  /\ granted = [p \in MsPerson |-> "no"]
  /\ smsRows = NoRows /\ mmsRows = NoRows
  /\ msTasks = [h \in MsHandler |-> MsRest]
  /\ msLog = [requests |-> 0, regrants |-> 0, faults |-> 0, overlapped |-> FALSE,
              direct |-> FALSE, regranted |-> FALSE, reached |-> 0, strayed |-> 0]

\* Mutant of ShareRecipients: revoked rows count.
ShareRecipientsOfAll == {p \in MsPerson : granted[p] # "no"}

\* Whom the live rows of the access list name.
ShareRecipients == {p \in MsPerson : granted[p] = "live"}

\* Somebody is admitted or his row is revoked.
ChangeList(p) ==
  /\ msLog.regrants < MaxRegrants
  /\ granted' = [granted EXCEPT ![p] = IF @ = "live" THEN "revoked" ELSE "live"]
  /\ msLog' = [msLog EXCEPT !.regrants = @ + 1, !.regranted = @ \/ ~MsQuiet]
  /\ UNCHANGED <<smsRows, mmsRows, msTasks>>

-----------------------------------------------------------------------------
(* Requests *)

StartRequest(h, task) ==
  /\ msTasks[h].op = "idle"
  /\ msLog.requests < MaxSends
  /\ msTasks' = [msTasks EXCEPT ![h] = task]
  /\ msLog' = [msLog EXCEPT !.requests = @ + 1, !.overlapped = @ \/ ~MsQuiet,
                            !.direct = @ \/ task.op = "sms"]
  /\ UNCHANGED <<granted, smsRows, mmsRows>>

\* The SMS endpoint looks at no limit.
SendSms(h) == StartRequest(h, [op |-> "sms", phase |-> "send", left |-> {}])

SendMms(h) ==
  /\ Logged(mmsRows) < DailyLimit
  /\ StartRequest(h, [op |-> "mms", phase |-> "send", left |-> {}])

\* The owner writes to all recipients or to some of them; the text is judged first.
ShareApp(h) ==
  \E targets \in SUBSET ShareRecipients :
    /\ targets # {}
    /\ StartRequest(h, [op |-> "share", phase |-> "judge", left |-> targets])

\* No answer, or one that cannot be read, counts as an objection.
Object(h) ==
  /\ msTasks[h].phase = "judge"
  /\ msTasks' = [msTasks EXCEPT ![h] = MsRest]
  /\ UNCHANGED <<granted, smsRows, mmsRows, msLog>>

\* As many as the limit leaves, counted once for all of them.
Chosen(all, chosen) ==
  LET quota == IF Logged(smsRows) < DailyLimit THEN DailyLimit - Logged(smsRows) ELSE 0 IN
  /\ chosen \subseteq all
  /\ Cardinality(chosen) = IF Cardinality(all) < quota THEN Cardinality(all) ELSE quota

\* Those without a number take a place but get no message.
Pass(h) ==
  /\ msTasks[h].phase = "judge"
  /\ \E chosen \in SUBSET msTasks[h].left :
       /\ Chosen(msTasks[h].left, chosen)
       /\ msTasks' = [msTasks EXCEPT ![h] =
            IF chosen \subseteq MsPhoneless THEN MsRest
            ELSE [@ EXCEPT !.phase = "send", !.left = chosen \ MsPhoneless]]
  /\ UNCHANGED <<granted, smsRows, mmsRows, msLog>>

\* The message goes to the provider, who delivers it or does not.
Submit(h) ==
  LET t == msTasks[h] IN
  /\ t.phase = "send"
  /\ \E reaches \in BOOLEAN, p \in (IF t.op = "share" THEN t.left ELSE MsPerson) :
       /\ msTasks' = [msTasks EXCEPT ![h].phase = IF reaches THEN "reached" ELSE "refused",
                                     ![h].left = @ \ {p}]
       /\ msLog' = [msLog EXCEPT
            !.reached = IF reaches THEN @ + 1 ELSE @,
            !.strayed = IF reaches /\ t.op = "share" /\ granted[p] # "live" THEN @ + 1 ELSE @]
  /\ UNCHANGED <<granted, smsRows, mmsRows>>

Answering(h) == msTasks[h].phase \in {"reached", "refused"}

\* The next recipient, or the end.
NextRecipient(h) ==
  msTasks' = [msTasks EXCEPT ![h] = IF @.left = {} THEN MsRest ELSE [@ EXCEPT !.phase = "send"]]

WriteRow(h, result) ==
  LET counted(rows) == [rows EXCEPT ![result] = @ + 1] IN
  /\ smsRows' = IF msTasks[h].op = "mms" THEN smsRows ELSE counted(smsRows)
  /\ mmsRows' = IF msTasks[h].op = "mms" THEN counted(mmsRows) ELSE mmsRows

\* The provider's answer, or the end of the ten seconds.
Answer(h) ==
  /\ Answering(h)
  /\ \E result \in IF msTasks[h].phase = "reached" THEN {"sent", "failed"} ELSE {"failed"} :
       WriteRow(h, result)
  /\ NextRecipient(h)
  /\ UNCHANGED <<granted, msLog>>

\* An answer that is no JSON is no HTTPError: nothing is written.  Or the replica dies.
AnswerUnread(h) ==
  /\ Answering(h) /\ msLog.faults < MaxMsFaults
  /\ msTasks' = [msTasks EXCEPT ![h] = MsRest]
  /\ msLog' = [msLog EXCEPT !.faults = @ + 1]
  /\ UNCHANGED <<granted, smsRows, mmsRows>>

MsNext ==
  \/ \E p \in MsPerson : ChangeList(p)
  \/ \E h \in MsHandler :
       \/ SendSms(h) \/ SendMms(h) \/ ShareApp(h)
       \/ Object(h) \/ Pass(h) \/ Submit(h) \/ Answer(h) \/ AnswerUnread(h)

MsSpec == MsInit /\ [][MsNext]_msVars

-----------------------------------------------------------------------------
(* Properties *)

MsRows == [sent : 0..MaxSends * Cardinality(MsPerson), failed : 0..MaxSends * Cardinality(MsPerson)]

\* The type invariant.
MsTypeOK ==
  /\ granted \in [MsPerson -> {"no", "live", "revoked"}]
  /\ smsRows \in MsRows /\ mmsRows \in MsRows
  /\ msTasks \in [MsHandler -> [op : {"idle", "sms", "mms", "share"},
                                phase : {"none", "judge", "send", "reached", "refused"},
                                left : SUBSET MsPerson]]
  /\ msLog \in [requests : 0..MaxSends, regrants : 0..MaxRegrants, faults : 0..MaxMsFaults,
                overlapped : BOOLEAN, direct : BOOLEAN, regranted : BOOLEAN,
                reached : 0..MaxSends * Cardinality(MsPerson),
                strayed : 0..MaxSends * Cardinality(MsPerson)]

\* However requests overlap, the day's MMS exceed the limit by no more than the requests that
\* can have counted the same rows.
MmsLimited == Logged(mmsRows) <= DailyLimit + Cardinality(MsHandler) - 1

\* While requests come one at a time, messages about an app alone never exceed the limit,
\* failed ones included.
SharesLimited == ~msLog.overlapped /\ ~msLog.direct => Logged(smsRows) <= DailyLimit

\* Every message that reached somebody is on record, be it as a failure, except while its
\* request is under way and but for unreadable answers and crashes; and none is on record as
\* sent that did not reach anybody.
ReachedIsLogged ==
  LET waiting == {h \in MsHandler : msTasks[h].phase = "reached"} IN
  /\ msLog.reached <= Logged(smsRows) + Logged(mmsRows) + Cardinality(waiting) + msLog.faults
  /\ smsRows.sent + mmsRows.sent <= msLog.reached

\* Unless the access list changes while a request is under way, messages about an app reach
\* only people who may open it at that time.
SharesReachGranted == ~msLog.regranted => msLog.strayed = 0

\* The daily limits hold but for requests that overlap, what reached somebody is on record, and
\* messages about an app reach those who may open it.
MessagesOnRecord == MmsLimited /\ SharesLimited /\ ReachedIsLogged /\ SharesReachGranted
=============================================================================
