------------------------------ MODULE UserBots ------------------------------
(***************************************************************************)
(* One Telegram bot of the people who use terminals: its row in user_bots, *)
(* the webhook that Telegram has for it, and the messages that come by it  *)
(* and are passed to the owner's pod (routers/bots.py).                    *)
(*                                                                         *)
(* Registering and deleting wait for Telegram between their reads and      *)
(* their commits; a message waits for the pod.                             *)
(***************************************************************************)
EXTENDS Naturals, Sequences, FiniteSets

CONSTANTS
  UbPerson,     \* people who have the bot's token
  UbHandler,    \* handlers that can be under way
  MaxSecrets,   \* bound: registrations; each makes a secret for the webhook
  MaxUbOps,     \* bound: requests and messages
  MaxUbFaults   \* bound: failing calls of Telegram and dying replicas

ASSUME BotAssumption ==
  /\ IsFiniteSet(UbPerson) /\ UbPerson # {}
  /\ MaxSecrets \in Nat /\ MaxUbOps \in Nat /\ MaxUbFaults \in Nat

Secret == 1..MaxSecrets

VARIABLES
  bot,       \* the row for the bot's token, which is unique; the secret also tells rows apart
  webhook,   \* what Telegram has: the secret that it adds to messages, or 0
  pods,      \* people whose terminal runs
  ubTasks,   \* handlers under way
  ubLog      \* history: bounds; whether registering or deleting overlapped with another; who
             \* made a secret; messages accepted, taken by a pod (with the secret that they
             \* carried), answered by a notice, lost

ubVars == <<bot, webhook, pods, ubTasks, ubLog>>

NoBot == [owner |-> "none", secret |-> 0, status |-> "none"]
UbRest == [op |-> "idle", phase |-> "none", who |-> "none", row |-> NoBot, carried |-> 0]
BotRow == {NoBot} \cup
  [owner : UbPerson, secret : Secret, status : {"active", "error"}]

UbInit ==
  /\ bot = NoBot
  /\ webhook = 0
  /\ pods = {}
  /\ ubTasks = [h \in UbHandler |-> UbRest]
  /\ ubLog = [ops |-> 0, faults |-> 0, overlapped |-> FALSE, made |-> <<>>,
              accepted |-> 0, taken |-> {}, passed |-> 0, noticed |-> 0, lost |-> 0]

Pod(u) ==
  /\ pods' = IF u \in pods THEN pods \ {u} ELSE pods \cup {u}
  /\ UNCHANGED <<bot, webhook, ubTasks, ubLog>>

UbStart(h, task) ==
  /\ ubTasks[h].op = "idle"
  /\ ubLog.ops < MaxUbOps
  /\ ubTasks' = [ubTasks EXCEPT ![h] = task]
  /\ UNCHANGED <<bot, webhook, pods>>

UbFinish(h) == ubTasks' = [ubTasks EXCEPT ![h] = UbRest]

UbFault ==
  /\ ubLog.faults < MaxUbFaults
  /\ ubLog' = [ubLog EXCEPT !.faults = @ + 1]

Managing == \E h \in UbHandler : ubTasks[h].op \in {"register", "delete"}

Counted == [ubLog EXCEPT !.ops = @ + 1, !.overlapped = @ \/ Managing]

-----------------------------------------------------------------------------
(* Registering *)

\* getMe tells that the token is good; meanwhile nothing has been read.
BeginRegister(h, u) ==
  /\ Len(ubLog.made) < MaxSecrets
  /\ UbStart(h, [UbRest EXCEPT !.op = "register", !.phase = "insert", !.who = u])
  /\ ubLog' = Counted

\* A bot that has a row already is refused (a second insert would break its uniqueness).
Insert(h) ==
  LET s == Len(ubLog.made) + 1
      mine == [owner |-> ubTasks[h].who, secret |-> s, status |-> "active"]
  IN
  /\ ubTasks[h].phase = "insert"
  /\ IF bot = NoBot /\ s \in Secret
       THEN /\ bot' = mine
            /\ ubTasks' = [ubTasks EXCEPT ![h].phase = "hook", ![h].row = mine]
            /\ ubLog' = [ubLog EXCEPT !.made = Append(@, mine.owner)]
       ELSE UbFinish(h) /\ UNCHANGED <<bot, ubLog>>
  /\ UNCHANGED <<webhook, pods>>

\* Telegram sets the webhook, or refuses and the row says so, if it is still there.
SetWebhook(h) ==
  LET mine == ubTasks[h].row IN
  /\ ubTasks[h].phase = "hook"
  /\ \E ok \in BOOLEAN :
       /\ webhook' = IF ok THEN mine.secret ELSE webhook
       /\ bot' = IF ~ok /\ bot.secret = mine.secret THEN [bot EXCEPT !.status = "error"] ELSE bot
  /\ UbFinish(h)
  /\ UNCHANGED <<pods, ubLog>>

-----------------------------------------------------------------------------
(* Deleting *)

BeginDelete(h) ==
  /\ bot # NoBot
  /\ UbStart(h, [UbRest EXCEPT !.op = "delete", !.phase = "unhook", !.who = bot.owner, !.row = bot])
  /\ ubLog' = Counted

\* Whichever webhook the bot has by now.
DeleteWebhook(h) ==
  /\ ubTasks[h].phase = "unhook"
  /\ webhook' = 0
  /\ ubTasks' = [ubTasks EXCEPT ![h].phase = "drop"]
  /\ UNCHANGED <<bot, pods, ubLog>>

\* The row that was read, if it is still there.
DropRow(h) ==
  /\ ubTasks[h].phase = "drop"
  /\ bot' = IF bot.secret = ubTasks[h].row.secret THEN NoBot ELSE bot
  /\ UbFinish(h)
  /\ UNCHANGED <<webhook, pods, ubLog>>

-----------------------------------------------------------------------------
(* Messages *)

\* Telegram sends a message; it may be under way for a while.
BeginMessage(h) ==
  /\ webhook # 0
  /\ UbStart(h, [UbRest EXCEPT !.op = "message", !.phase = "receive", !.carried = webhook])
  /\ ubLog' = [ubLog EXCEPT !.ops = @ + 1]

\* The row is active and the message carries its secret.
Admits(carried) == bot.status = "active" /\ bot.secret = carried

\* A message that is admitted is for the owner's pod, if that runs.
Receive(h) ==
  LET t == ubTasks[h] IN
  /\ t.phase = "receive"
  /\ IF Admits(t.carried)
       THEN /\ ubTasks' = [ubTasks EXCEPT
                 ![h].phase = IF bot.owner \in pods THEN "forward" ELSE "notice",
                 ![h].row = bot]
            /\ ubLog' = [ubLog EXCEPT !.accepted = @ + 1]
       ELSE UbFinish(h) /\ UNCHANGED ubLog
  /\ UNCHANGED <<bot, webhook, pods>>

\* Mutant of Forward: an error in the pod counts as taken.
ForwardAnyhow(h) ==
  LET t == ubTasks[h] IN
  /\ t.phase = "forward"
  /\ UbFinish(h)
  /\ ubLog' = IF t.row.owner \in pods
                THEN [ubLog EXCEPT !.passed = @ + 1, !.taken = @ \cup {<<t.carried, t.row.owner>>}]
                ELSE ubLog
  /\ UNCHANGED <<bot, webhook, pods>>

\* The pod takes it, or has an error, or is gone by now.
Forward(h) ==
  LET t == ubTasks[h] IN
  /\ t.phase = "forward"
  /\ \/ /\ t.row.owner \in pods
        /\ UbFinish(h)
        /\ ubLog' = [ubLog EXCEPT !.passed = @ + 1, !.taken = @ \cup {<<t.carried, t.row.owner>>}]
     \/ /\ ubTasks' = [ubTasks EXCEPT ![h].phase = "notice"]
        /\ UNCHANGED ubLog
  /\ UNCHANGED <<bot, webhook, pods>>

\* The sender is told, which may fail.
Notice(h) ==
  /\ ubTasks[h].phase = "notice"
  /\ UbFinish(h)
  /\ \/ ubLog' = [ubLog EXCEPT !.noticed = @ + 1]
     \/ /\ ubLog.faults < MaxUbFaults
        /\ ubLog' = [ubLog EXCEPT !.faults = @ + 1, !.lost = @ + 1]
  /\ UNCHANGED <<bot, webhook, pods>>

-----------------------------------------------------------------------------
(* Faults *)

\* A call of Telegram fails, carried out or not: registering ends, deleting goes on.
TelegramFails(h) ==
  /\ UbFault
  /\ \/ /\ ubTasks[h].phase = "hook"
        /\ webhook' \in {webhook, ubTasks[h].row.secret}
        /\ UbFinish(h)
     \/ /\ ubTasks[h].phase = "unhook"
        /\ webhook' \in {webhook, 0}
        /\ ubTasks' = [ubTasks EXCEPT ![h].phase = "drop"]
  /\ UNCHANGED <<bot, pods>>

UbDies(h) ==
  /\ ubTasks[h].op # "idle" /\ ubLog.faults < MaxUbFaults
  /\ UbFinish(h)
  /\ ubLog' = [ubLog EXCEPT !.faults = @ + 1,
       !.lost = IF ubTasks[h].phase \in {"forward", "notice"} THEN @ + 1 ELSE @]
  /\ UNCHANGED <<bot, webhook, pods>>

UbNext ==
  \/ \E u \in UbPerson : Pod(u)
  \/ \E h \in UbHandler :
       \/ \E u \in UbPerson : BeginRegister(h, u)
       \/ Insert(h) \/ SetWebhook(h)
       \/ BeginDelete(h) \/ DeleteWebhook(h) \/ DropRow(h)
       \/ BeginMessage(h) \/ Receive(h) \/ Forward(h) \/ Notice(h)
       \/ TelegramFails(h) \/ UbDies(h)

UbSpec == UbInit /\ [][UbNext]_ubVars

-----------------------------------------------------------------------------
(* Properties *)

\* The type invariant.
UbTypeOK ==
  /\ bot \in BotRow
  /\ webhook \in Secret \cup {0}
  /\ pods \subseteq UbPerson
  /\ ubTasks \in [UbHandler ->
       [op : {"idle", "register", "delete", "message"},
        phase : {"none", "insert", "hook", "unhook", "drop", "receive", "forward", "notice"},
        who : UbPerson \cup {"none"}, row : BotRow, carried : Secret \cup {0}]]
  /\ ubLog.made \in Seq(UbPerson) /\ Len(ubLog.made) <= MaxSecrets

\* However registering, deleting and messages overlap, a message that was sent by one person's
\* registration of the bot never reaches the pod of the next one who registers it.
TakenByRegistrant == \A m \in ubLog.taken : ubLog.made[m[1]] = m[2]

\* While registering and deleting happen one at a time and Telegram answers, an active bot has
\* the webhook of its row, and a deleted one has none.
BotHears ==
  ~Managing /\ ~ubLog.overlapped /\ ubLog.faults = 0 =>
    /\ bot.status = "active" => webhook = bot.secret
    /\ bot = NoBot => webhook = 0

\* However pods come and go, a message that was accepted is taken by a pod or its sender is
\* told, but for those that are under way or lost in a crash or a failing call.
TakenOrTold ==
  LET underWay == {h \in UbHandler : ubTasks[h].phase \in {"forward", "notice"}} IN
  ubLog.accepted = ubLog.passed + ubLog.noticed + ubLog.lost + Cardinality(underWay)

\* A bot passes its messages to the pod of the one who registered it, for as long as it is
\* registered, or tells the sender.
MessagesArrive == TakenByRegistrant /\ BotHears /\ TakenOrTold
=============================================================================
