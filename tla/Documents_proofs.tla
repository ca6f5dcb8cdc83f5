------------------------- MODULE Documents_proofs -------------------------
(***************************************************************************)
(* Proofs about the components that keep documents and guard the way out,  *)
(* one part for each: EditSession, Sharing, Vault, FileRetention and       *)
(* OutboundProxy. They share no state. The constants are as their modules  *)
(* assume them, of any number.                                             *)
(*                                                                         *)
(* EditSession. OneWriterPerKey is not inductive by itself: what keeps a   *)
(* second save of a key from starting is the status of its row. The        *)
(* inductive invariant says that the row of a key that is being saved is   *)
(* "saving", or has been deleted by a late callback and never comes back,  *)
(* because keys are used in order and each for one row. It needs that the  *)
(* Document Server never reports statuses 3 and 10, which take a row out   *)
(* of "saving".                                                            *)
(***************************************************************************)
EXTENDS Documents, SequenceTheorems, FiniteSetTheorems, TLAPS

Task == [phase : {"writing", "written"}, key : Key, status : {2, 6}, content : SUBSET Edit]
Message == [key : Key, status : {2, 3, 4, 6, 7, 10}, content : SUBSET Edit]

\* The type invariant by groups of variables, with what it rests on: browsers that join
\* or edit have a key, and versions grow no faster than rows.
Status == {"none", "editing", "saving", "save_failed", "error"}

RowsOK ==
  /\ status \in [Key -> Status]
  /\ version \in [Key -> 0..MaxKeys]
  /\ first \in [Key -> User \cup {NoUser}]
  /\ made \in 0..MaxKeys
  /\ \A k \in Key : version[k] <= made

BrowsersOK ==
  /\ at \in [User -> {"away", "creating", "joining", "editing", "viewing"}]
  /\ key \in [User -> Key \cup {NoKey}]
  /\ editable \in [User -> BOOLEAN]
  /\ \A u \in User : at[u] \in {"joining", "editing"} => key[u] \in Key

ServerOK ==
  /\ doc \in [Key -> SUBSET Edit]
  /\ loaded \in [Key -> {"new", "open", "closed"}]
  /\ dirty \subseteq Key

NetOK == net \subseteq Message
TaskOK == task \in [Handler -> Task \cup {Idle}]
FileOK == file \subseteq Edit /\ written \subseteq Edit /\ accepted \subseteq Edit

BudgetOK ==
  budget \in [force : 0..MaxForceSaves, dup : 0..MaxDuplicates, crash : 0..MaxCrashes]

TypeInv == RowsOK /\ BrowsersOK /\ ServerOK /\ NetOK /\ TaskOK /\ FileOK /\ BudgetOK

\* Only the statuses the Document Server may report are under way.
Reported == \A m \in net : m.status \in {3, 7, 10} => m.status \in ErrorStatus

\* Rows are created in the order of their keys.
InOrder == \A k \in Key : status[k] # "none" => k <= made

\* A key being saved: its row says so, or is gone for good.
WriterHasRow ==
  \A h \in Handler :
    task[h] # Idle => /\ task[h].key <= made
                      /\ status[task[h].key] \in {"saving", "none"}

WriterInv == TypeInv /\ Reported /\ InOrder /\ WriterHasRow /\ OneWriterPerKey

----------------------------------------------------------------------------
(* Keys and versions *)

\* A set of numbers that is not empty and has a bound has a largest element.  (The
\* segments above its elements are finite, and inclusion is well-founded on those.)
LEMMA Largest ==
  ASSUME NEW N \in Nat, NEW S \in SUBSET (0..N), S # {}
  PROVE  \E k \in S : \A j \in S : j <= k
<1> DEFINE R == StrictSubsetOrdering(0..N)
<1> DEFINE T == {k..N : k \in S}
<1>1. IsWellFoundedOn(R, SUBSET (0..N))
  <2>1. IsFiniteSet(0..N)
    BY FS_Interval
  <2>2. QED
    BY <2>1, FS_StrictSubsetOrderingWellFounded, FS_FiniteSubsetsOfFinite
<1>2. T \subseteq SUBSET (0..N) /\ T # {}
  <2>1. \A k \in S : k..N \in SUBSET (0..N)
    OBVIOUS
  <2>2. QED
    BY <2>1
<1>3. PICK x \in T : \A y \in T : ~(<<y, x>> \in R)
  <2> HIDE DEF R, T
  <2> QED
    BY <1>1, <1>2, WFMin
<1>4. PICK k \in S : x = k..N
  BY <1>3
<1>5. ASSUME NEW j \in S, ~(j <= k) PROVE FALSE
  <2>1. j..N \subseteq k..N /\ k \in k..N /\ k \notin j..N
    BY <1>5
  <2>2. <<j..N, k..N>> \in R
    <3>1. j..N \in SUBSET (0..N) /\ k..N \in SUBSET (0..N)
      OBVIOUS
    <3>2. QED
      BY <2>1, <3>1 DEF StrictSubsetOrdering
  <2>3. QED
    BY <1>3, <1>4, <2>2
<1>q. QED
  BY <1>5

\* The newest of several rows is one of them.
LEMMA NewestIsOne ==
  ASSUME NEW S \in SUBSET Key, S # {}
  PROVE  Newest(S) \in S
<1>1. MaxKeys \in Nat /\ S \in SUBSET (0..MaxKeys)
  BY EditSessionAssumption DEF Key
<1>2. \E k \in S : \A j \in S : j <= k
  BY <1>1, Largest
<1>q. QED
  BY <1>2 DEF Newest

\* The next version is at most one above the number of rows ever created.
LEMMA NextVersionBound ==
  ASSUME TypeInv, made < MaxKeys
  PROVE  NextVersion \in 1..made + 1
<1> DEFINE old == {version[k] : k \in {j \in Key : status[j] # "none"}}
<1> DEFINE Fits(v) == (\A o \in old : o < v) /\ (v = 1 \/ v - 1 \in old)
<1>1. MaxKeys \in Nat /\ made \in Nat /\ old \subseteq 0..made
  BY EditSessionAssumption DEF TypeInv, RowsOK
<1>2. \E v \in 1..MaxKeys + 1 : Fits(v)
  <2>1. CASE old = {}
    <3>1. 1 \in 1..MaxKeys + 1 /\ Fits(1)
      <4> HIDE DEF old
      <4> QED
        BY <1>1, <2>1
    <3>2. QED
      BY <3>1
  <2>2. CASE old # {}
    <3>1. PICK o \in old : \A p \in old : p <= o
      <4> HIDE DEF old
      <4> QED
        BY <1>1, <2>2, Largest
    <3>2. o \in 0..made /\ o + 1 \in 1..MaxKeys + 1 /\ o + 1 - 1 = o
      <4> HIDE DEF old
      <4> QED
        BY <1>1, <3>1
    <3>3. \A p \in old : p < o + 1
      <4> HIDE DEF old
      <4> QED
        BY <1>1, <3>1
    <3>4. Fits(o + 1)
      <4> HIDE DEF old
      <4> QED
        BY <3>1, <3>2, <3>3
    <3>5. QED
      <4> HIDE DEF Fits
      <4> QED
        BY <3>2, <3>4
  <2>3. QED
    BY <2>1, <2>2
<1>3. NextVersion \in 1..MaxKeys + 1 /\ Fits(NextVersion)
  <2>1. NextVersion = CHOOSE v \in 1..MaxKeys + 1 : Fits(v)
    BY DEF NextVersion
  <2> HIDE DEF Fits
  <2>2. QED
    BY <1>2, <2>1
<1>q. QED
  <2> HIDE DEF old
  <2> QED
    BY <1>1, <1>3

----------------------------------------------------------------------------
(* Types *)

\* A step keeps the types of the variables it leaves alone.
LEMMA Frame ==
  ASSUME TypeInv
  PROVE  /\ UNCHANGED rows => RowsOK'
         /\ UNCHANGED browsers => BrowsersOK'
         /\ UNCHANGED server => ServerOK'
         /\ UNCHANGED net => NetOK'
         /\ UNCHANGED task => TaskOK'
         /\ UNCHANGED <<file, written, accepted>> => FileOK'
         /\ UNCHANGED budget => BudgetOK'
BY DEF TypeInv, rows, browsers, server, RowsOK, BrowsersOK, ServerOK, NetOK, TaskOK,
       FileOK, BudgetOK

LEMMA SpendType ==
  ASSUME BudgetOK, \/ Spend("force", MaxForceSaves)
                   \/ Spend("dup", MaxDuplicates)
                   \/ Spend("crash", MaxCrashes)
  PROVE  BudgetOK'
<1>1. {MaxForceSaves, MaxDuplicates, MaxCrashes} \subseteq Nat
  BY EditSessionAssumption
<1>2. CASE Spend("force", MaxForceSaves)
  BY <1>1, <1>2 DEF Spend, BudgetOK
<1>3. CASE Spend("dup", MaxDuplicates)
  BY <1>1, <1>3 DEF Spend, BudgetOK
<1>4. CASE Spend("crash", MaxCrashes)
  BY <1>1, <1>4 DEF Spend, BudgetOK
<1>q. QED
  BY <1>2, <1>3, <1>4

\* What the Document Server reports of an open key is a message.
LEMMA CallbackType ==
  ASSUME TypeInv, NEW k \in Key, NEW s \in {2, 3, 4, 6, 7, 10}
  PROVE  Callback(k, s) \in Message
BY DEF TypeInv, ServerOK, Callback, Message

\* A message's arrival changes the network and the budget only within their types.
LEMMA ArrivesType ==
  ASSUME TypeInv, NEW m, Arrives(m)
  PROVE  m \in Message /\ NetOK' /\ BudgetOK'
BY SpendType DEF TypeInv, NetOK, BudgetOK, Arrives

\* Marking a row, or the absence of one, keeps the rows' types.
LEMMA MarkType ==
  ASSUME TypeInv, NEW k \in Key, NEW s \in Status,
         \/ status' = [status EXCEPT ![k] = s]
         \/ SetStatus(k, s),
         UNCHANGED <<version, first, made>>
  PROVE  RowsOK'
BY DEF TypeInv, RowsOK, SetStatus

LEMMA TypeInit == Init => TypeInv
<1> SUFFICES ASSUME Init PROVE TypeInv
  OBVIOUS
<1>1. RowsOK
  BY EditSessionAssumption DEF Init, RowsOK, Status
<1>2. BrowsersOK /\ ServerOK /\ NetOK /\ TaskOK /\ FileOK
  BY DEF Init, BrowsersOK, ServerOK, NetOK, TaskOK, FileOK
<1>3. BudgetOK
  BY EditSessionAssumption DEF Init, BudgetOK
<1>q. QED
  BY <1>1, <1>2, <1>3 DEF TypeInv

LEMMA UserType ==
  ASSUME TypeInv, NEW u \in User, UserStep(u)
  PROVE  TypeInv'
<1>1. CASE OpenActive(u)
  <2>1. Newest(Active) \in Key
    <3>1. Active \subseteq Key /\ Active # {}
      BY <1>1 DEF OpenActive, Active
    <3>2. QED
      BY <3>1, NewestIsOne
  <2>2. BrowsersOK'
    <3>1. (Shared \/ first[Newest(Active)] = u) \in BOOLEAN
      BY DEF TypeInv
    <3>2. editable' \in [User -> BOOLEAN]
      BY <1>1, <3>1, ZenonT(60) DEF OpenActive, TypeInv, BrowsersOK
    <3>3. QED
      BY <1>1, <2>1, <3>2 DEF OpenActive, TypeInv, BrowsersOK
  <2>3. QED
    BY <1>1, <2>2, Frame DEF OpenActive, TypeInv, gateway
<1>2. CASE OpenMissing(u)
  <2>1. BrowsersOK'
    BY <1>2 DEF OpenMissing, TypeInv, BrowsersOK
  <2>2. QED
    BY <1>2, <2>1, Frame DEF OpenMissing, TypeInv, rows, gateway
<1>3. CASE Create(u)
  <2>1. made + 1 \in Key /\ made' \in 0..MaxKeys /\ made \in Nat /\ made' = made + 1
    BY <1>3, EditSessionAssumption DEF Create, Key, TypeInv, RowsOK
  <2>2. NextVersion \in 1..made'
    BY <1>3, <2>1, NextVersionBound DEF Create
  <2>3. RowsOK'
    <3>1. status' \in [Key -> Status] /\ first' \in [Key -> User \cup {NoUser}]
      BY <1>3, <2>1 DEF Create, TypeInv, RowsOK, Status
    <3>2. version' = [version EXCEPT ![made + 1] = NextVersion]
      BY <1>3 DEF Create
    <3>3. version' \in [Key -> 0..MaxKeys] /\ \A k \in Key : version'[k] <= made'
      BY <2>1, <2>2, <3>2, EditSessionAssumption DEF TypeInv, RowsOK
    <3>4. QED
      BY <2>1, <3>1, <3>3 DEF RowsOK
  <2>4. BrowsersOK'
    BY <1>3, <2>1 DEF Create, TypeInv, BrowsersOK
  <2>5. QED
    BY <1>3, <2>3, <2>4, Frame DEF Create, TypeInv, gateway
<1>4. CASE View(u)
  <2>1. BrowsersOK'
    BY <1>4 DEF View, TypeInv, BrowsersOK
  <2>2. QED
    BY <1>4, <2>1, Frame DEF View, TypeInv, rows, gateway
<1>5. CASE Join(u)
  <2>1. key[u] \in Key
    BY <1>5 DEF Join, TypeInv, BrowsersOK
  <2>2. BrowsersOK'
    BY <1>5, <2>1 DEF Join, TypeInv, BrowsersOK
  <2>3. ServerOK'
    BY <1>5, <2>1 DEF Join, TypeInv, ServerOK, FileOK
  <2>4. QED
    BY <1>5, <2>2, <2>3, Frame DEF Join, TypeInv, gateway
<1>6. ASSUME NEW e \in Edit, Type(u, e) PROVE TypeInv'
  <2>1. key[u] \in Key
    BY <1>6 DEF Type, TypeInv, BrowsersOK
  <2>2. ServerOK'
    BY <1>6, <2>1 DEF Type, TypeInv, ServerOK
  <2>3. QED
    BY <1>6, <2>2, Frame DEF Type, TypeInv, gateway
<1>7. CASE ForceSave(u)
  <2>1. key[u] \in Key
    BY <1>7 DEF ForceSave, TypeInv, BrowsersOK
  <2>2. NetOK'
    <3>1. PICK s \in {6} \cup ({7} \cap ErrorStatus) : net' = net \cup {Callback(key[u], s)}
      BY <1>7 DEF ForceSave
    <3>2. QED
      BY <2>1, <3>1, CallbackType DEF TypeInv, NetOK
  <2>3. BudgetOK'
    BY <1>7, SpendType DEF ForceSave, TypeInv
  <2>4. QED
    BY <1>7, <2>2, <2>3, Frame DEF ForceSave, TypeInv, gateway
<1>8. CASE Leave(u)
  <2>1. BrowsersOK'
    BY <1>8 DEF Leave, TypeInv, BrowsersOK
  <2>2. CASE UNCHANGED <<net, server>>
    BY <1>8, <2>1, <2>2, Frame DEF Leave, TypeInv, gateway
  <2>3. CASE ~(at[u] = "viewing" \/ Editors(key[u]) # {u})
    <3>1. key[u] \in Key
      BY <1>8, <2>3 DEF Leave, TypeInv, BrowsersOK
    <3>2. NetOK'
      <4>1. PICK s \in {2, 3, 4} : net' = net \cup {Callback(key[u], s)}
        BY <1>8, <2>3 DEF Leave
      <4>2. QED
        BY <3>1, <4>1, CallbackType DEF TypeInv, NetOK
    <3>3. ServerOK'
      BY <1>8, <2>3, <3>1 DEF Leave, TypeInv, ServerOK
    <3>4. QED
      BY <1>8, <2>1, <3>2, <3>3, Frame DEF Leave, TypeInv, gateway
  <2>4. QED
    BY <1>8, <2>2, <2>3 DEF Leave
<1>q. QED
  BY <1>1, <1>2, <1>3, <1>4, <1>5, <1>6, <1>7, <1>8 DEF UserStep

LEMMA ErrorType ==
  ASSUME TypeInv, NEW k \in Key, TechnicalError(k)
  PROVE  TypeInv'
<1>1. NetOK'
  BY CallbackType DEF TechnicalError, TypeInv, NetOK
<1>2. BudgetOK'
  BY SpendType DEF TechnicalError, TypeInv
<1>q. QED
  BY <1>1, <1>2, Frame DEF TechnicalError, TypeInv, gateway

LEMMA ReceiveType ==
  ASSUME TypeInv, NEW m, Receive(m)
  PROVE  TypeInv'
<1>1. Arrives(m)
  BY DEF Receive, CallbackUnknown, CallbackAlreadySaving, CallbackNoUrl, CallbackNoChange,
         CallbackError, CallbackSave
<1>2. m \in Message /\ m.key \in Key /\ m.content \subseteq Edit /\ NetOK' /\ BudgetOK'
  BY <1>1, ArrivesType DEF Message
<1>3. CASE CallbackUnknown(m) \/ CallbackAlreadySaving(m)
  <2>1. FileOK'
    BY <1>2, <1>3 DEF CallbackUnknown, CallbackAlreadySaving, Acknowledge, TypeInv, FileOK
  <2>2. QED
    BY <1>2, <1>3, <2>1, Frame DEF CallbackUnknown, CallbackAlreadySaving, TypeInv
<1>4. CASE CallbackNoUrl(m) \/ CallbackNoChange(m)
  <2>1. RowsOK'
    BY <1>2, <1>4, MarkType DEF CallbackNoUrl, CallbackNoChange, Status
  <2>2. QED
    BY <1>2, <1>4, <2>1, Frame DEF CallbackNoUrl, CallbackNoChange, TypeInv, gateway
<1>5. CASE CallbackError(m)
  <2>1. RowsOK'
    BY <1>2, <1>5, MarkType, Frame DEF CallbackError, Status, rows
  <2>2. QED
    BY <1>2, <1>5, <2>1, Frame DEF CallbackError, TypeInv, gateway
<1>6. ASSUME NEW h \in Handler, CallbackSave(h, m) PROVE TypeInv'
  <2>1. RowsOK'
    BY <1>2, <1>6, MarkType DEF CallbackSave, Status
  <2>2. TaskOK'
    BY <1>2, <1>6 DEF CallbackSave, Saves, TypeInv, TaskOK, Task
  <2>3. QED
    BY <1>2, <1>6, <2>1, <2>2, Frame DEF CallbackSave, TypeInv
<1>q. QED
  BY <1>3, <1>4, <1>5, <1>6 DEF Receive

\* A handler that is not idle has a task; nothing else tells the two apart.
LEMMA Busy ==
  ASSUME TaskOK, NEW h \in Handler
  PROVE  /\ task[h] # Idle <=> task[h] \in Task
         /\ task[h] # Idle => task[h].key \in Key
         /\ task[h].phase \in {"writing", "written"} => task[h] # Idle
BY DEF TaskOK, Task, Idle

LEMMA HandlerType ==
  ASSUME TypeInv, NEW h \in Handler, HandlerStep(h) \/ HandlerCrashes(h)
  PROVE  TypeInv'
<1>1. task[h] \in Task /\ task[h].key \in Key /\ task[h].content \subseteq Edit
  BY Busy DEF HandlerStep, Write, Saved, SaveFails, HandlerCrashes, TypeInv, Task
<1>2. CASE Write(h)
  <2>1. TaskOK'
    BY <1>1, <1>2 DEF Write, TypeInv, TaskOK, Task
  <2>2. FileOK'
    BY <1>1, <1>2 DEF Write, TypeInv, FileOK
  <2>3. QED
    BY <1>2, <2>1, <2>2, Frame DEF Write, TypeInv
<1>3. CASE task' = [task EXCEPT ![h] = Idle]
  <2>1. TaskOK'
    BY <1>3 DEF TypeInv, TaskOK
  <2>2. CASE Saved(h)
    <3>1. RowsOK'
      BY <1>1, <2>2, MarkType DEF Saved, Status
    <3>2. FileOK'
      BY <1>1, <2>2 DEF Saved, Acknowledge, TypeInv, FileOK
    <3>3. QED
      BY <2>1, <2>2, <3>1, <3>2, Frame DEF Saved, TypeInv
  <2>3. CASE SaveFails(h)
    <3>1. RowsOK'
      BY <1>1, <2>3, MarkType DEF SaveFails, Status
    <3>2. QED
      BY <2>1, <2>3, <3>1, Frame DEF SaveFails, TypeInv
  <2>4. CASE HandlerCrashes(h)
    BY <2>1, <2>4, Frame, SpendType DEF HandlerCrashes, TypeInv
  <2>5. CASE Write(h)
    BY <1>2, <2>5
  <2>6. QED
    BY <2>2, <2>3, <2>4, <2>5 DEF HandlerStep
<1>q. QED
  BY <1>2, <1>3 DEF HandlerStep, Saved, SaveFails, HandlerCrashes

LEMMA TypeStep == TypeInv /\ [Next]_vars => TypeInv'
<1> SUFFICES ASSUME TypeInv, [Next]_vars PROVE TypeInv'
  OBVIOUS
<1>1. CASE UNCHANGED vars
  BY <1>1, Frame DEF vars, gateway, TypeInv
<1>2. CASE Next
  BY <1>2, UserType, ErrorType, ReceiveType, HandlerType DEF Next
<1>q. QED
  BY <1>1, <1>2

LEMMA TypeInvImplies == TypeInv => TypeOK
<1> SUFFICES ASSUME TypeInv PROVE TypeOK
  OBVIOUS
<1>1. \A h \in Handler : task[h] = Idle \/ task[h] \in Task
  BY DEF TypeInv, TaskOK
<1>q. QED
  BY <1>1 DEF TypeInv, TypeOK, RowsOK, BrowsersOK, ServerOK, NetOK, FileOK, BudgetOK,
              Status, Message, Task

\* The rows, browsers, keys, callbacks, handlers and files of viewers.py always have
\* their types; in particular the handler that saves always knows its key and a
\* version never exceeds the number of rows created.
THEOREM EditTypeCorrect == Spec => []TypeOK
<1>1. Spec => []TypeInv
  BY TypeInit, TypeStep, PTL DEF Spec
<1>q. QED
  BY <1>1, TypeInvImplies, PTL

----------------------------------------------------------------------------
(* One writer per key *)

\* While rows, tasks, network and row count stand still, so does the invariant's rest.
LEMMA WriterFrame ==
  ASSUME WriterInv, net' \subseteq net, UNCHANGED <<rows, task>>
  PROVE  Reported' /\ InOrder' /\ WriterHasRow' /\ OneWriterPerKey'
BY DEF WriterInv, Reported, InOrder, WriterHasRow, OneWriterPerKey, rows

\* The same when a message is added that may be reported.
LEMMA WriterSends ==
  ASSUME WriterInv, UNCHANGED <<rows, task>>,
         NEW k \in Key, NEW s \in {2, 4, 6} \cup ErrorStatus,
         net' = net \cup {Callback(k, s)}
  PROVE  Reported' /\ InOrder' /\ WriterHasRow' /\ OneWriterPerKey'
<1>1. Callback(k, s).status = s
  BY DEF Callback
<1>2. Reported'
  BY <1>1 DEF WriterInv, Reported
<1>q. QED
  BY <1>2 DEF WriterInv, InOrder, WriterHasRow, OneWriterPerKey, rows

LEMMA UserWriter ==
  ASSUME WriterInv, NEW u \in User, UserStep(u)
  PROVE  Reported' /\ InOrder' /\ WriterHasRow' /\ OneWriterPerKey'
<1>1. CASE Create(u)
  <2>1. /\ made \in Nat /\ made' = made + 1
        /\ status' = [status EXCEPT ![made + 1] = "editing"]
        /\ UNCHANGED <<net, task>>
    BY <1>1, EditSessionAssumption DEF WriterInv, TypeInv, RowsOK, Create, gateway
  <2>2. Key \subseteq Nat /\ status \in [Key -> Status]
    BY EditSessionAssumption DEF Key, WriterInv, TypeInv, RowsOK
  <2>3. Reported' /\ OneWriterPerKey'
    BY <2>1 DEF WriterInv, Reported, OneWriterPerKey
  <2>4. InOrder'
    BY <2>1, <2>2 DEF WriterInv, InOrder
  <2>5. WriterHasRow'
    <3> SUFFICES ASSUME NEW h \in Handler, task[h] # Idle
                 PROVE  task[h].key <= made + 1 /\ status'[task[h].key] \in {"saving", "none"}
      BY <2>1 DEF WriterHasRow
    <3>1. task[h].key \in Key
      BY Busy DEF WriterInv, TypeInv
    <3>2. task[h].key <= made /\ status[task[h].key] \in {"saving", "none"}
      BY DEF WriterInv, WriterHasRow
    <3>3. task[h].key # made + 1
      <4>1. \A k \in Nat : k <= made => k # made + 1
        BY <2>1
      <4>2. task[h].key \in Nat
        BY <2>2, <3>1
      <4>3. QED
        BY <3>2, <4>1, <4>2
    <3>4. task[h].key <= made + 1
      <4>1. \A k \in Nat : k <= made => k <= made + 1
        BY <2>1
      <4>2. task[h].key \in Nat
        BY <2>2, <3>1
      <4>3. QED
        BY <3>2, <4>1, <4>2
    <3>5. status'[task[h].key] = status[task[h].key]
      BY <2>1, <2>2, <3>1, <3>3
    <3>6. QED
      BY <3>2, <3>4, <3>5
  <2>6. QED
    BY <2>3, <2>4, <2>5
<1>2. CASE OpenActive(u) \/ OpenMissing(u) \/ View(u) \/ Join(u)
  BY <1>2, WriterFrame DEF OpenActive, OpenMissing, View, Join, gateway, rows
<1>3. ASSUME NEW e \in Edit, Type(u, e)
      PROVE  Reported' /\ InOrder' /\ WriterHasRow' /\ OneWriterPerKey'
  BY <1>3, WriterFrame DEF Type, gateway
<1>4. CASE ForceSave(u)
  <2>1. key[u] \in Key
    BY <1>4 DEF ForceSave, WriterInv, TypeInv, BrowsersOK
  <2>2. \E s \in {2, 4, 6} \cup ErrorStatus : net' = net \cup {Callback(key[u], s)}
    BY <1>4 DEF ForceSave
  <2>3. UNCHANGED <<rows, task>>
    BY <1>4 DEF ForceSave, gateway
  <2>4. QED
    BY <2>1, <2>2, <2>3, WriterSends
<1>5. CASE Leave(u)
  <2>1. UNCHANGED <<rows, task>>
    BY <1>5 DEF Leave, gateway
  <2>2. CASE UNCHANGED net
    BY <2>1, <2>2, WriterFrame
  <2>3. CASE ~(at[u] = "viewing" \/ Editors(key[u]) # {u})
    <3>1. key[u] \in Key
      BY <1>5, <2>3 DEF Leave, WriterInv, TypeInv, BrowsersOK
    <3>2. \E s \in {2, 4, 6} \cup ErrorStatus : net' = net \cup {Callback(key[u], s)}
      BY <1>5, <2>3 DEF Leave
    <3>3. QED
      BY <2>1, <3>1, <3>2, WriterSends
  <2>4. QED
    BY <1>5, <2>2, <2>3 DEF Leave
<1>q. QED
  BY <1>1, <1>2, <1>3, <1>4, <1>5 DEF UserStep

\* Where the assumption on the reported errors counts: no error callback takes a row
\* out of "saving" while its handler is still at work.
LEMMA ReceiveWriter ==
  ASSUME WriterInv, ErrorStatus \subseteq {7}, NEW m \in net, Receive(m)
  PROVE  Reported' /\ InOrder' /\ WriterHasRow' /\ OneWriterPerKey'
<1>1. Arrives(m)
  BY DEF Receive, CallbackUnknown, CallbackAlreadySaving, CallbackNoUrl, CallbackNoChange,
         CallbackError, CallbackSave
<1>2. m.key \in Key /\ net' \subseteq net
  BY <1>1 DEF Arrives, WriterInv, TypeInv, NetOK, Message
<1>3. Reported'
  BY <1>2 DEF WriterInv, Reported
<1>4. status \in [Key -> Status]
  BY DEF WriterInv, TypeInv, RowsOK
<1>5. CASE CallbackUnknown(m) \/ CallbackAlreadySaving(m)
  BY <1>2, <1>5, WriterFrame DEF CallbackUnknown, CallbackAlreadySaving
<1>6. CASE CallbackNoUrl(m) \/ CallbackNoChange(m)
  <2>1. /\ status[m.key] # "none" /\ UNCHANGED <<made, task>>
        /\ \/ status[m.key] # "saving" /\ status' = [status EXCEPT ![m.key] = "save_failed"]
           \/ status' = [status EXCEPT ![m.key] = "none"]
    BY <1>6 DEF CallbackNoUrl, CallbackNoChange, gateway
  <2>2. InOrder'
    BY <1>2, <1>4, <2>1 DEF WriterInv, InOrder
  <2>3. WriterHasRow'
    <3> SUFFICES ASSUME NEW h \in Handler, task[h] # Idle
                 PROVE  task[h].key <= made /\ status'[task[h].key] \in {"saving", "none"}
      BY <2>1 DEF WriterHasRow
    <3>1. task[h].key \in Key
      BY Busy DEF WriterInv, TypeInv
    <3>2. QED
      BY <1>2, <1>4, <2>1, <3>1 DEF WriterInv, WriterHasRow
  <2>4. OneWriterPerKey'
    BY <2>1 DEF WriterInv, OneWriterPerKey
  <2>5. QED
    BY <1>3, <2>2, <2>3, <2>4
<1>7. CASE CallbackError(m)
  <2>1. m.status = 7
    BY <1>7 DEF CallbackError, WriterInv, Reported
  <2>2. QED
    BY <1>2, <1>7, <2>1, WriterFrame DEF CallbackError, rows, gateway
<1>8. ASSUME NEW h \in Handler, CallbackSave(h, m)
      PROVE  Reported' /\ InOrder' /\ WriterHasRow' /\ OneWriterPerKey'
  <2> DEFINE t == [phase |-> "writing", key |-> m.key, status |-> m.status,
                   content |-> m.content]
  <2>1. /\ status[m.key] \notin {"none", "saving"} /\ UNCHANGED made
        /\ status' = [status EXCEPT ![m.key] = "saving"]
        /\ task' = [task EXCEPT ![h] = t]
    BY <1>8 DEF CallbackSave
  <2>2. InOrder'
    BY <1>2, <1>4, <2>1 DEF WriterInv, InOrder
  <2>3. \A g \in Handler : task[g] # Idle => task[g].key # m.key
    BY <2>1 DEF WriterInv, WriterHasRow
  <2>4. \A g \in Handler : /\ g = h => task'[g].key = m.key
                           /\ g # h => task'[g] = task[g]
    BY <2>1 DEF WriterInv, TypeInv, TaskOK
  <2>5. m.key <= made
    BY <1>2, <2>1 DEF WriterInv, InOrder
  <2>6. WriterHasRow'
    <3> SUFFICES ASSUME NEW g \in Handler, task'[g] # Idle
                 PROVE  /\ task'[g].key <= made
                        /\ status'[task'[g].key] \in {"saving", "none"}
      BY <2>1 DEF WriterHasRow
    <3>1. CASE g = h
      BY <1>2, <1>4, <2>1, <2>4, <2>5, <3>1
    <3>2. CASE g # h
      <4>1. task[g] # Idle /\ task'[g] = task[g] /\ task[g].key \in Key
        BY <2>4, <3>2, Busy DEF WriterInv, TypeInv
      <4>2. QED
        BY <1>2, <1>4, <2>1, <4>1 DEF WriterInv, WriterHasRow
    <3>3. QED
      BY <3>1, <3>2
  <2>7. OneWriterPerKey'
    <3> SUFFICES ASSUME NEW f \in Handler, NEW g \in Handler,
                        task'[f] # Idle, task'[f].key = task'[g].key, f # g
                 PROVE  FALSE
      BY DEF OneWriterPerKey
    <3>1. CASE f # h /\ g # h
      BY <2>4, <3>1 DEF WriterInv, OneWriterPerKey
    <3>2. CASE f # h /\ g = h
      BY <2>3, <2>4, <3>2
    <3>3. CASE f = h /\ g # h
      <4>1. task[g].key = m.key
        BY <2>4, <3>3
      <4>2. task[g] = Idle
        BY <2>3, <4>1
      <4>3. QED
        BY <1>2, <4>1, <4>2, EditSessionAssumption DEF Idle
    <3>4. QED
      BY <3>1, <3>2, <3>3
  <2>8. QED
    BY <1>3, <2>2, <2>6, <2>7
<1>q. QED
  BY <1>5, <1>6, <1>7, <1>8 DEF Receive

LEMMA HandlerWriter ==
  ASSUME WriterInv, NEW h \in Handler, HandlerStep(h) \/ HandlerCrashes(h)
  PROVE  Reported' /\ InOrder' /\ WriterHasRow' /\ OneWriterPerKey'
<1>1. task[h] # Idle /\ task[h] \in Task /\ task[h].key \in Key
  BY Busy DEF HandlerStep, Write, Saved, SaveFails, HandlerCrashes, WriterInv, TypeInv
<1>2. \/ /\ task' = [task EXCEPT ![h] = Idle]
         /\ \E s \in Status : SetStatus(task[h].key, s) \/ UNCHANGED status
      \/ /\ task' = [task EXCEPT ![h].phase = "written"]
         /\ UNCHANGED status
  BY DEF HandlerStep, Write, Saved, SaveFails, HandlerCrashes, rows, Status
<1>3. UNCHANGED <<made, net>>
  BY DEF HandlerStep, Write, Saved, SaveFails, HandlerCrashes, rows
<1>4. \A g \in Handler :
        /\ g # h => task'[g] = task[g]
        /\ g = h => task'[g] = Idle \/ (task'[g].key = task[h].key /\ UNCHANGED status)
  BY <1>1, <1>2 DEF WriterInv, TypeInv, TaskOK, Task
<1>5. \A k \in Key :
        /\ k # task[h].key => status'[k] = status[k]
        /\ status[k] = "none" => status'[k] = "none"
  BY <1>1, <1>2 DEF SetStatus, WriterInv, TypeInv, RowsOK
<1>6. Reported'
  BY <1>3 DEF WriterInv, Reported
<1>7. InOrder'
  <2> SUFFICES ASSUME NEW k \in Key, status'[k] # "none" PROVE k <= made
    BY <1>3 DEF InOrder
  <2>1. status[k] # "none"
    BY <1>1, <1>5
  <2>2. QED
    BY <2>1 DEF WriterInv, InOrder
<1>8. \A g \in Handler : g # h /\ task[g] # Idle => task[g].key # task[h].key
  BY <1>1 DEF WriterInv, OneWriterPerKey
<1>9. WriterHasRow'
  <2> SUFFICES ASSUME NEW g \in Handler, task'[g] # Idle
               PROVE  /\ task'[g].key <= made
                      /\ status'[task'[g].key] \in {"saving", "none"}
    BY <1>3 DEF WriterHasRow
  <2>1. CASE g = h
    BY <1>1, <1>4, <2>1 DEF WriterInv, WriterHasRow
  <2>2. CASE g # h
    <3>1. task[g] # Idle /\ task'[g] = task[g] /\ task[g].key \in Key
      BY <1>4, <2>2, Busy DEF WriterInv, TypeInv
    <3>2. task[g].key <= made /\ status[task[g].key] \in {"saving", "none"}
      BY <3>1 DEF WriterInv, WriterHasRow
    <3>3. status'[task[g].key] = status[task[g].key]
      BY <1>5, <1>8, <2>2, <3>1
    <3>4. QED
      BY <3>1, <3>2, <3>3
  <2>3. QED
    BY <2>1, <2>2
<1>10. OneWriterPerKey'
  <2> SUFFICES ASSUME NEW f \in Handler, NEW g \in Handler,
                      task'[f] # Idle, task'[f].key = task'[g].key, f # g
               PROVE  FALSE
    BY DEF OneWriterPerKey
  <2>1. CASE f # h /\ g # h
    BY <1>4, <2>1 DEF WriterInv, OneWriterPerKey
  <2>2. CASE f = h /\ g # h
    <3>1. task'[f].key = task[h].key /\ task'[g] = task[g]
      BY <1>4, <2>2
    <3>2. task[h].key = task[g].key
      BY <3>1
    <3>3. QED
      BY <1>1, <2>2, <3>2 DEF WriterInv, OneWriterPerKey
  <2>3. CASE f # h /\ g = h
    <3>1. task[f] # Idle /\ task'[f] = task[f] /\ task[f].key \in Key
      BY <1>4, <2>3, Busy DEF WriterInv, TypeInv
    <3>2. task'[g].key = task[h].key
      BY <1>4, <2>3, <3>1, EditSessionAssumption DEF Idle
    <3>3. QED
      BY <1>8, <2>3, <3>1, <3>2
  <2>4. QED
    BY <2>1, <2>2, <2>3
<1>q. QED
  BY <1>6, <1>7, <1>9, <1>10

LEMMA WriterStep ==
  ASSUME WriterInv, ErrorStatus \subseteq {7}, [Next]_vars
  PROVE  WriterInv'
<1>1. TypeInv'
  BY TypeStep DEF WriterInv
<1>2. Reported' /\ InOrder' /\ WriterHasRow' /\ OneWriterPerKey'
  <2>1. CASE UNCHANGED vars
    BY <2>1, WriterFrame DEF vars, gateway
  <2>2. CASE \E u \in User : UserStep(u)
    BY <2>2, UserWriter
  <2>3. CASE \E k \in Key : TechnicalError(k)
    BY <2>3 DEF TechnicalError
  <2>4. CASE \E m \in net : Receive(m)
    BY <2>4, ReceiveWriter
  <2>5. CASE \E h \in Handler : HandlerStep(h) \/ HandlerCrashes(h)
    BY <2>5, HandlerWriter
  <2>6. QED
    BY <2>1, <2>2, <2>3, <2>4, <2>5 DEF Next
<1>q. QED
  BY <1>1, <1>2 DEF WriterInv

LEMMA WriterInit == Init => WriterInv
<1> SUFFICES ASSUME Init PROVE WriterInv
  OBVIOUS
<1>1. TypeInv
  BY TypeInit
<1>2. Reported /\ InOrder /\ WriterHasRow /\ OneWriterPerKey
  BY DEF Init, Reported, InOrder, WriterHasRow, OneWriterPerKey
<1>q. QED
  BY <1>1, <1>2 DEF WriterInv

\* onlyoffice_callback never saves one key twice at the same time, however many
\* replicas receive its callbacks and however often: provided the Document Server
\* reports no error (3 or 10) for a key in the middle of a save.
THEOREM OneWriter ==
  ASSUME ErrorStatus \subseteq {7}
  PROVE  Spec => []OneWriterPerKey
<1>1. WriterInv /\ [Next]_vars => WriterInv'
  BY WriterStep
<1>2. WriterInv => OneWriterPerKey
  BY DEF WriterInv
<1>q. QED
  BY WriterInit, <1>1, <1>2, PTL DEF Spec

----------------------------------------------------------------------------
(* A row being saved has its handler *)

SavingInv == TypeInv /\ SavingHasWriter

LEMMA SavingStep ==
  ASSUME SavingInv, [Next]_vars
  PROVE  SavingHasWriter'
<1> USE DEF SavingInv
<1> SUFFICES ASSUME budget'.crash = 0, NEW k \in Key, status'[k] = "saving"
             PROVE  \E h \in Handler : task'[h].key = k
  BY DEF SavingHasWriter
<1>1. status \in [Key -> Status] /\ task \in [Handler -> Task \cup {Idle}]
  BY DEF TypeInv, RowsOK, TaskOK
<1>2. budget.crash \in Nat /\ budget \in [{"force", "dup", "crash"} -> Int]
  BY EditSessionAssumption DEF TypeInv, BudgetOK
<1>3. CASE UNCHANGED <<task, status>> /\ budget.crash = 0
  BY <1>3 DEF SavingHasWriter
<1>4. CASE UNCHANGED vars
  BY <1>3, <1>4 DEF vars, rows, gateway
<1>5. ASSUME NEW u \in User, UserStep(u)
      PROVE  \E h \in Handler : task'[h].key = k
  <2>1. UNCHANGED task /\ budget'.crash = budget.crash
    BY <1>2, <1>5 DEF UserStep, OpenActive, OpenMissing, Create, View, Join, Type, ForceSave,
                      Leave, gateway, Spend
  <2>2. status'[k] = "saving" => status[k] = "saving"
    BY <1>1, <1>5 DEF UserStep, OpenActive, OpenMissing, Create, View, Join, Type, ForceSave,
                      Leave, rows
  <2>3. QED
    BY <2>1, <2>2 DEF SavingHasWriter
<1>6. ASSUME NEW j \in Key, TechnicalError(j)
      PROVE  \E h \in Handler : task'[h].key = k
  BY <1>2, <1>3, <1>6 DEF TechnicalError, Spend, rows, gateway
<1>7. ASSUME NEW m \in net, Receive(m)
      PROVE  \E h \in Handler : task'[h].key = k
  <2>1. budget'.crash = budget.crash
    BY <1>2, <1>7 DEF Receive, CallbackUnknown, CallbackAlreadySaving, CallbackNoUrl,
                      CallbackNoChange, CallbackError, CallbackSave, Arrives, Spend
  <2>2. CASE \E h \in Handler : CallbackSave(h, m)
    <3>1. PICK h \in Handler : CallbackSave(h, m)
      BY <2>2
    <3>2. CASE k = m.key
      <4>1. task'[h].key = m.key
        BY <1>1, <3>1 DEF CallbackSave
      <4>2. QED
        BY <3>2, <4>1
    <3>3. CASE k # m.key
      <4>1. status[k] = "saving"
        BY <1>1, <3>1, <3>3 DEF CallbackSave
      <4>2. PICK g \in Handler : task[g].key = k
        BY <2>1, <4>1 DEF SavingHasWriter
      <4>3. g # h
        BY <3>1, <4>2, EditSessionAssumption DEF CallbackSave, Idle
      <4>4. QED
        BY <1>1, <3>1, <4>2, <4>3 DEF CallbackSave
    <3>4. QED
      BY <3>2, <3>3
  <2>3. CASE ~ \E h \in Handler : CallbackSave(h, m)
    <3>1. UNCHANGED task /\ (status'[k] = "saving" => status[k] = "saving")
      BY <1>1, <1>7, <2>3 DEF Receive, CallbackUnknown, CallbackAlreadySaving, CallbackNoUrl,
                              CallbackNoChange, CallbackError, rows, gateway
    <3>2. QED
      BY <2>1, <3>1 DEF SavingHasWriter
  <2>4. QED
    BY <2>2, <2>3
<1>8. ASSUME NEW h \in Handler, HandlerStep(h)
      PROVE  \E g \in Handler : task'[g].key = k
  <2>1. UNCHANGED budget /\ task[h] \in Task
    BY <1>8, Busy DEF HandlerStep, Write, Saved, SaveFails, TypeInv
  <2>2. CASE Write(h)
    <3>1. UNCHANGED status /\ \A g \in Handler : task'[g].key = task[g].key
      BY <1>1, <2>1, <2>2 DEF Write, rows, Task
    <3>2. QED
      BY <2>1, <3>1 DEF SavingHasWriter
  <2>3. CASE Saved(h) \/ SaveFails(h)
    <3>1. PICK s \in {"none", "editing", "save_failed"} : SetStatus(task[h].key, s)
      BY <2>3 DEF Saved, SaveFails
    <3>2. status[k] = "saving" /\ k # task[h].key
      BY <1>1, <3>1 DEF SetStatus
    <3>3. PICK g \in Handler : task[g].key = k
      BY <2>1, <3>2 DEF SavingHasWriter
    <3>4. task'[g] = task[g]
      BY <1>1, <2>3, <3>2, <3>3 DEF Saved, SaveFails
    <3>5. QED
      BY <3>3, <3>4
  <2>4. QED
    BY <1>8, <2>2, <2>3 DEF HandlerStep
<1>9. ASSUME NEW h \in Handler, HandlerCrashes(h) PROVE FALSE
  <2>1. budget'.crash = budget.crash + 1
    BY <1>2, <1>9 DEF HandlerCrashes, Spend
  <2>2. QED
    BY <1>2, <2>1
<1>q. QED
  BY <1>4, <1>5, <1>6, <1>7, <1>8, <1>9 DEF Next

\* A row of edit_sessions is "saving" only while some handler is in the middle of
\* _save_edited_file for it, whatever errors are reported: only a replica that dies
\* there leaves such a row behind.
THEOREM SavingWriter == Spec => []SavingHasWriter
<1>1. Init => SavingInv
  BY TypeInit DEF Init, SavingInv, SavingHasWriter
<1>2. SavingInv /\ [Next]_vars => SavingInv'
  BY TypeStep, SavingStep DEF SavingInv
<1>3. SavingInv => SavingHasWriter
  BY DEF SavingInv
<1>q. QED
  BY <1>1, <1>2, <1>3, PTL DEF Spec

-----------------------------------------------------------------------------
(***************************************************************************)
(* Sharing. DoorsAgree follows from what rows can name and from the type   *)
(* of the state. OneLiveGrant needs that a request which runs alone still  *)
(* finds no live grant of its key when it inserts one (OneRequestAtATime). *)
(***************************************************************************)
Grant == [key : Keys, live : BOOLEAN]

\* A request that is about to insert has its row's place kept.
PlacesKept == Len(grants) + Cardinality(Granting) <= MaxGrants

\* While requests come one at a time, the one under way still finds no live grant of its key.
OneRequestAtATime ==
  ~shClash => /\ \A g, h \in Granting : g = h
              /\ \A h \in Granting : ~Live(granting[h])

\* At most one live row for each key, said without counting.
Single == \A i, j \in DOMAIN grants :
            grants[i].live /\ grants[j].live /\ grants[i].key = grants[j].key => i = j

\* The invariant of grants.
GrantCore == ShTypeOK /\ PlacesKept /\ OneRequestAtATime /\ (~shClash => Single)

-----------------------------------------------------------------------------

\* No grant is asked for under the key that stands for no grant.
LEMMA NothingIsNoKey == Nothing \notin Keys
<1>1. \A res, kind, value : GrantKey(res, kind, value).res = res
  BY DEF GrantKey
<1>2. \A k \in Keys : k.res = "app" \/ k.res = "data"
  BY <1>1 DEF Keys, AppKeys, DataKeys
<1>3. Nothing.res = "none"
  BY DEF Nothing
<1>4. QED
  BY <1>2, <1>3

\* The rows, one by one.
LEMMA GrantTypes ==
  ASSUME ShTypeOK
  PROVE  /\ grants \in Seq(Grant) /\ Len(grants) \in Nat /\ DOMAIN grants = 1..Len(grants)
         /\ \A i \in DOMAIN grants : grants[i] \in Grant /\ grants[i].key \in Keys
<1>1. grants \in Seq(Grant)
  BY DEF ShTypeOK, Grant
<1>2. \A i \in DOMAIN grants : grants[i] \in Grant
  BY <1>1
<1>3. \A g \in Grant : g.key \in Keys
  BY DEF Grant
<1>4. QED
  BY <1>1, <1>2, <1>3

\* Requests under way can be counted.
LEMMA GrantingIsFinite == IsFiniteSet(Granting) /\ Cardinality(Granting) \in Nat
<1>1. IsFiniteSet(Granting)
  BY SharingAssumption, FS_Subset DEF Granting
<1>2. QED
  BY <1>1, FS_CardinalityType

\* A set has at most one element when it has no two.
LEMMA FewRows ==
  /\ \A S : (\A i, j \in S : i = j) => IsFiniteSet(S) /\ Cardinality(S) <= 1
  /\ \A S : IsFiniteSet(S) /\ Cardinality(S) <= 1 => \A i, j \in S : i = j
<1>1. ASSUME NEW S, \A i, j \in S : i = j PROVE IsFiniteSet(S) /\ Cardinality(S) <= 1
  <2>1. CASE S = {}
    BY <2>1, FS_EmptySet
  <2>2. CASE S # {}
    <3>1. PICK i : S = {i}
      BY <1>1, <2>2
    <3>2. IsFiniteSet({i}) /\ Cardinality({i}) = 1
      BY FS_Singleton
    <3>3. QED
      BY <3>1, <3>2
  <2>3. QED
    BY <2>1, <2>2
<1>2. ASSUME NEW S, IsFiniteSet(S), Cardinality(S) <= 1 PROVE \A i, j \in S : i = j
  <2>1. Cardinality(S) = 0 \/ Cardinality(S) = 1
    BY <1>2, FS_CardinalityType
  <2>2. CASE Cardinality(S) = 0
    BY <1>2, <2>2, FS_EmptySet
  <2>3. CASE Cardinality(S) = 1
    <3>1. PICK x : S = {x}
      BY <1>2, <2>3, FS_Singleton
    <3>2. QED
      BY <3>1
  <2>4. QED
    BY <2>1, <2>2, <2>3
<1>3. QED
  BY <1>1, <1>2

\* The two ways to say it agree.
LEMMA SingleIsOne ==
  ASSUME ShTypeOK
  PROVE  Single <=> \A k \in Keys : Cardinality(LiveRows(k)) <= 1
<1>1. \A k : IsFiniteSet(LiveRows(k))
  <2>1. DOMAIN grants = 1..Len(grants) /\ Len(grants) \in Nat
    BY DEF ShTypeOK
  <2>2. IsFiniteSet(1..Len(grants))
    BY <2>1, FS_Interval
  <2>3. QED
    BY <2>1, <2>2, FS_Subset DEF LiveRows
<1>2. \A i \in DOMAIN grants : grants[i].key \in Keys
  BY GrantTypes
<1>3. ASSUME Single, NEW k \in Keys PROVE Cardinality(LiveRows(k)) <= 1
  <2>1. \A i, j \in LiveRows(k) : i = j
    BY <1>3 DEF Single, LiveRows
  <2>2. QED
    BY <2>1, FewRows
<1>4. ASSUME \A k \in Keys : Cardinality(LiveRows(k)) <= 1 PROVE Single
  <2> SUFFICES ASSUME NEW i \in DOMAIN grants, NEW j \in DOMAIN grants,
                      grants[i].live, grants[j].live, grants[i].key = grants[j].key
               PROVE  i = j
    BY DEF Single
  <2>1. PICK k \in Keys : k = grants[i].key
    BY <1>2
  <2>2. i \in LiveRows(k) /\ j \in LiveRows(k)
    BY <2>1 DEF LiveRows
  <2>3. QED
    BY <1>1, <1>4, <2>2, FewRows
<1>5. QED
  BY <1>3, <1>4

\* No grant, no request.
LEMMA GrantCoreOK == ShInit => GrantCore
<1> SUFFICES ASSUME ShInit PROVE GrantCore
  OBVIOUS
<1>1. ShTypeOK
  <2>1. PICK u \in ShUnits :
          people = [p \in ShPeople |-> [approved |-> TRUE, unit |-> [g \in ShGroups |-> u]]]
    BY DEF ShInit
  <2>2. people \in [ShPeople -> [approved : BOOLEAN, unit : [ShGroups -> ShUnits]]]
    BY <2>1
  <2>3. QED
    <3>1. grants = <<>> /\ Len(grants) = 0
      BY DEF ShInit
    <3>2. MaxGrants \in Nat /\ "running" \in ShStates
      BY SharingAssumption
    <3>3. grants \in Seq([key : Keys, live : BOOLEAN]) /\ Len(grants) <= MaxGrants
      BY <3>1, <3>2
    <3>4. granting \in [ShHandler -> Keys \cup {Nothing}]
      BY DEF ShInit
    <3>5. QED
      BY <2>2, <3>2, <3>3, <3>4 DEF ShInit, ShTypeOK
<1>2. Granting = {}
  BY DEF ShInit, Granting
<1>3. PlacesKept
  BY <1>2, FS_EmptySet, SharingAssumption DEF PlacesKept, ShInit
<1>4. QED
  BY <1>1, <1>2, <1>3 DEF GrantCore, OneRequestAtATime, Single, ShInit

\* Rows only lose their mark: by a revocation of one or of several.
LEMMA RowsDie ==
  ASSUME GrantCore, NEW ids, grants' = Dead(ids), UNCHANGED <<granting, shStatus, people, shClash>>
  PROVE  GrantCore'
<1>1. /\ DOMAIN grants' = DOMAIN grants /\ Len(grants') = Len(grants)
      /\ \A i \in DOMAIN grants : grants'[i] \in Grant /\ grants'[i].key = grants[i].key
                                  /\ (grants'[i].live => grants[i].live)
      /\ grants' \in Seq(Grant)
  <2>1. grants \in Seq(Grant) /\ DOMAIN grants = 1..Len(grants) /\ Len(grants) \in Nat
    BY DEF GrantCore, ShTypeOK, Grant
  <2>2. \A i \in DOMAIN grants : grants'[i] = IF i \in ids THEN [grants[i] EXCEPT !.live = FALSE]
                                              ELSE grants[i]
    BY DEF Dead
  <2>3. \A i \in DOMAIN grants : grants[i] \in Grant
    BY <2>1
  <2>4. ASSUME NEW i \in DOMAIN grants
        PROVE  grants'[i] \in Grant /\ grants'[i].key = grants[i].key
               /\ (grants'[i].live => grants[i].live)
    BY <2>2, <2>3 DEF Grant
  <2>5. DOMAIN grants' = DOMAIN grants
    BY DEF Dead
  <2>6. grants' \in [1..Len(grants) -> Grant]
    BY <2>1, <2>4 DEF Dead
  <2>7. grants' \in Seq(Grant) /\ Len(grants') = Len(grants)
    BY <2>1, <2>6
  <2>8. QED
    BY <2>4, <2>5, <2>7
<1>2. ShTypeOK'
  BY <1>1 DEF GrantCore, ShTypeOK, Grant
<1>3. \A k : Live(k)' => Live(k)
  BY <1>1 DEF Live, LiveRows
<1>4. Granting' = Granting
  BY DEF Granting
<1>5. PlacesKept' /\ OneRequestAtATime'
  BY <1>1, <1>3, <1>4 DEF GrantCore, PlacesKept, OneRequestAtATime
<1>6. shClash' = shClash /\ (Single => Single')
  BY <1>1 DEF Single
<1>7. QED
  BY <1>2, <1>5, <1>6 DEF GrantCore

\* A request that begins alone has found no live grant of its key.
LEMMA BeginGrantOK ==
  ASSUME GrantCore, NEW h \in ShHandler, NEW k \in Keys, BeginGrant(h, k)
  PROVE  GrantCore'
<1>1. /\ granting \in [ShHandler -> Keys \cup {Nothing}] /\ Len(grants) \in Nat
      /\ shClash \in BOOLEAN /\ MaxGrants \in Nat
  BY SharingAssumption DEF GrantCore, ShTypeOK
<1>2. \A g \in ShHandler : granting'[g] = IF g = h THEN k ELSE granting[g]
  BY <1>1 DEF BeginGrant
<1>3. Granting' = Granting \cup {h} /\ h \notin Granting
  BY <1>2, NothingIsNoKey DEF Granting, BeginGrant
<1>4. Cardinality(Granting') = Cardinality(Granting) + 1
  BY <1>3, GrantingIsFinite, FS_AddElement
<1>5. PlacesKept'
  BY <1>1, <1>4, GrantingIsFinite DEF PlacesKept, BeginGrant
<1>6. ShTypeOK'
  BY <1>1 DEF GrantCore, ShTypeOK, BeginGrant
<1>7. \A j : LiveRows(j)' = LiveRows(j)
  BY DEF LiveRows, BeginGrant
<1>8. OneRequestAtATime'
  <2> SUFFICES ASSUME ~shClash'
               PROVE  (/\ \A f, g \in Granting : f = g
                       /\ \A g \in Granting : ~Live(granting[g]))'
    BY DEF OneRequestAtATime
  <2>1. Granting = {}
    BY DEF BeginGrant
  <2>2. ~Live(k)'
    BY <1>7 DEF Live, BeginGrant
  <2>3. (\A g \in Granting : g = h /\ granting[g] = k)'
    BY <1>2, <1>3, <2>1
  <2>4. QED
    BY <2>2, <2>3
<1>9. ~shClash' => Single'
  BY DEF GrantCore, Single, BeginGrant
<1>10. QED
  BY <1>5, <1>6, <1>8, <1>9 DEF GrantCore

\* A grant that is stored by the only request under way is the only one of its key.
LEMMA StoreGrantOK ==
  ASSUME GrantCore, NEW h \in ShHandler, StoreGrant(h)
  PROVE  GrantCore'
<1>1. /\ granting \in [ShHandler -> Keys \cup {Nothing}] /\ Len(grants) \in Nat
      /\ grants \in Seq(Grant) /\ shClash \in BOOLEAN /\ MaxGrants \in Nat
  BY SharingAssumption DEF GrantCore, ShTypeOK, Grant
<1>2. PICK k \in Keys : k = granting[h]
  BY <1>1 DEF StoreGrant
<1>3. \A g \in ShHandler : granting'[g] = IF g = h THEN Nothing ELSE granting[g]
  BY <1>1 DEF StoreGrant
<1>4. Granting' = Granting \ {h} /\ h \in Granting
  BY <1>3 DEF Granting, StoreGrant
<1>5. Cardinality(Granting') = Cardinality(Granting) - 1
  BY <1>4, GrantingIsFinite, FS_RemoveElement
<1> DEFINE new == [key |-> k, live |-> TRUE]
<1>6. new \in Grant /\ new.key = k /\ new.live
  BY DEF Grant
<1>7. grants' = Append(grants, new)
  BY <1>2 DEF StoreGrant
<1> HIDE DEF new
<1> PICK n : n = Len(grants) + 1
  OBVIOUS
<1>8. /\ Len(grants') = n /\ grants' \in Seq(Grant) /\ n \notin DOMAIN grants
      /\ DOMAIN grants' = DOMAIN grants \cup {n}
      /\ \A i \in DOMAIN grants : grants'[i] = grants[i]
  BY <1>1, <1>6, <1>7
<1>9. grants'[n] = new
  BY <1>1, <1>7
<1>10. PlacesKept'
  BY <1>1, <1>5, <1>8, GrantingIsFinite DEF PlacesKept, GrantCore
<1>11. n <= MaxGrants
  <2>1. Cardinality(Granting) >= 1
    <3>1. Granting # {}
      BY <1>4
    <3>2. Cardinality(Granting) # 0
      BY <3>1, GrantingIsFinite, FS_EmptySet
    <3>3. QED
      BY <3>2, GrantingIsFinite
  <2>2. QED
    BY <1>1, <2>1, GrantingIsFinite DEF PlacesKept, GrantCore
<1>12. ShTypeOK'
  <2>1. granting' \in [ShHandler -> Keys \cup {Nothing}]
    BY <1>1 DEF StoreGrant
  <2>2. QED
    BY <1>8, <1>11, <2>1 DEF GrantCore, ShTypeOK, Grant, StoreGrant
<1>13. ASSUME ~shClash' PROVE Granting' = {} /\ Single'
  <2>1. ~shClash /\ ~Live(k) /\ Single /\ \A g \in Granting : g = h
    BY <1>2, <1>4, <1>13 DEF GrantCore, OneRequestAtATime, StoreGrant
  <2>2. \A i \in DOMAIN grants : grants[i].live => grants[i].key # k
    BY <2>1 DEF Live, LiveRows
  <2>3. QED
    BY <1>4, <1>6, <1>8, <1>9, <2>1, <2>2 DEF Single
<1>14. QED
  BY <1>10, <1>12, <1>13 DEF GrantCore, OneRequestAtATime

\* Every step keeps it.
LEMMA GrantStep == GrantCore /\ [ShNext]_shVars => GrantCore'
<1> SUFFICES ASSUME GrantCore, [ShNext]_shVars PROVE GrantCore'
  OBVIOUS
<1>1. ASSUME NEW h \in ShHandler, NEW k \in Keys, BeginGrant(h, k) PROVE GrantCore'
  BY <1>1, BeginGrantOK
<1>2. ASSUME NEW h \in ShHandler, StoreGrant(h) PROVE GrantCore'
  BY <1>2, StoreGrantOK
<1>3. ASSUME NEW i \in DOMAIN grants, RevokeGrant(i) PROVE GrantCore'
  BY <1>3, RowsDie DEF RevokeGrant
<1>4. ASSUME NEW ids, BulkRevoke(ids) PROVE GrantCore'
  BY <1>4, RowsDie DEF BulkRevoke
<1>5. ASSUME NEW s \in ShStates, AppTurns(s) PROVE GrantCore'
  <2>1. ShTypeOK'
    BY <1>5 DEF AppTurns, GrantCore, ShTypeOK
  <2>2. QED
    BY <1>5, <2>1 DEF AppTurns, GrantCore, PlacesKept, OneRequestAtATime, Single, Granting, Live,
                      LiveRows
<1>6. ASSUME NEW p \in ShOther, NEW a \in BOOLEAN, NEW unit \in [ShGroups -> ShUnits],
             ProfileTurns(p, a, unit)
      PROVE  GrantCore'
  <2>1. ShTypeOK'
    BY <1>6 DEF ProfileTurns, GrantCore, ShTypeOK
  <2>2. QED
    BY <1>6, <2>1 DEF ProfileTurns, GrantCore, PlacesKept, OneRequestAtATime, Single, Granting,
                      Live, LiveRows
<1>7. ASSUME UNCHANGED shVars PROVE GrantCore'
  BY <1>7 DEF shVars, GrantCore, ShTypeOK, PlacesKept, OneRequestAtATime, Single, Granting, Live,
              LiveRows
<1>8. QED
  BY <1>1, <1>2, <1>3, <1>4, <1>5, <1>6, <1>7 DEF ShNext

\* ShTypeOK: types are kept, and there are no more rows than their bound.
THEOREM SharingTypeCorrect == ShSpec => []ShTypeOK
<1>1. GrantCore => ShTypeOK
  BY DEF GrantCore
<1>2. QED
  BY <1>1, GrantCoreOK, GrantStep, PTL DEF ShSpec

\* OneLiveGrant: until two grant requests overlap, no key has two live grants, whoever grants,
\* revokes one or many, or changes a profile; one revocation ends the access.
THEOREM OneGrantToRevoke == ShSpec => []OneLiveGrant
<1>1. GrantCore => OneLiveGrant
  BY SingleIsOne DEF GrantCore, OneLiveGrant
<1>2. QED
  BY <1>1, GrantCoreOK, GrantStep, PTL DEF ShSpec

-----------------------------------------------------------------------------

\* What a grant can name.
LEMMA KeyKinds ==
  /\ \A k \in Keys : k = GrantKey(k.res, k.kind, k.value)
  /\ \A k \in Keys : k.res \in {"app", "data"}
  /\ \A k \in Keys : k.res = "app" =>
       /\ k.kind \in {"user", "company"} \cup ShGroups
       /\ k.kind = "company" => k.value = "*"
  /\ \A k \in Keys : k.res = "data" => k.kind \in {"user", "team"}
<1>1. \A res, kind, value : /\ GrantKey(res, kind, value).res = res
                            /\ GrantKey(res, kind, value).kind = kind
                            /\ GrantKey(res, kind, value).value = value
  BY DEF GrantKey
<1>2. \A k \in Keys : \E res, kind, value :
        /\ k = GrantKey(res, kind, value)
        /\ res \in {"app", "data"}
        /\ res = "app" => /\ kind \in {"user", "company"} \cup ShGroups
                          /\ kind = "company" => value = "*"
        /\ res = "data" => kind \in {"user", "team"}
  BY SharingAssumption DEF Keys, AppKeys, DataKeys
<1>3. QED
  BY <1>1, <1>2

\* A live row is one of its key.
LEMMA LiveIs ==
  ASSUME ShTypeOK, NEW res, NEW kind, NEW value
  PROVE  Live(GrantKey(res, kind, value)) <=>
           \E i \in DOMAIN grants : /\ grants[i].live /\ grants[i].key.res = res
                                    /\ grants[i].key.kind = kind /\ grants[i].key.value = value
<1>1. \A i \in DOMAIN grants : grants[i].key \in Keys
  BY GrantTypes
<1>2. \A i \in DOMAIN grants : grants[i].key = GrantKey(res, kind, value) <=>
         /\ grants[i].key.res = res /\ grants[i].key.kind = kind /\ grants[i].key.value = value
  <2>1. /\ GrantKey(res, kind, value).res = res /\ GrantKey(res, kind, value).kind = kind
        /\ GrantKey(res, kind, value).value = value
    BY DEF GrantKey
  <2>2. QED
    BY <1>1, <2>1, KeyKinds
<1>3. QED
  BY <1>2 DEF Live, LiveRows

\* The Ingress, the list of shared apps and the recipients of a message.
LEMMA DoorsOfApp == ShTypeOK => ListAndDoorAgree /\ RecipientsMayOpen
<1> SUFFICES ASSUME ShTypeOK PROVE ListAndDoorAgree /\ RecipientsMayOpen
  OBVIOUS
<1>1. \A i \in DOMAIN grants : grants[i].key \in Keys
  BY GrantTypes
<1>2. "user" \notin ShGroups /\ "company" \notin ShGroups
  BY SharingAssumption
<1>3. ASSUME NEW p \in ShPeople
      PROVE  AdmittedByAcl(p) <=>
               \E i \in DOMAIN grants :
                 /\ grants[i].live /\ grants[i].key.res = "app"
                 /\ \/ grants[i].key.kind = "company"
                    \/ grants[i].key.kind = "user" /\ grants[i].key.value = p
                    \/ /\ grants[i].key.kind \in ShGroups
                       /\ grants[i].key.value = people[p].unit[grants[i].key.kind]
  BY <1>1, KeyKinds, LiveIs DEF AdmittedByAcl
<1>4. ListAndDoorAgree
  <2> SUFFICES ASSUME NEW p \in ShOther
               PROVE  /\ ListedApp(p) => AuthCheck(p)
                      /\ shStatus = "running" /\ AuthCheck(p) => ListedApp(p)
    BY DEF ListAndDoorAgree
  <2>1. p \in ShPeople /\ p \notin {ShAdmin, ShOwner}
    BY SharingAssumption DEF ShPeople
  <2>2. QED
    BY <1>3, <2>1 DEF ListedApp, AuthCheck
<1>5. RecipientsMayOpen
  <2> SUFFICES ASSUME shStatus = "running", NEW p \in Recipients PROVE AuthCheck(p)
    BY DEF RecipientsMayOpen
  <2>1. p \in ShPeople
    BY DEF Recipients
  <2>2. PICK i \in DOMAIN grants :
          /\ grants[i].live /\ grants[i].key.res = "app"
          /\ \/ grants[i].key = GrantKey("app", "user", p)
             \/ \E g \in ShGroups : grants[i].key = GrantKey("app", g, people[p].unit[g])
    BY DEF Recipients
  <2>3. AdmittedByAcl(p)
    BY <2>2 DEF AdmittedByAcl, Live, LiveRows
  <2>4. QED
    BY <2>3 DEF AuthCheck
<1>6. QED
  BY <1>4, <1>5

\* The list of shared datasets, the viewer and the access by code.
LEMMA DoorsOfData == ShTypeOK => DataDoorsAgree
<1> SUFFICES ASSUME ShTypeOK, NEW p \in ShPeople \ {ShOwner}
             PROVE  /\ ListedData(p) <=> ViewerAdmits(p)
                    /\ CodeOffered(p) <=> ViewerAdmits(p)
  BY DEF DataDoorsAgree
<1>1. ListedData(p) <=> ViewerAdmits(p)
  BY DEF ListedData, ListedRows, ViewerAdmits, Live, LiveRows
<1>2. CodeOffered(p) <=> ViewerAdmits(p)
  BY LiveIs DEF CodeOffered, ViewerAdmits
<1>3. QED
  BY <1>1, <1>2

\* Nobody is let in by a share that the owner is not shown.
LEMMA OwnerIsShown == ShTypeOK => OwnerSeesAll
<1> SUFFICES ASSUME ShTypeOK, MyShares = {}, NEW p \in ShOther
             PROVE  ~AuthCheck(p) /\ ~ViewerAdmits(p)
  BY DEF OwnerSeesAll
<1>1. \A i \in DOMAIN grants :
        grants[i].live => grants[i].key.res = "app" /\ shStatus = "deleted"
  BY DEF MyShares
<1>2. ~ViewerAdmits(p)
  BY <1>1, LiveIs DEF ViewerAdmits
<1>3. ~AuthCheck(p)
  <2>1. p \notin {ShAdmin, ShOwner}
    BY SharingAssumption
  <2>2. AdmittedByAcl(p) => \E i \in DOMAIN grants : grants[i].live
    BY DEF AdmittedByAcl, Live, LiveRows
  <2>3. QED
    BY <1>1, <2>1, <2>2 DEF AuthCheck
<1>4. QED
  BY <1>2, <1>3

\* DoorsAgree: in every state that grants, revocations and changes of profiles lead to, the seven
\* queries that decide about the app and the dataset give the same answer.
THEOREM OneAnswerAtEveryDoor == ShSpec => []DoorsAgree
<1>1. GrantCore => DoorsAgree
  BY DoorsOfApp, DoorsOfData, OwnerIsShown DEF GrantCore, DoorsAgree
<1>2. QED
  BY <1>1, GrantCoreOK, GrantStep, PTL DEF ShSpec

-----------------------------------------------------------------------------
(***************************************************************************)
(* Vault. That the object's key is in the row is not inductive: the worker *)
(* that overwrites the object must have put its key into the row before,   *)
(* and nobody else may have put another there since. The invariant says of *)
(* each place of a worker what row and object have, until a row is reset   *)
(* under its worker (OneWorker), and that a key is seen by nobody before   *)
(* it is in the row, which a reader that failed needs to succeed.          *)
(***************************************************************************)
VaultRow == [there : BOOLEAN, dek : 0..MaxDeks, state : EncState, aged : BOOLEAN]
VaultObject == [there : BOOLEAN, key : 0..MaxDeks]
Backfill == [pc : {"idle", "claimed", "read", "saved", "put"}, key : 0..MaxDeks]
Reading == [pc : {"idle", "row"}, dek : 0..MaxDeks, failed : BOOLEAN]

\* Every key that is anywhere has been made.
KeysMade ==
  /\ vrow.dek <= vLog.keys /\ object.key <= vLog.keys
  /\ \A w \in VtWorker : worker[w].key <= vLog.keys
  /\ \A h \in VtReader : reader[h].dek <= vLog.keys

\* A file that is being uploaded is no matter for the backfill.
UploadAlone ==
  upload # "done" =>
    /\ vrow.state = "encrypted" /\ ~object.there
    /\ \A w \in VtWorker : worker[w].pc = "idle"
    /\ vrow.there <=> upload = "stored"
    /\ upload = "stored" => vrow.dek # NoDek

\* A worker past its download has a key, and one past its upload has encrypted the object.
WorkersHaveKeys ==
  \A w \in VtWorker :
    /\ worker[w].pc \in {"read", "saved", "put"} => worker[w].key # NoDek
    /\ worker[w].pc = "put" => object.key # NoDek

\* Until a row is reset under its worker one worker has the row: the object is plain until it
\* has put its key there, and nobody has seen that key before it is in the row.
OneWorker ==
  ~vLog.raced =>
    \A w \in VtWorker : worker[w].pc # "idle" =>
      /\ vrow.state = "encrypting"
      /\ \A v \in VtWorker \ {w} : worker[v].pc = "idle"
      /\ worker[w].pc = "read" =>
           /\ object.key = NoDek /\ worker[w].key # vrow.dek
           /\ \A h \in VtReader : reader[h].dek # worker[w].key
      /\ worker[w].pc = "saved" => object.key = NoDek /\ vrow.dek = worker[w].key
      /\ worker[w].pc = "put" => object.key = worker[w].key

VaultInv ==
  VtTypeOK /\ KeysMade /\ UploadAlone /\ WorkersHaveKeys /\ OneWorker /\ FileStaysReadable

-----------------------------------------------------------------------------

\* The type invariant, by variables.
LEMMA VaultTypes ==
  ASSUME VtTypeOK
  PROVE  /\ vrow \in VaultRow /\ object \in VaultObject
         /\ worker \in [VtWorker -> Backfill] /\ reader \in [VtReader -> Reading]
         /\ vLog \in [keys : 0..MaxDeks, raced : BOOLEAN]
         /\ MaxDeks \in Nat /\ NoDek = 0
BY VaultAssumption DEF VtTypeOK, VaultRow, VaultObject, Backfill, Reading, NoDek

\* A plain file that is stored, or one about to be uploaded.
LEMMA VaultInitOK == VtInit => VaultInv
<1> SUFFICES ASSUME VtInit PROVE VaultInv
  OBVIOUS
<1>1. MaxDeks \in Nat /\ NoDek = 0
  BY VaultAssumption DEF NoDek
<1> PICK t \in BOOLEAN, e \in {"plain", "encrypted"} :
        /\ vrow = [there |-> t, dek |-> NoDek, state |-> e, aged |-> t]
        /\ object = [there |-> t, key |-> NoDek]
        /\ upload \in {"received", "done"}
        /\ upload # "done" => e = "encrypted" /\ ~t
        /\ ~t \/ e = "plain"
  BY DEF VtInit
<1>2. /\ \A w \in VtWorker : worker[w] = VtIdle
      /\ \A h \in VtReader : reader[h].dek = NoDek /\ ~reader[h].failed
      /\ vLog.keys = 0 /\ ~vLog.raced /\ object.key = NoDek /\ vrow.dek = NoDek
  BY DEF VtInit
<1>3. VtTypeOK
  <2>1. /\ vrow \in [there : BOOLEAN, dek : 0..MaxDeks, state : EncState, aged : BOOLEAN]
        /\ object \in [there : BOOLEAN, key : 0..MaxDeks]
    BY <1>1 DEF EncState
  <2>2. /\ worker \in [VtWorker -> [pc : {"idle", "claimed", "read", "saved", "put"},
                                    key : 0..MaxDeks]]
        /\ cache \subseteq Dek
        /\ vLog \in [keys : 0..MaxDeks, raced : BOOLEAN]
    BY <1>1 DEF VtInit, VtIdle
  <2>3. reader \in [VtReader -> [pc : {"idle", "row"}, dek : 0..MaxDeks, failed : BOOLEAN]]
    BY <1>1 DEF VtInit
  <2>4. QED
    BY <2>1, <2>2, <2>3 DEF VtTypeOK
<1>4. KeysMade
  BY <1>1, <1>2 DEF KeysMade, VtIdle
<1>5. UploadAlone
  BY <1>2 DEF UploadAlone, VtInit, VtIdle
<1>6. WorkersHaveKeys /\ OneWorker
  BY <1>2 DEF WorkersHaveKeys, OneWorker, VtIdle
<1>7. FileStaysReadable
  <2>1. ~(vrow.there /\ vrow.state = "encrypted" /\ object.there)
    BY DEF VtInit
  <2>2. QED
    BY <1>2, <2>1 DEF FileStaysReadable, Readable, ObjectHasRow, MarkedIsEncrypted,
                      ReadFailuresPass
<1>8. QED
  BY <1>3, <1>4, <1>5, <1>6, <1>7 DEF VaultInv

-----------------------------------------------------------------------------
(* Uploading *)

\* The row gets a key that nothing had.
LEMMA UploadRowOK == VaultInv /\ UploadRow => VaultInv'
<1> SUFFICES ASSUME VaultInv, UploadRow PROVE VaultInv'
  OBVIOUS
<1>1. /\ vrow \in VaultRow /\ object \in VaultObject
      /\ worker \in [VtWorker -> Backfill] /\ reader \in [VtReader -> Reading]
      /\ vLog \in [keys : 0..MaxDeks, raced : BOOLEAN] /\ MaxDeks \in Nat /\ NoDek = 0
  BY VaultTypes DEF VaultInv
<1> PICK n : n = vLog.keys + 1
  OBVIOUS
<1>2. /\ n \in 1..MaxDeks /\ n > vLog.keys /\ vLog.keys \in Nat
      /\ vLog' = [vLog EXCEPT !.keys = n]
      /\ vrow' = [there |-> TRUE, dek |-> n, state |-> "encrypted", aged |-> FALSE]
  BY <1>1 DEF UploadRow, MakeKey, NewDek, Dek
<1>3. /\ vLog' \in [keys : 0..MaxDeks, raced : BOOLEAN] /\ vLog'.keys = n
      /\ vLog'.raced = vLog.raced
  BY <1>1, <1>2
<1>4. /\ vrow' \in VaultRow /\ vrow'.there /\ vrow'.dek = n /\ vrow'.state = "encrypted"
  BY <1>2 DEF VaultRow, EncState
<1>5. UNCHANGED <<object, worker, cache, reader>> /\ upload' = "stored" /\ upload = "received"
  BY DEF UploadRow
<1>6. ~object.there /\ \A w \in VtWorker : worker[w].pc = "idle"
  BY <1>5 DEF VaultInv, UploadAlone
<1>7. VtTypeOK'
  BY <1>3, <1>4, <1>5 DEF VaultInv, VtTypeOK, VaultRow
<1>8. KeysMade'
  BY <1>1, <1>2, <1>3, <1>4, <1>5 DEF VaultInv, KeysMade, VaultObject, Backfill, Reading
<1>9. UploadAlone' /\ WorkersHaveKeys' /\ OneWorker'
  BY <1>1, <1>2, <1>4, <1>5, <1>6 DEF UploadAlone, WorkersHaveKeys, OneWorker
<1>10. FileStaysReadable'
  <2>1. \A h \in VtReader : reader[h].dek # n
    BY <1>1, <1>2 DEF VaultInv, KeysMade, Reading
  <2>2. QED
    BY <1>4, <1>5, <1>6, <2>1 DEF FileStaysReadable, Readable, ObjectHasRow, MarkedIsEncrypted,
                      ReadFailuresPass
<1>11. QED
  BY <1>7, <1>8, <1>9, <1>10 DEF VaultInv

\* The object is put with the key of the row.
LEMMA UploadObjectOK == VaultInv /\ UploadObject => VaultInv'
<1> SUFFICES ASSUME VaultInv, UploadObject PROVE VaultInv'
  OBVIOUS
<1>1. /\ vrow \in VaultRow /\ object \in VaultObject
      /\ worker \in [VtWorker -> Backfill] /\ reader \in [VtReader -> Reading]
      /\ vLog \in [keys : 0..MaxDeks, raced : BOOLEAN] /\ MaxDeks \in Nat /\ NoDek = 0
  BY VaultTypes DEF VaultInv
<1>2. object' \in VaultObject /\ object'.there /\ object'.key = vrow.dek
  BY <1>1 DEF UploadObject, VaultObject, VaultRow
<1>3. UNCHANGED <<vrow, worker, cache, reader, vLog>> /\ upload' = "done" /\ upload = "stored"
  BY DEF UploadObject
<1>4. /\ \A w \in VtWorker : worker[w].pc = "idle"
      /\ vrow.there /\ vrow.dek # NoDek
  BY <1>3 DEF VaultInv, UploadAlone
<1>5. VtTypeOK'
  BY <1>2, <1>3 DEF VaultInv, VtTypeOK, VaultObject
<1>6. KeysMade'
  BY <1>2, <1>3 DEF VaultInv, KeysMade
<1>7. UploadAlone' /\ WorkersHaveKeys' /\ OneWorker'
  BY <1>3, <1>4 DEF UploadAlone, WorkersHaveKeys, OneWorker
<1>8. FileStaysReadable'
  BY <1>2, <1>3, <1>4 DEF VaultInv, FileStaysReadable, Readable, ObjectHasRow, MarkedIsEncrypted,
                          ReadFailuresPass
<1>9. QED
  BY <1>5, <1>6, <1>7, <1>8 DEF VaultInv

\* An upload that fails leaves a row without an object, or nothing.
LEMMA UploadFailsOK == VaultInv /\ UploadFails => VaultInv'
<1> SUFFICES ASSUME VaultInv, UploadFails PROVE VaultInv'
  OBVIOUS
<1>1. UNCHANGED <<vrow, object, worker, cache, reader, vLog>> /\ upload' = "done"
  BY DEF UploadFails
<1>2. VtTypeOK'
  BY <1>1 DEF VaultInv, VtTypeOK
<1>3. KeysMade' /\ UploadAlone' /\ WorkersHaveKeys' /\ OneWorker'
  BY <1>1 DEF VaultInv, KeysMade, UploadAlone, WorkersHaveKeys, OneWorker
<1>4. FileStaysReadable'
  BY <1>1 DEF VaultInv, FileStaysReadable, Readable, ObjectHasRow, MarkedIsEncrypted,
              ReadFailuresPass
<1>5. QED
  BY <1>2, <1>3, <1>4 DEF VaultInv

-----------------------------------------------------------------------------
(* The backfill *)

\* What a worker does with the row, the object and the keys, one record at a time.
LEMMA WorkerTurns ==
  ASSUME VtTypeOK, NEW w \in VtWorker, NEW b \in Backfill, worker' = [worker EXCEPT ![w] = b]
  PROVE  /\ worker' \in [VtWorker -> Backfill]
         /\ \A v \in VtWorker : worker'[v] = IF v = w THEN b ELSE worker[v]
BY VaultTypes

\* A claim makes its worker the only one, unless a row was reset under another.
LEMMA ClaimOK == ASSUME VaultInv, NEW w \in VtWorker, Claim(w) PROVE VaultInv'
<1>1. /\ vrow \in VaultRow /\ object \in VaultObject
      /\ worker \in [VtWorker -> Backfill] /\ reader \in [VtReader -> Reading]
      /\ vLog \in [keys : 0..MaxDeks, raced : BOOLEAN] /\ MaxDeks \in Nat /\ NoDek = 0
  BY VaultTypes DEF VaultInv
<1>2. /\ vrow' \in VaultRow /\ vrow'.there /\ vrow'.dek = vrow.dek /\ vrow'.state = "encrypting"
  BY <1>1 DEF Claim, VaultRow, EncState
<1> DEFINE b == [worker[w] EXCEPT !.pc = "claimed"]
<1>3. b \in Backfill /\ b.pc = "claimed" /\ b.key = worker[w].key
  BY <1>1 DEF Backfill
<1>4. worker' = [worker EXCEPT ![w] = b]
  BY <1>1 DEF Claim
<1> HIDE DEF b
<1>5. /\ worker' \in [VtWorker -> Backfill]
      /\ \A v \in VtWorker : worker'[v] = IF v = w THEN b ELSE worker[v]
  BY <1>3, <1>4, WorkerTurns DEF VaultInv
<1>6. UNCHANGED <<object, upload, cache, reader, vLog>> /\ vrow.state = "plain" /\ vrow.there
  BY DEF Claim
<1>7. VtTypeOK'
  BY <1>2, <1>5, <1>6 DEF VaultInv, VtTypeOK, VaultRow, Backfill
<1>8. KeysMade'
  BY <1>2, <1>3, <1>5, <1>6 DEF VaultInv, KeysMade
<1>9. upload = "done"
  BY <1>6 DEF VaultInv, UploadAlone
<1>10. UploadAlone' /\ WorkersHaveKeys'
  BY <1>3, <1>5, <1>6, <1>9 DEF VaultInv, UploadAlone, WorkersHaveKeys
<1>11. OneWorker'
  <2>1. ~vLog.raced => \A v \in VtWorker : worker[v].pc = "idle"
    BY <1>6 DEF VaultInv, OneWorker
  <2>2. QED
    BY <1>2, <1>3, <1>5, <1>6, <2>1 DEF OneWorker
<1>12. FileStaysReadable'
  BY <1>2, <1>6 DEF VaultInv, FileStaysReadable, Readable, ObjectHasRow, MarkedIsEncrypted,
                    ReadFailuresPass
<1>13. QED
  BY <1>7, <1>8, <1>10, <1>11, <1>12 DEF VaultInv

\* A worker that goes leaves row and object as they are.
LEMMA GoesOK ==
  ASSUME VaultInv, NEW w \in VtWorker, worker' = [worker EXCEPT ![w] = VtIdle],
         UNCHANGED <<vrow, object, upload, cache, reader, vLog>>
  PROVE  VaultInv'
<1>1. VtIdle \in Backfill /\ VtIdle.pc = "idle" /\ VtIdle.key = 0
  BY VaultAssumption DEF VtIdle, Backfill, NoDek
<1>2. /\ worker' \in [VtWorker -> Backfill]
      /\ \A v \in VtWorker : worker'[v] = IF v = w THEN VtIdle ELSE worker[v]
  BY <1>1, WorkerTurns DEF VaultInv
<1>3. VtTypeOK'
  BY <1>2 DEF VaultInv, VtTypeOK, Backfill
<1>4. vLog.keys >= 0
  BY VaultTypes DEF VaultInv
<1>5. KeysMade' /\ UploadAlone' /\ WorkersHaveKeys'
  BY <1>1, <1>2, <1>4 DEF VaultInv, KeysMade, UploadAlone, WorkersHaveKeys
<1>6. OneWorker'
  BY <1>1, <1>2 DEF VaultInv, OneWorker
<1>7. FileStaysReadable'
  BY DEF VaultInv, FileStaysReadable, Readable, ObjectHasRow, MarkedIsEncrypted, ReadFailuresPass
<1>8. QED
  BY <1>3, <1>5, <1>6, <1>7 DEF VaultInv

\* A worker that has read a plain object makes a key that nobody has seen.
LEMMA DownloadOK == ASSUME VaultInv, NEW w \in VtWorker, Download(w) PROVE VaultInv'
<1>1. /\ vrow \in VaultRow /\ object \in VaultObject
      /\ worker \in [VtWorker -> Backfill] /\ reader \in [VtReader -> Reading]
      /\ vLog \in [keys : 0..MaxDeks, raced : BOOLEAN] /\ MaxDeks \in Nat /\ NoDek = 0
  BY VaultTypes DEF VaultInv
<1>2. CASE worker' = [worker EXCEPT ![w] = VtIdle] /\ UNCHANGED vLog
  BY <1>2, GoesOK DEF Download
<1>3. CASE /\ object.there /\ object.key = NoDek
           /\ MakeKey /\ worker' = [worker EXCEPT ![w] = [pc |-> "read", key |-> NewDek]]
  <2> PICK n : n = vLog.keys + 1
    OBVIOUS
  <2>1. /\ n \in 1..MaxDeks /\ n > vLog.keys /\ vLog.keys \in Nat
        /\ vLog' = [vLog EXCEPT !.keys = n]
        /\ worker' = [worker EXCEPT ![w] = [pc |-> "read", key |-> n]]
    BY <1>1, <1>3 DEF MakeKey, NewDek, Dek
  <2>2. /\ vLog' \in [keys : 0..MaxDeks, raced : BOOLEAN] /\ vLog'.keys = n
        /\ vLog'.raced = vLog.raced
    BY <1>1, <2>1
  <2> DEFINE b == [pc |-> "read", key |-> n]
  <2>3. b \in Backfill /\ b.pc = "read" /\ b.key = n
    BY <2>1 DEF Backfill
  <2>4. worker' = [worker EXCEPT ![w] = b]
    BY <2>1
  <2> HIDE DEF b
  <2>5. /\ worker' \in [VtWorker -> Backfill]
        /\ \A v \in VtWorker : worker'[v] = IF v = w THEN b ELSE worker[v]
    BY <2>3, <2>4, WorkerTurns DEF VaultInv
  <2>6. UNCHANGED <<vrow, object, upload, cache, reader>> /\ worker[w].pc = "claimed"
    BY DEF Download
  <2>7. VtTypeOK'
    BY <2>2, <2>5, <2>6 DEF VaultInv, VtTypeOK, Backfill
  <2>8. /\ vrow.dek < n /\ object.key < n
        /\ \A v \in VtWorker : worker[v].key < n
        /\ \A h \in VtReader : reader[h].dek < n
    BY <1>1, <2>1 DEF VaultInv, KeysMade, VaultRow, VaultObject, Backfill, Reading
  <2>9. KeysMade'
    BY <1>1, <2>1, <2>2, <2>3, <2>5, <2>6, <2>8
       DEF KeysMade, VaultRow, VaultObject, Backfill, Reading
  <2>10. UploadAlone' /\ WorkersHaveKeys'
    BY <1>1, <2>1, <2>3, <2>5, <2>6 DEF VaultInv, UploadAlone, WorkersHaveKeys
  <2>11. OneWorker'
    <3> SUFFICES ASSUME ~vLog.raced
                 PROVE  /\ vrow.state = "encrypting"
                        /\ \A v \in VtWorker \ {w} : worker[v].pc = "idle"
                        /\ n # vrow.dek /\ \A h \in VtReader : reader[h].dek # n
      BY <1>3, <2>2, <2>3, <2>5, <2>6 DEF OneWorker
    <3>1. vrow.dek \in Nat /\ \A h \in VtReader : reader[h].dek \in Nat
      BY <1>1 DEF VaultRow, Reading
    <3>2. QED
      BY <2>1, <2>6, <2>8, <3>1 DEF VaultInv, OneWorker
  <2>12. FileStaysReadable'
    BY <2>2, <2>6 DEF VaultInv, FileStaysReadable, Readable, ObjectHasRow, MarkedIsEncrypted,
                      ReadFailuresPass
  <2>13. QED
    BY <2>7, <2>9, <2>10, <2>11, <2>12 DEF VaultInv
<1>4. QED
  BY <1>2, <1>3 DEF Download

\* The key goes to the row while the object is plain.
LEMMA SaveKeyOK == ASSUME VaultInv, NEW w \in VtWorker, SaveKey(w) PROVE VaultInv'
<1>1. /\ vrow \in VaultRow /\ object \in VaultObject
      /\ worker \in [VtWorker -> Backfill] /\ reader \in [VtReader -> Reading]
      /\ vLog \in [keys : 0..MaxDeks, raced : BOOLEAN] /\ MaxDeks \in Nat /\ NoDek = 0
  BY VaultTypes DEF VaultInv
<1> PICK k : k = worker[w].key
  OBVIOUS
<1>2. k \in 0..MaxDeks /\ worker[w].pc = "read" /\ k # NoDek
  BY <1>1 DEF Backfill, SaveKey, VaultInv, WorkersHaveKeys
<1>3. /\ vrow' \in VaultRow /\ vrow'.there = vrow.there /\ vrow'.dek = k
      /\ vrow'.state = vrow.state
  BY <1>1, <1>2 DEF SaveKey, VaultRow
<1> DEFINE b == [worker[w] EXCEPT !.pc = "saved"]
<1>4. b \in Backfill /\ b.pc = "saved" /\ b.key = k
  BY <1>1 DEF Backfill
<1>5. worker' = [worker EXCEPT ![w] = b]
  BY <1>1 DEF SaveKey
<1> HIDE DEF b
<1>6. /\ worker' \in [VtWorker -> Backfill]
      /\ \A v \in VtWorker : worker'[v] = IF v = w THEN b ELSE worker[v]
  BY <1>4, <1>5, WorkerTurns DEF VaultInv
<1>7. UNCHANGED <<object, upload, cache, reader, vLog>>
  BY DEF SaveKey
<1>8. VtTypeOK'
  BY <1>3, <1>6, <1>7 DEF VaultInv, VtTypeOK, VaultRow, Backfill
<1>9. KeysMade'
  BY <1>3, <1>4, <1>6, <1>7 DEF VaultInv, KeysMade
<1>10. UploadAlone' /\ WorkersHaveKeys'
  BY <1>2, <1>4, <1>6, <1>7 DEF VaultInv, UploadAlone, WorkersHaveKeys
<1>11. ~vLog.raced => /\ object.key = NoDek /\ vrow.state = "encrypting"
                      /\ \A v \in VtWorker \ {w} : worker[v].pc = "idle"
                      /\ \A h \in VtReader : reader[h].dek # k
  BY <1>2 DEF VaultInv, OneWorker
<1>12. OneWorker'
  BY <1>3, <1>4, <1>6, <1>7, <1>11 DEF OneWorker
<1>13. FileStaysReadable'
  BY <1>3, <1>7, <1>11 DEF VaultInv, FileStaysReadable, Readable, ObjectHasRow,
                           MarkedIsEncrypted, ReadFailuresPass
<1>14. QED
  BY <1>8, <1>9, <1>10, <1>12, <1>13 DEF VaultInv

\* The object is encrypted with the key that the row has.
LEMMA OverwriteOK == ASSUME VaultInv, NEW w \in VtWorker, Overwrite(w) PROVE VaultInv'
<1>1. /\ vrow \in VaultRow /\ object \in VaultObject
      /\ worker \in [VtWorker -> Backfill] /\ reader \in [VtReader -> Reading]
      /\ vLog \in [keys : 0..MaxDeks, raced : BOOLEAN] /\ MaxDeks \in Nat /\ NoDek = 0
  BY VaultTypes DEF VaultInv
<1> PICK k : k = worker[w].key
  OBVIOUS
<1>2. k \in 0..MaxDeks /\ worker[w].pc = "saved" /\ k # NoDek
  BY <1>1 DEF Backfill, Overwrite, VaultInv, WorkersHaveKeys
<1>3. object' \in VaultObject /\ object'.there = object.there /\ object'.key = k
  BY <1>1, <1>2 DEF Overwrite, VaultObject
<1> DEFINE b == [worker[w] EXCEPT !.pc = "put"]
<1>4. b \in Backfill /\ b.pc = "put" /\ b.key = k
  BY <1>1 DEF Backfill
<1>5. worker' = [worker EXCEPT ![w] = b]
  BY <1>1 DEF Overwrite
<1> HIDE DEF b
<1>6. /\ worker' \in [VtWorker -> Backfill]
      /\ \A v \in VtWorker : worker'[v] = IF v = w THEN b ELSE worker[v]
  BY <1>4, <1>5, WorkerTurns DEF VaultInv
<1>7. UNCHANGED <<vrow, upload, cache, reader, vLog>>
  BY DEF Overwrite
<1>8. VtTypeOK'
  BY <1>3, <1>6, <1>7 DEF VaultInv, VtTypeOK, VaultObject, Backfill
<1>9. KeysMade'
  BY <1>3, <1>4, <1>6, <1>7 DEF VaultInv, KeysMade
<1>10. upload = "done"
  BY <1>2 DEF VaultInv, UploadAlone
<1>11. UploadAlone' /\ WorkersHaveKeys'
  BY <1>2, <1>3, <1>4, <1>6, <1>7, <1>10 DEF VaultInv, UploadAlone, WorkersHaveKeys
<1>12. ~vLog.raced => /\ vrow.dek = k /\ vrow.state = "encrypting"
                      /\ \A v \in VtWorker \ {w} : worker[v].pc = "idle"
  BY <1>2 DEF VaultInv, OneWorker
<1>13. OneWorker'
  BY <1>3, <1>4, <1>6, <1>7, <1>12 DEF OneWorker
<1>14. FileStaysReadable'
  BY <1>2, <1>3, <1>7, <1>12 DEF VaultInv, FileStaysReadable, Readable, ObjectHasRow,
                           MarkedIsEncrypted, ReadFailuresPass
<1>15. QED
  BY <1>8, <1>9, <1>11, <1>13, <1>14 DEF VaultInv

\* A row is marked when its object has been put.
LEMMA MarkEncryptedOK == ASSUME VaultInv, NEW w \in VtWorker, MarkEncrypted(w) PROVE VaultInv'
<1>1. /\ vrow \in VaultRow /\ worker \in [VtWorker -> Backfill]
      /\ vLog \in [keys : 0..MaxDeks, raced : BOOLEAN] /\ MaxDeks \in Nat /\ NoDek = 0
  BY VaultTypes DEF VaultInv
<1>2. /\ vrow' \in VaultRow /\ vrow'.there = vrow.there /\ vrow'.dek = vrow.dek
      /\ vrow'.state = "encrypted"
  BY <1>1 DEF MarkEncrypted, VaultRow, EncState
<1>3. VtIdle \in Backfill /\ VtIdle.pc = "idle" /\ VtIdle.key = 0
  BY VaultAssumption DEF VtIdle, Backfill, NoDek
<1>4. /\ worker' \in [VtWorker -> Backfill]
      /\ \A v \in VtWorker : worker'[v] = IF v = w THEN VtIdle ELSE worker[v]
  BY <1>3, WorkerTurns DEF VaultInv, MarkEncrypted
<1>5. UNCHANGED <<object, upload, cache, reader, vLog>> /\ worker[w].pc = "put"
  BY DEF MarkEncrypted
<1>6. VtTypeOK'
  BY <1>2, <1>4, <1>5 DEF VaultInv, VtTypeOK, VaultRow, Backfill
<1>7. KeysMade' /\ WorkersHaveKeys'
  BY <1>1, <1>2, <1>3, <1>4, <1>5 DEF VaultInv, KeysMade, WorkersHaveKeys
<1>8. upload = "done" /\ object.key # NoDek
  BY <1>5 DEF VaultInv, UploadAlone, WorkersHaveKeys
<1>9. OneWorker'
  BY <1>3, <1>4, <1>5 DEF VaultInv, OneWorker
<1>10. FileStaysReadable'
  BY <1>2, <1>5, <1>8 DEF VaultInv, FileStaysReadable, Readable, ObjectHasRow, MarkedIsEncrypted,
                          ReadFailuresPass
<1>11. QED
  BY <1>5, <1>6, <1>7, <1>8, <1>9, <1>10 DEF VaultInv, UploadAlone

\* Time passes.
LEMMA RowAgesOK == VaultInv /\ RowAges => VaultInv'
<1> SUFFICES ASSUME VaultInv, RowAges PROVE VaultInv'
  OBVIOUS
<1>1. vrow \in VaultRow
  BY VaultTypes DEF VaultInv
<1>2. /\ vrow' \in VaultRow /\ vrow'.there = vrow.there /\ vrow'.dek = vrow.dek
      /\ vrow'.state = vrow.state
  BY <1>1 DEF RowAges, VaultRow
<1>3. UNCHANGED <<object, upload, worker, cache, reader, vLog>>
  BY DEF RowAges
<1>4. VtTypeOK'
  BY <1>2, <1>3 DEF VaultInv, VtTypeOK, VaultRow
<1>5. KeysMade' /\ UploadAlone' /\ WorkersHaveKeys' /\ OneWorker'
  BY <1>2, <1>3 DEF VaultInv, KeysMade, UploadAlone, WorkersHaveKeys, OneWorker
<1>6. FileStaysReadable'
  BY <1>2, <1>3 DEF VaultInv, FileStaysReadable, Readable, ObjectHasRow, MarkedIsEncrypted,
                    ReadFailuresPass
<1>7. QED
  BY <1>4, <1>5, <1>6 DEF VaultInv

\* A row that is reset under a worker counts as a race.
LEMMA ResetStaleOK == VaultInv /\ ResetStale => VaultInv'
<1> SUFFICES ASSUME VaultInv, ResetStale PROVE VaultInv'
  OBVIOUS
<1>1. vrow \in VaultRow /\ vLog \in [keys : 0..MaxDeks, raced : BOOLEAN]
  BY VaultTypes DEF VaultInv
<1>2. /\ vrow' \in VaultRow /\ vrow'.there = vrow.there /\ vrow'.dek = vrow.dek
      /\ vrow'.state = "plain"
  BY <1>1 DEF ResetStale, VaultRow, EncState
<1>3. \/ vLog' = [vLog EXCEPT !.raced = TRUE]
      \/ /\ vLog' = [vLog EXCEPT !.raced = FALSE]
         /\ ~vLog.raced /\ \A w \in VtWorker : worker[w].pc = "idle"
  <2> DEFINE b == vLog.raced \/ \E w \in VtWorker : worker[w].pc # "idle"
  <2>1. vLog' = [vLog EXCEPT !.raced = b] /\ b \in BOOLEAN
    BY DEF ResetStale
  <2>2. ~b => ~vLog.raced /\ \A w \in VtWorker : worker[w].pc = "idle"
    OBVIOUS
  <2> HIDE DEF b
  <2>3. CASE b = TRUE
    BY <2>1, <2>3
  <2>4. CASE b = FALSE
    BY <2>1, <2>2, <2>4
  <2>5. QED
    BY <2>1, <2>3, <2>4
<1>4. /\ vLog' \in [keys : 0..MaxDeks, raced : BOOLEAN] /\ vLog'.keys = vLog.keys
      /\ vLog'.raced \/ (~vLog.raced /\ \A w \in VtWorker : worker[w].pc = "idle")
  BY <1>1, <1>3
<1>5. UNCHANGED <<object, upload, worker, cache, reader>> /\ vrow.state = "encrypting"
  BY DEF ResetStale
<1>6. VtTypeOK'
  BY <1>2, <1>4, <1>5 DEF VaultInv, VtTypeOK, VaultRow
<1>7. KeysMade' /\ UploadAlone' /\ WorkersHaveKeys'
  BY <1>2, <1>4, <1>5 DEF VaultInv, KeysMade, UploadAlone, WorkersHaveKeys
<1>8. OneWorker'
  BY <1>4, <1>5 DEF OneWorker
<1>9. FileStaysReadable'
  BY <1>2, <1>4, <1>5 DEF VaultInv, FileStaysReadable, Readable, ObjectHasRow,
                                MarkedIsEncrypted, ReadFailuresPass
<1>10. QED
  BY <1>6, <1>7, <1>8, <1>9 DEF VaultInv

-----------------------------------------------------------------------------
(* Reading *)

\* A request's record changes: to a key that the row has, or has the request had.
LEMMA ReaderOK ==
  ASSUME VaultInv, NEW h \in VtReader, NEW b \in Reading, reader' = [reader EXCEPT ![h] = b],
         b.dek = vrow.dek \/ b.dek = reader[h].dek,
         ~vLog.raced /\ b.failed => b.dek # vrow.dek,
         UNCHANGED <<vrow, object, upload, worker, vLog>>, cache' \subseteq Dek
  PROVE  VaultInv'
<1>1. /\ reader' \in [VtReader -> Reading]
      /\ \A g \in VtReader : reader'[g] = IF g = h THEN b ELSE reader[g]
  BY VaultTypes DEF VaultInv
<1>2. VtTypeOK'
  BY <1>1 DEF VaultInv, VtTypeOK, Reading
<1>3. KeysMade' /\ UploadAlone' /\ WorkersHaveKeys'
  BY <1>1 DEF VaultInv, KeysMade, UploadAlone, WorkersHaveKeys
<1>4. OneWorker'
  BY <1>1 DEF VaultInv, OneWorker
<1>5. FileStaysReadable'
  BY <1>1 DEF VaultInv, FileStaysReadable, Readable, ObjectHasRow, MarkedIsEncrypted,
              ReadFailuresPass
<1>6. QED
  BY <1>2, <1>3, <1>4, <1>5 DEF VaultInv

\* A request reads the key of the row.
LEMMA ReadRowOK == ASSUME VaultInv, NEW h \in VtReader, ReadRow(h) PROVE VaultInv'
<1> DEFINE b == [pc |-> "row", dek |-> vrow.dek, failed |-> FALSE]
<1>1. b \in Reading /\ b.dek = vrow.dek /\ ~b.failed
  BY VaultTypes DEF VaultInv, Reading, VaultRow
<1>2. reader' = [reader EXCEPT ![h] = b]
  BY DEF ReadRow
<1> HIDE DEF b
<1>3. cache \subseteq Dek
  BY DEF VaultInv, VtTypeOK
<1>4. UNCHANGED <<vrow, object, upload, worker, cache, vLog>>
  BY DEF ReadRow
<1>5. QED
  BY <1>1, <1>2, <1>3, <1>4, ReaderOK

\* A request that fails to decrypt had another key than the row has.
LEMMA ReadObjectOK == ASSUME VaultInv, NEW h \in VtReader, ReadObject(h) PROVE VaultInv'
<1>1. /\ object \in VaultObject /\ reader[h] \in Reading /\ MaxDeks \in Nat /\ NoDek = 0
  BY VaultTypes DEF VaultInv
<1> PICK d : d = reader[h].dek
  OBVIOUS
<1> DEFINE f == object.there /\ object.key # NoDek /\ ~(d # NoDek /\ Cached(d) = object.key)
           b == [pc |-> "idle", dek |-> d, failed |-> f]
<1>2. f \in BOOLEAN /\ (f => object.there /\ object.key # NoDek /\ d # object.key)
  BY DEF Cached
<1>3. reader' = [reader EXCEPT ![h] = b]
  BY DEF ReadObject
<1> HIDE DEF f
<1>4. b \in Reading /\ b.dek = d /\ b.failed = f
  BY <1>1, <1>2 DEF Reading
<1> HIDE DEF b
<1>5. cache' \subseteq Dek
  <2>1. d \in 0..MaxDeks
    BY <1>1 DEF Reading
  <2>2. d # NoDek => d \in Dek
    BY <1>1, <2>1 DEF Dek
  <2>3. cache' = cache \/ (d # NoDek /\ cache' = cache \cup {d})
    BY DEF ReadObject, Cached
  <2>4. cache \subseteq Dek
    BY DEF VaultInv, VtTypeOK
  <2>5. QED
    BY <2>2, <2>3, <2>4
<1>6. ~vLog.raced /\ f => d # vrow.dek
  BY <1>2 DEF VaultInv, FileStaysReadable, Readable
<1>7. QED
  BY <1>3, <1>4, <1>5, <1>6, ReaderOK DEF ReadObject

\* Keys leave the memory.
LEMMA CacheExpiresOK == VaultInv /\ CacheExpires => VaultInv'
<1> SUFFICES ASSUME VaultInv, CacheExpires PROVE VaultInv'
  OBVIOUS
<1>1. VtTypeOK'
  BY DEF VaultInv, VtTypeOK, CacheExpires
<1>2. KeysMade' /\ UploadAlone' /\ WorkersHaveKeys' /\ OneWorker'
  BY DEF VaultInv, KeysMade, UploadAlone, WorkersHaveKeys, OneWorker, CacheExpires
<1>3. FileStaysReadable'
  BY DEF VaultInv, FileStaysReadable, Readable, ObjectHasRow, MarkedIsEncrypted, ReadFailuresPass,
         CacheExpires
<1>4. QED
  BY <1>1, <1>2, <1>3 DEF VaultInv

-----------------------------------------------------------------------------

\* Every step keeps it.
LEMMA VaultStep == VaultInv /\ [VtNext]_vtVars => VaultInv'
<1> SUFFICES ASSUME VaultInv, [VtNext]_vtVars PROVE VaultInv'
  OBVIOUS
<1>1. CASE UploadRow \/ UploadObject \/ UploadFails
  BY <1>1, UploadRowOK, UploadObjectOK, UploadFailsOK
<1>2. ASSUME NEW w \in VtWorker, Claim(w) \/ Download(w) \/ SaveKey(w) PROVE VaultInv'
  BY <1>2, ClaimOK, DownloadOK, SaveKeyOK
<1>3. ASSUME NEW w \in VtWorker, Overwrite(w) \/ MarkEncrypted(w) \/ WorkerFails(w)
      PROVE  VaultInv'
  BY <1>3, OverwriteOK, MarkEncryptedOK, GoesOK DEF WorkerFails
<1>4. CASE RowAges \/ ResetStale \/ CacheExpires
  BY <1>4, RowAgesOK, ResetStaleOK, CacheExpiresOK
<1>5. ASSUME NEW h \in VtReader, ReadRow(h) \/ ReadObject(h) PROVE VaultInv'
  BY <1>5, ReadRowOK, ReadObjectOK
<1>6. CASE UNCHANGED vtVars
  <2>1. UNCHANGED <<vrow, object, upload, worker, cache, reader, vLog>>
    BY <1>6 DEF vtVars
  <2>2. VtTypeOK'
    BY <2>1 DEF VaultInv, VtTypeOK
  <2>3. KeysMade' /\ UploadAlone' /\ WorkersHaveKeys' /\ OneWorker'
    BY <2>1 DEF VaultInv, KeysMade, UploadAlone, WorkersHaveKeys, OneWorker
  <2>4. FileStaysReadable'
    BY <2>1 DEF VaultInv, FileStaysReadable, Readable, ObjectHasRow, MarkedIsEncrypted,
                ReadFailuresPass
  <2>5. QED
    BY <2>2, <2>3, <2>4 DEF VaultInv
<1>7. QED
  BY <1>1, <1>2, <1>3, <1>4, <1>5, <1>6 DEF VtNext

\* VtTypeOK: types are kept, and keys stay within their bound.
THEOREM VaultTypeCorrect == VtSpec => []VtTypeOK
<1>1. VaultInv => VtTypeOK
  BY DEF VaultInv
<1>2. QED
  BY <1>1, VaultInitOK, VaultStep, PTL DEF VtSpec

\* FileStaysReadable: whatever fails or dies in an upload or in the backfill, row and object keep
\* the keys and marks by which the file can be read, unless a row is reset under its worker; a
\* reader that fails succeeds when asked again.
THEOREM VaultIsReadable == VtSpec => []FileStaysReadable
<1>1. VaultInv => FileStaysReadable
  BY DEF VaultInv
<1>2. QED
  BY <1>1, VaultInitOK, VaultStep, PTL DEF VtSpec

-----------------------------------------------------------------------------
(***************************************************************************)
(* FileRetention. That an expiry is recorded once needs a count: a row     *)
(* that is due and active, or was so when the clean-up listed it, has had  *)
(* an expiry more than it has records (Recorded). That a renewed row is    *)
(* active needs that a report which meets no clean-up and no other report  *)
(* knows the status of its row (AsRead).                                   *)
(***************************************************************************)
Cleanup == [pc : {"idle", "locked", "listed", "written"}, via : {"redis", "memory"},
            lapsed : BOOLEAN, seen : SUBSET (1..MaxRows)]
Report == [busy : BOOLEAN, row : 0..MaxRows, saw : {"active", "expired"}]
Counts == [1..MaxRows -> Nat]
FrLog == [reports : 0..MaxReports, cleanups : 0..MaxCleanups, faults : 0..MaxRedisFaults,
          twoJobs : BOOLEAN, twoReports : BOOLEAN, crossed : BOOLEAN,
          dues : Counts, records : Counts]

FrTypes ==
  /\ governed \in Seq(FileRow)
  /\ redisLock \in FrReplica \cup {Unlocked}
  /\ ownLock \in [FrReplica -> BOOLEAN]
  /\ cleanup \in [FrReplica -> Cleanup]
  /\ report \in [FrScan -> Report]
  /\ frLog \in FrLog

\* A row for each report at most, and reports and clean-ups know rows that exist.
Reporting == {h \in FrScan : report[h].busy}

RowsCounted ==
  /\ IsFiniteSet(Reporting) /\ Len(governed) + Cardinality(Reporting) <= frLog.reports
  /\ \A h \in FrScan : report[h].row \in 0..Len(governed)
  /\ \A r \in FrReplica : cleanup[r].seen \subseteq DOMAIN governed

\* While clean-ups come one at a time a row that will be expired has an expiry to record.
Recorded ==
  ~frLog.twoJobs =>
    /\ \A q, r \in FrReplica : Cleaning(q) /\ Cleaning(r) => q = r
    /\ \A i \in 1..MaxRows : frLog.records[i] <= frLog.dues[i]
    /\ \A i \in DOMAIN governed : governed[i].due /\ governed[i].status = "active" =>
         frLog.records[i] < frLog.dues[i]
    /\ \A r \in FrReplica : cleanup[r].pc = "listed" =>
         \A i \in cleanup[r].seen : frLog.records[i] < frLog.dues[i]

\* While reports come one at a time, one that found no row still finds none.
ReportsInTurn ==
  ~frLog.twoReports =>
    /\ \A g, h \in Reporting : g = h
    /\ \A h \in Reporting : report[h].row = 0 => governed = <<>>
    /\ Len(governed) <= 1

\* While neither meets the other, the rows a clean-up listed are still due ...
Apart ==
  ~frLog.crossed =>
    /\ Reporting = {} \/ \A r \in FrReplica : ~Cleaning(r)
    /\ \A r \in FrReplica : cleanup[r].pc = "listed" => \A i \in cleanup[r].seen : governed[i].due

\* ... and a row is what the report has read.
AsRead ==
  ~frLog.crossed /\ ~frLog.twoReports =>
    /\ \A h \in Reporting : report[h].row # 0 => report[h].saw = governed[report[h].row].status
    /\ \A i \in DOMAIN governed : governed[i].status = "expired" => governed[i].due

RetentionInv ==
  FrTypes /\ RowsCounted /\ LockIsOwn /\ Recorded /\ ReportsInTurn /\ Apart /\ AsRead

-----------------------------------------------------------------------------

\* The rows, one by one, and how many there can be.
LEMMA RowTypes ==
  ASSUME FrTypes, RowsCounted
  PROVE  /\ Len(governed) \in Nat /\ DOMAIN governed = 1..Len(governed)
         /\ Len(governed) <= MaxRows /\ DOMAIN governed \subseteq 1..MaxRows
         /\ \A i \in DOMAIN governed : governed[i] \in FileRow
         /\ Cardinality(Reporting) \in Nat /\ MaxReports \in Nat /\ MaxRows = MaxReports
<1>1. /\ Len(governed) \in Nat /\ DOMAIN governed = 1..Len(governed)
      /\ \A i \in DOMAIN governed : governed[i] \in FileRow
  BY DEF FrTypes
<1>2. Cardinality(Reporting) \in Nat
  BY FS_CardinalityType DEF RowsCounted
<1>3. MaxReports \in Nat /\ MaxRows = MaxReports
  BY RetentionAssumption DEF MaxRows
<1>4. frLog.reports \in 0..MaxReports
  BY DEF FrTypes, FrLog
<1>5. QED
  BY <1>1, <1>2, <1>3, <1>4 DEF RowsCounted

\* No row, no report and no clean-up.
LEMMA RetentionInitOK == FrInit => RetentionInv
<1> SUFFICES ASSUME FrInit PROVE RetentionInv
  OBVIOUS
<1>1. MaxRows \in Nat /\ MaxReports \in Nat /\ MaxCleanups \in Nat /\ MaxRedisFaults \in Nat
  BY RetentionAssumption DEF MaxRows
<1>2. governed = <<>> /\ Len(governed) = 0 /\ DOMAIN governed = {} /\ governed \in Seq(FileRow)
  BY DEF FrInit
<1>3. NoCleanup \in Cleanup /\ NoReport \in Report
  BY <1>1 DEF NoCleanup, NoReport, Cleanup, Report
<1>4. /\ cleanup \in [FrReplica -> Cleanup] /\ report \in [FrScan -> Report]
      /\ \A r \in FrReplica : cleanup[r] = NoCleanup
      /\ \A h \in FrScan : report[h] = NoReport
  BY <1>3 DEF FrInit
<1>5. frLog \in FrLog
  <2> DEFINE none == [i \in 1..MaxRows |-> 0]
  <2>1. none \in Counts
    BY DEF Counts
  <2>2. frLog = [reports |-> 0, cleanups |-> 0, faults |-> 0, twoJobs |-> FALSE,
                 twoReports |-> FALSE, crossed |-> FALSE, dues |-> none, records |-> none]
    BY DEF FrInit
  <2> HIDE DEF none
  <2>3. QED
    BY <1>1, <2>1, <2>2 DEF FrLog
<1>6. FrTypes
  BY <1>2, <1>4, <1>5 DEF FrInit, FrTypes
<1>7. Reporting = {} /\ IsFiniteSet(Reporting) /\ Cardinality(Reporting) = 0
  <2>1. Reporting = {}
    BY <1>4 DEF Reporting, NoReport
  <2>2. QED
    BY <2>1, FS_EmptySet
<1>8. \A r \in FrReplica : ~Cleaning(r) /\ cleanup[r].seen = {} /\ cleanup[r].pc = "idle"
  BY <1>4 DEF Cleaning, NoCleanup
<1>9. RowsCounted
  BY <1>2, <1>4, <1>7, <1>8 DEF RowsCounted, FrInit, NoReport
<1>10. Recorded
  BY <1>1, <1>2, <1>8 DEF Recorded, FrInit
<1>11. LockIsOwn /\ ReportsInTurn /\ Apart /\ AsRead
  BY <1>2, <1>7, <1>8 DEF LockIsOwn, ReportsInTurn, Apart, AsRead
<1>12. QED
  BY <1>6, <1>9, <1>10, <1>11 DEF RetentionInv

-----------------------------------------------------------------------------
(* Locks, and clean-ups that begin and end *)

\* A clean-up ends, fails or loses its lock: nothing that was not under way is.
LEMMA CleanupsCalm ==
  ASSUME RetentionInv, FrTypes', UNCHANGED <<governed, report>>,
         \A f \in {"reports", "twoJobs", "twoReports", "crossed", "dues", "records"} :
           frLog'[f] = frLog[f],
         \A r \in FrReplica : /\ Cleaning(r)' => Cleaning(r)
                              /\ cleanup'[r].pc = "listed" => cleanup[r].pc = "listed"
                              /\ cleanup'[r].seen \subseteq cleanup[r].seen
  PROVE  RowsCounted' /\ Recorded' /\ ReportsInTurn' /\ Apart' /\ AsRead'
<1>1. /\ frLog'.reports = frLog.reports /\ frLog'.twoJobs = frLog.twoJobs
      /\ frLog'.twoReports = frLog.twoReports /\ frLog'.crossed = frLog.crossed
      /\ frLog'.dues = frLog.dues /\ frLog'.records = frLog.records
  OBVIOUS
<1>2. Reporting' = Reporting
  BY DEF Reporting
<1>3. RowsCounted'
  BY <1>1, <1>2 DEF RetentionInv, RowsCounted
<1>4. Recorded'
  BY <1>1 DEF RetentionInv, Recorded
<1>5. ReportsInTurn'
  BY <1>1, <1>2 DEF RetentionInv, ReportsInTurn
<1>6. Apart'
  BY <1>1, <1>2 DEF RetentionInv, Apart
<1>7. AsRead'
  BY <1>1, <1>2 DEF RetentionInv, AsRead
<1>8. QED
  BY <1>3, <1>4, <1>5, <1>6, <1>7

\* One replica's clean-up takes a state of another kind.
LEMMA CleanupTurns ==
  ASSUME FrTypes, NEW r \in FrReplica, NEW w \in Cleanup, cleanup' = [cleanup EXCEPT ![r] = w]
  PROVE  /\ cleanup' \in [FrReplica -> Cleanup]
         /\ \A q \in FrReplica : cleanup'[q] = IF q = r THEN w ELSE cleanup[q]
BY DEF FrTypes

\* One more call that Redis does not answer.
LEMMA FaultCounts ==
  ASSUME FrTypes, frLog.faults < MaxRedisFaults, frLog' = [frLog EXCEPT !.faults = @ + 1]
  PROVE  /\ frLog' \in FrLog
         /\ \A f \in {"reports", "twoJobs", "twoReports", "crossed", "dues", "records"} :
              frLog'[f] = frLog[f]
<1>1. frLog \in FrLog /\ MaxRedisFaults \in Nat
  BY RetentionAssumption DEF FrTypes
<1>2. frLog.faults + 1 \in 0..MaxRedisFaults
  BY <1>1 DEF FrLog
<1>3. frLog' \in FrLog
  BY <1>1, <1>2 DEF FrLog
<1>4. QED
  BY <1>1, <1>3 DEF FrLog

\* A clean-up is left, by one that is done or dies.
LEMMA LeaveJobOK ==
  ASSUME RetentionInv, NEW r \in FrReplica, LeaveJob(r), UNCHANGED <<governed, report>>,
         ownLock' \in [FrReplica -> BOOLEAN],
         redisLock' = redisLock \/ (redisLock = r /\ redisLock' = Unlocked),
         \/ UNCHANGED frLog
         \/ frLog.faults < MaxRedisFaults /\ frLog' = [frLog EXCEPT !.faults = @ + 1]
  PROVE  RetentionInv'
<1>1. NoCleanup \in Cleanup /\ NoCleanup.pc = "idle" /\ NoCleanup.seen = {}
  BY DEF NoCleanup, Cleanup
<1>2. /\ cleanup' \in [FrReplica -> Cleanup]
      /\ \A q \in FrReplica : cleanup'[q] = IF q = r THEN NoCleanup ELSE cleanup[q]
  BY <1>1, CleanupTurns DEF LeaveJob, RetentionInv
<1>3. /\ frLog' \in FrLog
      /\ \A f \in {"reports", "twoJobs", "twoReports", "crossed", "dues", "records"} :
           frLog'[f] = frLog[f]
  BY FaultCounts DEF RetentionInv, FrTypes
<1>4. FrTypes'
  BY <1>2, <1>3 DEF RetentionInv, FrTypes
<1>5. \A q \in FrReplica : /\ Cleaning(q)' => Cleaning(q) /\ q # r
                           /\ cleanup'[q].pc = "listed" => cleanup[q].pc = "listed"
                           /\ cleanup'[q].seen \subseteq cleanup[q].seen
  BY <1>1, <1>2 DEF Cleaning
<1>6. LockIsOwn'
  BY <1>2, <1>5 DEF RetentionInv, LockIsOwn
<1>7. QED
  BY <1>3, <1>4, <1>5, <1>6, CleanupsCalm DEF RetentionInv

\* The lock of Redis expires, and the clean-up that held it knows nothing of that.
LEMMA RedisLockExpiresOK ==
  ASSUME RetentionInv, RedisLockExpires
  PROVE  RetentionInv'
<1>1. redisLock \in FrReplica /\ cleanup[redisLock] \in Cleanup
  BY DEF RedisLockExpires, RetentionInv, FrTypes
<1> DEFINE b == cleanup[redisLock].pc # "idle"
           w == [cleanup[redisLock] EXCEPT !.lapsed = b]
<1>2. b \in BOOLEAN /\ cleanup' = [cleanup EXCEPT ![redisLock] = w]
  BY <1>1 DEF RedisLockExpires, RetentionInv, FrTypes
<1>3. b <=> cleanup[redisLock].pc # "idle"
  OBVIOUS
<1> HIDE DEF b
<1>4. /\ w \in Cleanup /\ w.lapsed = b /\ w.pc = cleanup[redisLock].pc
      /\ w.seen = cleanup[redisLock].seen /\ w.via = cleanup[redisLock].via
  BY <1>1, <1>2 DEF Cleanup
<1> HIDE DEF w
<1>5. /\ cleanup' \in [FrReplica -> Cleanup]
      /\ \A q \in FrReplica : cleanup'[q] = IF q = redisLock THEN w ELSE cleanup[q]
  BY <1>1, <1>2, <1>4, CleanupTurns DEF RetentionInv
<1>6. FrTypes'
  BY <1>5 DEF RetentionInv, FrTypes, RedisLockExpires
<1>7. \A q \in FrReplica : /\ Cleaning(q)' => Cleaning(q)
                           /\ cleanup'[q].pc = "listed" => cleanup[q].pc = "listed"
                           /\ cleanup'[q].seen \subseteq cleanup[q].seen
  BY <1>4, <1>5 DEF Cleaning
<1>8. \A q \in FrReplica : ~(Cleaning(q)' /\ cleanup'[q].via = "redis" /\ ~cleanup'[q].lapsed)
  <2> SUFFICES ASSUME NEW q \in FrReplica, Cleaning(q)', cleanup'[q].via = "redis",
                      ~cleanup'[q].lapsed
               PROVE  FALSE
    OBVIOUS
  <2>1. CASE q = redisLock
    BY <1>3, <1>4, <1>5, <2>1 DEF Cleaning
  <2>2. CASE q # redisLock
    BY <1>5, <2>2 DEF Cleaning, RetentionInv, LockIsOwn
  <2>3. QED
    BY <2>1, <2>2
<1>9. LockIsOwn'
  BY <1>8 DEF LockIsOwn
<1>10. QED
  BY <1>6, <1>7, <1>9, CleanupsCalm DEF RetentionInv, RedisLockExpires

\* A lock in memory expires.
LEMMA OwnLockExpiresOK ==
  ASSUME RetentionInv, NEW r \in FrReplica, OwnLockExpires(r)
  PROVE  RetentionInv'
<1>1. FrTypes'
  BY DEF RetentionInv, FrTypes, OwnLockExpires
<1>2. LockIsOwn'
  BY DEF RetentionInv, LockIsOwn, Cleaning, OwnLockExpires
<1>3. QED
  BY <1>1, <1>2, CleanupsCalm DEF RetentionInv, OwnLockExpires, Cleaning

\* A clean-up fails and goes on to release its lock.
LEMMA CleanupFailsOK ==
  ASSUME RetentionInv, NEW r \in FrReplica, CleanupFails(r)
  PROVE  RetentionInv'
<1>1. cleanup[r] \in Cleanup
  BY DEF RetentionInv, FrTypes
<1> DEFINE w == [cleanup[r] EXCEPT !.pc = "written"]
<1>2. /\ w \in Cleanup /\ w.pc = "written" /\ w.seen = cleanup[r].seen /\ w.via = cleanup[r].via
      /\ w.lapsed = cleanup[r].lapsed
  BY <1>1 DEF Cleanup
<1>3. cleanup' = [cleanup EXCEPT ![r] = w]
  BY DEF CleanupFails, RetentionInv, FrTypes
<1> HIDE DEF w
<1>4. /\ cleanup' \in [FrReplica -> Cleanup]
      /\ \A q \in FrReplica : cleanup'[q] = IF q = r THEN w ELSE cleanup[q]
  BY <1>2, <1>3, CleanupTurns DEF RetentionInv
<1>5. FrTypes'
  BY <1>4 DEF RetentionInv, FrTypes, CleanupFails
<1>6. \A q \in FrReplica : /\ Cleaning(q)' => Cleaning(q)
                           /\ cleanup'[q].pc = "listed" => cleanup[q].pc = "listed"
                           /\ cleanup'[q].seen \subseteq cleanup[q].seen
  BY <1>2, <1>4 DEF Cleaning, CleanupFails
<1>7. LockIsOwn'
  BY <1>2, <1>4, <1>6 DEF RetentionInv, LockIsOwn, CleanupFails
<1>8. QED
  BY <1>5, <1>6, <1>7, CleanupsCalm DEF RetentionInv, CleanupFails

\* A clean-up begins with nothing listed, and counts as an overlap what it meets.
LEMMA EnterJobOK ==
  ASSUME RetentionInv, NEW r \in FrReplica, NEW via \in {"redis", "memory"}, EnterJob(r, via),
         DueNow(r), UNCHANGED <<governed, report>>,
         via = "memory" => frLog.faults < MaxRedisFaults
  PROVE  /\ cleanup' \in [FrReplica -> Cleanup] /\ frLog' \in FrLog
         /\ \A q \in FrReplica : q # r => cleanup'[q] = cleanup[q]
         /\ cleanup'[r].via = via
         /\ RowsCounted' /\ Recorded' /\ ReportsInTurn' /\ Apart' /\ AsRead'
<1> DEFINE w == [NoCleanup EXCEPT !.pc = "locked", !.via = via]
<1>1. w \in Cleanup /\ w.pc = "locked" /\ w.via = via /\ w.seen = {}
  BY DEF NoCleanup, Cleanup
<1>2. cleanup' = [cleanup EXCEPT ![r] = w]
  BY DEF EnterJob
<1> HIDE DEF w
<1>3. /\ cleanup' \in [FrReplica -> Cleanup]
      /\ \A q \in FrReplica : cleanup'[q] = IF q = r THEN w ELSE cleanup[q]
  BY <1>1, <1>2, CleanupTurns DEF RetentionInv
<1> DEFINE jobs == frLog.twoJobs \/ \E q \in FrReplica : Cleaning(q)
           meets == frLog.crossed \/ \E h \in FrScan : report[h].busy
           n == IF via = "memory" THEN frLog.faults + 1 ELSE frLog.faults
<1>4. frLog' = [frLog EXCEPT !.cleanups = @ + 1, !.faults = n, !.twoJobs = jobs, !.crossed = meets]
  BY DEF EnterJob
<1>5. /\ jobs \in BOOLEAN /\ meets \in BOOLEAN /\ n \in 0..MaxRedisFaults
      /\ frLog.cleanups + 1 \in 0..MaxCleanups
      /\ ~jobs => ~frLog.twoJobs /\ \A q \in FrReplica : ~Cleaning(q)
      /\ ~meets => ~frLog.crossed /\ Reporting = {}
      /\ frLog \in FrLog
  BY RetentionAssumption DEF RetentionInv, FrTypes, FrLog, DueNow, Reporting
<1> HIDE DEF jobs, meets, n
<1>6. frLog' = [reports |-> frLog.reports, cleanups |-> frLog.cleanups + 1, faults |-> n,
                twoJobs |-> jobs, twoReports |-> frLog.twoReports, crossed |-> meets,
                dues |-> frLog.dues, records |-> frLog.records]
  BY <1>4, <1>5 DEF FrLog
<1>7. /\ frLog' \in FrLog
      /\ frLog'.reports = frLog.reports /\ frLog'.twoReports = frLog.twoReports
      /\ frLog'.dues = frLog.dues /\ frLog'.records = frLog.records
      /\ frLog'.twoJobs = jobs /\ frLog'.crossed = meets
  BY <1>5, <1>6 DEF FrLog
<1>8. Reporting' = Reporting
  BY DEF Reporting
<1>9. RowsCounted'
  BY <1>1, <1>3, <1>7, <1>8 DEF RetentionInv, RowsCounted
<1>10. Recorded'
  BY <1>1, <1>3, <1>5, <1>7 DEF RetentionInv, Recorded, Cleaning
<1>11. ReportsInTurn'
  BY <1>7, <1>8 DEF RetentionInv, ReportsInTurn
<1>12. Apart'
  BY <1>1, <1>3, <1>5, <1>7, <1>8 DEF RetentionInv, Apart
<1>13. AsRead'
  BY <1>5, <1>7, <1>8 DEF RetentionInv, AsRead
<1>14. QED
  BY <1>1, <1>3, <1>7, <1>9, <1>10, <1>11, <1>12, <1>13

\* A clean-up begins with the lock of Redis, which nobody had.
LEMMA TakeRedisLockOK ==
  ASSUME RetentionInv, NEW r \in FrReplica, TakeRedisLock(r)
  PROVE  RetentionInv'
<1>1. /\ cleanup' \in [FrReplica -> Cleanup] /\ frLog' \in FrLog
      /\ \A q \in FrReplica : q # r => cleanup'[q] = cleanup[q]
      /\ RowsCounted' /\ Recorded' /\ ReportsInTurn' /\ Apart' /\ AsRead'
  BY EnterJobOK DEF TakeRedisLock
<1>2. FrTypes'
  BY <1>1 DEF RetentionInv, FrTypes, TakeRedisLock
<1>3. LockIsOwn'
  BY <1>1, RetentionAssumption DEF RetentionInv, LockIsOwn, Cleaning, TakeRedisLock, Unlocked
<1>4. QED
  BY <1>1, <1>2, <1>3 DEF RetentionInv

\* A clean-up begins with a lock in memory; the one of Redis may be left set.
LEMMA TakeOwnLockOK ==
  ASSUME RetentionInv, NEW r \in FrReplica, TakeOwnLock(r)
  PROVE  RetentionInv'
<1>1. /\ cleanup' \in [FrReplica -> Cleanup] /\ frLog' \in FrLog
      /\ \A q \in FrReplica : q # r => cleanup'[q] = cleanup[q]
      /\ cleanup'[r].via = "memory"
      /\ RowsCounted' /\ Recorded' /\ ReportsInTurn' /\ Apart' /\ AsRead'
  BY EnterJobOK DEF TakeOwnLock
<1>2. FrTypes'
  BY <1>1 DEF RetentionInv, FrTypes, TakeOwnLock
<1>3. redisLock' = redisLock \/ redisLock = Unlocked
  BY DEF TakeOwnLock
<1>4. LockIsOwn'
  BY <1>1, <1>3, RetentionAssumption DEF RetentionInv, LockIsOwn, Cleaning, Unlocked
<1>5. QED
  BY <1>1, <1>2, <1>4 DEF RetentionInv

-----------------------------------------------------------------------------
(* The clean-up *)

\* A clean-up lists rows that are due and active, each of which has an expiry to record.
LEMMA ListDueOK ==
  ASSUME RetentionInv, NEW r \in FrReplica, ListDue(r)
  PROVE  RetentionInv'
<1>1. cleanup[r] \in Cleanup /\ DOMAIN governed \subseteq 1..MaxRows
  BY RowTypes DEF RetentionInv, FrTypes
<1> DEFINE S == {i \in DOMAIN governed : governed[i].due /\ governed[i].status = "active"}
           w == [cleanup[r] EXCEPT !.pc = "listed", !.seen = S]
<1>2. /\ S \subseteq DOMAIN governed
      /\ \A i \in S : governed[i].due /\ governed[i].status = "active"
  OBVIOUS
<1>3. cleanup' = [cleanup EXCEPT ![r] = w]
  BY DEF ListDue, RetentionInv, FrTypes
<1> HIDE DEF S
<1>4. /\ w \in Cleanup /\ w.pc = "listed" /\ w.seen = S /\ w.via = cleanup[r].via
      /\ w.lapsed = cleanup[r].lapsed
  BY <1>1, <1>2 DEF Cleanup
<1> HIDE DEF w
<1>5. /\ cleanup' \in [FrReplica -> Cleanup]
      /\ \A q \in FrReplica : cleanup'[q] = IF q = r THEN w ELSE cleanup[q]
  BY <1>3, <1>4, CleanupTurns DEF RetentionInv
<1>6. \A q \in FrReplica : Cleaning(q)' <=> Cleaning(q)
  BY <1>4, <1>5 DEF Cleaning, ListDue
<1>7. Reporting' = Reporting
  BY DEF Reporting, ListDue
<1>8. FrTypes'
  BY <1>5 DEF RetentionInv, FrTypes, ListDue
<1>9. RowsCounted'
  BY <1>2, <1>4, <1>5, <1>7 DEF RetentionInv, RowsCounted, ListDue
<1>10. LockIsOwn'
  BY <1>4, <1>5, <1>6 DEF RetentionInv, LockIsOwn, ListDue
<1>11. Recorded'
  BY <1>2, <1>4, <1>5, <1>6 DEF RetentionInv, Recorded, ListDue
<1>12. Apart'
  BY <1>2, <1>4, <1>5, <1>6, <1>7 DEF RetentionInv, Apart, ListDue
<1>13. ReportsInTurn' /\ AsRead'
  BY <1>7 DEF RetentionInv, ReportsInTurn, AsRead, ListDue
<1>14. QED
  BY <1>8, <1>9, <1>10, <1>11, <1>12, <1>13 DEF RetentionInv

\* A clean-up expires what it has listed and records it.
LEMMA WriteExpiredOK ==
  ASSUME RetentionInv, NEW r \in FrReplica, WriteExpired(r)
  PROVE  RetentionInv'
<1>1. /\ cleanup[r] \in Cleanup /\ cleanup[r].pc = "listed" /\ frLog \in FrLog
      /\ DOMAIN governed = 1..Len(governed) /\ Len(governed) \in Nat
      /\ DOMAIN governed \subseteq 1..MaxRows
      /\ \A i \in DOMAIN governed : governed[i] \in FileRow
  BY RowTypes DEF RetentionInv, FrTypes, WriteExpired
<1> PICK S : S = cleanup[r].seen
  OBVIOUS
<1> DEFINE w == [cleanup[r] EXCEPT !.pc = "written"]
<1>2. /\ w \in Cleanup /\ w.pc = "written" /\ w.seen = S /\ w.via = cleanup[r].via
      /\ w.lapsed = cleanup[r].lapsed
  BY <1>1 DEF Cleanup
<1>3. cleanup' = [cleanup EXCEPT ![r] = w]
  BY DEF WriteExpired, RetentionInv, FrTypes
<1> HIDE DEF w
<1>4. /\ cleanup' \in [FrReplica -> Cleanup]
      /\ \A q \in FrReplica : cleanup'[q] = IF q = r THEN w ELSE cleanup[q]
  BY <1>2, <1>3, CleanupTurns DEF RetentionInv
<1>5. \A q \in FrReplica : Cleaning(q)' <=> Cleaning(q)
  BY <1>1, <1>2, <1>4 DEF Cleaning
<1>6. /\ DOMAIN governed' = DOMAIN governed /\ Len(governed') = Len(governed)
      /\ governed' \in Seq(FileRow)
      /\ \A i \in DOMAIN governed : /\ governed'[i].due = governed[i].due
                                    /\ governed'[i].status = IF i \in S THEN "expired"
                                                             ELSE governed[i].status
  <2>1. governed' = [i \in DOMAIN governed |->
                       IF i \in S THEN [governed[i] EXCEPT !.status = "expired"] ELSE governed[i]]
    BY DEF WriteExpired
  <2>2. ASSUME NEW i \in DOMAIN governed
        PROVE  /\ governed'[i] \in FileRow /\ governed'[i].due = governed[i].due
               /\ governed'[i].status = IF i \in S THEN "expired" ELSE governed[i].status
    <3>1. governed'[i] = IF i \in S THEN [governed[i] EXCEPT !.status = "expired"]
                         ELSE governed[i]
      BY <2>1
    <3>2. QED
      BY <1>1, <3>1 DEF FileRow
  <2>3. DOMAIN governed' = DOMAIN governed
    BY <2>1
  <2>4. governed' \in [1..Len(governed) -> FileRow]
    BY <1>1, <2>1, <2>2
  <2>5. governed' \in Seq(FileRow) /\ Len(governed') = Len(governed)
    BY <1>1, <2>4
  <2>6. QED
    BY <2>2, <2>3, <2>5
<1> DEFINE kept == [i \in 1..MaxRows |-> frLog.records[i] + IF i \in S THEN 1 ELSE 0]
<1>7. /\ kept \in Counts
      /\ \A i \in 1..MaxRows : kept[i] = IF i \in S THEN frLog.records[i] + 1 ELSE frLog.records[i]
  <2>1. \A i \in 1..MaxRows : frLog.records[i] \in Nat
    BY <1>1 DEF FrLog, Counts
  <2>2. \A i \in 1..MaxRows :
          kept[i] \in Nat /\ kept[i] = IF i \in S THEN frLog.records[i] + 1 ELSE frLog.records[i]
    BY <2>1
  <2>3. QED
    BY <2>2 DEF Counts
<1>8. frLog' = [frLog EXCEPT !.records = kept]
  BY DEF WriteExpired
<1> HIDE DEF kept
<1>9. /\ frLog' \in FrLog /\ frLog'.records = kept /\ frLog'.dues = frLog.dues
      /\ frLog'.reports = frLog.reports /\ frLog'.twoJobs = frLog.twoJobs
      /\ frLog'.twoReports = frLog.twoReports /\ frLog'.crossed = frLog.crossed
  BY <1>1, <1>7, <1>8 DEF FrLog
<1>10. Reporting' = Reporting
  BY DEF Reporting, WriteExpired
<1>11. FrTypes'
  BY <1>4, <1>6, <1>9 DEF RetentionInv, FrTypes, WriteExpired
<1>12. RowsCounted'
  BY <1>2, <1>4, <1>6, <1>9, <1>10 DEF RetentionInv, RowsCounted, WriteExpired
<1>13. LockIsOwn'
  BY <1>2, <1>4, <1>5 DEF RetentionInv, LockIsOwn, WriteExpired
<1>14. Recorded'
  <2> SUFFICES ASSUME ~frLog.twoJobs
               PROVE  (/\ \A q, s \in FrReplica : Cleaning(q) /\ Cleaning(s) => q = s
                       /\ \A i \in 1..MaxRows : frLog.records[i] <= frLog.dues[i]
                       /\ \A i \in DOMAIN governed :
                            governed[i].due /\ governed[i].status = "active" =>
                              frLog.records[i] < frLog.dues[i]
                       /\ \A s \in FrReplica : cleanup[s].pc = "listed" =>
                            \A i \in cleanup[s].seen : frLog.records[i] < frLog.dues[i])'
    BY <1>9 DEF Recorded
  <2>1. \A i \in 1..MaxRows : frLog.records[i] \in Nat /\ frLog.dues[i] \in Nat
    BY <1>1 DEF FrLog, Counts
  <2>2. /\ \A q, s \in FrReplica : Cleaning(q) /\ Cleaning(s) => q = s
        /\ \A i \in 1..MaxRows : frLog.records[i] <= frLog.dues[i]
        /\ \A i \in DOMAIN governed : governed[i].due /\ governed[i].status = "active" =>
             frLog.records[i] < frLog.dues[i]
        /\ \A i \in S : frLog.records[i] < frLog.dues[i]
    BY <1>1 DEF RetentionInv, Recorded
  <2>3. (\A q, s \in FrReplica : Cleaning(q) /\ Cleaning(s) => q = s)'
    BY <1>5, <2>2
  <2>4. \A i \in 1..MaxRows : frLog'.records[i] <= frLog'.dues[i]
    BY <1>7, <1>9, <2>1, <2>2
  <2>5. \A i \in DOMAIN governed' : governed'[i].due /\ governed'[i].status = "active" =>
          frLog'.records[i] < frLog'.dues[i]
    BY <1>1, <1>6, <1>7, <1>9, <2>2
  <2>6. \A s \in FrReplica : cleanup'[s].pc # "listed"
    <3>1. \A s \in FrReplica : Cleaning(s) => s = r
      BY <1>1, <2>2 DEF Cleaning
    <3>2. QED
      BY <1>2, <1>4, <3>1 DEF Cleaning
  <2>7. QED
    BY <2>3, <2>4, <2>5, <2>6
<1>15. Apart' /\ ReportsInTurn'
  <2>1. Apart'
    BY <1>2, <1>4, <1>5, <1>6, <1>9, <1>10 DEF RetentionInv, Apart, RowsCounted
  <2>2. ReportsInTurn'
    BY <1>6, <1>9, <1>10 DEF RetentionInv, ReportsInTurn, WriteExpired
  <2>3. QED
    BY <2>1, <2>2
<1>16. AsRead'
  <2> SUFFICES ASSUME ~frLog.crossed, ~frLog.twoReports
               PROVE  /\ Reporting' = {}
                      /\ \A i \in DOMAIN governed' : governed'[i].status = "expired" =>
                           governed'[i].due
    BY <1>9 DEF AsRead
  <2>1. Reporting = {}
    BY <1>1 DEF RetentionInv, Apart, Cleaning
  <2>2. \A i \in S : governed[i].due
    BY <1>1 DEF RetentionInv, Apart
  <2>3. \A i \in DOMAIN governed : governed[i].status = "expired" => governed[i].due
    BY DEF RetentionInv, AsRead
  <2>4. QED
    BY <1>6, <1>10, <2>1, <2>2, <2>3
<1>17. QED
  BY <1>11, <1>12, <1>13, <1>14, <1>15, <1>16 DEF RetentionInv

-----------------------------------------------------------------------------
(* The scanner's reports *)

\* A report of the scanner's begins with the first row it finds, and counts what it meets.
LEMMA BeginReportOK ==
  ASSUME RetentionInv, NEW h \in FrScan, BeginReport(h)
  PROVE  RetentionInv'
<1>1. /\ Len(governed) \in Nat /\ DOMAIN governed = 1..Len(governed)
      /\ Len(governed) <= MaxRows /\ \A i \in DOMAIN governed : governed[i] \in FileRow
      /\ Cardinality(Reporting) \in Nat /\ MaxReports \in Nat /\ frLog \in FrLog
  BY RowTypes DEF RetentionInv, FrTypes
<1>2. PICK i \in IF governed = <<>> THEN {0} ELSE DOMAIN governed :
        report' = [report EXCEPT ![h] =
          [busy |-> TRUE, row |-> i, saw |-> IF i = 0 THEN "active" ELSE governed[i].status]]
  BY DEF BeginReport
<1>3. i \in 0..Len(governed) /\ (i = 0 => governed = <<>>) /\ i \in 0..MaxRows
  <2>1. MaxRows \in Nat
    BY RetentionAssumption DEF MaxRows
  <2>2. CASE governed = <<>>
    BY <1>1, <1>2, <2>1, <2>2
  <2>3. CASE governed # <<>>
    <3>1. i \in DOMAIN governed
      BY <1>2, <2>3
    <3>2. i \in 1..Len(governed)
      BY <1>1, <3>1
    <3>3. QED
      BY <1>1, <2>1, <3>2
  <2>4. QED
    BY <2>2, <2>3
<1> DEFINE w == [busy |-> TRUE, row |-> i, saw |-> IF i = 0 THEN "active" ELSE governed[i].status]
<1>4. /\ w \in Report /\ w.busy /\ w.row = i
      /\ i # 0 => w.saw = governed[i].status
  BY <1>1, <1>3 DEF Report, FileRow
<1>5. report' = [report EXCEPT ![h] = w]
  BY <1>2
<1> HIDE DEF w
<1>6. /\ report' \in [FrScan -> Report]
      /\ \A g \in FrScan : report'[g] = IF g = h THEN w ELSE report[g]
  BY <1>4, <1>5 DEF RetentionInv, FrTypes
<1>7. Reporting' = Reporting \cup {h} /\ h \notin Reporting
  BY <1>4, <1>6 DEF Reporting, BeginReport
<1>8. IsFiniteSet(Reporting') /\ Cardinality(Reporting') = Cardinality(Reporting) + 1
  BY <1>7, FS_AddElement DEF RetentionInv, RowsCounted
<1> DEFINE two == frLog.twoReports \/ \E k \in FrScan : report[k].busy
           meets == frLog.crossed \/ \E r \in FrReplica : Cleaning(r)
<1>9. frLog' = [frLog EXCEPT !.reports = @ + 1, !.twoReports = two, !.crossed = meets]
  BY DEF BeginReport
<1>10. /\ two \in BOOLEAN /\ meets \in BOOLEAN /\ frLog.reports + 1 \in 0..MaxReports
       /\ ~two => ~frLog.twoReports /\ Reporting = {}
       /\ ~meets => ~frLog.crossed /\ \A r \in FrReplica : ~Cleaning(r)
  BY <1>1 DEF FrLog, BeginReport, Reporting
<1> HIDE DEF two, meets
<1>11. frLog' = [reports |-> frLog.reports + 1, cleanups |-> frLog.cleanups,
                 faults |-> frLog.faults, twoJobs |-> frLog.twoJobs, twoReports |-> two,
                 crossed |-> meets, dues |-> frLog.dues, records |-> frLog.records]
  BY <1>1, <1>9 DEF FrLog
<1>12. /\ frLog' \in FrLog /\ frLog'.reports = frLog.reports + 1
       /\ frLog'.dues = frLog.dues /\ frLog'.records = frLog.records
       /\ frLog'.twoJobs = frLog.twoJobs /\ frLog'.twoReports = two /\ frLog'.crossed = meets
  BY <1>1, <1>10, <1>11 DEF FrLog
<1>13. UNCHANGED <<governed, redisLock, ownLock, cleanup>>
  BY DEF BeginReport
<1>14. FrTypes'
  BY <1>6, <1>12, <1>13 DEF RetentionInv, FrTypes
<1>15. RowsCounted'
  <2>1. Len(governed) + Cardinality(Reporting') <= frLog.reports + 1
    BY <1>1, <1>8 DEF RetentionInv, RowsCounted, FrLog
  <2>2. QED
    BY <1>3, <1>4, <1>6, <1>8, <1>12, <1>13, <2>1 DEF RetentionInv, RowsCounted
<1>16. LockIsOwn' /\ Recorded'
  BY <1>12, <1>13 DEF RetentionInv, LockIsOwn, Recorded, Cleaning
<1>17. ReportsInTurn'
  BY <1>3, <1>4, <1>6, <1>7, <1>10, <1>12, <1>13 DEF RetentionInv, ReportsInTurn
<1>18. Apart'
  BY <1>10, <1>12, <1>13 DEF RetentionInv, Apart, Cleaning
<1>19. AsRead'
  BY <1>4, <1>6, <1>7, <1>10, <1>12, <1>13 DEF RetentionInv, AsRead
<1>20. QED
  BY <1>14, <1>15, <1>16, <1>17, <1>18, <1>19 DEF RetentionInv

\* A report is done: its row, a new one or the one that it knew, is not due.
LEMMA CommitReportOK ==
  ASSUME RetentionInv, NEW h \in FrScan, CommitReport(h)
  PROVE  RetentionInv'
<1> PICK m : m = Len(governed)
  OBVIOUS
<1>1. /\ m \in Nat /\ m = Len(governed) /\ DOMAIN governed = 1..m
      /\ DOMAIN governed \subseteq 1..MaxRows
      /\ \A i \in DOMAIN governed : governed[i] \in FileRow
      /\ Cardinality(Reporting) \in Nat /\ MaxReports \in Nat /\ frLog \in FrLog
      /\ governed \in Seq(FileRow)
  BY RowTypes DEF RetentionInv, FrTypes
<1> PICK n : n = report[h].row
  OBVIOUS
<1> PICK saw : saw = report[h].saw
  OBVIOUS
<1>2. n \in 0..Len(governed) /\ saw \in {"active", "expired"} /\ h \in Reporting
  BY DEF RetentionInv, RowsCounted, FrTypes, Report, CommitReport, Reporting
<1>3. UNCHANGED <<redisLock, ownLock, cleanup, frLog>>
  BY DEF CommitReport
<1>4. /\ NoReport \in Report /\ ~NoReport.busy /\ NoReport.row = 0
      /\ report' \in [FrScan -> Report]
      /\ \A g \in FrScan : report'[g] = IF g = h THEN NoReport ELSE report[g]
  BY RetentionAssumption DEF NoReport, Report, CommitReport, RetentionInv, FrTypes, MaxRows
<1>5. Reporting' = Reporting \ {h}
  BY <1>4 DEF Reporting
<1>6. IsFiniteSet(Reporting') /\ Cardinality(Reporting') = Cardinality(Reporting) - 1
  BY <1>2, <1>5, FS_RemoveElement DEF RetentionInv, RowsCounted
\* The rows afterwards: one of them may be new, the row of the report is not due, and others stay.
<1> DEFINE Renewed(k) ==
             /\ k \in Nat /\ governed' \in Seq(FileRow) /\ Len(governed') = k
             /\ DOMAIN governed' = 1..k /\ k = IF n = 0 THEN m + 1 ELSE m
             /\ \A i \in 1..m : i # n => governed'[i] = governed[i]
             /\ n # 0 =>
                  /\ ~governed'[n].due
                  /\ governed'[n].status = IF saw = "expired" THEN "active" ELSE governed[n].status
             /\ n = 0 => ~governed'[k].due /\ governed'[k].status = "active"
<1>7. \E k : Renewed(k)
  <2>1. CASE n = 0
    <3> DEFINE new == [status |-> "active", due |-> FALSE]
    <3>1. new \in FileRow /\ ~new.due /\ new.status = "active"
      BY DEF FileRow
    <3>2. governed' = Append(governed, new)
      BY <2>1 DEF CommitReport
    <3> HIDE DEF new
    <3> PICK k : k = m + 1
      OBVIOUS
    <3>3. /\ governed' \in Seq(FileRow) /\ Len(governed') = k /\ DOMAIN governed' = 1..k
          /\ \A i \in 1..m : governed'[i] = governed[i]
      BY <1>1, <3>1, <3>2
    <3>4. governed'[k] = new
      BY <1>1, <3>2
    <3>5. Renewed(k)
      BY <1>1, <2>1, <3>1, <3>3, <3>4
    <3>6. QED
      BY <3>5
  <2>2. CASE n # 0
    <3>1. n \in 1..m
      BY <1>1, <1>2, <2>2
    <3> DEFINE new == [status |-> IF saw = "expired" THEN "active" ELSE governed[n].status,
                       due |-> FALSE]
    <3>2. /\ new \in FileRow /\ ~new.due
          /\ new.status = IF saw = "expired" THEN "active" ELSE governed[n].status
      BY <1>1, <1>2, <3>1 DEF FileRow
    <3>3. governed' = [governed EXCEPT ![n] = new]
      BY <2>2 DEF CommitReport
    <3> HIDE DEF new
    <3>4. /\ governed' \in Seq(FileRow) /\ Len(governed') = m /\ DOMAIN governed' = 1..m
          /\ \A i \in 1..m : governed'[i] = IF i = n THEN new ELSE governed[i]
      BY <1>1, <3>1, <3>2, <3>3
    <3>5. Renewed(m)
      BY <1>1, <2>2, <3>1, <3>2, <3>4
    <3>6. QED
      BY <3>5
  <2>3. QED
    BY <2>1, <2>2
<1> PICK k : Renewed(k)
  BY <1>7
<1>8. DOMAIN governed \subseteq DOMAIN governed'
  BY <1>1
<1>9. FrTypes'
  BY <1>3, <1>4 DEF RetentionInv, FrTypes
<1>10. RowsCounted'
  <2>1. Len(governed') + Cardinality(Reporting') <= frLog.reports
    BY <1>1, <1>6 DEF RetentionInv, RowsCounted, FrLog
  <2>2. \A g \in FrScan : report'[g].row \in 0..Len(governed')
    BY <1>1, <1>4 DEF RetentionInv, RowsCounted
  <2>3. QED
    BY <1>3, <1>6, <1>8, <2>1, <2>2 DEF RetentionInv, RowsCounted
<1>11. LockIsOwn'
  BY <1>3 DEF RetentionInv, LockIsOwn, Cleaning
<1>12. \A i \in DOMAIN governed' : governed'[i].due =>
         i \in DOMAIN governed /\ i # n /\ governed'[i] = governed[i]
  BY <1>1, <1>2
<1>13. Recorded'
  BY <1>3, <1>12 DEF RetentionInv, Recorded, Cleaning
<1>14. ReportsInTurn'
  <2> SUFFICES ASSUME ~frLog.twoReports PROVE Reporting' = {} /\ Len(governed') <= 1
    BY <1>3 DEF ReportsInTurn
  <2>1. Reporting = {h}
    BY <1>2 DEF RetentionInv, ReportsInTurn
  <2>2. n = 0 => Len(governed) = 0
    BY <1>2 DEF RetentionInv, ReportsInTurn
  <2>3. Len(governed) <= 1
    BY DEF RetentionInv, ReportsInTurn
  <2>4. QED
    BY <1>1, <1>5, <2>1, <2>2, <2>3
<1>15. Apart'
  <2> SUFFICES ASSUME ~frLog.crossed PROVE \A r \in FrReplica : ~Cleaning(r)'
    BY <1>3 DEF Apart, Cleaning
  <2>1. QED
    BY <1>2, <1>3 DEF RetentionInv, Apart, Cleaning
<1>16. AsRead'
  <2> SUFFICES ASSUME ~frLog.crossed, ~frLog.twoReports
               PROVE  /\ Reporting' = {}
                      /\ \A i \in DOMAIN governed' : governed'[i].status = "expired" =>
                           governed'[i].due
    BY <1>3 DEF AsRead
  <2>1. Reporting = {h}
    BY <1>2 DEF RetentionInv, ReportsInTurn
  <2>2. n # 0 => saw = governed[n].status
    BY <1>2 DEF RetentionInv, AsRead
  <2>3. \A i \in DOMAIN governed : governed[i].status = "expired" => governed[i].due
    BY DEF RetentionInv, AsRead
  <2>4. n # 0 => governed'[n].status = "active"
    BY <1>2, <2>2 DEF FileRow
  <2>5. QED
    BY <1>1, <1>2, <1>5, <2>1, <2>3, <2>4
<1>17. QED
  BY <1>9, <1>10, <1>11, <1>13, <1>14, <1>15, <1>16 DEF RetentionInv

\* A row that falls due has one expiry more to record.
LEMMA FallsDueOK ==
  ASSUME RetentionInv, NEW n \in DOMAIN governed, FallsDue(n)
  PROVE  RetentionInv'
<1>1. /\ Len(governed) \in Nat /\ DOMAIN governed = 1..Len(governed)
      /\ n \in 1..MaxRows /\ DOMAIN governed \subseteq 1..MaxRows
      /\ \A i \in DOMAIN governed : governed[i] \in FileRow
      /\ frLog \in FrLog /\ governed \in Seq(FileRow)
  BY RowTypes DEF RetentionInv, FrTypes
<1>2. UNCHANGED <<redisLock, ownLock, cleanup, report>>
  BY DEF FallsDue
<1> DEFINE new == [governed[n] EXCEPT !.due = TRUE]
<1>3. new \in FileRow /\ new.due /\ new.status = governed[n].status
  BY <1>1 DEF FileRow
<1>4. governed' = [governed EXCEPT ![n] = new]
  BY DEF FallsDue
<1> HIDE DEF new
<1>5. /\ governed' \in Seq(FileRow) /\ Len(governed') = Len(governed)
      /\ DOMAIN governed' = DOMAIN governed
      /\ \A i \in DOMAIN governed : governed'[i] = IF i = n THEN new ELSE governed[i]
  BY <1>1, <1>3, <1>4
<1> DEFINE counts == [frLog.dues EXCEPT ![n] = @ + 1]
<1>6. /\ counts \in Counts
      /\ \A i \in 1..MaxRows : counts[i] = IF i = n THEN frLog.dues[i] + 1 ELSE frLog.dues[i]
  <2>1. frLog.dues \in [1..MaxRows -> Nat]
    BY <1>1 DEF FrLog, Counts
  <2>0. \A i \in 1..MaxRows : frLog.dues[i] \in Nat
    BY <2>1
  <2>2. \A i \in 1..MaxRows : frLog.dues[i] + 1 \in Nat
    BY <2>0
  <2>3. \A i \in 1..MaxRows : counts[i] = IF i = n THEN frLog.dues[i] + 1 ELSE frLog.dues[i]
    BY <2>1
  <2>4. counts \in [1..MaxRows -> Nat]
    BY <2>1, <2>2, <2>3
  <2>5. QED
    BY <2>3, <2>4 DEF Counts
<1>7. frLog' = [frLog EXCEPT !.dues = counts]
  BY <1>1 DEF FallsDue, FrLog
<1> HIDE DEF counts
<1>8. /\ frLog' \in FrLog /\ frLog'.dues = counts /\ frLog'.records = frLog.records
      /\ frLog'.reports = frLog.reports /\ frLog'.twoJobs = frLog.twoJobs
      /\ frLog'.twoReports = frLog.twoReports /\ frLog'.crossed = frLog.crossed
  BY <1>1, <1>6, <1>7 DEF FrLog
<1>9. Reporting' = Reporting
  BY <1>2 DEF Reporting
<1>10. FrTypes'
  BY <1>2, <1>5, <1>8 DEF RetentionInv, FrTypes
<1>11. RowsCounted' /\ LockIsOwn'
  BY <1>2, <1>5, <1>8, <1>9 DEF RetentionInv, RowsCounted, LockIsOwn, Cleaning
<1>12. Recorded'
  <2> SUFFICES ASSUME ~frLog.twoJobs
               PROVE  /\ \A i \in 1..MaxRows : frLog.records[i] <= counts[i]
                      /\ \A i \in DOMAIN governed' :
                           governed'[i].due /\ governed'[i].status = "active" =>
                             frLog.records[i] < counts[i]
                      /\ \A s \in FrReplica : cleanup[s].pc = "listed" =>
                           \A i \in cleanup[s].seen : frLog.records[i] < counts[i]
    BY <1>2, <1>8 DEF RetentionInv, Recorded, Cleaning
  <2>1. \A i \in 1..MaxRows : frLog.records[i] \in Nat /\ frLog.dues[i] \in Nat
    BY <1>1 DEF FrLog, Counts
  <2>2. /\ \A i \in 1..MaxRows : frLog.records[i] <= frLog.dues[i]
        /\ \A i \in DOMAIN governed : governed[i].due /\ governed[i].status = "active" =>
             frLog.records[i] < frLog.dues[i]
        /\ \A s \in FrReplica : cleanup[s].pc = "listed" =>
             \A i \in cleanup[s].seen : frLog.records[i] < frLog.dues[i]
    BY DEF RetentionInv, Recorded
  <2>3. \A i \in 1..MaxRows : frLog.records[i] <= counts[i]
    BY <1>6, <2>1, <2>2
  <2>4. frLog.records[n] < counts[n]
    BY <1>1, <1>6, <2>1, <2>2
  <2>5. \A i \in 1..MaxRows : i # n => counts[i] = frLog.dues[i]
    BY <1>6
  <2>6. \A i \in DOMAIN governed' :
          governed'[i].due /\ governed'[i].status = "active" => frLog.records[i] < counts[i]
    BY <1>1, <1>5, <2>2, <2>4, <2>5
  <2>7. \A s \in FrReplica : cleanup[s].pc = "listed" =>
          \A i \in cleanup[s].seen : frLog.records[i] < counts[i]
    BY <1>1, <2>2, <2>4, <2>5 DEF RetentionInv, RowsCounted
  <2>8. QED
    BY <2>3, <2>6, <2>7
<1>13. ReportsInTurn'
  BY <1>1, <1>2, <1>5, <1>8, <1>9 DEF RetentionInv, ReportsInTurn
<1>14. Apart'
  BY <1>2, <1>3, <1>5, <1>8, <1>9 DEF RetentionInv, Apart, Cleaning, RowsCounted
<1>15. AsRead'
  <2>1. \A i \in DOMAIN governed :
          governed'[i].status = governed[i].status /\ (governed[i].due => governed'[i].due)
    BY <1>3, <1>5
  <2>2. \A h \in FrScan : report[h].row # 0 => report[h].row \in DOMAIN governed
    BY <1>1 DEF RetentionInv, RowsCounted
  <2>3. QED
    BY <1>2, <1>5, <1>8, <1>9, <2>1, <2>2 DEF RetentionInv, AsRead, Reporting
<1>16. QED
  BY <1>10, <1>11, <1>12, <1>13, <1>14, <1>15 DEF RetentionInv

-----------------------------------------------------------------------------

\* Every step keeps it.
LEMMA RetentionStep == RetentionInv /\ [FrNext]_frVars => RetentionInv'
<1> SUFFICES ASSUME RetentionInv, [FrNext]_frVars PROVE RetentionInv'
  OBVIOUS
<1>1. ASSUME NEW r \in FrReplica, TakeRedisLock(r) \/ TakeOwnLock(r) PROVE RetentionInv'
  BY <1>1, TakeRedisLockOK, TakeOwnLockOK
<1>2. ASSUME NEW r \in FrReplica, OwnLockExpires(r) PROVE RetentionInv'
  BY <1>2, OwnLockExpiresOK
<1>3. ASSUME NEW r \in FrReplica, ListDue(r) \/ WriteExpired(r) \/ CleanupFails(r)
      PROVE  RetentionInv'
  BY <1>3, ListDueOK, WriteExpiredOK, CleanupFailsOK
<1>4. ASSUME NEW r \in FrReplica, ReleaseRedisLock(r) \/ ReleaseOwnLock(r) \/ CleanerDies(r)
      PROVE  RetentionInv'
  <2>1. ownLock' \in [FrReplica -> BOOLEAN]
    BY <1>4 DEF ReleaseRedisLock, ReleaseOwnLock, CleanerDies, RetentionInv, FrTypes
  <2>2. QED
    BY <1>4, <2>1, LeaveJobOK DEF ReleaseRedisLock, ReleaseOwnLock, CleanerDies
<1>5. CASE RedisLockExpires
  BY <1>5, RedisLockExpiresOK
<1>6. ASSUME NEW h \in FrScan, BeginReport(h) \/ CommitReport(h) PROVE RetentionInv'
  BY <1>6, BeginReportOK, CommitReportOK
<1>7. ASSUME NEW i \in DOMAIN governed, FallsDue(i) PROVE RetentionInv'
  BY <1>7, FallsDueOK
<1>8. CASE UNCHANGED frVars
  <2>1. FrTypes' /\ LockIsOwn'
    BY <1>8 DEF frVars, RetentionInv, FrTypes, LockIsOwn, Cleaning
  <2>2. QED
    BY <1>8, <2>1, CleanupsCalm DEF frVars, RetentionInv, Cleaning
<1>9. QED
  BY <1>1, <1>2, <1>3, <1>4, <1>5, <1>6, <1>7, <1>8 DEF FrNext

\* FrTypeOK: types are kept, and there are no more rows than reports.
THEOREM RetentionTypeCorrect == FrSpec => []FrTypeOK
<1>1. RetentionInv => FrTypeOK
  <2> SUFFICES ASSUME RetentionInv PROVE FrTypeOK
    OBVIOUS
  <2>1. Len(governed) <= MaxRows /\ frLog \in FrLog
    BY RowTypes DEF RetentionInv, FrTypes
  <2>2. QED
    BY <2>1 DEF RetentionInv, FrTypes, FrTypeOK, Cleanup, Report, FrLog
<1>2. QED
  BY <1>1, RetentionInitOK, RetentionStep, PTL DEF FrSpec

\* RetentionKept: a clean-up keeps its lock until it expires; until clean-ups overlap each expiry is
\* recorded once; until reports overlap the path has one row, and until they overlap with a
\* clean-up, a renewed row is active.
THEOREM RetentionIsKept == FrSpec => []RetentionKept
<1>1. RetentionInv => RetentionKept
  BY DEF RetentionInv, RetentionKept, Recorded, ExpiredOnce, AsRead, RenewedIsActive,
         ReportsInTurn, OneRowPerPath
<1>2. QED
  BY <1>1, RetentionInitOK, RetentionStep, PTL DEF FrSpec

-----------------------------------------------------------------------------
(***************************************************************************)
(* OutboundProxy. ConnectionsEnd is inductive with its types.              *)
(* AdmittedLately compares two ages: in a copy that was loaded well no     *)
(* entry has been off for longer than the copy is old (CopyIsLate), and    *)
(* only a copy within its life decides.                                    *)
(***************************************************************************)
Conn ==
  [phase : {"new", "asking", "dialling", "open", "done"}, host : PxHost \cup {"none"},
   secret : PxSecret \cup {"none"}, said : {"nothing", "gone", "200", "403", "407", "502"},
   line : {"none", "queued", "allowed", "blocked", "lost"},
   ends : SUBSET {"client", "remote"}, lately : BOOLEAN]

\* A connection by itself: its answer has its line, it leaves no end open, and its tunnel is
\* one of a session.
Closes(w) ==
  /\ w.said \in {"403", "407", "502"} => w.line \in {"queued", "blocked", "lost"}
  /\ w.said = "200" => w.line \in {"queued", "allowed", "lost"}
  /\ w.phase = "done" => w.ends \subseteq (IF w.said = "gone" THEN {"remote"} ELSE {})
  /\ w.phase \in {"dialling", "open"} => w.secret \in PxSecret

ConnsOK == conns \in [PxConn -> Conn] /\ \A c \in PxConn : Closes(conns[c])

ListOK == domains \in [PxRule -> {"absent", "on", "off"}] /\ sessions \subseteq PxSecret

CopyOK ==
  /\ copy \in [rules : SUBSET PxRule, age : 0..PxTtl + 1, loaded : BOOLEAN, failed : BOOLEAN]
  /\ pxLog \in [ticks : Nat, changes : Nat, faults : Nat, off : [PxRule -> 0..PxTtl + 1]]

\* An entry that is on counts no tick since it was.
OnIsNow == \A r \in PxRule : domains[r] = "on" => pxLog.off[r] = 0

\* A copy that was loaded well has nothing that went off before it was loaded.
CopyIsLate == ~copy.failed => \A r \in copy.rules : pxLog.off[r] <= copy.age

ProxyInv == ConnsOK /\ ListOK /\ CopyOK /\ OnIsNow /\ CopyIsLate

-----------------------------------------------------------------------------

\* Ageing keeps the order of two ages.
LEMMA OlderIsLater ==
  \A a, b \in 0..PxTtl + 1 : /\ Older(a) \in 0..PxTtl + 1
                             /\ a <= b => Older(a) <= Older(b)
BY ProxyAssumption DEF Older

\* No connection, and a copy of nothing.
LEMMA ProxyInitOK == PxInit => ProxyInv
<1> SUFFICES ASSUME PxInit PROVE ProxyInv
  OBVIOUS
<1>1. NewConn \in Conn /\ Closes(NewConn)
  BY DEF NewConn, Conn, Closes
<1>2. ConnsOK
  BY <1>1 DEF ConnsOK, PxInit
<1>3. CopyOK
  BY ProxyAssumption DEF CopyOK, PxInit
<1>4. QED
  BY <1>2, <1>3 DEF ProxyInv, PxInit, ListOK, OnIsNow, CopyIsLate

-----------------------------------------------------------------------------
(* Connections *)

\* A connection changes, and stays as it should be.
LEMMA ConnTurns ==
  ASSUME ConnsOK, NEW c \in PxConn, NEW w \in Conn, Closes(w), conns' = [conns EXCEPT ![c] = w]
  PROVE  ConnsOK'
<1>1. \A d \in PxConn : conns'[d] = IF d = c THEN w ELSE conns[d]
  BY DEF ConnsOK
<1>2. QED
  BY <1>1 DEF ConnsOK

\* A refusal queues its line and closes the connection.
LEMMA RefuseOK ==
  ASSUME ConnsOK, NEW c \in PxConn, NEW answer \in {"403", "407", "502"}, Refuse(c, answer)
  PROVE  ConnsOK'
<1>1. conns[c] \in Conn
  BY DEF ConnsOK
<1> DEFINE w == [conns[c] EXCEPT !.phase = "done", !.said = answer, !.line = "queued", !.ends = {}]
<1>2. w \in Conn /\ Closes(w)
  BY <1>1 DEF Conn, Closes
<1>3. conns' = [conns EXCEPT ![c] = w]
  BY DEF Refuse, ConnsOK
<1>4. QED
  BY <1>2, <1>3, ConnTurns

\* A connection begins without an answer.
LEMMA BeginConnectOK ==
  ASSUME ConnsOK, NEW c \in PxConn, BeginConnect(c)
  PROVE  ConnsOK'
<1>1. PICK host \in PxHost, k \in PxSecret \cup {"none"} :
        conns' = [conns EXCEPT ![c] =
          [NewConn EXCEPT !.phase = "asking", !.host = host, !.secret = k, !.ends = {"client"}]]
  BY DEF BeginConnect
<1> DEFINE w == [NewConn EXCEPT !.phase = "asking", !.host = host, !.secret = k,
                               !.ends = {"client"}]
<1>2. w \in Conn /\ Closes(w)
  BY DEF NewConn, Conn, Closes
<1>3. QED
  BY <1>1, <1>2, ConnTurns

\* A connection is let go, or its tunnel ends, with the answer it had.
LEMMA LetGoOK ==
  ASSUME ConnsOK, NEW c \in PxConn,
         conns' = [conns EXCEPT ![c].phase = "done", ![c].ends = {}]
  PROVE  ConnsOK'
<1>1. conns[c] \in Conn /\ Closes(conns[c])
  BY DEF ConnsOK
<1> DEFINE w == [conns[c] EXCEPT !.phase = "done", !.ends = {}]
<1>2. w \in Conn /\ Closes(w)
  BY <1>1 DEF Conn, Closes
<1>3. conns' = [conns EXCEPT ![c] = w]
  BY DEF ConnsOK
<1>4. QED
  BY <1>2, <1>3, ConnTurns

\* A verdict lets a connection of a session dial, or ends it.
LEMMA JudgeOK ==
  ASSUME ConnsOK, ListOK, NEW c \in PxConn, Judge(c)
  PROVE  ConnsOK'
<1>1. conns[c] \in Conn /\ Closes(conns[c]) /\ conns[c].secret \in PxSecret
      /\ conns[c].phase = "asking"
  BY DEF ConnsOK, ListOK, Judge
<1>2. ASSUME conns' = [conns EXCEPT ![c].phase = "dialling",
                                    ![c].lately = OnLately(conns[c].host)]
      PROVE  ConnsOK'
  <2> DEFINE b == OnLately(conns[c].host)
             w == [conns[c] EXCEPT !.phase = "dialling", !.lately = b]
  <2>1. b \in BOOLEAN
    BY DEF OnLately
  <2>2. conns' = [conns EXCEPT ![c] = w]
    BY <1>2 DEF ConnsOK
  <2> HIDE DEF b
  <2>3. w \in Conn /\ Closes(w)
    BY <1>1, <2>1 DEF Conn, Closes
  <2>4. QED
    BY <2>2, <2>3, ConnTurns
<1>3. CASE Refuse(c, "403")
  BY <1>3, RefuseOK
<1>4. QED
  BY <1>2, <1>3 DEF Judge

\* A tunnel opens with its line, or its client has gone.
LEMMA DialledOK ==
  ASSUME ConnsOK, NEW c \in PxConn, Dialled(c)
  PROVE  ConnsOK'
<1>1. conns[c] \in Conn /\ Closes(conns[c]) /\ conns[c].phase = "dialling"
  BY DEF ConnsOK, Dialled
<1>2. ASSUME conns' = [conns EXCEPT ![c].phase = "open", ![c].said = "200", ![c].line = "queued",
                                    ![c].ends = {"client", "remote"}]
      PROVE  ConnsOK'
  <2> DEFINE w == [conns[c] EXCEPT !.phase = "open", !.said = "200", !.line = "queued",
                                   !.ends = {"client", "remote"}]
  <2>1. w \in Conn /\ Closes(w)
    BY <1>1 DEF Conn, Closes
  <2>2. conns' = [conns EXCEPT ![c] = w]
    BY <1>2 DEF ConnsOK
  <2>3. QED
    BY <2>1, <2>2, ConnTurns
<1>3. ASSUME conns' = [conns EXCEPT ![c].phase = "done", ![c].said = "gone", ![c].ends = {"remote"}]
      PROVE  ConnsOK'
  <2> DEFINE w == [conns[c] EXCEPT !.phase = "done", !.said = "gone", !.ends = {"remote"}]
  <2>1. w \in Conn /\ Closes(w)
    BY <1>1 DEF Conn, Closes
  <2>2. conns' = [conns EXCEPT ![c] = w]
    BY <1>3 DEF ConnsOK
  <2>3. QED
    BY <2>1, <2>2, ConnTurns
<1>4. QED
  BY <1>2, <1>3 DEF Dialled

\* A tunnel loses one end.
LEMMA RelayEndsOK ==
  ASSUME ConnsOK, NEW c \in PxConn, RelayEnds(c)
  PROVE  ConnsOK'
<1>1. PICK e \in conns[c].ends : conns' = [conns EXCEPT ![c].ends = @ \ {e}]
  BY DEF RelayEnds
<1>2. conns[c] \in Conn /\ Closes(conns[c]) /\ conns[c].phase = "open"
  BY DEF ConnsOK, RelayEnds
<1> DEFINE w == [conns[c] EXCEPT !.ends = conns[c].ends \ {e}]
<1>3. w \in Conn /\ Closes(w)
  BY <1>2 DEF Conn, Closes
<1>4. conns' = [conns EXCEPT ![c] = w]
  BY <1>1 DEF ConnsOK
<1>5. QED
  BY <1>3, <1>4, ConnTurns

\* A line is written as the answer was, or lost.
LEMMA WriteLineOK ==
  ASSUME ConnsOK, NEW c \in PxConn, WriteLine(c)
  PROVE  ConnsOK'
<1>1. PICK l \in {"allowed", "blocked", "lost"} :
        /\ conns' = [conns EXCEPT ![c].line = l]
        /\ conns[c].said = "200" => l # "blocked"
        /\ conns[c].said # "200" => l # "allowed"
  <2>1. CASE conns' = [conns EXCEPT ![c].line = IF conns[c].said = "200" THEN "allowed"
                                                ELSE "blocked"]
    BY <2>1
  <2>2. CASE conns' = [conns EXCEPT ![c].line = "lost"]
    BY <2>2
  <2>3. QED
    BY <2>1, <2>2 DEF WriteLine
<1>2. conns[c] \in Conn /\ Closes(conns[c])
  BY DEF ConnsOK
<1> DEFINE w == [conns[c] EXCEPT !.line = l]
<1>3. w \in Conn /\ Closes(w)
  BY <1>1, <1>2 DEF Conn, Closes
<1>4. conns' = [conns EXCEPT ![c] = w]
  BY <1>1 DEF ConnsOK
<1>5. QED
  BY <1>3, <1>4, ConnTurns

\* A connection that the proxy takes down with it has no end open, and its line is lost.
LEMMA CutOK ==
  ASSUME NEW v \in Conn, Closes(v), NEW l \in {"none", "allowed", "blocked", "lost"},
         l = IF v.line = "queued" THEN "lost" ELSE v.line
  PROVE  LET w == [v EXCEPT !.phase = "done", !.ends = {}, !.line = l]
         IN  w \in Conn /\ Closes(w)
<1> DEFINE w == [v EXCEPT !.phase = "done", !.ends = {}, !.line = l]
<1>1. w \in Conn
  BY DEF Conn
<1>2. /\ w.phase = "done" /\ w.ends = {} /\ w.line = l /\ w.said = v.said
      /\ w.secret = v.secret
  BY DEF Conn
<1> HIDE DEF w
<1>3. Closes(w)
  BY <1>2 DEF Closes
<1>4. QED
  BY <1>1, <1>3 DEF w

\* The proxy restarts.
LEMMA RestartOK ==
  ASSUME ConnsOK, PxRestarts
  PROVE  ConnsOK'
<1>1. \A c \in PxConn : conns[c] \in Conn /\ Closes(conns[c])
  BY DEF ConnsOK
<1> DEFINE Over(d) == [conns[d] EXCEPT !.phase = "done", !.ends = {},
                              !.line = IF conns[d].line = "queued" THEN "lost" ELSE conns[d].line]
<1>2. ASSUME NEW c \in PxConn PROVE Over(c) \in Conn /\ Closes(Over(c))
  <2>1. (IF conns[c].line = "queued" THEN "lost" ELSE conns[c].line)
          \in {"none", "allowed", "blocked", "lost"}
    BY <1>1 DEF Conn
  <2>2. QED
    BY <1>1, <2>1, CutOK
<1>3. conns' = [c \in PxConn |-> IF conns[c].phase = "new" THEN conns[c] ELSE Over(c)]
  BY DEF PxRestarts
<1> HIDE DEF Over
<1>4. \A c \in PxConn : conns'[c] = IF conns[c].phase = "new" THEN conns[c] ELSE Over(c)
  BY <1>3
<1>5. \A c \in PxConn : conns'[c] \in Conn /\ Closes(conns'[c])
  BY <1>1, <1>2, <1>4
<1>6. QED
  BY <1>3, <1>5 DEF ConnsOK

-----------------------------------------------------------------------------
(* The list and its copy *)

\* A tick ages the copy and the entries that are off alike.
LEMMA TickLate == ProxyInv /\ PxTick => CopyOK' /\ OnIsNow' /\ CopyIsLate'
<1> SUFFICES ASSUME ProxyInv, PxTick PROVE CopyOK' /\ OnIsNow' /\ CopyIsLate'
  OBVIOUS
<1>1. /\ copy \in [rules : SUBSET PxRule, age : 0..PxTtl + 1, loaded : BOOLEAN, failed : BOOLEAN]
      /\ copy.rules \subseteq PxRule /\ copy.age \in 0..PxTtl + 1 /\ PxTtl \in Nat
      /\ pxLog \in [ticks : Nat, changes : Nat, faults : Nat, off : [PxRule -> 0..PxTtl + 1]]
  BY ProxyAssumption DEF ProxyInv, CopyOK
<1> DEFINE off == [r \in PxRule |-> IF domains[r] = "on" THEN 0 ELSE Older(pxLog.off[r])]
<1>2. off \in [PxRule -> 0..PxTtl + 1]
  BY <1>1, OlderIsLater
<1>3. pxLog' = [ticks |-> pxLog.ticks + 1, changes |-> pxLog.changes, faults |-> pxLog.faults,
                off |-> off]
  BY <1>1 DEF PxTick
<1>4. \A r \in PxRule : off[r] = IF domains[r] = "on" THEN 0 ELSE Older(pxLog.off[r])
  OBVIOUS
<1> HIDE DEF off
<1>5. pxLog'.off = off
      /\ pxLog' \in [ticks : Nat, changes : Nat, faults : Nat, off : [PxRule -> 0..PxTtl + 1]]
  BY <1>1, <1>2, <1>3
<1>6. copy'.rules = copy.rules /\ copy'.age = Older(copy.age) /\ copy'.failed = copy.failed
      /\ copy' \in [rules : SUBSET PxRule, age : 0..PxTtl + 1, loaded : BOOLEAN, failed : BOOLEAN]
  BY <1>1, OlderIsLater DEF PxTick
<1>7. OnIsNow'
  BY <1>4, <1>5 DEF OnIsNow, PxTick
<1>8. CopyIsLate'
  <2> SUFFICES ASSUME ~copy.failed, NEW r \in copy.rules PROVE off[r] <= Older(copy.age)
    BY <1>5, <1>6 DEF CopyIsLate
  <2>1. pxLog.off[r] \in 0..PxTtl + 1 /\ pxLog.off[r] <= copy.age /\ r \in PxRule
    BY <1>1 DEF ProxyInv, CopyIsLate
  <2>2. Older(pxLog.off[r]) <= Older(copy.age)
    BY <1>1, <2>1, OlderIsLater
  <2>3. 0 <= Older(copy.age)
    BY <1>1, OlderIsLater
  <2>4. QED
    BY <1>4, <2>1, <2>2, <2>3
<1>9. QED
  BY <1>5, <1>6, <1>7, <1>8 DEF CopyOK

\* The list changes: an entry that is on afterwards was on, or counts from now.
LEMMA ListLate ==
  ASSUME ProxyInv, UNCHANGED copy, NEW r \in PxRule, NEW turned \in BOOLEAN,
         domains' \in [PxRule -> {"absent", "on", "off"}],
         pxLog' = [pxLog EXCEPT !.changes = @ + 1, !.off[r] = IF turned THEN 0 ELSE @],
         \A q \in PxRule : domains'[q] = "on" => domains[q] = "on" \/ (q = r /\ turned)
  PROVE  CopyOK' /\ OnIsNow' /\ CopyIsLate'
<1>1. /\ copy \in [rules : SUBSET PxRule, age : 0..PxTtl + 1, loaded : BOOLEAN, failed : BOOLEAN]
      /\ copy.rules \subseteq PxRule /\ copy.age \in 0..PxTtl + 1 /\ PxTtl \in Nat
      /\ pxLog \in [ticks : Nat, changes : Nat, faults : Nat, off : [PxRule -> 0..PxTtl + 1]]
  BY ProxyAssumption DEF ProxyInv, CopyOK
<1> DEFINE off == [pxLog.off EXCEPT ![r] = IF turned THEN 0 ELSE @]
<1>2. off \in [PxRule -> 0..PxTtl + 1]
      /\ \A q \in PxRule : off[q] = IF q = r /\ turned THEN 0 ELSE pxLog.off[q]
  BY <1>1
<1>3. pxLog' = [ticks |-> pxLog.ticks, changes |-> pxLog.changes + 1, faults |-> pxLog.faults,
                off |-> off]
  BY <1>1
<1> HIDE DEF off
<1>4. pxLog'.off = off
      /\ pxLog' \in [ticks : Nat, changes : Nat, faults : Nat, off : [PxRule -> 0..PxTtl + 1]]
  BY <1>1, <1>2, <1>3
<1>5. OnIsNow'
  BY <1>2, <1>4 DEF ProxyInv, OnIsNow
<1>6. CopyIsLate'
  BY <1>1, <1>2, <1>4 DEF ProxyInv, CopyIsLate
<1>7. QED
  BY <1>1, <1>4, <1>5, <1>6 DEF CopyOK

\* A count of the bounds goes up.
LEMMA CountLate ==
  ASSUME ProxyInv, domains' = domains,
         \/ pxLog' = [pxLog EXCEPT !.changes = @ + 1]
         \/ pxLog' = [pxLog EXCEPT !.faults = @ + 1]
         \/ pxLog' = pxLog,
         \/ copy' = copy
         \/ copy' = [copy EXCEPT !.failed = TRUE]
         \/ copy' = [rules |-> {}, age |-> 0, loaded |-> FALSE, failed |-> FALSE]
  PROVE  CopyOK' /\ OnIsNow' /\ CopyIsLate'
<1>1. /\ copy \in [rules : SUBSET PxRule, age : 0..PxTtl + 1, loaded : BOOLEAN, failed : BOOLEAN]
      /\ copy.rules \subseteq PxRule /\ copy.age \in 0..PxTtl + 1 /\ PxTtl \in Nat
      /\ pxLog \in [ticks : Nat, changes : Nat, faults : Nat, off : [PxRule -> 0..PxTtl + 1]]
  BY ProxyAssumption DEF ProxyInv, CopyOK
<1>2. /\ pxLog'.off = pxLog.off
      /\ pxLog' \in [ticks : Nat, changes : Nat, faults : Nat, off : [PxRule -> 0..PxTtl + 1]]
  BY <1>1
<1>3. /\ copy' \in [rules : SUBSET PxRule, age : 0..PxTtl + 1, loaded : BOOLEAN, failed : BOOLEAN]
      /\ ~copy'.failed => copy' = copy \/ copy'.rules = {}
  <2>1. CASE copy' = copy
    BY <1>1, <2>1
  <2>2. CASE copy' = [copy EXCEPT !.failed = TRUE]
    <3>1. copy'.failed = TRUE
      BY <1>1, <2>2
    <3>2. copy' = [rules |-> copy.rules, age |-> copy.age, loaded |-> copy.loaded,
                   failed |-> TRUE]
      BY <1>1, <2>2
    <3>3. QED
      BY <1>1, <3>1, <3>2
  <2>3. CASE copy' = [rules |-> {}, age |-> 0, loaded |-> FALSE, failed |-> FALSE]
    BY <1>1, <2>3
  <2>4. QED
    BY <2>1, <2>2, <2>3
<1>4. OnIsNow'
  BY <1>2 DEF ProxyInv, OnIsNow
<1>5. CopyIsLate'
  BY <1>2, <1>3 DEF ProxyInv, CopyIsLate
<1>6. QED
  BY <1>1, <1>2, <1>3, <1>4, <1>5 DEF CopyOK

\* A verdict is by a copy that is within its life, or was loaded just now, unless loading failed.
LEMMA FreshLate ==
  ASSUME ProxyInv, FreshCopy, UNCHANGED domains
  PROVE  /\ CopyOK' /\ OnIsNow' /\ CopyIsLate'
         /\ ~copy'.failed => \A r \in copy'.rules : pxLog.off[r] <= PxTtl
<1>1. /\ copy \in [rules : SUBSET PxRule, age : 0..PxTtl + 1, loaded : BOOLEAN, failed : BOOLEAN]
      /\ copy.rules \subseteq PxRule /\ copy.age \in 0..PxTtl + 1 /\ PxTtl \in Nat
      /\ pxLog \in [ticks : Nat, changes : Nat, faults : Nat, off : [PxRule -> 0..PxTtl + 1]]
  BY ProxyAssumption DEF ProxyInv, CopyOK
<1>2. \A r \in PxRule : pxLog.off[r] \in 0..PxTtl + 1
  BY <1>1
<1>3. CASE ~Stale /\ UNCHANGED <<copy, pxLog>>
  <2>1. copy.age <= PxTtl
    BY <1>1, <1>3 DEF Stale
  <2>2. ~copy'.failed => \A r \in copy'.rules : pxLog.off[r] <= PxTtl
    <3> SUFFICES ASSUME ~copy.failed, NEW r \in copy.rules PROVE pxLog.off[r] <= PxTtl
      BY <1>3
    <3>1. pxLog.off[r] <= copy.age /\ r \in PxRule
      BY <1>1 DEF ProxyInv, CopyIsLate
    <3>2. QED
      BY <1>1, <1>2, <2>1, <3>1
  <2>3. QED
    BY <1>3, <2>2, CountLate
<1>4. CASE /\ copy' = [rules |-> {r \in PxRule : domains[r] = "on"}, age |-> 0,
                       loaded |-> TRUE, failed |-> FALSE]
           /\ UNCHANGED pxLog
  <2>1. /\ copy'.rules = {r \in PxRule : domains[r] = "on"} /\ copy'.age = 0
    BY <1>4
  <2>2. \A r \in copy'.rules : r \in PxRule /\ pxLog.off[r] = 0
    BY <2>1 DEF ProxyInv, OnIsNow
  <2>3. CopyIsLate' /\ OnIsNow'
    BY <1>4, <2>1, <2>2 DEF CopyIsLate, ProxyInv, OnIsNow
  <2>4. CopyOK'
    BY <1>1, <1>4, <2>1 DEF CopyOK
  <2>5. QED
    BY <1>1, <2>2, <2>3, <2>4
<1>5. CASE copy' = [copy EXCEPT !.failed = TRUE] /\ pxLog' = [pxLog EXCEPT !.faults = @ + 1]
  <2>1. QED
    BY <1>5, CountLate
<1>6. QED
  BY <1>3, <1>4, <1>5 DEF FreshCopy

-----------------------------------------------------------------------------

\* Every step keeps it.
LEMMA ProxyStep == ProxyInv /\ [PxNext]_pxVars => ProxyInv'
<1> SUFFICES ASSUME ProxyInv, [PxNext]_pxVars PROVE ProxyInv'
  OBVIOUS
<1> USE DEF ProxyInv
<1>1. CASE PxTick
  BY <1>1, TickLate DEF PxTick, ConnsOK, ListOK
<1>2. CASE PxRestarts
  <2>1. ConnsOK'
    BY <1>2, RestartOK
  <2>2. CopyOK' /\ OnIsNow' /\ CopyIsLate'
    BY <1>2, CountLate DEF PxRestarts
  <2>3. QED
    BY <1>2, <2>1, <2>2 DEF PxRestarts, ListOK
<1>3. ASSUME NEW r \in PxRule, AddDomain(r) PROVE ProxyInv'
  <2>1. ListOK' /\ ConnsOK'
    BY <1>3 DEF AddDomain, PxChange, ListOK, ConnsOK
  <2>2. pxLog' = [pxLog EXCEPT !.changes = @ + 1, !.off[r] = IF TRUE THEN 0 ELSE @]
    BY <1>3 DEF AddDomain
  <2>3. \A q \in PxRule : domains'[q] = "on" => domains[q] = "on" \/ q = r
    BY <1>3 DEF AddDomain, ListOK
  <2>4. QED
    BY <1>3, <2>1, <2>2, <2>3, ListLate DEF AddDomain, PxChange, ListOK
<1>4. ASSUME NEW r \in PxRule, TurnDomain(r) PROVE ProxyInv'
  <2>1. ListOK' /\ ConnsOK'
    BY <1>4 DEF TurnDomain, PxChange, ListOK, ConnsOK
  <2>2. PICK turned \in BOOLEAN : turned <=> domains[r] = "off"
    OBVIOUS
  <2>3. pxLog' = [pxLog EXCEPT !.changes = @ + 1, !.off[r] = IF turned THEN 0 ELSE @]
    BY <1>4, <2>2 DEF TurnDomain
  <2>4. \A q \in PxRule : domains'[q] = "on" => domains[q] = "on" \/ (q = r /\ turned)
    BY <1>4, <2>2 DEF TurnDomain, ListOK
  <2>5. QED
    BY <1>4, <2>1, <2>3, <2>4, ListLate DEF TurnDomain, PxChange, ListOK
<1>5. ASSUME NEW r \in PxRule, DeleteDomain(r) PROVE ProxyInv'
  <2>1. ListOK' /\ ConnsOK'
    BY <1>5 DEF DeleteDomain, PxChange, ListOK, ConnsOK
  <2>2. pxLog' = [pxLog EXCEPT !.changes = @ + 1, !.off[r] = IF FALSE THEN 0 ELSE @]
    BY <1>5 DEF DeleteDomain, CopyOK
  <2>3. \A q \in PxRule : domains'[q] = "on" => domains[q] = "on"
    BY <1>5 DEF DeleteDomain, ListOK
  <2>4. QED
    BY <1>5, <2>1, <2>2, <2>3, ListLate DEF DeleteDomain, PxChange, ListOK
<1>6. ASSUME NEW k \in PxSecret, TurnSession(k) PROVE ProxyInv'
  <2>1. ListOK' /\ ConnsOK'
    BY <1>6 DEF TurnSession, PxChange, ListOK, ConnsOK
  <2>2. QED
    BY <1>6, <2>1, CountLate DEF TurnSession, PxChange
<1>7. ASSUME NEW c \in PxConn, BeginConnect(c) \/ LetGo(c) \/ RefuseSecret(c) \/ DialFails(c)
                               \/ Dialled(c) \/ RelayEnds(c) \/ EndTunnel(c)
      PROVE  ProxyInv'
  <2>1. ConnsOK'
    BY <1>7, BeginConnectOK, LetGoOK, RefuseOK, DialledOK, RelayEndsOK
       DEF LetGo, RefuseSecret, DialFails, EndTunnel
  <2>2. UNCHANGED <<domains, sessions, copy, pxLog>>
    BY <1>7 DEF BeginConnect, LetGo, RefuseSecret, DialFails, Dialled, RelayEnds, EndTunnel
  <2>3. QED
    BY <2>1, <2>2, CountLate DEF ListOK
<1>8. ASSUME NEW c \in PxConn, Judge(c) PROVE ProxyInv'
  BY <1>8, JudgeOK, FreshLate DEF Judge, ListOK
<1>9. ASSUME NEW c \in PxConn, WriteLine(c) PROVE ProxyInv'
  BY <1>9, WriteLineOK, CountLate DEF WriteLine, ListOK
<1>10. CASE UNCHANGED pxVars
  BY <1>10, CountLate DEF pxVars, ConnsOK, ListOK
<1>11. QED
  BY <1>1, <1>2, <1>3, <1>4, <1>5, <1>6, <1>7, <1>8, <1>9, <1>10 DEF PxNext

\* PxTypeOK: types are kept; a connection that dials or is open is one of a session.
THEOREM ProxyTypeCorrect == PxSpec => []PxTypeOK
<1>1. ProxyInv => PxTypeOK
  BY DEF ProxyInv, PxTypeOK, ConnsOK, ListOK, CopyOK, Conn, Closes
<1>2. QED
  BY <1>1, ProxyInitOK, ProxyStep, PTL DEF PxSpec

\* ConnectionsEnd: whatever fails, and whenever the proxy restarts, an answer has its line in the
\* access log, on the way or lost, and a connection that is over leaves no end open but the one
\* that its client left.
THEOREM ConnectionsEndWell == PxSpec => []ConnectionsEnd
<1>1. ProxyInv => ConnectionsEnd
  BY DEF ProxyInv, ConnsOK, Closes, ConnectionsEnd, EveryAnswerHasItsLine, EndsTogether
<1>2. QED
  BY <1>1, ProxyInitOK, ProxyStep, PTL DEF PxSpec

\* Only a verdict lets a connection dial, and by a list that was right within a copy's life.
LEMMA VerdictIsLate ==
  ProxyInv /\ [PxNext]_pxVars =>
    [\A c \in PxConn :
       conns[c].phase = "asking" /\ conns'[c].phase = "dialling" /\ ~copy'.failed
         => conns'[c].lately]_conns
<1> SUFFICES ASSUME ProxyInv, PxNext, NEW d \in PxConn, conns[d].phase = "asking",
                    conns'[d].phase = "dialling", ~copy'.failed
             PROVE  conns'[d].lately
  BY DEF pxVars
<1>1. \A c \in PxConn : conns[c] \in Conn
  BY DEF ProxyInv, ConnsOK
<1>2. ASSUME NEW c \in PxConn, Judge(c) PROVE conns'[d].lately
  <2> DEFINE b == OnLately(conns[c].host)
  <2>2. c = d
    BY <1>1, <1>2 DEF Judge, Refuse, ProxyInv, ConnsOK
  <2>1. ~Refuse(c, "403")
    <3>1. Refuse(c, "403") => conns'[c].phase = "done"
      BY <1>1 DEF Refuse, ProxyInv, ConnsOK, Conn
    <3>2. QED
      BY <2>2, <3>1
  <2>3. /\ \E r \in copy'.rules : Matches(r, conns[c].host)
        /\ conns' = [conns EXCEPT ![c].phase = "dialling", ![c].lately = b]
    BY <1>2, <2>1, <2>2 DEF Judge
  <2>4. PICK r \in copy'.rules : Matches(r, conns[c].host)
    BY <2>3
  <2>5. pxLog.off[r] <= PxTtl /\ r \in PxRule
    BY <1>2, <2>4, FreshLate DEF Judge, CopyOK
  <2>6. b
    BY <2>4, <2>5 DEF OnLately, Matches
  <2> HIDE DEF b
  <2>7. conns'[c].lately = b
    BY <1>1, <2>3 DEF ProxyInv, ConnsOK, Conn
  <2>8. QED
    BY <2>2, <2>6, <2>7
<1>3. ASSUME NEW c \in PxConn, BeginConnect(c) \/ LetGo(c) \/ RefuseSecret(c) \/ DialFails(c)
                               \/ Dialled(c) \/ RelayEnds(c) \/ EndTunnel(c) \/ WriteLine(c)
      PROVE  FALSE
  <2> USE DEF ProxyInv, ConnsOK
  <2>1. ASSUME BeginConnect(c) PROVE FALSE
    BY <1>1, <2>1 DEF BeginConnect, NewConn
  <2>2. ASSUME LetGo(c) PROVE FALSE
    BY <1>1, <2>2 DEF LetGo, Conn
  <2>3. ASSUME RefuseSecret(c) \/ DialFails(c) PROVE FALSE
    BY <1>1, <2>3 DEF RefuseSecret, DialFails, Refuse, Conn
  <2>4. ASSUME Dialled(c) PROVE FALSE
    BY <1>1, <2>4 DEF Dialled, Conn
  <2>5. ASSUME RelayEnds(c) \/ EndTunnel(c) PROVE FALSE
    BY <1>1, <2>5 DEF RelayEnds, EndTunnel, Conn
  <2>6. ASSUME WriteLine(c) PROVE FALSE
    BY <1>1, <2>6 DEF WriteLine, Conn
  <2>7. QED
    BY <1>3, <2>1, <2>2, <2>3, <2>4, <2>5, <2>6
<1>4. ~PxRestarts
  <2>1. PxRestarts => conns'[d] = [conns[d] EXCEPT !.phase = "done", !.ends = {},
          !.line = IF conns[d].line = "queued" THEN "lost" ELSE conns[d].line]
    BY DEF PxRestarts
  <2>2. [conns[d] EXCEPT !.phase = "done", !.ends = {},
          !.line = IF conns[d].line = "queued" THEN "lost" ELSE conns[d].line].phase = "done"
    BY <1>1 DEF Conn
  <2>3. QED
    BY <2>1, <2>2
<1>5. conns' # conns
  OBVIOUS
<1>6. QED
  BY <1>2, <1>3, <1>4, <1>5
     DEF PxNext, PxTick, AddDomain, TurnDomain, DeleteDomain, TurnSession, PxChange

\* AdmittedLately: a tunnel is opened only to a host that the list had within the last life of the
\* copy, unless loading the list failed.
THEOREM VerdictsAreLate == PxSpec => AdmittedLately
<1>1. QED
  BY ProxyInitOK, ProxyStep, VerdictIsLate, PTL DEF PxSpec, AdmittedLately

-----------------------------------------------------------------------------
(* The components together *)

\* A behaviour in which one component takes steps and the others rest is a behaviour of each, so
\* what is proved of a component holds in it.
THEOREM PartsOfDocuments == AllSpec => Spec /\ ShSpec /\ VtSpec /\ FrSpec /\ PxSpec
<1>1. AllInit => Init /\ ShInit /\ VtInit /\ FrInit /\ PxInit
  BY DEF AllInit
<1>2. [AllNext]_allVars => [Next]_vars
  <2>1. UNCHANGED allVars => UNCHANGED vars
    BY DEF allVars
  <2>2. AllNext => Next \/ UNCHANGED vars
    BY Zenon DEF AllNext, Only
  <2>3. QED
    BY <2>1, <2>2
<1>3. [AllNext]_allVars => [ShNext]_shVars
  <2>1. UNCHANGED allVars => UNCHANGED shVars
    BY DEF allVars
  <2>2. AllNext => ShNext \/ UNCHANGED shVars
    BY Zenon DEF AllNext, Only
  <2>3. QED
    BY <2>1, <2>2
<1>4. [AllNext]_allVars => [VtNext]_vtVars
  <2>1. UNCHANGED allVars => UNCHANGED vtVars
    BY DEF allVars
  <2>2. AllNext => VtNext \/ UNCHANGED vtVars
    BY Zenon DEF AllNext, Only
  <2>3. QED
    BY <2>1, <2>2
<1>5. [AllNext]_allVars => [FrNext]_frVars
  <2>1. UNCHANGED allVars => UNCHANGED frVars
    BY DEF allVars
  <2>2. AllNext => FrNext \/ UNCHANGED frVars
    BY Zenon DEF AllNext, Only
  <2>3. QED
    BY <2>1, <2>2
<1>6. [AllNext]_allVars => [PxNext]_pxVars
  <2>1. UNCHANGED allVars => UNCHANGED pxVars
    BY DEF allVars
  <2>2. AllNext => PxNext \/ UNCHANGED pxVars
    BY Zenon DEF AllNext, Only
  <2>3. QED
    BY <2>1, <2>2
<1>7. QED
  BY <1>1, <1>2, <1>3, <1>4, <1>5, <1>6, PTL DEF AllSpec, Spec, ShSpec, VtSpec, FrSpec, PxSpec

\* Every variable of every component keeps its type.
THEOREM DocumentsTypesCorrect == AllSpec => []TypesOK
<1>1. TypeOK /\ ShTypeOK /\ VtTypeOK /\ FrTypeOK /\ PxTypeOK => TypesOK
  BY DEF TypesOK
<1>2. QED
  BY <1>1, PartsOfDocuments, EditTypeCorrect, SharingTypeCorrect, VaultTypeCorrect,
    RetentionTypeCorrect, ProxyTypeCorrect, PTL
=============================================================================
