---------------------------- MODULE EditSession ----------------------------
(***************************************************************************)
(* Office editing through OnlyOffice (auth-gateway/app/routers/viewers.py  *)
(* and models/edit_session.py), for one document.  Opening the editor      *)
(* finds or creates a row of edit_sessions whose document key the browser  *)
(* takes to the Document Server; the Document Server reports what happens  *)
(* to a key in callbacks, which two replicas of the gateway handle: they   *)
(* download the edited document and write it to the owner's pod.           *)
(*                                                                         *)
(* The Document Server is external: it loads the file when a fresh key is  *)
(* opened, collects edits, and sends one final callback when the last      *)
(* editor leaves.  It refuses to edit a key whose final callback carried   *)
(* edits.  Every transaction on edit_sessions is atomic (its rows are read *)
(* FOR UPDATE); the download and the write happen between two of them.     *)
(***************************************************************************)
EXTENDS Integers, FiniteSets

CONSTANTS
  User,         \* the users allowed to open the document
  Edit,         \* the edits they make; bound: each is made once
  Handler,      \* callback handlers running concurrently in the replicas
  Shared,       \* whether the document lies in a shared dataset
  ErrorStatus,  \* which of the statuses 3, 7 and 10 the Document Server reports
  MaxKeys,      \* bound: rows ever created
  MaxForceSaves, MaxDuplicates, MaxCrashes, \* bounds on rare events
  NoKey, NoUser \* null values

Key == 1..MaxKeys

ASSUME EditSessionAssumption ==
  /\ MaxKeys \in Nat \ {0}
  /\ NoKey \notin Key /\ NoUser \notin User
  /\ Shared \in BOOLEAN
  /\ ErrorStatus \subseteq {3, 7, 10}
  /\ {MaxForceSaves, MaxDuplicates, MaxCrashes} \subseteq Nat

VARIABLES
  status,   \* edit_sessions.status of each key's row; "none": no row
  version,  \* edit_sessions.version
  first,    \* edit_sessions.first_editor_username
  made,     \* number of rows created so far; keys are salted, so never reused
  at,       \* where each user's browser is
  key,      \* the document key it was given
  editable, \* whether its configuration has mode "edit"
  doc,      \* Document Server: the edits in the document behind a key
  loaded,   \* Document Server: "new", "open" or "closed"
  dirty,    \* Document Server: keys edited since they were loaded
  net,      \* callbacks under way
  task,     \* what each handler is saving
  file,     \* the edits in the file that openers download
  written,  \* edits ever written to the pod by a save
  accepted, \* edits whose callback was answered {"error": 0}
  budget    \* rare events so far

rows == <<status, version, first, made>>
browsers == <<at, key, editable>>
server == <<doc, loaded, dirty>>
gateway == <<task, file, written, accepted>>
vars == <<rows, browsers, server, net, gateway, budget>>

Idle == [phase |-> "idle", key |-> NoKey, status |-> 0, content |-> {}]
Editors(k) == {u \in User : at[u] = "editing" /\ key[u] = k}

Init ==
  /\ status = [k \in Key |-> "none"] /\ version = [k \in Key |-> 0]
  /\ first = [k \in Key |-> NoUser] /\ made = 0
  /\ at = [u \in User |-> "away"] /\ key = [u \in User |-> NoKey]
  /\ editable = [u \in User |-> FALSE]
  /\ doc = [k \in Key |-> {}] /\ loaded = [k \in Key |-> "new"] /\ dirty = {}
  /\ net = {} /\ task = [h \in Handler |-> Idle]
  /\ file = {} /\ written = {} /\ accepted = {}
  /\ budget = [force |-> 0, dup |-> 0, crash |-> 0]

Spend(what, max) ==
  /\ budget[what] < max
  /\ budget' = [budget EXCEPT ![what] = @ + 1]

----------------------------------------------------------------------------
(* Opening the document *)

\* _lookup_edit_session: the newest row that is being edited or saved.
Active == {k \in Key : status[k] \in {"editing", "saving"}}
Newest(S) == CHOOSE k \in S : \A j \in S : j <= k

\* _next_version_for: above the versions of the rows still there.
NextVersion ==
  LET old == {version[k] : k \in {j \in Key : status[j] # "none"}} IN
  CHOOSE v \in 1..MaxKeys + 1 :
    /\ \A o \in old : o < v
    /\ v = 1 \/ v - 1 \in old

\* onlyoffice_editor and onlyoffice_shared_editor: join the active session.
\* A personal document is editable for its first editor only.
OpenActive(u) ==
  LET k == Newest(Active) IN
  /\ at[u] = "away" /\ Active # {}
  /\ at' = [at EXCEPT ![u] = "joining"]
  /\ key' = [key EXCEPT ![u] = k]
  /\ editable' = [editable EXCEPT ![u] = Shared \/ first[k] = u]
  /\ UNCHANGED <<rows, server, net, gateway, budget>>

\* The lookup finds nothing to lock: this request will create a session.
OpenMissing(u) ==
  /\ at[u] = "away" /\ Active = {}
  /\ at' = [at EXCEPT ![u] = "creating"]
  /\ UNCHANGED <<rows, key, editable, server, net, gateway, budget>>

\* _get_or_create_edit_session inserts a row.  Its key is salted, so the unique
\* constraint cannot refuse it.
Create(u) ==
  LET k == made + 1 IN
  /\ at[u] = "creating" /\ made < MaxKeys
  /\ made' = k
  /\ status' = [status EXCEPT ![k] = "editing"]
  /\ version' = [version EXCEPT ![k] = NextVersion]
  /\ first' = [first EXCEPT ![k] = u]
  /\ at' = [at EXCEPT ![u] = "joining"]
  /\ key' = [key EXCEPT ![u] = k]
  /\ editable' = [editable EXCEPT ![u] = TRUE]
  /\ UNCHANGED <<server, net, gateway, budget>>

\* onlyoffice_viewer: a personal document is shown read-only, under the key of the
\* active session or under one of its own.
View(u) ==
  /\ at[u] = "away" /\ ~Shared
  /\ at' = [at EXCEPT ![u] = "viewing"]
  /\ UNCHANGED <<rows, key, editable, server, net, gateway, budget>>

----------------------------------------------------------------------------
(* The browser and the Document Server *)

\* The browser connects with its key; a fresh key makes the server download the
\* file, a closed one is not edited again.
Join(u) ==
  LET k == key[u]
      edits == editable[u] /\ loaded[k] # "closed"
  IN
  /\ at[u] = "joining"
  /\ at' = [at EXCEPT ![u] = IF edits THEN "editing" ELSE "viewing"]
  /\ IF edits /\ loaded[k] = "new"
       THEN /\ loaded' = [loaded EXCEPT ![k] = "open"]
            /\ doc' = [doc EXCEPT ![k] = file]
       ELSE UNCHANGED <<loaded, doc>>
  /\ UNCHANGED <<rows, key, editable, dirty, net, gateway, budget>>

Type(u, e) ==
  /\ at[u] = "editing"
  /\ \A k \in Key : e \notin doc[k]
  /\ e \notin file \cup written
  /\ doc' = [doc EXCEPT ![key[u]] = @ \cup {e}]
  /\ dirty' = dirty \cup {key[u]}
  /\ UNCHANGED <<rows, browsers, loaded, net, gateway, budget>>

Callback(k, s) == [key |-> k, status |-> s, content |-> doc[k]]

\* Ctrl+S: status 6, or 7 when the server could not produce the document.
ForceSave(u) ==
  /\ at[u] = "editing" /\ key[u] \in dirty
  /\ Spend("force", MaxForceSaves)
  /\ \E s \in {6} \cup ({7} \cap ErrorStatus) : net' = net \cup {Callback(key[u], s)}
  /\ UNCHANGED <<rows, browsers, server, gateway>>

\* A browser leaves.  The last editor's leaving closes the key: status 2 (or 3)
\* if it was edited, else 4, after which the server forgets the document.
Leave(u) ==
  LET k == key[u] IN
  /\ at[u] \in {"editing", "viewing"}
  /\ at' = [at EXCEPT ![u] = "away"]
  /\ key' = [key EXCEPT ![u] = NoKey]
  /\ editable' = [editable EXCEPT ![u] = FALSE]
  /\ IF at[u] = "viewing" \/ Editors(k) # {u}
       THEN UNCHANGED <<net, server>>
       ELSE /\ \E s \in IF k \in dirty THEN {2} \cup ({3} \cap ErrorStatus) ELSE {4} :
                 net' = net \cup {Callback(k, s)}
            /\ loaded' = [loaded EXCEPT ![k] = IF k \in dirty THEN "closed" ELSE "new"]
            /\ UNCHANGED <<doc, dirty>>
  /\ UNCHANGED <<rows, gateway, budget>>

\* The server reports a technical error while the key is open.
TechnicalError(k) ==
  /\ 10 \in ErrorStatus /\ loaded[k] = "open"
  /\ Callback(k, 10) \notin net
  /\ Spend("force", MaxForceSaves)
  /\ net' = net \cup {Callback(k, 10)}
  /\ UNCHANGED <<rows, browsers, server, gateway>>

----------------------------------------------------------------------------
(* onlyoffice_callback *)

\* A callback arrives at a handler; it may arrive a second time.
Arrives(m) ==
  /\ m \in net
  /\ \/ net' = net \ {m} /\ UNCHANGED budget
     \/ UNCHANGED net /\ Spend("dup", MaxDuplicates)

Saves(m) == m.status \in {2, 6}

\* The answer {"error": 0} makes the server regard the edits as stored.
Acknowledge(m) == accepted' = accepted \cup (IF Saves(m) THEN m.content ELSE {})

\* No row has the key.
CallbackUnknown(m) ==
  /\ Arrives(m) /\ status[m.key] = "none"
  /\ Acknowledge(m)
  /\ UNCHANGED <<rows, browsers, server, task, file, written>>

\* A save for a row that is being saved is taken for a duplicate.
CallbackAlreadySaving(m) ==
  /\ Arrives(m) /\ Saves(m) /\ status[m.key] = "saving"
  /\ Acknowledge(m)
  /\ UNCHANGED <<rows, browsers, server, task, file, written>>

\* A save without a download url.
CallbackNoUrl(m) ==
  /\ Arrives(m) /\ Saves(m) /\ status[m.key] \notin {"none", "saving"}
  /\ status' = [status EXCEPT ![m.key] = "save_failed"]
  /\ UNCHANGED <<version, first, made, browsers, server, gateway>>

\* Mutant of CallbackSave: no check that the row is being saved.
CallbackSaveAlways(h, m) ==
  /\ task[h] = Idle
  /\ Arrives(m) /\ Saves(m) /\ status[m.key] # "none"
  /\ status' = [status EXCEPT ![m.key] = "saving"]
  /\ task' = [task EXCEPT ![h] =
       [phase |-> "writing", key |-> m.key, status |-> m.status, content |-> m.content]]
  /\ UNCHANGED <<version, first, made, browsers, server, file, written, accepted>>

\* A save starts: the row is marked "saving" and committed.
CallbackSave(h, m) ==
  /\ task[h] = Idle
  /\ Arrives(m) /\ Saves(m) /\ status[m.key] \notin {"none", "saving"}
  /\ status' = [status EXCEPT ![m.key] = "saving"]
  /\ task' = [task EXCEPT ![h] =
       [phase |-> "writing", key |-> m.key, status |-> m.status, content |-> m.content]]
  /\ UNCHANGED <<version, first, made, browsers, server, file, written, accepted>>

\* Closed without changes: the row is deleted.
CallbackNoChange(m) ==
  /\ Arrives(m) /\ m.status = 4 /\ status[m.key] # "none"
  /\ status' = [status EXCEPT ![m.key] = "none"]
  /\ UNCHANGED <<version, first, made, browsers, server, gateway>>

\* Errors: 3 and 10 mark the row, 7 only records the message.
CallbackError(m) ==
  /\ Arrives(m) /\ m.status \in {3, 7, 10} /\ status[m.key] # "none"
  /\ status' = IF m.status = 7 THEN status ELSE [status EXCEPT ![m.key] = "error"]
  /\ UNCHANGED <<version, first, made, browsers, server, gateway>>

\* _save_edited_file: download, then write into the pod.  The path of a shared
\* document lacks the dataset's directory, so openers do not see the write.
Write(h) ==
  /\ task[h].phase = "writing"
  /\ task' = [task EXCEPT ![h].phase = "written"]
  /\ written' = written \cup task[h].content
  /\ file' = IF Shared THEN file ELSE task[h].content
  /\ UNCHANGED <<rows, browsers, server, net, accepted, budget>>

SetStatus(k, s) ==
  status' = IF status[k] = "none" THEN status ELSE [status EXCEPT ![k] = s]

\* Mutant of Saved: the row of a final save stays, marked "saved".
SavedKeepsRow(h) ==
  LET t == task[h] IN
  /\ t.phase = "written"
  /\ SetStatus(t.key, IF t.status = 2 THEN "saved" ELSE "editing")
  /\ Acknowledge(t)
  /\ task' = [task EXCEPT ![h] = Idle]
  /\ UNCHANGED <<version, first, made, browsers, server, net, file, written, budget>>

\* The save succeeded: a final save deletes the row, a force-save goes on.
Saved(h) ==
  LET t == task[h] IN
  /\ t.phase = "written"
  /\ SetStatus(t.key, IF t.status = 2 THEN "none" ELSE "editing")
  /\ Acknowledge(t)
  /\ task' = [task EXCEPT ![h] = Idle]
  /\ UNCHANGED <<version, first, made, browsers, server, net, file, written, budget>>

\* Mutant of SaveFails: the row is left as it is.
SaveFailsSilently(h) ==
  /\ task[h] # Idle
  /\ task' = [task EXCEPT ![h] = Idle]
  /\ UNCHANGED <<rows, browsers, server, net, file, written, accepted, budget>>

\* The download or the write failed, or was reported as failed after it reached the
\* pod: the row keeps the failure.
SaveFails(h) ==
  /\ task[h] # Idle
  /\ SetStatus(task[h].key, "save_failed")
  /\ task' = [task EXCEPT ![h] = Idle]
  /\ UNCHANGED <<version, first, made, browsers, server, net, file, written, accepted,
                 budget>>

\* The replica dies with the save under way.
HandlerCrashes(h) ==
  /\ task[h] # Idle
  /\ Spend("crash", MaxCrashes)
  /\ task' = [task EXCEPT ![h] = Idle]
  /\ UNCHANGED <<rows, browsers, server, net, file, written, accepted>>

----------------------------------------------------------------------------
HandlerStep(h) == Write(h) \/ Saved(h) \/ SaveFails(h)

Receive(m) ==
  \/ CallbackUnknown(m) \/ CallbackAlreadySaving(m) \/ CallbackNoUrl(m)
  \/ CallbackNoChange(m) \/ CallbackError(m)
  \/ \E h \in Handler : CallbackSave(h, m)

UserStep(u) ==
  \/ OpenActive(u) \/ OpenMissing(u) \/ Create(u) \/ View(u) \/ Join(u)
  \/ \E e \in Edit : Type(u, e)
  \/ ForceSave(u) \/ Leave(u)

Next ==
  \/ \E u \in User : UserStep(u)
  \/ \E k \in Key : TechnicalError(k)
  \/ \E m \in net : Receive(m)
  \/ \E h \in Handler : HandlerStep(h) \/ HandlerCrashes(h)

Spec == Init /\ [][Next]_vars

\* Callbacks are delivered and a running handler finishes: its download has a
\* timeout, and the Document Server keeps its connection open.
Fairness ==
  /\ WF_vars(\E m \in net : Receive(m))
  /\ \A h \in Handler : WF_vars(HandlerStep(h))

FairSpec == Spec /\ Fairness

----------------------------------------------------------------------------
(* Properties *)

\* The type invariant.
TypeOK ==
  /\ status \in [Key -> {"none", "editing", "saving", "save_failed", "error"}]
  /\ version \in [Key -> 0..MaxKeys]
  /\ first \in [Key -> User \cup {NoUser}]
  /\ made \in 0..MaxKeys
  /\ at \in [User -> {"away", "creating", "joining", "editing", "viewing"}]
  /\ key \in [User -> Key \cup {NoKey}]
  /\ editable \in [User -> BOOLEAN]
  /\ doc \in [Key -> SUBSET Edit]
  /\ loaded \in [Key -> {"new", "open", "closed"}]
  /\ dirty \subseteq Key
  /\ net \subseteq [key : Key, status : {2, 3, 4, 6, 7, 10}, content : SUBSET Edit]
  /\ \A h \in Handler :
       task[h] = Idle \/ task[h] \in [phase : {"writing", "written"}, key : Key,
                                      status : {2, 6}, content : SUBSET Edit]
  /\ file \subseteq Edit /\ written \subseteq Edit /\ accepted \subseteq Edit
  /\ budget \in [force : 0..MaxForceSaves, dup : 0..MaxDuplicates, crash : 0..MaxCrashes]

\* The FOR UPDATE lock and the "saving" status serialise the saves of a key: a
\* duplicate callback at the other replica never starts a second write.
OneWriterPerKey ==
  \A g, h \in Handler : task[g] # Idle /\ task[g].key = task[h].key => g = h

\* Unless a replica dies, a row is "saving" only while a handler is saving it:
\* otherwise every later save of the key would be taken for a duplicate.
SavingHasWriter ==
  budget.crash = 0 =>
    \A k \in Key : status[k] = "saving" => \E h \in Handler : task[h].key = k

\* Every save comes to an end, and the row leaves "saving" with it, however often it is saved.
SaveEnds == \A k \in Key : []<>(status[k] # "saving")

\* What the code says and does not do; a run shows how.

\* Whether the edit e is written, being written or reported, in the hands of
\* somebody who is still editing, or covered by a row that says the save failed.
NotLost(e) ==
  \/ e \in written
  \/ \E h \in Handler : e \in task[h].content
  \/ \E m \in net : Saves(m) /\ e \in m.content
  \/ \E k \in Key : e \in doc[k] /\ (Editors(k) # {} \/ status[k] \in {"save_failed", "error"})

\* An edit whose callback was answered with success does not vanish: what the
\* final callback carries is written to the pod, or somebody can still tell.
AcceptedNotLost == \A e \in accepted : NotLost(e)
============================================================================
