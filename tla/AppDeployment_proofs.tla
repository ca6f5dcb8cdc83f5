------------------------ MODULE AppDeployment_proofs ------------------------
(***************************************************************************)
(* Proofs about AppDeployment, for any number of handlers, requests and    *)
(* faults, and any choice of the operations that are requested.            *)
(*                                                                         *)
(* NeverUncleared is not inductive: an app may be set running, or its      *)
(* Ingress opened, by a handler that read the row long ago or has calls    *)
(* left to make.  The invariant says of an app that no admin has cleared   *)
(* that its row has no approval and neither runs nor ran, that no handler  *)
(* has read anything else, and that no handler has the call left that      *)
(* would open the Ingress (Uncleared).                                     *)
(*                                                                         *)
(* SiteFollowsRow has an invariant of its own (SerialInv), which says what *)
(* the site will be once the calls under way are made.                     *)
(***************************************************************************)
EXTENDS AppDeployment, SequenceTheorems, TLAPS

Step == {"delDep", "delSvc", "delIng", "addDep", "addSvc", "system", "custom", "scale0", "scale1"}
Harmless == Step \ {"custom"}

Work == [op : AllAppOps \cup {"idle"}, auth : AuthMode, seen : Row,
         todo : Seq(Step \cup {"commit"})]

Log == [requests : 0..MaxRequests, faults : 0..MaxAppFaults,
        overlapped : BOOLEAN, cleared : BOOLEAN, recall : Recall, stray : BOOLEAN]

\* A handler has nothing to do, is about to commit, or has calls of S to make.
Plan(w, S) ==
  \/ w.op = "idle" /\ w.todo = <<>>
  \/ w.op # "idle" /\ w.todo = <<"commit">>
  \/ w.op # "idle" /\ w.todo \in Seq(S) /\ w.todo # <<>>

PlansOK == \A h \in AppHandler : Plan(work[h], Step)

\* A row that no approval, start or recall has touched.
Untouched(row) == ~row.approved /\ row.status \notin {"running", "suspended"}

Uncleared ==
  ~appLog.cleared =>
    /\ Untouched(app) /\ site.ing # "custom"
    /\ \A h \in AppHandler :
         /\ Untouched(work[h].seen)
         /\ work[h].op \notin {"suspend", "resume", "reapprove"}
         /\ Plan(work[h], Harmless)

AppInv == AppTypeOK /\ PlansOK /\ Uncleared

\* Whether an admin's request has gone astray once op is done on a row with this status.
StrayAfter(op, status, recall, stray) ==
  (stray /\ op # "deploy") \/ Astray(op, status, recall)

-----------------------------------------------------------------------------

\* The type invariant, with the names of this module.
LEMMA AppTypes ==
  ASSUME AppInv
  PROVE  app \in Row /\ site \in Site /\ work \in [AppHandler -> Work] /\ appLog \in Log
<1>1. Step \cup {"commit"} = {"commit", "delDep", "delSvc", "delIng", "addDep", "addSvc",
                              "system", "custom", "scale0", "scale1"}
  BY DEF Step
<1>2. QED
  BY <1>1 DEF AppInv, AppTypeOK, Work, Log

\* The row after a commit has each column from the row before or from what is written.
LEMMA Flushed ==
  ASSUME app \in Row, NEW seen \in Row, NEW new \in Row
  PROVE  /\ Flush(seen, new) \in Row
         /\ Flush(seen, new).status \in {app.status, new.status}
         /\ Flush(seen, new).approved \in {app.approved, new.approved}
BY DEF Flush, Row

\* What an operation writes is a row.
LEMMA WrittenIsRow ==
  ASSUME NEW op \in AllAppOps, NEW r \in Row, NEW auth \in AuthMode
  PROVE  Written(op, r, auth) \in Row
<1>1. Submitted(auth) \in Row /\ Redeployed(r, auth) \in Row
  BY DEF Submitted, Redeployed, Row, AppStatus
<1>2. op \in {"undeploy", "suspend", "resume"} => OwnerWrites(op, r) \in Row
  BY DEF OwnerWrites, Row, AppStatus
<1>3. op \in {"approve", "reject"} => VerdictWrites(op, r) \in Row
  BY DEF VerdictWrites, Row, AppStatus
<1>4. op \in {"stop", "start", "recall", "reapprove"} => AdminWrites(op, r) \in Row
  BY DEF AdminWrites, Row, AppStatus
<1>5. QED
  BY <1>1, <1>2, <1>3, <1>4 DEF Written, AllAppOps

\* What a request that clears nothing writes of an untouched row is untouched.
LEMMA WrittenUntouched ==
  ASSUME NEW op \in {"deploy", "undeploy", "reject", "stop"}, NEW r \in Row,
         NEW auth \in AuthMode, Untouched(r)
  PROVE  Untouched(Written(op, r, auth))
<1>1. CASE op = "deploy"
  BY <1>1 DEF Written, Submitted, Redeployed, Untouched, Row
<1>2. CASE op = "undeploy"
  BY <1>2 DEF Written, OwnerWrites, Untouched, Row
<1>3. CASE op = "reject"
  BY <1>3 DEF Written, VerdictWrites, Untouched, Row
<1>4. CASE op = "stop"
  BY <1>4 DEF Written, AdminWrites, Untouched, Row
<1>5. QED
  BY <1>1, <1>2, <1>3, <1>4

\* The calls of an operation are calls.
LEMMA CallsAreSteps ==
  ASSUME NEW op \in AllAppOps, NEW seen \in Row, NEW r \in Row
  PROVE  Calls(op, seen, r) \in Seq(Step)
<1>1. DeleteAll \in Seq(Step)
  BY DEF DeleteAll, Step
<1>2. \A mode \in AuthMode : CreateAll(mode) \in Seq(Step)
  BY DEF CreateAll, AuthMode, Step
<1>3. \A mode \in AuthMode : DeleteAll \o CreateAll(mode) \in Seq(Step)
  BY <1>1, <1>2, ConcatProperties
<1>4. r.auth \in AuthMode /\ "system" \in AuthMode
  BY DEF Row, AuthMode
<1>5. /\ <<>> \in Seq(Step) /\ <<"delIng">> \in Seq(Step) /\ <<"custom">> \in Seq(Step)
      /\ <<"delIng", "custom">> \in Seq(Step) /\ <<"scale0">> \in Seq(Step)
      /\ <<"scale1">> \in Seq(Step) /\ <<"scale0", "delIng">> \in Seq(Step)
  BY DEF Step
<1>6. QED
  BY <1>1, <1>2, <1>3, <1>4, <1>5 DEF Calls, AllAppOps

\* Without an approval none of them opens the Ingress.
LEMMA CallsAreHarmless ==
  ASSUME NEW op \in {"deploy", "undeploy", "reject", "stop"}, NEW seen \in Row, NEW r \in Row,
         ~seen.approved
  PROVE  Calls(op, seen, r) \in Seq(Harmless)
<1>1. DeleteAll \in Seq(Harmless) /\ CreateAll("system") \in Seq(Harmless)
  BY DEF DeleteAll, CreateAll, Harmless, Step
<1>2. DeleteAll \o CreateAll("system") \in Seq(Harmless)
  BY <1>1, ConcatProperties
<1>3. <<"scale0">> \in Seq(Harmless)
  BY DEF Harmless, Step
<1>4. QED
  BY <1>1, <1>2, <1>3 DEF Calls

-----------------------------------------------------------------------------
(* The steps *)

\* One handler moves on to w: the invariant asks only for the parts that moved.
LEMMA HandlerMoves ==
  ASSUME AppInv, NEW h \in AppHandler, NEW w \in Work, work' = [work EXCEPT ![h] = w],
         Plan(w, Step), app' \in Row, site' \in Site, appLog' \in Log,
         \/ appLog'.cleared
         \/ /\ ~appLog.cleared
            /\ Untouched(app') /\ site'.ing # "custom" /\ Untouched(w.seen)
            /\ w.op \notin {"suspend", "resume", "reapprove"} /\ Plan(w, Harmless)
  PROVE  AppInv'
<1>1. work \in [AppHandler -> Work]
  BY AppTypes
<1>2. work' \in [AppHandler -> Work]
  BY <1>1
<1>3. \A g \in AppHandler : work'[g] = IF g = h THEN w ELSE work[g]
  BY <1>1
<1>4. AppTypeOK'
  <2>1. Step \cup {"commit"} = {"commit", "delDep", "delSvc", "delIng", "addDep", "addSvc",
                                "system", "custom", "scale0", "scale1"}
    BY DEF Step
  <2>2. QED
    BY <1>2, <2>1 DEF AppTypeOK, Work, Log
<1>5. PlansOK'
  BY <1>3 DEF AppInv, PlansOK
<1>6. Uncleared'
  BY <1>3 DEF AppInv, Uncleared
<1>7. QED
  BY <1>4, <1>5, <1>6 DEF AppInv

\* A handler at rest has nothing left to do.
LEMMA IdleIsHarmless ==
  AppIdle \in Work /\ AppIdle.op = "idle" /\ Plan(AppIdle, Step) /\ Plan(AppIdle, Harmless)
  /\ Untouched(AppIdle.seen)
<1>1. NoRow \in Row
  BY DEF NoRow, Row, AppStatus, AuthMode
<1>2. AppIdle \in Work
  BY <1>1 DEF AppIdle, Work, AuthMode
<1>3. QED
  BY <1>2 DEF AppIdle, NoRow, Plan, Untouched

\* Where Proceed takes a handler that has the calls in rest left.
LEMMA Proceeding ==
  ASSUME AppInv, NEW h \in AppHandler, work[h].op # "idle",
         NEW S \in {Step, Harmless}, NEW rest \in Seq(S)
  PROVE  LET w == IF rest = <<>> THEN AppIdle ELSE [work[h] EXCEPT !.todo = rest] IN
         /\ w \in Work /\ Plan(w, S)
         /\ w = AppIdle \/ (w.seen = work[h].seen /\ w.op = work[h].op)
<1>1. work[h] \in Work
  BY AppTypes
<1>2. CASE rest = <<>>
  BY <1>2, IdleIsHarmless
<1>3. CASE rest # <<>>
  <2>1. rest \in Seq(Step \cup {"commit"})
    BY DEF Harmless
  <2>2. [work[h] EXCEPT !.todo = rest] \in Work
    BY <1>1, <2>1 DEF Work
  <2>3. /\ [work[h] EXCEPT !.todo = rest].todo = rest
        /\ [work[h] EXCEPT !.todo = rest].op = work[h].op
        /\ [work[h] EXCEPT !.todo = rest].seen = work[h].seen
    BY <1>1 DEF Work
  <2>4. QED
    BY <1>3, <2>2, <2>3 DEF Plan
<1>4. QED
  BY <1>2, <1>3

\* At first there is no app, and no handler has read anything.
LEMMA AppInitOK == AppInit => AppInv
<1> SUFFICES ASSUME AppInit PROVE AppInv
  OBVIOUS
<1>1. work \in [AppHandler -> Work] /\ \A h \in AppHandler : work[h] = AppIdle
  BY IdleIsHarmless DEF AppInit
<1>2. NoRow \in Row /\ Untouched(NoRow)
  BY DEF NoRow, Row, AppStatus, AuthMode, Untouched
<1>3. AppTypeOK
  <2>1. Step \cup {"commit"} = {"commit", "delDep", "delSvc", "delIng", "addDep", "addSvc",
                                "system", "custom", "scale0", "scale1"}
    BY DEF Step
  <2>2. site \in Site
    BY DEF AppInit, Site, AuthMode
  <2>3. QED
    BY <1>1, <1>2, <2>1, <2>2, AppAssumption DEF AppInit, AppTypeOK, Work, Recall
<1>4. PlansOK
  BY <1>1, IdleIsHarmless DEF PlansOK
<1>5. Uncleared
  BY <1>1, <1>2, IdleIsHarmless DEF AppInit, Uncleared
<1>6. QED
  BY <1>3, <1>4, <1>5 DEF AppInv

\* A request begins: it reads the row and has to commit.
LEMMA BeginAppOpOK ==
  ASSUME AppInv, NEW h \in AppHandler, NEW op \in AppOps, NEW auth \in AuthMode,
         BeginAppOp(h, op, auth)
  PROVE  AppInv'
<1> DEFINE w == [op |-> op, auth |-> auth, seen |-> app, todo |-> <<"commit">>]
<1>1. op \in AllAppOps /\ op # "idle"
  BY AppAssumption DEF AllAppOps
<1>2. w \in Work
  BY <1>1, AppTypes DEF Work
<1>3. Plan(w, Step) /\ Plan(w, Harmless)
  BY <1>1 DEF Plan
<1>4. appLog' \in Log /\ appLog'.cleared = appLog.cleared
  <2> DEFINE b == appLog.overlapped \/ ~AppQuiet
  <2>1. b \in BOOLEAN
    OBVIOUS
  <2>2. appLog' = [appLog EXCEPT !.requests = @ + 1, !.overlapped = b]
    BY DEF BeginAppOp
  <2> HIDE DEF b
  <2>3. appLog \in Log /\ appLog.requests < MaxRequests
    BY AppTypes DEF BeginAppOp
  <2>4. appLog.requests + 1 \in 0..MaxRequests
    BY <2>3, AppAssumption DEF Log
  <2>5. QED
    BY <2>1, <2>2, <2>3, <2>4 DEF Log
<1>5. work' = [work EXCEPT ![h] = w] /\ UNCHANGED <<app, site>> /\ Accepts(op, app)
  BY DEF BeginAppOp
<1>6. ~appLog.cleared =>
        /\ Untouched(app) /\ site.ing # "custom"
        /\ op \notin {"suspend", "resume", "reapprove"}
  BY <1>5 DEF AppInv, Uncleared, Untouched, Accepts
<1>7. w.op = op /\ w.seen = app
  OBVIOUS
<1> HIDE DEF w
<1>8. QED
  BY <1>2, <1>3, <1>4, <1>5, <1>6, <1>7, AppTypes, HandlerMoves

\* A request writes the row, which leaves it calls to make.
LEMMA CommitAppOpOK ==
  ASSUME AppInv, NEW h \in AppHandler, CommitAppOp(h)
  PROVE  AppInv'
<1> DEFINE w == work[h]
           clash == w.op = "deploy" /\ w.seen.status = "none" /\ app.status # "none"
           new == Written(w.op, w.seen, w.auth)
           rest == IF clash THEN <<>> ELSE Calls(w.op, w.seen, app')
           next == IF rest = <<>> THEN AppIdle ELSE [w EXCEPT !.todo = rest]
           clears == w.op \in {"approve", "start", "recall"}
<1>1. /\ w.todo = <<"commit">>
      /\ app' = IF clash THEN app ELSE Flush(w.seen, new)
      /\ work' = [work EXCEPT ![h] = next]
      /\ site' = site
  BY DEF CommitAppOp, Proceed
<1>2. w \in Work /\ w.op \in AllAppOps /\ w.op # "idle"
  <2>1. w \in Work
    BY AppTypes
  <2>2. w.op # "idle"
    <3>1. Plan(w, Step)
      BY DEF AppInv, PlansOK
    <3>2. QED
      BY <1>1, <3>1 DEF Plan
  <2>3. QED
    BY <2>1, <2>2 DEF Work
<1>3. w.seen \in Row /\ new \in Row
  BY <1>2, WrittenIsRow DEF Work
<1>4. app' \in Row
  BY <1>1, <1>3, AppTypes, Flushed
<1>5. appLog' \in Log /\ (appLog'.cleared <=> appLog.cleared \/ clears)
  <2> DEFINE b == appLog.cleared \/ clears
             c == RecallAfter(w.op, appLog.recall)
             d == StrayAfter(w.op, w.seen.status, appLog.recall, appLog.stray)
  <2>1. b \in BOOLEAN /\ c \in Recall /\ d \in BOOLEAN
    <3>1. appLog.recall \in Recall
      BY AppTypes DEF Log
    <3>2. c \in Recall
      BY <3>1 DEF RecallAfter, Recall
    <3>3. d \in BOOLEAN
      BY DEF StrayAfter
    <3>4. QED
      BY <3>2, <3>3
  <2>2. appLog' = [appLog EXCEPT !.cleared = b, !.recall = c, !.stray = d]
    <3>1. appLog \in Log
      BY AppTypes
    <3>2. QED
      BY <3>1 DEF CommitAppOp, StrayAfter, Log
  <2>3. b <=> appLog.cleared \/ clears
    OBVIOUS
  <2> HIDE DEF b, c, d
  <2>4. appLog' \in Log /\ appLog'.cleared = b
    BY <2>1, <2>2, AppTypes DEF Log
  <2>5. QED
    BY <2>3, <2>4
<1>6. rest \in Seq(Step)
  BY <1>2, <1>3, <1>4, CallsAreSteps
<1>7. CASE appLog'.cleared
  <2>1. next \in Work /\ Plan(next, Step)
    BY <1>2, <1>6, Proceeding
  <2> HIDE DEF next
  <2>2. QED
    BY <1>1, <1>4, <1>5, <1>7, <2>1, AppTypes, HandlerMoves
<1>8. CASE ~appLog'.cleared
  <2>1. ~appLog.cleared /\ ~clears
    BY <1>5, <1>8
  <2>2. /\ Untouched(app) /\ site.ing # "custom" /\ Untouched(w.seen)
        /\ w.op \notin {"suspend", "resume", "reapprove"}
    BY <2>1 DEF AppInv, Uncleared
  <2>3. w.op \in {"deploy", "undeploy", "reject", "stop"}
    BY <1>2, <2>1, <2>2 DEF AllAppOps
  <2>4. Untouched(new)
    BY <1>2, <1>3, <2>2, <2>3, WrittenUntouched DEF Work
  <2>5. Untouched(app')
    <3>1. CASE clash
      BY <1>1, <2>2, <3>1
    <3>2. CASE ~clash
      <4>1. app' = Flush(w.seen, new) /\ app \in Row
        BY <1>1, <3>2, AppTypes
      <4>2. /\ app'.status \in {app.status, new.status}
            /\ app'.approved \in {app.approved, new.approved}
        BY <1>3, <4>1, Flushed
      <4>3. QED
        BY <2>2, <2>4, <4>2 DEF Untouched
    <3>3. QED
      BY <3>1, <3>2
  <2>6. rest \in Seq(Harmless)
    BY <1>3, <1>4, <2>2, <2>3, CallsAreHarmless DEF Untouched
  <2>7. next \in Work /\ Plan(next, Harmless)
        /\ (next = AppIdle \/ (next.seen = w.seen /\ next.op = w.op))
    BY <1>2, <2>6, Proceeding
  <2>8. Plan(next, Step)
    BY <1>2, <1>6, Proceeding
  <2>9. Untouched(next.seen) /\ next.op \notin {"suspend", "resume", "reapprove"}
    BY <2>2, <2>7, IdleIsHarmless
  <2> HIDE DEF next
  <2>10. QED
    BY <1>1, <1>4, <1>5, <2>1, <2>2, <2>5, <2>7, <2>8, <2>9, AppTypes, HandlerMoves
<1>9. QED
  BY <1>7, <1>8

\* What a call leaves: only "custom" opens the Ingress without the gateway's check.
LEMMA EffectOfCall ==
  ASSUME AppInv, NEW step \in Step
  PROVE  /\ Effect(step) \in Site
         /\ step # "custom" /\ site.ing # "custom" => Effect(step).ing # "custom"
<1>1. site \in Site
  BY AppTypes
<1>2. QED
  BY <1>1 DEF Effect, Site, Step, AuthMode

\* A handler with calls to make: the next one and those after it.
LEMMA NextCall ==
  ASSUME AppInv, NEW h \in AppHandler, Calling(h)
  PROVE  /\ work[h].op # "idle"
         /\ Head(work[h].todo) \in Step /\ Tail(work[h].todo) \in Seq(Step)
         /\ ~appLog.cleared => /\ Head(work[h].todo) \in Harmless
                               /\ Tail(work[h].todo) \in Seq(Harmless)
<1>1. work[h].op # "idle" /\ work[h].todo # <<"commit">>
  BY DEF Calling
<1>2. Plan(work[h], Step) /\ (~appLog.cleared => Plan(work[h], Harmless))
  BY DEF AppInv, PlansOK, Uncleared
<1>3. work[h].todo \in Seq(Step) /\ work[h].todo # <<>>
  BY <1>1, <1>2 DEF Plan
<1>4. ~appLog.cleared => work[h].todo \in Seq(Harmless)
  BY <1>1, <1>2 DEF Plan
<1>5. QED
  BY <1>1, <1>3, <1>4, HeadTailProperties

\* The history of an uncleared app, while it stays uncleared.
LEMMA StillUncleared ==
  ASSUME AppInv, NEW h \in AppHandler, ~appLog.cleared
  PROVE  /\ Untouched(app) /\ site.ing # "custom" /\ Untouched(work[h].seen)
         /\ work[h].op \notin {"suspend", "resume", "reapprove"}
BY DEF AppInv, Uncleared

LEMMA FaultIsCounted ==
  ASSUME AppInv, AppFault
  PROVE  appLog' \in Log /\ appLog'.cleared = appLog.cleared
<1>1. appLog \in Log /\ appLog.faults < MaxAppFaults
  BY AppTypes DEF AppFault
<1>2. appLog.faults + 1 \in 0..MaxAppFaults
  BY <1>1, AppAssumption DEF Log
<1>3. QED
  BY <1>1, <1>2 DEF AppFault, Log

\* A handler makes the next call, or goes on without it.
LEMMA CallsGoOn ==
  ASSUME AppInv, NEW h \in AppHandler, Calling(h), Proceed(h, Tail(work[h].todo)),
         site' \in {site, Effect(Head(work[h].todo))}, app' = app,
         appLog' \in Log, appLog'.cleared = appLog.cleared
  PROVE  AppInv'
<1> DEFINE rest == Tail(work[h].todo)
           next == IF rest = <<>> THEN AppIdle ELSE [work[h] EXCEPT !.todo = rest]
<1>1. next \in Work /\ Plan(next, Step) /\ work' = [work EXCEPT ![h] = next]
  BY NextCall, Proceeding DEF Proceed
<1>2. app' \in Row /\ site' \in Site
  BY NextCall, EffectOfCall, AppTypes
<1>3. ~appLog.cleared =>
        /\ Untouched(app') /\ site'.ing # "custom" /\ Untouched(next.seen)
        /\ next.op \notin {"suspend", "resume", "reapprove"} /\ Plan(next, Harmless)
  <2> SUFFICES ASSUME ~appLog.cleared
               PROVE  /\ Untouched(app') /\ site'.ing # "custom" /\ Untouched(next.seen)
                      /\ next.op \notin {"suspend", "resume", "reapprove"}
                      /\ Plan(next, Harmless)
    OBVIOUS
  <2>1. /\ Plan(next, Harmless)
        /\ next = AppIdle \/ (next.seen = work[h].seen /\ next.op = work[h].op)
    BY NextCall, Proceeding
  <2>2. site'.ing # "custom"
    BY NextCall, EffectOfCall, StillUncleared DEF Harmless
  <2> HIDE DEF next
  <2>3. QED
    BY <2>1, <2>2, StillUncleared, IdleIsHarmless
<1> HIDE DEF next
<1>4. QED
  BY <1>1, <1>2, <1>3, HandlerMoves

\* A handler gives up: its last call may have been carried out.
LEMMA CallsEnd ==
  ASSUME AppInv, NEW h \in AppHandler, FallBack(h), work[h].op # "idle",
         site' \in Site, ~appLog.cleared => site'.ing # "custom",
         appLog' \in Log, appLog'.cleared = appLog.cleared
  PROVE  AppInv'
<1>1. app \in Row /\ work' = [work EXCEPT ![h] = AppIdle]
  BY AppTypes DEF FallBack
<1>2. \/ app' = [app EXCEPT !.status = "inactive"]
      \/ app' = [app EXCEPT !.status = "pending_approval", !.approved = FALSE]
      \/ app' = app
  BY DEF FallBack
<1>3. app' \in Row
  BY <1>1, <1>2 DEF Row, AppStatus
<1>4. Untouched(app) => Untouched(app')
  BY <1>1, <1>2 DEF Untouched, Row
<1>5. QED
  BY <1>1, <1>3, <1>4, StillUncleared, IdleIsHarmless, HandlerMoves

\* A call is made, fails, or is lost.
LEMMA CallingOK ==
  ASSUME AppInv, NEW h \in AppHandler, CallSucceeds(h) \/ CallRefused(h) \/ CallLost(h)
  PROVE  AppInv'
<1>1. Calling(h)
  BY DEF CallSucceeds, CallRefused, CallLost
<1>2. CASE CallSucceeds(h)
  BY <1>1, <1>2, AppTypes, CallsGoOn DEF CallSucceeds
<1>3. CASE CallRefused(h)
  <2>1. CASE Head(work[h].todo) \in {"delDep", "addDep"}
    BY <1>1, <1>3, <2>1, AppTypes, NextCall, StillUncleared, FaultIsCounted, CallsEnd
       DEF CallRefused
  <2>2. CASE Head(work[h].todo) \notin {"delDep", "addDep"}
    BY <1>1, <1>3, <2>2, FaultIsCounted, CallsGoOn DEF CallRefused
  <2>3. QED
    BY <2>1, <2>2
<1>4. CASE CallLost(h)
  <2>1. site' \in {site, Effect(Head(work[h].todo))}
    BY <1>4 DEF CallLost
  <2>2. site' \in Site /\ (~appLog.cleared => site'.ing # "custom")
    BY <1>1, <2>1, AppTypes, NextCall, EffectOfCall, StillUncleared DEF Harmless
  <2>3. QED
    BY <1>1, <1>4, <2>2, NextCall, FaultIsCounted, CallsEnd DEF CallLost
<1>5. QED
  BY <1>2, <1>3, <1>4

\* A replica dies before the commit or between two calls.
LEMMA DyingOK ==
  ASSUME AppInv, NEW h \in AppHandler, AppHandlerDies(h)
  PROVE  AppInv'
BY AppTypes, StillUncleared, IdleIsHarmless, FaultIsCounted, HandlerMoves DEF AppHandlerDies

\* Stuttering keeps the invariant.
LEMMA AppRestOK ==
  ASSUME AppInv, UNCHANGED appVars
  PROVE  AppInv'
BY DEF AppInv, AppTypeOK, PlansOK, Plan, Uncleared, Untouched, appVars

\* Every step keeps the invariant.
LEMMA AppStep ==
  ASSUME AppInv, [AppNext]_appVars
  PROVE  AppInv'
<1> SUFFICES ASSUME AppNext PROVE AppInv'
  BY AppRestOK
<1>1. PICK h \in AppHandler :
        \/ \E op \in AppOps, auth \in AuthMode : BeginAppOp(h, op, auth)
        \/ CommitAppOp(h)
        \/ CallSucceeds(h) \/ CallRefused(h) \/ CallLost(h)
        \/ AppHandlerDies(h)
  BY DEF AppNext
<1>2. CASE \E op \in AppOps, auth \in AuthMode : BeginAppOp(h, op, auth)
  BY <1>2, BeginAppOpOK
<1>3. CASE CommitAppOp(h)
  BY <1>3, CommitAppOpOK
<1>4. CASE CallSucceeds(h) \/ CallRefused(h) \/ CallLost(h)
  BY <1>4, CallingOK
<1>5. CASE AppHandlerDies(h)
  BY <1>5, DyingOK
<1>6. QED
  BY <1>1, <1>2, <1>3, <1>4, <1>5

\* The invariant is inductive.
THEOREM AppInductive == AppSpec => []AppInv
BY AppStep, AppInitOK, PTL DEF AppSpec

\* Every variable keeps its type, whatever two handlers write over each other: the row has a
\* status the code knows, and a handler has only calls left that there are.
THEOREM AppTypeCorrect == AppSpec => []AppTypeOK
<1>1. AppInv => AppTypeOK
  BY DEF AppInv
<1>2. QED
  BY <1>1, AppInductive, PTL

\* No interleaving of handlers, no failed or lost call and no dying replica lets an app run, or
\* gives it an Ingress without the gateway's check, that no admin ever approved, started or
\* recalled.
THEOREM NothingRunsUncleared == AppSpec => []NeverUncleared
<1>1. AppInv => NeverUncleared
  BY DEF AppInv, Uncleared, Untouched, NeverUncleared
<1>2. QED
  BY <1>1, AppInductive, PTL

-----------------------------------------------------------------------------
(***************************************************************************)
(* SiteFollowsRow is about the moments at which no handler is at work.     *)
(* Between them the row is ahead of the site, and what must agree with it  *)
(* is the site as the calls that are left will make it (After).  That      *)
(* agreement must also say what a later request builds on: that nothing of *)
(* a deleted app is left, that a suspended one still has its Deployment    *)
(* and its Service, a stopped one its Ingress as well, that one that waits *)
(* has the Ingress of the gateway unless it guards itself, and that an app *)
(* that was recalled still has a Deployment to scale.                      *)
(***************************************************************************)

\* What a call makes of a site.
Made(s, step) ==
  CASE step = "delDep" -> [s EXCEPT !.dep = "absent"]
    [] step = "delSvc" -> [s EXCEPT !.svc = FALSE]
    [] step = "delIng" -> [s EXCEPT !.ing = "none"]
    [] step = "addDep" -> [s EXCEPT !.dep = IF @ = "absent" THEN "up" ELSE @]
    [] step = "addSvc" -> [s EXCEPT !.svc = TRUE]
    [] step \in AuthMode -> [s EXCEPT !.ing = IF @ = "none" THEN step ELSE @]
    [] step = "scale0" -> [s EXCEPT !.dep = IF @ = "absent" THEN @ ELSE "down"]
    [] step = "scale1" -> [s EXCEPT !.dep = IF @ = "absent" THEN @ ELSE "up"]

\* What the first call, the first two, ... and the first six calls of t make of it.
After1(s, t) == IF t = <<>> THEN s ELSE Made(s, Head(t))
After2(s, t) == IF t = <<>> THEN s ELSE After1(Made(s, Head(t)), Tail(t))
After3(s, t) == IF t = <<>> THEN s ELSE After2(Made(s, Head(t)), Tail(t))
After4(s, t) == IF t = <<>> THEN s ELSE After3(Made(s, Head(t)), Tail(t))
After5(s, t) == IF t = <<>> THEN s ELSE After4(Made(s, Head(t)), Tail(t))

\* No request makes more than six calls.
After(s, t) == IF t = <<>> THEN s ELSE After5(Made(s, Head(t)), Tail(t))

NoSite == [dep |-> "absent", svc |-> FALSE, ing |-> "none"]
Open(mode) == [dep |-> "up", svc |-> TRUE, ing |-> mode]

\* An app with its objects, as long as no admin's request has gone astray.
Live == {"running", "stopped", "suspended", "pending_approval"}

\* The site s of row r, when the app was not recalled.
NeverRecalled(r, s) ==
  /\ r.status = "running" => s = Open(r.auth)
  /\ r.status = "stopped" => s.dep = "down" /\ s.svc /\ s.ing = r.auth
  /\ r.status = "suspended" => s = Open(IF r.auth = "custom" THEN "none" ELSE "system")
  /\ r.status = "pending_approval" =>
       s.dep = "up" /\ s.svc /\ (r.auth = "system" => s.ing = "system")

\* The site s is the one of row r; recall and stray as in appLog.
Agree(r, recall, stray, s) ==
  /\ s.ing = "custom" => r.auth = "custom" /\ r.status \in {"running", "stopped"}
  /\ r.status = "stopped" => s.dep # "up"
  /\ r.status \in {"none", "deleted"} => s = NoSite
  /\ recall = "down" => s.dep # "up"
  /\ ~stray =>
       /\ recall = "no" => NeverRecalled(r, s)
       /\ recall # "no" /\ r.status \in Live => s.svc /\ s.dep # "absent"
       /\ recall = "started" /\ r.status \in Live \ {"stopped"} => s.dep = "up"

\* An app that runs, was stopped or was suspended has its approval on record.
Recorded(r, stray) ==
  ~stray /\ r.status \in {"running", "stopped", "suspended"} => r.approved

\* The calls that a handler has left.
Left(w) == IF w.todo = <<"commit">> THEN <<>> ELSE w.todo

OneAtATime ==
  \A g, h \in AppHandler : work[g].op # "idle" /\ work[h].op # "idle" => g = h
ReadsAreFresh ==
  \A h \in AppHandler :
    work[h].todo = <<"commit">> => work[h].seen = app /\ Accepts(work[h].op, app)
FewCalls == appLog.faults = 0 => \A h \in AppHandler : Len(work[h].todo) <= 6
OnRecord == Recorded(app, appLog.stray)
SiteAgrees ==
  appLog.faults = 0 =>
    /\ AppQuiet => Agree(app, appLog.recall, appLog.stray, site)
    /\ \A h \in AppHandler :
         work[h].op # "idle" => Agree(app, appLog.recall, appLog.stray, After(site, Left(work[h])))

InSeries == OneAtATime /\ ReadsAreFresh /\ FewCalls /\ OnRecord /\ SiteAgrees

SerialInv == AppInv /\ (~appLog.overlapped => InSeries)

-----------------------------------------------------------------------------
(* What calls make of a site *)

\* A call makes a site of a site.
LEMMA MadeIsSite ==
  ASSUME NEW s \in Site, NEW step \in Step
  PROVE  Made(s, step) \in Site
BY DEF Made, Site, Step, AuthMode

LEMMA EffectIsMade ==
  ASSUME NEW step \in Step
  PROVE  Effect(step) = Made(site, step)
BY DEF Effect, Made, Step, AuthMode

\* To make the calls of t is to make the first one and then the others.
LEMMA AfterNext ==
  ASSUME NEW s, NEW t \in Seq(Step), t # <<>>, Len(t) <= 6
  PROVE  After(s, t) = After(Made(s, Head(t)), Tail(t))
<1>1. \A u \in Seq(Step) :
        /\ Len(u) \in Nat
        /\ u = <<>> <=> Len(u) = 0
        /\ u # <<>> => Tail(u) \in Seq(Step) /\ Len(Tail(u)) = Len(u) - 1
  BY HeadTailProperties, EmptySeq
<1>2. \A x, u : u \in Seq(Step) /\ Len(u) <= 1 => After2(x, u) = After1(x, u)
  <2> SUFFICES ASSUME NEW x, NEW u \in Seq(Step), Len(u) <= 1
               PROVE  After2(x, u) = After1(x, u)
    OBVIOUS
  <2>1. CASE u = <<>>
    BY <2>1 DEF After2, After1
  <2>2. CASE u # <<>>
    <3>1. Tail(u) = <<>>
      BY <1>1, <2>2
    <3>2. QED
      BY <2>2, <3>1 DEF After2, After1
  <2>3. QED
    BY <2>1, <2>2
<1>3. \A x, u : u \in Seq(Step) /\ Len(u) <= 2 => After3(x, u) = After2(x, u)
  <2> SUFFICES ASSUME NEW x, NEW u \in Seq(Step), Len(u) <= 2
               PROVE  After3(x, u) = After2(x, u)
    OBVIOUS
  <2>1. CASE u = <<>>
    BY <2>1 DEF After3, After2
  <2>2. CASE u # <<>>
    <3>1. Tail(u) \in Seq(Step) /\ Len(Tail(u)) <= 1
      BY <1>1, <2>2
    <3>2. After2(Made(x, Head(u)), Tail(u)) = After1(Made(x, Head(u)), Tail(u))
      BY <1>2, <3>1
    <3>3. QED
      BY <2>2, <3>2 DEF After3, After2
  <2>3. QED
    BY <2>1, <2>2
<1>4. \A x, u : u \in Seq(Step) /\ Len(u) <= 3 => After4(x, u) = After3(x, u)
  <2> SUFFICES ASSUME NEW x, NEW u \in Seq(Step), Len(u) <= 3
               PROVE  After4(x, u) = After3(x, u)
    OBVIOUS
  <2>1. CASE u = <<>>
    BY <2>1 DEF After4, After3
  <2>2. CASE u # <<>>
    <3>1. Tail(u) \in Seq(Step) /\ Len(Tail(u)) <= 2
      BY <1>1, <2>2
    <3>2. After3(Made(x, Head(u)), Tail(u)) = After2(Made(x, Head(u)), Tail(u))
      BY <1>3, <3>1
    <3>3. QED
      BY <2>2, <3>2 DEF After4, After3
  <2>3. QED
    BY <2>1, <2>2
<1>5. \A x, u : u \in Seq(Step) /\ Len(u) <= 4 => After5(x, u) = After4(x, u)
  <2> SUFFICES ASSUME NEW x, NEW u \in Seq(Step), Len(u) <= 4
               PROVE  After5(x, u) = After4(x, u)
    OBVIOUS
  <2>1. CASE u = <<>>
    BY <2>1 DEF After5, After4
  <2>2. CASE u # <<>>
    <3>1. Tail(u) \in Seq(Step) /\ Len(Tail(u)) <= 3
      BY <1>1, <2>2
    <3>2. After4(Made(x, Head(u)), Tail(u)) = After3(Made(x, Head(u)), Tail(u))
      BY <1>4, <3>1
    <3>3. QED
      BY <2>2, <3>2 DEF After5, After4
  <2>3. QED
    BY <2>1, <2>2
<1>6. \A x, u : u \in Seq(Step) /\ Len(u) <= 5 => After(x, u) = After5(x, u)
  <2> SUFFICES ASSUME NEW x, NEW u \in Seq(Step), Len(u) <= 5
               PROVE  After(x, u) = After5(x, u)
    OBVIOUS
  <2>1. CASE u = <<>>
    BY <2>1 DEF After, After5
  <2>2. CASE u # <<>>
    <3>1. Tail(u) \in Seq(Step) /\ Len(Tail(u)) <= 4
      BY <1>1, <2>2
    <3>2. After5(Made(x, Head(u)), Tail(u)) = After4(Made(x, Head(u)), Tail(u))
      BY <1>5, <3>1
    <3>3. QED
      BY <2>2, <3>2 DEF After, After5
  <2>3. QED
    BY <2>1, <2>2
<1>7. Tail(t) \in Seq(Step) /\ Len(Tail(t)) <= 5
  BY <1>1
<1>8. QED
  BY <1>6, <1>7 DEF After

LEMMA AfterNone == \A s : After(s, <<>>) = s
BY DEF After

\* One call, and two.
LEMMA AfterFew ==
  ASSUME NEW s
  PROVE  /\ \A a \in Step : After(s, <<a>>) = Made(s, a)
         /\ \A a, b \in Step : After(s, <<a, b>>) = Made(Made(s, a), b)
<1>1. \A x : \A a \in Step : After(x, <<a>>) = Made(x, a)
  <2> SUFFICES ASSUME NEW x, NEW a \in Step PROVE After(x, <<a>>) = Made(x, a)
    OBVIOUS
  <2>1. <<a>> \in Seq(Step) /\ <<a>> # <<>> /\ Len(<<a>>) <= 6
        /\ Head(<<a>>) = a /\ Tail(<<a>>) = <<>>
    OBVIOUS
  <2>2. QED
    BY <2>1, AfterNext, AfterNone
<1>2. ASSUME NEW a \in Step, NEW b \in Step
      PROVE  After(s, <<a, b>>) = Made(Made(s, a), b)
  <2>1. <<a, b>> \in Seq(Step) /\ <<a, b>> # <<>> /\ Len(<<a, b>>) <= 6
        /\ Head(<<a, b>>) = a /\ Tail(<<a, b>>) = <<b>>
    OBVIOUS
  <2>2. QED
    BY <1>1, <2>1, AfterNext
<1>3. QED
  BY <1>1, <1>2

\* The three calls that create, and the three that delete with any calls behind them.
LEMMA AfterThree ==
  ASSUME NEW s, NEW a \in Step, NEW b \in Step, NEW c \in Step
  PROVE  After(s, <<a, b, c>>) = Made(Made(Made(s, a), b), c)
<1>1. <<a, b, c>> \in Seq(Step) /\ <<a, b, c>> # <<>> /\ Len(<<a, b, c>>) <= 6
      /\ Head(<<a, b, c>>) = a /\ Tail(<<a, b, c>>) = <<b, c>>
  OBVIOUS
<1>2. After(s, <<a, b, c>>) = After(Made(s, a), <<b, c>>)
  BY <1>1, AfterNext
<1>3. QED
  BY <1>2, AfterFew

LEMMA Creates ==
  ASSUME NEW mode \in AuthMode
  PROVE  After(NoSite, CreateAll(mode)) = Open(mode)
<1>1. mode \in Step
  BY DEF AuthMode, Step
<1>2. After(NoSite, CreateAll(mode)) = Made(Made(Made(NoSite, "addDep"), "addSvc"), mode)
  <2>1. "addDep" \in Step /\ "addSvc" \in Step
    BY DEF Step
  <2>2. QED
    BY <1>1, <2>1, AfterThree DEF CreateAll
<1>3. Made(NoSite, "addDep") = [dep |-> "up", svc |-> FALSE, ing |-> "none"]
  BY DEF NoSite, Made, AuthMode
<1>4. Made([dep |-> "up", svc |-> FALSE, ing |-> "none"], "addSvc") = Open("none")
  BY DEF Open, Made, AuthMode
<1>5. Made(Open("none"), mode) = Open(mode)
  BY DEF Open, Made, AuthMode
<1>6. QED
  BY <1>2, <1>3, <1>4, <1>5

LEMMA Deletes ==
  ASSUME NEW s \in Site
  PROVE  Made(Made(Made(s, "delDep"), "delSvc"), "delIng") = NoSite
BY DEF Site, Made, AuthMode, NoSite

LEMMA DeletesAll ==
  ASSUME NEW s \in Site
  PROVE  After(s, DeleteAll) = NoSite
<1>1. "delDep" \in Step /\ "delSvc" \in Step /\ "delIng" \in Step
  BY DEF Step
<1>2. QED
  BY <1>1, Deletes, AfterThree DEF DeleteAll

LEMMA Recreates ==
  ASSUME NEW s \in Site, NEW mode \in AuthMode
  PROVE  /\ After(s, DeleteAll \o CreateAll(mode)) = Open(mode)
         /\ Len(DeleteAll \o CreateAll(mode)) = 6
<1> DEFINE t0 == <<"delDep", "delSvc", "delIng", "addDep", "addSvc", mode>>
           t1 == <<"delSvc", "delIng", "addDep", "addSvc", mode>>
           t2 == <<"delIng", "addDep", "addSvc", mode>>
           t3 == <<"addDep", "addSvc", mode>>
<1>1. DeleteAll \o CreateAll(mode) = t0 /\ Len(t0) = 6
  <2> DEFINE d == DeleteAll
             c == CreateAll(mode)
  <2>1. /\ d \in Seq(Step) /\ Len(d) = 3
        /\ d[1] = "delDep" /\ d[2] = "delSvc" /\ d[3] = "delIng"
    BY DEF DeleteAll, Step
  <2>2. /\ c \in Seq(Step) /\ Len(c) = 3
        /\ c[1] = "addDep" /\ c[2] = "addSvc" /\ c[3] = mode
    BY DEF CreateAll, AuthMode, Step
  <2>3. t0 \in Seq(Step) /\ Len(t0) = 6
    BY DEF AuthMode, Step
  <2>4. /\ t0[1] = "delDep" /\ t0[2] = "delSvc" /\ t0[3] = "delIng"
        /\ t0[4] = "addDep" /\ t0[5] = "addSvc" /\ t0[6] = mode
    OBVIOUS
  <2> HIDE DEF d, c, t0
  <2>5. /\ d \o c \in Seq(Step) /\ Len(d \o c) = 6
        /\ \A i \in 1..6 : (d \o c)[i] = IF i <= 3 THEN d[i] ELSE c[i - 3]
    <3>1. /\ d \o c \in Seq(Step) /\ Len(d \o c) = Len(d) + Len(c)
          /\ \A i \in 1..(Len(d) + Len(c)) :
               (d \o c)[i] = IF i <= Len(d) THEN d[i] ELSE c[i - Len(d)]
      BY <2>1, <2>2, ConcatProperties
    <3>2. Len(d) + Len(c) = 6
      BY <2>1, <2>2
    <3>3. QED
      BY <2>1, <3>1, <3>2
  <2>6. \A i \in 1..6 : (d \o c)[i] = t0[i]
    <3> SUFFICES ASSUME NEW i \in 1..6 PROVE (d \o c)[i] = t0[i]
      OBVIOUS
    <3>1. i \in {1, 2, 3} \/ i - 3 \in {1, 2, 3}
      OBVIOUS
    <3>2. QED
      BY <2>1, <2>2, <2>4, <2>5, <3>1
  <2>7. d \o c = t0
    BY <2>3, <2>5, <2>6, SeqEqual
  <2>8. QED
    BY <2>3, <2>7 DEF d, c
<1>2. t0 \in Seq(Step) /\ t0 # <<>> /\ Len(t0) <= 6 /\ Head(t0) = "delDep" /\ Tail(t0) = t1
  BY DEF AuthMode, Step
<1>3. t1 \in Seq(Step) /\ t1 # <<>> /\ Len(t1) <= 6 /\ Head(t1) = "delSvc" /\ Tail(t1) = t2
  BY DEF AuthMode, Step
<1>4. t2 \in Seq(Step) /\ t2 # <<>> /\ Len(t2) <= 6 /\ Head(t2) = "delIng" /\ Tail(t2) = t3
  BY DEF AuthMode, Step
<1>5. t3 = CreateAll(mode)
  BY DEF CreateAll
<1> HIDE DEF t0, t1, t2, t3
<1>6. After(s, t0) = After(Made(s, "delDep"), t1)
  BY <1>2, AfterNext
<1>7. After(Made(s, "delDep"), t1) = After(Made(Made(s, "delDep"), "delSvc"), t2)
  BY <1>3, AfterNext
<1>8. After(Made(Made(s, "delDep"), "delSvc"), t2)
      = After(Made(Made(Made(s, "delDep"), "delSvc"), "delIng"), t3)
  BY <1>4, AfterNext
<1>9. QED
  BY <1>1, <1>2, <1>5, <1>6, <1>7, <1>8, Deletes, Creates

-----------------------------------------------------------------------------
(* A commit that nobody else has come between *)

\* It writes all that it means to write.
LEMMA FlushesAll ==
  ASSUME app \in Row, NEW new \in Row
  PROVE  Flush(app, new) = new
<1>1. DOMAIN app = {"status", "approved", "auth"}
  BY DEF Row
<1>2. Flush(app, new) = [f \in {"status", "approved", "auth"} |-> new[f]]
  BY <1>1 DEF Flush
<1>3. QED
  BY <1>2 DEF Row

\* A deployment of what is not there finds no site; another one deletes it first.
LEMMA DeployAgrees ==
  ASSUME NEW r \in Row, NEW auth \in AuthMode, NEW s \in Site,
         NEW recall \in Recall, NEW stray \in BOOLEAN, Agree(r, recall, stray, s)
  PROVE  LET new == Written("deploy", r, auth) IN
         /\ Agree(new, "no", FALSE, After(s, Calls("deploy", r, new)))
         /\ Len(Calls("deploy", r, new)) <= 6
<1> DEFINE new == Written("deploy", r, auth)
<1>1. CASE r.status \in {"none", "deleted"}
  <2>1. new = Submitted(auth) /\ Calls("deploy", r, new) = CreateAll("system") /\ s = NoSite
    BY <1>1 DEF Written, Calls, Agree
  <2>2. After(s, CreateAll("system")) = Open("system")
    BY <2>1, Creates DEF AuthMode
  <2>3. Len(CreateAll("system")) <= 6
    BY DEF CreateAll
  <2>4. Agree(Submitted(auth), "no", FALSE, Open("system"))
    BY DEF Submitted, Agree, NeverRecalled, Open
  <2>5. QED
    BY <2>1, <2>2, <2>3, <2>4
<1>2. CASE r.status \notin {"none", "deleted"}
  <2> DEFINE mode == IF r.approved THEN auth ELSE "system"
  <2>1. new = Redeployed(r, auth) /\ new.auth = auth
    BY <1>2 DEF Written, Redeployed
  <2>2. Calls("deploy", r, new) = DeleteAll \o CreateAll(mode)
    BY <1>2, <2>1 DEF Calls
  <2>3. mode \in AuthMode
    BY DEF AuthMode
  <2>4. Agree(Redeployed(r, auth), "no", FALSE, Open(mode))
    BY DEF Redeployed, Agree, NeverRecalled, Open, Row
  <2> HIDE DEF mode
  <2>5. After(s, Calls("deploy", r, new)) = Open(mode) /\ Len(Calls("deploy", r, new)) <= 6
    <3>1. /\ After(s, DeleteAll \o CreateAll(mode)) = Open(mode)
          /\ Len(DeleteAll \o CreateAll(mode)) = 6
      BY <2>3, Recreates
    <3>2. Len(DeleteAll \o CreateAll(mode)) <= 6
      BY <3>1
    <3> DEFINE all == DeleteAll \o CreateAll(mode)
               calls == Calls("deploy", r, new)
    <3>3. calls = all
      BY <2>2
    <3>4. After(s, all) = Open(mode) /\ Len(all) <= 6
      BY <3>1, <3>2
    <3> HIDE DEF new, all, calls
    <3>5. After(s, calls) = Open(mode) /\ Len(calls) <= 6
      BY <3>3, <3>4
    <3>6. QED
      BY <3>5 DEF calls
  <2>6. QED
    BY <2>1, <2>4, <2>5
<1>3. QED
  BY <1>1, <1>2

\* What the calls of the other requests make of a site.
LEMMA AfterEach ==
  ASSUME NEW s \in Site
  PROVE  /\ After(s, <<"delIng">>) = [s EXCEPT !.ing = "none"]
         /\ After(s, <<"custom">>) = [s EXCEPT !.ing = IF @ = "none" THEN "custom" ELSE @]
         /\ After(s, <<"delIng", "custom">>) = [s EXCEPT !.ing = "custom"]
         /\ After(s, <<"scale0">>) = [s EXCEPT !.dep = IF @ = "absent" THEN @ ELSE "down"]
         /\ After(s, <<"scale1">>) = [s EXCEPT !.dep = IF @ = "absent" THEN @ ELSE "up"]
         /\ After(s, <<"scale0", "delIng">>)
              = [s EXCEPT !.dep = IF @ = "absent" THEN @ ELSE "down", !.ing = "none"]
<1>1. {"delIng", "custom", "scale0", "scale1"} \subseteq Step
  BY DEF Step
<1>2. /\ After(s, <<"delIng">>) = Made(s, "delIng")
      /\ After(s, <<"custom">>) = Made(s, "custom")
      /\ After(s, <<"delIng", "custom">>) = Made(Made(s, "delIng"), "custom")
      /\ After(s, <<"scale0">>) = Made(s, "scale0")
      /\ After(s, <<"scale1">>) = Made(s, "scale1")
      /\ After(s, <<"scale0", "delIng">>) = Made(Made(s, "scale0"), "delIng")
  BY <1>1, AfterFew
<1>3. /\ Made(s, "delIng") = [s EXCEPT !.ing = "none"]
      /\ Made(s, "custom") = [s EXCEPT !.ing = IF @ = "none" THEN "custom" ELSE @]
      /\ Made(s, "scale0") = [s EXCEPT !.dep = IF @ = "absent" THEN @ ELSE "down"]
      /\ Made(s, "scale1") = [s EXCEPT !.dep = IF @ = "absent" THEN @ ELSE "up"]
  BY DEF Made, AuthMode
<1>4. Made(Made(s, "delIng"), "custom") = [s EXCEPT !.ing = "custom"]
  BY DEF Made, Site, AuthMode
<1>5. Made(Made(s, "scale0"), "delIng")
        = [s EXCEPT !.dep = IF @ = "absent" THEN @ ELSE "down", !.ing = "none"]
  BY DEF Made, Site, AuthMode
<1>6. QED
  BY <1>2, <1>3, <1>4, <1>5

\* No request makes more calls than six.
LEMMA FewWords ==
  \A a, b : Len(<<>>) <= 6 /\ Len(<<a>>) <= 6 /\ Len(<<a, b>>) <= 6
OBVIOUS

\* What a request makes of the history of recalls.
LEMMA LifeGoesOn ==
  ASSUME NEW recall \in Recall, NEW stray \in BOOLEAN, NEW status, NEW op
  PROVE  /\ op \notin {"deploy", "recall", "start"} => RecallAfter(op, recall) = recall
         /\ op = "deploy" => RecallAfter(op, recall) = "no"
         /\ op = "recall" => RecallAfter(op, recall) = "down"
         /\ op = "start" => RecallAfter(op, recall) = IF recall = "no" THEN "no" ELSE "started"
         /\ op \notin {"deploy", "stop", "start", "recall"} =>
              (StrayAfter(op, status, recall, stray) <=> stray)
         /\ op = "deploy" => ~StrayAfter(op, status, recall, stray)
         /\ op \in {"stop", "start", "recall"} /\ ~StrayAfter(op, status, recall, stray) =>
              /\ ~stray /\ status \in {"running", "stopped", "suspended"}
              /\ recall = "no" => status # "suspended"
BY DEF RecallAfter, StrayAfter, Astray, Recall

\* The calls of a request bring the site where the row is.
LEMMA WrittenAgrees ==
  ASSUME NEW op \in AllAppOps, NEW r \in Row, NEW auth \in AuthMode, NEW s \in Site,
         NEW recall \in Recall, NEW stray \in BOOLEAN,
         Accepts(op, r), Agree(r, recall, stray, s)
  PROVE  LET new == Written(op, r, auth) IN
         /\ Agree(new, RecallAfter(op, recall), StrayAfter(op, r.status, recall, stray),
                  After(s, Calls(op, r, new)))
         /\ Len(Calls(op, r, new)) <= 6
<1> DEFINE new == Written(op, r, auth)
           calls == Calls(op, r, new)
           rec == RecallAfter(op, recall)
           str == StrayAfter(op, r.status, recall, stray)
           after == After(s, calls)
<1> SUFFICES Agree(new, rec, str, after) /\ Len(calls) <= 6
  OBVIOUS
<1>0. r.auth \in {"system", "custom"} /\ recall \in {"no", "down", "started"}
  BY DEF Row, AuthMode, Recall
<1>a. /\ op \notin {"deploy", "recall", "start"} => rec = recall
      /\ op = "deploy" => rec = "no"
      /\ op = "recall" => rec = "down"
      /\ op = "start" => rec = IF recall = "no" THEN "no" ELSE "started"
      /\ op \notin {"deploy", "stop", "start", "recall"} => (str <=> stray)
      /\ op = "deploy" => ~str
      /\ op \in {"stop", "start", "recall"} /\ ~str =>
           /\ ~stray /\ r.status \in {"running", "stopped", "suspended"}
           /\ recall = "no" => r.status # "suspended"
  BY LifeGoesOn
<1>1. CASE op = "deploy"
  <2>1. rec = "no" /\ ~str
    BY <1>1, <1>a
  <2>2. Agree(new, "no", FALSE, after) /\ Len(calls) <= 6
    BY <1>1, DeployAgrees
  <2> HIDE DEF new, calls, rec, str, after
  <2>3. QED
    BY <2>1, <2>2 DEF Agree
<1>2. CASE op \in {"undeploy", "reject"}
  <2>1. calls = DeleteAll
    BY <1>2 DEF Calls
  <2>2. after = NoSite /\ Len(calls) <= 6
    <3>1. Len(DeleteAll) <= 6
      BY DEF DeleteAll
    <3> HIDE DEF calls
    <3>2. QED
      BY <2>1, <3>1, DeletesAll
  <2>3. new.status \in {"deleted", "rejected"}
    BY <1>2 DEF Written, OwnerWrites, VerdictWrites, Row
  <2> HIDE DEF new, calls, rec, str, after
  <2>4. QED
    BY <2>2, <2>3 DEF Agree, NeverRecalled, Live, NoSite
<1>3. CASE op = "suspend"
  <2>1. new = [r EXCEPT !.status = "suspended"] /\ r.status = "running"
    BY <1>3 DEF Written, OwnerWrites, Accepts
  <2>2. /\ r.auth = "custom" => calls = <<"delIng">>
        /\ r.auth = "system" => calls = <<>>
    BY <1>3, <2>1 DEF Calls, Row
  <2>3. /\ r.auth = "custom" => after = [s EXCEPT !.ing = "none"]
        /\ r.auth = "system" => after = s
    BY <2>2, AfterEach, AfterNone
  <2>4. Len(calls) <= 6
    BY <1>0, <2>2, FewWords
  <2>5. new.status = "suspended" /\ new.auth = r.auth /\ rec = recall /\ (str <=> stray)
    BY <1>a, <1>3, <2>1 DEF Row
  <2> HIDE DEF calls, new, rec, str, after
  <2>6. QED
    BY <1>0, <2>1, <2>3, <2>4, <2>5 DEF Agree, NeverRecalled, Live, Open, Site
<1>4. CASE op = "resume"
  <2>1. new = [r EXCEPT !.status = "running"] /\ r.status = "suspended"
    BY <1>4 DEF Written, OwnerWrites, Accepts
  <2>2. /\ r.auth = "custom" => calls = <<"custom">>
        /\ r.auth = "system" => calls = <<>>
    BY <1>4, <2>1 DEF Calls, Row
  <2>3. /\ r.auth = "custom" =>
             after = [s EXCEPT !.ing = IF @ = "none" THEN "custom" ELSE @]
        /\ r.auth = "system" => after = s
    BY <2>2, AfterEach, AfterNone
  <2>4. Len(calls) <= 6
    BY <1>0, <2>2, FewWords
  <2>5. new.status = "running" /\ new.auth = r.auth /\ rec = recall /\ (str <=> stray)
    BY <1>a, <1>4, <2>1 DEF Row
  <2> HIDE DEF calls, new, rec, str, after
  <2>6. QED
    BY <1>0, <2>1, <2>3, <2>4, <2>5 DEF Agree, NeverRecalled, Live, Open, Site
<1>5. CASE op = "approve"
  <2>1. new = [r EXCEPT !.status = "running", !.approved = TRUE]
        /\ r.status = "pending_approval"
    BY <1>5 DEF Written, VerdictWrites, Accepts
  <2>2. /\ r.auth = "custom" => calls = <<"delIng", "custom">>
        /\ r.auth = "system" => calls = <<>>
    BY <1>5, <2>1 DEF Calls, Row
  <2>3. /\ r.auth = "custom" => after = [s EXCEPT !.ing = "custom"]
        /\ r.auth = "system" => after = s
    BY <2>2, AfterEach, AfterNone
  <2>4. Len(calls) <= 6
    BY <1>0, <2>2, FewWords
  <2>5. new.status = "running" /\ new.auth = r.auth /\ rec = recall /\ (str <=> stray)
    BY <1>a, <1>5, <2>1 DEF Row
  <2> HIDE DEF calls, new, rec, str, after
  <2>6. QED
    BY <1>0, <2>1, <2>3, <2>4, <2>5 DEF Agree, NeverRecalled, Live, Open, Site
<1>6. CASE op = "stop"
  <2>1. new.status = "stopped" /\ new.auth = r.auth /\ r.status # "none"
    BY <1>6 DEF Written, AdminWrites, Row, Accepts
  <2>2. calls = <<"scale0">> /\ Len(calls) <= 6
    BY <1>6 DEF Calls
  <2>3. after = [s EXCEPT !.dep = IF @ = "absent" THEN @ ELSE "down"]
    BY <2>2, AfterEach
  <2>4. /\ rec = recall
        /\ ~str => /\ ~stray /\ r.status \in {"running", "stopped", "suspended"}
                   /\ recall = "no" => r.status # "suspended"
    BY <1>a, <1>6
  <2> HIDE DEF calls, new, rec, str, after
  <2>5. after.dep # "up" /\ after.ing = s.ing /\ after.svc = s.svc
        /\ (s.dep # "absent" => after.dep = "down")
    BY <2>3 DEF Site
  <2>6. QED
    BY <1>0, <2>1, <2>2, <2>4, <2>5 DEF Agree, NeverRecalled, Live, Open
<1>7. CASE op = "start"
  <2>1. new.status = "running" /\ new.auth = r.auth
    BY <1>7 DEF Written, AdminWrites, Row
  <2>2. calls = <<"scale1">> /\ Len(calls) <= 6
    BY <1>7 DEF Calls
  <2>3. after = [s EXCEPT !.dep = IF @ = "absent" THEN @ ELSE "up"]
    BY <2>2, AfterEach
  <2>4. /\ rec = IF recall = "no" THEN "no" ELSE "started"
        /\ ~str => /\ ~stray /\ r.status \in {"running", "stopped", "suspended"}
                   /\ recall = "no" => r.status # "suspended"
    BY <1>a, <1>7
  <2> HIDE DEF calls, new, rec, str, after
  <2>5. /\ after.ing = s.ing /\ after.svc = s.svc
        /\ s.dep # "absent" => after.dep = "up"
        /\ s.svc /\ s.dep # "absent" => after = Open(s.ing)
    BY <2>3 DEF Site, Open
  <2>6. QED
    BY <1>0, <2>1, <2>2, <2>4, <2>5 DEF Agree, NeverRecalled, Live, Open
<1>8. CASE op = "recall"
  <2>1. new.status = "suspended"
    BY <1>8 DEF Written, AdminWrites, Row
  <2>2. calls = <<"scale0", "delIng">> /\ Len(calls) <= 6
    BY <1>8 DEF Calls
  <2>3. after = [s EXCEPT !.dep = IF @ = "absent" THEN @ ELSE "down", !.ing = "none"]
    BY <2>2, AfterEach
  <2>4. /\ rec = "down"
        /\ ~str => /\ ~stray /\ r.status \in {"running", "stopped", "suspended"}
                   /\ recall = "no" => r.status # "suspended"
    BY <1>a, <1>8
  <2> HIDE DEF calls, new, rec, str, after
  <2>5. /\ after.ing = "none" /\ after.svc = s.svc /\ after.dep # "up"
        /\ s.dep # "absent" => after.dep = "down"
    BY <2>3 DEF Site
  <2>6. QED
    BY <1>0, <2>1, <2>2, <2>4, <2>5 DEF Agree, NeverRecalled, Live, Open
<1>9. CASE op = "reapprove"
  <2>1. new.status = "pending_approval" /\ new.auth = r.auth /\ r.status = "suspended"
    BY <1>9 DEF Written, AdminWrites, Row, Accepts
  <2>2. calls = <<>> /\ Len(calls) <= 6 /\ after = s
    BY <1>9, AfterNone DEF Calls
  <2>3. rec = recall /\ (str <=> stray)
    BY <1>a, <1>9
  <2> HIDE DEF calls, new, rec, str, after
  <2>4. QED
    BY <1>0, <2>1, <2>2, <2>3 DEF Agree, NeverRecalled, Live, Open
<1>10. QED
  BY <1>1, <1>2, <1>3, <1>4, <1>5, <1>6, <1>7, <1>8, <1>9 DEF AllAppOps

\* What it writes is on record if what it read was.
LEMMA WrittenOnRecord ==
  ASSUME NEW op \in AllAppOps, NEW r \in Row, NEW auth \in AuthMode,
         NEW recall \in Recall, NEW stray \in BOOLEAN, Accepts(op, r), Recorded(r, stray)
  PROVE  Recorded(Written(op, r, auth), StrayAfter(op, r.status, recall, stray))
<1>1. CASE op = "deploy"
  BY <1>1 DEF Written, Submitted, Redeployed, Recorded, Row
<1>2. CASE op \in {"undeploy", "suspend", "resume"}
  BY <1>2 DEF Written, OwnerWrites, Recorded, StrayAfter, Astray, Accepts, Row
<1>3. CASE op \in {"approve", "reject"}
  BY <1>3 DEF Written, VerdictWrites, Recorded, StrayAfter, Astray, Row
<1>4. CASE op \in {"stop", "start", "recall", "reapprove"}
  BY <1>4 DEF Written, AdminWrites, Recorded, StrayAfter, Astray, Accepts, Row
<1>5. QED
  BY <1>1, <1>2, <1>3, <1>4 DEF AllAppOps

-----------------------------------------------------------------------------
(* The steps, while requests come one at a time *)

\* A handler that proceeds has left what it was left.
LEMMA Proceeds ==
  ASSUME NEW w \in Work, NEW rest
  PROVE  (IF rest = <<>> THEN AppIdle ELSE [w EXCEPT !.todo = rest]).todo = rest
<1>1. [w EXCEPT !.todo = rest].todo = rest
  BY DEF Work
<1>2. AppIdle.todo = <<>>
  BY DEF AppIdle
<1>3. QED
  BY <1>1, <1>2

\* No call is a commit.
LEMMA NoCommit ==
  ASSUME NEW t \in Seq(Step)
  PROVE  t # <<"commit">>
<1> SUFFICES ASSUME t = <<"commit">> PROVE FALSE
  OBVIOUS
<1>1. Len(t) = 1 /\ t[1] = "commit"
  OBVIOUS
<1>2. t[1] \in Step
  BY <1>1
<1>3. QED
  BY <1>1, <1>2 DEF Step

\* The one handler at work moves on to w.
LEMMA SerialMoves ==
  ASSUME AppInv, AppInv', NEW h \in AppHandler, NEW w \in Work,
         work' = [work EXCEPT ![h] = w], \A g \in AppHandler : g # h => work[g].op = "idle",
         w.todo = <<"commit">> => w.seen = app' /\ Accepts(w.op, app'),
         appLog'.faults = 0 => Len(w.todo) <= 6, OnRecord',
         appLog'.faults = 0 => Agree(app', appLog'.recall, appLog'.stray, After(site', Left(w)))
  PROVE  InSeries'
<1>1. work \in [AppHandler -> Work]
  BY AppTypes
<1>2. \A g \in AppHandler : work'[g] = IF g = h THEN w ELSE work[g]
  BY <1>1
<1>3. \A g \in AppHandler : g # h => work'[g].op = "idle" /\ work'[g].todo = <<>>
  BY <1>2 DEF AppInv, PlansOK, Plan
<1>4. OneAtATime'
  BY <1>3 DEF OneAtATime
<1>5. <<>> # <<"commit">>
  OBVIOUS
<1>6. ReadsAreFresh'
  <2> SUFFICES ASSUME NEW g \in AppHandler, work'[g].todo = <<"commit">>
               PROVE  work'[g].seen = app' /\ Accepts(work'[g].op, app')
    BY DEF ReadsAreFresh
  <2>1. g = h /\ work'[g] = w
    BY <1>2, <1>3, <1>5
  <2>2. QED
    BY <2>1
<1>7. FewCalls'
  BY <1>2, <1>3, FewWords DEF FewCalls
<1>8. SiteAgrees'
  <2> SUFFICES ASSUME appLog'.faults = 0
               PROVE  /\ AppQuiet' => Agree(app', appLog'.recall, appLog'.stray, site')
                      /\ \A g \in AppHandler : work'[g].op # "idle" =>
                           Agree(app', appLog'.recall, appLog'.stray, After(site', Left(work'[g])))
    BY DEF SiteAgrees
  <2>1. ASSUME AppQuiet' PROVE Agree(app', appLog'.recall, appLog'.stray, site')
    <3>1. work'[h].op = "idle" /\ work'[h] = w
      BY <1>2, <2>1 DEF AppQuiet
    <3>2. w.todo = <<>>
      BY <3>1 DEF AppInv, PlansOK, Plan
    <3>3. Left(w) = <<>>
      BY <1>5, <3>2 DEF Left
    <3>4. After(site', Left(w)) = site'
      BY <3>3, AfterNone
    <3>5. QED
      BY <3>4
  <2>2. ASSUME NEW g \in AppHandler, work'[g].op # "idle"
        PROVE  Agree(app', appLog'.recall, appLog'.stray, After(site', Left(work'[g])))
    <3>1. work'[g] = w
      BY <1>2, <1>3, <2>2
    <3>2. QED
      BY <3>1
  <2>3. QED
    BY <2>1, <2>2
<1>9. QED
  BY <1>4, <1>6, <1>7, <1>8 DEF InSeries

\* A request that begins finds nobody at work.
LEMMA BeginsAlone ==
  ASSUME SerialInv, AppInv', NEW h \in AppHandler, NEW op \in AppOps, NEW auth \in AuthMode,
         BeginAppOp(h, op, auth), ~appLog'.overlapped
  PROVE  InSeries'
<1> DEFINE w == [op |-> op, auth |-> auth, seen |-> app, todo |-> <<"commit">>]
<1>1. work' = [work EXCEPT ![h] = w] /\ UNCHANGED <<app, site>> /\ Accepts(op, app)
  BY DEF BeginAppOp
<1>2. /\ AppQuiet /\ ~appLog.overlapped
      /\ appLog'.faults = appLog.faults /\ UNCHANGED <<appLog.recall, appLog.stray>>
  <2> DEFINE b == appLog.overlapped \/ ~AppQuiet
  <2>1. appLog' = [appLog EXCEPT !.requests = @ + 1, !.overlapped = b]
    BY DEF BeginAppOp
  <2>2. appLog \in Log
    BY AppTypes DEF SerialInv
  <2> HIDE DEF b
  <2>3. /\ ~b /\ appLog'.faults = appLog.faults
        /\ UNCHANGED <<appLog.recall, appLog.stray>>
    BY <2>1, <2>2 DEF Log
  <2>4. QED
    BY <2>3 DEF b
<1>3. InSeries /\ AppInv
  BY <1>2 DEF SerialInv
<1>4. w \in Work /\ w.seen = app /\ w.op = op /\ w.todo = <<"commit">>
  BY <1>3, AppTypes, AppAssumption DEF Work
<1>5. Len(w.todo) <= 6 /\ Left(w) = <<>>
  BY <1>4 DEF Left
<1>6. \A g \in AppHandler : work[g].op = "idle"
  BY <1>2 DEF AppQuiet
<1>7. OnRecord'
  BY <1>1, <1>2, <1>3 DEF InSeries, OnRecord, Recorded
<1> HIDE DEF w
<1>8. After(site', Left(w)) = site
  BY <1>1, <1>5, AfterNone
<1>9. appLog'.faults = 0 => Agree(app', appLog'.recall, appLog'.stray, After(site', Left(w)))
  BY <1>1, <1>2, <1>3, <1>8 DEF InSeries, SiteAgrees
<1>10. QED
  BY <1>1, <1>3, <1>4, <1>5, <1>6, <1>7, <1>9, SerialMoves

\* Whoever is at work is alone.
LEMMA WorksAlone ==
  ASSUME InSeries, NEW h \in AppHandler, work[h].op # "idle"
  PROVE  \A g \in AppHandler : g # h => work[g].op = "idle"
BY DEF InSeries, OneAtATime

\* A commit finds the row as it was read, and the calls it leaves catch up with it.
LEMMA CommitsAlone ==
  ASSUME SerialInv, AppInv', NEW h \in AppHandler, CommitAppOp(h), ~appLog'.overlapped
  PROVE  InSeries'
<1> DEFINE op == work[h].op
           auth == work[h].auth
           new == Written(op, app, auth)
           calls == Calls(op, app, new)
           next == IF calls = <<>> THEN AppIdle ELSE [work[h] EXCEPT !.todo = calls]
<1>1. /\ appLog \in Log /\ ~appLog.overlapped /\ appLog'.faults = appLog.faults
      /\ appLog'.recall = RecallAfter(op, appLog.recall)
      /\ appLog'.stray = StrayAfter(op, work[h].seen.status, appLog.recall, appLog.stray)
  <2> DEFINE b == appLog.cleared \/ op \in {"approve", "start", "recall"}
             c == RecallAfter(op, appLog.recall)
             d == StrayAfter(op, work[h].seen.status, appLog.recall, appLog.stray)
  <2>1. appLog \in Log
    BY AppTypes DEF SerialInv
  <2>2. appLog' = [appLog EXCEPT !.cleared = b, !.recall = c, !.stray = d]
    BY <2>1 DEF CommitAppOp, StrayAfter, Log
  <2> HIDE DEF b, c, d
  <2>3. appLog'.faults = appLog.faults /\ appLog'.recall = c /\ appLog'.stray = d
        /\ appLog'.overlapped = appLog.overlapped
    BY <2>1, <2>2 DEF Log
  <2>4. QED
    BY <2>1, <2>3 DEF c, d
<1>2. InSeries /\ AppInv
  BY <1>1 DEF SerialInv
<1>3. app \in Row /\ site \in Site /\ work[h] \in Work /\ work[h].todo = <<"commit">>
  BY <1>2, AppTypes DEF CommitAppOp
<1>4. op # "idle" /\ op \in AllAppOps /\ auth \in AuthMode
  <2>1. op # "idle"
    <3>1. <<>> # <<"commit">>
      OBVIOUS
    <3>2. Plan(work[h], Step)
      BY <1>2 DEF AppInv, PlansOK
    <3>3. QED
      BY <1>3, <3>1, <3>2 DEF Plan
  <2>2. QED
    BY <1>3, <2>1 DEF Work
<1>5. work[h].seen = app /\ Accepts(op, app)
  BY <1>2, <1>3 DEF InSeries, ReadsAreFresh
<1>6. new \in Row
  BY <1>3, <1>4, WrittenIsRow
<1>7. app' = new /\ work' = [work EXCEPT ![h] = next] /\ site' = site
  <2>1. app' = Flush(app, new)
    BY <1>5 DEF CommitAppOp
  <2>2. app' = new
    BY <1>3, <1>6, <2>1, FlushesAll
  <2>3. Proceed(h, Calls(op, app, app'))
    BY <1>5 DEF CommitAppOp
  <2>4. QED
    BY <2>2, <2>3 DEF Proceed, CommitAppOp
<1>8. calls \in Seq(Step)
  BY <1>3, <1>4, <1>6, CallsAreSteps
<1>9. next \in Work /\ next.todo = calls
  <2>1. next \in Work
    BY <1>2, <1>4, <1>8, Proceeding
  <2>2. QED
    BY <1>3, <2>1, Proceeds
<1>10. Left(next) = calls
  <2>1. calls # <<"commit">>
    BY <1>8, NoCommit
  <2> HIDE DEF calls, next
  <2>2. QED
    BY <1>9, <2>1 DEF Left
<1>11. OnRecord'
  <2>1. Recorded(new, StrayAfter(op, app.status, appLog.recall, appLog.stray))
    BY <1>1, <1>2, <1>3, <1>4, <1>5, WrittenOnRecord DEF InSeries, OnRecord, Log
  <2> HIDE DEF new
  <2>2. QED
    BY <1>1, <1>5, <1>7, <2>1 DEF OnRecord, Recorded
<1>12. ASSUME appLog'.faults = 0
       PROVE  /\ Len(calls) <= 6
              /\ Agree(new, RecallAfter(op, appLog.recall),
                       StrayAfter(op, app.status, appLog.recall, appLog.stray),
                       After(site, calls))
  <2>1. Agree(app, appLog.recall, appLog.stray, After(site, Left(work[h])))
    BY <1>1, <1>2, <1>4, <1>12 DEF InSeries, SiteAgrees
  <2>2. Left(work[h]) = <<>>
    BY <1>3 DEF Left
  <2>3. Agree(app, appLog.recall, appLog.stray, site)
    BY <2>1, <2>2, AfterNone
  <2>4. appLog.recall \in Recall /\ appLog.stray \in BOOLEAN
    BY <1>1 DEF Log
  <2>5. QED
    BY <1>3, <1>4, <1>5, <2>3, <2>4, WrittenAgrees
<1> HIDE DEF new, calls, next
<1>13. appLog'.faults = 0 =>
         Len(next.todo) <= 6 /\ Agree(app', appLog'.recall, appLog'.stray, After(site', Left(next)))
  BY <1>1, <1>5, <1>7, <1>9, <1>10, <1>12
<1>14. next.todo # <<"commit">>
  <2>1. calls # <<"commit">>
    BY <1>8, NoCommit
  <2>2. QED
    BY <1>9, <2>1
<1>15. QED
  BY <1>2, <1>4, <1>7, <1>9, <1>11, <1>13, <1>14, WorksAlone, SerialMoves

\* A call leaves as much to make as it makes.
LEMMA CallsCatchUp ==
  ASSUME SerialInv, AppInv', NEW h \in AppHandler, CallSucceeds(h), ~appLog'.overlapped
  PROVE  InSeries'
<1> DEFINE todo == work[h].todo
           next == IF Tail(todo) = <<>> THEN AppIdle ELSE [work[h] EXCEPT !.todo = Tail(todo)]
<1>1. /\ Calling(h) /\ UNCHANGED <<app, appLog>> /\ site' = Effect(Head(todo))
      /\ work' = [work EXCEPT ![h] = next]
  BY DEF CallSucceeds, Proceed
<1>2. InSeries /\ AppInv
  BY <1>1 DEF SerialInv
<1>3. work[h].op # "idle" /\ Head(todo) \in Step /\ Tail(todo) \in Seq(Step)
      /\ todo \in Seq(Step) /\ todo # <<>> /\ todo # <<"commit">> /\ work[h] \in Work
  BY <1>1, <1>2, NextCall, AppTypes DEF Calling, AppInv, PlansOK, Plan
<1>4. next \in Work /\ next.todo = Tail(todo)
  <2>1. next \in Work
    BY <1>2, <1>3, Proceeding
  <2>2. QED
    BY <1>3, <2>1, Proceeds
<1>5. next.todo # <<"commit">> /\ Left(next) = Tail(todo) /\ Left(work[h]) = todo
  <2>1. Tail(todo) # <<"commit">>
    BY <1>3, NoCommit
  <2> HIDE DEF next
  <2>2. QED
    BY <1>3, <1>4, <2>1 DEF Left
<1>6. site' = Made(site, Head(todo))
  BY <1>1, <1>3, EffectIsMade
<1>7. ASSUME appLog'.faults = 0
      PROVE  /\ Len(Tail(todo)) <= 6
             /\ Agree(app, appLog.recall, appLog.stray, After(site', Tail(todo)))
  <2>1. Len(todo) <= 6 /\ Agree(app, appLog.recall, appLog.stray, After(site, todo))
    BY <1>1, <1>2, <1>3, <1>5, <1>7 DEF InSeries, FewCalls, SiteAgrees
  <2>2. Len(Tail(todo)) = Len(todo) - 1 /\ Len(todo) \in Nat
    BY <1>3, HeadTailProperties
  <2>3. After(site, todo) = After(site', Tail(todo))
    BY <1>3, <1>6, <2>1, AfterNext
  <2>4. QED
    BY <2>1, <2>2, <2>3
<1>8. OnRecord'
  BY <1>1, <1>2 DEF InSeries, OnRecord, Recorded
<1> HIDE DEF todo, next
<1>9. appLog'.faults = 0 =>
        Len(next.todo) <= 6 /\ Agree(app', appLog'.recall, appLog'.stray, After(site', Left(next)))
  BY <1>1, <1>4, <1>5, <1>7
<1>10. QED
  BY <1>1, <1>2, <1>3, <1>4, <1>5, <1>8, <1>9, WorksAlone, SerialMoves

\* A fault ends what is asked of the site; the row keeps its approvals.
LEMMA FaultsAlone ==
  ASSUME SerialInv, AppInv', NEW h \in AppHandler,
         CallRefused(h) \/ CallLost(h) \/ AppHandlerDies(h), ~appLog'.overlapped
  PROVE  InSeries'
<1>1. /\ work[h].op # "idle" /\ AppFault
      /\ \/ FallBack(h)
         \/ Calling(h) /\ Proceed(h, Tail(work[h].todo)) /\ UNCHANGED app
         \/ work' = [work EXCEPT ![h] = AppIdle] /\ UNCHANGED app
  BY DEF CallRefused, CallLost, AppHandlerDies, Calling
<1>2. /\ UNCHANGED <<appLog.recall, appLog.stray>> /\ appLog'.overlapped = appLog.overlapped
      /\ appLog'.faults # 0
  <2>1. appLog \in Log
    BY AppTypes DEF SerialInv
  <2>2. QED
    BY <1>1, <2>1 DEF AppFault, Log
<1>3. InSeries /\ AppInv
  BY <1>2 DEF SerialInv
<1>4. app \in Row /\ work[h] \in Work
  BY <1>3, AppTypes
<1>5. PICK w \in Work : work' = [work EXCEPT ![h] = w] /\ w.todo # <<"commit">>
  <2>1. AppIdle \in Work /\ AppIdle.todo # <<"commit">>
    BY IdleIsHarmless DEF AppIdle
  <2>2. CASE FallBack(h) \/ work' = [work EXCEPT ![h] = AppIdle]
    BY <2>1, <2>2 DEF FallBack
  <2>3. CASE Calling(h) /\ Proceed(h, Tail(work[h].todo))
    <3> DEFINE rest == Tail(work[h].todo)
               next == IF rest = <<>> THEN AppIdle ELSE [work[h] EXCEPT !.todo = rest]
    <3>1. rest \in Seq(Step)
      BY <1>3, <2>3, NextCall
    <3>2. next \in Work /\ next.todo = rest
      <4>1. next \in Work
        BY <1>1, <1>3, <3>1, Proceeding
      <4>2. QED
        BY <1>4, <4>1, Proceeds
    <3>3. rest # <<"commit">>
      BY <3>1, NoCommit
    <3>4. work' = [work EXCEPT ![h] = next]
      BY <2>3 DEF Proceed
    <3> HIDE DEF next
    <3>5. QED
      BY <3>2, <3>3, <3>4
  <2>4. QED
    BY <1>1, <2>2, <2>3
<1>6. OnRecord'
  <2>1. \/ app' = [app EXCEPT !.status = "inactive"]
        \/ app' = [app EXCEPT !.status = "pending_approval", !.approved = FALSE]
        \/ app' = app
    BY <1>1 DEF FallBack
  <2>2. QED
    BY <1>2, <1>3, <1>4, <2>1 DEF InSeries, OnRecord, Recorded, Row
<1>7. QED
  BY <1>1, <1>2, <1>3, <1>5, <1>6, WorksAlone, SerialMoves

-----------------------------------------------------------------------------

\* Every step keeps the agreement.
LEMMA SerialStep ==
  ASSUME SerialInv, [AppNext]_appVars
  PROVE  SerialInv'
<1>1. AppInv'
  BY AppStep DEF SerialInv
<1>2. CASE UNCHANGED appVars
  BY <1>1, <1>2
     DEF appVars, SerialInv, InSeries, OneAtATime, ReadsAreFresh, FewCalls, OnRecord, SiteAgrees,
         AppQuiet
<1>3. ASSUME AppNext, ~appLog'.overlapped PROVE InSeries'
  <2>1. PICK h \in AppHandler :
          \/ \E op \in AppOps, auth \in AuthMode : BeginAppOp(h, op, auth)
          \/ CommitAppOp(h)
          \/ CallSucceeds(h) \/ CallRefused(h) \/ CallLost(h)
          \/ AppHandlerDies(h)
    BY <1>3 DEF AppNext
  <2>2. QED
    BY <1>1, <1>3, <2>1, BeginsAlone, CommitsAlone, CallsCatchUp, FaultsAlone
<1>4. QED
  BY <1>1, <1>2, <1>3 DEF SerialInv

\* At first there is neither a row nor a site.
LEMMA SerialInit == AppInit => SerialInv
<1> SUFFICES ASSUME AppInit PROVE SerialInv
  OBVIOUS
<1>1. \A h \in AppHandler : work[h] = AppIdle /\ AppIdle.op = "idle" /\ AppIdle.todo = <<>>
  BY DEF AppInit, AppIdle
<1>2. <<>> # <<"commit">> /\ Len(<<>>) <= 6
  OBVIOUS
<1>3. OneAtATime /\ ReadsAreFresh /\ FewCalls
  BY <1>1, <1>2 DEF OneAtATime, ReadsAreFresh, FewCalls
<1>4. OnRecord
  BY DEF AppInit, NoRow, OnRecord, Recorded
<1>5. Agree(app, appLog.recall, appLog.stray, site)
  BY DEF AppInit, NoRow, Agree, NeverRecalled, Live, NoSite
<1>6. SiteAgrees
  BY <1>1, <1>5 DEF SiteAgrees
<1>7. QED
  BY <1>3, <1>4, <1>6, AppInitOK DEF SerialInv, InSeries

\* While requests come one at a time the row, the approvals on record, the Deployment, the
\* Service and the Ingress agree, however long the life of the app: it runs with an approval,
\* serves while it runs and was not recalled, and is shut off when it does not run; what an
\* admin recalled has no pod before an admin starts it; and the approvals agree even when
\* calls fail and replicas die.
THEOREM SiteIsInStep == AppSpec => []SiteFollowsRow
<1>1. SerialInv => SiteFollowsRow
  <2> SUFFICES ASSUME SerialInv
               PROVE  RunsApproved /\ DoorShut /\ RunningServes /\ RecalledStaysDown
    BY DEF SiteFollowsRow
  <2>1. RunsApproved
    BY DEF SerialInv, InSeries, OnRecord, Recorded, RunsApproved
  <2>2. ASSUME Undisturbed PROVE Agree(app, appLog.recall, appLog.stray, site)
    BY <2>2 DEF Undisturbed, SerialInv, InSeries, SiteAgrees
  <2>3. DoorShut
    BY <2>2 DEF DoorShut, Agree
  <2>4. RunningServes
    <3>1. appLog.recall \in {"no", "down", "started"}
      BY AppTypes DEF SerialInv, Log, Recall
    <3>2. QED
      BY <2>2, <3>1 DEF RunningServes, Agree, NeverRecalled, Live, Open
  <2>5. RecalledStaysDown
    BY <2>2 DEF RecalledStaysDown, Agree
  <2>6. QED
    BY <2>1, <2>3, <2>4, <2>5
<1>2. AppSpec => []SerialInv
  BY SerialStep, SerialInit, PTL DEF AppSpec
<1>3. QED
  BY <1>1, <1>2, PTL

=============================================================================
