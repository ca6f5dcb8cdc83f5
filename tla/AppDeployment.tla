--------------------------- MODULE AppDeployment ---------------------------
(***************************************************************************)
(* One web application of one owner: its row in deployed_apps and its      *)
(* Deployment, Service and Ingress in the namespace claude-apps.           *)
(* (routers/apps.py, the app endpoints of routers/admin.py and             *)
(* services/app_deploy_service.py of the auth-gateway.)                    *)
(*                                                                         *)
(* A handler reads the row, commits its changes of it, and then makes its  *)
(* Kubernetes calls one by one.  Handlers of the two replicas interleave   *)
(* between these steps.  Requests that are refused (permissions, names,    *)
(* ports, missing attestation) change nothing and are left out.            *)
(***************************************************************************)
EXTENDS Naturals, Sequences

CONSTANTS
  AppHandler,   \* requests that can be under way at a time, one per replica
  AppOps,       \* the operations that are requested
  MaxAppFaults, \* bound: failed Kubernetes calls and dying replicas
  MaxRequests   \* bound: requests

AllAppOps == {"deploy", "undeploy", "suspend", "resume",
              "approve", "reject", "stop", "start", "reapprove", "recall"}

ASSUME AppAssumption ==
  /\ AppOps \subseteq AllAppOps
  /\ MaxAppFaults \in Nat /\ MaxRequests \in Nat

VARIABLES
  app,     \* the row
  site,    \* what Kubernetes has
  work,    \* the handlers
  appLog   \* history: requests and faults so far; whether two handlers overlapped; whether an
           \* admin has ever approved, started or recalled the app ("cleared"); since its last
           \* deployment, what its last recall came to ("recall"), and whether an admin stopped,
           \* started or recalled it while it neither ran nor was stopped ("stray")

appVars == <<app, site, work, appLog>>

AppStatus == {"none", "pending_approval", "running", "suspended", "rejected",
              "inactive", "stopped", "deleted"}
AuthMode == {"system", "custom"}
Recall == {"no", "down", "started"}
Row == [status : AppStatus, approved : BOOLEAN, auth : AuthMode]

\* dep: the Deployment has no replica when "down".
\* ing: who guards the Ingress, the gateway's auth-check or the app itself.
Site == [dep : {"absent", "down", "up"}, svc : BOOLEAN, ing : AuthMode \cup {"none"}]

NoRow == [status |-> "none", approved |-> FALSE, auth |-> "system"]
AppIdle == [op |-> "idle", auth |-> "system", seen |-> NoRow, todo |-> <<>>]
AppQuiet == \A h \in AppHandler : work[h].op = "idle"

AppInit ==
  /\ app = NoRow
  /\ site = [dep |-> "absent", svc |-> FALSE, ing |-> "none"]
  /\ work = [h \in AppHandler |-> AppIdle]
  /\ appLog = [requests |-> 0, faults |-> 0,
               overlapped |-> FALSE, cleared |-> FALSE, recall |-> "no", stray |-> FALSE]

-----------------------------------------------------------------------------
(* What an operation requires of the row, what it writes, what it calls *)

\* The admin's stop, start and recall look at no approval and find deleted rows too.
Accepts(op, r) ==
  CASE op = "deploy" -> TRUE
    [] op = "undeploy" -> r.status \notin {"none", "deleted"}
    [] op = "suspend" -> r.status = "running"
    [] op \in {"resume", "reapprove"} -> r.status = "suspended"
    [] op \in {"approve", "reject"} -> r.status = "pending_approval"
    [] op \in {"stop", "start"} -> r.status # "none"
    [] op = "recall" -> r.status \notin {"none", "suspended"}

\* Mutant of Redeployed: a known app runs, approved or not.
RedeployedAtOnce(r, auth) == [status |-> "running", approved |-> r.approved, auth |-> auth]

\* A known app is deployed again; it stays approved.
Redeployed(r, auth) ==
  [status |-> IF r.approved THEN "running" ELSE "pending_approval",
   approved |-> r.approved, auth |-> auth]

\* Mutant of Submitted: the status is one that nobody knows.
SubmittedUnknown(auth) == [status |-> "pending", approved |-> FALSE, auth |-> auth]

\* A new or a deleted app waits for its approval.
Submitted(auth) == [status |-> "pending_approval", approved |-> FALSE, auth |-> auth]

\* What the owner's requests write, ...
OwnerWrites(op, r) ==
  [r EXCEPT !.status = CASE op = "undeploy" -> "deleted"
                         [] op = "suspend" -> "suspended"
                         [] op = "resume" -> "running"]

\* ... the admin's verdicts on an app that waits ...
VerdictWrites(op, r) ==
  IF op = "approve" THEN [r EXCEPT !.status = "running", !.approved = TRUE]
                    ELSE [r EXCEPT !.status = "rejected"]

\* ... and the admin's other requests.
AdminWrites(op, r) ==
  CASE op = "stop" -> [r EXCEPT !.status = "stopped"]
    [] op = "start" -> [r EXCEPT !.status = "running"]
    [] op = "recall" -> [r EXCEPT !.status = "suspended"]
    [] op = "reapprove" -> [r EXCEPT !.status = "pending_approval", !.approved = FALSE]

Written(op, r, auth) ==
  CASE op = "deploy" /\ r.status \in {"none", "deleted"} -> Submitted(auth)
    [] op = "deploy" /\ r.status \notin {"none", "deleted"} -> Redeployed(r, auth)
    [] op \in {"undeploy", "suspend", "resume"} -> OwnerWrites(op, r)
    [] op \in {"approve", "reject"} -> VerdictWrites(op, r)
    [] OTHER -> AdminWrites(op, r)

\* The ORM updates the columns that differ from what the handler had read.
Flush(seen, new) == [f \in DOMAIN app |-> IF new[f] = seen[f] THEN app[f] ELSE new[f]]

\* Mutant of DeleteAll: the Ingress stays.
DeleteAllButIngress == <<"delDep", "delSvc">>

DeleteAll == <<"delDep", "delSvc", "delIng">>

\* The Ingress of an app that waits for approval asks the gateway, whatever the row says.
CreateAll(mode) == <<"addDep", "addSvc", mode>>

\* r is the row after the commit.
Calls(op, seen, r) ==
  CASE op = "deploy" /\ seen.status \in {"none", "deleted"} -> CreateAll("system")
    [] op = "deploy" /\ seen.status \notin {"none", "deleted"} ->
         DeleteAll \o CreateAll(IF seen.approved THEN r.auth ELSE "system")
    [] op \in {"undeploy", "reject"} -> DeleteAll
    [] op = "suspend" -> IF r.auth = "custom" THEN <<"delIng">> ELSE <<>>
    [] op = "resume" -> IF r.auth = "custom" THEN <<"custom">> ELSE <<>>
    [] op = "approve" -> IF r.auth = "custom" THEN <<"delIng", "custom">> ELSE <<>>
    [] op = "stop" -> <<"scale0">>
    [] op = "start" -> <<"scale1">>
    [] op = "recall" -> <<"scale0", "delIng">>
    [] op = "reapprove" -> <<>>

-----------------------------------------------------------------------------
(* Handlers *)

\* A request is accepted on what the handler reads of the row.
BeginAppOp(h, op, auth) ==
  /\ work[h].op = "idle"
  /\ op \in AppOps /\ Accepts(op, app)
  /\ op # "deploy" => auth = "system"
  /\ appLog.requests < MaxRequests
  /\ work' = [work EXCEPT ![h] = [op |-> op, auth |-> auth, seen |-> app, todo |-> <<"commit">>]]
  /\ appLog' = [appLog EXCEPT !.requests = @ + 1, !.overlapped = @ \/ ~AppQuiet]
  /\ UNCHANGED <<app, site>>

\* The handler goes on with its calls, or answers.
Proceed(h, rest) ==
  work' = [work EXCEPT ![h] = IF rest = <<>> THEN AppIdle ELSE [@ EXCEPT !.todo = rest]]

\* A recalled app is down until an admin starts it, or its owner deploys it anew.
RecallAfter(op, recall) ==
  CASE op = "deploy" -> "no"
    [] op = "recall" -> "down"
    [] op = "start" /\ recall # "no" -> "started"
    [] OTHER -> recall

\* The admin's stop, start and recall are meant for an app that runs or was stopped, and for
\* one that was recalled; they accept others.
Astray(op, status, recall) ==
  /\ op \in {"stop", "start", "recall"}
  /\ status \notin {"running", "stopped"}
  /\ status = "suspended" => recall = "no"

\* A second insert of the same app breaks the uniqueness of its pod name.
CommitAppOp(h) ==
  LET w == work[h]
      clash == w.op = "deploy" /\ w.seen.status = "none" /\ app.status # "none"
  IN
  /\ w.todo = <<"commit">>
  /\ app' = IF clash THEN app ELSE Flush(w.seen, Written(w.op, w.seen, w.auth))
  /\ Proceed(h, IF clash THEN <<>> ELSE Calls(w.op, w.seen, app'))
  /\ appLog' = [appLog EXCEPT
       !.cleared = @ \/ w.op \in {"approve", "start", "recall"},
       !.recall = RecallAfter(w.op, @),
       !.stray = (@ /\ w.op # "deploy") \/ Astray(w.op, w.seen.status, appLog.recall)]
  /\ UNCHANGED site

\* What a call does: a missing object is deleted with success, an existing one is kept.
Effect(step) ==
  CASE step = "delDep" -> [site EXCEPT !.dep = "absent"]
    [] step = "delSvc" -> [site EXCEPT !.svc = FALSE]
    [] step = "delIng" -> [site EXCEPT !.ing = "none"]
    [] step = "addDep" -> [site EXCEPT !.dep = IF @ = "absent" THEN "up" ELSE @]
    [] step = "addSvc" -> [site EXCEPT !.svc = TRUE]
    [] step \in AuthMode -> [site EXCEPT !.ing = IF @ = "none" THEN step ELSE @]
    [] step = "scale0" -> [site EXCEPT !.dep = IF @ = "absent" THEN @ ELSE "down"]
    [] step = "scale1" -> [site EXCEPT !.dep = IF @ = "absent" THEN @ ELSE "up"]

Calling(h) == work[h].op # "idle" /\ work[h].todo # <<"commit">>

CallSucceeds(h) ==
  /\ Calling(h)
  /\ site' = Effect(Head(work[h].todo))
  /\ Proceed(h, Tail(work[h].todo))
  /\ UNCHANGED <<app, appLog>>

AppFault ==
  /\ appLog.faults < MaxAppFaults
  /\ appLog' = [appLog EXCEPT !.faults = @ + 1]

\* An exception ends the calls.  A deployment becomes "inactive", an approval is taken back,
\* the other operations leave the row as they committed it.
FallBack(h) ==
  /\ app' = CASE work[h].op = "deploy" -> [app EXCEPT !.status = "inactive"]
             [] work[h].op = "approve" ->
                  [app EXCEPT !.status = "pending_approval", !.approved = FALSE]
             [] OTHER -> app
  /\ work' = [work EXCEPT ![h] = AppIdle]

\* Kubernetes refuses.  Only the calls on the Deployment raise; the others are logged.
CallRefused(h) ==
  /\ Calling(h) /\ AppFault
  /\ IF Head(work[h].todo) \in {"delDep", "addDep"}
       THEN FallBack(h)
       ELSE Proceed(h, Tail(work[h].todo)) /\ UNCHANGED app
  /\ UNCHANGED site

\* No answer comes, whether or not the call was carried out.  That is no ApiException, and
\* none of the calls catches it.
CallLost(h) ==
  /\ Calling(h) /\ AppFault
  /\ site' \in {site, Effect(Head(work[h].todo))}
  /\ FallBack(h)

AppHandlerDies(h) ==
  /\ work[h].op # "idle" /\ AppFault
  /\ work' = [work EXCEPT ![h] = AppIdle]
  /\ UNCHANGED <<app, site>>

AppNext ==
  \E h \in AppHandler :
    \/ \E op \in AppOps, auth \in AuthMode : BeginAppOp(h, op, auth)
    \/ CommitAppOp(h)
    \/ CallSucceeds(h) \/ CallRefused(h) \/ CallLost(h)
    \/ AppHandlerDies(h)

AppSpec == AppInit /\ [][AppNext]_appVars

-----------------------------------------------------------------------------
(* Properties *)

\* The type invariant.
AppTypeOK ==
  /\ app \in Row
  /\ site \in Site
  /\ work \in [AppHandler ->
       [op : AllAppOps \cup {"idle"}, auth : AuthMode, seen : Row,
        todo : Seq({"commit", "delDep", "delSvc", "delIng", "addDep", "addSvc",
                    "system", "custom", "scale0", "scale1"})]]
  /\ appLog \in [requests : 0..MaxRequests, faults : 0..MaxAppFaults,
                 overlapped : BOOLEAN, cleared : BOOLEAN, recall : Recall, stray : BOOLEAN]

\* No interleaving of two replicas, no failed call and no crash lets an app run, or gives it an
\* Ingress without the gateway's check, that no admin has ever approved, started or recalled.
NeverUncleared == app.status = "running" \/ site.ing = "custom" => appLog.cleared

\* While requests come one at a time an app runs with an approval on record, unless an admin
\* has stopped, started or recalled it out of turn since its last deployment: those requests
\* look at no approval.
RunsApproved ==
  ~appLog.overlapped /\ ~appLog.stray /\ app.status = "running" => app.approved

Undisturbed == AppQuiet /\ ~appLog.overlapped /\ appLog.faults = 0

\* While requests come one at a time and succeed, whoever comes past the gateway's check to a
\* live app comes to a running one: suspension, recall, rejection, deletion and redeployment
\* in another mode all shut the door.
DoorShut ==
  Undisturbed /\ site.ing = "custom" /\ site.dep = "up" /\ site.svc => app.status = "running"

\* While requests come one at a time and succeed, a running app serves: its Service is there,
\* its Deployment has a pod and its Ingress asks the right door.  After a recall neither the
\* owner's resume nor another approval makes the pod or, with the gateway's check, the
\* Ingress again; the admin's start makes the pod.
RunningServes ==
  Undisturbed /\ ~appLog.stray /\ app.status = "running" =>
    /\ site.svc
    /\ appLog.recall # "down" => site.dep = "up"
    /\ appLog.recall = "no" => site.ing = app.auth

\* What an admin has recalled has no pod until an admin starts it or it is deployed anew,
\* whatever its owner does and its row says.
RecalledStaysDown == Undisturbed /\ appLog.recall = "down" => site.dep # "up"

\* While requests come one at a time, a long life of them leaves the row, the approvals on
\* record, the Deployment, the Service and the Ingress in agreement.
SiteFollowsRow == RunsApproved /\ DoorShut /\ RunningServes /\ RecalledStaysDown

\* What the code says and does not do; a run shows how.

\* An app that runs has its pod, its Service and its Ingress, after a recall and a renewed
\* approval too: "Pod and Ingress are recreated at the time of the approval."
ApprovedServes ==
  Undisturbed /\ ~appLog.stray /\ app.status = "running"
    => site = [dep |-> "up", svc |-> TRUE, ing |-> app.auth]
=============================================================================
