--------------------------- MODULE SessionLifecycle ---------------------------
(***************************************************************************)
(* The terminal session of one user (auth-gateway/app/routers/sessions.py, *)
(* the pod endpoints of admin.py and security.py, services/k8s_service.py  *)
(* and idle_cleanup_service.py).  A session is a row of terminal_sessions  *)
(* and a pod of a name derived from the user, so there is one of each.     *)
(*                                                                         *)
(* A replica of the gateway runs a handler to its next await, so handlers  *)
(* interleave only between replicas, at their Kubernetes calls and         *)
(* commits; a create sleeps for three seconds in the middle, and its       *)
(* replica serves others meanwhile.  A deleted pod keeps its name and its  *)
(* phase until it is gone.  Kubernetes is external.                        *)
(***************************************************************************)
EXTENDS Integers, FiniteSets

CONSTANTS
  SlHandler,  \* handlers that may run at once: the replicas
  Ops,        \* the operations requested, a subset of Op
  OneCreator, \* whether at most one handler creates at a time
  Token, NoToken,
  SlMaxFaults, MaxDisturbances \* bounds: failed calls and replicas that die; ends of pods
                             \* and operations that may end one

(***************************************************************************)
(* "create": POST /sessions.  "bulkCreate": POST /sessions/bulk.           *)
(* "assign": admin assign-pod.  "move": admin move-pod.  "list": GET       *)
(* /sessions.  "listActive": GET /sessions/active.  "end": DELETE of a     *)
(* session by its user or an admin.  "endAll": DELETE /sessions/bulk.      *)
(* "forceEnd": admin terminate-pod, and a change of the security policy.   *)
(* "idle": a pass of the idle checker.                                     *)
(***************************************************************************)
Creates == {"create", "bulkCreate", "assign", "move"}
Ends == {"end", "endAll", "forceEnd", "move", "idle"}
Op == Creates \cup Ends \cup {"list", "listActive"}

ASSUME SessionAssumption ==
  /\ Ops \subseteq Op
  /\ OneCreator \in BOOLEAN
  /\ NoToken \notin Token
  /\ SlMaxFaults \in Nat /\ MaxDisturbances \in Nat

VARIABLES
  row,     \* the row: pod_status ("none": no row), pod_token_hash, and whether
           \* last_active_at is more than 30 minutes ago
  pod,     \* the pod: phase, whether it is being deleted, SECURE_POD_TOKEN
  secret,  \* the token in the Secret pod-token-<user>
  away,    \* nothing has happened in the pod for 35 minutes
  run,     \* what each handler is doing
  napping, \* creates in their sleep, at most 2 are counted
  slLeft  \* faults and disturbances so far

slVars == <<row, pod, secret, away, run, napping, slLeft>>

NoPod == [phase |-> "absent", leaving |-> FALSE, token |-> NoToken]
SlIdle == [op |-> "none", pc |-> "idle", token |-> NoToken]

SlInit ==
  /\ row = [status |-> "none", hash |-> NoToken, stale |-> FALSE]
  /\ pod = NoPod /\ secret = NoToken /\ away = FALSE
  /\ run = [h \in SlHandler |-> SlIdle]
  /\ napping = 0
  /\ slLeft = [fault |-> 0, disturbance |-> 0]

SlSpend(what, max) ==
  /\ slLeft[what] < max
  /\ slLeft' = [slLeft EXCEPT ![what] = @ + 1]

InSession == row.status \in {"creating", "running"}
Live == pod.phase \in {"Pending", "Running"}

SlGoto(h, pc) == run' = [run EXCEPT ![h].pc = pc]
Finish(h) == run' = [run EXCEPT ![h] = SlIdle]
At(h, pc) == run[h].pc = pc
Start(h, op, pc) == run' = [run EXCEPT ![h] = [op |-> op, pc |-> pc, token |-> NoToken]]

----------------------------------------------------------------------------
(* The beginning of each operation: what it reads, and where that leads.  An *)
(* operation that reads nothing to act upon changes nothing, and is left out. *)

\* Mutant of Reconcile: a pod that failed or succeeded is taken for one still pending.
ReconcileMissesDone(h, op, gone, done) ==
  /\ InSession
  /\ \/ pod.phase = "Running" /\ row.status = "creating" /\ Start(h, op, "markRunning")
     \/ pod.phase = "absent" /\ Start(h, op, gone)

\* get_pod_status of an active session: the row is brought up to date.
Reconcile(h, op, gone, done) ==
  /\ InSession
  /\ \/ pod.phase = "Running" /\ row.status = "creating" /\ Start(h, op, "markRunning")
     \/ pod.phase = "Done" /\ Start(h, op, done)
     \/ pod.phase = "absent" /\ Start(h, op, gone)

BeginCreate(h) ==
  \/ Reconcile(h, "create", "retireGone", "retireDone")
  \/ ~InSession /\ Start(h, "create", "look")

BeginList(h) == Reconcile(h, "list", "markEnded", "delete")
BeginListActive(h) == Reconcile(h, "listActive", "delete", "delete")

\* find_idle_sessions: a candidate whose pod shows activity is touched, the others are
\* terminated when all have been looked at.
BeginIdle(h) ==
  /\ row.status = "running" /\ row.stale /\ pod.phase = "Running"
  /\ Start(h, "idle", IF away THEN "delete" ELSE "touch")

BeginBulkCreate(h) == Start(h, "bulkCreate", "look")
BeginAssign(h) == ~Live /\ Start(h, "assign", "look")
BeginMove(h) == Start(h, "move", "delete")
BeginEnd(h) == InSession /\ Start(h, "end", "delete")
BeginForceEnd(h) == Start(h, "forceEnd", "delete")
BeginEndAll(h) == Start(h, "endAll", IF pod = NoPod THEN "markEnded" ELSE "delete")

Creating(h) == run[h].op \in Creates

Begin(h, op) ==
  /\ op \in Ops /\ run[h] = SlIdle
  /\ op \in Creates /\ OneCreator => \A g \in SlHandler : ~Creating(g)
  /\ IF op \in Ends \cup {"listActive"}
       THEN SlSpend("disturbance", MaxDisturbances) ELSE UNCHANGED slLeft
  /\ CASE op = "create" -> BeginCreate(h)
       [] op = "bulkCreate" -> BeginBulkCreate(h)
       [] op = "assign" -> BeginAssign(h)
       [] op = "move" -> BeginMove(h)
       [] op = "list" -> BeginList(h)
       [] op = "listActive" -> BeginListActive(h)
       [] op = "end" -> BeginEnd(h)
       [] op = "endAll" -> BeginEndAll(h)
       [] op = "forceEnd" -> BeginForceEnd(h)
       [] op = "idle" -> BeginIdle(h)
  /\ UNCHANGED <<row, pod, secret, away, napping>>

\* create_session after its sleep looks at the pod once.
Wake(h) ==
  /\ run[h] = SlIdle /\ napping > 0
  /\ napping' = napping - 1
  /\ IF pod.phase = "Running" THEN Start(h, "list", "markRunning") ELSE UNCHANGED run
  /\ UNCHANGED <<row, pod, secret, away, slLeft>>

----------------------------------------------------------------------------
(* Commits *)

SetRowStatus(s) == row' = [row EXCEPT !.status = s]

\* create_session finds its session's pod gone or done.
Retire(h) ==
  /\ run[h].pc \in {"retireGone", "retireDone"}
  /\ SetRowStatus("terminated")
  /\ SlGoto(h, IF At(h, "retireGone") THEN "look" ELSE "delete")
  /\ UNCHANGED <<pod, secret, away, napping, slLeft>>

MarkRunning(h) ==
  /\ At(h, "markRunning")
  /\ SetRowStatus("running")
  /\ Finish(h)
  /\ UNCHANGED <<pod, secret, away, napping, slLeft>>

\* The row is "terminated" whatever it has become since it was read; only the bulk end
\* looks at it again.
MarkEnded(h) ==
  /\ At(h, "markEnded")
  /\ IF row.status = "none" \/ (run[h].op = "endAll" /\ ~InSession)
       THEN UNCHANGED row ELSE SetRowStatus("terminated")
  /\ Finish(h)
  /\ UNCHANGED <<pod, secret, away, napping, slLeft>>

\* The idle checker saw activity and writes last_active_at.
Touch(h) ==
  /\ At(h, "touch")
  /\ row' = [row EXCEPT !.stale = FALSE]
  /\ Finish(h)
  /\ UNCHANGED <<pod, secret, away, napping, slLeft>>

----------------------------------------------------------------------------
(* k8s_service *)

AfterDelete(h) ==
  CASE run[h].op \in Creates -> "look"
    [] run[h].op = "endAll" -> "dropSecret"
    [] OTHER -> "markEnded"

\* delete_pod: Kubernetes gives the pod its grace period.
Delete(h) ==
  /\ At(h, "delete")
  /\ pod' = IF pod = NoPod THEN pod ELSE [pod EXCEPT !.leaving = TRUE]
  /\ SlGoto(h, AfterDelete(h))
  /\ UNCHANGED <<row, secret, away, napping, slLeft>>

\* delete_pod fails: swallowed, or raised by those that do not catch it.
DeleteFails(h) ==
  /\ At(h, "delete")
  /\ SlSpend("fault", SlMaxFaults)
  /\ IF run[h].op \in {"endAll", "forceEnd", "move"} THEN Finish(h) ELSE SlGoto(h, AfterDelete(h))
  /\ UNCHANGED <<row, pod, secret, away, napping>>

\* Only delete_all_pods passes the user name that deletes the Secret.
DropSecret(h) ==
  /\ At(h, "dropSecret")
  /\ secret' = NoToken
  /\ SlGoto(h, "markEnded")
  /\ UNCHANGED <<row, pod, away, napping, slLeft>>

\* create_pod: a pod in phase Pending or Running is reused.
Look(h) ==
  /\ At(h, "look")
  /\ SlGoto(h, IF Live THEN "record" ELSE "issue")
  /\ UNCHANGED <<row, pod, secret, away, napping, slLeft>>

\* A random token is none of those around.
InUse == {row.hash, pod.token, secret} \cup {run[h].token : h \in SlHandler}
Fresh == CHOOSE t \in Token \ InUse : TRUE

\* _create_pod_token_secret: created or replaced.
Issue(h) ==
  /\ At(h, "issue") /\ Token \ InUse # {}
  /\ secret' = Fresh
  /\ run' = [run EXCEPT ![h].token = Fresh, ![h].pc = "post"]
  /\ UNCHANGED <<row, pod, away, napping, slLeft>>

\* create_namespaced_pod; an existing pod answers 409 and the token is forgotten.
Post(h) ==
  /\ At(h, "post")
  /\ IF pod = NoPod
       THEN /\ pod' = [NoPod EXCEPT !.phase = "Pending"]
            /\ SlGoto(h, "record")
       ELSE /\ run' = [run EXCEPT ![h].token = NoToken, ![h].pc = "record"]
            /\ UNCHANGED pod
  /\ UNCHANGED <<row, secret, away, napping, slLeft>>

\* The creation fails: quota, Kubernetes, or the Ingress after the pod was created.
CreateFails(h) ==
  /\ run[h].pc \in {"look", "issue", "post"}
  /\ SlSpend("fault", SlMaxFaults)
  /\ \/ UNCHANGED pod
     \/ At(h, "post") /\ pod = NoPod /\ pod' = [NoPod EXCEPT !.phase = "Pending"]
  /\ Finish(h)
  /\ UNCHANGED <<row, secret, away, napping>>

\* The replica dies, with the creates that sleep in it.
Dies(h) ==
  /\ run[h] # SlIdle
  /\ SlSpend("fault", SlMaxFaults)
  /\ Finish(h)
  /\ napping' \in 0..napping
  /\ UNCHANGED <<row, pod, secret, away>>

Recorded(h) ==
  IF run[h].op = "move" /\ row.status = "none" THEN row
  ELSE [status |-> "creating",
        hash |-> IF run[h].token = NoToken THEN row.hash ELSE run[h].token,
        stale |-> row.stale /\ run[h].op \in {"assign", "move"}]

\* Mutant of Record: the hash of a recycled row is kept.
RecordKeepsHash(h) ==
  /\ At(h, "record")
  /\ row' = [Recorded(h) EXCEPT !.hash = IF row.hash = NoToken THEN run[h].token ELSE row.hash]
  /\ napping' = IF run[h].op = "create" /\ napping < 2 THEN napping + 1 ELSE napping
  /\ Finish(h)
  /\ UNCHANGED <<pod, secret, away, slLeft>>

\* The row of the pod name is recycled or inserted; a move inserts none.
\* create_session then sleeps.
Record(h) ==
  /\ At(h, "record")
  /\ row' = Recorded(h)
  /\ napping' = IF run[h].op = "create" /\ napping < 2 THEN napping + 1 ELSE napping
  /\ Finish(h)
  /\ UNCHANGED <<pod, secret, away, slLeft>>

----------------------------------------------------------------------------
(* Kubernetes and the user *)

\* The container starts with the token the Secret holds at that moment.
PodStarts ==
  /\ pod.phase = "Pending" /\ ~pod.leaving /\ secret # NoToken
  /\ pod' = [pod EXCEPT !.phase = "Running", !.token = secret]
  /\ UNCHANGED <<row, secret, away, run, napping, slLeft>>

\* The deadline, a crash or a lost node; restart_policy is Never.
PodEnds ==
  /\ Live
  /\ SlSpend("disturbance", MaxDisturbances)
  /\ pod' = [pod EXCEPT !.phase = "Done"]
  /\ UNCHANGED <<row, secret, away, run, napping>>

PodGone ==
  /\ pod.leaving
  /\ pod' = NoPod
  /\ UNCHANGED <<row, secret, away, run, napping, slLeft>>

UserLeaves ==
  /\ "idle" \in Ops /\ ~away
  /\ away' = TRUE
  /\ UNCHANGED <<row, pod, secret, run, napping, slLeft>>

UserReturns ==
  /\ away /\ pod.phase = "Running"
  /\ away' = FALSE
  /\ UNCHANGED <<row, pod, secret, run, napping, slLeft>>

\* Thirty minutes without a heartbeat, and a heartbeat.
GrowStale ==
  /\ "idle" \in Ops /\ InSession /\ ~row.stale
  /\ row' = [row EXCEPT !.stale = TRUE]
  /\ UNCHANGED <<pod, secret, away, run, napping, slLeft>>

Heartbeat ==
  /\ InSession /\ row.stale /\ ~away /\ pod.phase = "Running"
  /\ row' = [row EXCEPT !.stale = FALSE]
  /\ UNCHANGED <<pod, secret, away, run, napping, slLeft>>

----------------------------------------------------------------------------
SlStep(h) ==
  \/ Retire(h) \/ MarkRunning(h) \/ MarkEnded(h) \/ Touch(h)
  \/ Delete(h) \/ DropSecret(h)
  \/ Look(h) \/ Issue(h) \/ Post(h) \/ Record(h)

SlNext ==
  \/ \E h \in SlHandler :
       \/ \E op \in Ops : Begin(h, op)
       \/ Wake(h) \/ SlStep(h) \/ DeleteFails(h) \/ CreateFails(h) \/ Dies(h)
  \/ PodStarts \/ PodEnds \/ PodGone
  \/ UserLeaves \/ UserReturns \/ GrowStale \/ Heartbeat

SlSpec == SlInit /\ [][SlNext]_slVars

(***************************************************************************)
(* Fairness: handlers finish, Kubernetes starts and removes pods, the      *)
(* portal polls the list, and a user without a session keeps asking for    *)
(* one.  A replica answers the requests in its queue although others come. *)
(***************************************************************************)
SlFairness ==
  /\ \A h \in SlHandler : WF_slVars(SlStep(h))
  /\ WF_slVars(PodStarts) /\ WF_slVars(PodGone)
  /\ SF_slVars(\E h \in SlHandler : Wake(h))
  /\ SF_slVars(\E h \in SlHandler : Begin(h, "create"))
  /\ SF_slVars(\E h \in SlHandler : Begin(h, "list"))

SlFairSpec == SlSpec /\ SlFairness

----------------------------------------------------------------------------
(* Properties *)

\* The type invariant.
SlTypeOK ==
  /\ row \in [status : {"none", "creating", "running", "terminated"},
              hash : Token \cup {NoToken}, stale : BOOLEAN]
  /\ pod \in [phase : {"absent", "Pending", "Running", "Done"}, leaving : BOOLEAN,
              token : Token \cup {NoToken}]
  /\ pod.phase = "absent" => pod = NoPod
  /\ secret \in Token \cup {NoToken}
  /\ away \in BOOLEAN
  /\ run \in [SlHandler ->
       [op : Op \cup {"none"},
        pc : {"idle", "retireGone", "retireDone", "markRunning", "markEnded", "touch", "delete",
              "dropSecret", "look", "issue", "post", "record"},
        token : Token \cup {NoToken}]]
  /\ napping \in 0..2
  /\ slLeft \in [fault : 0..SlMaxFaults, disturbance : 0..MaxDisturbances]

\* While sessions are created one at a time and no call fails, the running pod of an
\* active session holds the token whose hash the row has, whatever lists, ends and idle
\* checks run at the other replica: the pod can log in to the gateway (jwt_auth.py's
\* pod-token exchange).  A row has no hash if a move made the pod before there was a row.
TokenMatches ==
  InSession /\ pod.phase = "Running" /\ (\A h \in SlHandler : ~At(h, "record"))
    => row.hash \in {pod.token, NoToken}

\* What the user asks for.
Usable == row.status = "running" /\ pod.phase = "Running" /\ ~pod.leaving

\* A user who keeps asking gets a running pod and a row that says so, over and over: no
\* order of stale reads and late writes of two replicas, of ends, failed calls and dying
\* replicas leaves the session stuck, as long as those are finitely many.
Served == []<>Usable

\* What the code says and does not do; a run shows how.

\* The idle checker never deletes a pod in which the user is active.
IdleSparesActive ==
  [][\A h \in SlHandler :
       run[h].op = "idle" /\ Delete(h) /\ pod.phase = "Running" => away]_slVars
============================================================================
