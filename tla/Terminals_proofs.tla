------------------------- MODULE Terminals_proofs -------------------------
(***************************************************************************)
(* Proofs about the components of a person's terminal and bots, one part   *)
(* for each: SessionLifecycle, ExtensionRequests, UserBots and             *)
(* TerminalApps; a last part puts them and the usage worker                *)
(* (UsageWorker_proofs) together. They share no state here. The constants  *)
(* are as their modules assume them, of any number.                        *)
(*                                                                         *)
(* SessionLifecycle. TokenMatches is not inductive. What keeps pod and row *)
(* together while a creation is under way is the creator's own token:      *)
(* until it is recorded, the pod is to agree with that one (PodAgrees),    *)
(* which the Secret holds unless a bulk end has dropped it (SecretIsOwn);  *)
(* and a token is issued only while no pod lives that might still start    *)
(* with it (NoneLives). This needs one creator at a time, and none that    *)
(* fails half way.                                                         *)
(***************************************************************************)
EXTENDS Terminals, UsageWorker_proofs, SequenceTheorems, FiniteSetTheorems, TLAPS

RowStatus == {"none", "creating", "running", "terminated"}
Phase == {"absent", "Pending", "Running", "Done"}
Row == [status : RowStatus, hash : Token \cup {NoToken}, stale : BOOLEAN]
PodRow == [phase : Phase, leaving : BOOLEAN, token : Token \cup {NoToken}]
PC == {"idle", "retireGone", "retireDone", "markRunning", "markEnded", "touch", "delete",
       "dropSecret", "look", "issue", "post", "record"}
Run == [op : Op \cup {"none"}, pc : PC, token : Token \cup {NoToken}]
Left == [fault : 0..SlMaxFaults, disturbance : 0..MaxDisturbances]

-----------------------------------------------------------------------------
(* The types *)

\* The type invariant, with the names of this module.
LEMMA Types ==
  SlTypeOK <=> /\ row \in Row /\ pod \in PodRow /\ (pod.phase = "absent" => pod = NoPod)
               /\ secret \in Token \cup {NoToken} /\ away \in BOOLEAN
               /\ run \in [SlHandler -> Run] /\ napping \in 0..2 /\ slLeft \in Left
BY DEF SlTypeOK, Row, PodRow, Run, Left, RowStatus, Phase, PC

\* The same of the next state.
LEMMA TypesNext ==
  SlTypeOK' <=> /\ row' \in Row /\ pod' \in PodRow /\ (pod'.phase = "absent" => pod' = NoPod)
                /\ secret' \in Token \cup {NoToken} /\ away' \in BOOLEAN
                /\ run' \in [SlHandler -> Run] /\ napping' \in 0..2 /\ slLeft' \in Left
BY DEF SlTypeOK, Row, PodRow, Run, Left, RowStatus, Phase, PC

\* The null values.
LEMMA Nothing ==
  /\ NoPod \in PodRow /\ NoPod.phase = "absent"
  /\ SlIdle \in Run /\ SlIdle.op = "none" /\ SlIdle.pc = "idle" /\ SlIdle.token = NoToken
BY DEF NoPod, PodRow, Phase, SlIdle, Run, PC

\* At first there is neither a row nor a pod.
LEMMA InitTypes == SlInit => SlTypeOK
<1> SUFFICES ASSUME SlInit PROVE SlTypeOK
  OBVIOUS
<1>1. row \in Row
  BY DEF SlInit, Row, RowStatus
<1>2. slLeft \in Left
  BY SessionAssumption DEF SlInit, Left
<1>3. run \in [SlHandler -> Run]
  BY Nothing DEF SlInit
<1>4. /\ pod \in PodRow /\ pod = NoPod
      /\ secret \in Token \cup {NoToken} /\ napping \in 0..2
  BY Nothing DEF SlInit
<1>5. away \in BOOLEAN
  BY Zenon DEF SlInit
<1>6. QED
  BY <1>1, <1>2, <1>3, <1>4, <1>5, Types

\* A fault or a disturbance is counted.
LEMMA Spending ==
  /\ SlTypeOK /\ SlSpend("fault", SlMaxFaults) => slLeft' \in Left
  /\ SlTypeOK /\ SlSpend("disturbance", MaxDisturbances) => slLeft' \in Left
BY Types, SessionAssumption DEF SlSpend, Left

\* What a handler may go on with.
LEMMA RunMoves ==
  ASSUME SlTypeOK, NEW h \in SlHandler
  PROVE  /\ \A ph \in PC : SlGoto(h, ph) => /\ run' \in [SlHandler -> Run]
                                            /\ run'[h].op = run[h].op /\ run'[h].pc = ph
                                            /\ run'[h].token = run[h].token
                                            /\ \A g \in SlHandler \ {h} : run'[g] = run[g]
         /\ Finish(h) => /\ run' \in [SlHandler -> Run] /\ run'[h] = SlIdle
                         /\ \A g \in SlHandler \ {h} : run'[g] = run[g]
         /\ \A op \in Op, ph \in PC :
              Start(h, op, ph) => /\ run' \in [SlHandler -> Run]
                                  /\ run'[h].op = op /\ run'[h].pc = ph
                                  /\ run'[h].token = NoToken
                                  /\ \A g \in SlHandler \ {h} : run'[g] = run[g]
<1>1. run \in [SlHandler -> Run] /\ run[h] \in Run
  BY Types
<1>2. ASSUME NEW ph \in PC, SlGoto(h, ph)
      PROVE  /\ run' \in [SlHandler -> Run]
             /\ run'[h].op = run[h].op /\ run'[h].pc = ph
             /\ run'[h].token = run[h].token
             /\ \A g \in SlHandler \ {h} : run'[g] = run[g]
  <2>1. run' = [run EXCEPT ![h] = [run[h] EXCEPT !.pc = ph]]
    BY <1>1, <1>2 DEF SlGoto
  <2>2. /\ [run[h] EXCEPT !.pc = ph] \in Run
        /\ [run[h] EXCEPT !.pc = ph].op = run[h].op /\ [run[h] EXCEPT !.pc = ph].pc = ph
        /\ [run[h] EXCEPT !.pc = ph].token = run[h].token
    BY <1>1 DEF Run
  <2>3. QED
    BY <1>1, <2>1, <2>2
<1>3. Finish(h) => /\ run' \in [SlHandler -> Run] /\ run'[h] = SlIdle
                   /\ \A g \in SlHandler \ {h} : run'[g] = run[g]
  BY <1>1, Nothing DEF Finish
<1>4. ASSUME NEW op \in Op, NEW ph \in PC, Start(h, op, ph)
      PROVE  /\ run' \in [SlHandler -> Run]
             /\ run'[h].op = op /\ run'[h].pc = ph
             /\ run'[h].token = NoToken
             /\ \A g \in SlHandler \ {h} : run'[g] = run[g]
  <2>1. [op |-> op, pc |-> ph, token |-> NoToken] \in Run
    BY DEF Run
  <2>2. QED
    BY <1>1, <1>4, <2>1 DEF Start
<1>5. QED
  BY <1>2, <1>3, <1>4

\* A commit writes the status, or whether the row is stale.
LEMMA RowMoves ==
  ASSUME SlTypeOK
  PROVE  /\ \A s \in RowStatus : SetRowStatus(s) =>
              row' \in Row /\ row'.status = s /\ row'.hash = row.hash
         /\ \A b \in BOOLEAN : row' = [row EXCEPT !.stale = b] =>
              row' \in Row /\ row'.status = row.status /\ row'.hash = row.hash
<1>1. row \in Row
  BY Types
<1>2. QED
  BY <1>1 DEF SetRowStatus, Row

\* How an operation begins.
LEMMA Beginning ==
  ASSUME SlTypeOK, NEW h \in SlHandler, NEW op \in Ops, Begin(h, op)
  PROVE  /\ run[h] = SlIdle /\ UNCHANGED <<row, pod, secret, away, napping>> /\ slLeft' \in Left
         /\ OneCreator /\ op \in Creates => \A g \in SlHandler : ~Creating(g)
         /\ \E ph \in PC \ {"issue", "post", "record"} :
              /\ Start(h, op, ph)
              /\ ph \in {"retireGone", "retireDone", "look"} => op \in Creates
<1>1. op \in Op
  BY SessionAssumption
<1>2. slLeft' \in Left
  BY Spending, Types DEF Begin
<1>3. \A gone, done : Reconcile(h, op, gone, done) =>
        \E ph \in {"markRunning", gone, done} : Start(h, op, ph)
  BY DEF Reconcile
<1>4. \E ph \in PC \ {"issue", "post", "record"} :
        /\ Start(h, op, ph)
        /\ ph \in {"retireGone", "retireDone", "look"} => op \in Creates
  <2>1. CASE op = "create"
    <3>1. BeginCreate(h)
      BY <2>1 DEF Begin, Ends
    <3>2. \E ph \in {"markRunning", "retireGone", "retireDone", "look"} : Start(h, op, ph)
      BY <1>3, <2>1, <3>1 DEF BeginCreate
    <3>3. QED
      BY <2>1, <3>2 DEF PC, Creates
  <2>2. CASE op \in {"bulkCreate", "assign", "move"}
    <3>1. \E ph \in {"look", "delete"} : Start(h, op, ph)
      BY <2>2 DEF Begin, BeginBulkCreate, BeginAssign, BeginMove
    <3>2. QED
      BY <2>2, <3>1 DEF PC, Creates
  <2>3. CASE op \in {"list", "listActive"}
    <3>1. \E ph \in {"markRunning", "markEnded", "delete"} : Start(h, op, ph)
      <4>1. CASE op = "list"
        <5>1. BeginList(h)
          BY <4>1 DEF Begin, Ends
        <5>2. QED
          BY <1>3, <4>1, <5>1 DEF BeginList
      <4>2. CASE op = "listActive"
        <5>1. BeginListActive(h)
          BY <4>2 DEF Begin, Ends
        <5>2. QED
          BY <1>3, <4>2, <5>1 DEF BeginListActive
      <4>3. QED
        BY <2>3, <4>1, <4>2
    <3>2. QED
      BY <3>1 DEF PC
  <2>4. CASE op \in {"end", "endAll", "forceEnd", "idle"}
    <3>1. \E ph \in {"delete", "markEnded", "touch"} : Start(h, op, ph)
      BY <2>4 DEF Begin, BeginEnd, BeginEndAll, BeginForceEnd, BeginIdle
    <3>2. QED
      BY <3>1 DEF PC
  <2>5. QED
    BY <1>1, <2>1, <2>2, <2>3, <2>4 DEF Op, Creates, Ends
<1>5. QED
  BY <1>2, <1>4 DEF Begin

\* A handler goes on or ends, and row, pod and Secret stay or change within their types.
LEMMA HandlerTypes ==
  ASSUME SlTypeOK, NEW h \in SlHandler,
         \/ \E op \in Ops : Begin(h, op)
         \/ Wake(h) \/ SlStep(h) \/ DeleteFails(h) \/ CreateFails(h) \/ Dies(h)
  PROVE  SlTypeOK'
<1>1. run[h] \in Run /\ pod \in PodRow /\ row \in Row /\ run[h].token \in Token \cup {NoToken}
  BY Types DEF Run
<1>2. CASE \E op \in Ops : Begin(h, op)
  <2>1. PICK op \in Ops, ph \in PC : Begin(h, op) /\ Start(h, op, ph)
    BY <1>2, Beginning
  <2>2. op \in Op
    BY SessionAssumption
  <2>3. run' \in [SlHandler -> Run]
    BY <2>1, <2>2, RunMoves
  <2>4. QED
    BY <2>1, <2>3, Beginning, Types, TypesNext
<1>3. CASE Wake(h)
  <2>1. run' \in [SlHandler -> Run]
    <3>1. "list" \in Op /\ "markRunning" \in PC
      BY DEF Op, PC
    <3>2. QED
      BY <1>3, <3>1, RunMoves, Types DEF Wake
  <2>2. napping' \in 0..2
    BY <1>3, Types DEF Wake
  <2>3. QED
    BY <1>3, <2>1, <2>2, Types, TypesNext DEF Wake
<1>4. CASE Retire(h) \/ MarkRunning(h) \/ MarkEnded(h) \/ Touch(h)
  <2>1. row' \in Row
    <3>1. {"terminated", "running"} \subseteq RowStatus /\ FALSE \in BOOLEAN
      BY DEF RowStatus
    <3>2. row' = row \/ (\E s \in {"terminated", "running"} : SetRowStatus(s))
            \/ row' = [row EXCEPT !.stale = FALSE]
      BY <1>4 DEF Retire, MarkRunning, MarkEnded, Touch
    <3>3. QED
      BY <1>1, <3>1, <3>2, RowMoves
  <2>2. run' \in [SlHandler -> Run]
    <3>1. {"look", "delete"} \subseteq PC
      BY DEF PC
    <3>2. Finish(h) \/ \E ph \in {"look", "delete"} : SlGoto(h, ph)
      BY <1>4 DEF Retire, MarkRunning, MarkEnded, Touch
    <3>3. QED
      BY <3>1, <3>2, RunMoves
  <2>3. QED
    BY <1>4, <2>1, <2>2, Types, TypesNext DEF Retire, MarkRunning, MarkEnded, Touch
<1>5. CASE Delete(h) \/ DeleteFails(h)
  <2>1. pod' \in PodRow /\ (pod'.phase = "absent" => pod' = NoPod)
    <3>1. CASE pod' = pod
      BY <3>1, Types
    <3>2. CASE pod # NoPod /\ pod' = [pod EXCEPT !.leaving = TRUE]
      BY <1>1, <3>2, Types DEF PodRow
    <3>3. QED
      BY <1>5, <3>1, <3>2 DEF Delete, DeleteFails
  <2>2. run' \in [SlHandler -> Run]
    <3>1. AfterDelete(h) \in PC
      BY DEF AfterDelete, PC
    <3>2. QED
      BY <1>5, <3>1, RunMoves DEF Delete, DeleteFails
  <2>3. slLeft' \in Left
    BY <1>5, Spending, Types DEF Delete, DeleteFails
  <2>4. QED
    BY <1>5, <2>1, <2>2, <2>3, Types, TypesNext DEF Delete, DeleteFails
<1>6. CASE DropSecret(h) \/ Look(h)
  <2>1. {"markEnded", "record", "issue"} \subseteq PC
    BY DEF PC
  <2>2. \E ph \in {"markEnded", "record", "issue"} : SlGoto(h, ph)
    BY <1>6 DEF DropSecret, Look
  <2>3. run' \in [SlHandler -> Run]
    BY <2>1, <2>2, RunMoves
  <2>4. secret' \in Token \cup {NoToken}
    BY <1>6, Types DEF DropSecret, Look
  <2>5. QED
    BY <1>6, <2>3, <2>4, Types, TypesNext DEF DropSecret, Look
<1>7. CASE Issue(h)
  <2>1. Fresh \in Token
    BY <1>7 DEF Issue, Fresh
  <2>2. [run[h] EXCEPT !.token = Fresh, !.pc = "post"] \in Run
    BY <1>1, <2>1 DEF Run, PC
  <2>3. run' = [run EXCEPT ![h] = [run[h] EXCEPT !.token = Fresh, !.pc = "post"]]
    BY <1>7, Types DEF Issue
  <2>4. run' \in [SlHandler -> Run]
    BY <2>2, <2>3, Types
  <2>5. QED
    BY <1>7, <2>1, <2>4, Types, TypesNext DEF Issue
<1>8. CASE Post(h) \/ CreateFails(h)
  <2>1. [NoPod EXCEPT !.phase = "Pending"] \in PodRow
          /\ [NoPod EXCEPT !.phase = "Pending"].phase # "absent"
    BY DEF NoPod, PodRow, Phase
  <2>2. pod' \in PodRow /\ (pod'.phase = "absent" => pod' = NoPod)
    BY <1>8, <2>1, Types DEF Post, CreateFails
  <2>3. [run[h] EXCEPT !.token = NoToken, !.pc = "record"] \in Run
    BY <1>1 DEF Run, PC
  <2>4. run' \in [SlHandler -> Run]
    <3>1. CASE run' = [run EXCEPT ![h].token = NoToken, ![h].pc = "record"]
      <4>1. run' = [run EXCEPT ![h] = [run[h] EXCEPT !.token = NoToken, !.pc = "record"]]
        BY <3>1, Types
      <4>2. QED
        BY <2>3, <4>1, Types
    <3>2. CASE SlGoto(h, "record") \/ Finish(h)
      BY <3>2, RunMoves DEF PC
    <3>3. QED
      BY <1>8, <3>1, <3>2 DEF Post, CreateFails
  <2>5. slLeft' \in Left
    BY <1>8, Spending, Types DEF Post, CreateFails
  <2>6. QED
    BY <1>8, <2>2, <2>4, <2>5, Types, TypesNext DEF Post, CreateFails
<1>9. CASE Record(h)
  <2> DEFINE b == row.stale /\ run[h].op \in {"assign", "move"}
             new == IF run[h].token = NoToken THEN row.hash ELSE run[h].token
  <2>1. b \in BOOLEAN /\ new \in Token \cup {NoToken}
    BY <1>1 DEF Row
  <2> HIDE DEF b, new
  <2>2. [status |-> "creating", hash |-> new, stale |-> b] \in Row
    BY <2>1 DEF Row, RowStatus
  <2>3. Recorded(h) = row \/ Recorded(h) = [status |-> "creating", hash |-> new, stale |-> b]
    BY DEF Recorded, b, new
  <2>4. row' \in Row
    BY <1>1, <1>9, <2>2, <2>3 DEF Record
  <2>5. napping' \in 0..2
    BY <1>9, Types DEF Record
  <2>6. run' \in [SlHandler -> Run]
    BY <1>9, RunMoves DEF Record
  <2>7. QED
    BY <1>9, <2>4, <2>5, <2>6, Types, TypesNext DEF Record
<1>10. CASE Dies(h)
  <2>1. run' \in [SlHandler -> Run] /\ slLeft' \in Left
    BY <1>10, RunMoves, Spending DEF Dies
  <2>2. napping' \in 0..2
    BY <1>10, Types DEF Dies
  <2>3. QED
    BY <1>10, <2>1, <2>2, Types, TypesNext DEF Dies
<1>11. QED
  BY <1>2, <1>3, <1>4, <1>5, <1>6, <1>7, <1>8, <1>9, <1>10 DEF SlStep

\* What the environment does.
Environment ==
  PodStarts \/ PodEnds \/ PodGone \/ UserLeaves \/ UserReturns \/ GrowStale \/ Heartbeat

\* Kubernetes and the user keep the types.
LEMMA EnvironmentTypes ==
  ASSUME SlTypeOK, Environment \/ UNCHANGED slVars
  PROVE  SlTypeOK'
<1>1. pod \in PodRow /\ row \in Row /\ secret \in Token \cup {NoToken}
  BY Types
<1>2. CASE PodStarts
  <2>1. [pod EXCEPT !.phase = "Running", !.token = secret] \in PodRow
        /\ [pod EXCEPT !.phase = "Running", !.token = secret].phase = "Running"
    BY <1>1 DEF PodRow, Phase
  <2>2. QED
    BY <1>2, <2>1, Types, TypesNext DEF PodStarts
<1>3. CASE PodEnds
  <2>1. [pod EXCEPT !.phase = "Done"] \in PodRow /\ [pod EXCEPT !.phase = "Done"].phase = "Done"
    BY <1>1 DEF PodRow, Phase
  <2>2. QED
    BY <1>3, <2>1, Spending, Types, TypesNext DEF PodEnds
<1>4. CASE PodGone
  BY <1>4, Nothing, Types, TypesNext DEF PodGone
<1>5. CASE UserLeaves \/ UserReturns \/ UNCHANGED slVars
  BY <1>5, Types, TypesNext DEF UserLeaves, UserReturns, slVars
<1>6. CASE GrowStale \/ Heartbeat
  <2>1. row' \in Row
    BY <1>6, RowMoves DEF GrowStale, Heartbeat
  <2>2. QED
    BY <1>6, <2>1, Types, TypesNext DEF GrowStale, Heartbeat
<1>7. QED
  BY <1>2, <1>3, <1>4, <1>5, <1>6 DEF Environment

\* Every step keeps the types.
LEMMA NextTypes == SlTypeOK /\ [SlNext]_slVars => SlTypeOK'
BY HandlerTypes, EnvironmentTypes DEF SlNext, Environment

\* Every variable keeps its type, however many replicas create, end and look at the session: a
\* pod that is gone leaves nothing behind, and a handler only has steps left that there are.
THEOREM SessionTypeCorrect == SlSpec => []SlTypeOK
BY InitTypes, NextTypes, PTL DEF SlSpec

-----------------------------------------------------------------------------
(* The token of the pod *)

\* Only a creation gets to the steps of one, and only between issuing a token and recording it
\* does it hold one.
PlacesOK ==
  \A h \in SlHandler :
    /\ run[h].pc \in {"retireGone", "retireDone", "look", "issue", "post", "record"} => Creating(h)
    /\ run[h].token # NoToken => run[h].pc \in {"post", "record"}
    /\ run[h].pc = "post" => run[h].token # NoToken

OneCreates == \A g, h \in SlHandler : Creating(g) /\ Creating(h) => g = h

\* A token is issued and a pod posted only while none lives.
NoneLives == \A h \in SlHandler : run[h].pc \in {"issue", "post"} => ~Live

\* The Secret holds the token of the pod about to be posted, unless a bulk end drops it.
SecretIsOwn == \A h \in SlHandler : run[h].pc = "post" => secret \in {run[h].token, NoToken}

\* A pod in this phase, with this token or this Secret to start with, agrees with the hash x.
Agrees(phase, token, sec, x) ==
  /\ phase = "Running" => x \in {token, NoToken}
  /\ phase = "Pending" => x = NoToken \/ sec \in {x, NoToken}

\* The pod agrees with the row or, while a handler is about to record a token, with that.
PodAgrees ==
  /\ (\A h \in SlHandler : run[h].pc # "record") => Agrees(pod.phase, pod.token, secret, row.hash)
  /\ \A h \in SlHandler : run[h].pc = "record" =>
       Agrees(pod.phase, pod.token, secret,
              IF run[h].token = NoToken THEN row.hash ELSE run[h].token)

NoRowNoHash == row.status = "none" => row.hash = NoToken

SlInv ==
  SlTypeOK /\ PlacesOK /\ OneCreates /\ NoneLives /\ SecretIsOwn /\ PodAgrees /\ NoRowNoHash

\* At first there is nothing to agree.
LEMMA InitOK == SlInit => SlInv
<1> SUFFICES ASSUME SlInit PROVE SlInv
  OBVIOUS
<1>1. \A h \in SlHandler : run[h] = SlIdle
  BY DEF SlInit
<1>2. pod.phase = "absent" /\ row.hash = NoToken
  BY Nothing DEF SlInit
<1>3. \A h \in SlHandler : ~Creating(h)
  BY <1>1, Nothing DEF Creating, Creates
<1>4. PodAgrees
  BY <1>1, <1>2, Nothing DEF PodAgrees, Agrees
<1>5. QED
  BY <1>1, <1>2, <1>3, <1>4, InitTypes, Nothing
  DEF SlInv, PlacesOK, OneCreates, NoneLives, SecretIsOwn, NoRowNoHash

\* A handler goes on to a step that is none of those between issuing and recording, from one
\* that is not recording; pod and hash stay, and the Secret stays or is dropped.
LEMMA QuietMoves ==
  ASSUME SlInv, SlTypeOK', NEW h \in SlHandler,
         run[h].pc # "record",
         run'[h].pc \notin {"issue", "post", "record"}, run'[h].token = NoToken,
         run'[h].pc \in {"retireGone", "retireDone", "look"} => run'[h].op \in Creates,
         \/ run'[h].op = run[h].op
         \/ run'[h].op \in Creates => \A g \in SlHandler : ~Creating(g),
         \A g \in SlHandler \ {h} : run'[g] = run[g],
         pod'.phase = pod.phase, pod'.token = pod.token, secret' \in {secret, NoToken},
         row'.hash = row.hash, row'.status = "none" => row.status = "none"
  PROVE  SlInv'
<1>1. PlacesOK'
  BY DEF SlInv, PlacesOK, Creating
<1>2. OneCreates'
  BY DEF SlInv, OneCreates, Creating
<1>3. NoneLives' /\ SecretIsOwn'
  BY DEF SlInv, NoneLives, SecretIsOwn, Live
<1>4. PodAgrees'
  BY DEF SlInv, PodAgrees, Agrees
<1>5. QED
  BY <1>1, <1>2, <1>3, <1>4 DEF SlInv, NoRowNoHash

\* Only one handler is at the steps of a creation.
LEMMA OthersDoNot ==
  ASSUME SlInv, NEW h \in SlHandler,
         run[h].pc \in {"retireGone", "retireDone", "look", "issue", "post", "record"}
  PROVE  /\ Creating(h)
         /\ \A g \in SlHandler \ {h} :
              run[g].pc \notin {"retireGone", "retireDone", "look", "issue", "post", "record"}
BY DEF SlInv, PlacesOK, OneCreates

\* An operation begins, or a creation that slept wakes up.
LEMMA BeginOK ==
  ASSUME SlInv, OneCreator, NEW h \in SlHandler, (\E op \in Ops : Begin(h, op)) \/ Wake(h)
  PROVE  SlInv'
<1>1. SlTypeOK' /\ run[h].pc # "record" /\ run[h].token = NoToken /\ SlTypeOK
  BY HandlerTypes, Beginning, Nothing DEF SlInv, Wake
<1>2. UNCHANGED <<row, pod, secret>>
  BY Beginning DEF SlInv, Wake
<1>3. CASE \E op \in Ops : Begin(h, op)
  <2>1. PICK op \in Ops, ph \in PC \ {"issue", "post", "record"} :
          /\ Begin(h, op) /\ Start(h, op, ph)
          /\ ph \in {"retireGone", "retireDone", "look"} => op \in Creates
    BY <1>1, <1>3, Beginning
  <2>2. op \in Op /\ ph \in PC
    BY <2>1, SessionAssumption
  <2>3. /\ run'[h].op = op /\ run'[h].pc = ph /\ run'[h].token = NoToken
        /\ \A g \in SlHandler \ {h} : run'[g] = run[g]
    BY <1>1, <2>1, <2>2, RunMoves
  <2>4. op \in Creates => \A g \in SlHandler : ~Creating(g)
    BY <1>1, <2>1, Beginning
  <2>5. QED
    BY <1>1, <1>2, <2>1, <2>3, <2>4, QuietMoves
<1>4. CASE Wake(h)
  <2>1. \/ UNCHANGED run
        \/ /\ run'[h].op = "list" /\ run'[h].pc = "markRunning" /\ run'[h].token = NoToken
           /\ \A g \in SlHandler \ {h} : run'[g] = run[g]
    BY <1>1, <1>4, RunMoves DEF Wake, Op, PC
  <2>2. run[h].pc = "idle" /\ "list" \notin Creates
    BY <1>4, Nothing DEF Wake, Creates
  <2>3. CASE UNCHANGED run
    BY <1>1, <1>2, <2>2, <2>3, QuietMoves
  <2>4. CASE ~UNCHANGED run
    BY <1>1, <1>2, <2>1, <2>4, <2>2, QuietMoves
  <2>5. QED
    BY <2>3, <2>4
<1>5. QED
  BY <1>3, <1>4

\* The commits that leave the token alone, and the calls that end a pod or drop its Secret.
LEMMA CommitsOK ==
  ASSUME SlInv, NEW h \in SlHandler,
         \/ Retire(h) \/ MarkRunning(h) \/ MarkEnded(h) \/ Touch(h) \/ Delete(h) \/ DropSecret(h)
  PROVE  SlInv'
<1>1. /\ SlTypeOK /\ SlTypeOK'
      /\ run[h].pc \in {"retireGone", "retireDone", "markRunning", "markEnded", "touch", "delete",
                        "dropSecret"}
  BY HandlerTypes
  DEF SlInv, SlStep, Retire, MarkRunning, MarkEnded, Touch, Delete, DropSecret, At
<1>2. run[h].token = NoToken
  BY <1>1 DEF SlInv, PlacesOK
<1>3. /\ run'[h].token = NoToken
      /\ \A g \in SlHandler \ {h} : run'[g] = run[g]
      /\ \/ run'[h].pc = "idle" /\ run'[h].op = "none"
         \/ run'[h].pc \in {"delete", "dropSecret", "markEnded"} /\ run'[h].op = run[h].op
         \/ run'[h].pc = "look" /\ run'[h].op = run[h].op /\ run[h].op \in Creates
  <2>1. CASE Finish(h)
    BY <1>1, <2>1, RunMoves, Nothing
  <2>2. CASE Retire(h)
    <3>1. run[h].op \in Creates
      BY <2>2 DEF SlInv, PlacesOK, Retire, Creating
    <3>2. QED
      BY <1>1, <1>2, <2>2, <3>1, RunMoves DEF Retire, PC
  <2>3. CASE Delete(h)
    <3>1. /\ AfterDelete(h) \in {"look", "dropSecret", "markEnded"} /\ AfterDelete(h) \in PC
          /\ AfterDelete(h) = "look" => run[h].op \in Creates
      BY DEF AfterDelete, PC
    <3>2. QED
      BY <1>1, <1>2, <2>3, <3>1, RunMoves DEF Delete
  <2>4. CASE DropSecret(h)
    BY <1>1, <1>2, <2>4, RunMoves DEF DropSecret, PC
  <2>5. QED
    BY <2>1, <2>2, <2>3, <2>4 DEF MarkRunning, MarkEnded, Touch
<1>4. pod'.phase = pod.phase /\ pod'.token = pod.token
  <2>1. pod \in PodRow
    BY <1>1, Types
  <2>2. pod' = pod \/ pod' = [pod EXCEPT !.leaving = TRUE]
    BY DEF Retire, MarkRunning, MarkEnded, Touch, Delete, DropSecret
  <2>3. QED
    BY <2>1, <2>2 DEF PodRow
<1>5. secret' \in {secret, NoToken}
  BY DEF Retire, MarkRunning, MarkEnded, Touch, Delete, DropSecret
<1>6. row'.hash = row.hash /\ (row'.status = "none" => row.status = "none")
  <2>1. \/ row' = row \/ (\E s \in {"terminated", "running"} : SetRowStatus(s))
        \/ row' = [row EXCEPT !.stale = FALSE]
    BY DEF Retire, MarkRunning, MarkEnded, Touch, Delete, DropSecret
  <2>2. QED
    BY <1>1, <2>1, RowMoves DEF RowStatus
<1>7. "none" \notin Creates
  BY DEF Creates
<1>8. run[h].pc # "record"
  BY <1>1
<1>9. QED
  BY <1>1, <1>3, <1>4, <1>5, <1>6, <1>7, <1>8, QuietMoves

\* create_pod finds a pod, which agrees with the row, or is going to post one.
LEMMA LookOK ==
  ASSUME SlInv, NEW h \in SlHandler, Look(h)
  PROVE  SlInv'
<1>1. /\ SlTypeOK /\ SlTypeOK' /\ UNCHANGED <<row, pod, secret>> /\ run[h].pc = "look"
  BY HandlerTypes DEF SlInv, SlStep, Look, At
<1>2. /\ run'[h].op = run[h].op /\ run'[h].token = NoToken
      /\ run'[h].pc = IF Live THEN "record" ELSE "issue"
      /\ \A g \in SlHandler \ {h} : run'[g] = run[g]
  <2>1. run[h].token = NoToken
    BY <1>1 DEF SlInv, PlacesOK
  <2>2. QED
    BY <1>1, <2>1, RunMoves DEF Look, PC
<1>3. /\ Creating(h)
      /\ \A g \in SlHandler \ {h} :
           run[g].pc \notin {"retireGone", "retireDone", "look", "issue", "post", "record"}
  BY <1>1, OthersDoNot
<1>4. PlacesOK' /\ OneCreates'
  BY <1>2, <1>3 DEF SlInv, PlacesOK, OneCreates, Creating
<1>5. NoneLives' /\ SecretIsOwn'
  BY <1>1, <1>2, <1>3 DEF NoneLives, SecretIsOwn, Live
<1>6. PodAgrees'
  <2>1. Agrees(pod.phase, pod.token, secret, row.hash)
    BY <1>1, <1>3 DEF SlInv, PodAgrees
  <2>2. QED
    BY <1>1, <1>2, <1>3, <2>1 DEF PodAgrees
<1>7. QED
  BY <1>1, <1>4, <1>5, <1>6 DEF SlInv, NoRowNoHash

\* A token is put into the Secret: no pod lives that could start with it.
LEMMA IssueOK ==
  ASSUME SlInv, NEW h \in SlHandler, Issue(h)
  PROVE  SlInv'
<1>1. /\ SlTypeOK /\ SlTypeOK' /\ UNCHANGED <<row, pod>> /\ run[h].pc = "issue"
  BY HandlerTypes DEF SlInv, SlStep, Issue, At
<1>2. Fresh \in Token /\ Fresh # NoToken
  BY SessionAssumption DEF Issue, Fresh
<1>3. /\ run'[h].op = run[h].op /\ run'[h].token = Fresh /\ run'[h].pc = "post"
      /\ \A g \in SlHandler \ {h} : run'[g] = run[g]
      /\ secret' = Fresh
  <2>1. run \in [SlHandler -> Run] /\ run[h] \in Run
    BY <1>1, Types
  <2>2. run' = [run EXCEPT ![h] = [run[h] EXCEPT !.token = Fresh, !.pc = "post"]]
    BY <2>1 DEF Issue
  <2>3. QED
    BY <2>1, <2>2 DEF Run, Issue
<1>4. /\ Creating(h)
      /\ \A g \in SlHandler \ {h} :
           run[g].pc \notin {"retireGone", "retireDone", "look", "issue", "post", "record"}
  BY <1>1, OthersDoNot
<1>5. ~Live
  BY <1>1 DEF SlInv, NoneLives
<1>6. PlacesOK' /\ OneCreates'
  BY <1>2, <1>3, <1>4 DEF SlInv, PlacesOK, OneCreates, Creating
<1>7. NoneLives' /\ SecretIsOwn'
  BY <1>1, <1>3, <1>4, <1>5 DEF NoneLives, SecretIsOwn, Live
<1>8. PodAgrees'
  BY <1>1, <1>3, <1>4, <1>5 DEF PodAgrees, Agrees, Live
<1>9. QED
  BY <1>1, <1>6, <1>7, <1>8 DEF SlInv, NoRowNoHash

\* The pod is posted, and agrees with the token that is going to be recorded; or there is one,
\* which does not live, and the token is forgotten.
LEMMA PostOK ==
  ASSUME SlInv, NEW h \in SlHandler, Post(h)
  PROVE  SlInv'
<1>1. /\ SlTypeOK /\ SlTypeOK' /\ UNCHANGED <<row, secret>> /\ run[h].pc = "post"
  BY HandlerTypes DEF SlInv, SlStep, Post, At
<1>2. /\ run'[h].op = run[h].op /\ run'[h].pc = "record"
      /\ \A g \in SlHandler \ {h} : run'[g] = run[g]
      /\ \/ run'[h].token = run[h].token /\ pod' = [NoPod EXCEPT !.phase = "Pending"]
         \/ run'[h].token = NoToken /\ pod' = pod
  <2>1. run \in [SlHandler -> Run] /\ run[h] \in Run
    BY <1>1, Types
  <2>2. CASE pod = NoPod
    BY <1>1, <2>2, RunMoves DEF Post, PC
  <2>3. CASE pod # NoPod
    <3>1. run' = [run EXCEPT ![h] = [run[h] EXCEPT !.token = NoToken, !.pc = "record"]]
      BY <2>1, <2>3 DEF Post
    <3>2. QED
      BY <2>1, <2>3, <3>1 DEF Run, Post
  <2>4. QED
    BY <2>2, <2>3
<1>3. /\ Creating(h)
      /\ \A g \in SlHandler \ {h} :
           run[g].pc \notin {"retireGone", "retireDone", "look", "issue", "post", "record"}
  BY <1>1, OthersDoNot
<1>4. /\ ~Live /\ secret \in {run[h].token, NoToken} /\ run[h].token # NoToken
      /\ [NoPod EXCEPT !.phase = "Pending"].phase = "Pending"
  BY <1>1 DEF SlInv, NoneLives, SecretIsOwn, PlacesOK, NoPod
<1>5. PlacesOK' /\ OneCreates'
  BY <1>2, <1>3 DEF SlInv, PlacesOK, OneCreates, Creating
<1>6. NoneLives' /\ SecretIsOwn'
  BY <1>2, <1>3 DEF NoneLives, SecretIsOwn
<1>7. PodAgrees'
  <2>1. \A g \in SlHandler \ {h} : run'[g].pc # "record"
    BY <1>2, <1>3
  <2>2. Agrees(pod'.phase, pod'.token, secret',
               IF run'[h].token = NoToken THEN row'.hash ELSE run'[h].token)
    <3>1. CASE run'[h].token = run[h].token /\ pod' = [NoPod EXCEPT !.phase = "Pending"]
      <4>1. pod'.phase = "Pending" /\ secret' \in {run'[h].token, NoToken}
        BY <1>1, <1>4, <3>1
      <4>2. QED
        BY <1>4, <3>1, <4>1 DEF Agrees
    <3>2. CASE pod' = pod
      <4>1. pod'.phase \notin {"Pending", "Running"}
        BY <1>4, <3>2 DEF Live
      <4>2. QED
        BY <4>1 DEF Agrees
    <3>3. QED
      BY <1>2, <3>1, <3>2
  <2>3. run'[h].pc = "record"
    BY <1>2
  <2>4. QED
    BY <2>1, <2>2, <2>3 DEF PodAgrees
<1>8. QED
  BY <1>1, <1>5, <1>6, <1>7 DEF SlInv, NoRowNoHash

\* The token is recorded, or the row keeps its hash.
LEMMA RecordOK ==
  ASSUME SlInv, NEW h \in SlHandler, Record(h)
  PROVE  SlInv'
<1>1. /\ SlTypeOK /\ SlTypeOK' /\ UNCHANGED <<pod, secret>> /\ run[h].pc = "record"
  BY HandlerTypes DEF SlInv, SlStep, Record, At
<1>2. /\ run'[h] = SlIdle /\ \A g \in SlHandler \ {h} : run'[g] = run[g]
  BY <1>1, RunMoves DEF Record
<1>3. \A g \in SlHandler \ {h} :
        run[g].pc \notin {"retireGone", "retireDone", "look", "issue", "post", "record"}
  BY <1>1, OthersDoNot
<1>4. \A g \in SlHandler : run'[g].pc \notin {"issue", "post", "record"}
  BY <1>2, <1>3, Nothing
<1>5. PlacesOK' /\ OneCreates'
  BY <1>2, Nothing DEF SlInv, PlacesOK, OneCreates, Creating, Creates
<1>6. Agrees(pod.phase, pod.token, secret, row'.hash) /\ NoRowNoHash'
  <2>1. CASE run[h].op = "move" /\ row.status = "none"
    BY <2>1 DEF Record, Recorded, SlInv, NoRowNoHash, Agrees
  <2>2. CASE ~(run[h].op = "move" /\ row.status = "none")
    <3>1. /\ row'.hash = IF run[h].token = NoToken THEN row.hash ELSE run[h].token
          /\ row'.status = "creating"
      BY <2>2 DEF Record, Recorded
    <3>2. QED
      BY <1>1, <3>1 DEF SlInv, PodAgrees, NoRowNoHash
  <2>3. QED
    BY <2>1, <2>2
<1>7. QED
  BY <1>1, <1>4, <1>5, <1>6 DEF SlInv, NoneLives, SecretIsOwn, PodAgrees

\* The pod starts with what the Secret holds, ends, or goes; the user's comings and goings.
LEMMA EnvironmentOK ==
  ASSUME SlInv, Environment \/ UNCHANGED slVars
  PROVE  SlInv'
<1>1. SlTypeOK /\ SlTypeOK' /\ pod \in PodRow /\ UNCHANGED <<run, secret>>
  BY EnvironmentTypes, Types
  DEF SlInv, Environment, PodStarts, PodEnds, PodGone, UserLeaves, UserReturns, GrowStale,
      Heartbeat, slVars
<1>2. row'.hash = row.hash /\ row'.status = row.status
  <2>1. row' = row \/ \E b \in BOOLEAN : row' = [row EXCEPT !.stale = b]
    BY DEF Environment, PodStarts, PodEnds, PodGone, UserLeaves, UserReturns, GrowStale, Heartbeat,
           slVars
  <2>2. QED
    BY <1>1, <2>1, RowMoves
<1>3. \/ pod' = pod
      \/ pod'.phase \notin {"Pending", "Running"}
      \/ pod.phase = "Pending" /\ pod'.phase = "Running" /\ pod'.token = secret
           /\ secret # NoToken
  BY <1>1, Nothing
  DEF Environment, PodStarts, PodEnds, PodGone, UserLeaves, UserReturns, GrowStale, Heartbeat,
      slVars, PodRow
<1>4. PlacesOK' /\ OneCreates' /\ SecretIsOwn' /\ NoRowNoHash'
  BY <1>1, <1>2 DEF SlInv, PlacesOK, OneCreates, SecretIsOwn, NoRowNoHash, Creating
<1>5. NoneLives'
  BY <1>1, <1>3 DEF SlInv, NoneLives, Live
<1>6. PodAgrees'
  BY <1>1, <1>2, <1>3 DEF SlInv, PodAgrees, Agrees
<1>7. QED
  BY <1>1, <1>4, <1>5, <1>6 DEF SlInv

\* No call fails and no replica dies.
LEMMA NoFault ==
  ASSUME SlMaxFaults = 0, SlTypeOK, NEW h \in SlHandler
  PROVE  ~DeleteFails(h) /\ ~CreateFails(h) /\ ~Dies(h)
<1>1. ~SlSpend("fault", SlMaxFaults)
  BY Types DEF SlSpend, Left
<1>2. QED
  BY <1>1 DEF DeleteFails, CreateFails, Dies

\* Every step keeps the invariant.
LEMMA NextOK == OneCreator /\ SlMaxFaults = 0 /\ SlInv /\ [SlNext]_slVars => SlInv'
<1> SUFFICES ASSUME OneCreator, SlMaxFaults = 0, SlInv, [SlNext]_slVars PROVE SlInv'
  OBVIOUS
<1>1. SlTypeOK
  BY DEF SlInv
<1>2. CASE Environment \/ UNCHANGED slVars
  BY <1>2, EnvironmentOK
<1>3. ASSUME NEW h \in SlHandler, (\E op \in Ops : Begin(h, op)) \/ Wake(h) \/ SlStep(h)
      PROVE  SlInv'
  BY <1>3, BeginOK, CommitsOK, LookOK, IssueOK, PostOK, RecordOK DEF SlStep
<1>4. QED
  BY <1>1, <1>2, <1>3, NoFault DEF SlNext, Environment

\* While sessions are created one at a time and no call fails, the running pod of an active
\* session can log in, whatever ends, moves, lists and idle checks any number of replicas run.
THEOREM TokensMatch ==
  ASSUME OneCreator, SlMaxFaults = 0
  PROVE  SlSpec => []TokenMatches
<1>1. SlInv /\ [SlNext]_slVars => SlInv'
  BY NextOK
<1>2. SlSpec => []SlInv
  BY <1>1, InitOK, PTL DEF SlSpec
<1>3. SlInv => TokenMatches
  BY DEF SlInv, PodAgrees, Agrees, TokenMatches, At
<1>4. QED
  BY <1>2, <1>3, PTL

-----------------------------------------------------------------------------
(***************************************************************************)
(* ExtensionRequests. None of the four parts of RequestsAreHandled is      *)
(* inductive. What is known of a handler that has not committed is what it *)
(* read, and of one that has not told what it committed (StillSo,          *)
(* StillTrue), and both hold only while one handler acts at a time         *)
(* (OneAtATime). The lines of the audit log are counted against the        *)
(* handlers that have yet to write one, which need not be finitely many in *)
(* number but are at any time (ExCounted).                                 *)
(***************************************************************************)
ExVia == {"web", "telegram"}
ExTask == [op : {"idle", "request", "approve", "reject"}, via : ExVia,
           on : ExRequest \cup {0}, phase : {"none", "commit", "notify", "audit"}]
Answer == {"none"} \cup Resolved

\* The types, but for the two counts that ExCounted bounds.
ExTypes ==
  /\ exRows \in [ExRequest -> {"none", "pending"} \cup Resolved]
  /\ mapped \in {"nobody", "person", "other"} /\ adminMapped \in BOOLEAN
  /\ exTasks \in [ExHandler -> ExTask]
  /\ told \in [ExRequest -> Answer]
  /\ announced \subseteq ExRequest
  /\ exLog = [ops |-> exLog.ops, faults |-> exLog.faults, overlapped |-> exLog.overlapped,
              overruled |-> exLog.overruled, unheard |-> exLog.unheard, first |-> exLog.first,
              decided |-> exLog.decided, done |-> exLog.done, audited |-> exLog.audited]
  /\ exLog.ops \in 0..MaxExOps /\ exLog.faults \in 0..MaxExFaults
  /\ exLog.overlapped \in BOOLEAN /\ exLog.overruled \in BOOLEAN
  /\ exLog.unheard \subseteq ExRequest \X {"admin", "person"}
  /\ exLog.first \in [ExRequest -> Answer] /\ exLog.decided \in [ExRequest -> Nat]
  /\ exLog.done \in Nat /\ exLog.audited \in Nat

\* What is known of a handler from where it is: who rests does nothing, only the web audits,
\* and who decides or has committed knows the request.
InOrder(t) ==
  /\ t.op = "idle" <=> t.phase = "none"
  /\ t.op = "idle" => t.via = "web"
  /\ t.phase = "audit" => t.via = "web"
  /\ t.op \in {"approve", "reject"} \/ t.phase \in {"notify", "audit"} => t.on \in ExRequest

TasksInOrder == \A h \in ExHandler : InOrder(exTasks[h])

\* Web handlers that have yet to commit, and those that have yet to write their line.
ToCommit(f) == {h \in ExHandler : f[h].via = "web" /\ f[h].phase = "commit"}
ToAudit(f) == {h \in ExHandler : f[h].via = "web" /\ f[h].phase \in {"notify", "audit"}}

ExCounted ==
  /\ IsFiniteSet(ToCommit(exTasks)) /\ IsFiniteSet(ToAudit(exTasks))
  /\ exLog.done + Cardinality(ToCommit(exTasks)) <= exLog.ops
  /\ exLog.audited + Cardinality(ToAudit(exTasks)) <= exLog.done
  /\ exLog.faults = 0 => exLog.audited + Cardinality(ToAudit(exTasks)) = exLog.done

\* What handlers see of each other while they run one at a time.
OneAtATime == \A g, h \in ExHandler : exTasks[g].op # "idle" /\ exTasks[h].op # "idle" => g = h

\* What a handler read is so until it commits.
StillSo ==
  \A h \in ExHandler :
    LET t == exTasks[h] IN
    t.phase = "commit" =>
      /\ t.op = "request" => NonePending
      /\ t.op \in {"approve", "reject"} => Decidable(t.op, t.via, t.on)

OnePending == \A q, r \in ExRequest : exRows[q] = "pending" /\ exRows[r] = "pending" => q = r

\* What it committed is so until it has told.
StillTrue ==
  \A h \in ExHandler :
    LET t == exTasks[h] IN
    t.phase = "notify" /\ t.op # "request" => exRows[t.on] = Outcome(t.op)

FirstIsResolved == \A r \in ExRequest : exLog.first[r] # "none" => exRows[r] \in Resolved

FirstStands == \A r \in ExRequest : exRows[r] \in Resolved => exRows[r] = exLog.first[r]

\* A notification of a request that nobody got.
Missed(r, who) == <<r, who>> \in exLog.unheard

\* Who is not told yet is about to be, or was not reached.
ToBeTold ==
  \A r \in ExRequest :
    /\ exRows[r] \in Resolved => \/ told[r] = exRows[r]
                                 \/ Missed(r, "person")
                                 \/ \E h \in ExHandler : /\ exTasks[h].phase = "notify"
                                                         /\ exTasks[h].op # "request"
                                                         /\ exTasks[h].on = r
    /\ exRows[r] # "none" => \/ r \in announced
                             \/ Missed(r, "admin")
                             \/ \E h \in ExHandler : /\ exTasks[h].phase = "notify"
                                                     /\ exTasks[h].op = "request"
                                                     /\ exTasks[h].on = r

ExInv ==
  /\ ExTypes /\ TasksInOrder /\ ExCounted /\ FirstIsResolved
  /\ ~exLog.overlapped => OneAtATime /\ StillSo /\ OnePending /\ StillTrue
  /\ ~exLog.overlapped /\ ~exLog.overruled => FirstStands
  /\ ~exLog.overlapped /\ exLog.faults = 0 => ToBeTold

-----------------------------------------------------------------------------
(* Sets of handlers *)

\* A set of handlers from which one handler comes or goes.
LEMMA OneComesOrGoes ==
  ASSUME NEW S, NEW T, NEW h, IsFiniteSet(S), \A k : k # h => (k \in S <=> k \in T)
  PROVE  /\ IsFiniteSet(T) /\ Cardinality(S) \in Nat /\ Cardinality(T) \in Nat
         /\ h \in S /\ h \notin T => Cardinality(S) = Cardinality(T) + 1
         /\ h \notin S /\ h \in T => Cardinality(T) = Cardinality(S) + 1
         /\ (h \in S <=> h \in T) => Cardinality(T) = Cardinality(S)
<1>1. CASE h \in S /\ h \in T
  <2>1. S = T
    BY <1>1
  <2>2. QED
    BY <2>1, <1>1, FS_CardinalityType
<1>2. CASE h \notin S /\ h \notin T
  <2>1. S = T
    BY <1>2
  <2>2. QED
    BY <2>1, <1>2, FS_CardinalityType
<1>3. CASE h \in S /\ h \notin T
  <2>1. T = S \ {h}
    BY <1>3
  <2>2. /\ IsFiniteSet(S \ {h})
        /\ Cardinality(S \ {h}) = IF h \in S THEN Cardinality(S) - 1 ELSE Cardinality(S)
    BY FS_RemoveElement
  <2>3. Cardinality(S) \in Nat /\ Cardinality(T) \in Nat
    BY <2>1, <2>2, FS_CardinalityType
  <2>4. QED
    BY <1>3, <2>1, <2>2, <2>3
<1>4. CASE h \notin S /\ h \in T
  <2>1. T = S \cup {h}
    BY <1>4
  <2>2. /\ IsFiniteSet(S \cup {h})
        /\ Cardinality(S \cup {h}) = IF h \in S THEN Cardinality(S) ELSE Cardinality(S) + 1
    BY FS_AddElement
  <2>3. Cardinality(S) \in Nat /\ Cardinality(T) \in Nat
    BY <2>1, <2>2, FS_CardinalityType
  <2>4. QED
    BY <1>4, <2>1, <2>2, <2>3
<1>5. QED
  BY <1>1, <1>2, <1>3, <1>4

-----------------------------------------------------------------------------
(* Steps of the extension requests *)

\* What a handler turns into.
LEMMA HandlerTurns ==
  ASSUME NEW f \in [ExHandler -> ExTask], NEW h \in ExHandler, NEW t \in ExTask
  PROVE  /\ [f EXCEPT ![h] = t] \in [ExHandler -> ExTask]
         /\ [f EXCEPT ![h] = t][h] = t
         /\ \A k \in ExHandler \ {h} : [f EXCEPT ![h] = t][k] = f[k]
OBVIOUS

\* A request that has got its number.
LEMMA Numbered ==
  ASSUME NEW v \in ExTask, NEW r, v.op = "request"
  PROVE  [v EXCEPT !.phase = "notify", !.on = r]
           = [op |-> "request", via |-> v.via, on |-> r, phase |-> "notify"]
<1> DEFINE w == [op |-> "request", via |-> v.via, on |-> r, phase |-> "notify"]
           u == [v EXCEPT !.phase = "notify", !.on = r]
<1>1. DOMAIN u = {"op", "via", "on", "phase"} /\ DOMAIN w = {"op", "via", "on", "phase"}
  BY DEF ExTask
<1>2. u["op"] = w["op"] /\ u["via"] = w["via"] /\ u["on"] = w["on"] /\ u["phase"] = w["phase"]
  BY DEF ExTask
<1>3. u = [x \in {"op", "via", "on", "phase"} |-> u[x]]
      /\ w = [x \in {"op", "via", "on", "phase"} |-> w[x]]
  BY <1>1, Zenon
<1> HIDE DEF u, w
<1>4. u = w
  BY <1>2, <1>3
<1>5. QED
  BY <1>4 DEF u, w

\* A handler at rest.
LEMMA Resting ==
  /\ ExRest \in ExTask /\ InOrder(ExRest)
  /\ ExRest.op = "idle" /\ ExRest.phase = "none" /\ ExRest.via = "web"
BY DEF ExRest, ExTask, ExVia, InOrder

\* Handlers that wait to commit or to audit, when one of them moves.
LEMMA Waiting ==
  ASSUME NEW f, NEW g, NEW h \in ExHandler,
         IsFiniteSet(ToCommit(f)), IsFiniteSet(ToAudit(f)),
         \A k \in ExHandler \ {h} : g[k] = f[k]
  PROVE  /\ IsFiniteSet(ToCommit(g)) /\ IsFiniteSet(ToAudit(g))
         /\ Cardinality(ToCommit(f)) \in Nat /\ Cardinality(ToAudit(f)) \in Nat
         /\ Cardinality(ToCommit(g)) \in Nat /\ Cardinality(ToAudit(g)) \in Nat
         /\ h \in ToCommit(f) /\ h \notin ToCommit(g)
              => Cardinality(ToCommit(f)) = Cardinality(ToCommit(g)) + 1
         /\ h \notin ToCommit(f) /\ h \in ToCommit(g)
              => Cardinality(ToCommit(g)) = Cardinality(ToCommit(f)) + 1
         /\ (h \in ToCommit(f) <=> h \in ToCommit(g))
              => Cardinality(ToCommit(g)) = Cardinality(ToCommit(f))
         /\ h \in ToAudit(f) /\ h \notin ToAudit(g)
              => Cardinality(ToAudit(f)) = Cardinality(ToAudit(g)) + 1
         /\ h \notin ToAudit(f) /\ h \in ToAudit(g)
              => Cardinality(ToAudit(g)) = Cardinality(ToAudit(f)) + 1
         /\ (h \in ToAudit(f) <=> h \in ToAudit(g))
              => Cardinality(ToAudit(g)) = Cardinality(ToAudit(f))
<1>1. \A k : k # h => (k \in ToCommit(f) <=> k \in ToCommit(g))
  BY DEF ToCommit
<1>2. \A k : k # h => (k \in ToAudit(f) <=> k \in ToAudit(g))
  BY DEF ToAudit
<1> DEFINE S == ToCommit(f)  T == ToCommit(g)  U == ToAudit(f)  V == ToAudit(g)
<1> HIDE DEF S, T, U, V
<1>3. IsFiniteSet(S) /\ \A k : k # h => (k \in S <=> k \in T)
  BY <1>1 DEF S, T
<1>4. IsFiniteSet(U) /\ \A k : k # h => (k \in U <=> k \in V)
  BY <1>2 DEF U, V
<1>5. /\ IsFiniteSet(T) /\ Cardinality(S) \in Nat /\ Cardinality(T) \in Nat
      /\ h \in S /\ h \notin T => Cardinality(S) = Cardinality(T) + 1
      /\ h \notin S /\ h \in T => Cardinality(T) = Cardinality(S) + 1
      /\ (h \in S <=> h \in T) => Cardinality(T) = Cardinality(S)
  BY <1>3, OneComesOrGoes
<1>6. /\ IsFiniteSet(V) /\ Cardinality(U) \in Nat /\ Cardinality(V) \in Nat
      /\ h \in U /\ h \notin V => Cardinality(U) = Cardinality(V) + 1
      /\ h \notin U /\ h \in V => Cardinality(V) = Cardinality(U) + 1
      /\ (h \in U <=> h \in V) => Cardinality(V) = Cardinality(U)
  BY <1>4, OneComesOrGoes
<1>7. QED
  BY <1>5, <1>6 DEF S, T, U, V

\* At first nothing is asked.
LEMMA ExInitInv == ExInit => ExInv
<1> SUFFICES ASSUME ExInit PROVE ExInv
  OBVIOUS
<1>1. exTasks \in [ExHandler -> ExTask] /\ \A h \in ExHandler : exTasks[h] = ExRest
  BY Resting DEF ExInit
<1>2. ExTypes
  BY <1>1, ExtensionAssumption DEF ExInit, ExTypes, Answer
<1>3. TasksInOrder
  BY <1>1, Resting DEF TasksInOrder
<1>4. ToCommit(exTasks) = {} /\ ToAudit(exTasks) = {}
  BY <1>1, Resting DEF ToCommit, ToAudit
<1>5. IsFiniteSet({}) /\ Cardinality({}) = 0
  BY FS_EmptySet
<1>6. ExCounted
  <2>1. exLog.ops = 0 /\ exLog.faults = 0 /\ exLog.done = 0 /\ exLog.audited = 0
    BY Zenon DEF ExInit
  <2>2. QED
    BY <2>1, <1>4, <1>5 DEF ExCounted
<1>7. FirstIsResolved /\ FirstStands /\ OnePending /\ ToBeTold
  BY DEF FirstIsResolved, FirstStands, OnePending, ToBeTold, ExInit, Resolved
<1>8. OneAtATime /\ StillSo /\ StillTrue
  BY <1>1, Resting DEF OneAtATime, StillSo, StillTrue
<1>9. QED
  BY <1>2, <1>3, <1>6, <1>7, <1>8 DEF ExInv
\* A handler begins: it is counted, and overlaps with those that have not ended.
LEMMA ExBegins ==
  ASSUME ExInv, NEW h \in ExHandler, NEW op \in {"request", "approve", "reject"},
         NEW via \in ExVia, NEW r \in ExRequest \cup {0}, BeginEx(h, op, via, r),
         op = "request" => NonePending,
         op # "request" => r \in ExRequest /\ Decidable(op, via, r)
  PROVE  ExInv'
<1> DEFINE t == [op |-> op, via |-> via, on |-> r, phase |-> "commit"]
           b == exLog.overlapped \/ ~ExQuiet
<1>1. /\ t \in ExTask /\ InOrder(t)
      /\ t.op = op /\ t.via = via /\ t.on = r /\ t.phase = "commit" /\ t.op # "idle"
  BY DEF ExTask, InOrder, ExVia
<1>2. exTasks' = [exTasks EXCEPT ![h] = t]
  BY DEF BeginEx
<1>3. b \in BOOLEAN
  BY DEF ExInv, ExTypes
<1>4. exLog' = [ops |-> exLog.ops + 1, faults |-> exLog.faults, overlapped |-> b,
                overruled |-> exLog.overruled, unheard |-> exLog.unheard, first |-> exLog.first,
                decided |-> exLog.decided, done |-> exLog.done, audited |-> exLog.audited]
  <2>1. exLog' = [exLog EXCEPT !.ops = @ + 1, !.overlapped = b]
    BY DEF BeginEx
  <2> HIDE DEF b
  <2>2. QED
    BY <2>1 DEF ExInv, ExTypes
<1>5. b = FALSE => exLog.overlapped = FALSE /\ \A k \in ExHandler : exTasks[k].op = "idle"
  BY DEF ExQuiet, ExInv, ExTypes
<1> HIDE DEF t, b
<1>6. /\ exTasks' \in [ExHandler -> ExTask] /\ exTasks'[h] = t
      /\ \A k \in ExHandler \ {h} : exTasks'[k] = exTasks[k]
  BY <1>1, <1>2, HandlerTurns DEF ExInv, ExTypes
<1>7. /\ exLog'.ops = exLog.ops + 1 /\ exLog'.faults = exLog.faults /\ exLog'.overlapped = b
      /\ exLog'.overruled = exLog.overruled /\ exLog'.unheard = exLog.unheard
      /\ exLog'.decided = exLog.decided
      /\ exLog'.first = exLog.first /\ exLog'.done = exLog.done
      /\ exLog'.audited = exLog.audited
  BY <1>4
<1>8. exLog.ops < MaxExOps /\ UNCHANGED <<exRows, mapped, adminMapped, told, announced>>
  BY DEF BeginEx
<1>9. ExTypes'
  BY <1>3, <1>4, <1>6, <1>7, <1>8, ExtensionAssumption DEF ExInv, ExTypes
<1>10. TasksInOrder'
  BY <1>1, <1>6 DEF ExInv, TasksInOrder
<1>11. exTasks[h].op = "idle" /\ exTasks[h].phase = "none"
  BY DEF ExInv, TasksInOrder, InOrder, BeginEx
<1>12. ExCounted'
  <2>1. h \notin ToCommit(exTasks) /\ h \notin ToAudit(exTasks) /\ h \notin ToAudit(exTasks')
    BY <1>1, <1>6, <1>11 DEF ToCommit, ToAudit
  <2>2. /\ IsFiniteSet(ToCommit(exTasks')) /\ IsFiniteSet(ToAudit(exTasks'))
        /\ Cardinality(ToCommit(exTasks)) \in Nat /\ Cardinality(ToAudit(exTasks)) \in Nat
        /\ Cardinality(ToCommit(exTasks')) \in Nat
        /\ \/ Cardinality(ToCommit(exTasks')) = Cardinality(ToCommit(exTasks)) + 1
           \/ Cardinality(ToCommit(exTasks')) = Cardinality(ToCommit(exTasks))
        /\ Cardinality(ToAudit(exTasks')) = Cardinality(ToAudit(exTasks))
    BY <2>1, <1>6, Waiting DEF ExInv, ExCounted
  <2>3. exLog.ops \in Nat /\ exLog.done \in Nat /\ exLog.audited \in Nat
    BY ExtensionAssumption DEF ExInv, ExTypes
  <2>4. /\ exLog.done + Cardinality(ToCommit(exTasks)) <= exLog.ops
        /\ exLog.audited + Cardinality(ToAudit(exTasks)) <= exLog.done
        /\ exLog.faults = 0 => exLog.audited + Cardinality(ToAudit(exTasks)) = exLog.done
    BY DEF ExInv, ExCounted
  <2>5. exLog'.done + Cardinality(ToCommit(exTasks')) <= exLog'.ops
    BY <2>2, <2>3, <2>4, <1>7
  <2>6. /\ exLog'.audited + Cardinality(ToAudit(exTasks')) <= exLog'.done
        /\ exLog'.faults = 0 => exLog'.audited + Cardinality(ToAudit(exTasks')) = exLog'.done
    BY <2>2, <2>4, <1>7
  <2>7. QED
    BY <2>2, <2>5, <2>6 DEF ExCounted
<1>13. FirstIsResolved'
  BY <1>7, <1>8 DEF ExInv, FirstIsResolved
<1>14. ASSUME ~exLog'.overlapped PROVE (OneAtATime /\ StillSo /\ OnePending /\ StillTrue)'
  <2>1. ~exLog.overlapped /\ \A k \in ExHandler : exTasks[k].op = "idle"
    BY <1>14, <1>7, <1>5
  <2>2. \A k \in ExHandler \ {h} : exTasks'[k].op = "idle" /\ exTasks'[k].phase = "none"
    BY <2>1, <1>6 DEF ExInv, TasksInOrder, InOrder
  <2>3. OneAtATime' /\ StillTrue'
    BY <2>2, <1>6, <1>1 DEF OneAtATime, StillTrue
  <2>4. StillSo'
    BY <2>2, <1>6, <1>1, <1>8 DEF StillSo, NonePending, Decidable
  <2>5. OnePending'
    BY <2>1, <1>8 DEF ExInv, OnePending
  <2>6. QED
    BY <2>3, <2>4, <2>5
<1>15. ASSUME ~exLog'.overlapped, ~exLog'.overruled PROVE FirstStands'
  BY <1>15, <1>5, <1>7, <1>8 DEF ExInv, FirstStands
<1>16. ASSUME ~exLog'.overlapped, exLog'.faults = 0 PROVE ToBeTold'
  <2>1. ToBeTold /\ \A k \in ExHandler : exTasks[k].op = "idle"
    BY <1>16, <1>5, <1>7 DEF ExInv
  <2>2. \A k \in ExHandler : exTasks[k].phase # "notify"
    BY <2>1 DEF ExInv, TasksInOrder, InOrder
  <2>3. QED
    BY <2>1, <2>2, <1>7, <1>8 DEF ToBeTold, Missed
<1>17. QED
  BY <1>9, <1>10, <1>12, <1>13, <1>14, <1>15, <1>16 DEF ExInv
\* A request is inserted: it is the only one that waits, unless handlers overlapped.
LEMMA RequestCommits ==
  ASSUME ExInv, NEW h \in ExHandler, CommitRequest(h)
  PROVE  ExInv'
<1>1. PICK r \in ExRequest :
        /\ Inserted(r) /\ exRows' = [exRows EXCEPT ![r] = "pending"]
        /\ exTasks' = [exTasks EXCEPT ![h].phase = "notify", ![h].on = r]
  BY DEF CommitRequest
<1> DEFINE t == [op |-> "request", via |-> exTasks[h].via, on |-> r, phase |-> "notify"]
           d == IF exTasks[h].via = "web" THEN exLog.done + 1 ELSE exLog.done
<1>2. /\ exTasks[h] \in ExTask
      /\ exTasks[h].op = "request" /\ exTasks[h].phase = "commit"
  BY DEF ExInv, ExTypes, CommitRequest
<1>3. /\ t \in ExTask /\ InOrder(t) /\ t.via = exTasks[h].via
      /\ t.op = "request" /\ t.on = r /\ t.phase = "notify"
  BY <1>2 DEF ExTask, InOrder
<1>4. exTasks' = [exTasks EXCEPT ![h] = t]
  <2>1. [exTasks[h] EXCEPT !.phase = "notify", !.on = r] = t
    BY <1>2, Numbered
  <2>2. exTasks' = [exTasks EXCEPT ![h] = [exTasks[h] EXCEPT !.phase = "notify", !.on = r]]
    BY <1>1 DEF ExInv, ExTypes
  <2>3. QED
    BY <2>1, <2>2
<1>5. exLog' = [ops |-> exLog.ops, faults |-> exLog.faults, overlapped |-> exLog.overlapped,
                overruled |-> exLog.overruled, unheard |-> exLog.unheard, first |-> exLog.first,
                decided |-> exLog.decided, done |-> d, audited |-> exLog.audited]
  <2>1. exLog' = [exLog EXCEPT !.done = d]
    BY DEF CommitRequest
  <2> HIDE DEF d
  <2>2. QED
    BY <2>1 DEF ExInv, ExTypes
<1>6. /\ d = exLog.done + 1 \/ d = exLog.done
      /\ exTasks[h].via = "web" => d = exLog.done + 1
      /\ exTasks[h].via # "web" => d = exLog.done
  OBVIOUS
<1> HIDE DEF t, d
<1>7. /\ exTasks' \in [ExHandler -> ExTask] /\ exTasks'[h] = t
      /\ \A k \in ExHandler \ {h} : exTasks'[k] = exTasks[k]
  BY <1>3, <1>4, HandlerTurns DEF ExInv, ExTypes
<1>8. /\ exLog'.ops = exLog.ops /\ exLog'.faults = exLog.faults
      /\ exLog'.overlapped = exLog.overlapped
      /\ exLog'.overruled = exLog.overruled /\ exLog'.unheard = exLog.unheard
      /\ exLog'.decided = exLog.decided
      /\ exLog'.first = exLog.first /\ exLog'.done = d
      /\ exLog'.audited = exLog.audited
  BY <1>5
<1>9. UNCHANGED <<mapped, adminMapped, told, announced>>
  BY DEF CommitRequest
<1>10. /\ exRows' \in [ExRequest -> {"none", "pending"} \cup Resolved]
       /\ exRows[r] = "none" /\ exRows'[r] = "pending"
       /\ \A q \in ExRequest \ {r} : exRows'[q] = exRows[q]
  BY <1>1 DEF ExInv, ExTypes, Inserted
<1>11. exLog.done \in Nat /\ exLog.audited \in Nat /\ exLog.ops \in Nat /\ d \in Nat
  BY <1>6, ExtensionAssumption DEF ExInv, ExTypes
<1>12. ExTypes'
  <2>1. exLog' = [ops |-> exLog'.ops, faults |-> exLog'.faults, overlapped |-> exLog'.overlapped,
                  overruled |-> exLog'.overruled, unheard |-> exLog'.unheard,
                  first |-> exLog'.first, decided |-> exLog'.decided, done |-> exLog'.done,
                  audited |-> exLog'.audited]
    BY <1>5, <1>8
  <2>2. QED
    BY <2>1, <1>7, <1>8, <1>9, <1>10, <1>11 DEF ExInv, ExTypes
<1>13. TasksInOrder'
  BY <1>3, <1>7 DEF ExInv, TasksInOrder
<1>14. ExCounted'
  <2>1. /\ h \notin ToAudit(exTasks) /\ h \notin ToCommit(exTasks')
        /\ h \in ToCommit(exTasks) <=> exTasks[h].via = "web"
        /\ h \in ToAudit(exTasks') <=> exTasks[h].via = "web"
    BY <1>2, <1>3, <1>7 DEF ToCommit, ToAudit
  <2>2. /\ IsFiniteSet(ToCommit(exTasks)) /\ IsFiniteSet(ToAudit(exTasks))
        /\ exLog.done + Cardinality(ToCommit(exTasks)) <= exLog.ops
        /\ exLog.audited + Cardinality(ToAudit(exTasks)) <= exLog.done
        /\ exLog.faults = 0 => exLog.audited + Cardinality(ToAudit(exTasks)) = exLog.done
    BY DEF ExInv, ExCounted
  <2>3. /\ IsFiniteSet(ToCommit(exTasks')) /\ IsFiniteSet(ToAudit(exTasks'))
        /\ Cardinality(ToCommit(exTasks)) \in Nat /\ Cardinality(ToAudit(exTasks)) \in Nat
        /\ Cardinality(ToCommit(exTasks')) \in Nat /\ Cardinality(ToAudit(exTasks')) \in Nat
    BY <2>2, <1>7, Waiting
  <2>4. CASE exTasks[h].via = "web"
    <3>1. /\ Cardinality(ToCommit(exTasks)) = Cardinality(ToCommit(exTasks')) + 1
          /\ Cardinality(ToAudit(exTasks')) = Cardinality(ToAudit(exTasks)) + 1
      BY <2>1, <2>2, <2>4, <1>7, Waiting
    <3>2. QED
      BY <3>1, <2>2, <2>3, <2>4, <1>6, <1>8, <1>11 DEF ExCounted
  <2>5. CASE exTasks[h].via # "web"
    <3>1. /\ Cardinality(ToCommit(exTasks')) = Cardinality(ToCommit(exTasks))
          /\ Cardinality(ToAudit(exTasks')) = Cardinality(ToAudit(exTasks))
      BY <2>1, <2>2, <2>5, <1>7, Waiting
    <3>2. QED
      BY <3>1, <2>2, <2>3, <2>5, <1>6, <1>8, <1>11 DEF ExCounted
  <2>6. QED
    BY <2>4, <2>5
<1>15. FirstIsResolved'
  BY <1>8, <1>10 DEF ExInv, FirstIsResolved, Resolved
<1>16. ASSUME ~exLog'.overlapped PROVE (OneAtATime /\ StillSo /\ OnePending /\ StillTrue)'
  <2>1. OneAtATime /\ NonePending
    BY <1>16, <1>8, <1>2 DEF ExInv, StillSo
  <2>2. \A k \in ExHandler \ {h} : exTasks'[k].op = "idle" /\ exTasks'[k].phase = "none"
    BY <2>1, <1>2, <1>7 DEF ExInv, OneAtATime, TasksInOrder, InOrder
  <2>3. OneAtATime' /\ StillTrue' /\ StillSo'
    BY <2>2, <1>7, <1>3 DEF OneAtATime, StillTrue, StillSo
  <2>4. OnePending'
    BY <2>1, <1>10 DEF NonePending, OnePending
  <2>5. QED
    BY <2>3, <2>4
<1>17. ASSUME ~exLog'.overlapped, ~exLog'.overruled PROVE FirstStands'
  BY <1>17, <1>8, <1>10 DEF ExInv, FirstStands, Resolved
<1>18. ASSUME ~exLog'.overlapped, exLog'.faults = 0 PROVE ToBeTold'
  <2>0. \A q, who : Missed(q, who)' <=> Missed(q, who)
    BY <1>8 DEF Missed
  <2>1. ToBeTold
    BY <1>18, <1>8 DEF ExInv
  <2>2. \A k \in ExHandler : exTasks[k].phase = "notify" => k # h /\ exTasks'[k] = exTasks[k]
    BY <1>2, <1>7
  <2>3. \A q \in ExRequest \ {r} :
          /\ exRows'[q] \in Resolved => \/ told'[q] = exRows'[q] \/ Missed(q, "person")'
                                       \/ \E k \in ExHandler : /\ exTasks'[k].phase = "notify"
                                                               /\ exTasks'[k].op # "request"
                                                               /\ exTasks'[k].on = q
          /\ exRows'[q] # "none" => \/ q \in announced' \/ Missed(q, "admin")'
                                   \/ \E k \in ExHandler : /\ exTasks'[k].phase = "notify"
                                                           /\ exTasks'[k].op = "request"
                                                           /\ exTasks'[k].on = q
    BY <2>0, <2>1, <2>2, <1>9, <1>10 DEF ToBeTold
  <2>4. exRows'[r] \notin Resolved
    BY <1>10 DEF Resolved
  <2>5. \E k \in ExHandler : /\ exTasks'[k].phase = "notify"
                             /\ exTasks'[k].op = "request"
                             /\ exTasks'[k].on = r
    BY <1>3, <1>7
  <2>6. QED
    BY <2>3, <2>4, <2>5 DEF ToBeTold
<1>19. QED
  BY <1>12, <1>13, <1>14, <1>15, <1>16, <1>17, <1>18 DEF ExInv

\* A decision is written: it is of a request that waits, or the web overrules one.
LEMMA DecisionCommits ==
  ASSUME ExInv, NEW h \in ExHandler, CommitDecision(h)
  PROVE  ExInv'
<1> DEFINE r == exTasks[h].on
           w == Outcome(exTasks[h].op)
           t == [op |-> exTasks[h].op, via |-> exTasks[h].via, on |-> r, phase |-> "notify"]
           d == IF exTasks[h].via = "web" THEN exLog.done + 1 ELSE exLog.done
           b == \/ exLog.overruled
                \/ Overrules(exTasks[h].op, exTasks[h].via) /\ exRows[r] # "pending"
           f == [exLog.first EXCEPT ![r] = IF exLog.first[r] = "none" THEN w ELSE exLog.first[r]]
           c == [exLog.decided EXCEPT ![r] = IF Overrules(exTasks[h].op, exTasks[h].via) THEN @
                                             ELSE @ + 1]
<1>1. /\ exTasks[h] \in ExTask
      /\ exTasks[h].op \in {"approve", "reject"} /\ exTasks[h].phase = "commit"
  BY DEF ExInv, ExTypes, CommitDecision
<1>2. r \in ExRequest /\ w \in Resolved /\ w # "none"
  BY <1>1 DEF ExInv, TasksInOrder, InOrder, Outcome, Resolved
<1>3. /\ t \in ExTask /\ InOrder(t) /\ t.via = exTasks[h].via /\ t.op \in {"approve", "reject"}
      /\ t.op = exTasks[h].op /\ t.on = r /\ t.phase = "notify" /\ Outcome(t.op) = w
  BY <1>1, <1>2 DEF ExTask, InOrder
<1>4. exTasks' = [exTasks EXCEPT ![h] = t]
  <2>1. [exTasks[h] EXCEPT !.phase = "notify"] = t
    BY <1>1 DEF ExTask
  <2>2. exTasks' = [exTasks EXCEPT ![h] = [exTasks[h] EXCEPT !.phase = "notify"]]
    BY DEF CommitDecision
  <2>3. QED
    BY <2>1, <2>2
<1>5. exRows' = [exRows EXCEPT ![r] = w]
  BY DEF CommitDecision
<1>6. b \in BOOLEAN /\ (b = FALSE => exLog.overruled = FALSE)
  BY DEF ExInv, ExTypes
<1>7. b = FALSE => (Overrules(exTasks[h].op, exTasks[h].via) => exRows[r] = "pending")
  BY DEF ExInv, ExTypes
<1>8. /\ f \in [ExRequest -> Answer]
      /\ f[r] = IF exLog.first[r] = "none" THEN w ELSE exLog.first[r]
      /\ \A q \in ExRequest \ {r} : f[q] = exLog.first[q]
      /\ c \in [ExRequest -> Nat]
  BY <1>2 DEF ExInv, ExTypes, Answer
<1>9. exLog' = [ops |-> exLog.ops, faults |-> exLog.faults, overlapped |-> exLog.overlapped,
                overruled |-> b, unheard |-> exLog.unheard, first |-> f,
                decided |-> c, done |-> d, audited |-> exLog.audited]
  <2>1. exLog' = [exLog EXCEPT !.first = f, !.decided = c, !.overruled = b, !.done = d]
    BY DEF CommitDecision, ExInv, ExTypes
  <2> HIDE DEF b, d, f, c
  <2>2. QED
    BY <2>1 DEF ExInv, ExTypes
<1>10. /\ d = exLog.done + 1 \/ d = exLog.done
       /\ exTasks[h].via = "web" => d = exLog.done + 1
       /\ exTasks[h].via # "web" => d = exLog.done
  OBVIOUS
<1>11. UNCHANGED <<mapped, adminMapped, told, announced>>
  BY DEF CommitDecision
<1>12. PICK on : on = r
  OBVIOUS
<1> HIDE DEF t, d, b, f, c, r, w
<1>13. /\ exTasks' \in [ExHandler -> ExTask] /\ exTasks'[h] = t
       /\ \A k \in ExHandler \ {h} : exTasks'[k] = exTasks[k]
  BY <1>3, <1>4, HandlerTurns DEF ExInv, ExTypes
<1>14. /\ exLog'.ops = exLog.ops /\ exLog'.faults = exLog.faults
       /\ exLog'.overlapped = exLog.overlapped
       /\ exLog'.overruled = b /\ exLog'.unheard = exLog.unheard /\ exLog'.decided = c
       /\ exLog'.first = f /\ exLog'.done = d
       /\ exLog'.audited = exLog.audited
  BY <1>9
<1>15. /\ exRows' \in [ExRequest -> {"none", "pending"} \cup Resolved]
       /\ exRows'[on] = w /\ on \in ExRequest
       /\ \A q \in ExRequest \ {on} : exRows'[q] = exRows[q]
  BY <1>2, <1>5, <1>12 DEF ExInv, ExTypes
<1>16. exLog.done \in Nat /\ exLog.audited \in Nat /\ exLog.ops \in Nat /\ d \in Nat
  BY <1>10, ExtensionAssumption DEF ExInv, ExTypes
<1>17. ExTypes'
  <2>1. exLog' = [ops |-> exLog'.ops, faults |-> exLog'.faults, overlapped |-> exLog'.overlapped,
                  overruled |-> exLog'.overruled, unheard |-> exLog'.unheard,
                  first |-> exLog'.first, decided |-> exLog'.decided, done |-> exLog'.done,
                  audited |-> exLog'.audited]
    BY <1>9, <1>14
  <2>2. QED
    BY <2>1, <1>6, <1>8, <1>11, <1>13, <1>14, <1>15, <1>16 DEF ExInv, ExTypes
<1>18. TasksInOrder'
  BY <1>3, <1>13 DEF ExInv, TasksInOrder
<1>19. ExCounted'
  <2>1. /\ h \notin ToAudit(exTasks) /\ h \notin ToCommit(exTasks')
        /\ h \in ToCommit(exTasks) <=> exTasks[h].via = "web"
        /\ h \in ToAudit(exTasks') <=> exTasks[h].via = "web"
    BY <1>1, <1>3, <1>13 DEF ToCommit, ToAudit
  <2>2. /\ IsFiniteSet(ToCommit(exTasks)) /\ IsFiniteSet(ToAudit(exTasks))
        /\ exLog.done + Cardinality(ToCommit(exTasks)) <= exLog.ops
        /\ exLog.audited + Cardinality(ToAudit(exTasks)) <= exLog.done
        /\ exLog.faults = 0 => exLog.audited + Cardinality(ToAudit(exTasks)) = exLog.done
    BY DEF ExInv, ExCounted
  <2>3. /\ IsFiniteSet(ToCommit(exTasks')) /\ IsFiniteSet(ToAudit(exTasks'))
        /\ Cardinality(ToCommit(exTasks)) \in Nat /\ Cardinality(ToAudit(exTasks)) \in Nat
        /\ Cardinality(ToCommit(exTasks')) \in Nat /\ Cardinality(ToAudit(exTasks')) \in Nat
    BY <2>2, <1>13, Waiting
  <2>4. CASE exTasks[h].via = "web"
    <3>1. /\ Cardinality(ToCommit(exTasks)) = Cardinality(ToCommit(exTasks')) + 1
          /\ Cardinality(ToAudit(exTasks')) = Cardinality(ToAudit(exTasks)) + 1
      BY <2>1, <2>2, <2>4, <1>13, Waiting
    <3>2. QED
      BY <3>1, <2>2, <2>3, <2>4, <1>10, <1>14, <1>16 DEF ExCounted
  <2>5. CASE exTasks[h].via # "web"
    <3>1. /\ Cardinality(ToCommit(exTasks')) = Cardinality(ToCommit(exTasks))
          /\ Cardinality(ToAudit(exTasks')) = Cardinality(ToAudit(exTasks))
      BY <2>1, <2>2, <2>5, <1>13, Waiting
    <3>2. QED
      BY <3>1, <2>2, <2>3, <2>5, <1>10, <1>14, <1>16 DEF ExCounted
  <2>6. QED
    BY <2>4, <2>5
<1>20. FirstIsResolved'
  BY <1>2, <1>8, <1>12, <1>14, <1>15 DEF ExInv, FirstIsResolved
<1>21. ASSUME ~exLog'.overlapped PROVE (OneAtATime /\ StillSo /\ OnePending /\ StillTrue)'
  <2>1. OneAtATime /\ OnePending
    BY <1>21, <1>14 DEF ExInv
  <2>2. \A k \in ExHandler \ {h} : exTasks'[k].op = "idle" /\ exTasks'[k].phase = "none"
    BY <2>1, <1>1, <1>13 DEF ExInv, OneAtATime, TasksInOrder, InOrder
  <2>3. OneAtATime' /\ StillTrue' /\ StillSo'
    BY <2>2, <1>12, <1>13, <1>15, <1>3 DEF OneAtATime, StillTrue, StillSo
  <2>4. OnePending'
    BY <2>1, <1>2, <1>15 DEF OnePending, Resolved
  <2>5. QED
    BY <2>3, <2>4
<1>22. ASSUME ~exLog'.overlapped, ~exLog'.overruled PROVE FirstStands'
  <2>1. FirstStands /\ b = FALSE /\ Decidable(exTasks[h].op, exTasks[h].via, r)
    BY <1>22, <1>1, <1>6, <1>14 DEF ExInv, StillSo, r
  <2>2. exRows[r] = "pending"
    BY <2>1, <1>7 DEF Decidable
  <2>3. exLog.first[r] = "none"
    BY <2>2, <1>2 DEF ExInv, FirstIsResolved, Resolved
  <2>4. QED
    BY <2>1, <2>3, <1>8, <1>12, <1>14, <1>15 DEF FirstStands
<1>23. ASSUME ~exLog'.overlapped, exLog'.faults = 0 PROVE ToBeTold'
  <2>0. \A q, who : Missed(q, who)' <=> Missed(q, who)
    BY <1>14 DEF Missed
  <2>1. ToBeTold /\ Decidable(exTasks[h].op, exTasks[h].via, r)
    BY <1>23, <1>1, <1>14 DEF ExInv, StillSo, r
  <2>2. \A k \in ExHandler : exTasks[k].phase = "notify" => k # h /\ exTasks'[k] = exTasks[k]
    BY <1>1, <1>13
  <2>3. \A q \in ExRequest \ {on} :
          exRows'[q] \in Resolved => \/ told'[q] = exRows'[q] \/ Missed(q, "person")'
                                     \/ \E k \in ExHandler : /\ exTasks'[k].phase = "notify"
                                                             /\ exTasks'[k].op # "request"
                                                             /\ exTasks'[k].on = q
    BY <2>0, <2>1, <2>2, <1>11, <1>15 DEF ToBeTold
  <2>4. exRows[on] # "none"
    BY <2>1, <1>12 DEF Decidable
  <2>5. \A q \in ExRequest :
          exRows'[q] # "none" => \/ q \in announced' \/ Missed(q, "admin")'
                                 \/ \E k \in ExHandler : /\ exTasks'[k].phase = "notify"
                                                         /\ exTasks'[k].op = "request"
                                                         /\ exTasks'[k].on = q
    BY <2>0, <2>1, <2>2, <2>4, <1>11, <1>15 DEF ToBeTold
  <2>6. \E k \in ExHandler : /\ exTasks'[k].phase = "notify"
                             /\ exTasks'[k].op # "request"
                             /\ exTasks'[k].on = on
    BY <1>3, <1>12, <1>13
  <2>7. QED
    BY <2>3, <2>5, <2>6 DEF ToBeTold
<1>24. QED
  BY <1>17, <1>18, <1>19, <1>20, <1>21, <1>22, <1>23 DEF ExInv
\* The administrator or the person is told; a handler of the web goes on to audit.
LEMMA Notifies ==
  ASSUME ExInv, NEW h \in ExHandler, Notify(h)
  PROVE  ExInv'
<1> DEFINE v == exTasks[h]
           t == IF v.via = "web" THEN [v EXCEPT !.phase = "audit"] ELSE ExRest
<1>1. /\ v \in ExTask /\ InOrder(v)
      /\ v.phase = "notify" /\ v.op # "idle" /\ v.on \in ExRequest
      /\ v.op \in {"request", "approve", "reject"} /\ Outcome(v.op) \in Resolved
  BY DEF ExInv, ExTypes, ExTask, TasksInOrder, InOrder, Notify, Outcome, Resolved
<1>2. /\ t \in ExTask /\ InOrder(t) /\ t.phase \in {"none", "audit"}
      /\ t.phase = "audit" <=> v.via = "web"
      /\ t.via = "web"
      /\ t.op = v.op \/ t.op = "idle"
  BY <1>1, Resting DEF ExTask, InOrder
<1>3. exTasks' = [exTasks EXCEPT ![h] = t]
  BY DEF Notify, ExInv, ExTypes
<1>4. PICK heard \in BOOLEAN :
        /\ announced' = IF heard /\ v.op = "request" THEN announced \cup {v.on} ELSE announced
        /\ told' = IF heard /\ v.op # "request"
                     THEN [told EXCEPT ![v.on] = Outcome(v.op)] ELSE told
        /\ exLog' = [exLog EXCEPT
             !.unheard = IF heard THEN @ ELSE @ \cup {<<v.on, Recipient(v.op)>>}]
        /\ UNCHANGED <<exRows, mapped, adminMapped>>
  BY DEF Notify
<1> DEFINE b == IF heard THEN exLog.unheard ELSE exLog.unheard \cup {<<v.on, Recipient(v.op)>>}
<1>5. /\ b \subseteq ExRequest \X {"admin", "person"} /\ exLog.unheard \subseteq b
      /\ ~heard /\ v.op = "request" => <<v.on, "admin">> \in b
      /\ ~heard /\ v.op # "request" => <<v.on, "person">> \in b
  BY <1>1 DEF ExInv, ExTypes, Recipient
<1>6. exLog' = [ops |-> exLog.ops, faults |-> exLog.faults, overlapped |-> exLog.overlapped,
                overruled |-> exLog.overruled, unheard |-> b, first |-> exLog.first,
                decided |-> exLog.decided, done |-> exLog.done, audited |-> exLog.audited]
  <2>1. exLog' = [exLog EXCEPT !.unheard = b]
    BY <1>4
  <2> HIDE DEF b
  <2>2. QED
    BY <2>1 DEF ExInv, ExTypes
<1>7. UNCHANGED <<exRows, mapped, adminMapped>>
  BY <1>4
<1>8. PICK u : u = v
  OBVIOUS
<1> HIDE DEF t, b, v
<1>9. /\ exTasks' \in [ExHandler -> ExTask] /\ exTasks'[h] = t
      /\ \A k \in ExHandler \ {h} : exTasks'[k] = exTasks[k]
  BY <1>2, <1>3, HandlerTurns DEF ExInv, ExTypes
<1>10. /\ exLog'.ops = exLog.ops /\ exLog'.faults = exLog.faults
       /\ exLog'.overlapped = exLog.overlapped
       /\ exLog'.overruled = exLog.overruled /\ exLog'.unheard = b /\ exLog'.decided = exLog.decided
       /\ exLog'.first = exLog.first /\ exLog'.done = exLog.done
       /\ exLog'.audited = exLog.audited
  BY <1>6
<1>11. exLog' = [ops |-> exLog'.ops, faults |-> exLog'.faults, overlapped |-> exLog'.overlapped,
                 overruled |-> exLog'.overruled, unheard |-> exLog'.unheard,
                 first |-> exLog'.first, decided |-> exLog'.decided, done |-> exLog'.done,
                  audited |-> exLog'.audited]
  BY <1>6, <1>10
<1>12. told' \in [ExRequest -> Answer] /\ announced' \subseteq ExRequest
  BY <1>1, <1>4 DEF ExInv, ExTypes, Answer
<1>13. ExTypes'
  BY <1>5, <1>7, <1>9, <1>10, <1>11, <1>12 DEF ExInv, ExTypes
<1>14. TasksInOrder'
  BY <1>2, <1>9 DEF ExInv, TasksInOrder
<1>15. ExCounted'
  <2>1. /\ h \notin ToCommit(exTasks) /\ h \notin ToCommit(exTasks')
        /\ h \in ToAudit(exTasks) <=> h \in ToAudit(exTasks')
    BY <1>1, <1>2, <1>9 DEF ToCommit, ToAudit, v
  <2>2. /\ IsFiniteSet(ToCommit(exTasks)) /\ IsFiniteSet(ToAudit(exTasks))
        /\ exLog.done + Cardinality(ToCommit(exTasks)) <= exLog.ops
        /\ exLog.audited + Cardinality(ToAudit(exTasks)) <= exLog.done
        /\ exLog.faults = 0 => exLog.audited + Cardinality(ToAudit(exTasks)) = exLog.done
    BY DEF ExInv, ExCounted
  <2>3. /\ IsFiniteSet(ToCommit(exTasks')) /\ IsFiniteSet(ToAudit(exTasks'))
        /\ Cardinality(ToCommit(exTasks')) = Cardinality(ToCommit(exTasks))
        /\ Cardinality(ToAudit(exTasks')) = Cardinality(ToAudit(exTasks))
    BY <2>1, <2>2, <1>9, Waiting
  <2>4. QED
    BY <2>2, <2>3, <1>10 DEF ExCounted
<1>16. FirstIsResolved'
  BY <1>7, <1>10 DEF ExInv, FirstIsResolved
<1>17. ASSUME ~exLog'.overlapped PROVE (OneAtATime /\ StillSo /\ OnePending /\ StillTrue)'
  <2>1. OneAtATime /\ OnePending
    BY <1>17, <1>10 DEF ExInv
  <2>2. \A k \in ExHandler \ {h} : exTasks'[k].op = "idle" /\ exTasks'[k].phase = "none"
    BY <2>1, <1>1, <1>9 DEF ExInv, OneAtATime, TasksInOrder, InOrder, v
  <2>3. OneAtATime' /\ StillTrue' /\ StillSo'
    BY <2>2, <1>2, <1>9 DEF OneAtATime, StillTrue, StillSo
  <2>4. OnePending'
    BY <2>1, <1>7 DEF OnePending
  <2>5. QED
    BY <2>3, <2>4
<1>18. ASSUME ~exLog'.overlapped, ~exLog'.overruled PROVE FirstStands'
  BY <1>18, <1>7, <1>10 DEF ExInv, FirstStands
<1>19. ASSUME ~exLog'.overlapped, exLog'.faults = 0 PROVE ToBeTold'
  <2>1. ToBeTold /\ StillTrue
    BY <1>19, <1>10 DEF ExInv
  <2>2. v.op # "request" => exRows[v.on] = Outcome(v.op)
    BY <2>1, <1>1 DEF StillTrue, v
  <2>3. \A k \in ExHandler \ {h} : exTasks'[k] = exTasks[k]
    BY <1>9
  <2>4. /\ u.on \in ExRequest /\ exTasks[h] = u
        /\ heard /\ u.op = "request" => u.on \in announced'
        /\ announced \subseteq announced'
        /\ \A q \in ExRequest \ {u.on} : told'[q] = told[q]
        /\ u.op = "request" => told' = told
        /\ heard /\ u.op # "request" => told'[u.on] = Outcome(u.op)
        /\ u.op # "request" => exRows'[u.on] = Outcome(u.op)
        /\ ~heard => told' = told
        /\ ~heard /\ u.op = "request" => Missed(u.on, "admin")'
        /\ ~heard /\ u.op # "request" => Missed(u.on, "person")'
        /\ \A q \in ExRequest : Missed(q, "person") => Missed(q, "person")'
        /\ \A q \in ExRequest : Missed(q, "admin") => Missed(q, "admin")'
    BY <2>2, <1>1, <1>4, <1>5, <1>7, <1>8, <1>10 DEF v, ExInv, ExTypes, Missed
  <2>5. told \in [ExRequest -> Answer]
    BY DEF ExInv, ExTypes
  <2>6. ASSUME NEW q \in ExRequest, exRows'[q] \in Resolved
        PROVE  \/ told'[q] = exRows'[q] \/ Missed(q, "person")'
               \/ \E k \in ExHandler : /\ exTasks'[k].phase = "notify"
                                       /\ exTasks'[k].op # "request"
                                       /\ exTasks'[k].on = q
    BY <2>1, <2>3, <2>4, <2>5, <2>6, <1>7 DEF ToBeTold
  <2>7. ASSUME NEW q \in ExRequest, exRows'[q] # "none"
        PROVE  \/ q \in announced' \/ Missed(q, "admin")'
               \/ \E k \in ExHandler : /\ exTasks'[k].phase = "notify"
                                       /\ exTasks'[k].op = "request"
                                       /\ exTasks'[k].on = q
    BY <2>1, <2>3, <2>4, <2>7, <1>7 DEF ToBeTold
  <2>8. QED
    BY <2>6, <2>7 DEF ToBeTold
<1>20. QED
  BY <1>13, <1>14, <1>15, <1>16, <1>17, <1>18, <1>19 DEF ExInv

\* A handler rests: it has written its line in the audit log, or it failed.
LEMMA ExEnds ==
  ASSUME ExInv, NEW h \in ExHandler, Audit(h) \/ ExFails(h)
  PROVE  ExInv'
<1>1. PICK a \in {exLog.audited, exLog.audited + 1}, n \in {exLog.faults, exLog.faults + 1} :
        /\ \/ exTasks[h].phase = "audit" /\ a = exLog.audited + 1 /\ n = exLog.faults
           \/ a = exLog.audited /\ n = exLog.faults + 1 /\ n <= MaxExFaults
        /\ exLog' = [exLog EXCEPT !.audited = a, !.faults = n]
  <2>1. CASE Audit(h)
    <3>1. exTasks[h].phase = "audit" /\ exLog' = [exLog EXCEPT !.audited = exLog.audited + 1]
      BY <2>1 DEF Audit
    <3>2. exLog' = [exLog EXCEPT !.audited = exLog.audited + 1, !.faults = exLog.faults]
      BY <3>1 DEF ExInv, ExTypes
    <3>3. QED
      BY <3>1, <3>2
  <2>2. CASE ExFails(h)
    <3>1. exLog.faults < MaxExFaults /\ exLog' = [exLog EXCEPT !.faults = exLog.faults + 1]
      BY <2>2 DEF ExFails
    <3>2. exLog' = [exLog EXCEPT !.audited = exLog.audited, !.faults = exLog.faults + 1]
      BY <3>1 DEF ExInv, ExTypes
    <3>3. exLog.faults + 1 <= MaxExFaults
      BY <3>1, ExtensionAssumption DEF ExInv, ExTypes
    <3>4. QED
      BY <3>2, <3>3
  <2>3. QED
    BY <2>1, <2>2
<1>2. /\ exTasks' = [exTasks EXCEPT ![h] = ExRest]
      /\ UNCHANGED <<exRows, mapped, adminMapped, told, announced>>
  BY DEF Audit, ExFails
<1>3. exLog' = [ops |-> exLog.ops, faults |-> n, overlapped |-> exLog.overlapped,
                overruled |-> exLog.overruled, unheard |-> exLog.unheard, first |-> exLog.first,
                decided |-> exLog.decided, done |-> exLog.done, audited |-> a]
  BY <1>1 DEF ExInv, ExTypes
<1>4. /\ exTasks' \in [ExHandler -> ExTask] /\ exTasks'[h] = ExRest
      /\ \A k \in ExHandler \ {h} : exTasks'[k] = exTasks[k]
  BY <1>2, Resting, HandlerTurns DEF ExInv, ExTypes
<1>5. /\ exLog'.ops = exLog.ops /\ exLog'.faults = n
      /\ exLog'.overlapped = exLog.overlapped
      /\ exLog'.overruled = exLog.overruled /\ exLog'.unheard = exLog.unheard
      /\ exLog'.decided = exLog.decided
      /\ exLog'.first = exLog.first /\ exLog'.done = exLog.done
      /\ exLog'.audited = a
  BY <1>3
<1>6. exLog.ops \in Nat /\ exLog.faults \in Nat /\ exLog.done \in Nat /\ exLog.audited \in Nat
  BY ExtensionAssumption DEF ExInv, ExTypes
<1>7. n \in 0..MaxExFaults /\ a \in Nat
  BY <1>1, <1>6, ExtensionAssumption DEF ExInv, ExTypes
<1>8. ExTypes'
  <2>1. exLog' = [ops |-> exLog'.ops, faults |-> exLog'.faults, overlapped |-> exLog'.overlapped,
                  overruled |-> exLog'.overruled, unheard |-> exLog'.unheard,
                  first |-> exLog'.first, decided |-> exLog'.decided, done |-> exLog'.done,
                  audited |-> exLog'.audited]
    BY <1>3, <1>5
  <2>2. QED
    BY <2>1, <1>2, <1>4, <1>5, <1>7 DEF ExInv, ExTypes
<1>9. TasksInOrder'
  BY <1>4, Resting DEF ExInv, TasksInOrder
<1>10. ExCounted'
  <2>1. h \notin ToAudit(exTasks') /\ h \notin ToCommit(exTasks')
    BY <1>4, Resting DEF ToCommit, ToAudit
  <2>2. /\ IsFiniteSet(ToCommit(exTasks)) /\ IsFiniteSet(ToAudit(exTasks))
        /\ exLog.done + Cardinality(ToCommit(exTasks)) <= exLog.ops
        /\ exLog.audited + Cardinality(ToAudit(exTasks)) <= exLog.done
        /\ exLog.faults = 0 => exLog.audited + Cardinality(ToAudit(exTasks)) = exLog.done
    BY DEF ExInv, ExCounted
  <2>3. /\ IsFiniteSet(ToCommit(exTasks')) /\ IsFiniteSet(ToAudit(exTasks'))
        /\ Cardinality(ToCommit(exTasks)) \in Nat /\ Cardinality(ToAudit(exTasks)) \in Nat
        /\ Cardinality(ToCommit(exTasks')) \in Nat /\ Cardinality(ToAudit(exTasks')) \in Nat
    BY <2>2, <1>4, Waiting
  <2>4. /\ \/ Cardinality(ToCommit(exTasks')) = Cardinality(ToCommit(exTasks))
           \/ Cardinality(ToCommit(exTasks)) = Cardinality(ToCommit(exTasks')) + 1
        /\ \/ Cardinality(ToAudit(exTasks')) = Cardinality(ToAudit(exTasks))
           \/ Cardinality(ToAudit(exTasks)) = Cardinality(ToAudit(exTasks')) + 1
        /\ h \in ToAudit(exTasks)
             => Cardinality(ToAudit(exTasks)) = Cardinality(ToAudit(exTasks')) + 1
    BY <2>1, <2>2, <1>4, Waiting
  <2>5. exLog.done + Cardinality(ToCommit(exTasks')) <= exLog.ops
    BY <2>2, <2>3, <2>4, <1>6
  <2>6. CASE exTasks[h].phase = "audit" /\ a = exLog.audited + 1 /\ n = exLog.faults
    <3>1. h \in ToAudit(exTasks)
      BY <2>6 DEF ExInv, TasksInOrder, InOrder, ToAudit
    <3>2. a + Cardinality(ToAudit(exTasks')) = exLog.audited + Cardinality(ToAudit(exTasks))
      BY <3>1, <2>3, <2>4, <2>6, <1>6
    <3>3. QED
      BY <3>2, <2>2, <2>3, <2>5, <2>6, <1>5 DEF ExCounted
  <2>7. CASE a = exLog.audited /\ n = exLog.faults + 1
    <3>1. n # 0
      BY <2>7, <1>6
    <3>2. exLog.audited + Cardinality(ToAudit(exTasks')) <= exLog.done
      BY <2>2, <2>3, <2>4, <1>6
    <3>3. QED
      BY <3>1, <3>2, <2>3, <2>5, <2>7, <1>5 DEF ExCounted
  <2>8. QED
    BY <2>6, <2>7, <1>1
<1>11. FirstIsResolved'
  BY <1>2, <1>5 DEF ExInv, FirstIsResolved
<1>12. ASSUME ~exLog'.overlapped PROVE (OneAtATime /\ StillSo /\ OnePending /\ StillTrue)'
  <2>1. OneAtATime /\ StillSo /\ OnePending /\ StillTrue
    BY <1>12, <1>5 DEF ExInv
  <2>2. OneAtATime' /\ StillTrue' /\ StillSo'
    BY <2>1, <1>2, <1>4, Resting
    DEF OneAtATime, StillTrue, StillSo, NonePending, Decidable
  <2>3. OnePending'
    BY <2>1, <1>2 DEF OnePending
  <2>4. QED
    BY <2>2, <2>3
<1>13. ASSUME ~exLog'.overlapped, ~exLog'.overruled PROVE FirstStands'
  BY <1>13, <1>2, <1>5 DEF ExInv, FirstStands
<1>14. ASSUME ~exLog'.overlapped, exLog'.faults = 0 PROVE ToBeTold'
  <2>0. \A q, who : Missed(q, who)' <=> Missed(q, who)
    BY <1>5 DEF Missed
  <2>1. n = exLog.faults /\ exTasks[h].phase = "audit"
    BY <1>14, <1>1, <1>5, <1>6
  <2>2. ToBeTold
    BY <2>1, <1>14, <1>5 DEF ExInv
  <2>3. \A k \in ExHandler : exTasks[k].phase = "notify" => k # h /\ exTasks'[k] = exTasks[k]
    BY <2>1, <1>4
  <2>4. QED
    BY <2>0, <2>2, <2>3, <1>2 DEF ToBeTold
<1>15. QED
  BY <1>8, <1>9, <1>10, <1>11, <1>12, <1>13, <1>14 DEF ExInv

\* The account is registered with another number.
LEMMA Registers ==
  ASSUME ExInv, NEW whose \in {"nobody", "person", "other"}, NEW admin \in BOOLEAN,
         Register(whose, admin)
  PROVE  ExInv'
<1>1. /\ exLog' = [exLog EXCEPT !.ops = @ + 1] /\ exLog.ops < MaxExOps
      /\ mapped' = whose /\ adminMapped' = admin
      /\ UNCHANGED <<exRows, exTasks, told, announced>>
  BY DEF Register
<1>2. exLog' = [ops |-> exLog.ops + 1, faults |-> exLog.faults,
                overlapped |-> exLog.overlapped, overruled |-> exLog.overruled,
                unheard |-> exLog.unheard, first |-> exLog.first,
                decided |-> exLog.decided, done |-> exLog.done, audited |-> exLog.audited]
  BY <1>1 DEF ExInv, ExTypes
<1>3. /\ exLog'.ops = exLog.ops + 1 /\ exLog'.faults = exLog.faults
      /\ exLog'.overlapped = exLog.overlapped
      /\ exLog'.overruled = exLog.overruled /\ exLog'.unheard = exLog.unheard
      /\ exLog'.decided = exLog.decided
      /\ exLog'.first = exLog.first /\ exLog'.done = exLog.done
      /\ exLog'.audited = exLog.audited
  BY <1>2
<1>4. ExTypes'
  <2>1. exLog' = [ops |-> exLog'.ops, faults |-> exLog'.faults, overlapped |-> exLog'.overlapped,
                  overruled |-> exLog'.overruled, unheard |-> exLog'.unheard,
                  first |-> exLog'.first, decided |-> exLog'.decided, done |-> exLog'.done,
                  audited |-> exLog'.audited]
    BY <1>2, <1>3
  <2>2. QED
    BY <2>1, <1>1, <1>3, ExtensionAssumption DEF ExInv, ExTypes
<1>5. ExCounted'
  <2>1. /\ IsFiniteSet(ToCommit(exTasks)) /\ IsFiniteSet(ToAudit(exTasks))
        /\ exLog.done + Cardinality(ToCommit(exTasks)) <= exLog.ops
        /\ exLog.audited + Cardinality(ToAudit(exTasks)) <= exLog.done
        /\ exLog.faults = 0 => exLog.audited + Cardinality(ToAudit(exTasks)) = exLog.done
    BY DEF ExInv, ExCounted
  <2>2. /\ Cardinality(ToCommit(exTasks)) \in Nat
        /\ exLog.done \in Nat /\ exLog.ops \in Nat
    BY <2>1, FS_CardinalityType, ExtensionAssumption DEF ExInv, ExTypes
  <2>3. exLog.done + Cardinality(ToCommit(exTasks)) <= exLog.ops + 1
    BY <2>1, <2>2
  <2>4. ToCommit(exTasks') = ToCommit(exTasks) /\ ToAudit(exTasks') = ToAudit(exTasks)
    BY <1>1
  <2>5. QED
    BY <2>1, <2>3, <2>4, <1>3 DEF ExCounted
<1>6. /\ TasksInOrder' /\ FirstIsResolved'
      /\ OneAtATime => OneAtATime'
      /\ StillTrue => StillTrue'
      /\ StillSo => StillSo'
      /\ OnePending => OnePending'
      /\ FirstStands => FirstStands'
      /\ ToBeTold => ToBeTold'
  BY <1>1, <1>3
  DEF ExInv, TasksInOrder, FirstIsResolved, OneAtATime, StillTrue, StillSo, NonePending,
      Decidable, OnePending, FirstStands, ToBeTold, Missed
<1>7. QED
  BY <1>3, <1>4, <1>5, <1>6 DEF ExInv
-----------------------------------------------------------------------------
(* What is promised of a request *)

\* The invariant is kept by every step.
LEMMA ExInvHolds == ExSpec => []ExInv
<1>1. ExInv /\ [ExNext]_exVars => ExInv'
  <2> SUFFICES ASSUME ExInv, [ExNext]_exVars PROVE ExInv'
    OBVIOUS
  <2>1. CASE \E whose \in {"nobody", "person", "other"}, admin \in BOOLEAN :
               Register(whose, admin)
    BY <2>1, Registers
  <2>2. ASSUME NEW h \in ExHandler,
               NEW via \in ExVia, RequestExtension(h, via)
        PROVE  ExInv'
    BY <2>2, ExBegins DEF RequestExtension
  <2>3. ASSUME NEW h \in ExHandler, NEW op \in {"approve", "reject"},
               NEW via \in ExVia, NEW r \in ExRequest, Decide(h, op, via, r)
        PROVE  ExInv'
    BY <2>3, ExBegins DEF Decide
  <2>4. ASSUME NEW h \in ExHandler,
               \/ CommitRequest(h) \/ CommitDecision(h) \/ Notify(h)
               \/ Audit(h) \/ ExFails(h)
        PROVE  ExInv'
    BY <2>4, RequestCommits, DecisionCommits, Notifies, ExEnds
  <2>5. CASE UNCHANGED exVars
    BY <2>5
    DEF exVars, ExInv, ExTypes, TasksInOrder, ExCounted, FirstIsResolved, OneAtATime, StillSo,
        NonePending, Decidable, OnePending, StillTrue, FirstStands, ToBeTold, Missed,
        ToCommit, ToAudit
  <2>6. QED
    BY <2>1, <2>2, <2>3, <2>4, <2>5 DEF ExNext, ExVia
<1>2. QED
  BY <1>1, ExInitInv, PTL DEF ExSpec

\* Handlers with a request that is yet to be inserted, and with a decision of a request that
\* waited that is yet to be written.
Askers(f) == {h \in ExHandler : f[h].op = "request" /\ f[h].phase = "commit"}
Deciders(f, r) ==
  {h \in ExHandler : /\ f[h].op \in {"approve", "reject"} /\ f[h].phase = "commit"
                     /\ f[h].on = r /\ ~Overrules(f[h].op, f[h].via)}

\* The handlers that read the same state are the only ones that can act on it twice.
ExBounds ==
  /\ Cardinality(RequestsWaiting) + Cardinality(Askers(exTasks)) <= Cardinality(ExHandler)
  /\ \A r \in ExRequest :
       /\ exRows[r] \in {"none", "pending"} => exLog.decided[r] = 0
       /\ exLog.decided[r] + Cardinality(Deciders(exTasks, r)) <= Cardinality(ExHandler)
       /\ exLog.decided[r] + Cardinality(Deciders(exTasks, r)) <= exLog.ops

\* Handlers are finitely many, and so are requests.
LEMMA HandlersAreFew ==
  ASSUME NEW f, NEW r
  PROVE  /\ IsFiniteSet(Askers(f)) /\ IsFiniteSet(Deciders(f, r))
         /\ Cardinality(ExHandler) \in Nat
         /\ Cardinality(Askers(f)) \in Nat /\ Cardinality(Askers(f)) <= Cardinality(ExHandler)
         /\ Cardinality(Deciders(f, r)) \in Nat
         /\ Cardinality(Deciders(f, r)) <= Cardinality(ExHandler)
         /\ IsFiniteSet(RequestsWaiting) /\ Cardinality(RequestsWaiting) \in Nat
<1>1. Askers(f) \subseteq ExHandler /\ Deciders(f, r) \subseteq ExHandler
  BY DEF Askers, Deciders
<1>2. RequestsWaiting \subseteq ExRequest
  BY DEF RequestsWaiting
<1>3. IsFiniteSet(ExHandler) /\ IsFiniteSet(ExRequest)
  BY ExtensionAssumption
<1>4. IsFiniteSet(Askers(f)) /\ Cardinality(Askers(f)) <= Cardinality(ExHandler)
  BY <1>1, <1>3, FS_Subset
<1>5. IsFiniteSet(Deciders(f, r)) /\ Cardinality(Deciders(f, r)) <= Cardinality(ExHandler)
  BY <1>1, <1>3, FS_Subset
<1>6. IsFiniteSet(RequestsWaiting)
  BY <1>2, <1>3, FS_Subset
<1>7. QED
  BY <1>3, <1>4, <1>5, <1>6, FS_CardinalityType

\* What one handler that moves changes of it.
LEMMA HandlerMoves ==
  ASSUME NEW f, NEW g, NEW h \in ExHandler, NEW r, \A k \in ExHandler \ {h} : g[k] = f[k]
  PROVE  /\ h \notin Askers(g) => Cardinality(Askers(g)) <= Cardinality(Askers(f))
         /\ h \in Askers(f) /\ h \notin Askers(g)
              => Cardinality(Askers(f)) = Cardinality(Askers(g)) + 1
         /\ h \notin Deciders(g, r) => Cardinality(Deciders(g, r)) <= Cardinality(Deciders(f, r))
         /\ h \in Deciders(f, r) /\ h \notin Deciders(g, r)
              => Cardinality(Deciders(f, r)) = Cardinality(Deciders(g, r)) + 1
         /\ Cardinality(Deciders(g, r)) <= Cardinality(Deciders(f, r)) + 1
<1> DEFINE S == Askers(f)  T == Askers(g)  U == Deciders(f, r)  V == Deciders(g, r)
<1>1. IsFiniteSet(S) /\ \A k : k # h => (k \in S <=> k \in T)
  BY HandlersAreFew DEF Askers
<1>2. IsFiniteSet(U) /\ \A k : k # h => (k \in U <=> k \in V)
  BY HandlersAreFew DEF Deciders
<1> HIDE DEF S, T, U, V
<1>3. /\ Cardinality(S) \in Nat /\ Cardinality(T) \in Nat
      /\ h \in S /\ h \notin T => Cardinality(S) = Cardinality(T) + 1
      /\ (h \in S <=> h \in T) => Cardinality(T) = Cardinality(S)
  BY <1>1, OneComesOrGoes
<1>4. /\ Cardinality(U) \in Nat /\ Cardinality(V) \in Nat
      /\ h \in U /\ h \notin V => Cardinality(U) = Cardinality(V) + 1
      /\ h \notin U /\ h \in V => Cardinality(V) = Cardinality(U) + 1
      /\ (h \in U <=> h \in V) => Cardinality(V) = Cardinality(U)
  BY <1>2, OneComesOrGoes
<1>5. h \notin T => Cardinality(T) <= Cardinality(S)
  BY <1>3
<1>6. /\ h \notin V => Cardinality(V) <= Cardinality(U)
      /\ Cardinality(V) <= Cardinality(U) + 1
  BY <1>4
<1>7. QED
  BY <1>3, <1>4, <1>5, <1>6 DEF S, T, U, V

\* At first nobody asks.
LEMMA ExInitBounds == ExInit => ExBounds
<1> SUFFICES ASSUME ExInit PROVE ExBounds
  OBVIOUS
<1>1. \A h \in ExHandler : exTasks[h] = ExRest
  BY DEF ExInit
<1>2. /\ Askers(exTasks) = {} /\ \A r : Deciders(exTasks, r) = {}
      /\ RequestsWaiting = {}
  BY <1>1, Resting DEF Askers, Deciders, RequestsWaiting, ExInit
<1>3. exLog.ops = 0 /\ exLog.decided = [r \in ExRequest |-> 0]
  BY Zenon DEF ExInit
<1>4. QED
  BY <1>2, <1>3, HandlersAreFew, FS_EmptySet DEF ExBounds

\* Steps at which nobody begins and nothing is inserted or decided.
LEMMA BoundsRest ==
  ASSUME ExInv, ExBounds, NEW h \in ExHandler, exRows' = exRows,
         exLog'.decided = exLog.decided, exLog'.ops \in {exLog.ops, exLog.ops + 1},
         \A k \in ExHandler \ {h} : exTasks'[k] = exTasks[k],
         exTasks'[h] = exTasks[h] \/ exTasks'[h].phase # "commit"
  PROVE  ExBounds'
<1>1. CASE exTasks'[h] = exTasks[h]
  <2>1. Askers(exTasks') = Askers(exTasks) /\ \A r : Deciders(exTasks', r) = Deciders(exTasks, r)
    BY <1>1 DEF Askers, Deciders
  <2>2. RequestsWaiting' = RequestsWaiting
    BY DEF RequestsWaiting
  <2>3. exLog.ops \in Nat /\ \A r \in ExRequest : exLog.decided[r] \in Nat
    BY ExtensionAssumption DEF ExInv, ExTypes
  <2>4. QED
    BY <2>1, <2>2, <2>3, HandlersAreFew DEF ExBounds
<1>2. CASE exTasks'[h].phase # "commit"
  <2>1. h \notin Askers(exTasks') /\ \A r : h \notin Deciders(exTasks', r)
    BY <1>2 DEF Askers, Deciders
  <2>2. RequestsWaiting' = RequestsWaiting
    BY DEF RequestsWaiting
  <2>3. exLog.ops \in Nat /\ \A r \in ExRequest : exLog.decided[r] \in Nat
    BY ExtensionAssumption DEF ExInv, ExTypes
  <2>4. /\ Cardinality(Askers(exTasks')) <= Cardinality(Askers(exTasks))
        /\ \A r : Cardinality(Deciders(exTasks', r)) <= Cardinality(Deciders(exTasks, r))
    BY <2>1, HandlerMoves
  <2>5. /\ Cardinality(Askers(exTasks')) \in Nat /\ Cardinality(Askers(exTasks)) \in Nat
        /\ \A r : /\ Cardinality(Deciders(exTasks', r)) \in Nat
                  /\ Cardinality(Deciders(exTasks, r)) \in Nat
        /\ Cardinality(RequestsWaiting) \in Nat /\ Cardinality(ExHandler) \in Nat
    BY HandlersAreFew
  <2>6. Cardinality(RequestsWaiting') + Cardinality(Askers(exTasks')) <= Cardinality(ExHandler)
    BY <2>2, <2>4, <2>5 DEF ExBounds
  <2>7. \A r \in ExRequest :
          /\ exRows'[r] \in {"none", "pending"} => exLog'.decided[r] = 0
          /\ exLog'.decided[r] + Cardinality(Deciders(exTasks', r)) <= Cardinality(ExHandler)
          /\ exLog'.decided[r] + Cardinality(Deciders(exTasks', r)) <= exLog'.ops
    BY <2>3, <2>4, <2>5 DEF ExBounds
  <2>8. QED
    BY <2>6, <2>7 DEF ExBounds
<1>3. QED
  BY <1>1, <1>2

\* Who begins has read that no request waits, or that this one does.
LEMMA BoundsBegin ==
  ASSUME ExInv, ExBounds, NEW h \in ExHandler, NEW op \in {"request", "approve", "reject"},
         NEW via \in ExVia, NEW r \in ExRequest \cup {0}, BeginEx(h, op, via, r),
         op = "request" => NonePending,
         op # "request" => r \in ExRequest /\ Decidable(op, via, r)
  PROVE  ExBounds'
<1> DEFINE t == [op |-> op, via |-> via, on |-> r, phase |-> "commit"]
<1>1. /\ exTasks' \in [ExHandler -> ExTask] /\ exTasks'[h] = t
      /\ \A k \in ExHandler \ {h} : exTasks'[k] = exTasks[k]
  BY HandlerTurns DEF BeginEx, ExInv, ExTypes, ExTask
<1>2. exLog'.ops = exLog.ops + 1 /\ exLog'.decided = exLog.decided /\ exRows' = exRows
  BY DEF BeginEx, ExInv, ExTypes
<1>3. exLog.ops \in Nat /\ \A q \in ExRequest : exLog.decided[q] \in Nat
  BY ExtensionAssumption DEF ExInv, ExTypes
<1>4. t.op = op /\ t.via = via /\ t.on = r /\ t.phase = "commit"
  OBVIOUS
<1> HIDE DEF t
<1>5. RequestsWaiting' = RequestsWaiting
  BY <1>2 DEF RequestsWaiting
<1>6. /\ Cardinality(Askers(exTasks')) \in Nat /\ Cardinality(Askers(exTasks)) \in Nat
      /\ Cardinality(Askers(exTasks')) <= Cardinality(ExHandler)
      /\ \A q : /\ Cardinality(Deciders(exTasks', q)) \in Nat
                /\ Cardinality(Deciders(exTasks, q)) \in Nat
                /\ Cardinality(Deciders(exTasks', q)) <= Cardinality(ExHandler)
      /\ Cardinality(RequestsWaiting) \in Nat /\ Cardinality(ExHandler) \in Nat
  BY HandlersAreFew
<1>7. Cardinality(RequestsWaiting') + Cardinality(Askers(exTasks')) <= Cardinality(ExHandler)
  <2>1. CASE op = "request"
    <3>1. RequestsWaiting' = {} /\ Cardinality({}) = 0
      BY <2>1, <1>5, FS_EmptySet DEF NonePending, RequestsWaiting
    <3>2. QED
      BY <3>1, <1>6
  <2>2. CASE op # "request"
    <3>1. h \notin Askers(exTasks')
      BY <2>2, <1>1, <1>4 DEF Askers
    <3>2. Cardinality(Askers(exTasks')) <= Cardinality(Askers(exTasks))
      BY <3>1, <1>1, HandlerMoves
    <3>3. QED
      BY <3>2, <1>5, <1>6 DEF ExBounds
  <2>3. QED
    BY <2>1, <2>2
<1>8. ASSUME NEW q \in ExRequest
      PROVE  /\ exLog.decided[q] + Cardinality(Deciders(exTasks', q)) <= Cardinality(ExHandler)
             /\ exLog.decided[q] + Cardinality(Deciders(exTasks', q)) <= exLog.ops + 1
  <2>0. /\ exLog.decided[q] + Cardinality(Deciders(exTasks, q)) <= Cardinality(ExHandler)
        /\ exLog.decided[q] + Cardinality(Deciders(exTasks, q)) <= exLog.ops
    BY DEF ExBounds
  <2>1. CASE h \in Deciders(exTasks', q)
    <3>1. q = r /\ op # "request" /\ ~Overrules(op, via)
      BY <2>1, <1>1, <1>4 DEF Deciders
    <3>2. exLog.decided[q] = 0
      BY <3>1 DEF Decidable, ExBounds
    <3>3. Cardinality(Deciders(exTasks', q)) <= Cardinality(Deciders(exTasks, q)) + 1
      BY <1>1, HandlerMoves
    <3>4. QED
      BY <3>2, <3>3, <2>0, <1>3, <1>6
  <2>2. CASE h \notin Deciders(exTasks', q)
    <3>1. Cardinality(Deciders(exTasks', q)) <= Cardinality(Deciders(exTasks, q))
      BY <2>2, <1>1, HandlerMoves
    <3>2. QED
      BY <3>1, <2>0, <1>3, <1>6
  <2>3. QED
    BY <2>1, <2>2
<1>9. QED
  BY <1>2, <1>7, <1>8 DEF ExBounds

\* What is inserted or decided was asked for by a handler that is counted.
LEMMA BoundsCommit ==
  ASSUME ExInv, ExBounds, NEW h \in ExHandler, CommitRequest(h) \/ CommitDecision(h)
  PROVE  ExBounds'
<1> DEFINE t == exTasks[h]
           decides == t.op \in {"approve", "reject"}
<1>1. /\ t \in ExTask /\ t.phase = "commit" /\ t.op \in {"request", "approve", "reject"}
      /\ decides => t.on \in ExRequest
  BY DEF ExInv, ExTypes, TasksInOrder, InOrder, CommitRequest, CommitDecision
<1>2. /\ \A k \in ExHandler \ {h} : exTasks'[k] = exTasks[k]
      /\ exTasks'[h].phase = "notify"
  <2>1. CASE CommitRequest(h)
    <3>1. PICK r \in ExRequest : exTasks' = [exTasks EXCEPT ![h].phase = "notify", ![h].on = r]
      BY <2>1 DEF CommitRequest
    <3>2. exTasks' = [exTasks EXCEPT ![h] = [exTasks[h] EXCEPT !.phase = "notify", !.on = r]]
      BY <3>1 DEF ExInv, ExTypes
    <3>3. QED
      BY <3>2, <1>1 DEF ExInv, ExTypes, ExTask
  <2>2. CASE CommitDecision(h)
    <3>1. exTasks' = [exTasks EXCEPT ![h].phase = "notify"]
      BY <2>2 DEF CommitDecision
    <3>2. QED
      BY <3>1, <1>1 DEF ExInv, ExTypes, ExTask
  <2>3. QED
    BY <2>1, <2>2
<1>3. exLog.ops \in Nat /\ \A q \in ExRequest : exLog.decided[q] \in Nat
  BY ExtensionAssumption DEF ExInv, ExTypes
<1>4. /\ Cardinality(Askers(exTasks')) \in Nat /\ Cardinality(Askers(exTasks)) \in Nat
      /\ \A q : /\ Cardinality(Deciders(exTasks', q)) \in Nat
                /\ Cardinality(Deciders(exTasks, q)) \in Nat
      /\ IsFiniteSet(RequestsWaiting)
      /\ Cardinality(RequestsWaiting) \in Nat /\ Cardinality(ExHandler) \in Nat
  BY HandlersAreFew
<1>5. h \notin Askers(exTasks') /\ \A q : h \notin Deciders(exTasks', q)
  BY <1>2 DEF Askers, Deciders
<1>6. \A q : Cardinality(Deciders(exTasks', q)) <= Cardinality(Deciders(exTasks, q))
  BY <1>2, <1>5, HandlerMoves
<1>7. CASE CommitRequest(h)
  <2>1. PICK r \in ExRequest : exRows[r] = "none" /\ exRows' = [exRows EXCEPT ![r] = "pending"]
    BY <1>7 DEF CommitRequest, Inserted
  <2>2. exLog'.ops = exLog.ops /\ exLog'.decided = exLog.decided
    BY <1>7 DEF CommitRequest, ExInv, ExTypes
  <2>3. RequestsWaiting' = RequestsWaiting \cup {r}
    BY <2>1 DEF RequestsWaiting, ExInv, ExTypes
  <2>4. Cardinality(RequestsWaiting') <= Cardinality(RequestsWaiting) + 1
        /\ Cardinality(RequestsWaiting') \in Nat
    <3> DEFINE W == RequestsWaiting
    <3> HIDE DEF W
    <3>1. IsFiniteSet(W) /\ Cardinality(W) \in Nat
      BY <1>4 DEF W
    <3>2. IsFiniteSet(W \cup {r})
          /\ Cardinality(W \cup {r}) = IF r \in W THEN Cardinality(W) ELSE Cardinality(W) + 1
      BY <3>1, FS_AddElement
    <3>3. Cardinality(W \cup {r}) <= Cardinality(W) + 1 /\ Cardinality(W \cup {r}) \in Nat
      BY <3>1, <3>2
    <3>4. QED
      BY <3>3, <2>3 DEF W
  <2>5. h \in Askers(exTasks)
    BY <1>7 DEF CommitRequest, Askers
  <2>6. Cardinality(Askers(exTasks)) = Cardinality(Askers(exTasks')) + 1
    BY <2>5, <1>2, <1>5, HandlerMoves
  <2>7. Cardinality(RequestsWaiting') + Cardinality(Askers(exTasks')) <= Cardinality(ExHandler)
    BY <2>4, <2>6, <1>4 DEF ExBounds
  <2>8. \A q \in ExRequest :
          /\ exRows'[q] \in {"none", "pending"} => exLog'.decided[q] = 0
          /\ exLog'.decided[q] + Cardinality(Deciders(exTasks', q)) <= Cardinality(ExHandler)
          /\ exLog'.decided[q] + Cardinality(Deciders(exTasks', q)) <= exLog'.ops
    BY <2>1, <2>2, <1>3, <1>4, <1>6 DEF ExBounds, ExInv, ExTypes
  <2>9. QED
    BY <2>7, <2>8 DEF ExBounds
<1>8. CASE CommitDecision(h)
  <2>1. /\ exRows' = [exRows EXCEPT ![t.on] = Outcome(t.op)] /\ decides
        /\ exRows'[t.on] \notin {"none", "pending"} /\ t.on \in ExRequest
        /\ \A q \in ExRequest \ {t.on} : exRows'[q] = exRows[q]
    BY <1>8, <1>1 DEF CommitDecision, Outcome, ExInv, ExTypes
  <2>2. PICK n : n = IF Overrules(t.op, t.via) THEN exLog.decided[t.on]
                     ELSE exLog.decided[t.on] + 1
    OBVIOUS
  <2>3. /\ exLog'.ops = exLog.ops /\ exLog'.decided[t.on] = n
        /\ \A q \in ExRequest \ {t.on} : exLog'.decided[q] = exLog.decided[q]
    BY <1>8, <2>1, <2>2 DEF CommitDecision, ExInv, ExTypes
  <2>4. RequestsWaiting' \subseteq RequestsWaiting
    BY <2>1 DEF RequestsWaiting
  <2>5. Cardinality(RequestsWaiting') \in Nat
        /\ Cardinality(RequestsWaiting') <= Cardinality(RequestsWaiting)
    BY <2>4, <1>4, FS_Subset, FS_CardinalityType
  <2>6. Cardinality(Askers(exTasks')) <= Cardinality(Askers(exTasks))
    BY <1>2, <1>5, HandlerMoves
  <2>7. Cardinality(RequestsWaiting') + Cardinality(Askers(exTasks')) <= Cardinality(ExHandler)
    BY <2>5, <2>6, <1>4 DEF ExBounds
  <2>8. n + Cardinality(Deciders(exTasks', t.on))
          <= exLog.decided[t.on] + Cardinality(Deciders(exTasks, t.on))
    <3>1. CASE Overrules(t.op, t.via)
      BY <3>1, <2>1, <2>2, <1>3, <1>4, <1>6
    <3>2. CASE ~Overrules(t.op, t.via)
      <4>1. h \in Deciders(exTasks, t.on)
        BY <3>2, <2>1, <1>1 DEF Deciders
      <4>2. Cardinality(Deciders(exTasks, t.on)) = Cardinality(Deciders(exTasks', t.on)) + 1
        BY <4>1, <1>2, <1>5, HandlerMoves
      <4>3. QED
        BY <4>2, <3>2, <2>1, <2>2, <1>3, <1>4
    <3>3. QED
      BY <3>1, <3>2
  <2>9. n \in Nat
    BY <2>1, <2>2, <1>3
  <2>10. \A q \in ExRequest :
           /\ exRows'[q] \in {"none", "pending"} => exLog'.decided[q] = 0
           /\ exLog'.decided[q] + Cardinality(Deciders(exTasks', q)) <= Cardinality(ExHandler)
           /\ exLog'.decided[q] + Cardinality(Deciders(exTasks', q)) <= exLog'.ops
    <3> SUFFICES ASSUME NEW q \in ExRequest
                 PROVE  /\ exRows'[q] \in {"none", "pending"} => exLog'.decided[q] = 0
                        /\ exLog'.decided[q] + Cardinality(Deciders(exTasks', q))
                             <= Cardinality(ExHandler)
                        /\ exLog'.decided[q] + Cardinality(Deciders(exTasks', q)) <= exLog'.ops
      OBVIOUS
    <3>1. CASE q = t.on
      BY <3>1, <2>1, <2>3, <2>8, <2>9, <1>3, <1>4 DEF ExBounds
    <3>2. CASE q # t.on
      BY <3>2, <2>1, <2>3, <1>3, <1>4, <1>6 DEF ExBounds
    <3>3. QED
      BY <3>1, <3>2
  <2>11. QED
    BY <2>7, <2>10 DEF ExBounds
<1>9. QED
  BY <1>7, <1>8

\* The bounds hold throughout.
LEMMA ExBoundsHold == ExSpec => []ExBounds
<1>1. ExInv /\ ExBounds /\ [ExNext]_exVars => ExBounds'
  <2> SUFFICES ASSUME ExInv, ExBounds, [ExNext]_exVars PROVE ExBounds'
    OBVIOUS
  <2>1. CASE \E whose \in {"nobody", "person", "other"}, admin \in BOOLEAN :
               Register(whose, admin)
    <3>1. /\ exLog'.ops = exLog.ops + 1 /\ exLog'.decided = exLog.decided
          /\ exRows' = exRows /\ exTasks' = exTasks
      BY <2>1 DEF Register, ExInv, ExTypes
    <3>2. RequestsWaiting' = RequestsWaiting
      BY <3>1 DEF RequestsWaiting
    <3>3. exLog.ops \in Nat /\ \A r \in ExRequest : exLog.decided[r] \in Nat
      BY ExtensionAssumption DEF ExInv, ExTypes
    <3>4. \A r \in ExRequest : Cardinality(Deciders(exTasks, r)) \in Nat
      BY HandlersAreFew
    <3>5. \A r \in ExRequest :
            exLog.decided[r] + Cardinality(Deciders(exTasks, r)) <= exLog.ops + 1
      BY <3>3, <3>4 DEF ExBounds
    <3>6. QED
      BY <3>1, <3>2, <3>5 DEF ExBounds
  <2>2. ASSUME NEW h \in ExHandler,
               NEW via \in ExVia, RequestExtension(h, via)
        PROVE  ExBounds'
    BY <2>2, BoundsBegin DEF RequestExtension
  <2>3. ASSUME NEW h \in ExHandler, NEW op \in {"approve", "reject"},
               NEW via \in ExVia, NEW r \in ExRequest, Decide(h, op, via, r)
        PROVE  ExBounds'
    BY <2>3, BoundsBegin DEF Decide
  <2>4. ASSUME NEW h \in ExHandler, CommitRequest(h) \/ CommitDecision(h)
        PROVE  ExBounds'
    BY <2>4, BoundsCommit
  <2>5. ASSUME NEW h \in ExHandler, Notify(h) \/ Audit(h) \/ ExFails(h)
        PROVE  ExBounds'
    <3>1. /\ exRows' = exRows /\ \A k \in ExHandler \ {h} : exTasks'[k] = exTasks[k]
          /\ exLog'.ops = exLog.ops /\ exLog'.decided = exLog.decided
      BY <2>5 DEF Notify, Audit, ExFails, ExInv, ExTypes
    <3>2. exTasks'[h].phase # "commit"
      BY <2>5, Resting DEF Notify, Audit, ExFails, ExInv, ExTypes, ExTask
    <3>3. QED
      BY <3>1, <3>2, BoundsRest
  <2>6. CASE UNCHANGED exVars
    BY <2>6 DEF exVars, ExBounds, RequestsWaiting, Askers, Deciders
  <2>7. QED
    BY <2>1, <2>2, <2>3, <2>4, <2>5, <2>6 DEF ExNext, ExVia
<1>2. QED
  BY <1>1, ExInitBounds, ExInvHolds, PTL DEF ExSpec

\* What is done, decided and audited is bounded by what is asked.
LEMMA ExTypesOK == ExInv /\ ExBounds => ExTypeOK
<1> SUFFICES ASSUME ExInv, ExBounds PROVE ExTypeOK
  OBVIOUS
<1>1. /\ Cardinality(ToCommit(exTasks)) \in Nat /\ Cardinality(ToAudit(exTasks)) \in Nat
      /\ exLog.done + Cardinality(ToCommit(exTasks)) <= exLog.ops
      /\ exLog.audited + Cardinality(ToAudit(exTasks)) <= exLog.done
  BY FS_CardinalityType DEF ExInv, ExCounted
<1>2. /\ exLog.ops \in 0..MaxExOps /\ exLog.done \in Nat /\ exLog.audited \in Nat
  BY DEF ExInv, ExTypes
<1>3. exLog.done \in 0..MaxExOps /\ exLog.audited \in 0..MaxExOps
  BY <1>1, <1>2, ExtensionAssumption
<1>4. ASSUME NEW r \in ExRequest PROVE exLog.decided[r] \in 0..MaxExOps
  <2>1. /\ exLog.decided[r] + Cardinality(Deciders(exTasks, r)) <= exLog.ops
        /\ Cardinality(Deciders(exTasks, r)) \in Nat /\ exLog.decided[r] \in Nat
    BY HandlersAreFew DEF ExBounds, ExInv, ExTypes
  <2>2. QED
    BY <2>1, <1>2, ExtensionAssumption
<1>5. exLog.decided \in [ExRequest -> 0..MaxExOps]
  BY <1>4 DEF ExInv, ExTypes
<1>6. exLog \in [ops : 0..MaxExOps, faults : 0..MaxExFaults, overlapped : BOOLEAN,
                 overruled : BOOLEAN, unheard : SUBSET (ExRequest \X {"admin", "person"}),
                 first : [ExRequest -> {"none"} \cup Resolved],
                 decided : [ExRequest -> 0..MaxExOps],
                 done : 0..MaxExOps, audited : 0..MaxExOps]
  BY <1>3, <1>5 DEF ExInv, ExTypes, Answer
<1>7. QED
  BY <1>6 DEF ExInv, ExTypes, ExTypeOK, ExTask, ExVia, Answer

\* Every state has the declared types, and neither the decisions on the web nor the lines of the
\* audit log are ever more than the commands.
THEOREM ExtensionTypeCorrect == ExSpec => []ExTypeOK
BY ExInvHolds, ExBoundsHold, ExTypesOK, PTL

\* For any number of requests, handlers and faults: a person has no more requests waiting than
\* there are handlers, a decision stands, those concerned know of it but for those whom no
\* notification reached, and the web's part is in the audit log, each under what it needs of
\* handlers, account, Telegram and replicas.
THEOREM RequestsEndWell == ExSpec => []RequestsAreHandled
<1>1. ExInv /\ ExBounds => RequestsAreHandled
  <2> SUFFICES ASSUME ExInv, ExBounds PROVE RequestsAreHandled
    OBVIOUS
  <2>1. OneWaits
    <3>0. Cardinality(RequestsWaiting) <= Cardinality(ExHandler)
      <4>1. /\ Cardinality(Askers(exTasks)) \in Nat /\ Cardinality(ExHandler) \in Nat
            /\ Cardinality(RequestsWaiting) \in Nat
        BY HandlersAreFew
      <4>2. QED
        BY <4>1 DEF ExBounds
    <3> SUFFICES ASSUME ~exLog.overlapped
                 PROVE  Cardinality(RequestsWaiting) <= 1
      BY <3>0 DEF OneWaits
    <3> DEFINE P == RequestsWaiting
    <3>1. OnePending
      BY DEF ExInv
    <3>2. CASE P = {}
      BY <3>2, FS_EmptySet
    <3>3. CASE P # {}
      <4>1. PICK r \in P : TRUE
        BY <3>3
      <4>2. P = {r}
        BY <4>1, <3>1 DEF OnePending, RequestsWaiting
      <4>3. Cardinality({r}) = 1
        BY FS_Singleton
      <4>4. QED
        BY <4>2, <4>3
    <3>4. QED
      BY <3>2, <3>3
  <2>2. DecisionStands
    <3>1. \A r \in ExRequest : exLog.decided[r] <= Cardinality(ExHandler)
      <4> SUFFICES ASSUME NEW r \in ExRequest
                   PROVE  exLog.decided[r] <= Cardinality(ExHandler)
        OBVIOUS
      <4>1. /\ exLog.decided[r] \in Nat /\ Cardinality(Deciders(exTasks, r)) \in Nat
            /\ Cardinality(ExHandler) \in Nat
        BY HandlersAreFew DEF ExInv, ExTypes
      <4>2. QED
        BY <4>1 DEF ExBounds
    <3>2. QED
      BY <3>1 DEF DecisionStands, ExInv, FirstStands
  <2>3. TellsTheStatus
    <3> SUFFICES ASSUME ExQuiet, ~exLog.overlapped, exLog.faults = 0
                 PROVE  \A r \in ExRequest :
                          /\ exRows[r] \in Resolved /\ ~Missed(r, "person") => told[r] = exRows[r]
                          /\ exRows[r] # "none" /\ ~Missed(r, "admin") => r \in announced
      BY DEF TellsTheStatus, Missed
    <3>1. ToBeTold /\ \A h \in ExHandler : exTasks[h].phase = "none"
      BY DEF ExInv, ExQuiet, TasksInOrder, InOrder
    <3>2. QED
      BY <3>1 DEF ToBeTold
  <2>4. WebIsAudited
    <3>1. /\ Cardinality(ToAudit(exTasks)) \in Nat
          /\ exLog.audited + Cardinality(ToAudit(exTasks)) <= exLog.done
          /\ exLog.faults = 0 => exLog.audited + Cardinality(ToAudit(exTasks)) = exLog.done
      BY FS_CardinalityType DEF ExInv, ExCounted
    <3>2. exLog.done \in Nat /\ exLog.audited \in Nat
      BY DEF ExInv, ExTypes
    <3>3. ASSUME ExQuiet PROVE Cardinality(ToAudit(exTasks)) = 0
      <4>1. \A h \in ExHandler : exTasks[h].phase = "none"
        BY <3>3 DEF ExInv, ExQuiet, TasksInOrder, InOrder
      <4>2. ToAudit(exTasks) = {}
        BY <4>1 DEF ToAudit
      <4>3. QED
        BY <4>2, FS_EmptySet
    <3>4. QED
      BY <3>1, <3>2, <3>3 DEF WebIsAudited
  <2>5. QED
    BY <2>1, <2>2, <2>3, <2>4 DEF RequestsAreHandled
<1>2. QED
  BY <1>1, ExInvHolds, ExBoundsHold, PTL

-----------------------------------------------------------------------------
(***************************************************************************)
(* UserBots. A message carries a secret and goes to the owner of the row   *)
(* that has it; a secret tells who made it (RowsAreMade). Messages are     *)
(* counted against the handlers that have one under way (AllCounted).      *)
(* Between its call of Telegram and its commit one who manages the bot     *)
(* finds the row and the webhook as it left them, if nobody else manages   *)
(* it and no call fails (AsLeft).                                          *)
(***************************************************************************)
UbOp == {"idle", "register", "delete", "message"}
UbPhase == {"none", "insert", "hook", "unhook", "drop", "receive", "forward", "notice"}
UbTask == [op : UbOp, phase : UbPhase, who : UbPerson \cup {"none"}, row : BotRow,
           carried : Secret \cup {0}]

UbTypes ==
  /\ bot \in BotRow
  /\ webhook \in Secret \cup {0}
  /\ pods \subseteq UbPerson
  /\ ubTasks \in [UbHandler -> UbTask]
  /\ ubLog = [ops |-> ubLog.ops, faults |-> ubLog.faults, overlapped |-> ubLog.overlapped,
              made |-> ubLog.made, accepted |-> ubLog.accepted, taken |-> ubLog.taken,
              passed |-> ubLog.passed, noticed |-> ubLog.noticed, lost |-> ubLog.lost]
  /\ ubLog.ops \in Nat /\ ubLog.faults \in Nat /\ ubLog.overlapped \in BOOLEAN
  /\ ubLog.made \in Seq(UbPerson) /\ Len(ubLog.made) <= MaxSecrets
  /\ ubLog.accepted \in Nat /\ ubLog.passed \in Nat /\ ubLog.noticed \in Nat
  /\ ubLog.lost \in Nat

\* What is known of a handler from where it is.
Fits(t) ==
  /\ t.op = "idle" <=> t.phase = "none"
  /\ t.op = "register" <=> t.phase \in {"insert", "hook"}
  /\ t.op = "delete" <=> t.phase \in {"unhook", "drop"}
  /\ t.phase = "insert" => t.who \in UbPerson
  /\ t.phase \in {"hook", "unhook", "drop", "forward", "notice"} => t.row.secret \in Secret
  /\ t.phase \in {"forward", "notice"} => t.carried = t.row.secret

TasksFit == \A h \in UbHandler : Fits(ubTasks[h])

\* A row is of a registration, and belongs to who made it.
OfARegistration(made, b) ==
  b.secret # 0 => b.secret \in 1..Len(made) /\ made[b.secret] = b.owner

RowsAreMade ==
  /\ OfARegistration(ubLog.made, bot)
  /\ \A h \in UbHandler : OfARegistration(ubLog.made, ubTasks[h].row)
  /\ \A m \in ubLog.taken : m[1] \in 1..Len(ubLog.made) /\ ubLog.made[m[1]] = m[2]

\* Messages on their way from the row to the pod or the notice.
UnderWay(f) == {h \in UbHandler : f[h].phase \in {"forward", "notice"}}

AllCounted ==
  /\ IsFiniteSet(UnderWay(ubTasks))
  /\ ubLog.accepted = ubLog.passed + ubLog.noticed + ubLog.lost + Cardinality(UnderWay(ubTasks))

\* While managers act one at a time.
OneManager ==
  \A g, h \in UbHandler :
    ubTasks[g].op \in {"register", "delete"} /\ ubTasks[h].op \in {"register", "delete"} => g = h

LeftAlone ==
  /\ bot.status = "active" => webhook = bot.secret
  /\ bot = NoBot => webhook = 0

\* Between Telegram's call and the commit a manager finds the row and the webhook as it left them.
AsLeft ==
  /\ \A h \in UbHandler :
       LET t == ubTasks[h] IN
       /\ t.phase \in {"hook", "unhook", "drop"} => bot = t.row
       /\ t.phase \in {"hook", "drop"} => webhook = 0
  /\ (\A h \in UbHandler : ubTasks[h].phase \notin {"hook", "drop"}) => LeftAlone

UbInv ==
  /\ UbTypes /\ TasksFit /\ RowsAreMade /\ AllCounted
  /\ ~ubLog.overlapped => OneManager
  /\ ~ubLog.overlapped /\ ubLog.faults = 0 => AsLeft

-----------------------------------------------------------------------------
(* Handlers of a bot *)

\* What a handler turns into.
LEMMA BotHandlerTurns ==
  ASSUME NEW f \in [UbHandler -> UbTask], NEW h \in UbHandler, NEW t \in UbTask
  PROVE  /\ [f EXCEPT ![h] = t] \in [UbHandler -> UbTask]
         /\ [f EXCEPT ![h] = t][h] = t
         /\ \A k \in UbHandler \ {h} : [f EXCEPT ![h] = t][k] = f[k]
OBVIOUS

\* The rows that there can be.
LEMMA Rows ==
  /\ NoBot \in BotRow /\ NoBot.secret = 0 /\ NoBot.status = "none" /\ NoBot.owner = "none"
  /\ \A b \in BotRow : /\ b = NoBot <=> b.secret = 0
                       /\ b = NoBot <=> b.secret \notin Secret
                       /\ b # NoBot => b.owner \in UbPerson /\ b.status \in {"active", "error"}
                       /\ b.secret \in Secret \cup {0}
  /\ \A u \in UbPerson, s \in Secret, w \in {"active", "error"} :
       [owner |-> u, secret |-> s, status |-> w] \in BotRow
BY BotAssumption DEF NoBot, BotRow, Secret

\* A handler at rest.
LEMMA BotResting ==
  /\ UbRest \in UbTask /\ Fits(UbRest)
  /\ UbRest.op = "idle" /\ UbRest.phase = "none" /\ UbRest.row = NoBot
  /\ \A made : OfARegistration(made, UbRest.row)
BY Rows DEF UbRest, UbTask, UbOp, UbPhase, Fits, OfARegistration

\* Messages under way, when one handler moves.
LEMMA OnTheWay ==
  ASSUME NEW f, NEW g, NEW h \in UbHandler, IsFiniteSet(UnderWay(f)),
         \A k \in UbHandler \ {h} : g[k] = f[k]
  PROVE  /\ IsFiniteSet(UnderWay(g))
         /\ Cardinality(UnderWay(f)) \in Nat /\ Cardinality(UnderWay(g)) \in Nat
         /\ h \in UnderWay(f) /\ h \notin UnderWay(g)
              => Cardinality(UnderWay(f)) = Cardinality(UnderWay(g)) + 1
         /\ h \notin UnderWay(f) /\ h \in UnderWay(g)
              => Cardinality(UnderWay(g)) = Cardinality(UnderWay(f)) + 1
         /\ (h \in UnderWay(f) <=> h \in UnderWay(g))
              => Cardinality(UnderWay(g)) = Cardinality(UnderWay(f))
<1>1. \A k : k # h => (k \in UnderWay(f) <=> k \in UnderWay(g))
  BY DEF UnderWay
<1> HIDE DEF UnderWay
<1>2. QED
  BY <1>1, OneComesOrGoes

\* Who manages the bot does not become more by a handler that goes on.
LEMMA ManagersStay ==
  ASSUME NEW h \in UbHandler, \A k \in UbHandler \ {h} : ubTasks'[k] = ubTasks[k],
         \/ ubTasks[h].op \in {"register", "delete"}
         \/ ubTasks'[h].op \notin {"register", "delete"}
  PROVE  OneManager => OneManager'
BY DEF OneManager

\* A handler that does not manage leaves row and webhook as the managers left them.
LEMMA MessagesLeave ==
  ASSUME NEW h \in UbHandler, \A k \in UbHandler \ {h} : ubTasks'[k] = ubTasks[k],
         ubTasks[h].phase \notin {"hook", "unhook", "drop"},
         \/ ubTasks'[h].phase \notin {"hook", "unhook", "drop"}
         \/ ubTasks'[h].phase = "unhook" /\ ubTasks'[h].row = bot,
         UNCHANGED <<bot, webhook>>
  PROVE  AsLeft => AsLeft'
BY DEF AsLeft, LeftAlone

\* At first there is no bot.
LEMMA UbInitInv == UbInit => UbInv
<1> SUFFICES ASSUME UbInit PROVE UbInv
  OBVIOUS
<1>1. ubTasks \in [UbHandler -> UbTask] /\ \A h \in UbHandler : ubTasks[h] = UbRest
  BY BotResting DEF UbInit
<1>2. <<>> \in Seq(UbPerson) /\ Len(<<>>) = 0
  OBVIOUS
<1>3. UbTypes
  BY <1>1, <1>2, Rows, BotAssumption DEF UbInit, UbTypes
<1>4. TasksFit
  BY <1>1, BotResting DEF TasksFit
<1>5. RowsAreMade
  BY <1>1, Rows, BotResting DEF RowsAreMade, UbInit, OfARegistration
<1>6. UnderWay(ubTasks) = {}
  BY <1>1, BotResting DEF UnderWay
<1>7. IsFiniteSet(UnderWay(ubTasks)) /\ Cardinality(UnderWay(ubTasks)) = 0
  BY <1>6, FS_EmptySet
<1>8. AllCounted
  <2>1. ubLog.accepted = 0 /\ ubLog.passed = 0 /\ ubLog.noticed = 0 /\ ubLog.lost = 0
    BY DEF UbInit
  <2>2. QED
    BY <2>1, <1>7 DEF AllCounted
<1>9. OneManager /\ AsLeft
  BY <1>1, Rows, BotResting DEF OneManager, AsLeft, LeftAlone, UbInit
<1>10. QED
  BY <1>3, <1>4, <1>5, <1>8, <1>9 DEF UbInv

\* A handler starts.
LEMMA BotHandlerStarts ==
  ASSUME UbInv, NEW h \in UbHandler, NEW t \in UbTask, Fits(t),
         t.phase \in {"insert", "unhook", "receive"}, OfARegistration(ubLog.made, t.row),
         UbStart(h, t), NEW b \in BOOLEAN,
         ubLog' = [ubLog EXCEPT !.ops = @ + 1, !.overlapped = b],
         b = FALSE => ubLog.overlapped = FALSE,
         b = FALSE /\ t.op \in {"register", "delete"} => ~Managing,
         t.phase = "unhook" => t.row = bot
  PROVE  UbInv'
<1>1. ubTasks' = [ubTasks EXCEPT ![h] = t] /\ UNCHANGED <<bot, webhook, pods>>
  BY DEF UbStart
<1>2. /\ ubTasks' \in [UbHandler -> UbTask] /\ ubTasks'[h] = t
      /\ \A k \in UbHandler \ {h} : ubTasks'[k] = ubTasks[k]
  BY <1>1, BotHandlerTurns DEF UbInv, UbTypes
<1>3. ubLog' = [ops |-> ubLog.ops + 1, faults |-> ubLog.faults, overlapped |-> b,
                made |-> ubLog.made, accepted |-> ubLog.accepted, taken |-> ubLog.taken,
                passed |-> ubLog.passed, noticed |-> ubLog.noticed, lost |-> ubLog.lost]
  BY DEF UbInv, UbTypes
<1>4. /\ ubLog'.ops = ubLog.ops + 1 /\ ubLog'.faults = ubLog.faults /\ ubLog'.overlapped = b
      /\ ubLog'.made = ubLog.made /\ ubLog'.accepted = ubLog.accepted
      /\ ubLog'.taken = ubLog.taken /\ ubLog'.passed = ubLog.passed
      /\ ubLog'.noticed = ubLog.noticed /\ ubLog'.lost = ubLog.lost
  BY <1>3
<1>5. UbTypes'
  <2>1. ubLog' = [ops |-> ubLog'.ops, faults |-> ubLog'.faults,
                  overlapped |-> ubLog'.overlapped, made |-> ubLog'.made,
                  accepted |-> ubLog'.accepted, taken |-> ubLog'.taken,
                  passed |-> ubLog'.passed, noticed |-> ubLog'.noticed, lost |-> ubLog'.lost]
    BY <1>3, <1>4
  <2>2. QED
    BY <2>1, <1>1, <1>2, <1>4 DEF UbInv, UbTypes
<1>6. TasksFit'
  BY <1>2 DEF UbInv, TasksFit
<1>7. RowsAreMade'
  BY <1>1, <1>2, <1>4 DEF UbInv, RowsAreMade
<1>8. ubTasks[h].op = "idle" /\ ubTasks[h].phase = "none"
  BY DEF UbStart, UbInv, TasksFit, Fits
<1>9. AllCounted'
  <2>1. h \notin UnderWay(ubTasks) /\ h \notin UnderWay(ubTasks')
    BY <1>2, <1>8 DEF UnderWay
  <2>2. /\ IsFiniteSet(UnderWay(ubTasks'))
        /\ Cardinality(UnderWay(ubTasks')) = Cardinality(UnderWay(ubTasks))
    BY <2>1, <1>2, OnTheWay DEF UbInv, AllCounted
  <2>3. QED
    BY <2>2, <1>4 DEF UbInv, AllCounted
<1>10. ASSUME ~ubLog'.overlapped PROVE OneManager'
  <2>1. OneManager /\ ~ubLog.overlapped
    BY <1>10, <1>4 DEF UbInv
  <2>2. CASE t.op \in {"register", "delete"}
    <3>1. \A k \in UbHandler : ubTasks[k].op \notin {"register", "delete"}
      BY <2>2, <1>10, <1>4 DEF Managing
    <3>2. QED
      BY <3>1, <1>2 DEF OneManager
  <2>3. CASE t.op \notin {"register", "delete"}
    BY <2>1, <2>3, <1>2, ManagersStay
  <2>4. QED
    BY <2>2, <2>3
<1>11. AsLeft => AsLeft'
  BY <1>1, <1>2, <1>8, MessagesLeave
<1>12. QED
  BY <1>4, <1>5, <1>6, <1>7, <1>9, <1>10, <1>11 DEF UbInv

\* A message or a registration ends, or its replica dies.
LEMMA BotHandlerEnds ==
  ASSUME UbInv, NEW h \in UbHandler, UbFinish(h), UNCHANGED <<bot, webhook, pods>>,
         NEW n \in Nat, NEW p \in Nat, NEW q \in Nat, NEW l \in Nat, NEW T,
         ubLog' = [ops |-> ubLog.ops, faults |-> n, overlapped |-> ubLog.overlapped,
                   made |-> ubLog.made, accepted |-> ubLog.accepted, taken |-> T,
                   passed |-> p, noticed |-> q, lost |-> l],
         p + q + l = ubLog.passed + ubLog.noticed + ubLog.lost
                       + (IF ubTasks[h].phase \in {"forward", "notice"} THEN 1 ELSE 0),
         \/ n = ubLog.faults /\ ubTasks[h].phase \notin {"hook", "unhook", "drop"}
         \/ n = ubLog.faults + 1,
         \/ T = ubLog.taken
         \/ /\ T = ubLog.taken \cup {<<ubTasks[h].carried, ubTasks[h].row.owner>>}
            /\ ubTasks[h].phase = "forward"
  PROVE  UbInv'
<1>1. ubTasks' = [ubTasks EXCEPT ![h] = UbRest]
  BY DEF UbFinish
<1>2. /\ ubTasks' \in [UbHandler -> UbTask] /\ ubTasks'[h] = UbRest
      /\ \A k \in UbHandler \ {h} : ubTasks'[k] = ubTasks[k]
  BY <1>1, BotResting, BotHandlerTurns DEF UbInv, UbTypes
<1>3. /\ ubLog'.ops = ubLog.ops /\ ubLog'.faults = n /\ ubLog'.overlapped = ubLog.overlapped
      /\ ubLog'.made = ubLog.made /\ ubLog'.accepted = ubLog.accepted
      /\ ubLog'.taken = T /\ ubLog'.passed = p
      /\ ubLog'.noticed = q /\ ubLog'.lost = l
  OBVIOUS
<1>4. ubLog' = [ops |-> ubLog'.ops, faults |-> ubLog'.faults, overlapped |-> ubLog'.overlapped,
                made |-> ubLog'.made, accepted |-> ubLog'.accepted, taken |-> ubLog'.taken,
                passed |-> ubLog'.passed, noticed |-> ubLog'.noticed, lost |-> ubLog'.lost]
  BY <1>3
<1>5. UbTypes'
  BY <1>2, <1>3, <1>4 DEF UbInv, UbTypes
<1>6. TasksFit'
  BY <1>2, BotResting DEF UbInv, TasksFit
<1>7. RowsAreMade'
  <2>1. \A m \in T : m[1] \in 1..Len(ubLog.made) /\ ubLog.made[m[1]] = m[2]
    <3>1. ASSUME ubTasks[h].phase = "forward"
          PROVE  LET m == <<ubTasks[h].carried, ubTasks[h].row.owner>> IN
                 m[1] \in 1..Len(ubLog.made) /\ ubLog.made[m[1]] = m[2]
      BY <3>1, BotAssumption DEF UbInv, TasksFit, Fits, RowsAreMade, OfARegistration, Secret
    <3>2. QED
      BY <3>1 DEF UbInv, RowsAreMade
  <2>2. QED
    BY <2>1, <1>2, <1>3, BotResting DEF UbInv, RowsAreMade
<1>8. AllCounted'
  <2>1. /\ h \notin UnderWay(ubTasks')
        /\ h \in UnderWay(ubTasks) <=> ubTasks[h].phase \in {"forward", "notice"}
    BY <1>2, BotResting DEF UnderWay
  <2>2. /\ IsFiniteSet(UnderWay(ubTasks))
        /\ ubLog.accepted = ubLog.passed + ubLog.noticed + ubLog.lost
                              + Cardinality(UnderWay(ubTasks))
    BY DEF UbInv, AllCounted
  <2>3. /\ IsFiniteSet(UnderWay(ubTasks'))
        /\ Cardinality(UnderWay(ubTasks)) \in Nat /\ Cardinality(UnderWay(ubTasks')) \in Nat
        /\ Cardinality(UnderWay(ubTasks)) = Cardinality(UnderWay(ubTasks'))
             + (IF ubTasks[h].phase \in {"forward", "notice"} THEN 1 ELSE 0)
    BY <2>1, <2>2, <1>2, OnTheWay
  <2>4. /\ ubLog.passed \in Nat /\ ubLog.noticed \in Nat /\ ubLog.lost \in Nat
    BY DEF UbInv, UbTypes
  <2>5. ubLog.accepted = p + q + l + Cardinality(UnderWay(ubTasks'))
    BY <2>2, <2>3, <2>4
  <2>6. QED
    BY <2>3, <2>5, <1>3 DEF AllCounted
<1>9. OneManager => OneManager'
  BY <1>2, BotResting, ManagersStay
<1>10. ASSUME n = 0, AsLeft PROVE AsLeft'
  <2>1. ubTasks[h].phase \notin {"hook", "unhook", "drop"}
    BY <1>10 DEF UbInv, UbTypes
  <2>2. QED
    BY <2>1, <1>2, <1>10, BotResting, MessagesLeave
<1>11. n = 0 => ubLog.faults = 0
  BY DEF UbInv, UbTypes
<1>12. QED
  BY <1>3, <1>5, <1>6, <1>7, <1>8, <1>9, <1>10, <1>11 DEF UbInv
\* A manager goes on: row and webhook change as its call of Telegram or its commit says.
LEMMA ManagerGoesOn ==
  ASSUME UbInv, NEW h \in UbHandler, NEW t \in UbTask, Fits(t),
         t.phase \in {"none", "drop"},
         ubTasks[h].op \in {"register", "delete"},
         ubTasks' = [ubTasks EXCEPT ![h] = t], UNCHANGED pods,
         t.row \in {NoBot, ubTasks[h].row},
         bot' \in BotRow, webhook' \in Secret \cup {0}, OfARegistration(ubLog.made, bot'),
         \/ /\ UNCHANGED ubLog
            /\ ~ubLog.overlapped /\ ubLog.faults = 0 => AsLeft'
         \/ UbFault
  PROVE  UbInv'
<1>1. /\ ubTasks' \in [UbHandler -> UbTask] /\ ubTasks'[h] = t
      /\ \A k \in UbHandler \ {h} : ubTasks'[k] = ubTasks[k]
  BY BotHandlerTurns DEF UbInv, UbTypes
<1>2. PICK n \in Nat :
        /\ ubLog' = [ops |-> ubLog.ops, faults |-> n, overlapped |-> ubLog.overlapped,
                     made |-> ubLog.made, accepted |-> ubLog.accepted, taken |-> ubLog.taken,
                     passed |-> ubLog.passed, noticed |-> ubLog.noticed, lost |-> ubLog.lost]
        /\ n = 0 => UNCHANGED ubLog /\ n = ubLog.faults
  <2>1. CASE UNCHANGED ubLog
    BY <2>1 DEF UbInv, UbTypes
  <2>2. CASE UbFault
    <3>1. ubLog.faults + 1 \in Nat /\ ubLog.faults + 1 # 0
      BY DEF UbInv, UbTypes
    <3>2. ubLog' = [ops |-> ubLog.ops, faults |-> ubLog.faults + 1,
                    overlapped |-> ubLog.overlapped,
                    made |-> ubLog.made, accepted |-> ubLog.accepted, taken |-> ubLog.taken,
                    passed |-> ubLog.passed, noticed |-> ubLog.noticed, lost |-> ubLog.lost]
      BY <2>2 DEF UbFault, UbInv, UbTypes
    <3>3. QED
      BY <3>1, <3>2
  <2>3. QED
    BY <2>1, <2>2
<1>3. /\ ubLog'.ops = ubLog.ops /\ ubLog'.faults = n /\ ubLog'.overlapped = ubLog.overlapped
      /\ ubLog'.made = ubLog.made /\ ubLog'.accepted = ubLog.accepted
      /\ ubLog'.taken = ubLog.taken /\ ubLog'.passed = ubLog.passed
      /\ ubLog'.noticed = ubLog.noticed /\ ubLog'.lost = ubLog.lost
  BY <1>2
<1>4. ubLog' = [ops |-> ubLog'.ops, faults |-> ubLog'.faults, overlapped |-> ubLog'.overlapped,
                made |-> ubLog'.made, accepted |-> ubLog'.accepted, taken |-> ubLog'.taken,
                passed |-> ubLog'.passed, noticed |-> ubLog'.noticed, lost |-> ubLog'.lost]
  BY <1>2, <1>3
<1>5. UbTypes'
  BY <1>1, <1>3, <1>4 DEF UbInv, UbTypes
<1>6. TasksFit'
  BY <1>1 DEF UbInv, TasksFit
<1>7. RowsAreMade'
  BY <1>1, <1>3, Rows DEF UbInv, RowsAreMade, OfARegistration
<1>8. AllCounted'
  <2>1. h \notin UnderWay(ubTasks) /\ h \notin UnderWay(ubTasks')
    BY <1>1 DEF UnderWay, UbInv, TasksFit, Fits
  <2>2. /\ IsFiniteSet(UnderWay(ubTasks'))
        /\ Cardinality(UnderWay(ubTasks')) = Cardinality(UnderWay(ubTasks))
    BY <2>1, <1>1, OnTheWay DEF UbInv, AllCounted
  <2>3. QED
    BY <2>2, <1>3 DEF UbInv, AllCounted
<1>9. OneManager => OneManager'
  BY <1>1, ManagersStay
<1>10. ~ubLog.overlapped /\ n = 0 => AsLeft'
  BY <1>2, <1>3 DEF UbFault, UbInv, UbTypes
<1>11. QED
  BY <1>3, <1>5, <1>6, <1>7, <1>8, <1>9, <1>10 DEF UbInv

\* A task is its five fields.
LEMMA WholeTask ==
  ASSUME NEW u, u = [x \in {"op", "phase", "who", "row", "carried"} |-> u[x]]
  PROVE  u = [op |-> u.op, phase |-> u.phase, who |-> u.who, row |-> u.row,
              carried |-> u.carried]
OBVIOUS

\* A task that goes on with a row.
LEMMA Moved ==
  ASSUME NEW v \in UbTask, NEW p, NEW b
  PROVE  [v EXCEPT !.phase = p, !.row = b]
           = [op |-> v.op, phase |-> p, who |-> v.who, row |-> b, carried |-> v.carried]
<1> DEFINE u == [v EXCEPT !.phase = p, !.row = b]
<1>1. u = [x \in {"op", "phase", "who", "row", "carried"} |-> u[x]]
  BY Zenon DEF UbTask
<1>2. /\ u.op = v.op /\ u.phase = p /\ u.who = v.who /\ u.row = b /\ u.carried = v.carried
  BY DEF UbTask
<1> HIDE DEF u
<1>3. u = [op |-> u.op, phase |-> u.phase, who |-> u.who, row |-> u.row, carried |-> u.carried]
  BY <1>1, WholeTask
<1>4. QED
  BY <1>2, <1>3 DEF u

\* The tasks that begin.
LEMMA Beginnings ==
  /\ \A u \in UbPerson :
       LET t == [UbRest EXCEPT !.op = "register", !.phase = "insert", !.who = u] IN
       t \in UbTask /\ Fits(t) /\ t.phase = "insert" /\ t.op = "register" /\ t.row = NoBot
  /\ \A b \in BotRow \ {NoBot} :
       LET t == [UbRest EXCEPT !.op = "delete", !.phase = "unhook", !.who = b.owner, !.row = b] IN
       t \in UbTask /\ Fits(t) /\ t.phase = "unhook" /\ t.op = "delete" /\ t.row = b
  /\ \A s \in Secret :
       LET t == [UbRest EXCEPT !.op = "message", !.phase = "receive", !.carried = s] IN
       t \in UbTask /\ Fits(t) /\ t.phase = "receive" /\ t.op = "message" /\ t.row = NoBot
<1>1. ASSUME NEW u \in UbPerson
      PROVE  LET t == [UbRest EXCEPT !.op = "register", !.phase = "insert", !.who = u] IN
             t \in UbTask /\ Fits(t) /\ t.phase = "insert" /\ t.op = "register" /\ t.row = NoBot
  <2> DEFINE t == [UbRest EXCEPT !.op = "register", !.phase = "insert", !.who = u]
  <2>1. t = [op |-> "register", phase |-> "insert", who |-> u, row |-> NoBot, carried |-> 0]
    <3>1. t = [x \in {"op", "phase", "who", "row", "carried"} |-> t[x]]
      BY Zenon DEF UbRest
    <3>2. /\ t.op = "register" /\ t.phase = "insert" /\ t.who = u /\ t.row = NoBot
          /\ t.carried = 0
      BY DEF UbRest
    <3> HIDE DEF t
    <3>3. t = [op |-> t.op, phase |-> t.phase, who |-> t.who, row |-> t.row,
               carried |-> t.carried]
      BY <3>1, WholeTask
    <3>4. QED
      BY <3>2, <3>3
  <2>2. QED
    BY <2>1, Rows DEF UbTask, UbOp, UbPhase, Fits
<1>2. ASSUME NEW b \in BotRow \ {NoBot}
      PROVE  LET t == [UbRest EXCEPT !.op = "delete", !.phase = "unhook", !.who = b.owner,
                                     !.row = b] IN
             t \in UbTask /\ Fits(t) /\ t.phase = "unhook" /\ t.op = "delete" /\ t.row = b
  <2> DEFINE t == [UbRest EXCEPT !.op = "delete", !.phase = "unhook", !.who = b.owner, !.row = b]
  <2>1. t = [op |-> "delete", phase |-> "unhook", who |-> b.owner, row |-> b, carried |-> 0]
    <3>1. t = [x \in {"op", "phase", "who", "row", "carried"} |-> t[x]]
      BY Zenon DEF UbRest
    <3>2. /\ t.op = "delete" /\ t.phase = "unhook" /\ t.who = b.owner /\ t.row = b
          /\ t.carried = 0
      BY DEF UbRest
    <3> HIDE DEF t
    <3>3. t = [op |-> t.op, phase |-> t.phase, who |-> t.who, row |-> t.row,
               carried |-> t.carried]
      BY <3>1, WholeTask
    <3>4. QED
      BY <3>2, <3>3
  <2>2. b.owner \in UbPerson /\ b.secret \in Secret
    BY Rows
  <2>3. QED
    BY <2>1, <2>2 DEF UbTask, UbOp, UbPhase, Fits
<1>3. ASSUME NEW s \in Secret
      PROVE  LET t == [UbRest EXCEPT !.op = "message", !.phase = "receive", !.carried = s] IN
             t \in UbTask /\ Fits(t) /\ t.phase = "receive" /\ t.op = "message" /\ t.row = NoBot
  <2> DEFINE t == [UbRest EXCEPT !.op = "message", !.phase = "receive", !.carried = s]
  <2>1. t = [op |-> "message", phase |-> "receive", who |-> "none", row |-> NoBot, carried |-> s]
    <3>1. t = [x \in {"op", "phase", "who", "row", "carried"} |-> t[x]]
      BY Zenon DEF UbRest
    <3>2. /\ t.op = "message" /\ t.phase = "receive" /\ t.who = "none" /\ t.row = NoBot
          /\ t.carried = s
      BY DEF UbRest
    <3> HIDE DEF t
    <3>3. t = [op |-> t.op, phase |-> t.phase, who |-> t.who, row |-> t.row,
               carried |-> t.carried]
      BY <3>1, WholeTask
    <3>4. QED
      BY <3>2, <3>3
  <2>2. QED
    BY <2>1, Rows DEF UbTask, UbOp, UbPhase, Fits
<1>4. QED
  BY <1>1, <1>2, <1>3

\* Registering, deleting and messages begin.
LEMMA BotHandlersBegin ==
  ASSUME UbInv, NEW h \in UbHandler,
         (\E u \in UbPerson : BeginRegister(h, u)) \/ BeginDelete(h) \/ BeginMessage(h)
  PROVE  UbInv'
<1> DEFINE b == ubLog.overlapped \/ Managing
<1>1. b \in BOOLEAN /\ (b = FALSE => ubLog.overlapped = FALSE) /\ (b = FALSE => ~Managing)
  BY DEF UbInv, UbTypes
<1>2. ubLog' = Counted => ubLog' = [ubLog EXCEPT !.ops = @ + 1, !.overlapped = b]
  BY DEF Counted
<1> HIDE DEF b
<1>3. CASE \E u \in UbPerson : BeginRegister(h, u)
  <2>1. PICK u \in UbPerson : BeginRegister(h, u)
    BY <1>3
  <2> DEFINE t == [UbRest EXCEPT !.op = "register", !.phase = "insert", !.who = u]
  <2>2. /\ t \in UbTask /\ Fits(t) /\ t.phase = "insert" /\ t.op = "register" /\ t.row = NoBot
    BY Beginnings
  <2>3. UbStart(h, t) /\ ubLog' = [ubLog EXCEPT !.ops = @ + 1, !.overlapped = b]
    BY <2>1, <1>2 DEF BeginRegister
  <2>4. OfARegistration(ubLog.made, t.row)
    BY <2>2, Rows DEF OfARegistration
  <2> HIDE DEF t
  <2>5. QED
    BY <2>2, <2>3, <2>4, <1>1, BotHandlerStarts
<1>4. CASE BeginDelete(h)
  <2> DEFINE t == [UbRest EXCEPT !.op = "delete", !.phase = "unhook", !.who = bot.owner,
                                 !.row = bot]
  <2>1. bot \in BotRow \ {NoBot}
    BY <1>4 DEF BeginDelete, UbInv, UbTypes
  <2>2. /\ t \in UbTask /\ Fits(t) /\ t.phase = "unhook" /\ t.op = "delete" /\ t.row = bot
    BY <2>1, Beginnings
  <2>3. UbStart(h, t) /\ ubLog' = [ubLog EXCEPT !.ops = @ + 1, !.overlapped = b]
    BY <1>2, <1>4 DEF BeginDelete
  <2>4. OfARegistration(ubLog.made, t.row)
    BY <2>2 DEF UbInv, RowsAreMade
  <2> HIDE DEF t
  <2>5. QED
    BY <2>2, <2>3, <2>4, <1>1, BotHandlerStarts
<1>5. CASE BeginMessage(h)
  <2> DEFINE t == [UbRest EXCEPT !.op = "message", !.phase = "receive", !.carried = webhook]
  <2>1. webhook \in Secret
    BY <1>5 DEF BeginMessage, UbInv, UbTypes
  <2>2. /\ t \in UbTask /\ Fits(t) /\ t.phase = "receive" /\ t.op = "message" /\ t.row = NoBot
    BY <2>1, Beginnings
  <2>3. PICK c \in BOOLEAN : c = ubLog.overlapped
    BY DEF UbInv, UbTypes
  <2>4. UbStart(h, t) /\ ubLog' = [ubLog EXCEPT !.ops = @ + 1]
    BY <1>5 DEF BeginMessage
  <2>5. ubLog' = [ubLog EXCEPT !.ops = @ + 1, !.overlapped = c]
    BY <2>3, <2>4 DEF UbInv, UbTypes
  <2>6. OfARegistration(ubLog.made, t.row)
    BY <2>2, Rows DEF OfARegistration
  <2> HIDE DEF t
  <2>7. QED
    BY <2>2, <2>3, <2>4, <2>5, <2>6, BotHandlerStarts
<1>6. QED
  BY <1>3, <1>4, <1>5

\* Telegram sets or deletes the webhook, or fails, and the row that was read goes.
LEMMA ManagersGoOn ==
  ASSUME UbInv, NEW h \in UbHandler,
         SetWebhook(h) \/ DeleteWebhook(h) \/ DropRow(h) \/ TelegramFails(h)
  PROVE  UbInv'
<1> DEFINE v == ubTasks[h]
           dropping == [v EXCEPT !.phase = "drop"]
<1>1. /\ v \in UbTask /\ Fits(v) /\ v.phase \in {"hook", "unhook", "drop"}
      /\ v.op \in {"register", "delete"} /\ v.row \in BotRow /\ v.row.secret \in Secret
  BY DEF UbInv, UbTypes, UbTask, TasksFit, Fits, SetWebhook, DeleteWebhook, DropRow, TelegramFails
<1>2. v.phase = "unhook" => /\ dropping \in UbTask /\ Fits(dropping) /\ dropping.phase = "drop"
                            /\ dropping.row = v.row
  BY <1>1 DEF UbTask, UbPhase, Fits
<1>3. /\ UbRest \in UbTask /\ Fits(UbRest) /\ UbRest.phase = "none" /\ UbRest.op = "idle"
      /\ UbRest.row = NoBot
  BY BotResting
<1>4. /\ bot \in BotRow /\ webhook \in Secret \cup {0} /\ OfARegistration(ubLog.made, bot)
      /\ \A g \in UbHandler : Fits(ubTasks[g])
  BY DEF UbInv, UbTypes, RowsAreMade, TasksFit
<1>5. /\ OfARegistration(ubLog.made, NoBot) /\ NoBot \in BotRow
  BY Rows DEF OfARegistration
<1>6. ASSUME ~ubLog.overlapped, ubLog.faults = 0
      PROVE  /\ AsLeft /\ bot = v.row /\ (v.phase \in {"hook", "drop"} => webhook = 0)
             /\ \A k \in UbHandler \ {h} : ubTasks[k].phase \notin {"hook", "unhook", "drop"}
  BY <1>1, <1>4, <1>6 DEF UbInv, AsLeft, OneManager, Fits
<1>7. CASE SetWebhook(h)
  <2>1. PICK ok \in BOOLEAN :
          /\ webhook' = IF ok THEN v.row.secret ELSE webhook
          /\ bot' = IF ~ok /\ bot.secret = v.row.secret THEN [bot EXCEPT !.status = "error"]
                    ELSE bot
    BY <1>7 DEF SetWebhook
  <2>2. /\ v.phase = "hook" /\ ubTasks' = [ubTasks EXCEPT ![h] = UbRest]
        /\ UNCHANGED <<pods, ubLog>>
    BY <1>7 DEF SetWebhook, UbFinish
  <2>3. bot.secret = v.row.secret =>
          LET e == [bot EXCEPT !.status = "error"] IN
          /\ e \in BotRow /\ e # NoBot /\ e.status = "error" /\ e.secret = bot.secret
          /\ OfARegistration(ubLog.made, e)
    BY <1>1, <1>4, Rows DEF BotRow, OfARegistration, NoBot
  <2>4. bot' \in BotRow /\ webhook' \in Secret \cup {0} /\ OfARegistration(ubLog.made, bot')
    BY <2>1, <2>3, <1>1, <1>4
  <2>5. ASSUME ~ubLog.overlapped, ubLog.faults = 0 PROVE AsLeft'
    <3>1. /\ AsLeft /\ bot = v.row /\ webhook = 0 /\ bot # NoBot
          /\ \A k \in UbHandler \ {h} : ubTasks[k].phase \notin {"hook", "unhook", "drop"}
      BY <2>2, <2>5, <1>1, <1>6, Rows
    <3>2. \A k \in UbHandler : ubTasks'[k].phase \notin {"hook", "unhook", "drop"}
      BY <3>1, <2>2, <1>3 DEF UbInv, UbTypes
    <3>3. LeftAlone'
      BY <3>1, <2>1, <2>3 DEF LeftAlone
    <3>4. QED
      BY <3>2, <3>3 DEF AsLeft
  <2> HIDE DEF v
  <2>6. QED
    BY <2>2, <2>4, <2>5, <1>1, <1>3, ManagerGoesOn DEF v
<1>8. CASE DeleteWebhook(h)
  <2>1. /\ v.phase = "unhook" /\ webhook' = 0
        /\ UNCHANGED <<bot, pods, ubLog>>
    BY <1>8 DEF DeleteWebhook
  <2>2. ubTasks' = [ubTasks EXCEPT ![h] = dropping]
    BY <1>8 DEF DeleteWebhook
  <2>3. ASSUME ~ubLog.overlapped, ubLog.faults = 0 PROVE AsLeft'
    <3>1. /\ bot = v.row
          /\ \A k \in UbHandler \ {h} : ubTasks[k].phase \notin {"hook", "unhook", "drop"}
      BY <2>3, <1>6
    <3>2. /\ ubTasks'[h] = dropping
          /\ \A k \in UbHandler \ {h} : ubTasks'[k] = ubTasks[k]
      BY <2>2 DEF UbInv, UbTypes
    <3> HIDE DEF v, dropping
    <3>3. QED
      BY <3>1, <3>2, <2>1, <1>2 DEF AsLeft
  <2> HIDE DEF v, dropping
  <2>4. QED
    BY <2>1, <2>2, <2>3, <1>1, <1>2, <1>4, ManagerGoesOn DEF v
<1>9. CASE DropRow(h)
  <2>1. /\ v.phase = "drop" /\ ubTasks' = [ubTasks EXCEPT ![h] = UbRest]
        /\ bot' = IF bot.secret = v.row.secret THEN NoBot ELSE bot
        /\ UNCHANGED <<webhook, pods, ubLog>>
    BY <1>9 DEF DropRow, UbFinish
  <2>2. bot' \in BotRow /\ OfARegistration(ubLog.made, bot')
    BY <2>1, <1>4, <1>5
  <2>3. ASSUME ~ubLog.overlapped, ubLog.faults = 0 PROVE AsLeft'
    <3>1. /\ bot' = NoBot /\ webhook' = 0
          /\ \A k \in UbHandler \ {h} : ubTasks[k].phase \notin {"hook", "unhook", "drop"}
      BY <2>1, <2>3, <1>6
    <3>2. \A k \in UbHandler : ubTasks'[k].phase \notin {"hook", "unhook", "drop"}
      BY <3>1, <2>1, <1>3 DEF UbInv, UbTypes
    <3>3. QED
      BY <3>1, <3>2, Rows DEF AsLeft, LeftAlone
  <2> HIDE DEF v
  <2>4. QED
    BY <2>1, <2>2, <2>3, <1>1, <1>3, <1>4, ManagerGoesOn DEF v
<1>10. CASE TelegramFails(h)
  <2>1. UbFault /\ UNCHANGED <<bot, pods>>
    BY <1>10 DEF TelegramFails
  <2>2. \/ /\ ubTasks' = [ubTasks EXCEPT ![h] = UbRest]
           /\ webhook' \in {webhook, v.row.secret}
        \/ /\ v.phase = "unhook" /\ webhook' \in {webhook, 0}
           /\ ubTasks' = [ubTasks EXCEPT ![h] = dropping]
    BY <1>10 DEF TelegramFails, UbFinish
  <2> HIDE DEF v, dropping
  <2>3. webhook' \in Secret \cup {0}
    BY <2>2, <1>1, <1>4
  <2>4. QED
    BY <2>1, <2>2, <2>3, <1>1, <1>2, <1>3, <1>4, ManagerGoesOn DEF v
<1>11. QED
  BY <1>7, <1>8, <1>9, <1>10
\* A bot gets its row, and the handler goes on to its webhook; or the bot has a row already.
LEMMA Inserts ==
  ASSUME UbInv, NEW h \in UbHandler, Insert(h)
  PROVE  UbInv'
<1> DEFINE v == ubTasks[h]
<1>1. /\ v \in UbTask /\ Fits(v) /\ v.phase = "insert" /\ v.op = "register"
      /\ v.who \in UbPerson
  BY DEF UbInv, UbTypes, UbTask, TasksFit, Fits, Insert
<1>2. PICK s \in Nat : s = Len(ubLog.made) + 1
  BY DEF UbInv, UbTypes
<1> DEFINE mine == [owner |-> v.who, secret |-> s, status |-> "active"]
<1>3. CASE bot = NoBot /\ s \in Secret
  <2> DEFINE t == [op |-> "register", phase |-> "hook", who |-> v.who, row |-> mine,
                   carried |-> v.carried]
             M == Append(ubLog.made, v.who)
  <2>1. /\ mine \in BotRow /\ mine.secret = s /\ mine.owner = v.who /\ s # 0
    BY <1>1, <1>3, Rows, BotAssumption DEF Secret
  <2>2. t \in UbTask /\ Fits(t) /\ t.phase = "hook" /\ t.row = mine /\ t.op = "register"
    BY <2>1, <1>1, <1>3 DEF UbTask, UbOp, UbPhase, Fits
  <2>3. /\ bot' = mine /\ UNCHANGED <<webhook, pods>>
        /\ ubTasks' = [ubTasks EXCEPT ![h].phase = "hook", ![h].row = mine]
        /\ ubLog' = [ubLog EXCEPT !.made = Append(@, mine.owner)]
    BY <1>2, <1>3 DEF Insert
  <2>4. ubTasks' = [ubTasks EXCEPT ![h] = t]
    <3>1. ubTasks' = [ubTasks EXCEPT ![h] = [v EXCEPT !.phase = "hook", !.row = mine]]
      BY <2>3 DEF UbInv, UbTypes
    <3> HIDE DEF mine, v
    <3>2. [v EXCEPT !.phase = "hook", !.row = mine]
            = [op |-> v.op, phase |-> "hook", who |-> v.who, row |-> mine, carried |-> v.carried]
      BY <1>1, Moved, Zenon
    <3>3. QED
      BY <3>1, <3>2, <1>1
  <2>5. /\ M \in Seq(UbPerson) /\ Len(M) = s /\ M[s] = v.who
        /\ \A i \in 1..Len(ubLog.made) : i \in 1..s /\ M[i] = ubLog.made[i]
    BY <1>1, <1>2 DEF UbInv, UbTypes
  <2>6. ubLog' = [ops |-> ubLog.ops, faults |-> ubLog.faults, overlapped |-> ubLog.overlapped,
                  made |-> M, accepted |-> ubLog.accepted, taken |-> ubLog.taken,
                  passed |-> ubLog.passed, noticed |-> ubLog.noticed, lost |-> ubLog.lost]
    BY <2>3 DEF UbInv, UbTypes
  <2>7. s <= MaxSecrets
    BY <1>3, BotAssumption DEF Secret
  <2> HIDE DEF t, M, v, mine
  <2>8. /\ ubTasks' \in [UbHandler -> UbTask] /\ ubTasks'[h] = t
        /\ \A k \in UbHandler \ {h} : ubTasks'[k] = ubTasks[k]
    BY <2>2, <2>4, BotHandlerTurns DEF UbInv, UbTypes
  <2>9. /\ ubLog'.ops = ubLog.ops /\ ubLog'.faults = ubLog.faults
        /\ ubLog'.overlapped = ubLog.overlapped
        /\ ubLog'.made = M /\ ubLog'.accepted = ubLog.accepted
        /\ ubLog'.taken = ubLog.taken /\ ubLog'.passed = ubLog.passed
        /\ ubLog'.noticed = ubLog.noticed /\ ubLog'.lost = ubLog.lost
    BY <2>6
  <2>10. UbTypes'
    <3>1. ubLog' = [ops |-> ubLog'.ops, faults |-> ubLog'.faults,
                    overlapped |-> ubLog'.overlapped, made |-> ubLog'.made,
                    accepted |-> ubLog'.accepted, taken |-> ubLog'.taken,
                    passed |-> ubLog'.passed, noticed |-> ubLog'.noticed, lost |-> ubLog'.lost]
      BY <2>6, <2>9
    <3>2. QED
      BY <3>1, <2>1, <2>3, <2>5, <2>7, <2>8, <2>9 DEF UbInv, UbTypes
  <2>11. TasksFit'
    BY <2>2, <2>8 DEF UbInv, TasksFit
  <2>12. RowsAreMade'
    <3>1. \A b : OfARegistration(ubLog.made, b) => OfARegistration(M, b)
      BY <2>5 DEF OfARegistration
    <3>2. OfARegistration(M, mine)
      BY <2>1, <2>5, <1>2 DEF OfARegistration
    <3>3. \A m \in ubLog.taken : m[1] \in 1..Len(M) /\ M[m[1]] = m[2]
      BY <2>5 DEF UbInv, RowsAreMade
    <3>4. QED
      BY <3>1, <3>2, <3>3, <2>2, <2>3, <2>8, <2>9 DEF UbInv, RowsAreMade
  <2>13. AllCounted'
    <3>1. h \notin UnderWay(ubTasks) /\ h \notin UnderWay(ubTasks')
      BY <2>2, <2>8, <1>1 DEF UnderWay, v
    <3>2. /\ IsFiniteSet(UnderWay(ubTasks'))
          /\ Cardinality(UnderWay(ubTasks')) = Cardinality(UnderWay(ubTasks))
      BY <3>1, <2>8, OnTheWay DEF UbInv, AllCounted
    <3>3. QED
      BY <3>2, <2>9 DEF UbInv, AllCounted
  <2>14. OneManager => OneManager'
    BY <2>8, <1>1, ManagersStay DEF v
  <2>15. ASSUME ~ubLog.overlapped, ubLog.faults = 0 PROVE AsLeft'
    <3>1. \A k \in UbHandler \ {h} : ubTasks[k].phase \notin {"hook", "unhook", "drop"}
      BY <2>15, <1>1 DEF UbInv, OneManager, TasksFit, Fits, v
    <3>2. AsLeft /\ ubTasks[h].phase \notin {"hook", "drop"}
      BY <2>15, <1>1 DEF UbInv, v
    <3>3. webhook = 0
      BY <3>1, <3>2, <1>3 DEF AsLeft, LeftAlone
    <3>4. QED
      BY <3>1, <3>3, <2>2, <2>3, <2>8 DEF AsLeft
  <2>16. QED
    BY <2>9, <2>10, <2>11, <2>12, <2>13, <2>14, <2>15 DEF UbInv
<1>4. CASE ~(bot = NoBot /\ s \in Secret)
  <2>1. UbFinish(h) /\ UNCHANGED <<bot, webhook, pods, ubLog>>
    BY <1>2, <1>4 DEF Insert
  <2>2. /\ ubLog' = [ops |-> ubLog.ops, faults |-> ubLog.faults,
                     overlapped |-> ubLog.overlapped, made |-> ubLog.made,
                     accepted |-> ubLog.accepted, taken |-> ubLog.taken,
                     passed |-> ubLog.passed, noticed |-> ubLog.noticed, lost |-> ubLog.lost]
        /\ ubLog.faults \in Nat /\ ubLog.passed \in Nat /\ ubLog.noticed \in Nat
        /\ ubLog.lost \in Nat
    BY <2>1 DEF UbInv, UbTypes
  <2>3. QED
    BY <2>1, <2>2, <1>1, BotHandlerEnds
<1>5. QED
  BY <1>3, <1>4

\* A message that is admitted is under way; another one is not for this bot.
LEMMA Receives ==
  ASSUME UbInv, NEW h \in UbHandler, Receive(h)
  PROVE  UbInv'
<1> DEFINE v == ubTasks[h]
<1>1. /\ v \in UbTask /\ Fits(v) /\ v.phase = "receive" /\ v.op = "message"
  BY DEF UbInv, UbTypes, UbTask, UbOp, TasksFit, Fits, Receive
<1>2. CASE Admits(v.carried)
  <2>1. PICK p \in {"forward", "notice"} :
          p = IF bot.owner \in pods THEN "forward" ELSE "notice"
    OBVIOUS
  <2> DEFINE t == [op |-> "message", phase |-> p, who |-> v.who, row |-> bot,
                   carried |-> v.carried]
  <2>2. bot \in BotRow /\ bot.secret \in Secret /\ bot.secret = v.carried
    BY <1>2, Rows DEF Admits, UbInv, UbTypes
  <2>3. /\ t \in UbTask /\ Fits(t) /\ t.op = "message" /\ t.phase \in {"forward", "notice"}
        /\ t.row = bot
    BY <2>2, <1>1 DEF UbTask, UbOp, UbPhase, Fits
  <2>4. /\ ubTasks' = [ubTasks EXCEPT ![h].phase = p, ![h].row = bot]
        /\ ubLog' = [ubLog EXCEPT !.accepted = @ + 1]
        /\ UNCHANGED <<bot, webhook, pods>>
    BY <2>1, <1>2 DEF Receive
  <2>5. ubTasks' = [ubTasks EXCEPT ![h] = t]
    <3>1. ubTasks' = [ubTasks EXCEPT ![h] = [v EXCEPT !.phase = p, !.row = bot]]
      BY <2>4 DEF UbInv, UbTypes
    <3> HIDE DEF v
    <3>2. [v EXCEPT !.phase = p, !.row = bot]
            = [op |-> v.op, phase |-> p, who |-> v.who, row |-> bot, carried |-> v.carried]
      BY <1>1, Moved, Zenon
    <3>3. QED
      BY <3>1, <3>2, <1>1
  <2>6. ubLog' = [ops |-> ubLog.ops, faults |-> ubLog.faults, overlapped |-> ubLog.overlapped,
                  made |-> ubLog.made, accepted |-> ubLog.accepted + 1, taken |-> ubLog.taken,
                  passed |-> ubLog.passed, noticed |-> ubLog.noticed, lost |-> ubLog.lost]
    BY <2>4 DEF UbInv, UbTypes
  <2> HIDE DEF t, v
  <2>7. /\ ubTasks' \in [UbHandler -> UbTask] /\ ubTasks'[h] = t
        /\ \A k \in UbHandler \ {h} : ubTasks'[k] = ubTasks[k]
    BY <2>3, <2>5, BotHandlerTurns DEF UbInv, UbTypes
  <2>8. /\ ubLog'.ops = ubLog.ops /\ ubLog'.faults = ubLog.faults
        /\ ubLog'.overlapped = ubLog.overlapped
        /\ ubLog'.made = ubLog.made /\ ubLog'.accepted = ubLog.accepted + 1
        /\ ubLog'.taken = ubLog.taken /\ ubLog'.passed = ubLog.passed
        /\ ubLog'.noticed = ubLog.noticed /\ ubLog'.lost = ubLog.lost
    BY <2>6
  <2>9. UbTypes'
    <3>1. ubLog' = [ops |-> ubLog'.ops, faults |-> ubLog'.faults,
                    overlapped |-> ubLog'.overlapped, made |-> ubLog'.made,
                    accepted |-> ubLog'.accepted, taken |-> ubLog'.taken,
                    passed |-> ubLog'.passed, noticed |-> ubLog'.noticed, lost |-> ubLog'.lost]
      BY <2>6, <2>8
    <3>2. QED
      BY <3>1, <2>4, <2>7, <2>8 DEF UbInv, UbTypes
  <2>10. TasksFit'
    BY <2>3, <2>7 DEF UbInv, TasksFit
  <2>11. RowsAreMade'
    BY <2>3, <2>4, <2>7, <2>8 DEF UbInv, RowsAreMade
  <2>12. AllCounted'
    <3>1. h \notin UnderWay(ubTasks) /\ h \in UnderWay(ubTasks')
      BY <2>3, <2>7, <1>1 DEF UnderWay, v
    <3>2. /\ IsFiniteSet(UnderWay(ubTasks)) /\ IsFiniteSet(UnderWay(ubTasks'))
          /\ Cardinality(UnderWay(ubTasks)) \in Nat /\ Cardinality(UnderWay(ubTasks')) \in Nat
          /\ Cardinality(UnderWay(ubTasks')) = Cardinality(UnderWay(ubTasks)) + 1
      BY <3>1, <2>7, OnTheWay DEF UbInv, AllCounted
    <3>3. /\ ubLog.passed \in Nat /\ ubLog.noticed \in Nat /\ ubLog.lost \in Nat
          /\ ubLog.accepted = ubLog.passed + ubLog.noticed + ubLog.lost
                                + Cardinality(UnderWay(ubTasks))
      BY DEF UbInv, UbTypes, AllCounted
    <3>4. ubLog.accepted + 1 = ubLog.passed + ubLog.noticed + ubLog.lost
                                 + Cardinality(UnderWay(ubTasks'))
      BY <3>2, <3>3
    <3>5. QED
      BY <3>2, <3>4, <2>8 DEF AllCounted
  <2>13. OneManager => OneManager'
    BY <2>3, <2>7, ManagersStay
  <2>14. AsLeft => AsLeft'
    BY <2>3, <2>4, <2>7, <1>1, MessagesLeave DEF v
  <2>15. QED
    BY <2>8, <2>9, <2>10, <2>11, <2>12, <2>13, <2>14 DEF UbInv
<1>3. CASE ~Admits(v.carried)
  <2>1. UbFinish(h) /\ UNCHANGED <<bot, webhook, pods, ubLog>>
    BY <1>3 DEF Receive
  <2>2. /\ ubLog' = [ops |-> ubLog.ops, faults |-> ubLog.faults,
                     overlapped |-> ubLog.overlapped, made |-> ubLog.made,
                     accepted |-> ubLog.accepted, taken |-> ubLog.taken,
                     passed |-> ubLog.passed, noticed |-> ubLog.noticed, lost |-> ubLog.lost]
        /\ ubLog.faults \in Nat /\ ubLog.passed \in Nat /\ ubLog.noticed \in Nat
        /\ ubLog.lost \in Nat
    BY <2>1 DEF UbInv, UbTypes
  <2>3. QED
    BY <2>1, <2>2, <1>1, BotHandlerEnds
<1>4. QED
  BY <1>2, <1>3

\* The pod takes a message, or has an error and the sender is to be told.
LEMMA Forwards ==
  ASSUME UbInv, NEW h \in UbHandler, Forward(h)
  PROVE  UbInv'
<1> DEFINE v == ubTasks[h]
           t == [v EXCEPT !.phase = "notice"]
<1>1. /\ v \in UbTask /\ Fits(v) /\ v.phase = "forward" /\ v.op = "message"
      /\ UNCHANGED <<bot, webhook, pods>>
  BY DEF UbInv, UbTypes, UbTask, UbOp, TasksFit, Fits, Forward
<1>2. /\ ubLog.ops \in Nat /\ ubLog.faults \in Nat /\ ubLog.passed \in Nat
      /\ ubLog.noticed \in Nat /\ ubLog.lost \in Nat
  BY DEF UbInv, UbTypes
<1>3. CASE /\ UbFinish(h)
           /\ ubLog' = [ubLog EXCEPT !.passed = @ + 1,
                                     !.taken = @ \cup {<<v.carried, v.row.owner>>}]
  <2>1. PICK T : T = ubLog.taken \cup {<<v.carried, v.row.owner>>}
    OBVIOUS
  <2>2. ubLog' = [ubLog EXCEPT !.passed = ubLog.passed + 1, !.taken = T]
    BY <2>1, <1>3
  <2>3. ubLog' = [ops |-> ubLog.ops, faults |-> ubLog.faults, overlapped |-> ubLog.overlapped,
                  made |-> ubLog.made, accepted |-> ubLog.accepted, taken |-> T,
                  passed |-> ubLog.passed + 1, noticed |-> ubLog.noticed, lost |-> ubLog.lost]
    BY <2>2 DEF UbInv, UbTypes
  <2>4. ubLog.passed + 1 \in Nat
        /\ (ubLog.passed + 1) + ubLog.noticed + ubLog.lost
             = ubLog.passed + ubLog.noticed + ubLog.lost
                 + (IF ubTasks[h].phase \in {"forward", "notice"} THEN 1 ELSE 0)
    BY <1>1, <1>2
  <2>5. T = ubLog.taken \cup {<<ubTasks[h].carried, ubTasks[h].row.owner>>}
    BY <2>1
  <2> HIDE DEF v
  <2>6. QED
    BY <2>3, <2>4, <2>5, <1>1, <1>2, <1>3, BotHandlerEnds DEF v
<1>4. CASE ubTasks' = [ubTasks EXCEPT ![h].phase = "notice"] /\ UNCHANGED ubLog
  <2>1. /\ t \in UbTask /\ Fits(t) /\ t.phase = "notice" /\ t.op = "message" /\ t.row = v.row
    BY <1>1 DEF UbTask, UbPhase, Fits
  <2>2. ubTasks' = [ubTasks EXCEPT ![h] = t]
    BY <1>4
  <2> HIDE DEF t, v
  <2>3. /\ ubTasks' \in [UbHandler -> UbTask] /\ ubTasks'[h] = t
        /\ \A k \in UbHandler \ {h} : ubTasks'[k] = ubTasks[k]
    BY <2>1, <2>2, BotHandlerTurns DEF UbInv, UbTypes
  <2>4. UbTypes'
    BY <2>3, <1>1, <1>4 DEF UbInv, UbTypes
  <2>5. TasksFit' /\ RowsAreMade'
    BY <2>1, <2>3, <1>1, <1>4 DEF UbInv, TasksFit, RowsAreMade, v
  <2>6. AllCounted'
    <3>1. h \in UnderWay(ubTasks) /\ h \in UnderWay(ubTasks')
      BY <2>1, <2>3, <1>1 DEF UnderWay, v
    <3>2. /\ IsFiniteSet(UnderWay(ubTasks'))
          /\ Cardinality(UnderWay(ubTasks')) = Cardinality(UnderWay(ubTasks))
      BY <3>1, <2>3, OnTheWay DEF UbInv, AllCounted
    <3>3. QED
      BY <3>2, <1>4 DEF UbInv, AllCounted
  <2>7. OneManager => OneManager'
    BY <2>1, <2>3, ManagersStay
  <2>8. AsLeft => AsLeft'
    BY <2>1, <2>3, <1>1, MessagesLeave DEF v
  <2>9. QED
    BY <2>4, <2>5, <2>6, <2>7, <2>8, <1>4 DEF UbInv
<1>5. QED
  BY <1>3, <1>4 DEF Forward

\* The sender is told, or that fails, or a replica dies.
LEMMA TellsOrDies ==
  ASSUME UbInv, NEW h \in UbHandler, Notice(h) \/ UbDies(h)
  PROVE  UbInv'
<1>1. UbFinish(h) /\ UNCHANGED <<bot, webhook, pods>>
  BY DEF Notice, UbDies
<1>2. /\ ubLog.faults \in Nat /\ ubLog.passed \in Nat
      /\ ubLog.noticed \in Nat /\ ubLog.lost \in Nat
  BY DEF UbInv, UbTypes
<1>3. PICK n \in {ubLog.faults, ubLog.faults + 1}, q \in {ubLog.noticed, ubLog.noticed + 1},
           l \in {ubLog.lost, ubLog.lost + 1} :
        /\ ubLog' = [ops |-> ubLog.ops, faults |-> n, overlapped |-> ubLog.overlapped,
                     made |-> ubLog.made, accepted |-> ubLog.accepted, taken |-> ubLog.taken,
                     passed |-> ubLog.passed, noticed |-> q, lost |-> l]
        /\ ubLog.passed + q + l = ubLog.passed + ubLog.noticed + ubLog.lost
             + (IF ubTasks[h].phase \in {"forward", "notice"} THEN 1 ELSE 0)
        /\ \/ n = ubLog.faults /\ ubTasks[h].phase \notin {"hook", "unhook", "drop"}
           \/ n = ubLog.faults + 1
  <2>1. CASE Notice(h) /\ ubLog' = [ubLog EXCEPT !.noticed = @ + 1]
    <3>1. ubTasks[h].phase = "notice"
      BY <2>1 DEF Notice
    <3>2. ubLog' = [ops |-> ubLog.ops, faults |-> ubLog.faults, overlapped |-> ubLog.overlapped,
                    made |-> ubLog.made, accepted |-> ubLog.accepted, taken |-> ubLog.taken,
                    passed |-> ubLog.passed, noticed |-> ubLog.noticed + 1, lost |-> ubLog.lost]
      BY <2>1 DEF UbInv, UbTypes
    <3>3. ubLog.passed + (ubLog.noticed + 1) + ubLog.lost
            = ubLog.passed + ubLog.noticed + ubLog.lost + 1
      BY <1>2
    <3>4. QED
      BY <3>1, <3>2, <3>3
  <2>2. CASE Notice(h) /\ ubLog' = [ubLog EXCEPT !.faults = @ + 1, !.lost = @ + 1]
    <3>1. ubTasks[h].phase = "notice"
      BY <2>2 DEF Notice
    <3>2. ubLog' = [ops |-> ubLog.ops, faults |-> ubLog.faults + 1,
                    overlapped |-> ubLog.overlapped,
                    made |-> ubLog.made, accepted |-> ubLog.accepted, taken |-> ubLog.taken,
                    passed |-> ubLog.passed, noticed |-> ubLog.noticed, lost |-> ubLog.lost + 1]
      BY <2>2 DEF UbInv, UbTypes
    <3>3. ubLog.passed + ubLog.noticed + (ubLog.lost + 1)
            = ubLog.passed + ubLog.noticed + ubLog.lost + 1
      BY <1>2
    <3>4. QED
      BY <3>1, <3>2, <3>3
  <2>3. CASE UbDies(h)
    <3>1. PICK l \in {ubLog.lost, ubLog.lost + 1} :
            l = IF ubTasks[h].phase \in {"forward", "notice"} THEN ubLog.lost + 1 ELSE ubLog.lost
      OBVIOUS
    <3>2. ubLog' = [ubLog EXCEPT !.faults = @ + 1, !.lost = l]
      BY <2>3, <3>1 DEF UbDies
    <3>3. ubLog' = [ops |-> ubLog.ops, faults |-> ubLog.faults + 1,
                    overlapped |-> ubLog.overlapped,
                    made |-> ubLog.made, accepted |-> ubLog.accepted, taken |-> ubLog.taken,
                    passed |-> ubLog.passed, noticed |-> ubLog.noticed, lost |-> l]
      BY <3>2 DEF UbInv, UbTypes
    <3>4. ubLog.passed + ubLog.noticed + l = ubLog.passed + ubLog.noticed + ubLog.lost
            + (IF ubTasks[h].phase \in {"forward", "notice"} THEN 1 ELSE 0)
      BY <3>1, <1>2
    <3>5. QED
      BY <3>3, <3>4
  <2>4. QED
    BY <2>1, <2>2, <2>3 DEF Notice
<1>4. n \in Nat /\ q \in Nat /\ l \in Nat
  BY <1>2
<1>5. QED
  BY <1>1, <1>2, <1>3, <1>4, BotHandlerEnds

\* The invariant is kept by every step.
LEMMA UbInvHolds == UbSpec => []UbInv
<1>1. UbInv /\ [UbNext]_ubVars => UbInv'
  <2> SUFFICES ASSUME UbInv, [UbNext]_ubVars PROVE UbInv'
    OBVIOUS
  <2>1. ASSUME NEW u \in UbPerson, Pod(u) PROVE UbInv'
    <3>1. /\ pods' \subseteq UbPerson /\ UNCHANGED <<bot, webhook, ubTasks, ubLog>>
      BY <2>1 DEF Pod, UbInv, UbTypes
    <3>2. UbTypes'
      BY <3>1 DEF UbInv, UbTypes
    <3>3. QED
      BY <3>1, <3>2
      DEF UbInv, TasksFit, RowsAreMade, AllCounted, UnderWay, OneManager, AsLeft, LeftAlone
  <2>2. ASSUME NEW h \in UbHandler,
               (\E u \in UbPerson : BeginRegister(h, u)) \/ BeginDelete(h) \/ BeginMessage(h)
        PROVE  UbInv'
    BY <2>2, BotHandlersBegin
  <2>3. ASSUME NEW h \in UbHandler,
               SetWebhook(h) \/ DeleteWebhook(h) \/ DropRow(h) \/ TelegramFails(h)
        PROVE  UbInv'
    BY <2>3, ManagersGoOn
  <2>4. ASSUME NEW h \in UbHandler, Insert(h) \/ Receive(h) \/ Forward(h) PROVE UbInv'
    BY <2>4, Inserts, Receives, Forwards
  <2>5. ASSUME NEW h \in UbHandler, Notice(h) \/ UbDies(h) PROVE UbInv'
    BY <2>5, TellsOrDies
  <2>6. CASE UNCHANGED ubVars
    BY <2>6
    DEF ubVars, UbInv, UbTypes, TasksFit, RowsAreMade, AllCounted, UnderWay, OneManager, AsLeft,
        LeftAlone
  <2>7. QED
    BY <2>1, <2>2, <2>3, <2>4, <2>5, <2>6 DEF UbNext
<1>2. QED
  BY <1>1, UbInitInv, PTL DEF UbSpec

\* Every state has the declared types.
THEOREM BotTypeCorrect == UbSpec => []UbTypeOK
<1>1. UbInv => UbTypeOK
  BY DEF UbInv, UbTypes, UbTypeOK, UbTask, UbOp, UbPhase
<1>2. QED
  BY <1>1, UbInvHolds, PTL

\* For any number of people, handlers, secrets and faults: a message reaches the pod of the one
\* who made its secret; a bot that is managed by one at a time and has no fault hears or has no
\* webhook; and each accepted message is taken, told, lost in a fault or still under way.
THEOREM MessagesEndWell == UbSpec => []MessagesArrive
<1>1. UbInv => MessagesArrive
  <2> SUFFICES ASSUME UbInv PROVE MessagesArrive
    OBVIOUS
  <2>1. TakenByRegistrant
    BY DEF TakenByRegistrant, UbInv, RowsAreMade
  <2>2. BotHears
    BY DEF BotHears, Managing, UbInv, AsLeft, LeftAlone, TasksFit, Fits
  <2>3. TakenOrTold
    BY DEF TakenOrTold, UbInv, AllCounted, UnderWay
  <2>4. QED
    BY <2>1, <2>2, <2>3 DEF MessagesArrive
<1>2. QED
  BY <1>1, UbInvHolds, PTL

-----------------------------------------------------------------------------
(***************************************************************************)
(* TerminalApps. That the list names no port of another application needs  *)
(* that a port has one holder (OneHolds). That the window shows no other   *)
(* needs that nobody else is on his way to the port (TabIsAlone). What is  *)
(* deployed is the project because of what a copy has seen, copied and     *)
(* still to copy (CopyIsOn), and because a version's number never comes    *)
(* again (VersionsGrow).                                                   *)
(***************************************************************************)
WaState == {"absent", "bare", "project"}
WaEntry == [port : WaPort \cup {NoPort}, path : WaDir \cup {"none"}]
Process == [phase : {"none", "starting", "listening", "dying"},
            dir : WaDir \cup {"none", "gone"}, port : WaPort \cup {NoPort},
            family : {"v4", "v6"}]
PortPhase == {"listening", "dying"}

WaTypes ==
  /\ dirs \in [WaDir -> WaState]
  /\ registry \in [WaName -> WaEntry]
  /\ procs \in [WaProc -> Process]
  /\ tab = [dir |-> tab.dir, port |-> tab.port, quiet |-> tab.quiet, shows |-> tab.shows]
  /\ tab.dir \in WaDir \cup {"none"} /\ tab.port \in WaPort \cup {NoPort}
  /\ tab.quiet \in BOOLEAN /\ tab.shows \in {"nothing", "nobody", "it", "another"}
  /\ copying \in [phase : {"idle", "copying"}, todo : SUBSET WaItem,
                  said : {"nothing", "failed", "prepared"}, seen : [WaItem -> Nat]]
  /\ files \in [source : [WaItem -> Nat], current : [WaItem -> Nat]]
  /\ waLog = [ops |-> waLog.ops, faults |-> waLog.faults, listed |-> waLog.listed]
  /\ waLog.ops \in 0..MaxWaOps /\ waLog.faults \in 0..MaxWaFaults /\ waLog.listed \in BOOLEAN

\* An entry is of a directory, which need not be there.
EntriesHavePaths == \A n \in WaName : registry[n] # NoEntry => registry[n].path \in WaDir

\* What does not run has no port.
NothingHasAPort == \A p \in WaProc : procs[p].phase = "none" => procs[p].port = NoPort

\* A port is held by one process at most.
OneHolds ==
  \A p, r \in WaProc :
    /\ procs[p].phase \in PortPhase /\ procs[r].phase \in PortPhase
    /\ procs[p].port = procs[r].port
    => p = r

\* While nothing else is on its way to the port of the window, whoever holds or will hold it works
\* in the directory of the application.
TabIsAlone ==
  tab.quiet =>
    /\ tab.port \in WaPort
    /\ \A p \in WaProc : procs[p].port = tab.port => procs[p].dir = tab.dir

\* What a copy has seen, has copied and has still to copy.
CopyIsOn ==
  copying.phase = "copying" =>
    /\ copying.said = "nothing"
    /\ \A i \in WaItem :
         /\ copying.seen[i] = 0 => i \notin copying.todo /\ files.current[i] = 0
         /\ copying.seen[i] # 0 /\ i \in copying.todo
              => files.source[i] = 0 \/ files.source[i] >= copying.seen[i]
         /\ copying.seen[i] # 0 /\ i \notin copying.todo
              => files.current[i] >= copying.seen[i]

\* A later version has a higher number.
VersionsGrow ==
  \A i \in WaItem : files.source[i] <= waLog.ops + 1 /\ copying.seen[i] <= waLog.ops + 1

PortsInv ==
  /\ EntriesHavePaths /\ NothingHasAPort /\ OneHolds
  /\ ListNamesOwnPorts /\ TabIsAlone /\ WindowShowsOwn

CopyInv == VersionsGrow /\ CopyIsOn /\ PreparedIsTheProject

WaInv == WaTypes /\ PortsInv /\ CopyInv

-----------------------------------------------------------------------------
(* The types *)

\* The null values.
LEMMA NoneAtAll ==
  /\ NoEntry \in WaEntry /\ NoEntry.port = NoPort
  /\ NoProc \in Process /\ NoProc.phase = "none" /\ NoProc.port = NoPort
  /\ NoPort \notin WaPort /\ "none" \notin PortPhase /\ "starting" \notin PortPhase
BY TerminalAppsAssumption DEF NoEntry, WaEntry, NoProc, Process, NoPort, WaPort, PortPhase

\* At first every directory has a project and nothing runs.
LEMMA WaInitInv == WaInit => WaInv
<1> SUFFICES ASSUME WaInit PROVE WaInv
  OBVIOUS
<1>1. /\ dirs \in [WaDir -> WaState] /\ registry \in [WaName -> WaEntry]
      /\ procs \in [WaProc -> Process]
      /\ \A n \in WaName : registry[n] = NoEntry
      /\ \A p \in WaProc : procs[p] = NoProc
  BY NoneAtAll DEF WaInit, WaState
<1>2. /\ tab = [dir |-> "none", port |-> NoPort, quiet |-> FALSE, shows |-> "nothing"]
      /\ waLog = [ops |-> 0, faults |-> 0, listed |-> FALSE]
      /\ copying = [phase |-> "idle", todo |-> {}, said |-> "nothing",
                    seen |-> [i \in WaItem |-> 0]]
      /\ files = [source |-> [i \in WaItem |-> 1], current |-> [i \in WaItem |-> 0]]
  BY DEF WaInit, NoTab, NoCopy
<1>3. WaTypes
  BY <1>1, <1>2, TerminalAppsAssumption DEF WaTypes
<1>4. PortsInv
  BY <1>1, <1>2, NoneAtAll
  DEF PortsInv, EntriesHavePaths, NothingHasAPort, OneHolds, ListNamesOwnPorts, TabIsAlone,
      WindowShowsOwn
<1>5. CopyInv
  BY <1>2 DEF CopyInv, VersionsGrow, CopyIsOn, PreparedIsTheProject
<1>6. QED
  BY <1>3, <1>4, <1>5 DEF WaInv

\* An operation is counted, and tells whether the list is still that of the last status.
LEMMA OpIsCounted ==
  ASSUME WaTypes, NEW l \in BOOLEAN, CountsOp(l)
  PROVE  /\ waLog' = [ops |-> waLog'.ops, faults |-> waLog'.faults, listed |-> waLog'.listed]
         /\ waLog'.ops = waLog.ops + 1 /\ waLog'.ops \in 0..MaxWaOps
         /\ waLog'.faults \in 0..MaxWaFaults /\ waLog'.listed = l /\ waLog.ops \in Nat
<1>1. waLog' = [waLog EXCEPT !.ops = @ + 1, !.listed = l] /\ waLog.ops < MaxWaOps
  BY DEF CountsOp
<1>2. waLog' = [ops |-> waLog.ops + 1, faults |-> waLog.faults, listed |-> l]
  BY <1>1 DEF WaTypes
<1>3. waLog.ops \in Nat /\ waLog.ops + 1 \in 0..MaxWaOps /\ waLog.faults \in 0..MaxWaFaults
  BY <1>1, TerminalAppsAssumption DEF WaTypes
<1>4. QED
  BY <1>2, <1>3

\* A request that scans is counted, and so is a scan that fails.
LEMMA ScanIsCounted ==
  ASSUME WaTypes, NEW l \in BOOLEAN, NEW scan, Scans(scan, l)
  PROVE  /\ waLog' = [ops |-> waLog'.ops, faults |-> waLog'.faults, listed |-> waLog'.listed]
         /\ waLog'.ops = waLog.ops + 1 /\ waLog'.ops \in 0..MaxWaOps
         /\ waLog'.faults \in 0..MaxWaFaults /\ waLog'.listed = l /\ waLog.ops \in Nat
<1> DEFINE f == IF scan = ListeningPorts THEN waLog.faults ELSE waLog.faults + 1
<1>1. /\ waLog' = [waLog EXCEPT !.ops = @ + 1, !.listed = l, !.faults = f]
      /\ waLog.ops < MaxWaOps /\ (scan = ListeningPorts \/ waLog.faults < MaxWaFaults)
  BY DEF Scans
<1>2. f \in 0..MaxWaFaults
  BY <1>1, TerminalAppsAssumption DEF WaTypes
<1> HIDE DEF f
<1>3. waLog' = [ops |-> waLog.ops + 1, faults |-> f, listed |-> l]
  BY <1>1 DEF WaTypes
<1>4. waLog.ops \in Nat /\ waLog.ops + 1 \in 0..MaxWaOps
  BY <1>1, TerminalAppsAssumption DEF WaTypes
<1>5. QED
  BY <1>2, <1>3, <1>4

\* A fault is counted, and leaves the list as it is.
LEMMA FaultIsCounted ==
  ASSUME WaTypes, waLog.faults < MaxWaFaults, waLog' = [waLog EXCEPT !.faults = @ + 1]
  PROVE  /\ waLog' = [ops |-> waLog'.ops, faults |-> waLog'.faults, listed |-> waLog'.listed]
         /\ waLog'.ops = waLog.ops /\ waLog'.ops \in 0..MaxWaOps
         /\ waLog'.faults \in 0..MaxWaFaults /\ waLog'.listed = waLog.listed
<1>1. waLog' = [ops |-> waLog.ops, faults |-> waLog.faults + 1, listed |-> waLog.listed]
  BY DEF WaTypes
<1>2. waLog.faults + 1 \in 0..MaxWaFaults /\ waLog.ops \in 0..MaxWaOps
  BY TerminalAppsAssumption DEF WaTypes
<1>3. QED
  BY <1>1, <1>2

-----------------------------------------------------------------------------
(* Processes *)

\* Processes that end or are told to end keep what they hold, or let it go.
Quieter(ps) ==
  /\ ps \in [WaProc -> Process]
  /\ \A p \in WaProc :
       \/ ps[p] = NoProc
       \/ /\ ps[p].port = procs[p].port /\ ps[p].dir = procs[p].dir
          /\ ps[p].phase = procs[p].phase \/ {ps[p].phase, procs[p].phase} \subseteq PortPhase

\* The holders of a port.
LEMMA Holding ==
  \A q, p : p \in Holders(q) <=> p \in WaProc /\ procs[p].phase \in PortPhase /\ procs[p].port = q
BY DEF Holders, PortPhase

\* Whoever is seen at a port holds it.
LEMMA Seeing ==
  \A q, p : p \in Seen(q) => p \in WaProc /\ procs[p].phase \in PortPhase /\ procs[p].port = q
BY Holding DEF Seen

\* Whoever is told to end is quieter.
LEMMA KilledIsQuieter ==
  ASSUME WaTypes, NEW ports
  PROVE  Quieter(KilledAt(ports))
<1> DEFINE K == KilledAt(ports)
<1>1. K = [p \in WaProc |-> IF \E q \in ports : p \in Seen(q)
                            THEN [procs[p] EXCEPT !.phase = "dying"] ELSE procs[p]]
  BY DEF KilledAt
<1> HIDE DEF K
<1>2. ASSUME NEW p \in WaProc
      PROVE  /\ K[p] \in Process /\ K[p].port = procs[p].port /\ K[p].dir = procs[p].dir
             /\ K[p].phase = procs[p].phase \/ {K[p].phase, procs[p].phase} \subseteq PortPhase
  <2>1. procs[p] \in Process
    BY DEF WaTypes
  <2>2. CASE \E q \in ports : p \in Seen(q)
    <3>1. K[p] = [procs[p] EXCEPT !.phase = "dying"] /\ procs[p].phase \in PortPhase
      BY <2>2, <1>1, Seeing
    <3>2. QED
      BY <3>1, <2>1 DEF Process, PortPhase
  <2>3. CASE ~\E q \in ports : p \in Seen(q)
    BY <2>1, <2>3, <1>1
  <2>4. QED
    BY <2>2, <2>3
<1>3. K \in [WaProc -> Process]
  <2>1. DOMAIN K = WaProc /\ K = [p \in WaProc |-> K[p]]
    BY <1>1
  <2>2. QED
    BY <2>1, <1>2
<1>4. QED
  BY <1>2, <1>3 DEF Quieter, K

\* Quieter processes disturb neither the list nor the window.
LEMMA QuietKeepsPorts ==
  ASSUME WaTypes, PortsInv, Quieter(procs'), UNCHANGED <<registry, tab>>,
         waLog'.listed => waLog.listed
  PROVE  PortsInv'
<1>1. EntriesHavePaths' /\ WindowShowsOwn'
  BY DEF PortsInv, EntriesHavePaths, WindowShowsOwn
<1>2. \A p \in WaProc : procs'[p].phase \in PortPhase =>
        /\ procs[p].phase \in PortPhase /\ procs'[p].port = procs[p].port
        /\ procs'[p].dir = procs[p].dir
  BY NoneAtAll DEF Quieter
<1>3. OneHolds' /\ NothingHasAPort'
  BY <1>2, NoneAtAll DEF PortsInv, OneHolds, NothingHasAPort, Quieter
<1>4. ListNamesOwnPorts'
  <2> SUFFICES ASSUME waLog'.listed, NEW n \in WaName, NEW p \in WaProc,
                      registry'[n].port # NoPort, p \in Holders(registry[n].port)'
               PROVE  procs'[p].dir = registry'[n].path
    BY DEF ListNamesOwnPorts
  <2>1. procs'[p].phase \in PortPhase /\ procs'[p].port = registry[n].port
    BY DEF Holders, PortPhase
  <2>2. p \in Holders(registry[n].port)
    BY <2>1, <1>2, Holding
  <2>3. QED
    BY <2>1, <2>2, <1>2 DEF PortsInv, ListNamesOwnPorts
<1>5. TabIsAlone'
  BY NoneAtAll DEF PortsInv, TabIsAlone, Quieter
<1>6. QED
  BY <1>1, <1>3, <1>4, <1>5 DEF PortsInv

\* What nothing is done to disturbs nothing.
LEMMA SameKeepsPorts ==
  ASSUME WaTypes, PortsInv, UNCHANGED <<registry, procs, tab>>, waLog'.listed => waLog.listed
  PROVE  PortsInv'
<1>1. Quieter(procs')
  BY DEF Quieter, WaTypes
<1>2. QED
  BY <1>1, QuietKeepsPorts

\* The copy is not disturbed by what leaves the files alone.
LEMMA SameKeepsCopy ==
  ASSUME CopyInv, WaTypes, UNCHANGED <<copying, files>>,
         waLog'.ops \in {waLog.ops, waLog.ops + 1}
  PROVE  CopyInv'
<1>1. /\ \A i \in WaItem : files.source[i] \in Nat /\ copying.seen[i] \in Nat
      /\ waLog.ops \in Nat
  BY TerminalAppsAssumption DEF WaTypes
<1>2. VersionsGrow'
  BY <1>1 DEF CopyInv, VersionsGrow
<1>3. CopyIsOn' /\ PreparedIsTheProject'
  BY DEF CopyInv, CopyIsOn, PreparedIsTheProject
<1>4. QED
  BY <1>2, <1>3 DEF CopyInv

\* A process that is spawned is on its way to its port, and holds none yet.
LEMMA Spawning ==
  ASSUME NEW ps \in [WaProc -> Process], NEW d \in WaDir, NEW q \in WaPort,
         NEW qs \in Spawned(ps, d, q)
  PROVE  /\ qs \in [WaProc -> Process]
         /\ \A p \in WaProc : \/ qs[p] = ps[p]
                              \/ /\ qs[p].phase = "starting"
                                 /\ qs[p].dir = d /\ qs[p].port = q
<1>1. PICK r \in WaProc, f \in {"v4", "v6"} :
        qs = [ps EXCEPT ![r] = [phase |-> "starting", dir |-> d, port |-> q, family |-> f]]
  BY DEF Spawned
<1>2. [phase |-> "starting", dir |-> d, port |-> q, family |-> f] \in Process
  BY DEF Process
<1>3. QED
  BY <1>1, <1>2

\* A process binds its port, if nobody holds it.
LEMMA Binds ==
  ASSUME WaInv, NEW p \in WaProc, Bind(p)
  PROVE  WaInv'
<1> DEFINE b == IF Holders(procs[p].port) = {} THEN [procs[p] EXCEPT !.phase = "listening"]
                ELSE NoProc
<1>1. /\ procs[p].phase = "starting" /\ procs[p] \in Process
      /\ UNCHANGED <<dirs, registry, tab, copying, files>>
  BY DEF Bind, WaInv, WaTypes
<1>2. procs' = [procs EXCEPT ![p] = b]
  BY DEF Bind
<1>3. /\ b \in Process
      /\ \/ b = NoProc
         \/ /\ b.port = procs[p].port /\ b.dir = procs[p].dir /\ b.phase = "listening"
            /\ Holders(procs[p].port) = {}
  BY <1>1, NoneAtAll DEF Process
<1> HIDE DEF b
<1>4. /\ procs' \in [WaProc -> Process] /\ procs'[p] = b
      /\ \A r \in WaProc \ {p} : procs'[r] = procs[r]
  BY <1>2, <1>3 DEF WaInv, WaTypes
<1>5. /\ waLog' = [ops |-> waLog'.ops, faults |-> waLog'.faults, listed |-> waLog'.listed]
      /\ waLog'.ops = waLog.ops /\ waLog'.faults = waLog.faults /\ waLog'.listed = FALSE
  <2>1. waLog' = [ops |-> waLog.ops, faults |-> waLog.faults, listed |-> FALSE]
    BY DEF Bind, WaInv, WaTypes
  <2>2. QED
    BY <2>1
<1>6. WaTypes'
  BY <1>1, <1>4, <1>5 DEF WaInv, WaTypes
<1>7. OneHolds'
  <2>1. b.phase \in PortPhase =>
          \A r \in WaProc \ {p} : ~(procs[r].phase \in PortPhase /\ procs[r].port = b.port)
    BY <1>3, Holding, NoneAtAll
  <2>2. QED
    BY <2>1, <1>4 DEF WaInv, PortsInv, OneHolds
<1>8. TabIsAlone' /\ NothingHasAPort'
  BY <1>1, <1>3, <1>4, NoneAtAll DEF WaInv, PortsInv, TabIsAlone, NothingHasAPort
<1>9. EntriesHavePaths' /\ ListNamesOwnPorts' /\ WindowShowsOwn'
  BY <1>1, <1>5 DEF WaInv, PortsInv, EntriesHavePaths, ListNamesOwnPorts, WindowShowsOwn
<1>10. CopyInv'
  BY <1>1, <1>5, SameKeepsCopy DEF WaInv
<1>11. QED
  BY <1>6, <1>7, <1>8, <1>9, <1>10 DEF WaInv, PortsInv

\* Processes end, or are told to, while the list and the window stay.
LEMMA EndsOfProcesses ==
  ASSUME WaInv,
         \/ \E p \in WaProc : Exit(p)
         \/ \E d \in WaDir, scan \in SUBSET ListeningPorts : StartAppUnsupported(d, scan)
         \/ \E q \in WaPort : Stop(q)
         \/ \E scan \in SUBSET ListeningPorts : StopAll(scan)
  PROVE  WaInv'
<1>1. WaTypes
  BY DEF WaInv
<1>2. Quieter(procs') /\ UNCHANGED <<dirs, registry, tab, copying, files>>
  <2>1. ASSUME NEW p \in WaProc, Exit(p) PROVE Quieter(procs')
    BY <2>1, <1>1, NoneAtAll DEF Exit, Quieter, WaTypes
  <2>2. QED
    BY <2>1, <1>1, KilledIsQuieter DEF Exit, StartAppUnsupported, Stop, StopAll
<1>3. /\ waLog' = [ops |-> waLog'.ops, faults |-> waLog'.faults, listed |-> waLog'.listed]
      /\ waLog'.ops \in {waLog.ops, waLog.ops + 1} /\ waLog'.ops \in 0..MaxWaOps
      /\ waLog'.faults \in 0..MaxWaFaults /\ waLog'.listed = waLog.listed
  <2>1. \/ CountsOp(waLog.listed) \/ UNCHANGED waLog
        \/ \E scan : Scans(scan, waLog.listed)
    BY DEF Exit, StartAppUnsupported, Stop, StopAll, Handled
  <2>2. waLog.listed \in BOOLEAN
    BY <1>1 DEF WaTypes
  <2>3. CASE CountsOp(waLog.listed)
    BY <2>2, <2>3, <1>1, OpIsCounted
  <2>4. CASE UNCHANGED waLog
    BY <2>4, <1>1 DEF WaTypes
  <2>5. ASSUME NEW scan, Scans(scan, waLog.listed)
        PROVE  /\ waLog' = [ops |-> waLog'.ops, faults |-> waLog'.faults, listed |-> waLog'.listed]
               /\ waLog'.ops \in {waLog.ops, waLog.ops + 1} /\ waLog'.ops \in 0..MaxWaOps
               /\ waLog'.faults \in 0..MaxWaFaults /\ waLog'.listed = waLog.listed
    BY <2>2, <2>5, <1>1, ScanIsCounted
  <2>6. QED
    BY <2>1, <2>3, <2>4, <2>5
<1>4. waLog'.listed \in BOOLEAN /\ procs' \in [WaProc -> Process]
  BY <1>1, <1>2, <1>3 DEF WaTypes, Quieter
<1>5. WaTypes'
  BY <1>1, <1>2, <1>3, <1>4 DEF WaTypes
<1>6. PortsInv'
  BY <1>2, <1>3, QuietKeepsPorts DEF WaInv
<1>7. CopyInv'
  BY <1>2, <1>3, SameKeepsCopy DEF WaInv
<1>8. QED
  BY <1>5, <1>6, <1>7 DEF WaInv
\* A program that is run by hand is on its way to a port; if that is the window's, the window is no
\* longer alone.
LEMMA RunsByHand ==
  ASSUME WaInv, NEW d \in WaDir, NEW q \in WaPort, RunByHand(d, q)
  PROVE  WaInv'
<1>1. /\ WaTypes /\ CountsOp(FALSE) /\ procs' \in Spawned(procs, d, q)
      /\ tab' = IF tab.port = q THEN [tab EXCEPT !.quiet = FALSE] ELSE tab
      /\ UNCHANGED <<dirs, registry, copying, files>>
  BY DEF RunByHand, WaInv
<1>2. /\ procs' \in [WaProc -> Process]
      /\ \A p \in WaProc : \/ procs'[p] = procs[p]
                           \/ /\ procs'[p].phase = "starting"
                              /\ procs'[p].dir = d /\ procs'[p].port = q
  BY <1>1, Spawning DEF WaTypes
<1>3. /\ waLog' = [ops |-> waLog'.ops, faults |-> waLog'.faults, listed |-> waLog'.listed]
      /\ waLog'.ops = waLog.ops + 1 /\ waLog'.ops \in 0..MaxWaOps
      /\ waLog'.faults \in 0..MaxWaFaults /\ waLog'.listed = FALSE
  BY <1>1, OpIsCounted
<1>4. /\ tab' = [dir |-> tab'.dir, port |-> tab'.port, quiet |-> tab'.quiet,
                 shows |-> tab'.shows]
      /\ tab'.dir = tab.dir /\ tab'.port = tab.port /\ tab'.shows = tab.shows
      /\ tab.port = q => tab'.quiet = FALSE
      /\ tab.port # q => tab'.quiet = tab.quiet
      /\ tab'.quiet \in BOOLEAN
  <2>1. CASE tab.port = q
    <3>1. tab' = [dir |-> tab.dir, port |-> tab.port, quiet |-> FALSE, shows |-> tab.shows]
      BY <2>1, <1>1 DEF WaTypes
    <3>2. QED
      BY <2>1, <3>1
  <2>2. CASE tab.port # q
    BY <2>2, <1>1 DEF WaTypes
  <2>3. QED
    BY <2>1, <2>2
<1>5. WaTypes'
  BY <1>1, <1>2, <1>3, <1>4 DEF WaTypes
<1>6. OneHolds' /\ NothingHasAPort'
  BY <1>2, NoneAtAll DEF WaInv, PortsInv, OneHolds, NothingHasAPort
<1>7. TabIsAlone' /\ WindowShowsOwn'
  <2>1. CASE tab.port = q
    BY <2>1, <1>4 DEF TabIsAlone, WindowShowsOwn
  <2>2. CASE tab.port # q
    BY <2>2, <1>2, <1>4 DEF WaInv, PortsInv, TabIsAlone, WindowShowsOwn
  <2>3. QED
    BY <2>1, <2>2
<1>8. EntriesHavePaths' /\ ListNamesOwnPorts'
  BY <1>1, <1>3 DEF WaInv, PortsInv, EntriesHavePaths, ListNamesOwnPorts
<1>9. CopyInv'
  BY <1>1, <1>3, SameKeepsCopy DEF WaInv
<1>10. QED
  BY <1>5, <1>6, <1>7, <1>8, <1>9 DEF WaInv, PortsInv

\* The hub starts an application at the port where it ran, or at one that nobody holds.
LEMMA StartsApp ==
  ASSUME WaInv, NEW d \in WaDir, NEW scan \in SUBSET ListeningPorts, StartApp(d, scan)
  PROVE  WaInv'
<1>1. WaTypes /\ Scans(scan, FALSE) /\ UNCHANGED <<dirs, copying, files>>
  BY DEF StartApp, WaInv
<1>2. PICK q \in PortsFor(d, scan) :
        LET rest == KilledAt(IF PortsOf(d, scan) # {} THEN {q} ELSE {}) IN
        /\ registry' = [registry EXCEPT ![d] = [port |-> q, path |-> d]]
        /\ \/ dirs[d] = "absent" /\ procs' = rest /\ tab' = NoTab
           \/ /\ dirs[d] # "absent"
              /\ procs' \in Spawned(rest, d, q)
              /\ tab' = [NoTab EXCEPT !.dir = d, !.port = q, !.quiet = NothingUnseen(q, scan)]
  BY Zenon DEF StartApp
<1> DEFINE rest == KilledAt(IF PortsOf(d, scan) # {} THEN {q} ELSE {})
           alone == NothingUnseen(q, scan)
<1>3. Quieter(rest)
  BY <1>1, KilledIsQuieter
<1>4. /\ q \in WaPort
      /\ alone => \A p \in WaProc :
           procs[p].phase \in PortPhase /\ procs[p].port = q => procs[p].dir = d
  <2>1. CASE PortsOf(d, scan) # {}
    <3>1. q \in WaPort /\ \E p \in WaProc : procs[p].phase \in PortPhase /\ procs[p].port = q
                                              /\ procs[p].dir = d
      BY <2>1, Seeing DEF PortsFor, PortsOf, ListeningPorts
    <3>2. QED
      BY <3>1 DEF WaInv, PortsInv, OneHolds
  <2>2. CASE PortsOf(d, scan) = {}
    <3>1. q \in WaPort /\ q \notin scan
      BY <2>2 DEF PortsFor
    <3>2. alone => Holders(q) = {}
      BY <3>1 DEF NothingUnseen
    <3>3. QED
      BY <3>1, <3>2, Holding
  <2>3. QED
    BY <2>1, <2>2
<1>5. registry' = [registry EXCEPT ![d] = [port |-> q, path |-> d]]
  BY <1>2
<1>6. \/ procs' = rest /\ tab' = NoTab
      \/ /\ procs' \in Spawned(rest, d, q)
         /\ tab' = [NoTab EXCEPT !.dir = d, !.port = q, !.quiet = alone]
  BY <1>2
<1>7. alone \in BOOLEAN
  BY DEF NothingUnseen
<1>8. alone => \A p \in WaProc : procs[p].phase = "starting" => procs[p].port # q
  BY DEF NothingUnseen
<1> HIDE DEF rest, alone
<1>9. /\ registry' \in [WaName -> WaEntry]
      /\ \A n \in WaName : registry'[n] = registry[n] \/ registry'[n].path = d
  BY <1>1, <1>4, <1>5 DEF WaTypes, WaEntry, WaName
<1>10. /\ procs' \in [WaProc -> Process]
       /\ \A p \in WaProc : \/ procs'[p] = rest[p]
                            \/ /\ procs'[p].phase = "starting"
                               /\ procs'[p].dir = d /\ procs'[p].port = q
  BY <1>3, <1>4, <1>6, Spawning DEF Quieter
<1>11. \A p \in WaProc : procs'[p].phase \in PortPhase =>
         procs[p].phase \in PortPhase /\ procs'[p].port = procs[p].port
  BY <1>3, <1>10, NoneAtAll DEF Quieter
<1>12. /\ tab' = [dir |-> tab'.dir, port |-> tab'.port, quiet |-> tab'.quiet,
                  shows |-> tab'.shows]
       /\ tab'.dir \in WaDir \cup {"none"} /\ tab'.port \in WaPort \cup {NoPort}
       /\ tab'.quiet \in BOOLEAN /\ tab'.shows = "nothing"
       /\ tab'.quiet => alone /\ tab'.dir = d /\ tab'.port = q
  <2>1. CASE tab' = NoTab
    BY <2>1 DEF NoTab
  <2>2. CASE tab' = [NoTab EXCEPT !.dir = d, !.port = q, !.quiet = alone]
    <3>1. tab' = [dir |-> d, port |-> q, quiet |-> alone, shows |-> "nothing"]
      BY <2>2 DEF NoTab
    <3>2. QED
      BY <3>1, <1>4, <1>7
  <2>3. QED
    BY <2>1, <2>2, <1>6
<1>13. /\ waLog' = [ops |-> waLog'.ops, faults |-> waLog'.faults, listed |-> waLog'.listed]
       /\ waLog'.ops = waLog.ops + 1 /\ waLog'.ops \in 0..MaxWaOps
       /\ waLog'.faults \in 0..MaxWaFaults /\ waLog'.listed = FALSE
  BY <1>1, ScanIsCounted
<1>14. WaTypes'
  BY <1>1, <1>9, <1>10, <1>12, <1>13 DEF WaTypes
<1>15. OneHolds' /\ NothingHasAPort'
  BY <1>3, <1>10, <1>11, NoneAtAll DEF WaInv, PortsInv, OneHolds, NothingHasAPort, Quieter
<1>16. TabIsAlone'
  <2> SUFFICES ASSUME tab'.quiet, NEW p \in WaProc, procs'[p].port = q
               PROVE  procs'[p].dir = d
    BY <1>4, <1>12 DEF TabIsAlone
  <2>1. CASE procs'[p].phase = "starting" /\ procs'[p].dir = d /\ procs'[p].port = q
    BY <2>1
  <2>2. CASE procs'[p] = rest[p]
    <3>1. rest[p] # NoProc
      BY <2>2, <1>4, NoneAtAll
    <3>2. /\ rest[p].port = procs[p].port /\ rest[p].dir = procs[p].dir
          /\ procs[p].port = q
      BY <2>2, <3>1, <1>3 DEF Quieter
    <3>3. procs[p].phase # "starting"
      BY <3>2, <1>8, <1>12
    <3>4. CASE procs[p].phase \in PortPhase
      BY <2>2, <3>2, <3>4, <1>4, <1>12
    <3>5. CASE procs[p].phase = "none"
      <4>1. procs[p].port = NoPort
        BY <3>5 DEF WaInv, PortsInv, NothingHasAPort
      <4>2. QED
        BY <4>1, <3>2, <1>4, NoneAtAll
    <3>6. QED
      BY <3>3, <3>4, <3>5 DEF WaInv, WaTypes, Process, PortPhase
  <2>3. QED
    BY <2>1, <2>2, <1>10
<1>17. WindowShowsOwn' /\ EntriesHavePaths' /\ ListNamesOwnPorts'
  BY <1>9, <1>12, <1>13 DEF WaInv, PortsInv, WindowShowsOwn, EntriesHavePaths, ListNamesOwnPorts
<1>18. CopyInv'
  BY <1>1, <1>13, SameKeepsCopy DEF WaInv
<1>19. QED
  BY <1>14, <1>15, <1>16, <1>17, <1>18 DEF WaInv, PortsInv
\* The hub opens the window: of an application that is alone at its port it shows nothing else.
LEMMA Opens ==
  ASSUME WaInv, Open
  PROVE  WaInv'
<1>1. /\ WaTypes /\ UNCHANGED <<dirs, registry, procs, copying, files, waLog>>
  BY DEF Open, WaInv
<1>2. PICK w \in {"nobody", "it", "another"} :
        /\ w = IF Holders(tab.port) = {} THEN "nobody"
               ELSE IF \E p \in Holders(tab.port) : procs[p].dir = tab.dir THEN "it"
               ELSE "another"
  OBVIOUS
<1>3. tab' = [tab EXCEPT !.shows = w]
  BY <1>2 DEF Open
<1>4. tab' = [dir |-> tab.dir, port |-> tab.port, quiet |-> tab.quiet, shows |-> w]
  BY <1>1, <1>3 DEF WaTypes
<1>5. /\ tab' = [dir |-> tab'.dir, port |-> tab'.port, quiet |-> tab'.quiet,
                 shows |-> tab'.shows]
      /\ tab'.dir = tab.dir /\ tab'.port = tab.port /\ tab'.quiet = tab.quiet
      /\ tab'.shows = w
  BY <1>4
<1>6. WaTypes'
  BY <1>1, <1>5 DEF WaTypes
<1>7. tab.quiet => w # "another"
  BY <1>2, Holding DEF WaInv, PortsInv, TabIsAlone
<1>8. OneHolds' /\ NothingHasAPort' /\ TabIsAlone' /\ WindowShowsOwn'
  BY <1>1, <1>5, <1>7
  DEF WaInv, PortsInv, OneHolds, NothingHasAPort, TabIsAlone, WindowShowsOwn
<1>9. EntriesHavePaths' /\ ListNamesOwnPorts'
  BY <1>1 DEF WaInv, PortsInv, EntriesHavePaths, ListNamesOwnPorts, Holders
<1>10. CopyInv'
  BY <1>1, SameKeepsCopy DEF WaInv
<1>11. QED
  BY <1>6, <1>8, <1>9, <1>10 DEF WaInv, PortsInv

\* The list is written again, with the port of whoever listens from the directory of the entry.
LEMMA ListsApps ==
  ASSUME WaInv, NEW scan \in SUBSET ListeningPorts, Status(scan)
  PROVE  WaInv'
<1>1. WaTypes /\ Scans(scan, TRUE) /\ UNCHANGED <<dirs, procs, tab, copying, files>>
  BY DEF Status, WaInv
<1>2. PICK ports \in [WaDir -> WaPort \cup {NoPort}] :
        /\ \A d \in WaDir :
             ports[d] \in (IF PortsOf(d, scan) = {} THEN {NoPort} ELSE PortsOf(d, scan))
        /\ registry' = [n \in WaName |-> AtPort(Detected(n), ports)]
  BY DEF Status
<1>3. /\ waLog' = [ops |-> waLog'.ops, faults |-> waLog'.faults, listed |-> waLog'.listed]
      /\ waLog'.ops = waLog.ops + 1 /\ waLog'.ops \in 0..MaxWaOps
      /\ waLog'.faults \in 0..MaxWaFaults /\ waLog'.listed = TRUE
  BY <1>1, ScanIsCounted
<1>4. ASSUME NEW n \in WaName
      PROVE  /\ registry'[n] \in WaEntry
             /\ registry'[n] # NoEntry => registry'[n].path \in WaDir
             /\ registry'[n].port # NoPort => registry'[n].port \in PortsOf(registry'[n].path, scan)
  <2>1. PICK e : e = Detected(n)
    OBVIOUS
  <2>2. e \in WaEntry /\ (e # NoEntry => e.path \in WaDir)
    <3>1. CASE registry[n] = NoEntry /\ n \in WaDir /\ dirs[n] = "project"
      <4>1. e = [NoEntry EXCEPT !.path = n]
        BY <2>1, <3>1 DEF Detected
      <4>2. e = [port |-> NoPort, path |-> n]
        BY <4>1 DEF NoEntry
      <4>3. QED
        BY <3>1, <4>2 DEF WaEntry
    <3>2. CASE ~(registry[n] = NoEntry /\ n \in WaDir /\ dirs[n] = "project")
      BY <2>1, <3>2, <1>1 DEF Detected, WaTypes, WaInv, PortsInv, EntriesHavePaths
    <3>3. QED
      BY <3>1, <3>2
  <2>3. registry'[n] = AtPort(e, ports)
    BY <1>2, <2>1
  <2>4. CASE e = NoEntry
    BY <2>2, <2>3, <2>4, NoneAtAll DEF AtPort
  <2>5. CASE e # NoEntry
    <3>1. e.path \in WaDir /\ registry'[n] = [e EXCEPT !.port = ports[e.path]]
      BY <2>2, <2>3, <2>5 DEF AtPort
    <3>2. registry'[n] = [port |-> ports[e.path], path |-> e.path]
      BY <2>2, <3>1 DEF WaEntry
    <3>3. /\ ports[e.path] \in WaPort \cup {NoPort}
          /\ ports[e.path] # NoPort => ports[e.path] \in PortsOf(e.path, scan)
      BY <1>2, <3>1
    <3>4. QED
      BY <3>1, <3>2, <3>3 DEF WaEntry
  <2>6. QED
    BY <2>4, <2>5
<1>5. registry' \in [WaName -> WaEntry]
  <2>1. registry' = [n \in WaName |-> registry'[n]]
    BY <1>2
  <2>2. QED
    BY <2>1, <1>4
<1>6. WaTypes'
  BY <1>1, <1>3, <1>5 DEF WaTypes
<1>7. OneHolds' /\ NothingHasAPort' /\ TabIsAlone' /\ WindowShowsOwn'
  BY <1>1 DEF WaInv, PortsInv, OneHolds, NothingHasAPort, TabIsAlone, WindowShowsOwn
<1>8. EntriesHavePaths'
  BY <1>4 DEF EntriesHavePaths
<1>9. ListNamesOwnPorts'
  <2> SUFFICES ASSUME NEW n \in WaName, NEW p \in WaProc,
                      registry'[n].port # NoPort, p \in Holders(registry[n].port)'
               PROVE  procs'[p].dir = registry'[n].path
    BY DEF ListNamesOwnPorts
  <2>1. PICK q, d : q = registry'[n].port /\ d = registry'[n].path
    OBVIOUS
  <2>2. procs[p].phase \in PortPhase /\ procs[p].port = q
    BY <2>1, <1>1 DEF Holders, PortPhase
  <2>3. q \in PortsOf(d, scan)
    BY <2>1, <1>4
  <2>4. PICK r \in WaProc : procs[r].phase \in PortPhase /\ procs[r].port = q /\ procs[r].dir = d
    BY <2>3, Seeing DEF PortsOf
  <2>5. p = r
    BY <2>2, <2>4 DEF WaInv, PortsInv, OneHolds
  <2>6. QED
    BY <2>1, <2>4, <2>5, <1>1
<1>10. CopyInv'
  BY <1>1, <1>3, SameKeepsCopy DEF WaInv
<1>11. QED
  BY <1>6, <1>7, <1>8, <1>9, <1>10 DEF WaInv, PortsInv

\* An entry goes to another name.
LEMMA RenamesApp ==
  ASSUME WaInv, NEW old \in WaName, NEW new \in WaName, RenameApp(old, new)
  PROVE  WaInv'
<1>1. /\ WaTypes /\ CountsOp(waLog.listed) /\ UNCHANGED <<dirs, procs, tab, copying, files>>
      /\ registry' = [registry EXCEPT ![new] = registry[old], ![old] = NoEntry]
  BY DEF RenameApp, Handled, WaInv
<1>2. waLog.listed \in BOOLEAN
  BY <1>1 DEF WaTypes
<1>3. /\ waLog' = [ops |-> waLog'.ops, faults |-> waLog'.faults, listed |-> waLog'.listed]
      /\ waLog'.ops = waLog.ops + 1 /\ waLog'.ops \in 0..MaxWaOps
      /\ waLog'.faults \in 0..MaxWaFaults /\ waLog'.listed = waLog.listed
  BY <1>1, <1>2, OpIsCounted
<1>4. /\ registry' \in [WaName -> WaEntry]
      /\ \A n \in WaName : \E m \in WaName : registry'[n] \in {NoEntry, registry[m]}
  BY <1>1, NoneAtAll DEF WaTypes
<1>5. WaTypes'
  BY <1>1, <1>2, <1>3, <1>4 DEF WaTypes
<1>6. OneHolds' /\ NothingHasAPort' /\ TabIsAlone' /\ WindowShowsOwn'
  BY <1>1 DEF WaInv, PortsInv, OneHolds, NothingHasAPort, TabIsAlone, WindowShowsOwn
<1>7. EntriesHavePaths'
  BY <1>4 DEF WaInv, PortsInv, EntriesHavePaths
<1>8. ListNamesOwnPorts'
  <2> SUFFICES ASSUME waLog'.listed, NEW n \in WaName, NEW p \in WaProc,
                      registry'[n].port # NoPort, p \in Holders(registry[n].port)'
               PROVE  procs'[p].dir = registry'[n].path
    BY DEF ListNamesOwnPorts
  <2>1. PICK m \in WaName : registry'[n] = registry[m]
    BY <1>4, NoneAtAll
  <2>2. p \in Holders(registry[m].port)
    BY <2>1, <1>1 DEF Holders
  <2>3. QED
    BY <2>1, <2>2, <1>1, <1>3 DEF WaInv, PortsInv, ListNamesOwnPorts
<1>9. CopyInv'
  BY <1>1, <1>3, SameKeepsCopy DEF WaInv
<1>10. QED
  BY <1>5, <1>6, <1>7, <1>8, <1>9 DEF WaInv, PortsInv

\* The processes ps, with those of directory d working in e from now on.
Relocated(ps, d, e) ==
  [p \in WaProc |-> IF ps[p].dir = d THEN [ps[p] EXCEPT !.dir = e] ELSE ps[p]]

\* What works in a directory that is gone or renamed keeps what it holds.
LEMMA OrphansHold ==
  ASSUME NEW ps \in [WaProc -> Process], NEW d \in WaDir, NEW e \in WaDir \cup {"gone"}
  PROVE  /\ Relocated(ps, d, e) \in [WaProc -> Process]
         /\ \A p \in WaProc : /\ Relocated(ps, d, e)[p].phase = ps[p].phase
                              /\ Relocated(ps, d, e)[p].port = ps[p].port
<1> DEFINE os == [p \in WaProc |-> IF ps[p].dir = d THEN [ps[p] EXCEPT !.dir = e] ELSE ps[p]]
<1>1. ASSUME NEW p \in WaProc
      PROVE  os[p] \in Process /\ os[p].phase = ps[p].phase /\ os[p].port = ps[p].port
  BY DEF Process
<1>2. QED
  BY <1>1 DEF Relocated

\* Directories go or get another name: the list is old, and the window's may be among them.
LEMMA DirectoriesGo ==
  ASSUME WaInv,
         \/ \E d \in WaDir : DeleteProject(d) \/ DeleteDir(d)
         \/ \E d, e \in WaDir : RenameDir(d, e)
  PROVE  WaInv'
<1>1. /\ WaTypes /\ CountsOp(FALSE) /\ tab' = [tab EXCEPT !.quiet = FALSE]
      /\ UNCHANGED <<copying, files>>
  BY DEF DeleteProject, DeleteDir, RenameDir, Handled, WaInv
<1> DEFINE Kept == /\ dirs' \in [WaDir -> WaState]
                   /\ registry' \in [WaName -> WaEntry]
                   /\ \A n \in WaName : registry'[n] \in {NoEntry, registry[n]}
<1>2. Kept
  <2>1. dirs \in [WaDir -> WaState] /\ registry \in [WaName -> WaEntry]
    BY <1>1 DEF WaTypes
  <2>2. ASSUME NEW d \in WaDir, DeleteProject(d) PROVE Kept
    <3>1. dirs' = [dirs EXCEPT ![d] = "absent"] /\ registry' = [registry EXCEPT ![d] = NoEntry]
      BY <2>2 DEF DeleteProject
    <3>2. QED
      BY <3>1, <2>1, NoneAtAll DEF WaState
  <2>3. ASSUME NEW d \in WaDir, DeleteDir(d) PROVE Kept
    BY <2>1, <2>3 DEF DeleteDir, WaState
  <2>4. ASSUME NEW d \in WaDir, NEW e \in WaDir, RenameDir(d, e) PROVE Kept
    BY <2>1, <2>4 DEF RenameDir, WaState
  <2>5. QED
    BY <2>2, <2>3, <2>4
<1> DEFINE HeldAsBefore ==
             /\ procs' \in [WaProc -> Process]
             /\ \A p \in WaProc :
                  /\ procs'[p].phase \in PortPhase => procs[p].phase \in PortPhase
                  /\ procs'[p].port = procs[p].port
                  /\ procs'[p].phase = "none" => procs[p].phase = "none"
<1>3. HeldAsBefore
  <2>1. ASSUME NEW d \in WaDir, DeleteProject(d) PROVE HeldAsBefore
    <3> DEFINE ks == KilledAt({registry[d].port})
    <3>1. /\ ks \in [WaProc -> Process]
          /\ \A p \in WaProc : /\ ks[p].port = procs[p].port
                               /\ ks[p].phase \in PortPhase => procs[p].phase \in PortPhase
                               /\ ks[p].phase = "none" => procs[p].phase = "none"
      <4>1. Quieter(ks)
        BY <1>1, KilledIsQuieter
      <4> HIDE DEF ks
      <4>2. ASSUME NEW p \in WaProc, ks[p] = NoProc PROVE procs[p].phase = "none"
        BY <4>2, NoneAtAll DEF ks, KilledAt, WaInv, WaTypes, Process, NoProc
      <4>3. QED
        BY <4>1, <4>2, NoneAtAll DEF Quieter, WaInv, PortsInv, NothingHasAPort
    <3>2. PICK e \in WaDir \cup {"gone"} : e = "gone"
      OBVIOUS
    <3>3. procs' = Relocated(ks, d, e)
      BY <2>1, <3>2 DEF DeleteProject, Orphaned, Relocated
    <3> HIDE DEF ks
    <3>4. /\ procs' \in [WaProc -> Process]
          /\ \A p \in WaProc : procs'[p].phase = ks[p].phase /\ procs'[p].port = ks[p].port
      BY <3>1, <3>3, OrphansHold
    <3>5. QED
      BY <3>1, <3>4
  <2>2. ASSUME NEW d \in WaDir, DeleteDir(d) PROVE HeldAsBefore
    <3>1. PICK e \in WaDir \cup {"gone"} : e = "gone"
      OBVIOUS
    <3>2. procs' = Relocated(procs, d, e)
      BY <2>2, <3>1 DEF DeleteDir, Orphaned, Relocated
    <3>3. procs \in [WaProc -> Process]
      BY <1>1 DEF WaTypes
    <3>4. /\ procs' \in [WaProc -> Process]
          /\ \A p \in WaProc : /\ procs'[p].phase = procs[p].phase
                               /\ procs'[p].port = procs[p].port
      BY <3>2, <3>3, OrphansHold
    <3>5. QED
      BY <3>4
  <2>3. ASSUME NEW d \in WaDir, NEW e \in WaDir, RenameDir(d, e) PROVE HeldAsBefore
    <3>1. procs' = Relocated(procs, d, e)
      BY <2>3 DEF RenameDir, Relocated
    <3>2. procs \in [WaProc -> Process]
      BY <1>1 DEF WaTypes
    <3>3. /\ procs' \in [WaProc -> Process]
          /\ \A p \in WaProc : /\ procs'[p].phase = procs[p].phase
                               /\ procs'[p].port = procs[p].port
      BY <3>1, <3>2, OrphansHold
    <3>4. QED
      BY <3>3
  <2>4. QED
    BY <2>1, <2>2, <2>3
<1>4. /\ waLog' = [ops |-> waLog'.ops, faults |-> waLog'.faults, listed |-> waLog'.listed]
      /\ waLog'.ops = waLog.ops + 1 /\ waLog'.ops \in 0..MaxWaOps
      /\ waLog'.faults \in 0..MaxWaFaults /\ waLog'.listed = FALSE
  BY <1>1, OpIsCounted
<1>5. /\ tab' = [dir |-> tab'.dir, port |-> tab'.port, quiet |-> tab'.quiet,
                 shows |-> tab'.shows]
      /\ tab'.dir = tab.dir /\ tab'.port = tab.port /\ tab'.quiet = FALSE
      /\ tab'.shows = tab.shows
  <2>1. tab' = [dir |-> tab.dir, port |-> tab.port, quiet |-> FALSE, shows |-> tab.shows]
    BY <1>1 DEF WaTypes
  <2>2. QED
    BY <2>1
<1>6. WaTypes'
  BY <1>1, <1>2, <1>3, <1>4, <1>5 DEF WaTypes
<1>7. OneHolds' /\ NothingHasAPort'
  BY <1>3 DEF WaInv, PortsInv, OneHolds, NothingHasAPort
<1>8. EntriesHavePaths' /\ ListNamesOwnPorts' /\ TabIsAlone' /\ WindowShowsOwn'
  BY <1>2, <1>4, <1>5
  DEF WaInv, PortsInv, EntriesHavePaths, ListNamesOwnPorts, TabIsAlone, WindowShowsOwn
<1>9. CopyInv'
  BY <1>1, <1>4, SameKeepsCopy DEF WaInv
<1>10. QED
  BY <1>6, <1>7, <1>8, <1>9 DEF WaInv, PortsInv

\* A directory is made, or made a project.
LEMMA DirectoriesCome ==
  ASSUME WaInv, NEW d \in WaDir, Mkdir(d) \/ MakeProject(d)
  PROVE  WaInv'
<1>1. /\ WaTypes /\ UNCHANGED <<registry, procs, tab, copying, files>>
      /\ dirs' \in [WaDir -> WaState]
  BY DEF Mkdir, MakeProject, WaInv, WaTypes, WaState
<1>2. /\ waLog' = [ops |-> waLog'.ops, faults |-> waLog'.faults, listed |-> waLog'.listed]
      /\ waLog'.ops \in {waLog.ops, waLog.ops + 1} /\ waLog'.ops \in 0..MaxWaOps
      /\ waLog'.faults \in 0..MaxWaFaults /\ waLog'.listed = waLog.listed
      /\ waLog.listed \in BOOLEAN
  BY <1>1, OpIsCounted DEF Mkdir, MakeProject, Handled, WaTypes
<1>3. WaTypes'
  BY <1>1, <1>2 DEF WaTypes
<1>4. QED
  BY <1>1, <1>2, <1>3, SameKeepsPorts, SameKeepsCopy DEF WaInv

\* The terminal restarts.
LEMMA Restarts ==
  ASSUME WaInv, RestartTerminal
  PROVE  WaInv'
<1>1. /\ WaTypes /\ procs' = [p \in WaProc |-> NoProc] /\ tab' = NoTab /\ copying' = NoCopy
      /\ UNCHANGED <<dirs, registry, files>>
      /\ waLog.faults < MaxWaFaults /\ waLog' = [waLog EXCEPT !.faults = @ + 1]
  BY DEF RestartTerminal, WaInv
<1>2. /\ waLog' = [ops |-> waLog'.ops, faults |-> waLog'.faults, listed |-> waLog'.listed]
      /\ waLog'.ops = waLog.ops /\ waLog'.ops \in 0..MaxWaOps
      /\ waLog'.faults \in 0..MaxWaFaults /\ waLog'.listed = waLog.listed
  BY <1>1, FaultIsCounted
<1>3. /\ tab' = [dir |-> "none", port |-> NoPort, quiet |-> FALSE, shows |-> "nothing"]
      /\ copying' = [phase |-> "idle", todo |-> {}, said |-> "nothing",
                     seen |-> [i \in WaItem |-> 0]]
  BY <1>1 DEF NoTab, NoCopy
<1>4. WaTypes'
  BY <1>1, <1>2, <1>3, NoneAtAll DEF WaTypes
<1>5. PortsInv'
  BY <1>1, <1>2, <1>3, NoneAtAll
  DEF WaInv, PortsInv, EntriesHavePaths, NothingHasAPort, OneHolds, ListNamesOwnPorts,
      TabIsAlone, WindowShowsOwn, Holders
<1>6. CopyInv'
  BY <1>1, <1>2, <1>3, TerminalAppsAssumption
  DEF WaInv, WaTypes, CopyInv, VersionsGrow, CopyIsOn, PreparedIsTheProject
<1>7. QED
  BY <1>4, <1>5, <1>6 DEF WaInv
-----------------------------------------------------------------------------
(* The copy *)

\* The record of a copy, and the two versions of the files.
LEMMA CopyRows ==
  ASSUME WaTypes
  PROVE  /\ copying = [phase |-> copying.phase, todo |-> copying.todo, said |-> copying.said,
                       seen |-> copying.seen]
         /\ copying.phase \in {"idle", "copying"} /\ copying.todo \subseteq WaItem
         /\ copying.said \in {"nothing", "failed", "prepared"}
         /\ copying.seen \in [WaItem -> Nat]
         /\ files = [source |-> files.source, current |-> files.current]
         /\ files.source \in [WaItem -> Nat] /\ files.current \in [WaItem -> Nat]
         /\ waLog.ops \in Nat
BY TerminalAppsAssumption DEF WaTypes

\* The user writes an item, or removes it.
LEMMA EditsItem ==
  ASSUME WaInv, NEW i \in WaItem, EditItem(i)
  PROVE  WaInv'
<1>1. /\ WaTypes /\ CountsOp(waLog.listed)
      /\ UNCHANGED <<dirs, registry, procs, tab, copying>>
  BY DEF EditItem, WaInv
<1>2. waLog.listed \in BOOLEAN
  BY <1>1 DEF WaTypes
<1>3. /\ waLog' = [ops |-> waLog'.ops, faults |-> waLog'.faults, listed |-> waLog'.listed]
      /\ waLog'.ops = waLog.ops + 1 /\ waLog'.ops \in 0..MaxWaOps
      /\ waLog'.faults \in 0..MaxWaFaults /\ waLog'.listed = waLog.listed
  BY <1>1, <1>2, OpIsCounted
<1>4. waLog.ops \in Nat /\ waLog.ops + 2 \in Nat
  BY <1>1, CopyRows
<1>5. PICK v \in {waLog.ops + 2, 0} : files' = [files EXCEPT !.source[i] = v]
  BY DEF EditItem
<1>6. PICK S : S = [files.source EXCEPT ![i] = v]
  OBVIOUS
<1>7. files' = [source |-> S, current |-> files.current]
  BY <1>1, <1>5, <1>6, CopyRows
<1>8. S \in [WaItem -> Nat] /\ S[i] = v /\ \A j \in WaItem \ {i} : S[j] = files.source[j]
  BY <1>1, <1>4, <1>6, CopyRows
<1>9. /\ files' \in [source : [WaItem -> Nat], current : [WaItem -> Nat]]
      /\ files'.source = S /\ files'.current = files.current
  BY <1>1, <1>7, <1>8, CopyRows
<1>10. WaTypes'
  BY <1>1, <1>2, <1>3, <1>9 DEF WaTypes
<1>11. PortsInv'
  BY <1>1, <1>3, SameKeepsPorts DEF WaInv
<1>12. /\ \A j \in WaItem : files.source[j] <= waLog.ops + 1 /\ copying.seen[j] <= waLog.ops + 1
       /\ \A j \in WaItem : files.source[j] \in Nat /\ copying.seen[j] \in Nat
  BY <1>1, CopyRows DEF WaInv, CopyInv, VersionsGrow
<1>13. VersionsGrow'
  BY <1>1, <1>3, <1>4, <1>8, <1>9, <1>12 DEF VersionsGrow
<1>14. CopyIsOn'
  <2> SUFFICES ASSUME copying.phase = "copying", NEW j \in WaItem
               PROVE  /\ copying.said = "nothing"
                      /\ copying.seen[j] = 0 => j \notin copying.todo /\ files'.current[j] = 0
                      /\ copying.seen[j] # 0 /\ j \in copying.todo
                           => files'.source[j] = 0 \/ files'.source[j] >= copying.seen[j]
                      /\ copying.seen[j] # 0 /\ j \notin copying.todo
                           => files'.current[j] >= copying.seen[j]
    BY <1>1 DEF CopyIsOn, WaInv, CopyInv
  <2>1. S[j] = files.source[j] \/ S[j] = 0 \/ S[j] >= copying.seen[j]
    BY <1>4, <1>8, <1>12
  <2>2. QED
    BY <2>1, <1>9 DEF CopyIsOn, WaInv, CopyInv
<1>15. PreparedIsTheProject'
  BY <1>1, <1>9 DEF PreparedIsTheProject, WaInv, CopyInv
<1>16. QED
  BY <1>10, <1>11, <1>13, <1>14, <1>15 DEF WaInv, CopyInv

\* A copy begins with nothing of the last one.
LEMMA CopyBegins ==
  ASSUME WaInv, BeginPrepare
  PROVE  WaInv'
<1>1. /\ WaTypes /\ CountsOp(waLog.listed) /\ UNCHANGED <<dirs, registry, procs, tab>>
      /\ files' = [files EXCEPT !.current = [i \in WaItem |-> 0]]
      /\ copying' = [phase |-> "copying", todo |-> Present, said |-> "nothing",
                     seen |-> files.source]
  BY DEF BeginPrepare, Handled, WaInv
<1>2. waLog.listed \in BOOLEAN
  BY <1>1 DEF WaTypes
<1>3. /\ waLog' = [ops |-> waLog'.ops, faults |-> waLog'.faults, listed |-> waLog'.listed]
      /\ waLog'.ops = waLog.ops + 1 /\ waLog'.ops \in 0..MaxWaOps
      /\ waLog'.faults \in 0..MaxWaFaults /\ waLog'.listed = waLog.listed
  BY <1>1, <1>2, OpIsCounted
<1>4. files' = [source |-> files.source, current |-> [i \in WaItem |-> 0]]
  BY <1>1, CopyRows
<1>5. /\ files'.source = files.source /\ files'.current = [i \in WaItem |-> 0]
      /\ copying'.phase = "copying" /\ copying'.said = "nothing" /\ copying'.seen = files.source
      /\ copying'.todo = {i \in WaItem : files.source[i] # 0}
  BY <1>1, <1>4 DEF Present
<1>6. /\ files.source \in [WaItem -> Nat] /\ waLog.ops \in Nat
      /\ \A i \in WaItem : files.source[i] <= waLog.ops + 1
  BY <1>1, CopyRows DEF WaInv, CopyInv, VersionsGrow
<1>7. /\ files' \in [source : [WaItem -> Nat], current : [WaItem -> Nat]]
      /\ copying' \in [phase : {"idle", "copying"}, todo : SUBSET WaItem,
                       said : {"nothing", "failed", "prepared"}, seen : [WaItem -> Nat]]
  <2>1. files' \in [source : [WaItem -> Nat], current : [WaItem -> Nat]]
    BY <1>4, <1>6
  <2>2. PICK T \in SUBSET WaItem : T = Present
    BY DEF Present
  <2>3. copying' = [phase |-> "copying", todo |-> T, said |-> "nothing", seen |-> files.source]
    BY <2>2, <1>1
  <2>4. QED
    BY <2>1, <2>3, <1>6
<1>8. WaTypes'
  BY <1>1, <1>2, <1>3, <1>7 DEF WaTypes
<1>9. PortsInv'
  BY <1>1, <1>3, SameKeepsPorts DEF WaInv
<1>10. CopyInv'
  BY <1>3, <1>5, <1>6 DEF CopyInv, VersionsGrow, CopyIsOn, PreparedIsTheProject
<1>11. QED
  BY <1>8, <1>9, <1>10 DEF WaInv

\* An item is copied as it is by then.
LEMMA CopiesItem ==
  ASSUME WaInv, NEW i \in WaItem, CopyItem(i)
  PROVE  WaInv'
<1>1. /\ WaTypes /\ UNCHANGED <<dirs, registry, procs, tab, waLog>>
      /\ copying.phase = "copying" /\ i \in copying.todo /\ files.source[i] # 0
      /\ files' = [files EXCEPT !.current[i] = files.source[i]]
      /\ copying' = [copying EXCEPT !.todo = @ \ {i}]
  BY DEF CopyItem, WaInv
<1>2. PICK C : C = [files.current EXCEPT ![i] = files.source[i]]
  OBVIOUS
<1>3. files' = [source |-> files.source, current |-> C]
  BY <1>1, <1>2, CopyRows
<1>4. /\ C \in [WaItem -> Nat] /\ C[i] = files.source[i]
      /\ \A j \in WaItem \ {i} : C[j] = files.current[j]
  BY <1>1, <1>2, CopyRows
<1>5. copying' = [phase |-> copying.phase, todo |-> copying.todo \ {i}, said |-> copying.said,
                  seen |-> copying.seen]
  BY <1>1, CopyRows
<1>6. /\ files'.source = files.source /\ files'.current = C
      /\ copying'.phase = "copying" /\ copying'.said = copying.said
      /\ copying'.seen = copying.seen /\ copying'.todo = copying.todo \ {i}
  BY <1>1, <1>3, <1>5
<1>7. /\ files' \in [source : [WaItem -> Nat], current : [WaItem -> Nat]]
      /\ copying' \in [phase : {"idle", "copying"}, todo : SUBSET WaItem,
                       said : {"nothing", "failed", "prepared"}, seen : [WaItem -> Nat]]
  BY <1>1, <1>3, <1>4, <1>5, CopyRows
<1>8. WaTypes'
  BY <1>1, <1>7 DEF WaTypes
<1>9. PortsInv'
  BY <1>1, SameKeepsPorts DEF WaInv
<1>10. CopyInv'
  BY <1>1, <1>4, <1>6 DEF WaInv, CopyInv, VersionsGrow, CopyIsOn, PreparedIsTheProject
<1>11. QED
  BY <1>8, <1>9, <1>10 DEF WaInv

\* A copy ends, prepared or failed.
LEMMA CopyEnds ==
  ASSUME WaInv, CopyFails \/ EndPrepare
  PROVE  WaInv'
<1>1. WaTypes /\ UNCHANGED <<dirs, registry, procs, tab, files>> /\ copying.phase = "copying"
  BY DEF CopyFails, EndPrepare, WaInv
<1>2. /\ waLog' = [ops |-> waLog'.ops, faults |-> waLog'.faults, listed |-> waLog'.listed]
      /\ waLog'.ops = waLog.ops /\ waLog'.ops \in 0..MaxWaOps
      /\ waLog'.faults \in 0..MaxWaFaults /\ waLog'.listed = waLog.listed
      /\ waLog.listed \in BOOLEAN
  <2>1. CASE UNCHANGED waLog
    BY <2>1, <1>1 DEF WaTypes
  <2>2. CASE waLog.faults < MaxWaFaults /\ waLog' = [waLog EXCEPT !.faults = @ + 1]
    BY <2>2, <1>1, FaultIsCounted DEF WaTypes
  <2>3. QED
    BY <2>1, <2>2 DEF CopyFails, EndPrepare
<1>3. CASE CopyFails
  <2>1. copying' = [phase |-> "idle", todo |-> {}, said |-> "failed",
                    seen |-> [j \in WaItem |-> 0]]
    BY <1>3 DEF CopyFails, NoCopy
  <2>2. copying' \in [phase : {"idle", "copying"}, todo : SUBSET WaItem,
                      said : {"nothing", "failed", "prepared"}, seen : [WaItem -> Nat]]
    BY <2>1
  <2>3. WaTypes'
    BY <1>1, <1>2, <2>2 DEF WaTypes
  <2>4. CopyInv'
    BY <2>1, <1>1, <1>2, CopyRows
    DEF WaInv, CopyInv, VersionsGrow, CopyIsOn, PreparedIsTheProject
  <2>5. QED
    BY <2>3, <2>4, <1>1, <1>2, SameKeepsPorts DEF WaInv
<1>4. CASE EndPrepare
  <2>1. copying' = [phase |-> "idle", todo |-> copying.todo, said |-> "prepared",
                    seen |-> copying.seen]
        /\ copying.todo = {}
    BY <1>4, <1>1, CopyRows DEF EndPrepare
  <2>2. copying' \in [phase : {"idle", "copying"}, todo : SUBSET WaItem,
                      said : {"nothing", "failed", "prepared"}, seen : [WaItem -> Nat]]
    BY <2>1, <1>1, CopyRows
  <2>3. WaTypes'
    BY <1>1, <1>2, <2>2 DEF WaTypes
  <2>4. CopyInv'
    BY <2>1, <1>1, <1>2 DEF WaInv, CopyInv, VersionsGrow, CopyIsOn, PreparedIsTheProject
  <2>5. QED
    BY <2>3, <2>4, <1>1, <1>2, SameKeepsPorts DEF WaInv
<1>5. QED
  BY <1>3, <1>4

-----------------------------------------------------------------------------
(* What the hub shows and what a deployment gets *)

\* The invariant is kept by every step.
LEMMA WaInvHolds == WaSpec => []WaInv
<1>1. WaInv /\ [WaNext]_waVars => WaInv'
  <2> SUFFICES ASSUME WaInv, [WaNext]_waVars PROVE WaInv'
    OBVIOUS
  <2>1. ASSUME NEW p \in WaProc, Bind(p) PROVE WaInv'
    BY <2>1, Binds
  <2>2. ASSUME NEW d \in WaDir, NEW q \in WaPort, RunByHand(d, q) PROVE WaInv'
    BY <2>2, RunsByHand
  <2>3. ASSUME NEW d \in WaDir, NEW scan \in SUBSET ListeningPorts, StartApp(d, scan)
        PROVE  WaInv'
    BY <2>3, StartsApp
  <2>4. CASE \/ \E p \in WaProc : Exit(p)
             \/ \E d \in WaDir, scan \in SUBSET ListeningPorts : StartAppUnsupported(d, scan)
             \/ \E q \in WaPort : Stop(q)
             \/ \E scan \in SUBSET ListeningPorts : StopAll(scan)
    BY <2>4, EndsOfProcesses
  <2>5. CASE \/ \E d \in WaDir : DeleteProject(d) \/ DeleteDir(d)
             \/ \E d, e \in WaDir : RenameDir(d, e)
    BY <2>5, DirectoriesGo
  <2>6. ASSUME NEW d \in WaDir, Mkdir(d) \/ MakeProject(d) PROVE WaInv'
    BY <2>6, DirectoriesCome
  <2>7. ASSUME NEW old \in WaName, NEW new \in WaName, RenameApp(old, new) PROVE WaInv'
    BY <2>7, RenamesApp
  <2>8. CASE Open \/ RestartTerminal \/ \E scan \in SUBSET ListeningPorts : Status(scan)
    BY <2>8, Opens, ListsApps, Restarts
  <2>9. ASSUME NEW i \in WaItem, EditItem(i) \/ CopyItem(i) PROVE WaInv'
    BY <2>9, EditsItem, CopiesItem
  <2>10. CASE BeginPrepare \/ CopyFails \/ EndPrepare
    BY <2>10, CopyBegins, CopyEnds
  <2>11. CASE UNCHANGED waVars
    <3>1. UNCHANGED <<dirs, registry, procs, tab, copying, files, waLog>>
      BY <2>11 DEF waVars
    <3>2. WaTypes'
      BY <3>1 DEF WaInv, WaTypes
    <3>3. QED
      BY <3>1, <3>2, SameKeepsPorts, SameKeepsCopy DEF WaInv
  <2>12. QED
    BY <2>1, <2>2, <2>3, <2>4, <2>5, <2>6, <2>7, <2>8, <2>9, <2>10, <2>11 DEF WaNext
<1>2. QED
  BY <1>1, WaInitInv, PTL DEF WaSpec

\* Every state has the declared types.
THEOREM TerminalAppsTypeCorrect == WaSpec => []WaTypeOK
<1>1. WaInv => WaTypeOK
  BY DEF WaInv, WaTypes, WaTypeOK, WaState, WaEntry, Process
<1>2. QED
  BY <1>1, WaInvHolds, PTL

\* For any number of directories, ports and processes: until something starts or moves, the list
\* of applications names no port of another one, and the window that the hub opens after a start
\* never shows another one unless something else was on its way to the port, or held it where the
\* scan of the IPv4 sockets does not find it.
THEOREM PortsAreTheirs == WaSpec => []AppsKeepTheirPorts
<1>1. WaInv => AppsKeepTheirPorts
  BY DEF WaInv, PortsInv, AppsKeepTheirPorts
<1>2. QED
  BY <1>1, WaInvHolds, PTL

\* For any project, and whatever is edited, copied or fails: what the hub is told is prepared has
\* every item that was there when the copy began, in that version or a later one, and no other.
THEOREM CopyIsTheProject == WaSpec => []PreparedIsTheProject
<1>1. WaInv => PreparedIsTheProject
  BY DEF WaInv, CopyInv
<1>2. QED
  BY <1>1, WaInvHolds, PTL

-----------------------------------------------------------------------------
(* The components together *)

\* A behaviour in which one component takes steps and the others rest is a behaviour of each, so
\* what is proved of a component holds in it.
THEOREM PartsOfTerminals == AllSpec => Spec /\ SlSpec /\ UbSpec /\ ExSpec /\ WaSpec
<1>1. AllInit => Init /\ SlInit /\ UbInit /\ ExInit /\ WaInit
  BY DEF AllInit
<1>2. [AllNext]_allVars => [Next]_vars
  <2>1. UNCHANGED allVars => UNCHANGED vars
    BY DEF allVars
  <2>2. AllNext => Next \/ UNCHANGED vars
    BY Zenon DEF AllNext, Only
  <2>3. QED
    BY <2>1, <2>2
<1>3. [AllNext]_allVars => [SlNext]_slVars
  <2>1. UNCHANGED allVars => UNCHANGED slVars
    BY DEF allVars
  <2>2. AllNext => SlNext \/ UNCHANGED slVars
    BY Zenon DEF AllNext, Only
  <2>3. QED
    BY <2>1, <2>2
<1>4. [AllNext]_allVars => [UbNext]_ubVars
  <2>1. UNCHANGED allVars => UNCHANGED ubVars
    BY DEF allVars
  <2>2. AllNext => UbNext \/ UNCHANGED ubVars
    BY Zenon DEF AllNext, Only
  <2>3. QED
    BY <2>1, <2>2
<1>5. [AllNext]_allVars => [ExNext]_exVars
  <2>1. UNCHANGED allVars => UNCHANGED exVars
    BY DEF allVars
  <2>2. AllNext => ExNext \/ UNCHANGED exVars
    BY Zenon DEF AllNext, Only
  <2>3. QED
    BY <2>1, <2>2
<1>6. [AllNext]_allVars => [WaNext]_waVars
  <2>1. UNCHANGED allVars => UNCHANGED waVars
    BY DEF allVars
  <2>2. AllNext => WaNext \/ UNCHANGED waVars
    BY Zenon DEF AllNext, Only
  <2>3. QED
    BY <2>1, <2>2
<1>7. QED
  BY <1>1, <1>2, <1>3, <1>4, <1>5, <1>6, PTL DEF AllSpec, Spec, SlSpec, UbSpec, ExSpec, WaSpec

\* Every variable of every component keeps its type.
THEOREM TerminalsTypesCorrect == AllSpec => []TypesOK
<1>1. TypeOK /\ SlTypeOK /\ UbTypeOK /\ ExTypeOK /\ WaTypeOK => TypesOK
  BY DEF TypesOK
<1>2. QED
  BY <1>1, PartsOfTerminals, TypeCorrect, SessionTypeCorrect, BotTypeCorrect, ExtensionTypeCorrect,
    TerminalAppsTypeCorrect, PTL
=============================================================================
