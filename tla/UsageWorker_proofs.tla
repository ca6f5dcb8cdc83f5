------------------------- MODULE UsageWorker_proofs -------------------------
(***************************************************************************)
(* Proofs about the usage worker, for every number of workers, entries,    *)
(* request ids, faults and retries: type correctness, exactly-once         *)
(* accounting and that no acknowledged entry vanishes.                     *)
(***************************************************************************)
EXTENDS UsageWorker, FiniteSetTheorems, TLAPS

\* Redis never pends an entry it has not delivered, and nobody charges one.
Undelivered ==
  \A i \in Id : i > cursor => owner[i] = NoWorker /\ charged[i] = 0

\* The entries a worker holds were delivered, and so were the stale ones.
Held ==
  /\ stale \subseteq 1..cursor
  /\ \A w \in Worker : batch[w] \subseteq 1..cursor /\ claimed[w] \subseteq 1..cursor

\* A worker about to charge holds only entries that parse, and none is left
\* to triage except in the triage.
Parsed ==
  \A w \in Worker :
    /\ pc[w] \in {"loop", "triage", "commit", "ack"} =>
         \A i \in batch[w] : stream[i].kind \in {"good", "poison"}
    /\ pc[w] = "triage" => claimed[w] # {}

\* The keys of the ledger cover every charged entry that has a request id.
LedgerCovers ==
  \A i \in Published :
    charged[i] > 0 /\ stream[i].rid # NoRequestId => stream[i].rid \in ledger

\* A worker acknowledges only after its transaction has committed.
CommittedBeforeAck ==
  \A w \in Worker : pc[w] = "ack" => \A i \in batch[w] : Charged(i)

IInv ==
  /\ TypeOK
  /\ Undelivered
  /\ Held
  /\ Parsed
  /\ LedgerCovers
  /\ CommittedBeforeAck
  /\ ChargedOnce
  /\ Accounted

----------------------------------------------------------------------------
(* Type correctness *)

USE BoundsAssumption, WorkerAssumption, RequestAssumption

\* What the commands that hand out and acknowledge entries do to the pending
\* entries list keeps its type.
LEMMA DeliverType ==
  ASSUME RedisTypeOK, NEW w \in Worker, NEW S, Deliver(w, S)
  PROVE  /\ owner' \in [Id -> Worker \cup {NoWorker}]
         /\ deliveries' \in [Id -> 0..MaxRetries]
         /\ stale' \subseteq Id
<1>1. owner' \in [Id -> Worker \cup {NoWorker}]
  BY DEF Deliver, RedisTypeOK
<1>2. deliveries' \in [Id -> 0..MaxRetries]
  BY DEF Deliver, RedisTypeOK, AtMost
<1>3. stale' \subseteq Id
  BY DEF Deliver, RedisTypeOK
<1>q. QED
  BY <1>1, <1>2, <1>3

LEMMA XackType ==
  ASSUME RedisTypeOK, NEW S, Xack(S)
  PROVE  /\ owner' \in [Id -> Worker \cup {NoWorker}]
         /\ stale' \subseteq Id
  BY DEF Xack, RedisTypeOK

\* The next batch lies after the cursor and inside the stream.
LEMMA NextBatchType ==
  ASSUME RedisTypeOK
  PROVE  /\ NextBatch \subseteq Id
         /\ AtMost(cursor + BatchSize, Len(stream)) \in cursor..Len(stream)
         /\ \A i \in NextBatch : i > cursor
         /\ 1..AtMost(cursor + BatchSize, Len(stream)) = 1..cursor \cup NextBatch
<1>1. Len(stream) \in Nat /\ cursor \in 0..Len(stream) /\ Len(stream) <= MaxEntries
  BY DEF RedisTypeOK
<1>q. QED
  BY <1>1 DEF NextBatch, AtMost, Id

LEMMA StartBatchType ==
  ASSUME WorkerTypeOK, NEW w \in Worker, NEW S \in SUBSET Id,
         NEW c \in {"recover", "loop", "claim"}, StartBatch(w, S, c)
  PROVE  /\ pc' \in [Worker -> Pc]
         /\ caller' \in [Worker -> {"recover", "loop", "claim"}]
         /\ batch' \in [Worker -> SUBSET Id]
  BY DEF StartBatch, WorkerTypeOK, Goto, SetBatch, Pc

\* The exception handlers of process_batch's callers keep the types.
LEMMA BatchFailsType ==
  ASSUME TypeOK, NEW w \in Worker, BatchFails(w)
  PROVE  RedisTypeOK' /\ WorkerTypeOK' /\ DbTypeOK'
<1> DEFINE count == [i \in Id |-> retries[w][i] + (IF i \in batch[w] THEN 1 ELSE 0)]
<1> DEFINE giveUp == IF caller[w] = "loop"
                       THEN {i \in batch[w] : count[i] >= MaxRetries} ELSE {}
<1>1. giveUp \subseteq Id /\ count \in [Id -> Nat]
  BY DEF TypeOK, WorkerTypeOK
<1>2. Xack(giveUp) /\ dlq' = dlq \cup giveUp
  BY DEF BatchFails
<1>3. RedisTypeOK'
  BY <1>1, <1>2, XackType DEF BatchFails, TypeOK, RedisTypeOK
<1>4. retries' \in [Worker -> [Id -> Nat]]
  <2>1. CASE caller[w] = "loop"
    <3>1. retries' = [retries EXCEPT ![w] = [i \in Id |-> IF i \in giveUp THEN 0 ELSE count[i]]]
      BY <2>1 DEF BatchFails
    <3>2. [i \in Id |-> IF i \in giveUp THEN 0 ELSE count[i]] \in [Id -> Nat]
      BY <1>1
    <3>3. QED
      BY <3>1, <3>2 DEF TypeOK, WorkerTypeOK
  <2>2. CASE caller[w] # "loop"
    BY <2>2 DEF BatchFails, TypeOK, WorkerTypeOK
  <2>3. QED
    BY <2>1, <2>2
<1>5. WorkerTypeOK'
  BY <1>4 DEF BatchFails, TypeOK, WorkerTypeOK, Goto, SetBatch, Pc
<1>6. DbTypeOK'
  BY DEF BatchFails, TypeOK, DbTypeOK, dbVars
<1>q. QED
  BY <1>3, <1>5, <1>6

\* Every step keeps the types.  The commit needs Held: it reads the request ids
\* of the entries in the batch, which must exist.
LEMMA TypeStep == TypeOK /\ Held /\ [Next]_vars => TypeOK'
<1> SUFFICES ASSUME TypeOK, Held, [Next]_vars PROVE TypeOK'
  OBVIOUS
<1> USE DEF TypeOK, redisVars, workerVars, dbVars
<1>1. ASSUME NEW e \in Entry, Publish(e) PROVE TypeOK'
  <2> USE <1>1 DEF Publish
  <2>1. RedisTypeOK'
    BY DEF RedisTypeOK
  <2>2. WorkerTypeOK'
    BY DEF WorkerTypeOK
  <2>3. DbTypeOK' /\ faults' \in 0..MaxFaults
    BY DEF DbTypeOK
  <2>q. QED
    BY <2>1, <2>2, <2>3
<1>2. ASSUME NEW i \in Id, Idle(i) PROVE TypeOK'
  <2> USE <1>2 DEF Idle
  <2>1. RedisTypeOK'
    BY DEF RedisTypeOK
  <2>2. WorkerTypeOK'
    BY DEF WorkerTypeOK
  <2>3. DbTypeOK' /\ faults' \in 0..MaxFaults
    BY DEF DbTypeOK
  <2>q. QED
    BY <2>1, <2>2, <2>3
<1>3. ASSUME NEW w \in Worker, Connect(w) PROVE TypeOK'
  <2> USE <1>3 DEF Connect
  <2>1. RedisTypeOK'
    BY DEF RedisTypeOK
  <2>2. WorkerTypeOK'
    BY DEF WorkerTypeOK, Goto, SetBatch, Pc
  <2>3. DbTypeOK' /\ faults' \in 0..MaxFaults
    BY DEF DbTypeOK
  <2>q. QED
    BY <2>1, <2>2, <2>3
<1>4. ASSUME NEW w \in Worker, Crash(w) PROVE TypeOK'
  <2> USE <1>4 DEF Crash
  <2>1. RedisTypeOK'
    BY DEF RedisTypeOK
  <2>2. WorkerTypeOK'
    BY DEF WorkerTypeOK, Goto, SetBatch, Pc
  <2>3. DbTypeOK' /\ faults' \in 0..MaxFaults
    BY DEF DbTypeOK, Fault
  <2>q. QED
    BY <2>1, <2>2, <2>3
<1>5. ASSUME NEW w \in Worker, RecoverPending(w) PROVE TypeOK'
  <2> USE <1>5 DEF RecoverPending
  <2>1. RedisTypeOK'
    BY DeliverType DEF RedisTypeOK
  <2>2. WorkerTypeOK'
    BY StartBatchType DEF PendingOf, OfKind, WorkerTypeOK, Goto, SetBatch, Pc
  <2>3. DbTypeOK' /\ faults' \in 0..MaxFaults
    BY DEF DbTypeOK
  <2>q. QED
    BY <2>1, <2>2, <2>3
<1>6. ASSUME NEW w \in Worker, ReadNew(w) PROVE TypeOK'
  <2> USE <1>6 DEF ReadNew
  <2>1. RedisTypeOK'
    BY DeliverType, NextBatchType DEF RedisTypeOK
  <2>2. WorkerTypeOK'
    BY NextBatchType DEF WorkerTypeOK, Goto, SetBatch, Pc
  <2>3. DbTypeOK' /\ faults' \in 0..MaxFaults
    BY DEF DbTypeOK
  <2>q. QED
    BY <2>1, <2>2, <2>3
<1>7. ASSUME NEW w \in Worker, ReadReplyLost(w) PROVE TypeOK'
  <2> USE <1>7 DEF ReadReplyLost
  <2>1. RedisTypeOK'
    BY DeliverType, NextBatchType DEF RedisTypeOK
  <2>2. WorkerTypeOK'
    BY DEF WorkerTypeOK
  <2>3. DbTypeOK' /\ faults' \in 0..MaxFaults
    BY DEF DbTypeOK, Fault
  <2>q. QED
    BY <2>1, <2>2, <2>3
<1>8. ASSUME NEW w \in Worker, ParseNew(w) PROVE TypeOK'
  <2> USE <1>8 DEF ParseNew
  <2>1. RedisTypeOK'
    BY XackType DEF RedisTypeOK
  <2>2. WorkerTypeOK'
    BY StartBatchType DEF WorkerTypeOK, Goto, SetBatch, Pc
  <2>3. DbTypeOK' /\ faults' \in 0..MaxFaults
    BY DEF DbTypeOK
  <2>q. QED
    BY <2>1, <2>2, <2>3
<1>9. ASSUME NEW w \in Worker, ClaimStale(w) PROVE TypeOK'
  <2> USE <1>9 DEF ClaimStale
  <2>1. RedisTypeOK'
    BY DeliverType DEF RedisTypeOK
  <2>2. WorkerTypeOK'
    BY DEF RedisTypeOK, WorkerTypeOK, Goto, SetBatch, Pc
  <2>3. DbTypeOK' /\ faults' \in 0..MaxFaults
    BY DEF DbTypeOK
  <2>q. QED
    BY <2>1, <2>2, <2>3
<1>10. ASSUME NEW w \in Worker, Commit(w) PROVE TypeOK'
  <2> USE <1>10 DEF Commit
  <2>1. RedisTypeOK'
    BY DEF RedisTypeOK
  <2>2. WorkerTypeOK'
    BY DEF WorkerTypeOK, Goto, SetBatch, Pc
  <2>3. DbTypeOK' /\ faults' \in 0..MaxFaults
    <3>1. NewEvents(batch[w]) \subseteq batch[w] /\ batch[w] \subseteq Id
      BY DEF NewEvents, WorkerTypeOK
    <3>2. charged' \in [Id -> 0..Many]
      BY <3>1 DEF DbTypeOK, AtMost, Many
    <3>3. ASSUME NEW i \in batch[w] PROVE stream[i].rid \in RequestId \cup {NoRequestId}
      <4>1. i \in 1..Len(stream) /\ stream \in Seq(Entry)
        BY DEF Held, RedisTypeOK
      <4>2. stream[i] \in Entry
        BY <4>1
      <4>3. QED
        BY <4>2 DEF Entry
    <3>4. ledger' \subseteq RequestId
      BY <3>1, <3>3 DEF DbTypeOK
    <3>5. QED
      BY <3>2, <3>4 DEF DbTypeOK
  <2>q. QED
    BY <2>1, <2>2, <2>3
<1>11. ASSUME NEW w \in Worker, CommitRejected(w) PROVE TypeOK'
  <2> USE <1>11 DEF CommitRejected
  <2>1. RedisTypeOK'
    BY BatchFailsType
  <2>2. WorkerTypeOK'
    BY BatchFailsType
  <2>3. DbTypeOK' /\ faults' \in 0..MaxFaults
    BY BatchFailsType
  <2>q. QED
    BY <2>1, <2>2, <2>3
<1>12. ASSUME NEW w \in Worker, CommitFails(w) PROVE TypeOK'
  <2> USE <1>12 DEF CommitFails
  <2>1. RedisTypeOK'
    BY BatchFailsType
  <2>2. WorkerTypeOK'
    BY BatchFailsType
  <2>3. DbTypeOK' /\ faults' \in 0..MaxFaults
    BY BatchFailsType DEF Fault
  <2>q. QED
    BY <2>1, <2>2, <2>3
<1>13. ASSUME NEW w \in Worker, Ack(w) PROVE TypeOK'
  <2> USE <1>13 DEF Ack
  <2>1. RedisTypeOK'
    BY XackType DEF RedisTypeOK
  <2>2. WorkerTypeOK'
    BY DEF WorkerTypeOK, Goto, SetBatch, Pc
  <2>3. DbTypeOK' /\ faults' \in 0..MaxFaults
    BY DEF DbTypeOK
  <2>q. QED
    BY <2>1, <2>2, <2>3
<1>14. ASSUME NEW w \in Worker, AckFails(w) PROVE TypeOK'
  <2> USE <1>14 DEF AckFails
  <2>1. RedisTypeOK'
    BY BatchFailsType
  <2>2. WorkerTypeOK'
    BY BatchFailsType
  <2>3. DbTypeOK' /\ faults' \in 0..MaxFaults
    BY BatchFailsType DEF Fault
  <2>q. QED
    BY <2>1, <2>2, <2>3
<1>15. ASSUME NEW w \in Worker, NEW i \in Id, DeadLetter(w, i, TRUE) PROVE TypeOK'
  <2> USE <1>15 DEF DeadLetter
  <2>1. RedisTypeOK'
    BY XackType DEF RedisTypeOK
  <2>2. WorkerTypeOK'
    BY StartBatchType DEF EndOfTriage, WorkerTypeOK
  <2>3. DbTypeOK' /\ faults' \in 0..MaxFaults
    BY DEF DbTypeOK
  <2>q. QED
    BY <2>1, <2>2, <2>3
<1>16. ASSUME NEW w \in Worker, NEW i \in Id, DeadLetter(w, i, FALSE) PROVE TypeOK'
  <2> USE <1>16 DEF DeadLetter
  <2>1. RedisTypeOK'
    BY XackType DEF RedisTypeOK
  <2>2. WorkerTypeOK'
    BY StartBatchType DEF EndOfTriage, WorkerTypeOK
  <2>3. DbTypeOK' /\ faults' \in 0..MaxFaults
    BY DEF DbTypeOK, Fault
  <2>q. QED
    BY <2>1, <2>2, <2>3
<1>17. ASSUME NEW w \in Worker, NEW i \in Id, DeadLetterUnknown(w, i) PROVE TypeOK'
  <2> USE <1>17 DEF DeadLetterUnknown
  <2>1. RedisTypeOK'
    BY XackType DEF RedisTypeOK
  <2>2. WorkerTypeOK'
    BY StartBatchType DEF EndOfTriage, WorkerTypeOK
  <2>3. DbTypeOK' /\ faults' \in 0..MaxFaults
    BY DEF DbTypeOK, Fault
  <2>q. QED
    BY <2>1, <2>2, <2>3
<1>18. ASSUME NEW w \in Worker, NEW i \in Id, DeadLetterAckFails(w, i) PROVE TypeOK'
  <2> USE <1>18 DEF DeadLetterAckFails
  <2>1. RedisTypeOK'
    BY DEF RedisTypeOK
  <2>2. WorkerTypeOK'
    BY DEF WorkerTypeOK, Goto, SetBatch, Pc
  <2>3. DbTypeOK' /\ faults' \in 0..MaxFaults
    BY DEF DbTypeOK, Fault
  <2>q. QED
    BY <2>1, <2>2, <2>3
<1>19. ASSUME NEW w \in Worker, NEW i \in Id, Keep(w, i) PROVE TypeOK'
  <2> USE <1>19 DEF Keep
  <2>1. RedisTypeOK'
    BY DEF RedisTypeOK
  <2>2. WorkerTypeOK'
    BY StartBatchType DEF WorkerTypeOK, Goto, SetBatch, Pc
  <2>3. DbTypeOK' /\ faults' \in 0..MaxFaults
    BY DEF DbTypeOK
  <2>q. QED
    BY <2>1, <2>2, <2>3
<1>20. ASSUME NEW w \in Worker, NEW i \in Id, DropBad(w, i) PROVE TypeOK'
  <2> USE <1>20 DEF DropBad
  <2>1. RedisTypeOK'
    BY XackType DEF RedisTypeOK
  <2>2. WorkerTypeOK'
    BY StartBatchType DEF EndOfTriage, WorkerTypeOK
  <2>3. DbTypeOK' /\ faults' \in 0..MaxFaults
    BY DEF DbTypeOK
  <2>q. QED
    BY <2>1, <2>2, <2>3
<1>21. ASSUME NEW w \in Worker, NEW i \in Id, ClaimRaises(w, i) PROVE TypeOK'
  <2> USE <1>21 DEF ClaimRaises
  <2>1. RedisTypeOK'
    BY DEF RedisTypeOK
  <2>2. WorkerTypeOK'
    BY DEF WorkerTypeOK, Goto, SetBatch, Pc
  <2>3. DbTypeOK' /\ faults' \in 0..MaxFaults
    BY DEF DbTypeOK
  <2>q. QED
    BY <2>1, <2>2, <2>3
<1>22. CASE UNCHANGED vars
  BY <1>22 DEF vars, RedisTypeOK, WorkerTypeOK, DbTypeOK
<1>q. QED
  BY <1>1, <1>2, <1>3, <1>4, <1>5, <1>6, <1>7, <1>8, <1>9, <1>10, <1>11, <1>12, <1>13, <1>14, <1>15, <1>16, <1>17, <1>18, <1>19, <1>20, <1>21, <1>22 DEF Next, Step, Failure

----------------------------------------------------------------------------
(* What a step can do to each part of the state *)

\* Only a producer appends to the stream, only a commit writes the tables, only
\* reading new entries moves the cursor.
LEMMA Frame ==
  ASSUME [Next]_vars
  PROVE  /\ stream' = stream \/ \E e \in Entry : Publish(e)
         /\ UNCHANGED dbVars \/ \E w \in Worker : Commit(w)
         /\ cursor' = cursor \/ \E w \in Worker : ReadNew(w) \/ ReadReplyLost(w)
<1> USE DEF redisVars, workerVars, dbVars
<1>1. CASE UNCHANGED vars
  BY <1>1 DEF vars
<1>2. ASSUME NEW w \in Worker, Step(w) \/ Failure(w)
      PROVE  /\ stream' = stream
             /\ UNCHANGED dbVars \/ Commit(w)
             /\ cursor' = cursor \/ ReadNew(w) \/ ReadReplyLost(w)
  BY <1>2 DEF Step, Failure, BatchFails, Connect, Crash, RecoverPending, ReadNew, ReadReplyLost, ParseNew, ClaimStale, Commit, CommitRejected, CommitFails, Ack, AckFails, DeadLetter, DeadLetterUnknown, DeadLetterAckFails, Keep, DropBad, ClaimRaises
<1>q. QED
  BY <1>1, <1>2 DEF Next, Publish, Idle

\* Published entries stay as they are, delivered ones stay delivered.
LEMMA Grows ==
  ASSUME TypeOK, [Next]_vars
  PROVE  /\ \A i \in Published : i \in Published' /\ stream'[i] = stream[i]
         /\ cursor <= cursor' /\ cursor' <= Len(stream')
<1>1. CASE \E e \in Entry : Publish(e)
  BY <1>1 DEF Publish, TypeOK, RedisTypeOK, Published
<1>2. CASE \E w \in Worker : ReadNew(w) \/ ReadReplyLost(w)
  BY <1>2, NextBatchType DEF ReadNew, ReadReplyLost, TypeOK, Published
<1>3. CASE stream' = stream /\ cursor' = cursor
  BY <1>3 DEF Published, TypeOK, RedisTypeOK
<1>q. QED
  BY <1>1, <1>2, <1>3, Frame DEF Published

\* A set of entries has a first one.  (Its initial segments are finite sets, and
\* inclusion is well-founded on those.)
LEMMA LeastEntry ==
  ASSUME NEW S \in SUBSET Id, S # {}
  PROVE  \E j \in S : \A k \in S : j <= k
<1> DEFINE R == StrictSubsetOrdering(Id)
<1> DEFINE T == {1..j : j \in S}
<1>1. IsFiniteSet(Id)
  BY FS_Interval DEF Id
<1>2. IsWellFoundedOn(R, SUBSET Id)
  BY <1>1, FS_StrictSubsetOrderingWellFounded, FS_FiniteSubsetsOfFinite
<1>3. T \subseteq SUBSET Id /\ T # {}
  <2>1. \A j \in Id : 1..j \subseteq Id
    BY DEF Id
  <2>2. QED
    BY <2>1
<1>4. PICK x \in T : \A y \in T : ~(<<y, x>> \in R)
  <2> HIDE DEF R, T
  <2> QED
    BY <1>2, <1>3, WFMin
<1>5. PICK j \in S : x = 1..j
  BY <1>4
<1>6. ASSUME NEW k \in S, ~(j <= k) PROVE FALSE
  <2>1. j \in Nat /\ k \in Nat /\ k < j /\ j \in 1..j /\ j \notin 1..k
    BY <1>6 DEF Id
  <2>2. 1..k \subseteq 1..j /\ 1..k # 1..j
    BY <2>1
  <2>3. <<1..k, 1..j>> \in R
    <3>1. 1..k \in SUBSET Id /\ 1..j \in SUBSET Id
      BY <2>1 DEF Id
    <3>2. QED
      BY <2>2, <3>1 DEF StrictSubsetOrdering
  <2>4. QED
    BY <1>4, <1>5, <2>3
<1>q. QED
  BY <1>6

\* A commit adds the keys of the new events and counts each of them once more.
LEMMA CommitEffect ==
  ASSUME TypeOK, Held, NEW w \in Worker, Commit(w)
  PROVE  /\ ledger \subseteq ledger'
         /\ \A i \in NewEvents(batch[w]) :
              /\ i \in Published
              /\ stream[i].rid # NoRequestId => stream[i].rid \in ledger'
         /\ \A i \in Id :
              IF i \in NewEvents(batch[w])
                THEN charged'[i] > 0 /\ (charged[i] = 0 => charged'[i] = 1)
                ELSE charged'[i] = charged[i]
         /\ \A i \in batch[w] : Charged(i)'
<1>1. batch[w] \subseteq Published /\ NewEvents(batch[w]) \subseteq batch[w]
  BY DEF Held, TypeOK, RedisTypeOK, Published, NewEvents
<1>2. ledger' = ledger \cup ({stream[i].rid : i \in NewEvents(batch[w])} \ {NoRequestId})
  BY DEF Commit
<1>3. charged' = [i \in Id |-> IF i \in NewEvents(batch[w])
                                THEN AtMost(charged[i] + 1, Many) ELSE charged[i]]
  BY DEF Commit
<1>4. \A i \in Id : charged[i] \in 0..2
  BY DEF TypeOK, DbTypeOK, Many
<1>5. ASSUME NEW i \in batch[w] PROVE Charged(i)'
  <2>1. stream' = stream /\ i \in Id
    BY DEF Commit, redisVars, TypeOK, WorkerTypeOK
  <2>2. CASE stream[i].rid = NoRequestId
    BY <1>3, <1>4, <2>1, <2>2 DEF NewEvents, Charged, AtMost, Many
  <2>3. CASE stream[i].rid # NoRequestId /\ stream[i].rid \in ledger
    BY <1>2, <2>1, <2>3 DEF Charged
  <2>4. CASE stream[i].rid # NoRequestId /\ stream[i].rid \notin ledger
    <3> DEFINE same == {j \in batch[w] : stream[j].rid = stream[i].rid}
    <3>1. PICK j \in same : \A k \in same : j <= k
      <4>1. same \subseteq Id /\ same # {}
        BY DEF TypeOK, WorkerTypeOK
      <4> HIDE DEF same
      <4>2. QED
        BY <4>1, LeastEntry
    <3>2. j \in NewEvents(batch[w])
      BY <2>4, <3>1, <1>1 DEF NewEvents, Published
    <3>3. QED
      BY <1>2, <2>1, <2>4, <3>1, <3>2 DEF Charged
  <2>5. QED
    BY <2>2, <2>3, <2>4
<1>q. QED
  BY <1>1, <1>2, <1>3, <1>4, <1>5 DEF AtMost, Many, Published
----------------------------------------------------------------------------
(* The conjuncts of the invariant, one by one *)

LEMMA UndeliveredStep == IInv /\ [Next]_vars => Undelivered'
<1> SUFFICES ASSUME IInv, [Next]_vars, NEW j \in Id, j > cursor'
             PROVE  owner'[j] = NoWorker /\ charged'[j] = 0
  BY DEF Undelivered
<1> USE DEF IInv, redisVars, workerVars, dbVars
<1>1. j > cursor /\ owner[j] = NoWorker /\ charged[j] = 0
  <2>1. cursor \in Int /\ cursor' \in Int /\ cursor <= cursor'
    BY Grows, TypeStep DEF TypeOK, RedisTypeOK
  <2>2. j > cursor
    BY <2>1 DEF Id
  <2>3. QED
    BY <2>2 DEF Undelivered
<1>2. charged'[j] = 0
  <2>1. CASE \E w \in Worker : Commit(w)
    <3>1. PICK w \in Worker : Commit(w)
      BY <2>1
    <3>2. j \notin NewEvents(batch[w])
      BY <1>1 DEF Held, NewEvents, TypeOK, RedisTypeOK, Id
    <3>3. QED
      BY <1>1, <3>1, <3>2, CommitEffect
  <2>2. CASE UNCHANGED dbVars
    BY <1>1, <2>2
  <2>3. QED
    BY <2>1, <2>2, Frame
<1>3. owner'[j] = NoWorker
  <2>1. ASSUME NEW S, Xack(S) PROVE owner'[j] = NoWorker
    BY <1>1, <2>1 DEF Xack
  <2>2. ASSUME NEW w \in Worker, NEW S, Deliver(w, S), j \notin S PROVE owner'[j] = NoWorker
    BY <1>1, <2>2 DEF Deliver
  <2>3. CASE UNCHANGED owner
    BY <1>1, <2>3
  <2>4. ASSUME NEW w \in Worker, Step(w) \/ Failure(w) PROVE owner'[j] = NoWorker
    <3>1. j \notin stale /\ j \notin PendingOf(w)
      BY <1>1 DEF Held, PendingOf, TypeOK, RedisTypeOK, Id
    <3>2. CASE ReadNew(w) \/ ReadReplyLost(w)
      <4>1. j \notin NextBatch
        <5>1. cursor' \in Int /\ cursor' = AtMost(cursor + BatchSize, Len(stream))
          BY <3>2, TypeStep DEF ReadNew, ReadReplyLost, TypeOK, RedisTypeOK
        <5>2. QED
          BY <5>1 DEF NextBatch
      <4>2. QED
        BY <2>2, <3>2, <4>1 DEF ReadNew, ReadReplyLost
    <3>3. CASE RecoverPending(w) \/ ClaimStale(w)
      BY <2>2, <3>1, <3>3 DEF RecoverPending, ClaimStale
    <3>4. CASE CommitRejected(w) \/ CommitFails(w) \/ AckFails(w)
      BY <2>1, <3>4 DEF CommitRejected, CommitFails, AckFails, BatchFails
    <3>5. CASE ParseNew(w) \/ Ack(w)
      BY <2>1, <3>5 DEF ParseNew, Ack
    <3>6. ASSUME NEW i \in Id,
                 \/ DeadLetter(w, i, TRUE) \/ DeadLetter(w, i, FALSE)
                 \/ DeadLetterUnknown(w, i) \/ DropBad(w, i)
          PROVE  owner'[j] = NoWorker
      BY <2>1, <3>6 DEF DeadLetter, DeadLetterUnknown, DropBad
    <3>7. CASE Connect(w) \/ Crash(w) \/ Commit(w)
      BY <2>3, <3>7 DEF Connect, Crash, Commit
    <3>8. ASSUME NEW i \in Id, Keep(w, i) \/ ClaimRaises(w, i) \/ DeadLetterAckFails(w, i)
          PROVE  owner'[j] = NoWorker
      BY <2>3, <3>8 DEF Keep, ClaimRaises, DeadLetterAckFails
    <3>9. QED
      BY <2>4, <3>2, <3>3, <3>4, <3>5, <3>6, <3>7, <3>8 DEF Step, Failure
  <2>5. ASSUME (\E e \in Entry : Publish(e)) \/ (\E i \in Id : Idle(i)) \/ UNCHANGED vars
        PROVE  owner'[j] = NoWorker
    BY <2>3, <2>5 DEF Publish, Idle, vars
  <2>6. QED
    BY <2>4, <2>5 DEF Next
<1>q. QED
  BY <1>2, <1>3

LEMMA LedgerCoversStep == IInv /\ [Next]_vars => LedgerCovers'
<1> SUFFICES ASSUME IInv, [Next]_vars, NEW j \in Published',
                    charged'[j] > 0, stream'[j].rid # NoRequestId
             PROVE  stream'[j].rid \in ledger'
  BY DEF LedgerCovers
<1> USE DEF IInv
<1>1. CASE \E e \in Entry : Publish(e)
  <2>1. UNCHANGED dbVars
    BY <1>1 DEF Publish
  <2>2. j \in Published
    <3>1. CASE j \notin Published
      <4>1. j \in Id /\ j > cursor
        BY <3>1, TypeStep DEF TypeOK, RedisTypeOK, Published, Id
      <4>2. QED
        BY <2>1, <4>1 DEF Undelivered, dbVars
    <3>2. QED
      BY <3>1
  <2>3. QED
    BY <2>1, <2>2, Grows DEF LedgerCovers, dbVars
<1>2. CASE stream' = stream /\ UNCHANGED dbVars
  BY <1>2 DEF LedgerCovers, Published, dbVars
<1>3. CASE \E w \in Worker : Commit(w)
  <2>1. PICK w \in Worker : Commit(w)
    BY <1>3
  <2>2. stream' = stream /\ j \in Published /\ j \in Id
    BY <2>1 DEF Commit, redisVars, Published, TypeOK, RedisTypeOK, Id
  <2>3. CASE j \in NewEvents(batch[w])
    BY <2>1, <2>2, <2>3, CommitEffect
  <2>4. CASE j \notin NewEvents(batch[w])
    BY <2>1, <2>2, <2>4, CommitEffect DEF LedgerCovers
  <2>5. QED
    BY <2>3, <2>4
<1>q. QED
  BY <1>1, <1>2, <1>3, Frame

LEMMA ChargedOnceStep == IInv /\ [Next]_vars => ChargedOnce'
<1> SUFFICES ASSUME IInv, [Next]_vars,
                    NEW j \in Published', NEW k \in Published',
                    stream'[j].rid # NoRequestId, stream'[j].rid = stream'[k].rid,
                    charged'[j] > 0, charged'[k] > 0
             PROVE  j = k /\ charged'[j] = 1
  BY DEF ChargedOnce
<1> USE DEF IInv
<1>1. CASE \E e \in Entry : Publish(e)
  <2>1. UNCHANGED dbVars
    BY <1>1 DEF Publish
  <2>2. ASSUME NEW l \in Published', charged'[l] > 0 PROVE l \in Published
    <3>1. CASE l \notin Published
      <4>1. l \in Id /\ l > cursor
        BY <3>1, TypeStep DEF TypeOK, RedisTypeOK, Published, Id
      <4>2. QED
        BY <2>1, <2>2, <4>1 DEF Undelivered, dbVars
    <3>2. QED
      BY <3>1
  <2>3. QED
    BY <2>1, <2>2, Grows DEF ChargedOnce, dbVars
<1>2. CASE stream' = stream /\ UNCHANGED dbVars
  BY <1>2 DEF ChargedOnce, Published, dbVars
<1>3. CASE \E w \in Worker : Commit(w)
  <2>1. PICK w \in Worker : Commit(w)
    BY <1>3
  <2>2. stream' = stream /\ j \in Published /\ k \in Published /\ j \in Id /\ k \in Id
    BY <2>1 DEF Commit, redisVars, Published, TypeOK, RedisTypeOK, Id
  <2>3. \A l \in {j, k} : charged[l] \in 0..2
    BY <2>2 DEF TypeOK, DbTypeOK, Many
  <2>4. ASSUME NEW l \in {j, k}, l \in NewEvents(batch[w]) PROVE stream[l].rid \notin ledger
    BY <2>2, <2>4 DEF NewEvents
  <2>5. ASSUME NEW l \in {j, k}, l \notin NewEvents(batch[w]) PROVE stream[l].rid \in ledger
    BY <2>1, <2>2, <2>5, CommitEffect DEF LedgerCovers
  <2>6. CASE j \in NewEvents(batch[w])
    <3>1. k \in NewEvents(batch[w]) /\ stream[j].rid \notin ledger
      BY <2>2, <2>4, <2>5, <2>6
    <3>2. j = k
      <4>1. j \in Int /\ k \in Int
        BY <2>2 DEF Id
      <4>2. ~(j < k) /\ ~(k < j)
        BY <2>2, <2>6, <3>1 DEF NewEvents
      <4>3. QED
        BY <4>1, <4>2
    <3>3. charged[j] = 0
      BY <2>2, <2>3, <3>1 DEF LedgerCovers
    <3>4. QED
      BY <2>1, <2>2, <2>6, <3>2, <3>3, CommitEffect
  <2>7. CASE j \notin NewEvents(batch[w])
    <3>1. k \notin NewEvents(batch[w])
      BY <2>2, <2>4, <2>5, <2>7
    <3>2. charged'[j] = charged[j] /\ charged'[k] = charged[k]
      BY <2>1, <2>2, <2>7, <3>1, CommitEffect
    <3>3. QED
      BY <2>2, <3>2 DEF ChargedOnce
  <2>8. QED
    BY <2>6, <2>7
<1>q. QED
  BY <1>1, <1>2, <1>3, Frame

LEMMA Delivered ==
  ASSUME TypeOK
  PROVE  1..cursor \subseteq Published /\ Published \subseteq Id
  BY DEF TypeOK, RedisTypeOK, Published, Id

\* A charged entry stays charged: rows of the ledger and sums only grow.
LEMMA ChargedStays ==
  ASSUME IInv, [Next]_vars, NEW i \in Published, Charged(i)
  PROVE  Charged(i)'
<1> USE DEF IInv
<1>1. stream'[i] = stream[i] /\ i \in Id
  <2>1. stream'[i] = stream[i]
    BY Grows
  <2>2. i \in Id
    BY Delivered
  <2>3. QED
    BY <2>1, <2>2
<1>2. ledger \subseteq ledger' /\ (charged[i] > 0 => charged'[i] > 0)
  <2>1. CASE UNCHANGED dbVars
    BY <2>1 DEF dbVars
  <2>2. CASE \E w \in Worker : Commit(w)
    BY <1>1, <2>2, CommitEffect
  <2>3. QED
    BY <2>1, <2>2, Frame
<1>q. QED
  BY <1>1, <1>2 DEF Charged

LEMMA HeldStep == IInv /\ [Next]_vars => Held'
<1> SUFFICES ASSUME IInv, [Next]_vars PROVE Held'
  OBVIOUS
<1> USE DEF IInv, redisVars, workerVars, dbVars
<1>1. 1..cursor \subseteq 1..cursor'
  BY Grows, TypeStep DEF TypeOK, RedisTypeOK
<1>2. stale \subseteq 1..cursor' /\ \A w \in Worker : batch[w] \subseteq 1..cursor' /\ claimed[w] \subseteq 1..cursor'
  BY <1>1 DEF Held
<1>3. batch \in [Worker -> SUBSET Id] /\ claimed \in [Worker -> SUBSET Id]
  BY DEF TypeOK, WorkerTypeOK
<1>4. Pending \subseteq 1..cursor /\ \A w \in Worker : PendingOf(w) \subseteq 1..cursor
  BY DEF Pending, PendingOf, Undelivered, TypeOK, RedisTypeOK, Id
<1>5. CASE UNCHANGED <<stale, batch, claimed>>
  BY <1>2, <1>5 DEF Held
<1>6. ASSUME NEW i \in Id, Idle(i) PROVE Held'
  BY <1>1, <1>2, <1>4, <1>6 DEF Held, Idle
<1>7. ASSUME NEW w \in Worker, ReadNew(w) \/ ReadReplyLost(w) PROVE Held'
  <2>1. NextBatch \subseteq 1..cursor'
    BY <1>7, NextBatchType DEF ReadNew, ReadReplyLost, TypeOK
  <2>2. stale' \subseteq stale
    BY <1>7 DEF ReadNew, ReadReplyLost, Deliver
  <2>3. QED
    BY <1>2, <1>3, <1>7, <2>1, <2>2 DEF Held, ReadNew, ReadReplyLost, SetBatch
<1>8. ASSUME NEW w \in Worker, RecoverPending(w) \/ ClaimStale(w) PROVE Held'
  <2>1. PendingOf(w) \subseteq 1..cursor' /\ stale \subseteq 1..cursor' /\ stale' \subseteq stale
    BY <1>1, <1>2, <1>4, <1>8 DEF RecoverPending, ClaimStale, Deliver
  <2>2. QED
    BY <1>2, <1>3, <1>8, <2>1 DEF Held, RecoverPending, ClaimStale, StartBatch, SetBatch, OfKind
<1>9. ASSUME NEW w \in Worker,
             \/ ParseNew(w) \/ Ack(w) \/ CommitRejected(w) \/ CommitFails(w) \/ AckFails(w)
      PROVE  Held'
  <2>1. stale' \subseteq stale /\ claimed' = claimed
    BY <1>9 DEF ParseNew, Ack, CommitRejected, CommitFails, AckFails, BatchFails, Xack
  <2>2. PICK S \in SUBSET batch[w] : SetBatch(w, S)
    BY <1>9 DEF ParseNew, Ack, CommitRejected, CommitFails, AckFails, BatchFails, StartBatch
  <2>3. QED
    BY <1>2, <1>3, <2>1, <2>2 DEF Held, SetBatch
<1>10. ASSUME NEW w \in Worker, NEW i \in Id,
              \/ DeadLetter(w, i, TRUE) \/ DeadLetter(w, i, FALSE)
              \/ DeadLetterUnknown(w, i) \/ DropBad(w, i)
       PROVE  Held'
  <2>1. stale' \subseteq stale /\ claimed' = [claimed EXCEPT ![w] = @ \ {i}]
    BY <1>10 DEF DeadLetter, DeadLetterUnknown, DropBad, Xack
  <2>2. batch' = batch
    <3>1. EndOfTriage(w, claimed[w] \ {i})
      BY <1>10 DEF DeadLetter, DeadLetterUnknown, DropBad
    <3>2. QED
      BY <1>3, <3>1 DEF EndOfTriage, StartBatch, SetBatch
  <2>3. QED
    BY <1>2, <1>3, <2>1, <2>2 DEF Held
<1>11. ASSUME NEW w \in Worker, NEW i \in Id, Keep(w, i) PROVE Held'
  <2>1. i \in claimed[w] /\ SetBatch(w, batch[w] \cup {i})
    BY <1>11 DEF Keep, Triaging, StartBatch
  <2>2. claimed' = [claimed EXCEPT ![w] = @ \ {i}] /\ stale' = stale
    BY <1>11 DEF Keep
  <2>3. QED
    BY <1>2, <1>3, <2>1, <2>2 DEF Held, SetBatch
<1>12. ASSUME NEW w \in Worker, NEW i \in Id, ClaimRaises(w, i) \/ DeadLetterAckFails(w, i) PROVE Held'
  BY <1>2, <1>3, <1>12 DEF Held, ClaimRaises, DeadLetterAckFails, SetBatch
<1>13. ASSUME NEW w \in Worker, Crash(w) PROVE Held'
  BY <1>2, <1>3, <1>13 DEF Held, Crash, SetBatch
<1>14. ASSUME NEW w \in Worker, Step(w) \/ Failure(w) PROVE Held'
  <2>1. CASE Connect(w) \/ Commit(w)
    BY <1>5, <2>1 DEF Connect, Commit
  <2>2. QED
    BY <1>14, <2>1, <1>7, <1>8, <1>9, <1>10, <1>11, <1>12, <1>13 DEF Step, Failure
<1>15. CASE (\E e \in Entry : Publish(e)) \/ UNCHANGED vars
  BY <1>5, <1>15 DEF Publish, vars
<1>q. QED
  BY <1>6, <1>14, <1>15 DEF Next

\* One step changes at most one worker's program counter, batch and claim.
LEMMA OneWorker ==
  ASSUME TypeOK, NEW w \in Worker, Step(w) \/ Failure(w), NEW v \in Worker \ {w}
  PROVE  pc'[v] = pc[v] /\ batch'[v] = batch[v] /\ claimed'[v] = claimed[v]
<1> USE DEF TypeOK, WorkerTypeOK, Goto, SetBatch, StartBatch, EndOfTriage, workerVars
<1>1. CASE \/ Connect(w) \/ RecoverPending(w) \/ ReadNew(w) \/ ParseNew(w) \/ ClaimStale(w)
  BY <1>1 DEF Connect, RecoverPending, ReadNew, ParseNew, ClaimStale
<1>2. CASE \/ Commit(w) \/ CommitRejected(w) \/ Ack(w) \/ Crash(w) \/ ReadReplyLost(w)
           \/ CommitFails(w) \/ AckFails(w)
  BY <1>2 DEF Commit, CommitRejected, Ack, Crash, ReadReplyLost, CommitFails, AckFails, BatchFails
<1>3. ASSUME NEW i \in Id,
             \/ DeadLetter(w, i, TRUE) \/ DeadLetter(w, i, FALSE) \/ DeadLetterUnknown(w, i)
             \/ DeadLetterAckFails(w, i) \/ Keep(w, i) \/ DropBad(w, i) \/ ClaimRaises(w, i)
      PROVE  pc'[v] = pc[v] /\ batch'[v] = batch[v] /\ claimed'[v] = claimed[v]
  BY <1>3 DEF DeadLetter, DeadLetterUnknown, DeadLetterAckFails, Keep, DropBad, ClaimRaises
<1>q. QED
  BY <1>1, <1>2, <1>3 DEF Step, Failure

LEMMA CommittedBeforeAckStep == IInv /\ [Next]_vars => CommittedBeforeAck'
<1> SUFFICES ASSUME IInv, [Next]_vars, NEW v \in Worker, pc'[v] = "ack", NEW j \in batch'[v]
             PROVE  Charged(j)'
  BY DEF CommittedBeforeAck
<1> USE DEF IInv
<1>1. ASSUME pc[v] = "ack", j \in batch[v] PROVE Charged(j)'
  <2>1. j \in Published /\ Charged(j)
    BY <1>1, Delivered DEF Held, CommittedBeforeAck
  <2>2. QED
    BY <2>1, ChargedStays
<1>2. ASSUME NEW w \in Worker, Step(w) \/ Failure(w) PROVE Charged(j)'
  <2>1. CASE v # w
    BY <1>1, <1>2, <2>1, OneWorker
  <2>2. CASE v = w /\ Commit(w)
    BY <2>2, CommitEffect DEF Commit
  <2>3. CASE v = w /\ (ReadReplyLost(w) \/ pc'[w] # "ack")
    BY <1>1, <2>3 DEF ReadReplyLost, workerVars
  <2>4. pc'[w] # "ack" \/ Commit(w) \/ ReadReplyLost(w)
    <3> USE DEF TypeOK, WorkerTypeOK, Goto, StartBatch, EndOfTriage
    <3>1. CASE \/ Connect(w) \/ RecoverPending(w) \/ ReadNew(w) \/ ParseNew(w) \/ ClaimStale(w)
      BY <3>1 DEF Connect, RecoverPending, ReadNew, ParseNew, ClaimStale
    <3>2. CASE \/ CommitRejected(w) \/ Ack(w) \/ Crash(w) \/ CommitFails(w) \/ AckFails(w)
      BY <3>2 DEF CommitRejected, Ack, Crash, CommitFails, AckFails, BatchFails
    <3>3. ASSUME NEW i \in Id,
                 \/ DeadLetter(w, i, TRUE) \/ DeadLetter(w, i, FALSE) \/ DeadLetterUnknown(w, i)
                 \/ DeadLetterAckFails(w, i) \/ Keep(w, i) \/ DropBad(w, i) \/ ClaimRaises(w, i)
          PROVE  pc'[w] # "ack"
      BY <3>3 DEF DeadLetter, DeadLetterUnknown, DeadLetterAckFails, Keep, DropBad, ClaimRaises, Triaging
    <3>4. QED
      BY <1>2, <3>1, <3>2, <3>3 DEF Step, Failure
  <2>5. QED
    BY <2>1, <2>2, <2>3, <2>4
<1>3. CASE UNCHANGED <<pc, batch>>
  BY <1>1, <1>3
<1>q. QED
  BY <1>2, <1>3 DEF Next, Publish, Idle, vars, workerVars

LEMMA ParsedStep == IInv /\ [Next]_vars => Parsed'
<1> SUFFICES ASSUME IInv, [Next]_vars, NEW v \in Worker
             PROVE  /\ pc'[v] \in {"loop", "triage", "commit", "ack"} =>
                         \A j \in batch'[v] : stream'[j].kind \in {"good", "poison"}
                    /\ pc'[v] = "triage" => claimed'[v] # {}
  BY DEF Parsed
<1> USE DEF IInv
<1> DEFINE Fine(S) == \A j \in S : stream[j].kind \in {"good", "poison"}
<1>1. ASSUME NEW S, Fine(S), S \subseteq 1..cursor
      PROVE  \A j \in S : stream'[j].kind \in {"good", "poison"}
  BY <1>1, Grows, Delivered
<1>2. ASSUME pc'[v] = pc[v], batch'[v] = batch[v], claimed'[v] = claimed[v]
      PROVE  /\ pc'[v] \in {"loop", "triage", "commit", "ack"} =>
                  \A j \in batch'[v] : stream'[j].kind \in {"good", "poison"}
             /\ pc'[v] = "triage" => claimed'[v] # {}
  BY <1>1, <1>2 DEF Parsed, Held
<1>3. \A j \in 1..cursor : stream[j].kind \in Kind
  <2>1. ASSUME NEW j \in 1..cursor PROVE stream[j].kind \in Kind
    <3>1. stream[j] \in Entry
      BY Delivered DEF TypeOK, RedisTypeOK, Published
    <3>2. QED
      BY <3>1, KindsAssumption DEF Entry
  <2>2. QED
    BY <2>1
<1>4. ASSUME Step(v) \/ Failure(v)
      PROVE  /\ pc'[v] \in {"loop", "triage", "commit", "ack"} =>
                  \A j \in batch'[v] : stream'[j].kind \in {"good", "poison"}
             /\ pc'[v] = "triage" => claimed'[v] # {}
  <2> USE DEF TypeOK, WorkerTypeOK, Goto, SetBatch, StartBatch, EndOfTriage, redisVars, workerVars
  <2>1. CASE \/ Connect(v) \/ ReadNew(v) \/ CommitRejected(v) \/ CommitFails(v)
             \/ AckFails(v) \/ Ack(v) \/ Crash(v)
    BY <2>1 DEF Connect, ReadNew, CommitRejected, CommitFails, AckFails, BatchFails, Ack, Crash
  <2>2. CASE RecoverPending(v)
    <3>1. PendingOf(v) \subseteq 1..cursor
      BY DEF PendingOf, Undelivered, RedisTypeOK, Id
    <3>2. OfKind(PendingOf(v), "raising") = {} =>
            Fine(PendingOf(v) \ OfKind(PendingOf(v), "bad"))
      BY <1>3, <3>1 DEF OfKind, Kind
    <3>3. QED
      BY <2>2, <3>1, <3>2, <1>1 DEF RecoverPending, OfKind
  <2>3. CASE ParseNew(v)
    <3>1. batch[v] \subseteq 1..cursor
      BY DEF Held
    <3> DEFINE bad == OfKind({i \in batch[v] : \A j \in OfKind(batch[v], "raising") : i < j}, "bad")
    <3>2. OfKind(batch[v], "raising") = {} => Fine(batch[v] \ bad)
      BY <1>3, <3>1 DEF OfKind, Kind
    <3>3. IF OfKind(batch[v], "raising") # {}
            THEN pc'[v] = "down"
            ELSE batch'[v] = batch[v] \ bad /\ pc'[v] \in {"loop", "commit"}
      BY <2>3 DEF ParseNew
    <3>4. QED
      BY <3>1, <3>2, <3>3, <1>1
  <2>4. CASE ReadReplyLost(v)
    BY <1>2, <2>4 DEF ReadReplyLost
  <2>5. CASE ClaimStale(v)
    <3>1. pc'[v] = "triage" /\ claimed'[v] # {} /\ batch'[v] = batch[v]
      BY <2>5 DEF ClaimStale
    <3>2. Fine(batch[v]) /\ batch[v] \subseteq 1..cursor
      BY <2>5 DEF ClaimStale, Parsed, Held
    <3>3. QED
      BY <1>1, <3>1, <3>2
  <2>6. CASE Commit(v)
    BY <1>1, <2>6 DEF Commit, Parsed, Held
  <2>7. ASSUME NEW i \in Id,
               \/ DeadLetter(v, i, TRUE) \/ DeadLetter(v, i, FALSE)
               \/ DeadLetterUnknown(v, i) \/ DropBad(v, i)
        PROVE  /\ pc'[v] \in {"loop", "triage", "commit", "ack"} =>
                    \A j \in batch'[v] : stream'[j].kind \in {"good", "poison"}
               /\ pc'[v] = "triage" => claimed'[v] # {}
    <3>1. /\ Fine(batch[v]) /\ batch[v] \subseteq 1..cursor
      BY <2>7 DEF DeadLetter, DeadLetterUnknown, DropBad, Triaging, Parsed, Held
    <3>2. batch'[v] = batch[v] /\ claimed'[v] = claimed[v] \ {i}
          /\ (claimed'[v] = {} => pc'[v] \in {"loop", "commit"})
      BY <2>7 DEF DeadLetter, DeadLetterUnknown, DropBad
    <3>3. QED
      BY <1>1, <3>1, <3>2
  <2>8. ASSUME NEW i \in Id, Keep(v, i)
        PROVE  /\ \A j \in batch'[v] : stream'[j].kind \in {"good", "poison"}
               /\ pc'[v] = "triage" => claimed'[v] # {}
    <3>1. /\ Fine(batch[v] \cup {i}) /\ batch[v] \cup {i} \subseteq 1..cursor
      BY <2>8 DEF Keep, Triaging, Parsed, Held
    <3>2. batch'[v] = batch[v] \cup {i} /\ claimed'[v] = claimed[v] \ {i} /\ i \in claimed[v]
          /\ (claimed[v] = {i} => pc'[v] = "commit")
      BY <2>8 DEF Keep, Triaging
    <3>3. QED
      BY <1>1, <3>1, <3>2
  <2>9. ASSUME NEW i \in Id, ClaimRaises(v, i) \/ DeadLetterAckFails(v, i)
        PROVE  pc'[v] = "loop" /\ batch'[v] = {}
    BY <2>9 DEF ClaimRaises, DeadLetterAckFails
  <2>10. QED
    BY <1>4, <2>1, <2>2, <2>3, <2>4, <2>5, <2>6, <2>7, <2>8, <2>9 DEF Step, Failure
<1>5. ASSUME NEW w \in Worker \ {v}, Step(w) \/ Failure(w)
      PROVE  pc'[v] = pc[v] /\ batch'[v] = batch[v] /\ claimed'[v] = claimed[v]
  BY <1>5, OneWorker
<1>6. CASE (\E e \in Entry : Publish(e)) \/ (\E i \in Id : Idle(i)) \/ UNCHANGED vars
  BY <1>2, <1>6 DEF Publish, Idle, vars, workerVars
<1>q. QED
  BY <1>2, <1>4, <1>5, <1>6 DEF Next

\* A step takes an entry off the pending list only when it has been charged,
\* does not parse, or goes to the dead-letter stream.
LEMMA AccountedStep == IInv /\ [Next]_vars => Accounted'
<1> SUFFICES ASSUME IInv, [Next]_vars, NEW j \in 1..cursor', owner'[j] = NoWorker
             PROVE  Charged(j)' \/ stream'[j].kind = "bad" \/ j \in (dlq \cup lost)'
  BY DEF Accounted
<1> USE DEF IInv, redisVars, workerVars, dbVars
<1>1. dlq \subseteq dlq' /\ lost \subseteq lost'
  <2>1. ASSUME NEW w \in Worker, Step(w) \/ Failure(w) PROVE dlq \subseteq dlq' /\ lost \subseteq lost'
    BY <2>1 DEF Step, Failure, Connect, RecoverPending, ReadNew, ParseNew, ClaimStale, Commit,
        CommitRejected, Ack, Crash, ReadReplyLost, CommitFails, AckFails, BatchFails, DeadLetter,
        DeadLetterUnknown, DeadLetterAckFails, Keep, DropBad, ClaimRaises
  <2>2. QED
    BY <2>1 DEF Next, Publish, Idle, vars
<1>2. ASSUME j \in 1..cursor,
             Charged(j) \/ stream[j].kind = "bad" \/ j \in dlq \cup lost
      PROVE  Charged(j)' \/ stream'[j].kind = "bad" \/ j \in (dlq \cup lost)'
  BY <1>1, <1>2, Grows, Delivered, ChargedStays
<1>3. ASSUME j \in 1..cursor, owner[j] = NoWorker
      PROVE  Charged(j)' \/ stream'[j].kind = "bad" \/ j \in (dlq \cup lost)'
  BY <1>2, <1>3 DEF Accounted
<1>4. ASSUME NEW w \in Worker, NEW S, Deliver(w, S), 1..cursor' \subseteq 1..cursor \cup S
      PROVE  j \in 1..cursor /\ owner[j] = NoWorker
  <2>1. j \in Id
    BY TypeStep DEF TypeOK, RedisTypeOK, Id
  <2>2. j \notin S /\ owner[j] = NoWorker
    BY <1>4, <2>1, WorkerAssumption DEF Deliver
  <2>3. QED
    BY <1>4, <2>2
<1>5. ASSUME NEW S, Xack(S), cursor' = cursor,
             \A i \in S : Charged(i) \/ stream[i].kind = "bad" \/ i \in dlq' \cup lost'
      PROVE  Charged(j)' \/ stream'[j].kind = "bad" \/ j \in (dlq \cup lost)'
  <2>1. CASE j \in S
    BY <1>2, <1>5, <2>1
  <2>2. CASE j \notin S
    <3>1. owner[j] = NoWorker
      BY <1>5, <2>2, Delivered DEF Xack
    <3>2. QED
      BY <1>3, <1>5, <3>1
  <2>3. QED
    BY <2>1, <2>2
<1>6. CASE cursor' = cursor /\ owner' = owner
  BY <1>3, <1>6
<1>7. ASSUME NEW w \in Worker, Step(w) \/ Failure(w)
      PROVE  Charged(j)' \/ stream'[j].kind = "bad" \/ j \in (dlq \cup lost)'
  <2>1. CASE ReadNew(w) \/ ReadReplyLost(w)
    <3>1. Deliver(w, NextBatch) /\ 1..cursor' = 1..cursor \cup NextBatch
      BY <2>1, NextBatchType DEF ReadNew, ReadReplyLost, TypeOK
    <3>2. QED
      BY <1>3, <1>4, <3>1
  <2>2. CASE RecoverPending(w) \/ ClaimStale(w)
    BY <1>3, <1>4, <2>2 DEF RecoverPending, ClaimStale
  <2>3. CASE ParseNew(w)
    BY <1>5, <2>3 DEF ParseNew, OfKind
  <2>4. CASE Ack(w)
    BY <1>5, <2>4 DEF Ack, CommittedBeforeAck
  <2>5. CASE CommitRejected(w) \/ CommitFails(w) \/ AckFails(w)
    BY <1>5, <2>5 DEF CommitRejected, CommitFails, AckFails, BatchFails
  <2>6. ASSUME NEW i \in Id,
               \/ DeadLetter(w, i, TRUE) \/ DeadLetter(w, i, FALSE)
               \/ DeadLetterUnknown(w, i) \/ DropBad(w, i)
        PROVE  Charged(j)' \/ stream'[j].kind = "bad" \/ j \in (dlq \cup lost)'
    BY <1>5, <2>6 DEF DeadLetter, DeadLetterUnknown, DropBad
  <2>7. CASE Connect(w) \/ Crash(w) \/ Commit(w)
    BY <1>6, <2>7 DEF Connect, Crash, Commit
  <2>8. ASSUME NEW i \in Id, Keep(w, i) \/ ClaimRaises(w, i) \/ DeadLetterAckFails(w, i)
        PROVE  cursor' = cursor /\ owner' = owner
    BY <2>8 DEF Keep, ClaimRaises, DeadLetterAckFails
  <2>9. QED
    BY <1>6, <1>7, <2>1, <2>2, <2>3, <2>4, <2>5, <2>6, <2>7, <2>8 DEF Step, Failure
<1>q. QED
  BY <1>6, <1>7 DEF Next, Publish, Idle, vars

----------------------------------------------------------------------------
(* Theorems *)

LEMMA Inductive == Spec => []IInv
<1>1. Init => IInv
  BY DEF Init, IInv, TypeOK, RedisTypeOK, WorkerTypeOK, DbTypeOK, Pc, Many, Undelivered, Held,
         Parsed, LedgerCovers, CommittedBeforeAck, ChargedOnce, Accounted, Published, Id
<1>2. IInv /\ [Next]_vars => IInv'
  <2>1. IInv /\ [Next]_vars => TypeOK'
    BY TypeStep DEF IInv
  <2>2. QED
    BY <2>1, UndeliveredStep, HeldStep, ParsedStep, LedgerCoversStep, CommittedBeforeAckStep,
       ChargedOnceStep, AccountedStep DEF IInv
<1>q. QED
  BY <1>1, <1>2, PTL DEF Spec

\* Every variable keeps its type: the program counters, the pending list and
\* the tables never leave their domains, in any interleaving of any workers.
THEOREM TypeCorrect == Spec => []TypeOK
<1>1. IInv => TypeOK
  BY DEF IInv
<1>q. QED
  BY <1>1, Inductive, PTL

\* Exactly-once accounting: a request's tokens are in the usage sums at most
\* once (insert_event_or_skip and the upserts, in one transaction).
THEOREM ExactlyOnce == Spec => []ChargedOnce
<1>1. IInv => ChargedOnce
  BY DEF IInv
<1>q. QED
  BY <1>1, Inductive, PTL

\* Nothing is acknowledged unaccounted: an entry off the pending list was
\* charged, does not parse, or was given to publish_to_dlq.
THEOREM NothingVanishes == Spec => []Accounted
<1>1. IInv => Accounted
  BY DEF IInv
<1>q. QED
  BY <1>1, Inductive, PTL

----------------------------------------------------------------------------
(* Refinement of UsageLedger *)

\* What the refinement mapping does on steps that leave stream and charged alone.
LEMMA LedgerStutter ==
  ASSUME stream' = stream, charged' = charged
  PROVE  UNCHANGED Ledger!vars
  BY DEF Ledger!vars, Identified, Published

\* Publishing an event is accepting it, if it names a request.
LEMMA PublishRefines ==
  ASSUME IInv, NEW e \in Entry, Publish(e)
  PROVE  Ledger!Next \/ UNCHANGED Ledger!vars
<1> USE DEF IInv
<1> DEFINE new == Len(stream) + 1
<1>1. /\ new \in Id /\ new \notin Published /\ Published' = Published \cup {new}
      /\ stream'[new] = e /\ \A i \in Published : stream'[i] = stream[i]
      /\ charged' = charged /\ charged[new] = 0
  <2>1. new \in Id /\ stream \in Seq(Entry)
    BY DEF Publish, TypeOK, RedisTypeOK, Id
  <2>2. new > cursor
    BY DEF TypeOK, RedisTypeOK
  <2>3. charged' = charged /\ charged[new] = 0
    BY <2>1, <2>2 DEF Publish, dbVars, Undelivered
  <2>4. stream' = Append(stream, e)
    BY DEF Publish
  <2>5. QED
    BY <2>1, <2>3, <2>4 DEF Published
<1>2. CASE e.rid = NoRequestId
  <2>1. Identified' = Identified /\ \A i \in Identified : stream'[i] = stream[i]
    BY <1>1, <1>2 DEF Identified
  <2>2. QED
    BY <1>1, <2>1 DEF Ledger!vars
<1>3. CASE e.rid # NoRequestId
  <2>1. e.rid \in RequestId /\ new \notin Identified
    BY <1>1, <1>3 DEF Entry, Identified
  <2>2. Identified' = Identified \cup {new} /\ \A i \in Identified : stream'[i] = stream[i]
    BY <1>1, <1>3 DEF Identified
  <2>3. Ledger!Accepted = Identified
    BY DEF Ledger!Accepted
  <2>4. Ledger!Accept(new, e.rid)
    BY <1>1, <2>1, <2>2, <2>3 DEF Ledger!Accept
  <2>5. QED
    BY <1>1, <2>1, <2>4 DEF Ledger!Next
<1>q. QED
  BY <1>2, <1>3

\* A commit charges the new events that name a request.
LEMMA CommitRefines ==
  ASSUME IInv, NEW w \in Worker, Commit(w)
  PROVE  Ledger!Next
<1> USE DEF IInv
<1> DEFINE S == NewEvents(batch[w]) \cap Identified
<1>1. stream' = stream /\ Identified' = Identified /\ Ledger!Accepted = Identified
  BY DEF Commit, redisVars, Identified, Published, Ledger!Accepted
<1>2. Identified \subseteq Published /\ Identified \subseteq Id
  BY Delivered DEF Identified
<1>3. ASSUME NEW i \in S PROVE Ledger!Uncharged(stream[i].rid)
  <2>1. stream[i].rid \notin ledger
    BY DEF NewEvents, Identified
  <2>2. \A j \in Identified : stream[j].rid = stream[i].rid => charged[j] = 0
    <3>1. \A j \in Identified : charged[j] \in 0..2 /\ (charged[j] > 0 => stream[j].rid \in ledger)
      BY <1>2 DEF LedgerCovers, Identified, TypeOK, DbTypeOK, Many
    <3>2. QED
      BY <2>1, <3>1
  <2>3. QED
    BY <1>1, <2>2 DEF Ledger!Uncharged
<1>4. ASSUME NEW i \in S, NEW j \in S, stream[i].rid = stream[j].rid PROVE i = j
  <2>1. i \in Id /\ j \in Id
    BY <1>2
  <2>2. ~(i < j) /\ ~(j < i)
    BY <1>4 DEF NewEvents, Identified
  <2>3. QED
    BY <2>1, <2>2 DEF Id
<1>5. \A i \in Identified : charged'[i] = IF i \in S THEN 1 ELSE charged[i]
  <2>1. ASSUME NEW i \in S PROVE charged[i] = 0
    <3>1. Ledger!Uncharged(stream[i].rid)
      BY <1>3
    <3>2. QED
      BY <1>1, <3>1 DEF Ledger!Uncharged
  <2>2. QED
    BY <1>2, <2>1, CommitEffect
<1>6. Ledger!Charge(S)
  <2> HIDE DEF S
  <2>1. S \subseteq Identified
    BY DEF S
  <2>2. \A i \in S : Ledger!Uncharged([k \in Identified |-> stream[k].rid][i])
    BY <1>3, <2>1
  <2>3. \A i, j \in S : [k \in Identified |-> stream[k].rid][i] = [k \in Identified |-> stream[k].rid][j] => i = j
    BY <1>4, <2>1
  <2>4. [i \in Identified |-> charged[i]]' = [i \in Identified |-> IF i \in S THEN 1 ELSE [k \in Identified |-> charged[k]][i]]
    BY <1>1, <1>5
  <2>5. QED
    BY <1>1, <2>2, <2>3, <2>4 DEF Ledger!Charge
<1>7. S \in SUBSET Identified
  OBVIOUS
<1>q. QED
  <2> HIDE DEF S
  <2>1. S \in SUBSET Ledger!Accepted
    BY <1>1, <1>7
  <2>2. \E T \in SUBSET Ledger!Accepted : Ledger!Charge(T)
    BY <1>6, <2>1 DEF Ledger!Charge
  <2>3. QED
    BY <2>2 DEF Ledger!Next

\* The worker implements the exactly-once ledger: every step of every behaviour
\* accepts an entry, charges requests not charged before, or changes neither.
THEOREM ImplementsLedger == Spec => ExactlyOnceLedger
<1>1. Init => Ledger!Init
  <2>1. SUFFICES ASSUME Init PROVE Ledger!Init
    OBVIOUS
  <2>2. Identified = {}
    <3>1. Published = {}
      BY <2>1 DEF Init, Published
    <3>2. QED
      BY <3>1 DEF Identified
  <2>3. QED
    BY <2>2 DEF Ledger!Init
<1>2. IInv /\ [Next]_vars => [Ledger!Next]_(Ledger!vars)
  <2>1. SUFFICES ASSUME IInv, [Next]_vars PROVE Ledger!Next \/ UNCHANGED Ledger!vars
    OBVIOUS
  <2>2. CASE \E e \in Entry : Publish(e)
    BY <2>1, <2>2, PublishRefines
  <2>3. CASE \E w \in Worker : Commit(w)
    BY <2>1, <2>3, CommitRefines
  <2>4. CASE stream' = stream /\ UNCHANGED dbVars
    BY <2>4, LedgerStutter DEF dbVars
  <2>5. QED
    BY <2>1, <2>2, <2>3, <2>4, Frame
<1>q. QED
  BY <1>1, <1>2, Inductive, PTL DEF Spec, ExactlyOnceLedger, Ledger!Spec
============================================================================
