---------------------------- MODULE UsageWorker ----------------------------
(***************************************************************************)
(* The usage worker: consumers of the Redis stream of token-usage events   *)
(* (usage-worker/worker.py).  Every worker belongs to one consumer group.  *)
(* Redis keeps, for every entry that was delivered and not acknowledged,   *)
(* its owner, its delivery count and how long it has been idle (the        *)
(* pending entries list).  The worker charges a batch of entries to the    *)
(* usage tables in one database transaction, then acknowledges it; entries *)
(* of dead workers are claimed, and entries delivered too often go to a    *)
(* dead-letter stream.                                                     *)
(*                                                                         *)
(* Redis commands and the database transaction are atomic; every worker    *)
(* may die, and every worker may be overtaken, between two of them.        *)
(***************************************************************************)
EXTENDS Integers, Sequences, FiniteSets

CONSTANTS
  Worker,      \* consumer names: pods, and container restarts keep the name
  Survivor,    \* the workers that are not gone for good (liveness only)
  RequestId,   \* idempotency keys the producers attach to a request
  NoRequestId, \* an event of the legacy schema carries none
  NoWorker,    \* "the entry is not in the pending entries list"
  Kinds,       \* the kinds of events the producers emit, see Kind
  BatchSize,   \* BATCH_SIZE, the entries one XREADGROUP returns
  MaxRetries,  \* MAX_RETRIES
  MaxEntries,  \* bound: entries ever published
  MaxFaults    \* bound: crashes and failed commands

(***************************************************************************)
(* "good": parsed and storable.  "bad": _parse_event returns None.         *)
(* "raising": _parse_event raises what it does not catch (decimal.Invalid- *)
(* Operation, OverflowError).  "poison": the database rejects the row.     *)
(***************************************************************************)
Kind == {"good", "bad", "raising", "poison"}

Id == 1..MaxEntries

ASSUME WorkerAssumption == NoWorker \notin Worker /\ Survivor \subseteq Worker
ASSUME RequestAssumption == NoRequestId \notin RequestId
ASSUME BoundsAssumption ==
  /\ BatchSize \in Nat \ {0}
  /\ MaxRetries \in Nat \ {0}
  /\ MaxEntries \in Nat
  /\ MaxFaults \in Nat
ASSUME KindsAssumption == Kinds \subseteq Kind

VARIABLES
  stream,     \* the entries of the stream, oldest first
  cursor,     \* the group's last-delivered entry
  owner,      \* pending entries list: the consumer, or NoWorker
  deliveries, \* pending entries list: delivery count, saturating at MaxRetries
  stale,      \* pending entries idle for longer than STALE_IDLE_MS
  pc,         \* where the worker is
  caller,     \* who called process_batch: "recover", "loop" or "claim"
  batch,      \* the entries the worker is about to charge
  claimed,    \* entries XAUTOCLAIM returned, not yet triaged
  retries,    \* _retry_counts of the current _consume_loop
  ledger,     \* primary keys of the table token_usage_event
  charged,    \* how often the entry's tokens are in the daily and hourly sums
  dlq,        \* entries copied to the dead-letter stream
  lost,       \* entries whose copy to the dead-letter stream failed
  faults      \* faults so far

redisVars == <<stream, cursor, owner, deliveries, stale, dlq, lost>>
workerVars == <<pc, caller, batch, claimed, retries>>
dbVars == <<ledger, charged>>
vars == <<redisVars, workerVars, dbVars, faults>>

Many == 2 \* charged saturates at "more than once"

Entry == [kind : Kinds, rid : RequestId \cup {NoRequestId}]
Pc == {"down", "recover", "loop", "parse", "triage", "commit", "ack"}

AtMost(n, bound) == IF n < bound THEN n ELSE bound
Published == 1..Len(stream)
OfKind(S, k) == {i \in S : stream[i].kind = k}
Pending == {i \in Id : owner[i] # NoWorker}
PendingOf(w) == {i \in Id : owner[i] = w}

Init ==
  /\ stream = <<>> /\ cursor = 0
  /\ owner = [i \in Id |-> NoWorker]
  /\ deliveries = [i \in Id |-> 0]
  /\ stale = {} /\ dlq = {} /\ lost = {}
  /\ pc = [w \in Worker |-> "down"]
  /\ caller = [w \in Worker |-> "loop"]
  /\ batch = [w \in Worker |-> {}]
  /\ claimed = [w \in Worker |-> {}]
  /\ retries = [w \in Worker |-> [i \in Id |-> 0]]
  /\ ledger = {} /\ charged = [i \in Id |-> 0]
  /\ faults = 0

Fault ==
  /\ faults < MaxFaults
  /\ faults' = faults + 1

----------------------------------------------------------------------------
(* Redis *)

(***************************************************************************)
(* A producer appends an event.  The client retries an XADD that timed     *)
(* out, so two entries may carry the same request id.                      *)
(***************************************************************************)
Publish(e) ==
  /\ Len(stream) < MaxEntries
  /\ stream' = Append(stream, e)
  /\ UNCHANGED <<cursor, owner, deliveries, stale, dlq, lost,
                 workerVars, dbVars, faults>>

\* A pending entry has been idle for STALE_IDLE_MS.
Idle(i) ==
  /\ i \in Pending \ stale
  /\ stale' = stale \cup {i}
  /\ UNCHANGED <<stream, cursor, owner, deliveries, dlq, lost,
                 workerVars, dbVars, faults>>

\* XREADGROUP or XAUTOCLAIM hands the entries S to w.
Deliver(w, S) ==
  /\ owner' = [i \in Id |-> IF i \in S THEN w ELSE owner[i]]
  /\ deliveries' = [i \in Id |->
       IF i \in S THEN AtMost(deliveries[i] + 1, MaxRetries) ELSE deliveries[i]]
  /\ stale' = stale \ S

\* XACK removes the entries from the group's pending list, whoever owns them.
Xack(S) ==
  /\ owner' = [i \in Id |-> IF i \in S THEN NoWorker ELSE owner[i]]
  /\ stale' = stale \ S

----------------------------------------------------------------------------
(* A worker *)

Goto(w, l) == pc' = [pc EXCEPT ![w] = l]
SetBatch(w, S) == batch' = [batch EXCEPT ![w] = S]

\* process_batch(S) called from c; an empty batch is skipped.
StartBatch(w, S, c) ==
  /\ SetBatch(w, S)
  /\ IF S = {}
       THEN Goto(w, "loop") /\ UNCHANGED caller
       ELSE Goto(w, "commit") /\ caller' = [caller EXCEPT ![w] = c]

\* run(): connect, create the group, enter _consume_loop with fresh locals.
Connect(w) ==
  /\ pc[w] = "down"
  /\ Goto(w, "recover")
  /\ retries' = [retries EXCEPT ![w] = [i \in Id |-> 0]]
  /\ UNCHANGED <<redisVars, caller, batch, claimed, dbVars, faults>>

\* The process dies, or an exception reaches run(): all its memory is gone.
Crash(w) ==
  /\ pc[w] # "down"
  /\ Fault
  /\ Goto(w, "down")
  /\ SetBatch(w, {})
  /\ claimed' = [claimed EXCEPT ![w] = {}]
  /\ UNCHANGED <<redisVars, caller, retries, dbVars>>

\* _recover_pending: read the worker's own pending entries.  A parse that
\* raises goes to run(), which starts over.  Bad entries are not acknowledged.
RecoverPending(w) ==
  LET mine == PendingOf(w) IN
  /\ pc[w] = "recover"
  /\ Deliver(w, mine)
  /\ IF OfKind(mine, "raising") # {}
       THEN Goto(w, "down") /\ UNCHANGED <<batch, caller>>
       ELSE StartBatch(w, mine \ OfKind(mine, "bad"), "recover")
  /\ UNCHANGED <<stream, cursor, dlq, lost, claimed, retries, dbVars, faults>>

\* The entries nobody was given yet, as many as one XREADGROUP returns.
NextBatch == (cursor + 1)..AtMost(cursor + BatchSize, Len(stream))

\* Mutant of ReadNew: the cursor is advanced by a full batch.
ReadNewPastEnd(w) ==
  /\ pc[w] = "loop" /\ NextBatch # {}
  /\ cursor' = cursor + BatchSize
  /\ Deliver(w, NextBatch)
  /\ SetBatch(w, NextBatch)
  /\ Goto(w, "parse")
  /\ UNCHANGED <<stream, dlq, lost, caller, claimed, retries, dbVars, faults>>

\* XREADGROUP ">": the next entries nobody was given yet.
ReadNew(w) ==
  /\ pc[w] = "loop" /\ NextBatch # {}
  /\ cursor' = AtMost(cursor + BatchSize, Len(stream))
  /\ Deliver(w, NextBatch)
  /\ SetBatch(w, NextBatch)
  /\ Goto(w, "parse")
  /\ UNCHANGED <<stream, dlq, lost, caller, claimed, retries, dbVars, faults>>

\* The reply of the same command is lost and the client sends it again
\* (retry_on_timeout): delivered, but the worker never sees these entries.
ReadReplyLost(w) ==
  /\ pc[w] = "loop" /\ NextBatch # {}
  /\ Fault
  /\ cursor' = AtMost(cursor + BatchSize, Len(stream))
  /\ Deliver(w, NextBatch)
  /\ UNCHANGED <<stream, dlq, lost, workerVars, dbVars>>

\* _parse_event on each entry in order; bad ones are acknowledged at once.
\* One that raises sends the worker to run(), the entries stay pending.
ParseNew(w) ==
  LET raising == OfKind(batch[w], "raising")
      parsed  == {i \in batch[w] : \A j \in raising : i < j}
      bad     == OfKind(parsed, "bad")
  IN
  /\ pc[w] = "parse"
  /\ Xack(bad)
  /\ IF raising # {}
       THEN Goto(w, "down") /\ SetBatch(w, {}) /\ UNCHANGED caller
       ELSE StartBatch(w, batch[w] \ bad, "loop")
  /\ UNCHANGED <<stream, cursor, deliveries, dlq, lost, claimed, retries,
                 dbVars, faults>>

\* Mutant of ClaimStale: a worker claims only what it owned already.
ClaimOwnStale(w) ==
  /\ pc[w] = "loop" /\ stale \cap PendingOf(w) # {}
  /\ Deliver(w, stale \cap PendingOf(w))
  /\ claimed' = [claimed EXCEPT ![w] = stale \cap PendingOf(w)]
  /\ Goto(w, "triage")
  /\ UNCHANGED <<stream, cursor, dlq, lost, caller, batch, retries,
                 dbVars, faults>>

\* _claim_stale_pending: XAUTOCLAIM takes over every stale entry.
ClaimStale(w) ==
  /\ pc[w] = "loop" /\ stale # {}
  /\ Deliver(w, stale)
  /\ claimed' = [claimed EXCEPT ![w] = stale]
  /\ Goto(w, "triage")
  /\ UNCHANGED <<stream, cursor, dlq, lost, caller, batch, retries,
                 dbVars, faults>>

\* The delivery count XPENDING reports: an entry someone acknowledged in the
\* meantime is not listed, and counts as exhausted.
Exhausted(i) == owner[i] = NoWorker \/ deliveries[i] >= MaxRetries

\* Leave the for loop over the claimed entries once all are triaged.
EndOfTriage(w, S) ==
  IF S # {}
    THEN UNCHANGED <<pc, caller, batch>>
    ELSE StartBatch(w, batch[w], "claim")

\* The for loop over the claimed entries, in stream order, is at entry i.
Triaging(w, i) ==
  /\ pc[w] = "triage"
  /\ i \in claimed[w] /\ \A j \in claimed[w] : i <= j

\* A claimed entry is given up: copied to the dead-letter stream, where a
\* failing copy is only logged, and acknowledged in either case.
DeadLetter(w, i, copied) ==
  /\ Triaging(w, i) /\ Exhausted(i)
  /\ IF copied
       THEN dlq' = dlq \cup {i} /\ UNCHANGED <<lost, faults>>
       ELSE lost' = lost \cup {i} /\ Fault /\ UNCHANGED dlq
  /\ Xack({i})
  /\ claimed' = [claimed EXCEPT ![w] = @ \ {i}]
  /\ EndOfTriage(w, claimed[w] \ {i})
  /\ UNCHANGED <<stream, cursor, deliveries, retries, dbVars>>

\* The same, when XPENDING fails: the entry is taken for exhausted.
DeadLetterUnknown(w, i) ==
  /\ Triaging(w, i) /\ ~Exhausted(i)
  /\ Fault
  /\ dlq' = dlq \cup {i}
  /\ Xack({i})
  /\ claimed' = [claimed EXCEPT ![w] = @ \ {i}]
  /\ EndOfTriage(w, claimed[w] \ {i})
  /\ UNCHANGED <<stream, cursor, deliveries, lost, retries, dbVars>>

\* The dead-letter copy succeeds and its XACK raises: the claim is abandoned.
DeadLetterAckFails(w, i) ==
  /\ Triaging(w, i) /\ Exhausted(i)
  /\ Fault
  /\ dlq' = dlq \cup {i}
  /\ claimed' = [claimed EXCEPT ![w] = {}]
  /\ SetBatch(w, {})
  /\ Goto(w, "loop")
  /\ UNCHANGED <<stream, cursor, owner, deliveries, stale, lost, caller,
                 retries, dbVars>>

\* A claimed entry gets another attempt.
Keep(w, i) ==
  /\ Triaging(w, i) /\ ~Exhausted(i)
  /\ stream[i].kind \in {"good", "poison"}
  /\ claimed' = [claimed EXCEPT ![w] = @ \ {i}]
  /\ IF claimed[w] = {i}
       THEN StartBatch(w, batch[w] \cup {i}, "claim")
       ELSE SetBatch(w, batch[w] \cup {i}) /\ UNCHANGED <<pc, caller>>
  /\ UNCHANGED <<redisVars, retries, dbVars, faults>>

\* A claimed entry does not parse and is acknowledged.
DropBad(w, i) ==
  /\ Triaging(w, i) /\ ~Exhausted(i)
  /\ stream[i].kind = "bad"
  /\ Xack({i})
  /\ claimed' = [claimed EXCEPT ![w] = @ \ {i}]
  /\ EndOfTriage(w, claimed[w] \ {i})
  /\ UNCHANGED <<stream, cursor, deliveries, dlq, lost, retries, dbVars, faults>>

\* The parse of a claimed entry raises: _consume_loop swallows it.
ClaimRaises(w, i) ==
  /\ Triaging(w, i) /\ ~Exhausted(i)
  /\ stream[i].kind = "raising"
  /\ claimed' = [claimed EXCEPT ![w] = {}]
  /\ SetBatch(w, {})
  /\ Goto(w, "loop")
  /\ UNCHANGED <<redisVars, caller, retries, dbVars, faults>>

\* Mutant of NewEvents: no ON CONFLICT on the request id.
NewEventsNoConflict(S) ==
  {i \in S : \A j \in S : j < i => stream[j].rid # stream[i].rid}

\* Mutant of NewEvents: the keys are looked up before the batch is inserted.
NewEventsLookedUpFirst(S) ==
  {i \in S : stream[i].rid = NoRequestId \/ stream[i].rid \notin ledger}

(***************************************************************************)
(* insert_event_or_skip over a batch: an event is new if its request id is *)
(* not in the table and not inserted earlier in the same transaction.  A   *)
(* legacy event was given a fresh request id by _parse_event, so it is     *)
(* always new.                                                             *)
(***************************************************************************)
NewEvents(S) ==
  {i \in S :
     \/ stream[i].rid = NoRequestId
     \/ /\ stream[i].rid \notin ledger
        /\ \A j \in S : j < i => stream[j].rid # stream[i].rid}

\* process_batch up to the commit: keys and sums in one transaction.
Commit(w) ==
  /\ pc[w] = "commit" /\ OfKind(batch[w], "poison") = {}
  /\ ledger' = ledger \cup ({stream[i].rid : i \in NewEvents(batch[w])} \ {NoRequestId})
  /\ charged' = [i \in Id |-> IF i \in NewEvents(batch[w])
                                THEN AtMost(charged[i] + 1, Many) ELSE charged[i]]
  /\ Goto(w, "ack")
  /\ UNCHANGED <<redisVars, caller, batch, claimed, retries, faults>>

\* process_batch after the commit, and the caller after it.
Ack(w) ==
  /\ pc[w] = "ack"
  /\ Xack(batch[w])
  /\ SetBatch(w, {})
  /\ Goto(w, "loop")
  /\ retries' = [retries EXCEPT ![w] =
       [i \in Id |-> IF caller[w] = "loop" /\ i \in batch[w] THEN 0 ELSE @[i]]]
  /\ UNCHANGED <<stream, cursor, deliveries, dlq, lost, caller, claimed,
                 dbVars, faults>>

\* Mutant of BatchFails: the batch is acknowledged whatever happened.
AckDespiteFailure(w) ==
  /\ Xack(batch[w])
  /\ Goto(w, IF caller[w] = "recover" THEN "down" ELSE "loop")
  /\ SetBatch(w, {})
  /\ UNCHANGED <<stream, cursor, deliveries, dlq, lost, caller, claimed, retries, dbVars>>

\* process_batch raises.  In the recovery it reaches run(); in the claim it is
\* swallowed; in the loop every entry's retry counter goes up, and those that
\* reach MAX_RETRIES are dead-lettered.
BatchFails(w) ==
  LET looping == caller[w] = "loop"
      count   == [i \in Id |-> retries[w][i] + (IF i \in batch[w] THEN 1 ELSE 0)]
      giveUp  == IF looping THEN {i \in batch[w] : count[i] >= MaxRetries} ELSE {}
  IN
  /\ dlq' = dlq \cup giveUp
  /\ Xack(giveUp)
  /\ retries' = IF looping
       THEN [retries EXCEPT ![w] = [i \in Id |-> IF i \in giveUp THEN 0 ELSE count[i]]]
       ELSE retries
  /\ Goto(w, IF caller[w] = "recover" THEN "down" ELSE "loop")
  /\ SetBatch(w, {})
  /\ UNCHANGED <<stream, cursor, deliveries, lost, caller, claimed, dbVars>>

\* The transaction is rejected because of a poison entry, as it always will be.
CommitRejected(w) ==
  /\ pc[w] = "commit" /\ OfKind(batch[w], "poison") # {}
  /\ BatchFails(w)
  /\ UNCHANGED faults

\* The transaction fails (database away, deadlock of two workers' upserts).
CommitFails(w) ==
  /\ pc[w] = "commit"
  /\ Fault
  /\ BatchFails(w)

\* The transaction is committed, but the XACK after it raises.
AckFails(w) ==
  /\ pc[w] = "ack"
  /\ Fault
  /\ BatchFails(w)

----------------------------------------------------------------------------
Step(w) ==
  \/ Connect(w) \/ RecoverPending(w)
  \/ ReadNew(w) \/ ParseNew(w)
  \/ ClaimStale(w)
  \/ \E i \in Id : DeadLetter(w, i, TRUE) \/ Keep(w, i) \/ DropBad(w, i) \/ ClaimRaises(w, i)
  \/ Commit(w) \/ CommitRejected(w) \/ Ack(w)

Failure(w) ==
  \/ Crash(w) \/ ReadReplyLost(w)
  \/ \E i \in Id :
       DeadLetter(w, i, FALSE) \/ DeadLetterUnknown(w, i) \/ DeadLetterAckFails(w, i)
  \/ CommitFails(w) \/ AckFails(w)

Next ==
  \/ \E e \in Entry : Publish(e)
  \/ \E i \in Id : Idle(i)
  \/ \E w \in Worker : Step(w) \/ Failure(w)

Spec == Init /\ [][Next]_vars

(***************************************************************************)
(* Fairness: a surviving worker keeps executing and is restarted when it   *)
(* dies (run() and the Deployment), each turn of its loop passes the claim *)
(* and the read, and an unattended entry grows stale.  Other workers may   *)
(* stop anywhere, as a pod does that a rollout replaces.                   *)
(***************************************************************************)
Fairness ==
  /\ \A i \in Id : WF_vars(Idle(i))
  /\ \A w \in Survivor : WF_vars(Step(w)) /\ SF_vars(ClaimStale(w)) /\ SF_vars(ReadNew(w))

FairSpec == Spec /\ Fairness

----------------------------------------------------------------------------
(* Properties *)

\* The type invariant.
RedisTypeOK ==
  /\ stream \in Seq(Entry) /\ Len(stream) <= MaxEntries
  /\ cursor \in 0..Len(stream)
  /\ owner \in [Id -> Worker \cup {NoWorker}]
  /\ deliveries \in [Id -> 0..MaxRetries]
  /\ stale \subseteq Id
  /\ dlq \subseteq Id /\ lost \subseteq Id

WorkerTypeOK ==
  /\ pc \in [Worker -> Pc]
  /\ caller \in [Worker -> {"recover", "loop", "claim"}]
  /\ batch \in [Worker -> SUBSET Id]
  /\ claimed \in [Worker -> SUBSET Id]
  /\ retries \in [Worker -> [Id -> Nat]]

DbTypeOK ==
  /\ ledger \subseteq RequestId
  /\ charged \in [Id -> 0..Many]

TypeOK == RedisTypeOK /\ WorkerTypeOK /\ DbTypeOK /\ faults \in 0..MaxFaults

\* Exactly-once accounting: whatever is redelivered, duplicated by a producer
\* or handled by two workers at once, the tokens of a request are in the usage
\* sums at most once.
ChargedOnce ==
  \A i, j \in Published :
    /\ stream[i].rid # NoRequestId
    /\ stream[i].rid = stream[j].rid
    /\ charged[i] > 0 /\ charged[j] > 0
    => i = j /\ charged[i] = 1

\* An entry that has left the pending list was charged (itself or another
\* entry of the same request), could not be parsed, is in the dead-letter
\* stream, or is one whose dead-letter copy failed.
Charged(i) ==
  IF stream[i].rid = NoRequestId THEN charged[i] > 0 ELSE stream[i].rid \in ledger

Accounted ==
  \A i \in 1..cursor :
    owner[i] = NoWorker =>
      \/ Charged(i)
      \/ stream[i].kind = "bad"
      \/ i \in dlq \cup lost

\* The worker implements the exactly-once ledger, for the entries that carry a
\* request id.
Identified == {i \in Published : stream[i].rid # NoRequestId}

Ledger == INSTANCE UsageLedger WITH
  request <- [i \in Identified |-> stream[i].rid],
  charges <- [i \in Identified |-> charged[i]]

ExactlyOnceLedger == Ledger!Spec

\* Once faults have stopped, every published entry is eventually acknowledged (charged, dropped
\* as bad, or dead-lettered), whoever died holding it; only an entry that makes the parse raise,
\* or the database reject its batch, can hold the entries around it back.
Settled(i) == i <= cursor /\ owner[i] = NoWorker
Obstructed == \E j \in Published : stream[j].kind \in {"poison", "raising"}
EverySettles == \A i \in Id : []<>(i \in Published => Settled(i) \/ Obstructed)

\* What the code says and does not do; a run shows how.

\* The dead-letter stream holds permanently failed entries, not charged ones.
DlqNotCharged == \A i \in dlq : charged[i] = 0
============================================================================
