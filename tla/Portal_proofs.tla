--------------------------- MODULE Portal_proofs ----------------------------
(***************************************************************************)
(* Proofs about the components behind the portal, one part for each:       *)
(* Maintenance, Surveys, AuditPipeline and QuotaGate; a last part puts     *)
(* them together with the tokens, the applications and the skills, which   *)
(* have modules of proofs of their own. They share no state. The constants *)
(* are as their modules assume them, of any number.                        *)
(*                                                                         *)
(* Inductions over data go by a least counterexample: of the subsets of a  *)
(* finite set with some property one has none below it, and of a set of    *)
(* numbers one is the least.                                               *)
(***************************************************************************)
EXTENDS Portal, AppDeployment_proofs, SkillGovernance_proofs, FiniteSetTheorems,
        WellFoundedInduction, TLAPS

\* A set of subsets of a finite set has one that no other is within.
LEMMA LeastSubset ==
  ASSUME NEW S, IsFiniteSet(S), NEW T, T \subseteq SUBSET S, T # {}
  PROVE  \E m \in T : \A k \in T : k \subseteq m => k = m
<1>1. T \subseteq FiniteSubsetsOf(S)
  BY FS_Subset DEF FiniteSubsetsOf
<1>2. PICK m \in T : \A y \in T : ~ (<<y, m>> \in StrictSubsetOrdering(S))
  BY <1>1, FS_StrictSubsetOrderingWellFounded, WFMin
<1>3. QED
  BY <1>2 DEF StrictSubsetOrdering

\* A set of natural numbers has a least one.
LEMMA LeastNumber ==
  ASSUME NEW T, T \subseteq Nat, T # {}
  PROVE  \E m \in T : \A k \in T : m <= k
<1>1. PICK n \in T : TRUE
  OBVIOUS
<1> DEFINE U == {x \in T : x <= n}
           V == {0..x : x \in U}
<1>2. IsFiniteSet(0..n)
  BY FS_Interval
<1>3. V \subseteq SUBSET (0..n) /\ V # {}
  BY <1>1
<1>4. PICK v \in V : \A w \in V : w \subseteq v => w = v
  <2>1. \A S : IsFiniteSet(S) /\ V \subseteq SUBSET S /\ V # {} =>
              \E v \in V : \A w \in V : w \subseteq v => w = v
    <3> HIDE DEF V
    <3>1. QED
      BY LeastSubset
  <2>2. QED
    BY <1>2, <1>3, <2>1
<1>5. PICK m \in U : v = 0..m
  BY <1>4
<1>6. ASSUME NEW k \in T, k < m PROVE FALSE
  <2>1. 0..k \in V /\ 0..k \subseteq 0..m
    BY <1>5, <1>6
  <2>2. m \in 0..m /\ m \notin 0..k
    BY <1>5, <1>6
  <2>3. QED
    BY <2>1, <2>2, <1>4, <1>5
<1>7. QED
  BY <1>5, <1>6

-----------------------------------------------------------------------------
(***************************************************************************)
(* Maintenance. EndIsSeen is not inductive: what a replica has read, and   *)
(* what Redis keeps, may be older than the end of the mode. The invariant  *)
(* dates both. A replica acts between two ticks, so what it is about to    *)
(* store it has read since the last one (ReadingsAreFresh). A word that    *)
(* says "on" has lost at least as much of its life as has passed since the *)
(* mode ended (WordsExpire); so the property does not lean on the          *)
(* comparison in the middleware that never recognises the word.            *)
(***************************************************************************)

Doing == [pc : {"rest", "look", "keep", "create", "set", "drop"},
          value : {"none", "off", "on", "cache", "once"},
          read : {"none", "off", "on"}]

\* What an administrator's request is about to write is a mode.
SetsAMode ==
  \A r \in MtReplica :
    /\ doing[r].pc = "set" => doing[r].value \in {"off", "on"}
    /\ doing[r].pc = "create" => doing[r].value \in {"none", "off", "on"}

\* The mode is on, or ended since the last tick.
OnOrJustEnded == mtRow = "on" \/ stable = 0

\* A replica about to answer with the page and to store the word has read it since the last tick.
ReadingsAreFresh ==
  \A r \in MtReplica : doing[r].pc = "keep" /\ doing[r].read = "on" => OnOrJustEnded

\* The word that says "on" is gone when the mode has been off for its whole life.
WordsExpire == cached.word = "1" => mtRow = "on" \/ stable + cached.left <= MtTtl

\* Who has just been answered with the page has been answered so rightly, or just after the end.
PageIsFresh == answer = "page" => OnOrJustEnded

MtInv == MtTypeOK /\ SetsAMode /\ ReadingsAreFresh /\ WordsExpire /\ PageIsFresh

-----------------------------------------------------------------------------

\* At first nobody has read anything and Redis has no word.
LEMMA MtInitOK == MtInit => MtInv
BY MaintenanceAssumption
   DEF MtInit, MtInv, MtTypeOK, SetsAMode, ReadingsAreFresh, WordsExpire, PageIsFresh, NoWord,
       MtResting

\* The word is missing, or has some of its life left.
LEMMA WordForms ==
  ASSUME MtInv
  PROVE  /\ \/ cached = NoWord
            \/ cached \in [word : {"0", "1"}, left : 1..MtTtl] /\ cached.left \in 1..MtTtl
         /\ NoWord.left = 0 /\ NoWord.word = "none"
<1>1. cached = NoWord \/ cached \in [word : {"0", "1"}, left : 1..MtTtl]
  BY DEF MtInv, MtTypeOK
<1>2. NoWord.left = 0 /\ NoWord.word = "none"
  BY DEF NoWord
<1>3. QED
  BY <1>1, <1>2

\* A step of one replica that leaves the row alone: what it goes on with has to be in order, and
\* so have the word and the answer.
LEMMA ReplicaMoves ==
  ASSUME MtInv, NEW r \in MtReplica, NEW d \in Doing,
         doing' = [doing EXCEPT ![r] = d],
         d.pc = "set" => d.value \in {"off", "on"},
         d.pc = "create" => d.value \in {"none", "off", "on"},
         d.pc = "keep" /\ d.read = "on" => OnOrJustEnded,
         mtRow' = mtRow, stable' = stable,
         cached' \in {NoWord} \cup [word : {"0", "1"}, left : 1..MtTtl],
         WordsExpire',
         answer' \in {"none", "page", "passed", "passed by fault"},
         answer' = "page" => OnOrJustEnded,
         mtLeft' \in [sets : 0..MaxSets, faults : 0..MaxMtFaults]
  PROVE  MtInv'
<1>1. doing \in [MtReplica -> Doing]
  BY DEF MtInv, MtTypeOK, Doing
<1>2. doing' \in [MtReplica -> Doing]
  BY <1>1
<1>3. \A q \in MtReplica : doing'[q] = IF q = r THEN d ELSE doing[q]
  BY <1>1
<1>4. MtTypeOK'
  <2>1. mtRow' \in {"missing", "off", "on"}
    BY DEF MtInv, MtTypeOK
  <2>2. stable' \in 0..MtTtl + 1
    BY DEF MtInv, MtTypeOK
  <2>3. QED
    BY <1>2, <2>1, <2>2, Zenon DEF MtTypeOK, Doing
<1>5. SetsAMode' /\ ReadingsAreFresh' /\ PageIsFresh'
  <2>1. OnOrJustEnded' = OnOrJustEnded
    BY DEF OnOrJustEnded
  <2>2. SetsAMode'
    BY <1>3 DEF MtInv, SetsAMode
  <2>3. ReadingsAreFresh'
    BY <1>3, <2>1 DEF MtInv, ReadingsAreFresh
  <2>4. PageIsFresh'
    BY <2>1 DEF PageIsFresh
  <2>5. QED
    BY <2>2, <2>3, <2>4
<1>6. QED
  BY <1>4, <1>5 DEF MtInv

\* What a fault leaves of the bounds.
LEMMA FaultCounts ==
  ASSUME MtInv, NEW r \in MtReplica, MtFault(r)
  PROVE  mtLeft' \in [sets : 0..MaxSets, faults : 0..MaxMtFaults]
<1>1. mtLeft.sets \in 0..MaxSets /\ mtLeft.faults \in 0..MaxMtFaults /\ mtLeft.faults > 0
  BY DEF MtInv, MtTypeOK, MtFault
<1>2. mtLeft' = [sets |-> mtLeft.sets, faults |-> mtLeft.faults - 1]
  BY DEF MtInv, MtTypeOK, MtFault
<1>3. mtLeft.faults - 1 \in 0..MaxMtFaults
  BY <1>1, MaintenanceAssumption
<1>4. QED
  BY <1>1, <1>2, <1>3

\* The middleware's three steps: look in Redis, read the row, keep the word.
LEMMA Middleware ==
  ASSUME MtInv, NEW r \in MtReplica,
         \/ CacheHit(r) \/ CacheMiss(r) \/ NoCache(r) \/ LookAtRow(r) \/ KeepWord(r)
         \/ MiddlewareFault(r)
  PROVE  MtInv'
<1> USE MaintenanceAssumption
<1>0. /\ doing \in [MtReplica -> Doing] /\ MtResting \in Doing
      /\ mtRow \in {"missing", "off", "on"}
      /\ cached \in {NoWord} \cup [word : {"0", "1"}, left : 1..MtTtl]
      /\ mtLeft \in [sets : 0..MaxSets, faults : 0..MaxMtFaults]
      /\ stable \in 0..MtTtl + 1
  BY DEF MtInv, MtTypeOK, Doing, MtResting
<1>1. CASE CacheHit(r)
  <2>1. answer' = "passed"
    BY <1>0, <1>1 DEF CacheHit, Replied, Means, NoWord
  <2>2. QED
    BY <1>1, <2>1 DEF CacheHit, MtInv, MtTypeOK, SetsAMode, ReadingsAreFresh, WordsExpire,
         PageIsFresh, OnOrJustEnded
<1>2. CASE CacheMiss(r) \/ NoCache(r)
  <2>1. PICK value \in {"cache", "once"} :
          doing' = [doing EXCEPT ![r] = [pc |-> "look", value |-> value, read |-> "none"]]
    BY <1>2 DEF CacheMiss, NoCache, MtGoes
  <2>2. [pc |-> "look", value |-> value, read |-> "none"] \in Doing
    BY DEF Doing
  <2>3. mtLeft' \in [sets : 0..MaxSets, faults : 0..MaxMtFaults]
    BY <1>0, <1>2, FaultCounts DEF CacheMiss, NoCache
  <2>4. UNCHANGED <<mtRow, cached, stable>> /\ answer' = "none"
    BY <1>2 DEF CacheMiss, NoCache
  <2>5. WordsExpire'
    BY <2>4 DEF MtInv, WordsExpire
  <2>6. QED
    BY <1>0, <2>1, <2>2, <2>3, <2>4, <2>5, ReplicaMoves
<1>3. CASE LookAtRow(r)
  <2>1. UNCHANGED <<mtRow, cached, stable, mtLeft>> /\ WordsExpire'
    BY <1>3 DEF LookAtRow, MtInv, WordsExpire
  <2>2. CASE mtRow # "missing" /\ doing[r].value = "cache"
    <3>1. /\ doing' = [doing EXCEPT ![r] = [pc |-> "keep", value |-> "cache", read |-> mtRow]]
          /\ answer' = "none"
      BY <1>3, <2>2 DEF LookAtRow, MtGoes
    <3>2. [pc |-> "keep", value |-> "cache", read |-> mtRow] \in Doing
      BY <1>0, <2>2 DEF Doing
    <3>3. QED
      BY <1>0, <2>1, <3>1, <3>2, ReplicaMoves DEF OnOrJustEnded
  <2>3. CASE ~(mtRow # "missing" /\ doing[r].value = "cache")
    <3>1. /\ doing' = [doing EXCEPT ![r] = MtResting]
          /\ answer' = IF mtRow = "on" THEN "page" ELSE "passed"
      BY <1>3, <2>3 DEF LookAtRow, MtRests, Replied
    <3>2. MtResting.pc = "rest"
      BY DEF MtResting
    <3>3. QED
      BY <1>0, <2>1, <3>1, <3>2, ReplicaMoves DEF OnOrJustEnded
  <2>4. QED
    BY <2>2, <2>3
<1>4. CASE KeepWord(r)
  <2>1. /\ doing[r].pc = "keep"
        /\ cached' = [word |-> WordOf(doing[r].read), left |-> MtTtl]
        /\ doing' = [doing EXCEPT ![r] = MtResting]
        /\ answer' = IF doing[r].read = "on" THEN "page" ELSE "passed"
        /\ UNCHANGED <<mtRow, stable, mtLeft>>
    BY <1>4 DEF KeepWord, MtAt, MtRests, Replied
  <2>2. doing[r].read = "on" => OnOrJustEnded
    BY <2>1 DEF MtInv, ReadingsAreFresh
  <2>3. cached' \in [word : {"0", "1"}, left : 1..MtTtl]
    BY <2>1 DEF WordOf
  <2>4. WordsExpire'
    BY <1>0, <2>1, <2>2 DEF WordsExpire, WordOf, OnOrJustEnded
  <2>5. MtResting.pc = "rest"
    BY DEF MtResting
  <2>6. QED
    BY <1>0, <2>1, <2>2, <2>3, <2>4, <2>5, ReplicaMoves
<1>5. CASE MiddlewareFault(r)
  <2>1. /\ doing' = [doing EXCEPT ![r] = MtResting]
        /\ answer' = IF doing[r].pc = "keep" /\ doing[r].read = "on"
                       THEN "page" ELSE "passed by fault"
        /\ UNCHANGED <<mtRow, cached, stable>>
    BY <1>5 DEF MiddlewareFault, MtAt, MtRests
  <2>2. doing[r].pc = "keep" /\ doing[r].read = "on" => OnOrJustEnded
    BY DEF MtInv, ReadingsAreFresh
  <2>3. mtLeft' \in [sets : 0..MaxSets, faults : 0..MaxMtFaults]
    BY <1>5, FaultCounts DEF MiddlewareFault
  <2>4. WordsExpire'
    BY <2>1 DEF MtInv, WordsExpire
  <2>5. MtResting.pc = "rest"
    BY DEF MtResting
  <2>6. QED
    BY <1>0, <2>1, <2>2, <2>3, <2>4, <2>5, ReplicaMoves
<1>6. QED
  BY <1>1, <1>2, <1>3, <1>4, <1>5

\* An administrator's request begins, and reads the row.
LEMMA BeginSetOK ==
  ASSUME MtInv, NEW r \in MtReplica, NEW value \in {"none", "off", "on"}, BeginSet(r, value)
  PROVE  MtInv'
<1> USE MaintenanceAssumption
<1>1. /\ mtRow \in {"missing", "off", "on"} /\ MtResting \in Doing
      /\ cached \in {NoWord} \cup [word : {"0", "1"}, left : 1..MtTtl]
  BY DEF MtInv, MtTypeOK, Doing, MtResting
<1>2. UNCHANGED <<mtRow, cached, stable>> /\ answer' = "none"
  BY DEF BeginSet
<1>3. mtLeft' \in [sets : 0..MaxSets, faults : 0..MaxMtFaults]
  <2>1. mtLeft.sets \in 0..MaxSets /\ mtLeft.faults \in 0..MaxMtFaults /\ mtLeft.sets > 0
    BY DEF MtInv, MtTypeOK, BeginSet
  <2>2. mtLeft' = [sets |-> mtLeft.sets - 1, faults |-> mtLeft.faults]
    BY DEF MtInv, MtTypeOK, BeginSet
  <2>3. mtLeft.sets - 1 \in 0..MaxSets
    BY <2>1
  <2>4. QED
    BY <2>1, <2>2, <2>3
<1>4. WordsExpire'
  BY <1>2 DEF MtInv, WordsExpire
<1>5. CASE mtRow = "missing"
  <2>1. doing' = [doing EXCEPT ![r] = [pc |-> "create", value |-> value, read |-> "none"]]
    BY <1>5 DEF BeginSet, MtGoes
  <2>2. [pc |-> "create", value |-> value, read |-> "none"] \in Doing
    BY DEF Doing
  <2>3. QED
    BY <1>1, <1>2, <1>3, <1>4, <2>1, <2>2, ReplicaMoves
<1>6. CASE mtRow # "missing" /\ value = "none"
  <2>1. doing' = [doing EXCEPT ![r] = MtResting] /\ MtResting.pc = "rest"
    BY <1>6 DEF BeginSet, MtRests, MtResting
  <2>2. QED
    BY <1>1, <1>2, <1>3, <1>4, <2>1, ReplicaMoves
<1>7. CASE mtRow # "missing" /\ value # "none"
  <2>1. doing' = [doing EXCEPT ![r] = [pc |-> "set", value |-> value, read |-> mtRow]]
    BY <1>7 DEF BeginSet, MtGoes
  <2>2. [pc |-> "set", value |-> value, read |-> mtRow] \in Doing
    BY <1>1, <1>7 DEF Doing
  <2>3. QED
    BY <1>1, <1>2, <1>3, <1>4, <1>7, <2>1, <2>2, ReplicaMoves
<1>8. QED
  BY <1>5, <1>6, <1>7

\* The two steps that write the row: what the others have read stays as fresh as it was,
\* because a mode that ends has just ended.
LEMMA RowIsWritten ==
  ASSUME MtInv, NEW r \in MtReplica, NEW d \in Doing,
         doing' = [doing EXCEPT ![r] = d],
         d.pc = "set" => d.value \in {"off", "on"},
         d.pc \notin {"create", "keep"},
         mtRow' \in {"missing", "off", "on"}, stable' \in {0, stable},
         mtRow = "on" => mtRow' = "on" \/ stable' = 0,
         answer' = "none", UNCHANGED <<cached, mtLeft>>
  PROVE  MtInv'
<1> USE MaintenanceAssumption
<1>1. doing \in [MtReplica -> Doing] /\ stable \in 0..MtTtl + 1
  BY DEF MtInv, MtTypeOK, Doing
<1>2. doing' \in [MtReplica -> Doing]
  BY <1>1
<1>3. \A q \in MtReplica : doing'[q] = IF q = r THEN d ELSE doing[q]
  BY <1>1
<1>4. MtTypeOK'
  <2>1. stable' \in 0..MtTtl + 1
    BY <1>1
  <2>2. doing' \in [MtReplica -> [pc : {"rest", "look", "keep", "create", "set", "drop"},
                                 value : {"none", "off", "on", "cache", "once"},
                                 read : {"none", "off", "on"}]]
    BY <1>2 DEF Doing
  <2>3. QED
    BY <2>1, <2>2 DEF MtInv, MtTypeOK
<1>5. SetsAMode'
  BY <1>3 DEF MtInv, SetsAMode
<1>6. ReadingsAreFresh' /\ PageIsFresh'
  BY <1>3 DEF MtInv, ReadingsAreFresh, PageIsFresh, OnOrJustEnded
<1>7. WordsExpire'
  <2>1. cached.word = "1" => cached.left \in 1..MtTtl
    BY WordForms
  <2>2. QED
    BY <1>1, <2>1 DEF MtInv, WordsExpire
<1>8. QED
  BY <1>4, <1>5, <1>6, <1>7 DEF MtInv

\* The row is created or written.
LEMMA WritesOK ==
  ASSUME MtInv, NEW r \in MtReplica, CreateRow(r) \/ CommitMode(r)
  PROVE  MtInv'
<1>0. /\ doing[r] \in Doing /\ MtResting \in Doing /\ MtResting.pc = "rest"
      /\ mtRow \in {"missing", "off", "on"}
  BY DEF MtInv, MtTypeOK, Doing, MtResting
<1>1. CASE CreateRow(r)
  <2>1. /\ mtRow' = IF mtRow = "missing" THEN "off" ELSE mtRow
        /\ stable' = stable /\ answer' = "none" /\ UNCHANGED <<cached, mtLeft>>
    BY <1>1 DEF CreateRow
  <2>2. doing[r].value \in {"none", "off", "on"}
    BY <1>1 DEF CreateRow, MtAt, MtInv, SetsAMode
  <2>3. CASE mtRow = "missing" /\ doing[r].value # "none"
    <3> DEFINE d == [pc |-> "set", value |-> doing[r].value, read |-> "off"]
    <3>1. doing' = [doing EXCEPT ![r] = d]
      BY <1>1, <2>3 DEF CreateRow, MtGoes
    <3>2. d \in Doing
      BY <2>2 DEF Doing
    <3>3. d.pc = "set" /\ d.value \in {"off", "on"}
      BY <2>2, <2>3
    <3> HIDE DEF d
    <3>4. QED
      BY <1>0, <2>1, <3>1, <3>2, <3>3, RowIsWritten
  <2>4. CASE ~(mtRow = "missing" /\ doing[r].value # "none")
    <3>1. doing' = [doing EXCEPT ![r] = MtResting]
      BY <1>1, <2>4 DEF CreateRow, MtRests
    <3>2. QED
      BY <1>0, <2>1, <3>1, RowIsWritten
  <2>5. QED
    BY <2>3, <2>4
<1>2. CASE CommitMode(r)
  <2>1. /\ doing[r].pc = "set"
        /\ mtRow' = IF doing[r].value # doing[r].read THEN doing[r].value ELSE mtRow
        /\ stable' = IF mtRow' # mtRow THEN 0 ELSE stable
        /\ answer' = "none" /\ UNCHANGED <<cached, mtLeft>>
    BY <1>2 DEF CommitMode, MtAt
  <2>2. doing[r].value \in {"off", "on"}
    BY <2>1 DEF MtInv, SetsAMode
  <2> DEFINE d == [pc |-> "drop", value |-> "none", read |-> "none"]
  <2>3. doing' = [doing EXCEPT ![r] = d]
    BY <1>2 DEF CommitMode, MtGoes
  <2>4. d \in Doing /\ d.pc = "drop"
    BY DEF Doing
  <2> HIDE DEF d
  <2>5. QED
    BY <1>0, <2>1, <2>2, <2>3, <2>4, RowIsWritten
<1>3. QED
  BY <1>1, <1>2

\* The word is dropped after the write, or the drop fails.
LEMMA DropWordOK ==
  ASSUME MtInv, NEW r \in MtReplica, DropWord(r)
  PROVE  MtInv'
<1>1. /\ MtResting \in Doing /\ MtResting.pc = "rest"
      /\ cached \in {NoWord} \cup [word : {"0", "1"}, left : 1..MtTtl]
      /\ mtLeft \in [sets : 0..MaxSets, faults : 0..MaxMtFaults]
  BY DEF MtInv, MtTypeOK, Doing, MtResting
<1>2. /\ doing' = [doing EXCEPT ![r] = MtResting]
      /\ answer' = "none" /\ UNCHANGED <<mtRow, stable>> /\ cached' \in {NoWord, cached}
  BY DEF DropWord, MtRests
<1>3. mtLeft' \in [sets : 0..MaxSets, faults : 0..MaxMtFaults]
  BY <1>1, FaultCounts DEF DropWord
<1>4. WordsExpire'
  BY <1>2 DEF MtInv, WordsExpire, NoWord
<1>5. QED
  BY <1>1, <1>2, <1>3, <1>4, ReplicaMoves

\* At a tick nobody is about to store anything; the word and the time since the last change move
\* together.
LEMMA MtTickOK ==
  ASSUME MtInv, MtTick
  PROVE  MtInv'
<1> USE MaintenanceAssumption
<1>1. /\ stable \in 0..MtTtl + 1
      /\ stable' = IF stable > MtTtl THEN stable ELSE stable + 1
      /\ \A r \in MtReplica : doing'[r] = doing[r] /\ doing[r].pc = "rest"
      /\ answer' = "none" /\ UNCHANGED <<mtRow, doing, mtLeft>>
  BY DEF MtInv, MtTypeOK, MtTick, MtAt
<1>2. CASE cached.left > 1
  <2>1. cached \in [word : {"0", "1"}, left : 1..MtTtl]
    BY <1>2, WordForms
  <2>2. cached' = [word |-> cached.word, left |-> cached.left - 1]
    BY <1>2, <2>1 DEF MtTick
  <2>3. cached' \in [word : {"0", "1"}, left : 1..MtTtl]
    BY <1>2, <2>1, <2>2
  <2>4. WordsExpire'
    BY <1>1, <2>1, <2>2 DEF MtInv, WordsExpire
  <2>5. stable' \in 0..MtTtl + 1
    BY <1>1
  <2>6. MtTypeOK'
    BY <1>1, <2>3, <2>5 DEF MtInv, MtTypeOK
  <2>7. SetsAMode' /\ ReadingsAreFresh' /\ PageIsFresh'
    BY <1>1 DEF MtInv, SetsAMode, ReadingsAreFresh, PageIsFresh
  <2>8. QED
    BY <2>4, <2>6, <2>7 DEF MtInv
<1>3. CASE ~(cached.left > 1)
  <2>1. cached' = NoWord
    BY <1>3 DEF MtTick
  <2>2. stable' \in 0..MtTtl + 1
    BY <1>1
  <2>3. MtTypeOK'
    BY <1>1, <2>1, <2>2 DEF MtInv, MtTypeOK
  <2>4. SetsAMode' /\ ReadingsAreFresh' /\ PageIsFresh'
    BY <1>1 DEF MtInv, SetsAMode, ReadingsAreFresh, PageIsFresh
  <2>5. WordsExpire'
    BY <2>1, WordForms DEF WordsExpire
  <2>6. QED
    BY <2>3, <2>4, <2>5 DEF MtInv
<1>4. QED
  BY <1>2, <1>3

\* Stuttering keeps the invariant.
LEMMA MtRestOK ==
  ASSUME MtInv, UNCHANGED mtVars
  PROVE  MtInv'
BY DEF MtInv, MtTypeOK, SetsAMode, ReadingsAreFresh, PageIsFresh, WordsExpire, OnOrJustEnded,
       mtVars

\* The invariant is inductive.
THEOREM MtInductive == MtSpec => []MtInv
<1>1. MtInv /\ [MtNext]_mtVars => MtInv'
  <2> SUFFICES ASSUME MtInv, MtNext PROVE MtInv'
    BY MtRestOK
  <2>1. CASE MtTick
    BY <2>1, MtTickOK
  <2>2. ASSUME NEW r \in MtReplica,
               \/ CacheHit(r) \/ CacheMiss(r) \/ NoCache(r) \/ LookAtRow(r) \/ KeepWord(r)
               \/ MiddlewareFault(r)
        PROVE  MtInv'
    BY <2>2, Middleware
  <2>3. ASSUME NEW r \in MtReplica, CreateRow(r) \/ CommitMode(r)
        PROVE  MtInv'
    BY <2>3, WritesOK
  <2>4. ASSUME NEW r \in MtReplica, DropWord(r)
        PROVE  MtInv'
    BY <2>4, DropWordOK
  <2>5. ASSUME NEW r \in MtReplica, NEW value \in {"none", "off", "on"}, BeginSet(r, value)
        PROVE  MtInv'
    BY <2>5, BeginSetOK
  <2>6. QED
    BY <2>1, <2>2, <2>3, <2>4, <2>5 DEF MtNext
<1>2. QED
  BY <1>1, MtInitOK, PTL DEF MtSpec

\* Every variable keeps its type: a replica never sets a mode that is none.
THEOREM MaintenanceTypeCorrect == MtSpec => []MtTypeOK
<1>1. MtInv => MtTypeOK
  BY DEF MtInv
<1>2. QED
  BY <1>1, MtInductive, PTL

\* Once the mode has been off for the life of a word, nobody gets the page and no word in Redis
\* says otherwise, whatever was read before the end and stored after it, or failed to be dropped.
THEOREM EndHolds ==
  MtSpec => [](EndIsSeen /\ (cached.word = "1" /\ stable >= MtTtl => mtRow = "on"))
<1>1. MtInv => EndIsSeen
  BY MaintenanceAssumption DEF MtInv, PageIsFresh, OnOrJustEnded, EndIsSeen
<1>2. MtInv => (cached.word = "1" /\ stable >= MtTtl => mtRow = "on")
  <2> SUFFICES ASSUME MtInv, cached.word = "1", stable >= MtTtl PROVE mtRow = "on"
    OBVIOUS
  <2>1. cached.left \in 1..MtTtl
    BY WordForms
  <2>2. stable \in 0..MtTtl + 1
    BY DEF MtInv, MtTypeOK
  <2>3. QED
    BY <2>1, <2>2, MaintenanceAssumption DEF MtInv, WordsExpire
<1>3. QED
  BY <1>1, <1>2, MtInductive, PTL

-----------------------------------------------------------------------------
(***************************************************************************)
(* Surveys. That the answers of a survey are in order and complete rests   *)
(* on what a handler has read before it waits: it was the row at some      *)
(* time, and a row that was complete had its response (SeenHold). Nothing  *)
(* keeps two handlers from one survey; while no two have met, one is alone *)
(* with its survey, and no other is in progress (SurveysAlone), so that    *)
(* the answer it brings is for the question that is asked (Fitting).       *)
(***************************************************************************)

(* The inductive invariant *)

AnswerKinds == {"text", "choice", "photo"}
Given == [q : 0..Count, given : AnswerKinds]

Task == [phase : {"idle", "load", "save"}, on : SvAssign \cup {0}, given : AnswerKinds,
         seen : SvRow]

\* A list of answers that belongs to a position.
Kept(idx, answers) == Len(answers) = idx /\ InOrder(answers)

Busy(t) == svTasks[t].phase # "idle"

\* What the rows hold, and that the last answer of a survey comes with its response.
RowsHold ==
  \A a \in SvAssign :
    /\ Kept(assignments[a].idx, assignments[a].answers)
    /\ assignments[a].idx = Count => assignments[a].status = "completed"
    /\ assignments[a].status = "completed" => responses[a] # None
    /\ responses[a] # None => Kept(Count, responses[a])

\* What a task has read was once the row: if that was complete, there is a response.
SeenHold ==
  \A t \in SvTask :
    /\ Busy(t) => svTasks[t].on \in SvAssign
    /\ svTasks[t].phase = "save" =>
         /\ Kept(svTasks[t].seen.idx, svTasks[t].seen.answers)
         /\ svTasks[t].seen.idx = Count \/ svTasks[t].seen.status = "completed" =>
              responses[svTasks[t].on] # None

\* A button belongs to a question with choices.
ButtonsAreChoices ==
  \A b \in buttons : b[2] < Count /\ SvQuestions[b[2] + 1] = "choice"

\* A task that works alone: nothing happens to its survey meanwhile, and no other is in progress.
AnswersAlone(t) ==
  /\ \A u \in SvTask : Busy(u) => u = t
  /\ assignments[svTasks[t].on].status \in {"pending", "in_progress"}
  /\ svTasks[t].phase = "save" => svTasks[t].seen = assignments[svTasks[t].on]
  /\ \A a \in SvAssign : assignments[a].status = "in_progress" => a = svTasks[t].on

\* Messages are answered one at a time.
SurveysAlone ==
  /\ \A t \in SvTask : Busy(t) => AnswersAlone(t)
  /\ \A a \in SvAssign : responses[a] # None => assignments[a].status = "completed"
  /\ \A a, b \in SvAssign :
       assignments[a].status = "in_progress" /\ assignments[b].status = "in_progress" => a = b
  /\ \A b \in buttons : assignments[b[1]].status \in {"in_progress", "completed"}

\* The answers fit the questions, and so does the one under way.
Fitting ==
  /\ \A a \in SvAssign : \A i \in DOMAIN assignments[a].answers :
       assignments[a].answers[i].given = "photo" <=> SvQuestions[i] = "photo"
  /\ \A t \in SvTask : Busy(t) =>
       (svTasks[t].given = "photo" <=> Asked(assignments[svTasks[t].on]) = "photo")

SvInv ==
  /\ SvTypeOK
  /\ RowsHold /\ SeenHold /\ ButtonsAreChoices
  /\ ~svLog.overlapped => SurveysAlone
  /\ ~svLog.overlapped /\ ~svLog.stale => Fitting

-----------------------------------------------------------------------------

\* A survey has at least one question.
LEMMA QuestionsThere ==
  /\ Count \in Nat /\ Count > 0 /\ SvQuestions \in [1..Count -> AnswerKinds]
BY SurveyAssumption DEF Count, AnswerKinds

\* The oldest of some assignments is one of them.
LEMMA OldestIsThere ==
  ASSUME NEW S, S \subseteq SvAssign, S # {}
  PROVE  Oldest(S) \in S
<1>1. S \subseteq Nat
  BY SurveyAssumption
<1>2. \E a \in S : \A b \in S : a <= b
  BY <1>1, LeastNumber
<1>3. QED
  BY <1>2 DEF Oldest

\* A message is for a survey that is in progress, or for one that waits while none is.
LEMMA ActiveIs ==
  ASSUME NEW a \in SvAssign, Active(a)
  PROVE  /\ assignments[a].status \in {"pending", "in_progress"}
         /\ assignments[a].status = "pending" =>
              \A b \in SvAssign : assignments[b].status # "in_progress"
<1>1. CASE In("in_progress") # {}
  <2>1. In("in_progress") \subseteq SvAssign
    BY DEF In
  <2>2. a \in In("in_progress")
    BY <1>1, <2>1, OldestIsThere DEF Active
  <2>3. QED
    BY <2>2 DEF In
<1>2. CASE In("in_progress") = {}
  <2>1. In("pending") \subseteq SvAssign
    BY DEF In
  <2>2. a \in In("pending")
    BY <1>2, <2>1, OldestIsThere DEF Active
  <2>3. QED
    BY <1>2, <2>2 DEF In
<1>3. QED
  BY <1>1, <1>2

\* An answer more, in its place.
LEMMA OneMore ==
  ASSUME NEW idx \in 0..Count, NEW answers \in Seq(Given), Kept(idx, answers), NEW g \in AnswerKinds
  PROVE  /\ Append(answers, [q |-> idx, given |-> g]) \in Seq(Given)
         /\ Kept(idx + 1, Append(answers, [q |-> idx, given |-> g]))
         /\ Append(answers, [q |-> idx, given |-> g]) # answers
<1> DEFINE e == [q |-> idx, given |-> g]
           new == Append(answers, e)
<1>1. e \in Given /\ e.q = idx
  BY DEF Given
<1> HIDE DEF e
<1>2. new \in Seq(Given) /\ Len(new) = idx + 1
  BY <1>1 DEF Kept
<1>3. ASSUME NEW i \in DOMAIN new PROVE new[i].q = i - 1
  <2>1. CASE i = idx + 1
    BY <1>1, <2>1 DEF Kept
  <2>2. CASE i # idx + 1
    <3>1. i \in DOMAIN answers /\ new[i] = answers[i]
      BY <1>1, <1>2, <2>2 DEF Kept
    <3>2. QED
      BY <3>1 DEF Kept, InOrder
  <2>3. QED
    BY <2>1, <2>2
<1> HIDE DEF new
<1>4. new # answers
  BY <1>2 DEF Kept
<1>5. QED
  BY <1>2, <1>3, <1>4 DEF Kept, InOrder, new, e

\* At first there is nothing.
LEMMA SvInitOK == SvInit => SvInv
<1> SUFFICES ASSUME SvInit PROVE SvInv
  OBVIOUS
<1> USE QuestionsThere
<1>1. Unassigned \in SvRow /\ Kept(0, <<>>)
  BY DEF Unassigned, SvRow, Kept, InOrder
<1>2. SvTypeOK
  BY <1>1, SurveyAssumption DEF SvInit, SvTypeOK, None, NoTask
<1>3. RowsHold /\ SeenHold
  BY <1>1 DEF SvInit, RowsHold, SeenHold, None, NoTask, Unassigned, Busy
<1>4. ButtonsAreChoices /\ SurveysAlone
  BY DEF SvInit, ButtonsAreChoices, SurveysAlone, Busy, NoTask, None, Unassigned
<1>5. Fitting
  BY DEF SvInit, Fitting, Busy, NoTask, Unassigned
<1>6. QED
  BY <1>2, <1>3, <1>4, <1>5 DEF SvInv

-----------------------------------------------------------------------------
(* The steps *)

\* A task begins: it is told apart from the others, and the history says whether it was alone.
LEMMA StartHolds ==
  ASSUME SvInv, NEW t \in SvTask, NEW a \in SvAssign,
         NEW phase \in {"load", "save"}, NEW given \in AnswerKinds,
         StartTask(t, a, phase, given),
         \/ Active(a) /\ (phase = "load" <=> given = "photo")
              /\ (given = "photo" <=> Asked(assignments[a]) = "photo")
         \/ \E b \in buttons : /\ b[1] = a /\ assignments[a].status # "completed"
                               /\ given = "choice" /\ phase = "save"
  PROVE  SvInv'
<1> USE QuestionsThere
<1> DEFINE seen == IF phase = "load" THEN Unassigned ELSE assignments[a]
           v == [phase |-> phase, on |-> a, given |-> given, seen |-> seen]
<1>1. /\ svTasks[t].phase = "idle" /\ svLog.messages < MaxMessages
      /\ svTasks' = [svTasks EXCEPT ![t] = v]
      /\ UNCHANGED <<assignments, responses, buttons>>
  BY DEF StartTask
<1>2. /\ svLog' = [messages |-> svLog.messages + 1,
                   overlapped |-> svLog.overlapped \/ ~SvQuiet,
                   stale |-> svLog.stale \/ (/\ given = "choice"
                                            /\ <<a, assignments[a].idx>> \notin buttons)]
  BY DEF StartTask, SvInv, SvTypeOK
<1>3. seen \in SvRow /\ assignments[a] \in SvRow
  <2>1. Unassigned \in SvRow
    BY DEF Unassigned, SvRow
  <2>2. assignments[a] \in SvRow
    BY DEF SvInv, SvTypeOK
  <2>3. QED
    BY <2>1, <2>2
<1>4. SvTypeOK'
  <2>1. svTasks' \in [SvTask -> Task]
    <3> HIDE DEF seen
    <3>1. QED
      BY <1>1, <1>3 DEF SvInv, SvTypeOK, AnswerKinds, Task
  <2>2. svLog' \in [messages : 0..MaxMessages, overlapped : BOOLEAN, stale : BOOLEAN]
    <3> DEFINE ov == svLog.overlapped \/ ~SvQuiet
               st == svLog.stale \/ (given = "choice" /\ <<a, assignments[a].idx>> \notin buttons)
    <3>1. ov \in BOOLEAN /\ st \in BOOLEAN
      OBVIOUS
    <3>2. svLog' = [messages |-> svLog.messages + 1, overlapped |-> ov, stale |-> st]
      BY <1>2
    <3> HIDE DEF ov, st
    <3>3. QED
      BY <1>1, <3>1, <3>2, SurveyAssumption DEF SvInv, SvTypeOK
  <2>3. QED
    BY <1>1, <2>1, <2>2 DEF SvInv, SvTypeOK, AnswerKinds, Task
<1>5. RowsHold' /\ ButtonsAreChoices'
  BY <1>1 DEF SvInv, RowsHold, ButtonsAreChoices
<1>6. /\ svTasks'[t] = v
      /\ \A u \in SvTask : u # t => svTasks'[u] = svTasks[u]
  BY <1>1 DEF SvInv, SvTypeOK
<1>7. SeenHold'
  <2>1. phase = "save" => /\ Kept(v.seen.idx, v.seen.answers)
                          /\ v.seen.idx = Count \/ v.seen.status = "completed" =>
                               responses[a] # None
    BY DEF SvInv, RowsHold
  <2>2. QED
    BY <1>1, <1>6, <2>1 DEF SvInv, SeenHold, Busy
<1>8. ~svLog'.overlapped => ~svLog.overlapped /\ SvQuiet
  BY <1>2
<1>9. ~svLog'.stale => ~svLog.stale /\ (given = "choice" => <<a, assignments[a].idx>> \in buttons)
  BY <1>2
<1>10. ASSUME ~svLog'.overlapped PROVE SurveysAlone'
  <2>1. SurveysAlone /\ \A u \in SvTask : ~Busy(u)
    BY <1>8, <1>10 DEF SvInv, SvQuiet, Busy
  <2>2. AnswersAlone(t)'
    <3>1. \A u \in SvTask : Busy(u)' => u = t
      BY <1>6, <2>1 DEF Busy
    <3>2. assignments[a].status \in {"pending", "in_progress"}
      <4>1. CASE Active(a)
        BY <4>1, ActiveIs
      <4>2. CASE ~Active(a)
        BY <4>2, <2>1 DEF SurveysAlone
      <4>3. QED
        BY <4>1, <4>2
    <3>3. \A b \in SvAssign : assignments[b].status = "in_progress" => b = a
      <4>1. CASE Active(a)
        BY <4>1, <2>1, ActiveIs DEF SurveysAlone
      <4>2. CASE ~Active(a)
        BY <4>2, <2>1 DEF SurveysAlone
      <4>3. QED
        BY <4>1, <4>2
    <3>4. QED
      BY <1>1, <1>6, <3>1, <3>2, <3>3 DEF AnswersAlone
  <2>3. QED
    BY <1>1, <1>6, <2>1, <2>2 DEF SurveysAlone, Busy
<1>11. ASSUME ~svLog'.overlapped, ~svLog'.stale PROVE Fitting'
  <2>1. Fitting /\ \A u \in SvTask : ~Busy(u)
    BY <1>8, <1>9, <1>11 DEF SvInv, SvQuiet, Busy
  <2>2. given = "photo" <=> Asked(assignments[a]) = "photo"
    <3>1. CASE Active(a) /\ (given = "photo" <=> Asked(assignments[a]) = "photo")
      BY <3>1
    <3>2. CASE given = "choice"
      <4>1. <<a, assignments[a].idx>> \in buttons
        BY <3>2, <1>9, <1>11
      <4>2. QED
        BY <3>2, <4>1 DEF SvInv, ButtonsAreChoices, Asked
    <3>3. QED
      BY <3>1, <3>2
  <2>3. QED
    BY <1>1, <1>6, <2>1, <2>2 DEF Fitting, Busy
<1>12. QED
  BY <1>4, <1>5, <1>7, <1>10, <1>11 DEF SvInv

\* A message of each kind begins a task for a row that is not complete.
LEMMA MessageHolds ==
  ASSUME SvInv, NEW t \in SvTask, Text(t) \/ Photo(t) \/ Press(t)
  PROVE  SvInv'
<1>1. CASE Text(t)
  <2>1. PICK a \in SvAssign : /\ Active(a) /\ Asked(assignments[a]) \in {"text", "choice"}
                              /\ StartTask(t, a, "save", "text")
    BY <1>1 DEF Text
  <2>2. PICK phase \in {"load", "save"}, given \in AnswerKinds : phase = "save" /\ given = "text"
    BY DEF AnswerKinds
  <2>3. assignments[a].status # "completed"
    BY <2>1, ActiveIs
  <2>4. StartTask(t, a, phase, given)
    BY <2>1, <2>2
  <2>5. /\ phase = "load" <=> given = "photo"
        /\ given = "photo" <=> Asked(assignments[a]) = "photo"
    BY <2>1, <2>2
  <2>6. QED
    BY <2>1, <2>3, <2>4, <2>5, StartHolds
<1>2. CASE Photo(t)
  <2>1. PICK a \in SvAssign : /\ Active(a) /\ Asked(assignments[a]) = "photo"
                              /\ StartTask(t, a, "load", "photo")
    BY <1>2 DEF Photo
  <2>2. PICK phase \in {"load", "save"}, given \in AnswerKinds : phase = "load" /\ given = "photo"
    BY DEF AnswerKinds
  <2>3. StartTask(t, a, phase, given)
    BY <2>1, <2>2
  <2>4. /\ phase = "load" <=> given = "photo"
        /\ given = "photo" <=> Asked(assignments[a]) = "photo"
    BY <2>1, <2>2
  <2>5. QED
    BY <2>1, <2>2, <2>3, <2>4, StartHolds
<1>3. CASE Press(t)
  <2>1. PICK b \in buttons : /\ assignments[b[1]].status # "completed"
                             /\ StartTask(t, b[1], "save", "choice")
    BY <1>3 DEF Press
  <2>2. PICK phase \in {"load", "save"}, given \in AnswerKinds : phase = "save" /\ given = "choice"
    BY DEF AnswerKinds
  <2>3. PICK a \in SvAssign : a = b[1]
    BY DEF SvInv, SvTypeOK
  <2>4. StartTask(t, a, phase, given)
    BY <2>1, <2>2, <2>3
  <2>5. QED
    BY <2>1, <2>2, <2>3, <2>4, StartHolds
<1>4. QED
  BY <1>1, <1>2, <1>3

\* An assignment is given out: no task is at it, and no button belongs to it.
LEMMA AssignHolds ==
  ASSUME SvInv, NEW a \in SvAssign, AssignSurvey(a)
  PROVE  SvInv'
<1> USE QuestionsThere
<1>1. /\ assignments[a].status = "unassigned"
      /\ assignments' = [assignments EXCEPT ![a].status = "pending"]
      /\ UNCHANGED <<responses, svTasks, buttons, svLog>>
  BY DEF AssignSurvey
<1>2. /\ assignments'[a] = [assignments[a] EXCEPT !.status = "pending"]
      /\ \A b \in SvAssign : b # a => assignments'[b] = assignments[b]
      /\ DOMAIN assignments' = SvAssign
      /\ assignments' = [b \in SvAssign |-> assignments'[b]]
      /\ assignments[a] \in SvRow
  BY <1>1 DEF SvInv, SvTypeOK
<1>3. /\ assignments'[a] \in SvRow
      /\ assignments'[a].idx = assignments[a].idx
      /\ assignments'[a].answers = assignments[a].answers
      /\ assignments'[a].status = "pending"
  BY <1>2 DEF SvRow
<1>4. SvTypeOK'
  <2>1. assignments' \in [SvAssign -> SvRow]
    <3> HIDE DEF SvRow
    <3>1. QED
      BY <1>2, <1>3 DEF SvInv, SvTypeOK
  <2>2. QED
    BY <1>1, <2>1 DEF SvInv, SvTypeOK
<1>5. RowsHold' /\ SeenHold' /\ ButtonsAreChoices'
  BY <1>1, <1>2, <1>3 DEF SvInv, RowsHold, SeenHold, Busy, ButtonsAreChoices
<1>6. ASSUME ~svLog'.overlapped PROVE SurveysAlone'
  <2>1. SurveysAlone
    BY <1>1, <1>6 DEF SvInv
  <2>2. ASSUME NEW t \in SvTask, Busy(t) PROVE AnswersAlone(t)'
    <3>1. AnswersAlone(t) /\ svTasks[t].on # a /\ svTasks[t].on \in SvAssign
      BY <1>1, <2>1, <2>2 DEF SurveysAlone, AnswersAlone, SvInv, SeenHold
    <3>2. QED
      BY <1>1, <1>2, <1>3, <3>1 DEF AnswersAlone, Busy
  <2>3. QED
    BY <1>1, <1>2, <1>3, <2>1, <2>2 DEF SurveysAlone, Busy, SvInv, SvTypeOK
<1>7. ASSUME ~svLog'.overlapped, ~svLog'.stale PROVE Fitting'
  <2>1. Fitting
    BY <1>1, <1>7 DEF SvInv
  <2>2. \A b \in SvAssign : /\ assignments'[b].answers = assignments[b].answers
                            /\ assignments'[b].idx = assignments[b].idx
    BY <1>2, <1>3
  <2>3. \A t \in SvTask : Busy(t) =>
          Asked(assignments[svTasks[t].on])' = Asked(assignments[svTasks[t].on])
    BY <1>1, <2>2 DEF Asked, SvInv, SeenHold
  <2>4. QED
    BY <1>1, <2>1, <2>2, <2>3 DEF Fitting, Busy
<1>8. QED
  BY <1>1, <1>4, <1>5, <1>6, <1>7 DEF SvInv

\* What a task holds once it has read the row.
LEMMA ReadsTheRow ==
  ASSUME NEW k \in Task, NEW row
  PROVE  [k EXCEPT !.phase = "save", !.seen = row] =
           [phase |-> "save", on |-> k.on, given |-> k.given, seen |-> row]
<1> DEFINE u == [k EXCEPT !.phase = "save", !.seen = row]
           w == [phase |-> "save", on |-> k.on, given |-> k.given, seen |-> row]
<1>1. DOMAIN u = {"phase", "on", "given", "seen"} /\ DOMAIN w = {"phase", "on", "given", "seen"}
  BY DEF Task
<1>2. /\ u["phase"] = w["phase"] /\ u["on"] = w["on"] /\ u["given"] = w["given"]
      /\ u["seen"] = w["seen"]
  BY DEF Task
<1>3. /\ u = [x \in {"phase", "on", "given", "seen"} |-> u[x]]
      /\ w = [x \in {"phase", "on", "given", "seen"} |-> w[x]]
  BY <1>1, Zenon
<1> HIDE DEF u, w
<1>4. u = w
  BY <1>2, <1>3
<1>5. QED
  BY <1>4 DEF u, w

\* A photo's task reads the row, which nobody has touched if the task is alone.
LEMMA LoadHolds ==
  ASSUME SvInv, NEW t \in SvTask, LoadRow(t)
  PROVE  SvInv'
<1> USE QuestionsThere
<1> DEFINE k == svTasks[t]
           v == [phase |-> "save", on |-> k.on, given |-> k.given, seen |-> assignments[k.on]]
<1>1. /\ k.phase = "load"
      /\ svTasks' = [svTasks EXCEPT ![t].phase = "save", ![t].seen = assignments[k.on]]
      /\ UNCHANGED <<assignments, responses, buttons, svLog>>
  BY DEF LoadRow
<1>2. k.on \in SvAssign /\ Busy(t) /\ k.given \in AnswerKinds /\ assignments[k.on] \in SvRow
  BY <1>1 DEF SvInv, SeenHold, Busy, SvTypeOK, AnswerKinds
<1>3. svTasks' = [svTasks EXCEPT ![t] = v]
  <2>1. svTasks[t] \in Task
    BY DEF SvInv, SvTypeOK, Task, AnswerKinds
  <2>2. [k EXCEPT !.phase = "save", !.seen = assignments[k.on]] = v
    BY <2>1, ReadsTheRow, Zenon
  <2>3. svTasks' = [svTasks EXCEPT ![t] = [k EXCEPT !.phase = "save", !.seen = assignments[k.on]]]
    BY <1>1 DEF SvInv, SvTypeOK
  <2>4. QED
    BY <2>2, <2>3
<1>4. /\ svTasks'[t].phase = "save" /\ svTasks'[t].on = k.on /\ svTasks'[t].given = k.given
      /\ svTasks'[t].seen = assignments[k.on]
      /\ \A u \in SvTask : u # t => svTasks'[u] = svTasks[u]
  BY <1>3 DEF SvInv, SvTypeOK
<1>5. SvTypeOK'
  <2>1. v \in Task
    BY <1>2 DEF Task
  <2>2. svTasks \in [SvTask -> Task]
    BY DEF SvInv, SvTypeOK, AnswerKinds, Task
  <2> HIDE DEF v
  <2>3. svTasks' \in [SvTask -> Task]
    BY <1>3, <2>1, <2>2
  <2>4. QED
    BY <1>1, <2>3 DEF SvInv, SvTypeOK, AnswerKinds, Task
<1>6. RowsHold' /\ ButtonsAreChoices'
  BY <1>1 DEF SvInv, RowsHold, ButtonsAreChoices
<1>7. SeenHold'
  <2>1. /\ Kept(assignments[k.on].idx, assignments[k.on].answers)
        /\ \/ assignments[k.on].idx = Count
           \/ assignments[k.on].status = "completed"
           => responses[k.on] # None
    BY <1>2 DEF SvInv, RowsHold
  <2>2. QED
    BY <1>1, <1>2, <1>4, <2>1 DEF SvInv, SeenHold, Busy
<1>8. ASSUME ~svLog'.overlapped PROVE SurveysAlone'
  <2>1. SurveysAlone
    BY <1>1, <1>8 DEF SvInv
  <2>2. AnswersAlone(t)
    BY <1>2, <2>1 DEF SurveysAlone
  <2>3. AnswersAlone(t)'
    BY <1>1, <1>4, <2>2 DEF AnswersAlone, Busy
  <2>4. \A u \in SvTask : Busy(u)' => u = t
    BY <1>4, <2>2 DEF AnswersAlone, Busy
  <2>5. QED
    BY <1>1, <2>1, <2>3, <2>4 DEF SurveysAlone
<1>9. ASSUME ~svLog'.overlapped, ~svLog'.stale PROVE Fitting'
  <2>1. Fitting
    BY <1>1, <1>9 DEF SvInv
  <2>2. \A u \in SvTask : /\ Busy(u)' => Busy(u)
                          /\ svTasks'[u].given = svTasks[u].given
                          /\ svTasks'[u].on = svTasks[u].on
    BY <1>2, <1>4 DEF Busy
  <2>3. \A u \in SvTask : assignments'[svTasks'[u].on] = assignments[svTasks[u].on]
    BY <1>1, <2>2
  <2>4. ASSUME NEW u \in SvTask, Busy(u)'
        PROVE  (svTasks'[u].given = "photo") <=> (Asked(assignments[svTasks[u].on]) = "photo")
    BY <2>1, <2>2, <2>4 DEF Fitting
  <2>5. QED
    BY <1>1, <2>1, <2>3, <2>4 DEF Fitting, Asked
<1>10. QED
  BY <1>5, <1>6, <1>7, <1>8, <1>9 DEF SvInv

\* A task that ends without a trace leaves the others as they are.
LEMMA TaskEnds ==
  ASSUME SvInv, NEW t \in SvTask, svTasks' = [svTasks EXCEPT ![t] = NoTask],
         UNCHANGED <<assignments, responses, buttons, svLog>>
  PROVE  SvInv'
<1> USE QuestionsThere
<1>1. /\ svTasks'[t] = NoTask
      /\ \A u \in SvTask : u # t => svTasks'[u] = svTasks[u]
  BY DEF SvInv, SvTypeOK
<1>2. ~Busy(t)'
  BY <1>1 DEF Busy, NoTask
<1>3. SvTypeOK'
  <2>1. NoTask \in Task
    BY DEF NoTask, Unassigned, SvRow, AnswerKinds, Task
  <2>2. QED
    BY <2>1 DEF SvInv, SvTypeOK, AnswerKinds, Task
<1>4. RowsHold' /\ SeenHold' /\ ButtonsAreChoices'
  BY <1>1 DEF SvInv, RowsHold, SeenHold, ButtonsAreChoices, Busy, NoTask
<1>5. ~svLog'.overlapped => SurveysAlone'
  BY <1>1, <1>2 DEF SvInv, SurveysAlone, AnswersAlone, Busy
<1>6. ~svLog'.overlapped /\ ~svLog'.stale => Fitting'
  BY <1>1, <1>2 DEF SvInv, Fitting, Busy, Asked
<1>7. QED
  BY <1>3, <1>4, <1>5, <1>6 DEF SvInv

\* What is written over a row: the columns that are not what the task had read.
LEMMA MergeIs ==
  ASSUME NEW row \in SvRow, NEW seen \in SvRow, NEW s, NEW idx, NEW answers
  PROVE  Merge(row, seen, [status |-> s, idx |-> idx, answers |-> answers]) =
           [status |-> IF s = seen.status THEN row.status ELSE s,
            idx |-> IF idx = seen.idx THEN row.idx ELSE idx,
            answers |-> IF answers = seen.answers THEN row.answers ELSE answers]
<1> DEFINE new == [status |-> s, idx |-> idx, answers |-> answers]
           u == [c \in DOMAIN row |-> IF new[c] = seen[c] THEN row[c] ELSE new[c]]
           w == [status |-> IF s = seen.status THEN row.status ELSE s,
                 idx |-> IF idx = seen.idx THEN row.idx ELSE idx,
                 answers |-> IF answers = seen.answers THEN row.answers ELSE answers]
<1>1. DOMAIN row = {"status", "idx", "answers"}
  BY DEF SvRow
<1>2. DOMAIN u = {"status", "idx", "answers"} /\ DOMAIN w = {"status", "idx", "answers"}
  BY <1>1
<1>3. u["status"] = w["status"] /\ u["idx"] = w["idx"] /\ u["answers"] = w["answers"]
  BY <1>1 DEF SvRow
<1>4. /\ u = [c \in {"status", "idx", "answers"} |-> u[c]]
      /\ w = [c \in {"status", "idx", "answers"} |-> w[c]]
  BY <1>2, Zenon
<1> HIDE DEF u, w
<1>5. u = w
  BY <1>3, <1>4
<1>6. QED
  BY <1>5 DEF u, w, Merge

\* What Save does unless a second response breaks its transaction: the row gets an answer more
\* than what the task had read, and a status that depends on whether that was the last.
Saves(t, a, seen, row) ==
  /\ svTasks[t].phase = "save" /\ svTasks[t].on = a /\ svTasks[t].seen = seen
  /\ seen.idx < Count
  /\ seen.idx + 1 = Count => responses[a] = None
  /\ row.idx = seen.idx + 1
  /\ row.answers = Append(seen.answers, [q |-> seen.idx, given |-> svTasks[t].given])
  /\ row.answers \in Seq(Given) /\ Kept(row.idx, row.answers)
  /\ seen.idx + 1 = Count => row.status = "completed"
  /\ seen.idx + 1 < Count =>
       row.status = IF seen.status = "in_progress" THEN assignments[a].status ELSE "in_progress"
  /\ row \in SvRow
  /\ svTasks' = [svTasks EXCEPT ![t] = NoTask]
  /\ assignments' = [assignments EXCEPT ![a] = row]
  /\ responses' = IF seen.idx + 1 = Count THEN [responses EXCEPT ![a] = row.answers] ELSE responses
  /\ buttons' = IF seen.idx + 1 < Count /\ Asked(row) = "choice"
                  THEN buttons \cup {<<a, row.idx>>} ELSE buttons
  /\ UNCHANGED svLog

\* A task that saves ends without a trace, or saves.
LEMMA SaveDoes ==
  ASSUME SvInv, NEW t \in SvTask, Save(t)
  PROVE  \/ /\ svTasks' = [svTasks EXCEPT ![t] = NoTask]
            /\ UNCHANGED <<assignments, responses, buttons, svLog>>
         \/ \E a \in SvAssign, seen \in SvRow, row \in SvRow : Saves(t, a, seen, row)
<1> USE QuestionsThere
<1> DEFINE k == svTasks[t]
           seen == k.seen
           a == k.on
           new == Answered(k.seen, k.given)
           last == k.seen.idx + 1 >= Count
           ok == last => responses[k.on] = None
           answers == Append(seen.answers, [q |-> seen.idx, given |-> k.given])
           s == IF last THEN "completed" ELSE "in_progress"
<1>1. /\ k.phase = "save" /\ a \in SvAssign /\ k.given \in AnswerKinds /\ seen \in SvRow
      /\ seen.idx \in 0..Count /\ seen.answers \in Seq(Given)
      /\ Kept(seen.idx, seen.answers)
      /\ seen.idx = Count \/ seen.status = "completed" => responses[a] # None
      /\ assignments[a] \in SvRow
  <2>1. k.phase = "save" /\ Busy(t)
    BY DEF Save, Busy
  <2>2. k \in Task
    BY DEF SvInv, SvTypeOK, Task, AnswerKinds
  <2>3. a \in SvAssign /\ k.given \in AnswerKinds /\ seen \in SvRow
    BY <2>1, <2>2 DEF SvInv, SeenHold, Task
  <2>4. seen.idx \in 0..Count /\ seen.answers \in Seq(Given)
    BY <2>3 DEF SvRow, Given, AnswerKinds
  <2>5. /\ Kept(seen.idx, seen.answers)
        /\ seen.idx = Count \/ seen.status = "completed" => responses[a] # None
    BY <2>1 DEF SvInv, SeenHold
  <2>6. assignments[a] \in SvRow
    BY <2>3 DEF SvInv, SvTypeOK
  <2>7. QED
    BY <2>1, <2>3, <2>4, <2>5, <2>6
<1>2. /\ answers \in Seq(Given) /\ Kept(seen.idx + 1, answers) /\ answers # seen.answers
  BY <1>1, OneMore
<1>3. new = [status |-> s, idx |-> seen.idx + 1, answers |-> answers]
  BY DEF Answered
<1> DEFINE row == Merge(assignments[a], seen, new)
<1>4. row = [status |-> IF s = seen.status THEN assignments[a].status ELSE s,
             idx |-> seen.idx + 1, answers |-> answers]
  <2>1. seen.idx + 1 # seen.idx
    BY <1>1
  <2> HIDE DEF answers, s
  <2>2. Merge(assignments[a], seen, [status |-> s, idx |-> seen.idx + 1, answers |-> answers]) =
          [status |-> IF s = seen.status THEN assignments[a].status ELSE s,
           idx |-> IF seen.idx + 1 = seen.idx THEN assignments[a].idx ELSE seen.idx + 1,
           answers |-> IF answers = seen.answers THEN assignments[a].answers ELSE answers]
    <3> HIDE DEF a, seen
    <3>1. QED
      BY <1>1, MergeIs
  <2>3. QED
    BY <1>2, <1>3, <2>1, <2>2
<1>5. CASE ~ok
  BY <1>5 DEF Save
<1>6. CASE ok
  <2>1. seen.idx < Count /\ (last <=> seen.idx + 1 = Count) /\ (~last <=> seen.idx + 1 < Count)
    BY <1>1, <1>6
  <2>2. last => seen.status # "completed" /\ responses[a] = None
    BY <1>1, <1>6
  <2>3. /\ seen.idx + 1 = Count => row.status = "completed"
        /\ seen.idx + 1 < Count =>
             row.status = IF seen.status = "in_progress" THEN assignments[a].status
                          ELSE "in_progress"
        /\ row.idx = seen.idx + 1 /\ row.answers = answers
    <3> HIDE DEF row, answers
    <3>1. QED
      BY <1>4, <2>1, <2>2
  <2>4. row \in SvRow
    <3>1. assignments[a].status \in {"unassigned", "pending", "in_progress", "completed"}
      BY <1>1 DEF SvRow
    <3>2. row.status \in {"unassigned", "pending", "in_progress", "completed"}
      BY <2>1, <2>3, <3>1
    <3>3. row.idx \in 0..Count
      BY <1>1, <2>1, <2>3
    <3> HIDE DEF row
    <3>4. row = [status |-> row.status, idx |-> row.idx, answers |-> row.answers]
      BY <1>4
    <3>5. row.answers \in Seq(Given)
      BY <1>2, <2>3
    <3>6. QED
      BY <3>2, <3>3, <3>4, <3>5 DEF SvRow, Given, AnswerKinds
  <2>5. /\ assignments' = [assignments EXCEPT ![a] = row]
        /\ responses' = IF last THEN [responses EXCEPT ![a] = row.answers] ELSE responses
        /\ svTasks' = [svTasks EXCEPT ![t] = NoTask]
        /\ UNCHANGED svLog
        /\ buttons' = IF ~last /\ Asked(assignments'[a]) = "choice"
                        THEN buttons \cup {<<a, assignments'[a].idx>>} ELSE buttons
    <3>1. new.answers = row.answers
      <4> HIDE DEF row, answers
      <4>1. QED
        BY <1>3, <2>3
    <3>2. QED
      BY <1>6, <3>1, Zenon DEF Save
  <2>6. assignments'[a] = row
    BY <1>1, <2>5 DEF SvInv, SvTypeOK
  <2>7. Saves(t, a, seen, row)
    <3> HIDE DEF row, answers
    <3>1. /\ row.answers = Append(seen.answers, [q |-> seen.idx, given |-> k.given])
          /\ row.answers \in Seq(Given) /\ Kept(row.idx, row.answers)
      BY <1>2, <2>3 DEF answers
    <3>2. QED
      BY <1>1, <2>1, <2>2, <2>3, <2>4, <2>5, <2>6, <3>1 DEF Saves
  <2>8. QED
    BY <1>1, <2>4, <2>7
<1>7. QED
  BY <1>5, <1>6

\* An answer is saved, however late.
LEMMA SavedHolds ==
  ASSUME SvInv, NEW t \in SvTask, NEW a \in SvAssign, NEW seen \in SvRow, NEW row \in SvRow,
         Saves(t, a, seen, row)
  PROVE  SvInv'
<1>1. /\ svTasks[t].phase = "save" /\ svTasks[t].on = a /\ svTasks[t].seen = seen
      /\ svTasks' = [svTasks EXCEPT ![t] = NoTask]
      /\ assignments' = [assignments EXCEPT ![a] = row]
      /\ UNCHANGED svLog
      /\ seen.idx < Count /\ row.idx = seen.idx + 1
      /\ row.answers \in Seq(Given) /\ Kept(row.idx, row.answers)
  BY DEF Saves
<1> USE QuestionsThere
<1>2. /\ svTasks'[t] = NoTask /\ ~Busy(t)' /\ Busy(t)
      /\ \A u \in SvTask : u # t => svTasks'[u] = svTasks[u]
  BY <1>1 DEF SvInv, SvTypeOK, Busy, NoTask
<1>3. /\ assignments'[a] = row
      /\ \A b \in SvAssign : b # a => assignments'[b] = assignments[b]
  BY <1>1 DEF SvInv, SvTypeOK
<1>4. seen.idx \in Nat
  BY DEF SvRow
<1>5. /\ seen.idx + 1 = Count => /\ responses' = [responses EXCEPT ![a] = row.answers]
                                 /\ responses[a] = None
                                 /\ row.status = "completed"
      /\ seen.idx + 1 # Count => /\ UNCHANGED responses
                                 /\ seen.idx + 1 < Count
                                 /\ row.status = IF seen.status = "in_progress"
                                      THEN assignments[a].status ELSE "in_progress"
  BY <1>1, <1>4 DEF Saves
<1>6. /\ seen.idx + 1 = Count => responses'[a] = row.answers
      /\ \A b \in SvAssign : b # a => responses'[b] = responses[b]
      /\ seen.idx + 1 # Count => responses'[a] = responses[a]
  BY <1>5 DEF SvInv, SvTypeOK
<1>7. row.answers # None
  BY <1>1, <1>4 DEF Kept, None
<1>8. \A b \in SvAssign : responses[b] # None => responses'[b] # None
  BY <1>6, <1>7
<1>9. \A b \in buttons' : \/ b \in buttons
                          \/ /\ b = <<a, row.idx>> /\ row.idx < Count
                             /\ SvQuestions[row.idx + 1] = "choice"
  <2>1. buttons' = IF seen.idx + 1 < Count /\ Asked(row) = "choice"
                     THEN buttons \cup {<<a, row.idx>>} ELSE buttons
    BY DEF Saves
  <2>2. QED
    BY <1>1, <2>1 DEF Asked
<1>10. SvTypeOK'
  <2>1. assignments' \in [SvAssign -> SvRow]
    BY <1>1 DEF SvInv, SvTypeOK
  <2>2. responses' \in [SvAssign -> Seq(Given)]
    BY <1>1, <1>5 DEF SvInv, SvTypeOK, Given, AnswerKinds
  <2>3. svTasks' \in [SvTask -> Task]
    <3>1. NoTask \in Task
      BY DEF NoTask, Unassigned, SvRow, AnswerKinds, Task
    <3>2. QED
      BY <1>1, <3>1 DEF SvInv, SvTypeOK, Task, AnswerKinds
  <2>4. buttons' \subseteq SvAssign \X (0..Count)
    <3>1. <<a, row.idx>> \in SvAssign \X (0..Count)
      BY <1>1, <1>4
    <3>2. QED
      BY <1>9, <3>1 DEF SvInv, SvTypeOK
  <2>5. QED
    BY <1>1, <2>1, <2>2, <2>3, <2>4 DEF SvInv, SvTypeOK, Task, Given, AnswerKinds
<1>11. RowsHold'
  <2>1. ASSUME NEW b \in SvAssign, b # a
        PROVE  /\ Kept(assignments'[b].idx, assignments'[b].answers)
               /\ assignments'[b].idx = Count => assignments'[b].status = "completed"
               /\ assignments'[b].status = "completed" => responses'[b] # None
               /\ responses'[b] # None => Kept(Count, responses'[b])
    BY <2>1, <1>3, <1>6 DEF SvInv, RowsHold
  <2>2. /\ Kept(row.idx, row.answers)
        /\ row.idx = Count => row.status = "completed"
        /\ responses'[a] # None => Kept(Count, responses'[a])
    BY <1>1, <1>4, <1>5, <1>6 DEF SvInv, RowsHold
  <2>3. row.status = "completed" => responses'[a] # None
    BY <1>5, <1>6, <1>7, <1>8 DEF SvInv, RowsHold
  <2>4. QED
    BY <1>3, <2>1, <2>2, <2>3 DEF RowsHold
<1>12. SeenHold'
  BY <1>2, <1>8 DEF SvInv, SeenHold, Busy, NoTask
<1>13. ButtonsAreChoices'
  BY <1>9 DEF SvInv, ButtonsAreChoices
<1>14. ASSUME ~svLog'.overlapped PROVE SurveysAlone'
  <2>1. SurveysAlone /\ AnswersAlone(t)
    BY <1>1, <1>2, <1>14 DEF SvInv, SurveysAlone
  <2>2. \A u \in SvTask : ~Busy(u)'
    BY <1>2, <2>1 DEF AnswersAlone, Busy
  <2>3. seen = assignments[a] /\ \A b \in SvAssign : assignments[b].status = "in_progress" => b = a
    BY <1>1, <2>1 DEF AnswersAlone
  <2>4. row.status = IF seen.idx + 1 = Count THEN "completed" ELSE "in_progress"
    BY <1>5, <2>3
  <2>5. \A b \in SvAssign : responses'[b] # None => assignments'[b].status = "completed"
    <3>1. responses[a] = None
      BY <1>1, <2>1 DEF SurveysAlone, AnswersAlone
    <3>2. responses'[a] # None => seen.idx + 1 = Count
      BY <1>6, <3>1
    <3>3. QED
      BY <1>3, <1>6, <2>1, <2>4, <3>2 DEF SurveysAlone
  <2>6. \A b \in SvAssign : assignments'[b].status = "in_progress" => b = a
    BY <1>3, <2>3
  <2>7. ASSUME NEW b \in buttons' PROVE assignments'[b[1]].status \in {"in_progress", "completed"}
    <3>1. b[1] = a \/ (b \in buttons /\ b[1] \in SvAssign)
      BY <1>9 DEF SvInv, SvTypeOK
    <3>2. QED
      BY <1>3, <2>1, <2>4, <3>1 DEF SurveysAlone
  <2>8. QED
    BY <2>2, <2>5, <2>6, <2>7 DEF SurveysAlone
<1>15. ASSUME ~svLog'.overlapped, ~svLog'.stale PROVE Fitting'
  <2>1. Fitting /\ SurveysAlone /\ AnswersAlone(t)
    BY <1>1, <1>2, <1>15 DEF SvInv, SurveysAlone
  <2>2. \A u \in SvTask : ~Busy(u)'
    BY <1>2, <2>1 DEF AnswersAlone, Busy
  <2>3. seen = assignments[a]
    BY <1>1, <2>1 DEF AnswersAlone
  <2> DEFINE given == svTasks[t].given
             e == [q |-> seen.idx, given |-> given]
  <2>4. row.answers = Append(seen.answers, e) /\ e.given = given
    BY DEF Saves
  <2>5. given = "photo" <=> SvQuestions[seen.idx + 1] = "photo"
    BY <1>1, <1>2, <2>1, <2>3 DEF Fitting, Asked
  <2>6. Len(seen.answers) = seen.idx /\ seen.answers \in Seq(Given)
    BY <2>3 DEF SvInv, RowsHold, Kept, SvTypeOK, SvRow, Given, AnswerKinds
  <2>7. e \in Given
    BY <1>2 DEF SvInv, SvTypeOK, Given, AnswerKinds, SvRow
  <2>8. ASSUME NEW i \in DOMAIN row.answers
        PROVE  row.answers[i].given = "photo" <=> SvQuestions[i] = "photo"
    <3> HIDE DEF e, given
    <3>1. CASE i = seen.idx + 1
      BY <2>4, <2>5, <2>6, <2>7, <3>1
    <3>2. CASE i # seen.idx + 1
      <4>1. i \in DOMAIN seen.answers /\ row.answers[i] = seen.answers[i]
        BY <2>4, <2>6, <2>7, <3>2
      <4>2. QED
        BY <2>1, <2>3, <4>1 DEF Fitting
    <3>3. QED
      BY <3>1, <3>2
  <2>9. QED
    BY <1>3, <2>1, <2>2, <2>8 DEF Fitting
<1>16. QED
  BY <1>10, <1>11, <1>12, <1>13, <1>14, <1>15 DEF SvInv

\* Every step keeps the invariant.
LEMMA SvNextOK == SvInv /\ [SvNext]_svVars => SvInv'
<1> SUFFICES ASSUME SvInv, [SvNext]_svVars PROVE SvInv'
  OBVIOUS
<1>1. ASSUME NEW a \in SvAssign, AssignSurvey(a) PROVE SvInv'
  BY <1>1, AssignHolds
<1>2. ASSUME NEW t \in SvTask, Text(t) \/ Photo(t) \/ Press(t) PROVE SvInv'
  BY <1>2, MessageHolds
<1>3. ASSUME NEW t \in SvTask, LoadRow(t) PROVE SvInv'
  BY <1>3, LoadHolds
<1>4. ASSUME NEW t \in SvTask, PhotoFails(t) PROVE SvInv'
  BY <1>4, TaskEnds DEF PhotoFails
<1>5. ASSUME NEW t \in SvTask, Save(t) PROVE SvInv'
  BY <1>5, SaveDoes, TaskEnds, SavedHolds
<1>6. CASE UNCHANGED svVars
  <2>1. UNCHANGED <<assignments, responses, svTasks, buttons, svLog>>
    BY <1>6 DEF svVars
  <2>2. SvTypeOK' /\ RowsHold' /\ SeenHold' /\ ButtonsAreChoices'
    BY <2>1 DEF SvInv, SvTypeOK, RowsHold, SeenHold, ButtonsAreChoices, Busy
  <2>3. ~svLog'.overlapped => SurveysAlone'
    BY <2>1 DEF SvInv, SurveysAlone, AnswersAlone, Busy
  <2>4. ~svLog'.overlapped /\ ~svLog'.stale => Fitting'
    BY <2>1 DEF SvInv, Fitting, Busy, Asked
  <2>5. QED
    BY <2>2, <2>3, <2>4 DEF SvInv
<1>7. QED
  BY <1>1, <1>2, <1>3, <1>4, <1>5, <1>6 DEF SvNext

-----------------------------------------------------------------------------

\* What the invariant says of the answers.
LEMMA AnswersFollow == SvInv => AnswersKept
<1> SUFFICES ASSUME SvInv PROVE AnswersKept
  OBVIOUS
<1>1. AnswersInOrder /\ ResponseComplete
  BY DEF SvInv, RowsHold, Kept, AnswersInOrder, ResponseComplete
<1>2. ASSUME ~svLog.overlapped PROVE Cardinality(In("in_progress")) <= 1
  <2>1. \A a, b \in In("in_progress") : a = b
    BY <1>2 DEF SvInv, SurveysAlone, In
  <2>2. CASE In("in_progress") = {}
    BY <2>2, FS_EmptySet
  <2>3. CASE In("in_progress") # {}
    <3>1. PICK a : In("in_progress") = {a}
      BY <2>1, <2>3
    <3>2. QED
      BY <3>1, FS_Singleton
  <2>4. QED
    BY <2>2, <2>3
<1>3. StaysCompleted /\ AnswersFit
  BY <1>2 DEF SvInv, SurveysAlone, Fitting, StaysCompleted, AnswersFit
<1>4. QED
  BY <1>1, <1>3 DEF AnswersKept

\* For any survey, any number of tasks and messages, the rows, the responses and the tasks have
\* their types, and no position lies past the last question.
THEOREM SurveyTypeCorrect == SvSpec => []SvTypeOK
<1>1. SvInv => SvTypeOK
  BY DEF SvInv
<1>2. QED
  BY <1>1, SvInitOK, SvNextOK, PTL DEF SvSpec

\* For any survey, any number of tasks and messages, the answers and the responses are kept as
\* AnswersKept has it: in order and complete however tasks overlap and fall behind; completed
\* for good, and fitting their questions, while they do not.
THEOREM SurveysAreKept == SvSpec => []AnswersKept
BY AnswersFollow, SvInitOK, SvNextOK, PTL DEF SvSpec

-----------------------------------------------------------------------------
(***************************************************************************)
(* AuditPipeline. An extraction adds mentions to the graph for messages it *)
(* read before it asked the model. The invariant counts, for each message, *)
(* its mentions and the replicas that still hold it, which together are no *)
(* more than there are replicas (MentionsInHand); while jobs have not      *)
(* overlapped no held message is marked (JobsAlone). The total of the      *)
(* mentions is a recursive function, of which the proofs use that it grows *)
(* with its terms.                                                         *)
(***************************************************************************)

(* The sum of the mentions *)

\* Mentions, of any numbers.
MentionsOf(m) ==
  LET To[n \in 0..MaxPrompts] == IF n = 0 THEN 0 ELSE To[n - 1] + m[n]
  IN To[MaxPrompts]

\* f adds up m, up to n.
AddsUp(f, m, n) ==
  /\ f \in [0..n -> Nat]
  /\ \A i \in 0..n : f[i] = IF i = 0 THEN 0 ELSE f[i - 1] + m[i]

\* There is a function that adds up.
LEMMA SumThere ==
  ASSUME NEW m \in [Prompt -> Nat]
  PROVE  \E f : AddsUp(f, m, MaxPrompts)
<1> DEFINE T == {n \in 0..MaxPrompts : ~ \E f : AddsUp(f, m, n)}
<1>1. CASE T = {}
  BY <1>1, AuditAssumption
<1>2. CASE T # {}
  <2>1. T \subseteq Nat
    OBVIOUS
  <2>2. PICK k \in T : \A n \in T : k <= n
    <3> HIDE DEF T
    <3>1. QED
      BY <1>2, <2>1, LeastNumber
  <2>3. k # 0
    <3>1. AddsUp([i \in 0..0 |-> 0], m, 0)
      BY DEF AddsUp
    <3>2. QED
      BY <2>2, <3>1
  <2>4. k - 1 \in 0..MaxPrompts /\ k - 1 \notin T /\ k \in Prompt
    BY <2>2, <2>3, AuditAssumption DEF Prompt
  <2>5. PICK f : AddsUp(f, m, k - 1)
    BY <2>4
  <2> DEFINE g == [i \in 0..k |-> IF i = k THEN f[k - 1] + m[k] ELSE f[i]]
  <2>6. g \in [0..k -> Nat]
    BY <2>4, <2>5 DEF AddsUp, Prompt
  <2>7. ASSUME NEW i \in 0..k PROVE g[i] = IF i = 0 THEN 0 ELSE g[i - 1] + m[i]
    BY <2>3, <2>4, <2>5 DEF AddsUp, Prompt
  <2>8. AddsUp(g, m, k)
    BY <2>6, <2>7 DEF AddsUp
  <2>9. QED
    BY <2>2, <2>8
<1>3. QED
  BY <1>1, <1>2

\* Mentions is what such a function comes to.
LEMMA MentionsAddUp ==
  ASSUME NEW m \in [Prompt -> Nat]
  PROVE  \E f : AddsUp(f, m, MaxPrompts) /\ MentionsOf(m) = f[MaxPrompts]
<1> DEFINE all == CHOOSE f : f = [n \in 0..MaxPrompts |-> IF n = 0 THEN 0 ELSE f[n - 1] + m[n]]
<1>1. MentionsOf(m) = all[MaxPrompts]
  BY DEF MentionsOf
<1>2. PICK f : AddsUp(f, m, MaxPrompts)
  BY SumThere
<1>3. f = [n \in 0..MaxPrompts |-> IF n = 0 THEN 0 ELSE f[n - 1] + m[n]]
  BY <1>2 DEF AddsUp
<1>4. all = [n \in 0..MaxPrompts |-> IF n = 0 THEN 0 ELSE all[n - 1] + m[n]]
  BY <1>3
<1>5. ASSUME NEW g, g = [n \in 0..MaxPrompts |-> IF n = 0 THEN 0 ELSE g[n - 1] + m[n]]
      PROVE  AddsUp(g, m, MaxPrompts)
  <2> DEFINE T == {n \in 0..MaxPrompts : g[n] \notin Nat}
  <2>1. CASE T = {}
    BY <1>5, <2>1 DEF AddsUp
  <2>2. CASE T # {}
    <3>1. PICK k \in T : \A n \in T : k <= n
      <4>1. T \subseteq Nat
        OBVIOUS
      <4> HIDE DEF T
      <4>2. QED
        BY <2>2, <4>1, LeastNumber
    <3>2. g[k] = IF k = 0 THEN 0 ELSE g[k - 1] + m[k]
      BY <1>5
    <3>3. k # 0 => k \in Prompt /\ k - 1 \in 0..MaxPrompts /\ k - 1 \notin T
      BY <3>1, AuditAssumption DEF Prompt
    <3>4. QED
      BY <3>1, <3>2, <3>3
  <2>3. QED
    BY <2>1, <2>2
<1> HIDE DEF all
<1>6. AddsUp(all, m, MaxPrompts)
  BY <1>4, <1>5
<1>7. QED
  BY <1>1, <1>6

\* The more mentions of each, the more mentions.
LEMMA MentionsGrow ==
  ASSUME NEW m \in [Prompt -> Nat], NEW w \in [Prompt -> Nat],
         \A p \in Prompt : m[p] <= w[p]
  PROVE  /\ MentionsOf(m) \in Nat /\ MentionsOf(w) \in Nat
         /\ MentionsOf(m) <= MentionsOf(w)
<1>1. PICK f : AddsUp(f, m, MaxPrompts) /\ MentionsOf(m) = f[MaxPrompts]
  BY MentionsAddUp
<1>2. PICK g : AddsUp(g, w, MaxPrompts) /\ MentionsOf(w) = g[MaxPrompts]
  BY MentionsAddUp
<1> DEFINE T == {n \in 0..MaxPrompts : ~(f[n] <= g[n])}
<1>3. CASE T = {}
  <2>1. MaxPrompts \in 0..MaxPrompts /\ MaxPrompts \notin T
    BY <1>3, AuditAssumption
  <2>2. QED
    BY <1>1, <1>2, <2>1 DEF AddsUp
<1>4. CASE T # {}
  <2>1. PICK k \in T : \A n \in T : k <= n
    <3>1. T \subseteq Nat
      OBVIOUS
    <3> HIDE DEF T
    <3>2. QED
      BY <1>4, <3>1, LeastNumber
  <2>2. /\ f[k] = IF k = 0 THEN 0 ELSE f[k - 1] + m[k]
        /\ g[k] = IF k = 0 THEN 0 ELSE g[k - 1] + w[k]
    BY <1>1, <1>2 DEF AddsUp
  <2>3. k # 0 => k \in Prompt /\ k - 1 \in 0..MaxPrompts /\ k - 1 \notin T
    BY <2>1, AuditAssumption DEF Prompt
  <2>4. k # 0 => /\ m[k] \in Nat /\ w[k] \in Nat /\ m[k] <= w[k]
                 /\ f[k - 1] \in Nat /\ g[k - 1] \in Nat /\ f[k - 1] <= g[k - 1]
    BY <2>3, <1>1, <1>2 DEF AddsUp
  <2>5. QED
    BY <2>1, <2>2, <2>4
<1>5. QED
  BY <1>3, <1>4

-----------------------------------------------------------------------------
(* The inductive invariant *)

Job == [job : {"idle", "audit", "ask", "store", "count"}, seen : SUBSET Prompt,
        found : SUBSET Prompt, row : BOOLEAN, ok : BOOLEAN, count : Nat]

Fields == {"job", "seen", "found", "row", "ok", "count"}

Extracting(w) == w.job \in {"ask", "store"}

\* What a job holds is there: an audit's messages are written and no more than the script
\* prints, an extraction's are stored, and a count is not ahead of the mentions.
JobHolds(w) ==
  /\ w.job = "audit" => w.seen \subseteq 1..written /\ Cardinality(w.seen) <= Window
  /\ Extracting(w) => w.seen \subseteq convs
  /\ w.job = "count" => w.count <= Mentions

JobsHold == \A r \in PpReplica : JobHolds(ppJob[r])

\* The replicas that extract message p.
Holding(p) == {r \in PpReplica : Extracting(ppJob[r]) /\ p \in ppJob[r].seen}

\* Only a message that is marked is mentioned, and while replicas extract it again, its mentions
\* and they come to no more than all replicas.
MentionsInHand ==
  \A p \in Prompt :
    /\ p \notin marked => graph.mentions[p] = 0
    /\ p \in marked => graph.mentions[p] + Cardinality(Holding(p)) <= Cardinality(PpReplica)

\* Jobs that do not overlap: there is one, and what it extracts nobody has marked.
JobsAlone ==
  /\ \A r, q \in PpReplica : ppJob[r].job # "idle" /\ ppJob[q].job # "idle" => r = q
  /\ \A r \in PpReplica : Extracting(ppJob[r]) => ppJob[r].seen \cap marked = {}
  /\ \A p \in Prompt : graph.mentions[p] <= 1

PpInv ==
  /\ PpTypeOK
  /\ JobsHold
  /\ FlaggedWhenStored
  /\ ExtractedIsMentioned
  /\ MentionsInHand
  /\ ~ppLog.overlapped => JobsAlone
  /\ SnapshotNotAhead

-----------------------------------------------------------------------------

\* What a job holds stays there while nothing is taken away.
LEMMA JobsStay ==
  ASSUME NEW w, JobHolds(w), written \in Nat, written' \in Nat, written <= written',
         convs \subseteq convs', Mentions \in Nat, Mentions' \in Nat, Mentions <= Mentions',
         w \in Job
  PROVE  JobHolds(w)'
<1>1. w.count \in Nat
  BY DEF Job
<1>2. 1..written \subseteq 1..written'
  OBVIOUS
<1>3. QED
  BY <1>1, <1>2 DEF JobHolds, Extracting

\* There are as many replicas as extract a message, or more.
LEMMA HoldingIsFinite ==
  ASSUME NEW p
  PROVE  /\ IsFiniteSet(Holding(p)) /\ Cardinality(Holding(p)) \in Nat
         /\ Cardinality(PpReplica) \in Nat
         /\ Cardinality(Holding(p)) <= Cardinality(PpReplica)
<1>1. Holding(p) \in SUBSET PpReplica
  BY DEF Holding
<1>2. IsFiniteSet(PpReplica)
  BY AuditAssumption
<1> HIDE DEF Holding
<1>3. QED
  BY <1>1, <1>2, FS_Subset, FS_CardinalityType

\* The mentions are a number.
LEMMA MentionsType ==
  ASSUME PpInv
  PROVE  Mentions \in Nat /\ graph.mentions \in [Prompt -> Nat]
<1>1. graph.mentions \in [Prompt -> Nat] /\ Mentions = MentionsOf(graph.mentions)
  BY DEF PpInv, PpTypeOK, Mentions, MentionsOf
<1>2. QED
  BY <1>1, MentionsGrow

\* Idle replicas hold nothing.
LEMMA IdleHolds ==
  /\ PpIdle \in Job /\ PpIdle.job = "idle" /\ ~Extracting(PpIdle)
  /\ JobHolds(PpIdle)
BY DEF PpIdle, Job, Extracting, JobHolds

\* At first there is nothing.
LEMMA PpInitOK == PpInit => PpInv
<1> SUFFICES ASSUME PpInit PROVE PpInv
  OBVIOUS
<1>1. PpTypeOK
  BY AuditAssumption, IdleHolds DEF PpInit, PpTypeOK, NoneYet, Job
<1>2. JobsHold /\ JobsAlone
  BY IdleHolds DEF PpInit, JobsHold, JobsAlone
<1>3. FlaggedWhenStored /\ ExtractedIsMentioned /\ MentionsInHand
  BY AuditAssumption DEF PpInit, FlaggedWhenStored, ExtractedIsMentioned, MentionsInHand
<1>4. SnapshotNotAhead
  <2>1. graph.mentions \in [Prompt -> Nat] /\ Mentions = MentionsOf(graph.mentions)
    BY DEF PpInit, Mentions, MentionsOf
  <2>2. Mentions \in Nat
    BY <2>1, MentionsGrow
  <2>3. QED
    BY <2>2 DEF PpInit, SnapshotNotAhead
<1>5. QED
  BY <1>1, <1>2, <1>3, <1>4 DEF PpInv

-----------------------------------------------------------------------------
(* The steps *)

\* A message more, written by the user.
LEMMA WriteHolds ==
  ASSUME PpInv, UserWrites
  PROVE  PpInv'
<1>1. /\ written' = written + 1 /\ written < MaxPrompts
      /\ UNCHANGED <<convs, marked, summary, flags, graph, snapshot, ppJob, ppLog>>
  BY DEF UserWrites
<1>2. written \in Nat /\ written' \in 0..MaxPrompts /\ 1..written \subseteq 1..written'
  BY <1>1, AuditAssumption DEF PpInv, PpTypeOK
<1>3. PpTypeOK'
  BY <1>1, <1>2 DEF PpInv, PpTypeOK
<1>4. Mentions' = Mentions /\ Mentions \in Nat
  BY <1>1, MentionsType DEF Mentions
<1>5. JobsHold'
  <2>1. ASSUME NEW r \in PpReplica PROVE JobHolds(ppJob[r])'
    <3>1. ppJob[r] \in Job /\ JobHolds(ppJob[r])
      BY DEF PpInv, PpTypeOK, Job, JobsHold
    <3>2. QED
      BY <1>1, <1>2, <3>1 DEF JobHolds, Extracting, Mentions
  <2>2. QED
    BY <2>1 DEF JobsHold
<1>6. FlaggedWhenStored' /\ ExtractedIsMentioned'
  BY <1>1 DEF PpInv, FlaggedWhenStored, ExtractedIsMentioned
<1>7. MentionsInHand' /\ (~ppLog'.overlapped => JobsAlone')
  BY <1>1 DEF PpInv, MentionsInHand, Holding, JobsAlone, Extracting
<1>8. SnapshotNotAhead'
  BY <1>1, <1>4 DEF PpInv, SnapshotNotAhead
<1>9. QED
  BY <1>3, <1>5, <1>6, <1>7, <1>8 DEF PpInv

\* A job begins: it holds what is there, and an extraction takes what nobody has marked.
LEMMA LaunchHolds ==
  ASSUME PpInv, NEW r \in PpReplica, NEW w \in Job, Launch(r, w), JobHolds(w),
         w.job # "idle", Extracting(w) => w.seen \cap marked = {},
         UNCHANGED <<written, convs, marked, summary, flags, graph, snapshot>>
  PROVE  PpInv'
<1> DEFINE over == ppLog.overlapped \/ ~PpQuiet
<1>1. /\ ppJob[r].job = "idle" /\ ppLog.runs < MaxRuns
      /\ ppJob' = [ppJob EXCEPT ![r] = w]
      /\ ppLog' = [ppLog EXCEPT !.runs = @ + 1, !.overlapped = over]
  BY DEF Launch
<1>2. ppJob' \in [PpReplica -> Job] /\ ppJob'[r] = w
      /\ \A q \in PpReplica : q # r => ppJob'[q] = ppJob[q]
  BY <1>1 DEF PpInv, PpTypeOK, Job
<1>3. /\ ppLog'.overlapped = over /\ ppLog'.unanswered = ppLog.unanswered
      /\ ppLog' \in [runs : 0..MaxRuns, overlapped : BOOLEAN, unanswered : SUBSET Prompt]
  <2>1. over \in BOOLEAN
    OBVIOUS
  <2>2. /\ ppLog \in [runs : 0..MaxRuns, overlapped : BOOLEAN, unanswered : SUBSET Prompt]
        /\ ppLog.runs + 1 \in 0..MaxRuns
    BY <1>1, AuditAssumption DEF PpInv, PpTypeOK
  <2> HIDE DEF over
  <2>3. QED
    BY <1>1, <2>1, <2>2
<1>4. PpTypeOK'
  <2>1. written' = written /\ convs' = convs /\ marked' = marked /\ summary' = summary
        /\ flags' = flags /\ graph' = graph /\ snapshot' = snapshot
    OBVIOUS
  <2>2. QED
    BY <1>2, <1>3, <2>1 DEF PpInv, PpTypeOK, Job
<1>5. JobsHold'
  <2>1. \A x : JobHolds(x) => JobHolds(x)'
    BY DEF JobHolds, Extracting, Mentions
  <2>2. QED
    BY <1>2, <2>1 DEF PpInv, JobsHold
<1>6. FlaggedWhenStored' /\ ExtractedIsMentioned' /\ SnapshotNotAhead'
  BY <1>3 DEF PpInv, FlaggedWhenStored, ExtractedIsMentioned, SnapshotNotAhead, Mentions
<1>7. MentionsInHand'
  <2>1. ASSUME NEW p \in Prompt, p \in marked
        PROVE  (graph.mentions[p] + Cardinality(Holding(p)) <= Cardinality(PpReplica))'
    <3>1. CASE ~(Extracting(w) /\ p \in w.seen)
      <4>1. Holding(p)' \subseteq Holding(p) /\ Holding(p) \subseteq Holding(p)'
        BY <1>1, <1>2, <3>1 DEF Holding, Extracting
      <4>2. Holding(p)' = Holding(p)
        BY <4>1
      <4>3. QED
        BY <2>1, <4>2 DEF PpInv, MentionsInHand
    <3>2. CASE Extracting(w) /\ p \in w.seen
      <4>1. FALSE
        BY <2>1, <3>2
      <4>2. QED
        BY <4>1
    <3>3. QED
      BY <3>1, <3>2
  <2>2. QED
    BY <2>1 DEF PpInv, MentionsInHand
<1>8. ASSUME ~ppLog'.overlapped PROVE JobsAlone'
  <2>1. JobsAlone /\ \A q \in PpReplica : ppJob[q].job = "idle"
    BY <1>3, <1>8 DEF PpInv, PpQuiet
  <2>2. \A q \in PpReplica : ppJob'[q].job # "idle" => q = r
    BY <1>2, <2>1
  <2>3. \A q \in PpReplica : Extracting(ppJob[q])' => ppJob'[q].seen \cap marked' = {}
    BY <1>2, <2>1 DEF Extracting
  <2>4. QED
    BY <2>1, <2>2, <2>3 DEF JobsAlone
<1>9. QED
  BY <1>4, <1>5, <1>6, <1>7, <1>8 DEF PpInv

\* What the jobs begin with.
LEMMA BeginHolds ==
  ASSUME PpInv, NEW r \in PpReplica,
         BeginAudit(r) \/ BeginExtraction(r) \/ BeginSnapshot(r)
  PROVE  PpInv'
<1>1. /\ written \in 0..MaxPrompts /\ convs \subseteq 1..written /\ 1..written \subseteq Prompt
      /\ summary.there \in BOOLEAN /\ snapshot.there \in BOOLEAN
      /\ Window \in Nat /\ written \in Nat
  BY AuditAssumption DEF PpInv, PpTypeOK, Prompt
<1>2. CASE BeginAudit(r)
  <2> DEFINE w == [job |-> "audit", seen |-> LastMessages, found |-> convs,
                   row |-> summary.there, ok |-> FALSE, count |-> 0]
  <2>1. /\ Launch(r, [PpIdle EXCEPT !.job = "audit", !.seen = LastMessages, !.found = convs,
                                    !.row = summary.there])
        /\ UNCHANGED <<written, convs, marked, summary, flags, graph, snapshot>>
    BY <1>2 DEF BeginAudit
  <2>2. Launch(r, w)
    <3> DEFINE u == [PpIdle EXCEPT !.job = "audit", !.seen = LastMessages, !.found = convs,
                         !.row = summary.there]
    <3>1. DOMAIN u = Fields /\ DOMAIN w = Fields
      BY DEF PpIdle, Fields
    <3>2. /\ u["job"] = w["job"] /\ u["seen"] = w["seen"] /\ u["found"] = w["found"]
          /\ u["row"] = w["row"] /\ u["ok"] = w["ok"] /\ u["count"] = w["count"]
      BY DEF PpIdle
    <3>3. u = [x \in Fields |-> u[x]] /\ w = [x \in Fields |-> w[x]]
      BY <3>1, Zenon
    <3>4. u = w
      <4> HIDE DEF u, w
      <4>1. QED
        BY <3>2, <3>3 DEF Fields
    <3>5. QED
      BY <2>1, <3>4, Zenon
  <2>3. LastMessages \subseteq 1..written /\ Cardinality(LastMessages) <= Window
    <3> DEFINE I == (IF written > Window THEN written - Window + 1 ELSE 1)..written
    <3>1. LastMessages \in SUBSET I
      BY <1>1 DEF LastMessages
    <3>2. IsFiniteSet(I) /\ Cardinality(I) <= Window
      <4>1. PICK lo \in Int : lo = IF written > Window THEN written - Window + 1 ELSE 1
        <5>1. (IF written > Window THEN written - Window + 1 ELSE 1) \in Int
          BY <1>1
        <5>2. QED
          BY <5>1, Zenon
      <4>2. IsFiniteSet(lo..written)
            /\ Cardinality(lo..written) = IF lo > written THEN 0 ELSE written - lo + 1
        BY <1>1, FS_Interval
      <4>3. I = lo..written
        BY <4>1
      <4>4. (IF lo > written THEN 0 ELSE written - lo + 1) <= Window
        BY <1>1, <4>1
      <4> HIDE DEF I
      <4>5. QED
        BY <4>2, <4>3, <4>4
    <3>3. Cardinality(LastMessages) <= Cardinality(I) /\ IsFiniteSet(LastMessages)
      BY <3>1, <3>2, FS_Subset
    <3>4. Cardinality(LastMessages) \in Nat /\ Cardinality(I) \in Nat
      BY <3>2, <3>3, FS_CardinalityType
    <3>5. QED
      BY <1>1, <3>2, <3>3, <3>4 DEF LastMessages
  <2>4. w \in Job /\ JobHolds(w) /\ ~Extracting(w) /\ w.job # "idle"
    <3> HIDE DEF LastMessages
    <3>1. QED
      BY <1>1, <2>3 DEF Job, JobHolds, Extracting
  <2> HIDE DEF w
  <2>5. QED
    BY <2>1, <2>2, <2>4, LaunchHolds
<1>3. CASE BeginExtraction(r)
  <2> DEFINE w == [job |-> "ask", seen |-> convs \ marked, found |-> {}, row |-> FALSE,
                   ok |-> FALSE, count |-> 0]
  <2>1. /\ Launch(r, [PpIdle EXCEPT !.job = "ask", !.seen = convs \ marked])
        /\ UNCHANGED <<written, convs, marked, summary, flags, graph, snapshot>>
    BY <1>3 DEF BeginExtraction
  <2>2. Launch(r, w)
    <3> DEFINE u == [PpIdle EXCEPT !.job = "ask", !.seen = convs \ marked]
    <3>1. DOMAIN u = Fields /\ DOMAIN w = Fields
      BY DEF PpIdle, Fields
    <3>2. /\ u["job"] = w["job"] /\ u["seen"] = w["seen"] /\ u["found"] = w["found"]
          /\ u["row"] = w["row"] /\ u["ok"] = w["ok"] /\ u["count"] = w["count"]
      BY DEF PpIdle
    <3>3. u = [x \in Fields |-> u[x]] /\ w = [x \in Fields |-> w[x]]
      BY <3>1, Zenon
    <3>4. u = w
      <4> HIDE DEF u, w
      <4>1. QED
        BY <3>2, <3>3 DEF Fields
    <3>5. QED
      BY <2>1, <3>4, Zenon
  <2>3. w \in Job /\ JobHolds(w) /\ w.job # "idle" /\ w.seen \cap marked = {}
    BY <1>1 DEF Job, JobHolds, Extracting
  <2> HIDE DEF w
  <2>4. QED
    BY <2>1, <2>2, <2>3, LaunchHolds
<1>4. CASE BeginSnapshot(r)
  <2> DEFINE w == [job |-> "count", seen |-> {}, found |-> {}, row |-> snapshot.there,
                   ok |-> FALSE, count |-> Mentions]
  <2>1. /\ Launch(r, [PpIdle EXCEPT !.job = "count", !.count = Mentions, !.row = snapshot.there])
        /\ UNCHANGED <<written, convs, marked, summary, flags, graph, snapshot>>
    BY <1>4 DEF BeginSnapshot
  <2>2. Launch(r, w)
    <3> DEFINE u == [PpIdle EXCEPT !.job = "count", !.count = Mentions, !.row = snapshot.there]
    <3>1. DOMAIN u = Fields /\ DOMAIN w = Fields
      BY DEF PpIdle, Fields
    <3>2. /\ u["job"] = w["job"] /\ u["seen"] = w["seen"] /\ u["found"] = w["found"]
          /\ u["row"] = w["row"] /\ u["ok"] = w["ok"] /\ u["count"] = w["count"]
      BY DEF PpIdle
    <3>3. u = [x \in Fields |-> u[x]] /\ w = [x \in Fields |-> w[x]]
      BY <3>1, Zenon
    <3>4. u = w
      <4> HIDE DEF u, w
      <4>1. QED
        BY <3>2, <3>3 DEF Fields
    <3>5. QED
      BY <2>1, <3>4, Zenon
  <2>3. w \in Job /\ JobHolds(w) /\ w.job # "idle" /\ ~Extracting(w)
    BY <1>1, MentionsType DEF Job, JobHolds, Extracting
  <2> HIDE DEF w
  <2>4. QED
    BY <2>1, <2>2, <2>3, LaunchHolds
<1>5. QED
  BY <1>2, <1>3, <1>4

\* The model answers, or does not.
LEMMA AnswerHolds ==
  ASSUME PpInv, NEW r \in PpReplica, ModelAnswers(r)
  PROVE  PpInv'
<1>1. PICK ok \in BOOLEAN :
        ppJob' = [ppJob EXCEPT ![r] = [@ EXCEPT !.job = "store", !.ok = ok, !.row = graph.node]]
  BY DEF ModelAnswers
<1>2. /\ ppJob[r].job = "ask"
      /\ UNCHANGED <<written, convs, marked, summary, flags, graph, snapshot, ppLog>>
  BY DEF ModelAnswers
<1>3. ppJob[r] \in Job /\ graph.node \in BOOLEAN
  BY DEF PpInv, PpTypeOK, Job
<1> DEFINE w == [ppJob[r] EXCEPT !.job = "store", !.ok = ok, !.row = graph.node]
<1>4. w \in Job /\ w.job = "store" /\ w.seen = ppJob[r].seen
  BY <1>3 DEF Job
<1>5. /\ ppJob' \in [PpReplica -> Job] /\ ppJob'[r] = w
      /\ \A q \in PpReplica : q # r => ppJob'[q] = ppJob[q]
  <2> HIDE DEF Job
  <2>1. QED
    BY <1>1, <1>4 DEF PpInv, PpTypeOK, Job
<1> HIDE DEF w
<1>6. PpTypeOK'
  BY <1>2, <1>5 DEF PpInv, PpTypeOK, Job
<1>7. JobsHold'
  <2>1. \A x : JobHolds(x) => JobHolds(x)'
    BY <1>2 DEF JobHolds, Extracting, Mentions
  <2>2. JobHolds(w)
    BY <1>2, <1>4 DEF PpInv, JobsHold, JobHolds, Extracting
  <2>3. QED
    BY <1>5, <2>1, <2>2 DEF PpInv, JobsHold
<1>8. FlaggedWhenStored' /\ ExtractedIsMentioned' /\ SnapshotNotAhead'
  BY <1>2 DEF PpInv, FlaggedWhenStored, ExtractedIsMentioned, SnapshotNotAhead, Mentions
<1>9. \A q \in PpReplica : /\ Extracting(ppJob[q])' <=> Extracting(ppJob[q])
                           /\ ppJob'[q].seen = ppJob[q].seen
                           /\ ppJob'[q].job # "idle" => ppJob[q].job # "idle"
  BY <1>2, <1>4, <1>5 DEF Extracting
<1>10. MentionsInHand'
  <2>1. \A p \in Prompt : Holding(p)' = Holding(p)
    BY <1>9 DEF Holding
  <2>2. QED
    BY <1>2, <2>1 DEF PpInv, MentionsInHand
<1>11. ~ppLog'.overlapped => JobsAlone'
  BY <1>2, <1>9 DEF PpInv, JobsAlone
<1>12. QED
  BY <1>6, <1>7, <1>8, <1>10, <1>11 DEF PpInv

\* What a step may take from the mentions in hand: a job less.
LEMMA HandsLess ==
  ASSUME PpInv, NEW r \in PpReplica, ppJob' = [ppJob EXCEPT ![r] = PpIdle]
  PROVE  /\ ppJob' \in [PpReplica -> Job] /\ ppJob'[r] = PpIdle
         /\ \A q \in PpReplica : q # r => ppJob'[q] = ppJob[q]
         /\ \A p : Holding(p)' = Holding(p) \ {r}
         /\ \A p : /\ Cardinality(Holding(p)') \in Nat
                   /\ Cardinality(Holding(p)') <= Cardinality(Holding(p))
                   /\ r \in Holding(p) =>
                        Cardinality(Holding(p)') = Cardinality(Holding(p)) - 1
<1>1. /\ ppJob' \in [PpReplica -> Job] /\ ppJob'[r] = PpIdle
      /\ \A q \in PpReplica : q # r => ppJob'[q] = ppJob[q]
  BY IdleHolds DEF PpInv, PpTypeOK, Job
<1>2. ASSUME NEW p PROVE Holding(p)' = Holding(p) \ {r}
  BY <1>1, IdleHolds DEF Holding
<1>3. ASSUME NEW p
      PROVE  /\ Cardinality(Holding(p)') \in Nat
             /\ Cardinality(Holding(p)') <= Cardinality(Holding(p))
             /\ r \in Holding(p) => Cardinality(Holding(p)') = Cardinality(Holding(p)) - 1
  <2>1. IsFiniteSet(Holding(p)) /\ Cardinality(Holding(p)) \in Nat
    BY HoldingIsFinite
  <2>2. Cardinality(Holding(p) \ {r}) =
          IF r \in Holding(p) THEN Cardinality(Holding(p)) - 1 ELSE Cardinality(Holding(p))
    BY <2>1, FS_RemoveElement
  <2>3. Cardinality(Holding(p) \ {r}) \in Nat
    <3>1. IsFiniteSet(Holding(p) \ {r})
      BY <2>1, FS_RemoveElement
    <3>2. QED
      BY <3>1, FS_CardinalityType
  <2>4. Holding(p)' = Holding(p) \ {r}
    BY <1>2
  <2> HIDE DEF Holding
  <2>5. QED
    BY <2>1, <2>2, <2>3, <2>4
<1>4. QED
  BY <1>1, <1>2, <1>3

\* What jobs hold stays when one of them ends.
LEMMA OthersHold ==
  ASSUME PpInv, NEW r \in PpReplica, ppJob' = [ppJob EXCEPT ![r] = PpIdle],
         written' = written, convs \subseteq convs', Mentions' \in Nat, Mentions <= Mentions'
  PROVE  JobsHold'
<1>1. /\ ppJob'[r] = PpIdle
      /\ \A q \in PpReplica : q # r => ppJob'[q] = ppJob[q]
  BY HandsLess
<1>2. JobHolds(PpIdle)'
  BY IdleHolds DEF JobHolds
<1>3. ASSUME NEW q \in PpReplica, q # r PROVE JobHolds(ppJob[q])'
  <2>1. ppJob[q] \in Job /\ JobHolds(ppJob[q]) /\ written \in Nat
    BY AuditAssumption DEF PpInv, PpTypeOK, Job, JobsHold
  <2>2. PICK w \in Job : w = ppJob[q]
    BY <2>1
  <2>3. JobHolds(w)'
    BY <2>1, <2>2, MentionsType, JobsStay
  <2>4. QED
    BY <1>1, <1>3, <2>2, <2>3 DEF JobHolds, Extracting
<1>4. QED
  BY <1>1, <1>2, <1>3 DEF JobsHold, JobHolds, Extracting

\* A job that ends without a mention takes none from what is in hand.
LEMMA FewerInHand ==
  ASSUME PpInv, NEW r \in PpReplica, ppJob' = [ppJob EXCEPT ![r] = PpIdle],
         UNCHANGED <<marked, graph>>
  PROVE  MentionsInHand'
<1>1. ASSUME NEW p \in Prompt, p \in marked
      PROVE  graph.mentions[p] + Cardinality(Holding(p)') <= Cardinality(PpReplica)
  <2>1. graph.mentions[p] + Cardinality(Holding(p)) <= Cardinality(PpReplica)
    BY <1>1 DEF PpInv, MentionsInHand
  <2>2. graph.mentions[p] \in Nat
    BY MentionsType
  <2>3. /\ Cardinality(Holding(p)') \in Nat
        /\ Cardinality(Holding(p)') <= Cardinality(Holding(p))
    BY HandsLess
  <2>4. Cardinality(Holding(p)) \in Nat /\ Cardinality(PpReplica) \in Nat
    BY HoldingIsFinite
  <2> HIDE DEF Holding
  <2>5. QED
    BY <2>1, <2>2, <2>3, <2>4
<1>2. QED
  BY <1>1 DEF PpInv, MentionsInHand

\* A job ends and leaves the tables as they were.
LEMMA AbandonHolds ==
  ASSUME PpInv, NEW r \in PpReplica, Abandon(r), UNCHANGED written
  PROVE  PpInv'
<1>1. /\ ppJob' = [ppJob EXCEPT ![r] = PpIdle]
      /\ UNCHANGED <<written, convs, marked, summary, flags, graph, snapshot, ppLog>>
  BY DEF Abandon
<1>2. /\ ppJob' \in [PpReplica -> Job] /\ ppJob'[r] = PpIdle
      /\ \A q \in PpReplica : q # r => ppJob'[q] = ppJob[q]
  BY <1>1, HandsLess
<1>3. PpTypeOK'
  BY <1>1, <1>2 DEF PpInv, PpTypeOK, Job
<1>4. Mentions' = Mentions /\ Mentions \in Nat
  BY <1>1, MentionsType DEF Mentions
<1>5. JobsHold'
  <2>1. written' = written /\ convs \subseteq convs' /\ Mentions' \in Nat /\ Mentions <= Mentions'
    BY <1>1, <1>4
  <2>2. QED
    BY <1>1, <2>1, OthersHold
<1>6. FlaggedWhenStored' /\ ExtractedIsMentioned' /\ SnapshotNotAhead'
  BY <1>1, <1>4 DEF PpInv, FlaggedWhenStored, ExtractedIsMentioned, SnapshotNotAhead
<1>7. MentionsInHand'
  BY <1>1, FewerInHand
<1>8. ~ppLog'.overlapped => JobsAlone'
  BY <1>1, <1>2, IdleHolds DEF PpInv, JobsAlone
<1>9. QED
  BY <1>3, <1>5, <1>6, <1>7, <1>8 DEF PpInv

\* An audit is stored: the messages it has seen, with a flag for each that matches.
LEMMA StoreAuditHolds ==
  ASSUME PpInv, NEW r \in PpReplica, ppJob[r].job = "audit", StoreAudit(r), UNCHANGED written
  PROVE  PpInv'
<1> DEFINE w == ppJob[r]
<1>1. /\ ppJob' = [ppJob EXCEPT ![r] = PpIdle]
      /\ UNCHANGED <<written, marked, graph, snapshot, ppLog>>
      /\ convs' = convs \cup w.seen
      /\ summary' = [there |-> TRUE, count |-> Cardinality(w.seen),
                     flagged |-> Cardinality(w.seen \cap Violating)]
      /\ flags' = [p \in Prompt |-> [flags[p] EXCEPT !.open =
                     @ + IF p \in w.seen \cap Violating THEN 1 ELSE 0]]
  BY DEF StoreAudit
<1>2. /\ ppJob' \in [PpReplica -> Job] /\ ppJob'[r] = PpIdle
      /\ \A q \in PpReplica : q # r => ppJob'[q] = ppJob[q]
  BY <1>1, HandsLess
<1>3. w.seen \subseteq 1..written /\ Cardinality(w.seen) <= Window /\ written \in Nat
  <2>1. JobHolds(w)
    BY DEF PpInv, JobsHold
  <2>2. w.seen \subseteq 1..written /\ Cardinality(w.seen) <= Window
    BY <2>1 DEF JobHolds
  <2>3. written \in 0..MaxPrompts
    BY DEF PpInv, PpTypeOK
  <2>4. QED
    BY <2>2, <2>3, AuditAssumption
<1>4. /\ Cardinality(w.seen) \in 0..Window
      /\ Cardinality(w.seen \cap Violating) \in 0..Window
  <2>1. IsFiniteSet(1..written)
    <3>1. written \in Int /\ 1 \in Int
      BY <1>3
    <3>2. QED
      BY <3>1, FS_Interval
  <2>2. IsFiniteSet(w.seen)
    BY <1>3, <2>1, FS_Subset
  <2>3. /\ IsFiniteSet(w.seen \cap Violating)
        /\ Cardinality(w.seen \cap Violating) <= Cardinality(w.seen)
    BY <2>2, FS_Intersection
  <2>4. Cardinality(w.seen) \in Nat /\ Cardinality(w.seen \cap Violating) \in Nat
    BY <2>2, <2>3, FS_CardinalityType
  <2>5. QED
    BY <1>3, <2>3, <2>4, AuditAssumption
<1>5. ASSUME NEW p \in Prompt
      PROVE  /\ flags'[p] \in [open : Nat, reviewed : Nat]
             /\ flags'[p].reviewed = flags[p].reviewed
             /\ flags'[p].open =
                  IF p \in w.seen \cap Violating THEN flags[p].open + 1 ELSE flags[p].open
  <2>1. flags[p] \in [open : Nat, reviewed : Nat]
    BY DEF PpInv, PpTypeOK
  <2>2. PICK n \in Nat : n = IF p \in w.seen \cap Violating THEN 1 ELSE 0
    OBVIOUS
  <2>3. flags'[p] = [flags[p] EXCEPT !.open = @ + n]
    BY <1>1, <2>2
  <2>4. QED
    BY <2>1, <2>2, <2>3
<1>6. PpTypeOK'
  <2>1. flags' \in [Prompt -> [open : Nat, reviewed : Nat]]
    <3>1. DOMAIN flags' = Prompt /\ flags' = [p \in Prompt |-> flags'[p]]
      BY <1>1
    <3>2. QED
      BY <1>5, <3>1
  <2>2. summary' \in [there : BOOLEAN, count : 0..Window, flagged : 0..Window]
    BY <1>1, <1>4
  <2>3. QED
    BY <1>1, <1>2, <1>3, <2>1, <2>2 DEF PpInv, PpTypeOK, Job
<1>7. Mentions' = Mentions /\ Mentions \in Nat
  BY <1>1, MentionsType DEF Mentions
<1>8. JobsHold'
  <2>1. written' = written /\ convs \subseteq convs' /\ Mentions' \in Nat /\ Mentions <= Mentions'
    BY <1>1, <1>7
  <2>2. QED
    BY <1>1, <2>1, OthersHold
<1>9. FlaggedWhenStored'
  <2>1. ASSUME NEW p \in Violating
        PROVE  p \in convs' <=> flags'[p].open + flags'[p].reviewed > 0
    <3>1. p \in Prompt /\ flags[p] \in [open : Nat, reviewed : Nat]
      BY AuditAssumption DEF PpInv, PpTypeOK
    <3>2. p \in convs <=> flags[p].open + flags[p].reviewed > 0
      BY DEF PpInv, FlaggedWhenStored
    <3>3. QED
      BY <1>1, <1>5, <3>1, <3>2
  <2>2. QED
    BY <2>1 DEF FlaggedWhenStored
<1>10. ExtractedIsMentioned' /\ SnapshotNotAhead'
  BY <1>1, <1>7 DEF PpInv, ExtractedIsMentioned, SnapshotNotAhead
<1>11. MentionsInHand'
  BY <1>1, FewerInHand
<1>12. ~ppLog'.overlapped => JobsAlone'
  BY <1>1, <1>2, IdleHolds DEF PpInv, JobsAlone
<1>13. QED
  BY <1>6, <1>8, <1>9, <1>10, <1>11, <1>12 DEF PpInv

\* The count of a day is stored.
LEMMA StoreCountHolds ==
  ASSUME PpInv, NEW r \in PpReplica, ppJob[r].job = "count",
         snapshot' = [there |-> TRUE, count |-> ppJob[r].count],
         ppJob' = [ppJob EXCEPT ![r] = PpIdle],
         UNCHANGED <<written, convs, marked, summary, flags, graph, ppLog>>
  PROVE  PpInv'
<1>1. /\ ppJob' \in [PpReplica -> Job] /\ ppJob'[r] = PpIdle
      /\ \A q \in PpReplica : q # r => ppJob'[q] = ppJob[q]
  BY HandsLess
<1>2. ppJob[r].count \in Nat /\ ppJob[r].count <= Mentions
  BY DEF PpInv, PpTypeOK, JobsHold, JobHolds
<1>3. PpTypeOK'
  BY <1>1, <1>2 DEF PpInv, PpTypeOK, Job
<1>4. Mentions' = Mentions /\ Mentions \in Nat
  BY MentionsType DEF Mentions
<1>5. JobsHold'
  <2>1. written' = written /\ convs \subseteq convs' /\ Mentions' \in Nat /\ Mentions <= Mentions'
    BY <1>4
  <2>2. QED
    BY <2>1, OthersHold
<1>6. FlaggedWhenStored' /\ ExtractedIsMentioned' /\ SnapshotNotAhead'
  BY <1>2, <1>4 DEF PpInv, FlaggedWhenStored, ExtractedIsMentioned, SnapshotNotAhead
<1>7. MentionsInHand'
  BY FewerInHand
<1>8. ~ppLog'.overlapped => JobsAlone'
  BY <1>1, IdleHolds DEF PpInv, JobsAlone
<1>9. QED
  BY <1>3, <1>5, <1>6, <1>7, <1>8 DEF PpInv

\* A flag is reviewed.
LEMMA ReviewHolds ==
  ASSUME PpInv, NEW p \in Violating, ReviewFlag(p)
  PROVE  PpInv'
<1>1. /\ flags[p].open > 0
      /\ flags' = [flags EXCEPT ![p] = [open |-> @.open - 1, reviewed |-> @.reviewed + 1]]
      /\ UNCHANGED <<written, convs, marked, summary, graph, snapshot, ppJob, ppLog>>
  BY DEF ReviewFlag
<1>2. p \in Prompt /\ flags \in [Prompt -> [open : Nat, reviewed : Nat]]
  BY AuditAssumption DEF PpInv, PpTypeOK
<1>3. PpTypeOK'
  BY <1>1, <1>2 DEF PpInv, PpTypeOK
<1>4. JobsHold' /\ ExtractedIsMentioned' /\ SnapshotNotAhead'
  BY <1>1 DEF PpInv, JobsHold, JobHolds, Extracting, ExtractedIsMentioned, SnapshotNotAhead,
              Mentions
<1>5. MentionsInHand' /\ (~ppLog'.overlapped => JobsAlone')
  BY <1>1 DEF PpInv, MentionsInHand, Holding, JobsAlone, Extracting
<1>6. FlaggedWhenStored'
  BY <1>1, <1>2, AuditAssumption DEF PpInv, FlaggedWhenStored
<1>7. QED
  BY <1>3, <1>4, <1>5, <1>6 DEF PpInv

\* An extraction is stored: its messages are marked, and mentioned if the model has answered.
LEMMA StoreExtractionHolds ==
  ASSUME PpInv, NEW r \in PpReplica, ppJob[r].job = "store", StoreExtraction(r),
         UNCHANGED written
  PROVE  PpInv'
<1> DEFINE w == ppJob[r]
           m == [p \in Prompt |-> graph.mentions[p] + IF w.ok /\ p \in w.seen THEN 1 ELSE 0]
           n == graph.node \/ w.ok
           un == IF w.ok THEN ppLog.unanswered ELSE ppLog.unanswered \cup w.seen
<1>1. /\ ppJob' = [ppJob EXCEPT ![r] = PpIdle]
      /\ UNCHANGED <<written, convs, summary, flags, snapshot>>
      /\ marked' = marked \cup w.seen
      /\ graph' = [node |-> n, mentions |-> m]
      /\ ppLog' = [ppLog EXCEPT !.unanswered = un]
  BY DEF StoreExtraction
<1>2. /\ ppJob' \in [PpReplica -> Job] /\ ppJob'[r] = PpIdle
      /\ \A q \in PpReplica : q # r => ppJob'[q] = ppJob[q]
  BY <1>1, HandsLess
<1>3. w \in Job /\ Extracting(w) /\ w.seen \subseteq convs /\ w.seen \subseteq Prompt
  BY DEF PpInv, PpTypeOK, JobsHold, JobHolds, Extracting, Job
<1>4. w.ok \in BOOLEAN /\ n \in BOOLEAN
  BY <1>3 DEF Job, PpInv, PpTypeOK
<1>5. un \subseteq Prompt /\ ppLog.unanswered \subseteq un /\ (~w.ok => w.seen \subseteq un)
  BY <1>3 DEF PpInv, PpTypeOK
<1>6. graph.mentions \in [Prompt -> Nat]
  BY MentionsType
<1>7. /\ m \in [Prompt -> Nat]
      /\ \A p \in Prompt : /\ graph.mentions[p] <= m[p] /\ m[p] <= graph.mentions[p] + 1
                           /\ p \notin w.seen => m[p] = graph.mentions[p]
                           /\ w.ok /\ p \in w.seen => m[p] = graph.mentions[p] + 1
  BY <1>4, <1>6
<1>8. graph'.mentions = m /\ graph'.node = n
  BY <1>1
<1>9. /\ ppLog'.overlapped = ppLog.overlapped /\ ppLog'.unanswered = un
      /\ ppLog' \in [runs : 0..MaxRuns, overlapped : BOOLEAN, unanswered : SUBSET Prompt]
  <2>1. ppLog \in [runs : 0..MaxRuns, overlapped : BOOLEAN, unanswered : SUBSET Prompt]
    BY DEF PpInv, PpTypeOK
  <2> HIDE DEF un
  <2>2. QED
    BY <1>1, <1>5, <2>1
<1>10. Mentions \in Nat /\ Mentions' \in Nat /\ Mentions <= Mentions'
  <2>1. Mentions = MentionsOf(graph.mentions) /\ Mentions' = MentionsOf(graph'.mentions)
    BY DEF Mentions, MentionsOf
  <2> HIDE DEF m
  <2>2. QED
    BY <1>6, <1>7, <1>8, <2>1, MentionsGrow
<1> HIDE DEF m, n, un
<1>11. PpTypeOK'
  <2>1. graph'.node \in BOOLEAN /\ graph'.mentions \in [Prompt -> Nat]
    BY <1>4, <1>7, <1>8
  <2>2. marked' \subseteq convs'
    BY <1>1, <1>3 DEF PpInv, PpTypeOK
  <2>3. QED
    BY <1>1, <1>2, <1>9, <2>1, <2>2 DEF PpInv, PpTypeOK, Job
<1>12. JobsHold'
  BY <1>1, <1>10, OthersHold
<1>13. FlaggedWhenStored'
  BY <1>1 DEF PpInv, FlaggedWhenStored
<1>14. ExtractedIsMentioned'
  <2>1. ASSUME NEW p \in marked' \ ppLog'.unanswered PROVE graph'.mentions[p] > 0
    <3>1. CASE p \in w.seen
      <4>1. w.ok /\ p \in Prompt
        BY <1>3, <1>4, <1>5, <1>9, <2>1, <3>1
      <4>2. QED
        BY <1>6, <1>7, <1>8, <3>1, <4>1
    <3>2. CASE p \notin w.seen
      <4>1. p \in marked \ ppLog.unanswered /\ p \in Prompt
        BY <1>1, <1>5, <1>9, <2>1, <3>2, AuditAssumption DEF PpInv, PpTypeOK, Prompt
      <4>2. graph.mentions[p] > 0
        BY <4>1 DEF PpInv, ExtractedIsMentioned
      <4>3. QED
        BY <1>7, <1>8, <3>2, <4>1, <4>2
    <3>3. QED
      BY <3>1, <3>2
  <2>2. QED
    BY <2>1 DEF ExtractedIsMentioned
<1>15. SnapshotNotAhead'
  BY <1>1, <1>10 DEF PpInv, PpTypeOK, SnapshotNotAhead
<1>16. MentionsInHand'
  <2>1. ASSUME NEW p \in Prompt, p \notin marked' PROVE m[p] = 0
    BY <1>1, <1>7, <2>1 DEF PpInv, MentionsInHand
  <2>2. ASSUME NEW p \in Prompt, p \in marked'
        PROVE  m[p] + Cardinality(Holding(p)') <= Cardinality(PpReplica)
    <3> DEFINE c == Cardinality(Holding(p))
               d == Cardinality(Holding(p)')
               e == Cardinality(PpReplica)
    <3>1. /\ d \in Nat /\ d <= c /\ (r \in Holding(p) => d = c - 1)
          /\ c \in Nat /\ e \in Nat /\ c <= e
      BY <1>1, HandsLess, HoldingIsFinite
    <3>2. p \in w.seen => r \in Holding(p)
      BY <1>3 DEF Holding
    <3>3. /\ p \in marked => graph.mentions[p] + c <= e
          /\ p \notin marked => graph.mentions[p] = 0
      BY DEF PpInv, MentionsInHand
    <3>4. /\ graph.mentions[p] \in Nat /\ m[p] \in Nat
          /\ graph.mentions[p] <= m[p] /\ m[p] <= graph.mentions[p] + 1
          /\ p \notin w.seen => m[p] = graph.mentions[p]
      BY <1>6, <1>7
    <3>5. p \in marked \/ p \in w.seen
      BY <1>1, <2>2
    <3> HIDE DEF c, d, e
    <3>6. m[p] + d <= e
      BY <3>1, <3>2, <3>3, <3>4, <3>5
    <3>7. QED
      BY <3>6 DEF d, e
  <2>3. QED
    BY <1>8, <2>1, <2>2 DEF MentionsInHand
<1>17. ASSUME ~ppLog'.overlapped PROVE JobsAlone'
  <2>1. JobsAlone
    BY <1>9, <1>17 DEF PpInv
  <2>2. \A q \in PpReplica : ppJob'[q].job = "idle"
    BY <1>2, <1>3, <2>1, IdleHolds DEF JobsAlone, Extracting
  <2>3. ASSUME NEW p \in Prompt PROVE m[p] <= 1
    <3>1. CASE p \in w.seen
      <4>1. p \notin marked
        BY <1>3, <2>1, <3>1 DEF JobsAlone
      <4>2. graph.mentions[p] = 0
        BY <4>1 DEF PpInv, MentionsInHand
      <4>3. QED
        BY <1>7, <4>2
    <3>2. CASE p \notin w.seen
      BY <1>7, <2>1, <3>2 DEF JobsAlone
    <3>3. QED
      BY <3>1, <3>2
  <2>4. QED
    BY <1>8, <2>2, <2>3 DEF JobsAlone, Extracting
<1>18. QED
  BY <1>11, <1>12, <1>13, <1>14, <1>15, <1>16, <1>17 DEF PpInv

\* Every step keeps the invariant.
LEMMA PpNextOK == PpInv /\ [PpNext]_pipeVars => PpInv'
<1> SUFFICES ASSUME PpInv, [PpNext]_pipeVars PROVE PpInv'
  OBVIOUS
<1>1. ASSUME UserWrites PROVE PpInv'
  BY <1>1, WriteHolds
<1>2. ASSUME NEW r \in PpReplica, BeginAudit(r) \/ BeginExtraction(r) \/ BeginSnapshot(r)
      PROVE  PpInv'
  BY <1>2, BeginHolds
<1>3. ASSUME NEW r \in PpReplica, CommitAudit(r) PROVE PpInv'
  BY <1>3, AbandonHolds, StoreAuditHolds DEF CommitAudit
<1>4. ASSUME NEW r \in PpReplica, ModelAnswers(r) PROVE PpInv'
  BY <1>4, AnswerHolds
<1>5. ASSUME NEW r \in PpReplica, CommitExtraction(r) PROVE PpInv'
  BY <1>5, AbandonHolds, StoreExtractionHolds DEF CommitExtraction
<1>6. ASSUME NEW r \in PpReplica, CommitSnapshot(r) PROVE PpInv'
  BY <1>6, AbandonHolds, StoreCountHolds DEF CommitSnapshot
<1>7. ASSUME NEW r \in PpReplica, JobDies(r) PROVE PpInv'
  BY <1>7, AbandonHolds DEF JobDies
<1>8. ASSUME NEW p \in Violating, ReviewFlag(p) PROVE PpInv'
  BY <1>8, ReviewHolds
<1>9. CASE UNCHANGED pipeVars
  <2>1. UNCHANGED <<written, convs, marked, summary, flags, graph, snapshot, ppJob, ppLog>>
    BY <1>9 DEF pipeVars
  <2>2. PpTypeOK' /\ JobsHold' /\ FlaggedWhenStored' /\ ExtractedIsMentioned' /\ SnapshotNotAhead'
    BY <2>1 DEF PpInv, PpTypeOK, JobsHold, JobHolds, Extracting, FlaggedWhenStored,
                ExtractedIsMentioned, SnapshotNotAhead, Mentions
  <2>3. MentionsInHand' /\ (~ppLog'.overlapped => JobsAlone')
    BY <2>1 DEF PpInv, MentionsInHand, Holding, JobsAlone, Extracting
  <2>4. QED
    BY <2>2, <2>3 DEF PpInv
<1>10. QED
  BY <1>1, <1>2, <1>3, <1>4, <1>5, <1>6, <1>7, <1>8, <1>9 DEF PpNext

-----------------------------------------------------------------------------

\* For any number of replicas, messages and runs, and any window, the tables, the graph and the
\* jobs have their types: what is stored was written, and what is marked is stored.
THEOREM PipelineTypeCorrect == PpSpec => []PpTypeOK
<1>1. PpInv => PpTypeOK
  BY DEF PpInv
<1>2. QED
  BY <1>1, PpInitOK, PpNextOK, PTL DEF PpSpec

\* For any number of replicas whose audits overlap, break a uniqueness or die, a message that
\* matches is stored with its flags or not at all.
THEOREM FlagsComeAlong == PpSpec => []FlaggedWhenStored
<1>1. PpInv => FlaggedWhenStored
  BY DEF PpInv
<1>2. QED
  BY <1>1, PpInitOK, PpNextOK, PTL DEF PpSpec

\* For any number of replicas, messages and runs: what was marked as extracted is mentioned unless
\* the model did not answer; once while jobs do not overlap, and never more often than there are
\* replicas; and no snapshot counts more mentions than there are.
THEOREM MentionsAreAccounted == PpSpec => []GraphIsAccounted
<1>1. PpInv => GraphIsAccounted
  <2> SUFFICES ASSUME PpInv PROVE GraphIsAccounted
    OBVIOUS
  <2>1. ASSUME NEW p \in Prompt
        PROVE  graph.mentions[p] <= IF ppLog.overlapped THEN Cardinality(PpReplica) ELSE 1
    <3>1. CASE ~ppLog.overlapped
      BY <3>1 DEF PpInv, JobsAlone
    <3>2. CASE ppLog.overlapped
      <4> DEFINE c == Cardinality(Holding(p))
                 e == Cardinality(PpReplica)
      <4>1. c \in Nat /\ e \in Nat /\ graph.mentions[p] \in Nat
        BY HoldingIsFinite, MentionsType
      <4>2. graph.mentions[p] = 0 \/ graph.mentions[p] + c <= e
        BY DEF PpInv, MentionsInHand
      <4> HIDE DEF c, e
      <4>3. graph.mentions[p] <= e
        BY <4>1, <4>2
      <4>4. QED
        BY <3>2, <4>3 DEF e
    <3>3. QED
      BY <3>1, <3>2
  <2>2. MentionedOnce
    BY <2>1 DEF MentionedOnce
  <2>3. QED
    BY <2>2 DEF PpInv, GraphIsAccounted
<1>2. QED
  BY <1>1, PpInitOK, PpNextOK, PTL DEF PpSpec

-----------------------------------------------------------------------------
(***************************************************************************)
(* QuotaGate. That the overspending is what the sums are behind is         *)
(* inductive once it is known that the gate reads the last assignment      *)
(* (OneAssignment) and that days to come have cost nothing (ChargedSoFar). *)
(* Sums over finite sets are folds: the proofs show of them that any       *)
(* element may be added first, and of weeks that the days from CycleStart  *)
(* on are those of the calendar's week.                                    *)
(***************************************************************************)

(* Sums over finite sets *)

\* The sum of the values of f on S, in the order in which MapThenSumSet takes them.
SumOf(f, S) ==
  LET iter[s \in SUBSET S] ==
        IF s = {} THEN 0 ELSE LET x == CHOOSE x \in s : TRUE IN f[x] + iter[s \ {x}]
  IN iter[S]

\* it is the sum of f for each subset of S.
AddsAll(it, f, S) ==
  /\ it \in [SUBSET S -> Nat]
  /\ \A s \in SUBSET S :
       it[s] = IF s = {} THEN 0 ELSE f[CHOOSE x \in s : TRUE] + it[s \ {CHOOSE x \in s : TRUE}]

\* There is one such sum.
LEMMA SumIsUnique ==
  ASSUME NEW f, NEW S, NEW T, NEW i, NEW j, AddsAll(i, f, S), AddsAll(j, f, T),
         NEW U, IsFiniteSet(U), U \subseteq S, U \subseteq T
  PROVE  i[U] = j[U]
<1> DEFINE B == {s \in SUBSET U : i[s] # j[s]}
<1>1. CASE B = {}
  BY <1>1
<1>2. CASE B # {}
  <2>1. PICK s \in B : \A k \in B : k \subseteq s => k = s
    <3>1. B \subseteq SUBSET U
      OBVIOUS
    <3> HIDE DEF B
    <3>2. QED
      BY <1>2, <3>1, LeastSubset
  <2>2. CASE s = {}
    BY <2>1, <2>2 DEF AddsAll
  <2>3. CASE s # {}
    <3> DEFINE x == CHOOSE x \in s : TRUE
    <3>1. x \in s /\ s \in SUBSET U /\ s \in SUBSET S /\ s \in SUBSET T
      BY <2>1, <2>3
    <3>2. i[s] = f[x] + i[s \ {x}] /\ j[s] = f[x] + j[s \ {x}]
      BY <2>3, <3>1 DEF AddsAll
    <3>3. s \ {x} \notin B /\ s \ {x} \in SUBSET U
      BY <2>1, <3>1
    <3>4. QED
      BY <2>1, <3>2, <3>3
  <2>4. QED
    BY <2>2, <2>3
<1>3. QED
  BY <1>1, <1>2

\* There is such a sum.
LEMMA SumExists ==
  ASSUME NEW D, NEW f \in [D -> Nat], NEW S, S \subseteq D, IsFiniteSet(S)
  PROVE  \E it : AddsAll(it, f, S)
<1> DEFINE B == {s \in SUBSET S : ~ \E it : AddsAll(it, f, s)}
<1>1. CASE B = {}
  BY <1>1
<1>2. CASE B # {}
  <2>1. PICK u \in B : \A k \in B : k \subseteq u => k = u
    <3>1. B \subseteq SUBSET S
      OBVIOUS
    <3> HIDE DEF B
    <3>2. QED
      BY <1>2, <3>1, LeastSubset
  <2>2. u \in SUBSET S /\ \A s \in SUBSET u : s # u => \E it : AddsAll(it, f, s)
    BY <2>1
  <2>3. ASSUME u = {} PROVE FALSE
    <3>1. AddsAll([s \in SUBSET {} |-> 0], f, {})
      BY DEF AddsAll
    <3>2. QED
      BY <2>1, <2>3, <3>1
  <2> DEFINE Of(s) == CHOOSE it : AddsAll(it, f, s)
             x == CHOOSE x \in u : TRUE
             g == [s \in SUBSET u |-> IF s = u THEN f[x] + Of(u \ {x})[u \ {x}] ELSE Of(s)[s]]
  <2>4. \A s \in SUBSET u : s # u => AddsAll(Of(s), f, s)
    BY <2>2
  <2>5. x \in u /\ x \in D
    BY <2>2, <2>3
  <2>6. \A s \in SUBSET u : s # u => Of(s)[s] \in Nat
    <3>1. ASSUME NEW s \in SUBSET u, s # u PROVE Of(s)[s] \in Nat
      <4>1. AddsAll(Of(s), f, s)
        BY <2>4, <3>1
      <4>2. PICK it : it = Of(s)
        OBVIOUS
      <4>3. it \in [SUBSET s -> Nat] /\ s \in SUBSET s
        BY <4>1, <4>2 DEF AddsAll
      <4>4. QED
        BY <4>2, <4>3
    <3>2. QED
      BY <3>1
  <2>7. g \in [SUBSET u -> Nat]
    <3>1. f[x] \in Nat
      BY <2>5
    <3>2. Of(u \ {x})[u \ {x}] \in Nat
      BY <2>5, <2>6
    <3> HIDE DEF Of, x
    <3>3. QED
      BY <2>6, <3>1, <3>2
  <2>8. ASSUME NEW s \in SUBSET u
        PROVE  g[s] = IF s = {} THEN 0
                      ELSE f[CHOOSE y \in s : TRUE] + g[s \ {CHOOSE y \in s : TRUE}]
    <3>1. CASE s = u
      <4>1. u \ {x} # u /\ u \ {x} \in SUBSET u
        BY <2>5
      <4>2. g[u] = f[x] + g[u \ {x}]
        <5> HIDE DEF Of, x
        <5>1. QED
          BY <4>1
      <4>3. QED
        BY <3>1, <4>2, <2>3
    <3>2. CASE s = {}
      <4>1. g[s] = Of(s)[s] /\ AddsAll(Of(s), f, s)
        BY <2>3, <2>4, <3>2
      <4> HIDE DEF Of, g
      <4>2. QED
        BY <3>2, <4>1 DEF AddsAll
    <3>3. CASE s # u /\ s # {}
      <4> DEFINE y == CHOOSE y \in s : TRUE
      <4>1. y \in s /\ s \ {y} \in SUBSET u /\ s \ {y} # u
        BY <3>3
      <4>2. g[s] = Of(s)[s] /\ g[s \ {y}] = Of(s \ {y})[s \ {y}]
        <5> HIDE DEF Of, x, y
        <5>1. QED
          BY <3>3, <4>1
      <4>3. AddsAll(Of(s), f, s) /\ AddsAll(Of(s \ {y}), f, s \ {y})
        <5> HIDE DEF Of, y
        <5>1. QED
          BY <2>4, <3>3, <4>1
      <4>4. Of(s)[s] = f[y] + Of(s)[s \ {y}]
        <5> HIDE DEF Of, g
        <5>1. QED
          BY <3>3, <4>3 DEF AddsAll
      <4>5. Of(s)[s \ {y}] = Of(s \ {y})[s \ {y}]
        <5>1. IsFiniteSet(s \ {y})
          BY <2>2, FS_Subset
        <5>2. s \ {y} \subseteq s
          OBVIOUS
        <5> HIDE DEF Of, y
        <5>3. QED
          BY <4>3, <5>1, <5>2, SumIsUnique
      <4>6. QED
        <5> HIDE DEF Of, g
        <5>1. QED
          BY <3>3, <4>2, <4>4, <4>5
    <3>4. QED
      BY <3>1, <3>2, <3>3
  <2>9. AddsAll(g, f, u)
    <3> HIDE DEF g
    <3>1. QED
      BY <2>7, <2>8 DEF AddsAll
  <2>10. QED
    BY <2>1, <2>9
<1>3. QED
  BY <1>1, <1>2

\* The sums of the subsets of a finite set are all of them of the one kind.
LEMMA SumsAre ==
  ASSUME NEW D, NEW f \in [D -> Nat], IsFiniteSet(D)
  PROVE  \E it : AddsAll(it, f, D) /\ \A S \in SUBSET D : SumOf(f, S) = it[S]
<1>1. PICK it : AddsAll(it, f, D)
  BY SumExists
<1>2. ASSUME NEW S \in SUBSET D PROVE SumOf(f, S) = it[S]
  <2> DEFINE Body(i) == [s \in SUBSET S |->
                           IF s = {} THEN 0
                           ELSE LET x == CHOOSE x \in s : TRUE IN f[x] + i[s \ {x}]]
             iter == CHOOSE i : i = Body(i)
  <2>1. IsFiniteSet(S)
    BY FS_Subset
  <2>2. SumOf(f, S) = iter[S]
    BY DEF SumOf
  <2>3. PICK i : AddsAll(i, f, S)
    BY <2>1, SumExists
  <2>4. i = Body(i)
    BY <2>3 DEF AddsAll
  <2>5. iter = Body(iter)
    <3> HIDE DEF Body
    <3>1. QED
      BY <2>4
  <2>6. \A s \in SUBSET S :
          iter[s] = IF s = {} THEN 0
                    ELSE f[CHOOSE x \in s : TRUE] + iter[s \ {CHOOSE x \in s : TRUE}]
    <3> HIDE DEF iter
    <3>1. QED
      BY <2>5
  <2> HIDE DEF iter
  <2> DEFINE B == {s \in SUBSET S : iter[s] # i[s]}
  <2>7. B = {}
    <3>1. SUFFICES ASSUME B # {} PROVE FALSE
      OBVIOUS
    <3>2. PICK s \in B : \A k \in B : k \subseteq s => k = s
      <4>1. B \subseteq SUBSET S
        OBVIOUS
      <4> HIDE DEF B
      <4>2. QED
        BY <2>1, <3>1, <4>1, LeastSubset
    <3>3. CASE s = {}
      BY <2>3, <2>6, <3>2, <3>3 DEF AddsAll
    <3>4. CASE s # {}
      <4> DEFINE x == CHOOSE x \in s : TRUE
      <4>1. x \in s /\ s \in SUBSET S
        BY <3>2, <3>4
      <4>2. iter[s] = f[x] + iter[s \ {x}] /\ i[s] = f[x] + i[s \ {x}]
        BY <2>3, <2>6, <3>4, <4>1 DEF AddsAll
      <4>3. s \ {x} \notin B /\ s \ {x} \in SUBSET S
        BY <3>2, <4>1
      <4>4. QED
        BY <3>2, <4>2, <4>3
    <3>5. QED
      BY <3>3, <3>4
  <2>8. iter[S] = i[S]
    BY <2>7
  <2>9. i[S] = it[S]
    BY <1>1, <2>1, <2>3, SumIsUnique
  <2>10. QED
    BY <2>2, <2>8, <2>9
<1>3. QED
  BY <1>1, <1>2

\* A sum is a number, nothing sums up to 0, and any element may be taken first.
LEMMA SumTakes ==
  ASSUME NEW D, NEW f \in [D -> Nat], IsFiniteSet(D)
  PROVE  /\ SumOf(f, {}) = 0
         /\ \A S \in SUBSET D : SumOf(f, S) \in Nat
         /\ \A S \in SUBSET D : \A x \in S : SumOf(f, S) = f[x] + SumOf(f, S \ {x})
<1>1. PICK it : AddsAll(it, f, D) /\ \A S \in SUBSET D : SumOf(f, S) = it[S]
  BY SumsAre
<1>2. it[{}] = 0 /\ \A S \in SUBSET D : it[S] \in Nat
  BY <1>1 DEF AddsAll
<1> DEFINE B == {s \in SUBSET D : \E x \in s : it[s] # f[x] + it[s \ {x}]}
<1>3. B = {}
  <2>1. SUFFICES ASSUME B # {} PROVE FALSE
    OBVIOUS
  <2>2. PICK s \in B : \A k \in B : k \subseteq s => k = s
    <3>1. B \subseteq SUBSET D
      OBVIOUS
    <3> HIDE DEF B
    <3>2. QED
      BY <2>1, <3>1, LeastSubset
  <2>3. PICK x \in s : it[s] # f[x] + it[s \ {x}]
    BY <2>2
  <2> DEFINE y == CHOOSE y \in s : TRUE
  <2>4. y \in s /\ s \in SUBSET D /\ x \in D /\ y \in D
    BY <2>2, <2>3
  <2>5. it[s] = f[y] + it[s \ {y}]
    BY <1>1, <2>3, <2>4 DEF AddsAll
  <2> HIDE DEF y
  <2>6. x # y
    BY <2>3, <2>5
  <2>7. s \ {y} \notin B /\ s \ {x} \notin B /\ s \ {x} \in SUBSET D /\ s \ {y} \in SUBSET D
    BY <2>2, <2>3, <2>4
  <2>8. it[s \ {y}] = f[x] + it[(s \ {y}) \ {x}]
    BY <2>3, <2>6, <2>7
  <2>9. it[s \ {x}] = f[y] + it[(s \ {x}) \ {y}]
    BY <2>4, <2>6, <2>7
  <2>10. (s \ {y}) \ {x} = (s \ {x}) \ {y} /\ (s \ {x}) \ {y} \in SUBSET D
    BY <2>7
  <2>11. f[x] \in Nat /\ f[y] \in Nat /\ it[(s \ {x}) \ {y}] \in Nat
    BY <1>2, <2>4, <2>10
  <2> DEFINE rest == it[(s \ {x}) \ {y}]
  <2>12. /\ it[s] = f[y] + it[s \ {y}] /\ it[s \ {y}] = f[x] + rest
         /\ it[s \ {x}] = f[y] + rest /\ rest \in Nat /\ it[s] # f[x] + it[s \ {x}]
    BY <2>3, <2>5, <2>8, <2>9, <2>10, <2>11
  <2> HIDE DEF rest
  <2>13. QED
    BY <2>11, <2>12
<1>4. ASSUME NEW S \in SUBSET D, NEW x \in S PROVE SumOf(f, S) = f[x] + SumOf(f, S \ {x})
  <2>1. S \ {x} \in SUBSET D /\ S \notin B
    BY <1>3
  <2>2. QED
    BY <1>1, <2>1
<1>5. QED
  BY <1>1, <1>2, <1>4

\* Functions that agree on a set have the same sum there.
LEMMA SumsAgree ==
  ASSUME NEW D, NEW f \in [D -> Nat], NEW g \in [D -> Nat], IsFiniteSet(D),
         NEW S \in SUBSET D, \A x \in S : f[x] = g[x]
  PROVE  SumOf(f, S) = SumOf(g, S)
<1> DEFINE B == {s \in SUBSET S : SumOf(f, s) # SumOf(g, s)}
<1>1. SUFFICES ASSUME B # {} PROVE FALSE
  OBVIOUS
<1>2. PICK s \in B : \A k \in B : k \subseteq s => k = s
  <2>1. B \subseteq SUBSET S /\ IsFiniteSet(S)
    BY FS_Subset
  <2> HIDE DEF B
  <2>2. QED
    BY <1>1, <2>1, LeastSubset
<1>3. CASE s = {}
  <2>1. SumOf(f, {}) = 0 /\ SumOf(g, {}) = 0
    BY SumTakes
  <2>2. QED
    BY <1>2, <1>3, <2>1
<1>4. CASE s # {}
  <2>1. PICK x \in s : TRUE
    BY <1>4
  <2>2. s \in SUBSET D /\ f[x] = g[x]
    BY <1>2
  <2>3. SumOf(f, s) = f[x] + SumOf(f, s \ {x}) /\ SumOf(g, s) = g[x] + SumOf(g, s \ {x})
    BY <2>2, SumTakes
  <2>4. SumOf(f, s \ {x}) = SumOf(g, s \ {x})
    BY <1>2, <2>1
  <2>5. QED
    BY <1>2, <2>2, <2>3, <2>4
<1>5. QED
  BY <1>3, <1>4

\* One more at one place is one more.
LEMMA SumGrows ==
  ASSUME NEW D, NEW f \in [D -> Nat], NEW g \in [D -> Nat], IsFiniteSet(D),
         NEW S \in SUBSET D, NEW x \in S, g[x] = f[x] + 1, \A y \in S \ {x} : g[y] = f[y]
  PROVE  SumOf(g, S) = SumOf(f, S) + 1
<1>1. x \in D /\ f[x] \in Nat
  OBVIOUS
<1>2. PICK R \in SUBSET D : R = S \ {x}
  OBVIOUS
<1>3. \A y \in R : f[y] = g[y]
  BY <1>2
<1>4. SumOf(g, R) = SumOf(f, R)
  BY <1>3, SumsAgree
<1>5. SumOf(g, S) = g[x] + SumOf(g, R) /\ SumOf(f, S) = f[x] + SumOf(f, R)
  BY <1>2, SumTakes
<1>6. SumOf(f, R) \in Nat
  BY SumTakes
<1>7. QED
  BY <1>1, <1>4, <1>5, <1>6

-----------------------------------------------------------------------------
(* Cycles and their days *)

\* The quotient and the remainder, which make up the number.
LEMMA Divides ==
  ASSUME NEW w \in Nat \ {0}, NEW t \in Nat
  PROVE  t = w * (t \div w) + (t % w) /\ t % w \in 0..(w - 1) /\ t \div w \in Nat
<1>1. t % w \in 0..(w - 1)
  OBVIOUS
<1>2. t = w * (t \div w) + (t % w)
  OBVIOUS
<1>3. t \div w \in Nat
  OBVIOUS
<1>4. QED
  BY <1>1, <1>2, <1>3

\* One more is w more, w times.
LEMMA TimesMore ==
  ASSUME NEW w \in Nat \ {0}, NEW a \in Int, NEW b \in Int, a < b
  PROVE  w * a + w <= w * b
OBVIOUS

\* A number between w times q and the next multiple has the quotient q.
LEMMA QuotientIs ==
  ASSUME NEW w \in Nat \ {0}, NEW d \in Nat, NEW q \in Nat, w * q <= d, d < w * q + w
  PROVE  d \div w = q
<1>1. d = w * (d \div w) + (d % w) /\ d % w \in 0..(w - 1) /\ d \div w \in Nat
  BY Divides
<1>2. PICK p \in Nat, s \in 0..(w - 1) : p = d \div w /\ s = d % w
  BY <1>1
<1>3. d = w * p + s
  BY <1>1, <1>2
<1>4. ~(p < q)
  <2>1. ASSUME p < q PROVE FALSE
    <3>1. w * p + w <= w * q
      BY <2>1, TimesMore
    <3>2. QED
      BY <1>2, <1>3, <3>1
  <2>2. QED
    BY <2>1
<1>5. ~(q < p)
  <2>1. ASSUME q < p PROVE FALSE
    <3>1. w * q + w <= w * p
      BY <2>1, TimesMore
    <3>2. QED
      BY <1>2, <1>3, <3>1
  <2>2. QED
    BY <2>1
<1>6. QED
  BY <1>2, <1>4, <1>5

\* The days of a cycle are days, and the first of them is CycleStart.
LEMMA CycleIs ==
  ASSUME today \in Day, NEW cycle
  PROVE  /\ CycleDays(cycle) \in SUBSET Day /\ today \in CycleDays(cycle)
         /\ CycleStart(cycle)..today = CycleDays(cycle)
<1>1. LastDay \in Nat /\ WeekDays \in Nat \ {0} /\ today \in Nat /\ today <= LastDay
  BY QuotaAssumption DEF Day
<1>2. CycleDays(cycle) \in SUBSET Day /\ today \in CycleDays(cycle)
  BY <1>1 DEF CycleDays
<1>3. CASE cycle # "weekly"
  BY <1>1, <1>3 DEF CycleDays, CycleStart, Day
<1>4. CASE cycle = "weekly"
  <2> DEFINE q == today \div WeekDays
             s == today % WeekDays
  <2>1. today = WeekDays * q + s /\ s \in 0..(WeekDays - 1) /\ q \in Nat
    BY <1>1, Divides
  <2>2. CycleStart(cycle) = WeekDays * q /\ WeekDays * q \in Nat
    BY <1>1, <1>4, <2>1 DEF CycleStart
  <2>3. ASSUME NEW d \in CycleDays(cycle) PROVE d \in CycleStart(cycle)..today
    <3>1. d \in Nat /\ d <= today /\ d \div WeekDays = q
      BY <1>1, <2>3 DEF CycleDays, Day
    <3>2. d = WeekDays * q + (d % WeekDays) /\ d % WeekDays \in 0..(WeekDays - 1)
      BY <1>1, <3>1, Divides
    <3> HIDE DEF q, s
    <3>3. QED
      BY <2>2, <3>1, <3>2
  <2>4. ASSUME NEW d \in CycleStart(cycle)..today PROVE d \in CycleDays(cycle)
    <3>1. d \in Nat /\ d <= today /\ WeekDays * q <= d
      BY <1>1, <2>2, <2>4
    <3>2. d < WeekDays * q + WeekDays
      <4> HIDE DEF q, s
      <4>1. QED
        BY <1>1, <2>1, <2>2, <3>1
    <3>3. d \div WeekDays = q
      <4> HIDE DEF q, s
      <4>1. QED
        BY <1>1, <2>1, <3>1, <3>2, QuotientIs
    <3>4. QED
      BY <1>1, <1>4, <3>1, <3>3 DEF CycleDays, Day
  <2>5. QED
    BY <1>2, <2>3, <2>4
<1>5. QED
  BY <1>2, <1>3, <1>4

\* The day after: a week that goes on has it in addition, any other cycle begins with it.
LEMMA CycleGoesOn ==
  ASSUME today \in Day, today' = today + 1, today' \in Day, NEW cycle
  PROVE  IF cycle = "weekly" /\ ((today + 1) % WeekDays) # 0
         THEN CycleDays(cycle)' = CycleDays(cycle) \cup {today'}
         ELSE CycleDays(cycle)' = {today'}
<1>1. LastDay \in Nat /\ WeekDays \in Nat \ {0} /\ today \in Nat /\ today <= LastDay
  BY QuotaAssumption DEF Day
<1>2. CASE cycle # "weekly"
  BY <1>1, <1>2 DEF CycleDays, Day
<1>3. CASE cycle = "weekly"
  <2> DEFINE q == (today + 1) \div WeekDays
             s == (today + 1) % WeekDays
  <2>1. today + 1 = WeekDays * q + s /\ s \in 0..(WeekDays - 1) /\ q \in Nat
    <3>1. PICK t \in Nat : t = today + 1
      BY <1>1
    <3>2. t = WeekDays * (t \div WeekDays) + (t % WeekDays) /\ t % WeekDays \in 0..(WeekDays - 1)
          /\ t \div WeekDays \in Nat
      BY <1>1, Divides
    <3>3. QED
      BY <3>1, <3>2
  <2>2. WeekDays * q \in Nat
    BY <1>1, <2>1
  <2>3. CASE s # 0
    <3>1. WeekDays * q <= today /\ today < WeekDays * q + WeekDays
      <4> HIDE DEF q, s
      <4>1. QED
        BY <1>1, <2>1, <2>2, <2>3
    <3>2. today \div WeekDays = q
      <4> HIDE DEF q, s
      <4>1. QED
        BY <1>1, <2>1, <3>1, QuotientIs
    <3>3. QED
      BY <1>1, <1>3, <2>3, <3>2 DEF CycleDays, Day
  <2>4. CASE s = 0
    <3>1. ASSUME NEW d \in Day, d <= today PROVE d \div WeekDays # q
      <4>1. d \in Nat /\ d < WeekDays * q
        BY <1>1, <2>1, <2>2, <2>4, <3>1 DEF Day
      <4>2. d = WeekDays * (d \div WeekDays) + (d % WeekDays) /\ d % WeekDays \in 0..(WeekDays - 1)
        BY <1>1, <4>1, Divides
      <4>3. ASSUME d \div WeekDays = q PROVE FALSE
        <5>1. d = WeekDays * q + (d % WeekDays)
          BY <4>2, <4>3
        <5> HIDE DEF q
        <5>2. QED
          BY <2>2, <4>1, <4>2, <5>1
      <4>4. QED
        BY <4>3
    <3>2. QED
      BY <1>1, <1>3, <2>4, <3>1 DEF CycleDays, Day
  <2>5. QED
    BY <1>3, <2>3, <2>4
<1>4. QED
  BY <1>2, <1>3

-----------------------------------------------------------------------------
(* The inductive invariant *)

QgLogs == [calls : Nat, changes : Nat, losses : Nat, snapshots : Nat,
           last : {NoPolicy} \cup Policy, overlap : BOOLEAN, base : Nat, behind : Nat]

Assigns(h) == assigning[h] # NoAssigning

\* Who assigns has a policy.
AssignsPolicies == \A h \in QgHandler : Assigns(h) => assigning[h].policy \in Policy

\* While assignments do not meet there is one at a time and one row at most, the last one's,
\* which the next is going to change.
OneAssignment ==
  ~qgLog.overlap =>
    /\ \A h, g \in QgHandler : Assigns(h) /\ Assigns(g) => h = g
    /\ assigned = <<>> \/ assigned = <<qgLog.last>>
    /\ \A h \in QgHandler : Assigns(h) => assigning[h].over = IF assigned = <<>> THEN 0 ELSE 1

\* Nothing is charged on days to come.
ChargedSoFar == \A d \in Day : d > today => charged[d] = 0

QgInv ==
  /\ QgTypeOK /\ qgLog \in QgLogs
  /\ AssignsPolicies
  /\ OneAssignment
  /\ ChargedSoFar
  /\ OverspendIsBehind

-----------------------------------------------------------------------------
(* Costs *)

\* There are finitely many days.
LEMMA DaysAreFinite == IsFiniteSet(Day) /\ {} \in SUBSET Day
BY FS_Interval, QuotaAssumption DEF Day

\* The cost of a cycle is what its days were charged, and the calls under way.
LEMMA CostIs ==
  ASSUME NEW cycle
  PROVE  Cost(cycle) = SumOf(charged, CycleDays(cycle)) + Cardinality(UnderWay)
BY DEF Cost, MapThenSumSet, MapThenFoldSet, SumOf

\* Afterwards, too.
LEMMA CostIsThen ==
  ASSUME NEW cycle
  PROVE  Cost(cycle)' = SumOf(charged', CycleDays(cycle)') + Cardinality(UnderWay')
BY DEF Cost, MapThenSumSet, MapThenFoldSet, SumOf

\* What the days of a cycle were charged, and the calls under way, are numbers.
LEMMA CostType ==
  ASSUME QgInv, NEW cycle
  PROVE  /\ SumOf(charged, CycleDays(cycle)) \in Nat
         /\ IsFiniteSet(UnderWay) /\ Cardinality(UnderWay) \in Nat
         /\ Cost(cycle) \in Nat
<1>1. CycleDays(cycle) \in SUBSET Day
  BY CycleIs DEF QgInv, QgTypeOK
<1>2. SumOf(charged, CycleDays(cycle)) \in Nat
  BY <1>1, DaysAreFinite, SumTakes DEF QgInv, QgTypeOK
<1>3. IsFiniteSet(UnderWay) /\ Cardinality(UnderWay) \in Nat
  <2>1. UnderWay \in SUBSET QgCall
    BY DEF UnderWay
  <2>2. QED
    BY <2>1, QuotaAssumption, FS_Subset, FS_CardinalityType
<1>4. QED
  BY <1>2, <1>3, CostIs

\* What the gate adds up is a number, and it adds up the days of the cycle.
LEMMA SummedIs ==
  ASSUME QgInv, NEW cycle
  PROVE  /\ Summed(cycle) \in Nat
         /\ Lag(cycle) = IF Cost(cycle) > Summed(cycle) THEN Cost(cycle) - Summed(cycle) ELSE 0
<1>1. ASSUME NEW d \in Day PROVE Total(d) \in Nat
  <2>1. PICK rows \in SUBSET Model : sums[d] \in [rows -> Nat]
    BY DEF QgInv, QgTypeOK
  <2>2. IsFiniteSet(rows)
    <3>1. IsFiniteSet(Model)
      <4>1. PICK a, b : a = "model" /\ b = "unknown"
        OBVIOUS
      <4>2. IsFiniteSet({a}) /\ {a, b} = {a} \cup {b}
        BY FS_Singleton
      <4>3. IsFiniteSet({a, b})
        BY <4>2, FS_AddElement
      <4>4. QED
        BY <4>1, <4>3 DEF Model
    <3>2. QED
      BY <3>1, FS_Subset
  <2>3. PICK f \in [rows -> Nat] : f = sums[d]
    BY <2>1
  <2>4. SumOf(f, rows) \in Nat
    BY <2>2, SumTakes
  <2>5. Total(d) = SumOf(f, rows)
    <3>1. Total(d) = SumOf(sums[d], DOMAIN sums[d])
      BY DEF Total, MapThenSumSet, MapThenFoldSet, SumOf
    <3>2. QED
      BY <2>3, <3>1
  <2>6. QED
    BY <2>4, <2>5
<1>2. Totals \in [Day -> Nat]
  BY <1>1 DEF Totals
<1>3. /\ CycleDays(cycle) \in SUBSET Day
      /\ CycleStart(cycle)..today = CycleDays(cycle)
  BY CycleIs DEF QgInv, QgTypeOK
<1>4. Summed(cycle) = SumOf(Totals, CycleDays(cycle))
  <2>1. Summed(cycle) = SumOf(Totals, CycleStart(cycle)..today)
    BY DEF Summed, MapThenSumSet, MapThenFoldSet, SumOf
  <2>2. QED
    BY <1>3, <2>1
<1>5. SumOf(Totals, CycleDays(cycle)) \in Nat
  BY <1>2, <1>3, DaysAreFinite, SumTakes
<1>6. Lag(cycle) = IF Cost(cycle) > SumOf(Totals, CycleDays(cycle))
                   THEN Cost(cycle) - SumOf(Totals, CycleDays(cycle)) ELSE 0
  BY DEF Lag, MapThenSumSet, MapThenFoldSet, SumOf
<1>7. QED
  BY <1>4, <1>5, <1>6

-----------------------------------------------------------------------------
(* The steps *)

\* What the history of a step leaves of the assignment and of the overspending.
LogKeeps ==
  /\ qgLog' \in QgLogs
  /\ qgLog'.last = qgLog.last
  /\ ~qgLog'.overlap => ~qgLog.overlap
  /\ qgLog'.base = qgLog.base /\ qgLog'.behind = qgLog.behind
  /\ qgLog'.snapshots = 0 => qgLog.snapshots = 0

\* OverspendIsBehind, for a cycle by its name.
LEMMA OverspendIs ==
  ASSUME NEW cycle, cycle = qgLog.last.cycle
  PROVE  OverspendIsBehind <=>
           (~qgLog.overlap /\ qgLog.snapshots = 0 /\ assigned # <<>> /\ ~qgLog.last.unlimited =>
              \/ Cost(cycle) <= qgLog.last.limit + qgLog.behind
              \/ Cost(cycle) <= qgLog.base)
BY DEF OverspendIsBehind

\* The limit of the last assignment is a number.
LEMMA LimitIs ==
  ASSUME QgInv
  PROVE  /\ qgLog \in QgLogs /\ qgLog.last.limit \in Nat
         /\ qgLog.behind \in Nat /\ qgLog.base \in Nat /\ qgLog.snapshots \in Nat
<1>1. qgLog \in QgLogs
  BY DEF QgInv
<1>2. /\ qgLog.behind \in Nat /\ qgLog.base \in Nat /\ qgLog.snapshots \in Nat
      /\ qgLog.last \in {NoPolicy} \cup Policy
  BY <1>1 DEF QgLogs
<1>3. NoPolicy.limit \in Nat
  BY DEF NoPolicy
<1>4. \A p \in Policy : p.limit \in Nat
  BY QuotaAssumption DEF Policy
<1>5. QED
  BY <1>1, <1>2, <1>3, <1>4

\* OverspendIsBehind stays while no cycle costs more.
LEMMA OverspendStays ==
  ASSUME QgInv, UNCHANGED assigned, LogKeeps,
         \A cycle : Cost(cycle)' \in Nat /\ Cost(cycle)' <= Cost(cycle)
  PROVE  OverspendIsBehind'
<1>1. PICK cycle : cycle = qgLog.last.cycle
  OBVIOUS
<1>2. cycle = qgLog'.last.cycle
  BY <1>1 DEF LogKeeps
<1>3. ASSUME ~qgLog'.overlap, qgLog'.snapshots = 0, assigned' # <<>>, ~qgLog'.last.unlimited
      PROVE  \/ Cost(cycle)' <= qgLog'.last.limit + qgLog'.behind
             \/ Cost(cycle)' <= qgLog'.base
  <2>1. \/ Cost(cycle) <= qgLog.last.limit + qgLog.behind
        \/ Cost(cycle) <= qgLog.base
    BY <1>1, <1>3, OverspendIs DEF QgInv, LogKeeps
  <2>2. Cost(cycle) \in Nat /\ Cost(cycle)' \in Nat /\ Cost(cycle)' <= Cost(cycle)
    BY CostType
  <2> HIDE DEF Cost
  <2>3. QED
    BY <2>1, <2>2, LimitIs DEF LogKeeps
<1>4. QED
  BY <1>2, <1>3 DEF OverspendIsBehind

\* A step that neither assigns nor admits, nor ends a day, and after which no cycle costs more.
LEMMA QuietHolds ==
  ASSUME QgInv, UNCHANGED <<assigned, assigning, today>>, LogKeeps, QgTypeOK', ChargedSoFar',
         \A cycle : Cost(cycle)' \in Nat /\ Cost(cycle)' <= Cost(cycle)
  PROVE  QgInv'
<1>1. AssignsPolicies'
  BY DEF QgInv, AssignsPolicies, Assigns
<1>2. OneAssignment'
  BY DEF QgInv, OneAssignment, Assigns, LogKeeps
<1>3. OverspendIsBehind'
  BY OverspendStays
<1>4. QED
  BY <1>1, <1>2, <1>3 DEF QgInv, LogKeeps

\* A cycle costs the same while nothing is charged and the calls and the day are the same.
LEMMA CostStays ==
  ASSUME QgInv, UNCHANGED <<charged, calls, today>>, NEW cycle
  PROVE  Cost(cycle)' \in Nat /\ Cost(cycle)' = Cost(cycle)
<1>1. CycleDays(cycle)' = CycleDays(cycle) /\ UnderWay' = UnderWay
  BY DEF CycleDays, UnderWay
<1>2. QED
  BY <1>1, CostIs, CostIsThen, CostType

\* A call that ends is one less under way.
LEMMA OneLessUnderWay ==
  ASSUME QgInv, NEW c \in QgCall, calls[c] = "called", calls' = [calls EXCEPT ![c] = "none"]
  PROVE  /\ calls' \in [QgCall -> {"none", "called"}]
         /\ Cardinality(UnderWay') \in Nat
         /\ Cardinality(UnderWay') = Cardinality(UnderWay) - 1
<1>1. UnderWay' = UnderWay \ {c} /\ c \in UnderWay
  BY DEF UnderWay, QgInv, QgTypeOK
<1>2. IsFiniteSet(UnderWay)
  BY CostType
<1>3. /\ Cardinality(UnderWay \ {c}) =
           IF c \in UnderWay THEN Cardinality(UnderWay) - 1 ELSE Cardinality(UnderWay)
      /\ IsFiniteSet(UnderWay \ {c})
  BY <1>2, FS_RemoveElement
<1>4. Cardinality(UnderWay \ {c}) \in Nat
  BY <1>3, FS_CardinalityType
<1>5. calls' \in [QgCall -> {"none", "called"}]
  BY DEF QgInv, QgTypeOK
<1> HIDE DEF UnderWay
<1>6. QED
  BY <1>1, <1>3, <1>4, <1>5

\* A call that is charged costs what it did under way.
LEMMA ChargeStays ==
  ASSUME QgInv, NEW c \in QgCall, calls[c] = "called", calls' = [calls EXCEPT ![c] = "none"],
         charged' = [charged EXCEPT ![today] = @ + 1], UNCHANGED today
  PROVE  /\ charged' \in [Day -> Nat] /\ ChargedSoFar'
         /\ \A cycle : Cost(cycle)' \in Nat /\ Cost(cycle)' <= Cost(cycle)
<1>1. today \in Day /\ charged \in [Day -> Nat] /\ \A d \in Day : d \in Nat
  BY DEF QgInv, QgTypeOK, Day
<1>2. /\ charged' \in [Day -> Nat] /\ charged'[today] = charged[today] + 1
      /\ \A d \in Day : d # today => charged'[d] = charged[d]
  BY <1>1
<1>3. ChargedSoFar'
  BY <1>1, <1>2 DEF QgInv, ChargedSoFar
<1>4. ASSUME NEW cycle PROVE Cost(cycle)' \in Nat /\ Cost(cycle)' <= Cost(cycle)
  <2>1. CycleDays(cycle) \in SUBSET Day /\ today \in CycleDays(cycle)
    BY <1>1, CycleIs
  <2>2. CycleDays(cycle)' = CycleDays(cycle)
    BY DEF CycleDays
  <2>3. PICK S \in SUBSET Day, f \in [Day -> Nat], g \in [Day -> Nat], x \in Day :
          S = CycleDays(cycle) /\ f = charged /\ g = charged' /\ x = today
    BY <1>1, <1>2, <2>1
  <2>4. x \in S /\ g[x] = f[x] + 1 /\ \A y \in S \ {x} : g[y] = f[y]
    BY <1>2, <2>1, <2>3
  <2>5. SumOf(g, S) = SumOf(f, S) + 1
    BY <2>4, DaysAreFinite, SumGrows
  <2>6. SumOf(charged', CycleDays(cycle)') = SumOf(charged, CycleDays(cycle)) + 1
    BY <2>2, <2>3, <2>5
  <2>7. /\ Cardinality(UnderWay') \in Nat
        /\ Cardinality(UnderWay') = Cardinality(UnderWay) - 1
    BY OneLessUnderWay
  <2>8. /\ SumOf(charged, CycleDays(cycle)) \in Nat /\ Cardinality(UnderWay) \in Nat
        /\ Cost(cycle) = SumOf(charged, CycleDays(cycle)) + Cardinality(UnderWay)
    BY CostIs, CostType
  <2>9. Cost(cycle)' = SumOf(charged', CycleDays(cycle)') + Cardinality(UnderWay')
    BY CostIsThen
  <2> HIDE DEF UnderWay, Cost, CycleDays
  <2>10. QED
    BY <2>6, <2>7, <2>8, <2>9
<1>5. QED
  BY <1>2, <1>3, <1>4

\* The rows of a policy change, or the gate refuses: the calls and the sums are the same.
LEMMA AsideHolds ==
  ASSUME QgInv,
         \/ \E t \in QgPolicy : CreatePolicy(t) \/ UpdatePolicy(t) \/ DeletePolicy(t)
         \/ Refuse429
  PROVE  QgInv'
<1>1. UNCHANGED <<assigned, assigning, calls, events, sums, today, charged>>
  BY DEF CreatePolicy, UpdatePolicy, DeletePolicy, PolicyChanges, Refuse429
<1>2. LogKeeps
  <2>1. qgLog \in QgLogs
    BY DEF QgInv
  <2>2. \/ qgLog' = [qgLog EXCEPT !.changes = @ + 1]
        \/ qgLog' = [qgLog EXCEPT !.calls = @ + 1]
    BY DEF CreatePolicy, UpdatePolicy, DeletePolicy, PolicyChanges, Refuse429
  <2>3. QED
    BY <2>1, <2>2 DEF LogKeeps, QgLogs
<1>3. templates' \in [QgPolicy -> {NoPolicy} \cup Policy]
  BY DEF CreatePolicy, UpdatePolicy, DeletePolicy, PolicyChanges, Refuse429, QgInv, QgTypeOK
<1>4. QgTypeOK' /\ ChargedSoFar'
  BY <1>1, <1>3 DEF QgInv, QgTypeOK, ChargedSoFar
<1>5. \A cycle : Cost(cycle)' \in Nat /\ Cost(cycle)' <= Cost(cycle)
  BY <1>1, CostStays
<1>6. QED
  BY <1>1, <1>2, <1>4, <1>5, QuietHolds

\* A call ends: answered, refused, or answered without an event.
LEMMA CallEnds ==
  ASSUME QgInv, NEW c \in QgCall, Answers(c) \/ ModelFails(c) \/ EventLost(c)
  PROVE  QgInv'
<1>1. /\ calls[c] = "called" /\ calls' = [calls EXCEPT ![c] = "none"]
      /\ UNCHANGED <<templates, assigned, assigning, sums, today>>
  BY DEF Answers, ModelFails, EventLost
<1>2. LogKeeps
  <2>1. qgLog \in QgLogs
    BY DEF QgInv
  <2>2. qgLog' = qgLog \/ qgLog' = [qgLog EXCEPT !.losses = @ + 1]
    BY DEF Answers, ModelFails, EventLost
  <2>3. QED
    BY <2>1, <2>2 DEF LogKeeps, QgLogs
<1>3. events' \in [Day -> Nat]
  <2>1. events \in [Day -> Nat] /\ today \in Day
    BY DEF QgInv, QgTypeOK
  <2>2. UNCHANGED events \/ events' = [events EXCEPT ![today] = @ + 1]
    BY DEF Answers, ModelFails, EventLost
  <2>3. QED
    BY <2>1, <2>2
<1>4. /\ charged' \in [Day -> Nat] /\ ChargedSoFar'
      /\ \A cycle : Cost(cycle)' \in Nat /\ Cost(cycle)' <= Cost(cycle)
  <2>1. CASE Answers(c) \/ EventLost(c)
    <3>1. charged' = [charged EXCEPT ![today] = @ + 1]
      BY <2>1 DEF Answers, EventLost
    <3>2. QED
      BY <1>1, <3>1, ChargeStays
  <2>2. CASE ModelFails(c)
    <3>1. UNCHANGED charged
      BY <2>2 DEF ModelFails
    <3>2. charged' \in [Day -> Nat] /\ ChargedSoFar'
      BY <1>1, <3>1 DEF QgInv, QgTypeOK, ChargedSoFar
    <3>3. ASSUME NEW cycle PROVE Cost(cycle)' \in Nat /\ Cost(cycle)' <= Cost(cycle)
      <4>1. CycleDays(cycle)' = CycleDays(cycle)
        BY <1>1 DEF CycleDays
      <4>2. /\ Cardinality(UnderWay') \in Nat
            /\ Cardinality(UnderWay') = Cardinality(UnderWay) - 1
        BY <1>1, OneLessUnderWay
      <4>3. /\ SumOf(charged, CycleDays(cycle)) \in Nat /\ Cardinality(UnderWay) \in Nat
            /\ Cost(cycle) = SumOf(charged, CycleDays(cycle)) + Cardinality(UnderWay)
        BY CostIs, CostType
      <4>4. Cost(cycle)' = SumOf(charged, CycleDays(cycle)) + Cardinality(UnderWay')
        BY <3>1, <4>1, CostIsThen
      <4> HIDE DEF UnderWay, Cost, CycleDays
      <4>5. QED
        BY <4>2, <4>3, <4>4
    <3>4. QED
      BY <3>2, <3>3
  <2>3. QED
    BY <2>1, <2>2
<1>5. QgTypeOK'
  <2>1. calls' \in [QgCall -> {"none", "called"}]
    BY <1>1, OneLessUnderWay
  <2>2. QED
    BY <1>1, <1>3, <1>4, <2>1 DEF QgInv, QgTypeOK
<1>6. QED
  BY <1>1, <1>2, <1>4, <1>5, QuietHolds

\* The sums move on: the usage worker adds an event, or a snapshot overwrites.
LEMMA SumsMove ==
  ASSUME QgInv, (\E d \in Day : Sum(d)) \/ Snapshot
  PROVE  QgInv'
<1>1. UNCHANGED <<templates, assigned, assigning, calls, today, charged>>
  BY DEF Sum, Snapshot
<1>2. LogKeeps
  <2>1. qgLog \in QgLogs
    BY DEF QgInv
  <2>2. qgLog' = qgLog \/ qgLog' = [qgLog EXCEPT !.snapshots = @ + 1]
    BY DEF Sum, Snapshot
  <2>3. QED
    BY <2>1, <2>2 DEF LogKeeps, QgLogs
<1>3. ASSUME NEW rows \in SUBSET Model, NEW f \in [rows -> Nat], NEW m \in Model, NEW n \in Nat
      PROVE  \E r \in SUBSET Model : WithRow(f, m, n) \in [r -> Nat]
  <2>1. WithRow(f, m, n) \in [rows \cup {m} -> Nat]
    BY DEF WithRow
  <2>2. rows \cup {m} \in SUBSET Model
    OBVIOUS
  <2>3. QED
    BY <2>1, <2>2
<1>4. /\ DOMAIN sums = Day
      /\ \A d \in Day : \E rows \in SUBSET Model : sums[d] \in [rows -> Nat]
      /\ today \in Day /\ events \in [Day -> Nat]
  BY DEF QgInv, QgTypeOK
<1>5. /\ DOMAIN sums' = Day
      /\ \A d \in Day : \E rows \in SUBSET Model : sums'[d] \in [rows -> Nat]
      /\ events' \in [Day -> Nat]
  <2>1. ASSUME NEW d \in Day, Sum(d)
        PROVE  /\ DOMAIN sums' = Day
               /\ \A x \in Day : \E rows \in SUBSET Model : sums'[x] \in [rows -> Nat]
               /\ events' \in [Day -> Nat]
    <3> DEFINE before == IF "model" \in DOMAIN sums[d] THEN sums[d]["model"] ELSE 0
    <3>1. /\ events[d] > 0 /\ events' = [events EXCEPT ![d] = @ - 1]
          /\ sums' = [sums EXCEPT ![d] = WithRow(sums[d], "model", before + 1)]
      BY <2>1 DEF Sum
    <3>2. events' \in [Day -> Nat]
      BY <1>4, <3>1
    <3>3. PICK rows \in SUBSET Model : sums[d] \in [rows -> Nat]
      BY <1>4
    <3>4. PICK f \in [rows -> Nat] : f = sums[d]
      BY <3>3
    <3>5. before + 1 \in Nat
      BY <3>4
    <3>6. PICK m \in Model, n \in Nat : m = "model" /\ n = before + 1
      BY <3>5 DEF Model
    <3>7. \E r \in SUBSET Model : WithRow(f, m, n) \in [r -> Nat]
      BY <1>3
    <3> HIDE DEF before
    <3>8. QED
      BY <1>4, <3>1, <3>2, <3>4, <3>6, <3>7
  <2>2. ASSUME Snapshot
        PROVE  /\ DOMAIN sums' = Day
               /\ \A x \in Day : \E rows \in SUBSET Model : sums'[x] \in [rows -> Nat]
               /\ events' \in [Day -> Nat]
    <3>1. UNCHANGED events
      BY <2>2 DEF Snapshot
    <3>2. PICK n \in 0..MapThenSumSet(LAMBDA d : charged[d], Day),
               m \in IF sums[today] = NoRows THEN {"unknown"} ELSE DOMAIN sums[today] :
                 sums' = [sums EXCEPT ![today] = WithRow(sums[today], m, n)]
      BY <2>2 DEF Snapshot
    <3>3. n \in Nat
      <4>1. n \in 0..SumOf(charged, Day)
        BY <3>2 DEF MapThenSumSet, MapThenFoldSet, SumOf
      <4>2. SumOf(charged, Day) \in Nat
        BY DaysAreFinite, SumTakes DEF QgInv, QgTypeOK
      <4> HIDE DEF Day
      <4>3. QED
        BY <4>1, <4>2
    <3>7. PICK rows \in SUBSET Model : sums[today] \in [rows -> Nat]
      BY <1>4
    <3>4. PICK f \in [rows -> Nat] : f = sums[today]
      BY <3>7
    <3>5. m \in Model
      BY <3>2, <3>4 DEF Model
    <3>6. \E r \in SUBSET Model : WithRow(f, m, n) \in [r -> Nat]
      BY <1>3, <3>3, <3>5
    <3>8. QED
      BY <1>4, <3>1, <3>2, <3>4, <3>6
  <2>3. QED
    BY <2>1, <2>2
<1>6. QgTypeOK' /\ ChargedSoFar'
  BY <1>1, <1>5 DEF QgInv, QgTypeOK, ChargedSoFar
<1>7. \A cycle : Cost(cycle)' \in Nat /\ Cost(cycle)' <= Cost(cycle)
  BY <1>1, CostStays
<1>8. QED
  BY <1>1, <1>2, <1>6, <1>7, QuietHolds

\* An assignment begins with the policy it finds, and the row it is going to change.
LEMMA AssignmentBegins ==
  ASSUME QgInv, NEW h \in QgHandler, NEW t \in QgPolicy, BeginAssign(h, t)
  PROVE  QgInv'
<1>1. PICK r \in Existing :
        assigning' = [assigning EXCEPT ![h] = [policy |-> templates[t], over |-> r]]
  BY DEF BeginAssign
<1>2. UNCHANGED <<templates, assigned, calls, events, sums, today, charged>>
  BY DEF BeginAssign
<1>3. templates[t] \in Policy
  BY DEF BeginAssign, QgInv, QgTypeOK
<1>4. r \in Nat /\ (assigned = <<>> => r = 0) /\ (assigned = <<qgLog.last>> => r = 1)
  <2>1. assigned \in Seq(Policy)
    BY DEF QgInv, QgTypeOK
  <2>2. CASE assigned = <<>>
    BY <2>2 DEF Existing
  <2>3. CASE assigned # <<>>
    <3>1. r \in DOMAIN assigned
      BY <2>3 DEF Existing
    <3>2. QED
      BY <2>1, <2>3, <3>1
  <2>4. QED
    BY <2>2, <2>3
<1>5. LogKeeps /\ (~qgLog'.overlap => \A g \in QgHandler : ~Assigns(g))
  <2>1. qgLog \in QgLogs
    BY DEF QgInv
  <2>2. PICK met \in BOOLEAN :
          met = (qgLog.overlap \/ \E g \in QgHandler : assigning[g] # NoAssigning)
    OBVIOUS
  <2>3. PICK n \in Nat : n = qgLog.changes + 1
    BY <2>1 DEF QgLogs
  <2>4. qgLog' = [qgLog EXCEPT !.changes = n, !.overlap = met]
    BY <2>2, <2>3 DEF BeginAssign
  <2>5. /\ qgLog' \in QgLogs /\ qgLog'.overlap = met
        /\ qgLog'.last = qgLog.last /\ qgLog'.base = qgLog.base
        /\ qgLog'.behind = qgLog.behind /\ qgLog'.snapshots = qgLog.snapshots
    BY <2>1, <2>4 DEF QgLogs
  <2>6. QED
    BY <2>2, <2>5 DEF LogKeeps, Assigns
<1>6. /\ assigning' \in [QgHandler -> [policy : {NoPolicy} \cup Policy, over : Nat]]
      /\ assigning'[h].policy \in Policy /\ assigning'[h].over = r
      /\ \A g \in QgHandler : g # h => assigning'[g] = assigning[g]
  <2>1. assigning \in [QgHandler -> [policy : {NoPolicy} \cup Policy, over : Nat]]
    BY DEF QgInv, QgTypeOK
  <2>2. [policy |-> templates[t], over |-> r] \in [policy : {NoPolicy} \cup Policy, over : Nat]
    BY <1>3, <1>4
  <2>3. QED
    BY <1>1, <1>3, <2>1, <2>2
<1>7. QgTypeOK' /\ ChargedSoFar'
  BY <1>2, <1>6 DEF QgInv, QgTypeOK, ChargedSoFar
<1>8. AssignsPolicies'
  BY <1>6 DEF QgInv, AssignsPolicies, Assigns
<1>9. OneAssignment'
  <2>1. SUFFICES ASSUME ~qgLog'.overlap PROVE OneAssignment'
    BY DEF OneAssignment
  <2>2. ~qgLog.overlap /\ qgLog'.last = qgLog.last
    BY <1>5, <2>1 DEF LogKeeps
  <2>3. \A g \in QgHandler : Assigns(g)' => g = h
    BY <1>5, <1>6, <2>1 DEF Assigns
  <2>4. assigned = <<>> \/ assigned = <<qgLog.last>>
    BY <2>2 DEF QgInv, OneAssignment
  <2>5. assigning'[h].over = IF assigned = <<>> THEN 0 ELSE 1
    BY <1>4, <1>6, <2>4
  <2>6. QED
    BY <1>2, <2>2, <2>3, <2>4, <2>5 DEF OneAssignment
<1>10. OverspendIsBehind'
  <2>1. \A cycle : Cost(cycle)' \in Nat /\ Cost(cycle)' <= Cost(cycle)
    BY <1>2, CostStays, CostType
  <2>2. QED
    BY <1>2, <1>5, <2>1, OverspendStays
<1>11. QED
  BY <1>5, <1>7, <1>8, <1>9, <1>10 DEF QgInv, LogKeeps

\* An assignment is committed: its policy is the only row unless it met another.
LEMMA AssignmentEnds ==
  ASSUME QgInv, NEW h \in QgHandler, CommitAssign(h)
  PROVE  QgInv'
<1>1. /\ Assigns(h) /\ assigning[h].policy \in Policy
      /\ assigning' = [assigning EXCEPT ![h] = NoAssigning]
      /\ UNCHANGED <<templates, calls, events, sums, today, charged>>
  BY DEF CommitAssign, QgInv, AssignsPolicies, Assigns
<1>2. PICK p \in Policy, o \in Nat : p = assigning[h].policy /\ o = assigning[h].over
  BY <1>1 DEF QgInv, QgTypeOK
<1>3. assigned' = IF o = 0 THEN Append(assigned, p) ELSE [assigned EXCEPT ![o] = p]
  BY <1>2 DEF CommitAssign
<1>4. assigned' \in Seq(Policy)
  <2>1. assigned \in Seq(Policy)
    BY DEF QgInv, QgTypeOK
  <2>2. CASE o = 0
    BY <1>3, <2>1, <2>2
  <2>3. CASE o # 0
    <3>1. PICK n \in Nat : assigned \in [1..n -> Policy]
      <4>1. Len(assigned) \in Nat /\ assigned \in [1..Len(assigned) -> Policy]
        BY <2>1
      <4>2. QED
        BY <4>1
    <3>2. [assigned EXCEPT ![o] = p] \in [1..n -> Policy]
      BY <3>1
    <3>3. \A f \in [1..n -> Policy] : f \in Seq(Policy)
      OBVIOUS
    <3>4. QED
      BY <1>3, <2>3, <3>2, <3>3
  <2>4. QED
    BY <2>2, <2>3
<1>5. /\ assigning' \in [QgHandler -> [policy : {NoPolicy} \cup Policy, over : Nat]]
      /\ assigning'[h] = NoAssigning
      /\ \A g \in QgHandler : g # h => assigning'[g] = assigning[g]
  <2>1. NoAssigning \in [policy : {NoPolicy} \cup Policy, over : Nat]
    BY DEF NoAssigning
  <2>2. QED
    BY <1>1, <2>1 DEF QgInv, QgTypeOK
<1>6. /\ qgLog' \in QgLogs /\ qgLog'.last = p
      /\ qgLog'.overlap = qgLog.overlap /\ qgLog'.base = Cost(p.cycle)
  <2>1. qgLog \in QgLogs
    BY DEF QgInv
  <2>2. PICK n \in Nat : n = Cost(p.cycle)
    BY CostType
  <2>3. qgLog' = [qgLog EXCEPT !.last = p, !.behind = 0, !.base = n]
    BY <1>2, <2>2 DEF CommitAssign
  <2>4. /\ qgLog' \in QgLogs /\ qgLog'.last = p
        /\ qgLog'.overlap = qgLog.overlap /\ qgLog'.base = n
    BY <2>1, <2>3 DEF QgLogs
  <2>5. QED
    BY <2>2, <2>4
<1>7. QgTypeOK' /\ ChargedSoFar'
  BY <1>1, <1>4, <1>5 DEF QgInv, QgTypeOK, ChargedSoFar
<1>8. AssignsPolicies'
  BY <1>5 DEF QgInv, AssignsPolicies, Assigns
<1>9. OneAssignment'
  <2>1. SUFFICES ASSUME ~qgLog.overlap PROVE OneAssignment'
    BY <1>6 DEF OneAssignment
  <2>2. \A g \in QgHandler : ~Assigns(g)'
    BY <1>1, <1>5, <2>1 DEF Assigns, QgInv, OneAssignment
  <2>3. assigned = <<>> \/ assigned = <<qgLog.last>>
    BY <2>1 DEF QgInv, OneAssignment
  <2>4. o = IF assigned = <<>> THEN 0 ELSE 1
    BY <1>1, <1>2, <2>1 DEF QgInv, OneAssignment
  <2>5. assigned' = <<p>>
    <3>1. CASE assigned = <<>>
      BY <1>3, <2>4, <3>1
    <3>2. CASE assigned # <<>>
      <4>1. o = 1 /\ assigned = <<qgLog.last>>
        BY <2>3, <2>4, <3>2
      <4>2. assigned' = [assigned EXCEPT ![o] = p]
        BY <1>3, <4>1
      <4>3. assigned' = [<<qgLog.last>> EXCEPT ![1] = p]
        BY <4>1, <4>2
      <4>4. QED
        BY <4>3
    <3>3. QED
      BY <3>1, <3>2
  <2>6. QED
    BY <1>6, <2>2, <2>5 DEF OneAssignment
<1>10. OverspendIsBehind'
  <2>1. PICK cycle : cycle = p.cycle
    OBVIOUS
  <2>2. Cost(cycle)' \in Nat /\ Cost(cycle)' = Cost(cycle)
    BY <1>1, CostStays
  <2>3. qgLog'.last.cycle = cycle /\ qgLog'.base = Cost(cycle)
    BY <1>6, <2>1
  <2>4. Cost(cycle)' <= qgLog'.base
    <3> HIDE DEF Cost
    <3>1. QED
      BY <2>2, <2>3
  <2>5. QED
    BY <2>3, <2>4 DEF OverspendIsBehind
<1>11. QED
  BY <1>6, <1>7, <1>8, <1>9, <1>10 DEF QgInv

\* Of two numbers Max is one, and neither is more.
LEMMA MaxOfTwo ==
  ASSUME NEW a \in Nat, NEW b \in Nat
  PROVE  Max({a, b}) \in Nat /\ a <= Max({a, b}) /\ b <= Max({a, b})
<1>1. \E x \in {a, b} : \A y \in {a, b} : x >= y
  OBVIOUS
<1>2. Max({a, b}) \in {a, b} /\ \A y \in {a, b} : Max({a, b}) >= y
  BY <1>1 DEF Max
<1>3. QED
  BY <1>2

\* A call is admitted: by the last assignment, so long as the sums are below its limit.
LEMMA AdmissionHolds ==
  ASSUME QgInv, NEW c \in QgCall, Admit(c)
  PROVE  QgInv'
<1>1. /\ calls[c] = "none" /\ MayCall /\ calls' = [calls EXCEPT ![c] = "called"]
      /\ UNCHANGED <<templates, assigned, assigning, events, sums, today, charged>>
  BY DEF Admit
<1>2. PICK cycle : cycle = qgLog.last.cycle
  OBVIOUS
<1>3. PICK lag \in Nat : lag = Lag(cycle)
  <2>1. PICK x \in Nat, y \in Nat : x = Cost(cycle) /\ y = Summed(cycle)
    BY CostType, SummedIs
  <2>2. Lag(cycle) = IF x > y THEN x - y ELSE 0
    BY <2>1, SummedIs
  <2>3. Lag(cycle) \in Nat
    BY <2>2
  <2>4. QED
    BY <2>3
<1>4. qgLog.calls \in Nat /\ qgLog.behind \in Nat
  BY DEF QgInv, QgLogs
<1>5. PICK top \in Nat : top = Max({qgLog.behind, lag})
  BY <1>4, MaxOfTwo
<1>6. PICK n \in Nat : n = qgLog.calls + 1
  BY <1>4
<1>7. /\ qgLog' \in QgLogs /\ qgLog'.behind = top
      /\ qgLog'.last = qgLog.last /\ qgLog'.overlap = qgLog.overlap
      /\ qgLog'.base = qgLog.base /\ qgLog'.snapshots = qgLog.snapshots
  <2>1. qgLog \in QgLogs
    BY DEF QgInv
  <2>2. qgLog' = [qgLog EXCEPT !.calls = n, !.behind = top]
    BY <1>2, <1>3, <1>5, <1>6 DEF Admit
  <2>3. QED
    BY <2>1, <2>2 DEF QgLogs
<1>8. /\ calls' \in [QgCall -> {"none", "called"}]
      /\ UnderWay' = UnderWay \cup {c} /\ c \notin UnderWay
  BY <1>1 DEF UnderWay, QgInv, QgTypeOK
<1>9. Cardinality(UnderWay') = Cardinality(UnderWay) + 1
  <2>1. IsFiniteSet(UnderWay) /\ Cardinality(UnderWay) \in Nat
    BY CostType
  <2> HIDE DEF UnderWay
  <2>2. QED
    BY <1>8, <2>1, FS_AddElement
<1>10. Cost(cycle)' = Cost(cycle) + 1
  <2>1. CycleDays(cycle)' = CycleDays(cycle)
    BY <1>1 DEF CycleDays
  <2>2. /\ SumOf(charged, CycleDays(cycle)) \in Nat /\ Cardinality(UnderWay) \in Nat
        /\ Cost(cycle) = SumOf(charged, CycleDays(cycle)) + Cardinality(UnderWay)
    BY CostIs, CostType
  <2>3. Cost(cycle)' = SumOf(charged, CycleDays(cycle)) + Cardinality(UnderWay')
    BY <1>1, <2>1, CostIsThen
  <2> HIDE DEF UnderWay, Cost, CycleDays
  <2>4. QED
    BY <1>9, <2>2, <2>3
<1>11. QgTypeOK' /\ ChargedSoFar'
  BY <1>1, <1>8 DEF QgInv, QgTypeOK, ChargedSoFar
<1>12. AssignsPolicies' /\ OneAssignment'
  BY <1>1, <1>7 DEF QgInv, AssignsPolicies, OneAssignment, Assigns
<1>13. OverspendIsBehind'
  <2>1. SUFFICES ASSUME ~qgLog.overlap, assigned # <<>>, ~qgLog.last.unlimited
                 PROVE  Cost(cycle)' <= qgLog.last.limit + top
    BY <1>1, <1>2, <1>7 DEF OverspendIsBehind
  <2>2. assigned = <<qgLog.last>>
    BY <2>1 DEF QgInv, OneAssignment
  <2>3. ~Exceeded(qgLog.last)
    BY <1>1, <2>1, <2>2 DEF MayCall
  <2>4. PICK x \in Nat, y \in Nat, z \in Nat :
          x = Cost(cycle) /\ y = Summed(cycle) /\ z = qgLog.last.limit
    BY CostType, SummedIs, LimitIs
  <2>5. y < z
    BY <1>2, <2>3, <2>4 DEF Exceeded
  <2>6. lag = IF x > y THEN x - y ELSE 0
    BY <1>3, <2>4, SummedIs
  <2>7. lag <= top
    BY <1>4, <1>5, MaxOfTwo
  <2>8. x + 1 <= z + top
    BY <2>5, <2>6, <2>7
  <2>9. QED
    BY <1>10, <2>4, <2>8
<1>14. QED
  BY <1>7, <1>11, <1>12, <1>13 DEF QgInv

\* A day begins, and with it maybe a cycle, which has cost nothing but the calls under way.
LEMMA DayHolds ==
  ASSUME QgInv, NextDay
  PROVE  QgInv'
<1>1. /\ today' = today + 1 /\ today \in Day /\ today' \in Day /\ today \in Nat
      /\ UNCHANGED <<templates, assigned, assigning, calls, events, sums, charged>>
  BY QuotaAssumption DEF NextDay, QgInv, QgTypeOK, Day
<1>2. PICK cycle : cycle = qgLog.last.cycle
  OBVIOUS
<1>3. PICK under \in Nat : under = Cardinality(UnderWay) /\ under = Cardinality(UnderWay')
  <2>1. UnderWay' = UnderWay
    BY <1>1 DEF UnderWay
  <2>2. QED
    BY <2>1, CostType
<1>4. charged \in [Day -> Nat] /\ charged[today'] = 0
  BY <1>1 DEF QgInv, QgTypeOK, ChargedSoFar
<1>5. QgTypeOK' /\ ChargedSoFar'
  <2>1. ChargedSoFar'
    <3>1. \A d \in Day : d \in Nat
      BY DEF Day
    <3>2. QED
      BY <1>1, <3>1 DEF QgInv, ChargedSoFar
  <2>2. QED
    BY <1>1, <2>1 DEF QgInv, QgTypeOK
<1>6. Cost(cycle)' = SumOf(charged, CycleDays(cycle)') + under
  BY <1>1, <1>3, CostIsThen
<1>7. CASE cycle = "weekly" /\ ((today + 1) % WeekDays) # 0
  <2>1. qgLog' = qgLog
    BY <1>2, <1>7 DEF NextDay
  <2>2. CycleDays(cycle)' = CycleDays(cycle) \cup {today'}
    BY <1>1, <1>7, CycleGoesOn
  <2>3. CycleDays(cycle) \in SUBSET Day /\ today' \notin CycleDays(cycle)
    BY <1>1, CycleIs DEF CycleDays
  <2>4. PICK S \in SUBSET Day, T \in SUBSET Day, x \in Day :
          S = CycleDays(cycle) /\ x = today' /\ T = S \cup {x}
    BY <1>1, <2>3
  <2>5. SumOf(charged, T) = charged[x] + SumOf(charged, T \ {x}) /\ SumOf(charged, S) \in Nat
    BY <1>4, <2>4, DaysAreFinite, SumTakes
  <2>6. T \ {x} = S
    BY <2>3, <2>4
  <2>7. SumOf(charged, T) = SumOf(charged, S)
    BY <1>4, <2>4, <2>5, <2>6
  <2>8. Cost(cycle)' = Cost(cycle)
    <3>1. Cost(cycle) = SumOf(charged, S) + under
      BY <1>3, <2>4, CostIs
    <3>2. Cost(cycle)' = SumOf(charged, T) + under
      BY <1>6, <2>2, <2>4
    <3>3. QED
      BY <2>7, <3>1, <3>2
  <2>9. OverspendIsBehind'
    BY <1>1, <1>2, <2>1, <2>8 DEF QgInv, OverspendIsBehind
  <2>10. AssignsPolicies' /\ OneAssignment'
    BY <1>1, <2>1 DEF QgInv, AssignsPolicies, OneAssignment, Assigns
  <2>11. QED
    BY <1>5, <2>1, <2>9, <2>10 DEF QgInv
<1>8. CASE ~(cycle = "weekly" /\ ((today + 1) % WeekDays) # 0)
  <2>1. qgLog' = [qgLog EXCEPT !.behind = 0, !.base = under]
    BY <1>2, <1>3, <1>8 DEF NextDay
  <2>2. /\ qgLog' \in QgLogs /\ qgLog'.base = under
        /\ qgLog'.last = qgLog.last /\ qgLog'.overlap = qgLog.overlap
    BY <2>1 DEF QgInv, QgLogs
  <2>3. CycleDays(cycle)' = {today'}
    BY <1>1, <1>8, CycleGoesOn
  <2>4. SumOf(charged, {today'}) = 0
    <3>1. PICK x \in Day : x = today'
      BY <1>1
    <3>2. {x} \in SUBSET Day /\ x \in {x} /\ {x} \ {x} = {}
      OBVIOUS
    <3>3. SumOf(charged, {x}) = charged[x] + SumOf(charged, {x} \ {x}) /\ SumOf(charged, {}) = 0
      BY <1>4, <3>2, DaysAreFinite, SumTakes
    <3>4. SumOf(charged, {x} \ {x}) = 0 /\ charged[x] = 0
      BY <1>4, <3>1, <3>2, <3>3
    <3>5. SumOf(charged, {x}) = 0
      BY <3>3, <3>4
    <3>6. QED
      BY <3>1, <3>5
  <2>5. Cost(cycle)' <= qgLog'.base
    BY <1>6, <2>2, <2>3, <2>4
  <2>6. OverspendIsBehind'
    BY <1>2, <2>2, <2>5 DEF OverspendIsBehind
  <2>7. AssignsPolicies' /\ OneAssignment'
    BY <1>1, <2>2 DEF QgInv, AssignsPolicies, OneAssignment, Assigns
  <2>8. QED
    BY <1>5, <2>2, <2>6, <2>7 DEF QgInv
<1>9. QED
  BY <1>7, <1>8

\* The invariant holds in the beginning.
LEMMA QgInitOK == QgInit => QgInv
<1>1. SUFFICES ASSUME QgInit PROVE QgInv
  OBVIOUS
<1>2. QgTypeOK
  <2>1. NoAssigning \in [policy : {NoPolicy} \cup Policy, over : Nat]
    BY DEF NoAssigning
  <2>2. NoRows \in [{} -> Nat] /\ {} \in SUBSET Model
    BY DEF NoRows
  <2>3. 0 \in Day
    BY QuotaAssumption DEF Day
  <2>4. assigned \in Seq(Policy)
    BY <1>1 DEF QgInit
  <2>5. QED
    BY <1>1, <2>1, <2>2, <2>3, <2>4 DEF QgInit, QgTypeOK
<1>3. qgLog \in QgLogs
  BY <1>1 DEF QgInit, QgLogs
<1>4. AssignsPolicies /\ OneAssignment
  BY <1>1 DEF QgInit, AssignsPolicies, OneAssignment, Assigns
<1>5. ChargedSoFar /\ OverspendIsBehind
  BY <1>1 DEF QgInit, ChargedSoFar, OverspendIsBehind
<1>6. QED
  BY <1>2, <1>3, <1>4, <1>5 DEF QgInv

\* Every step keeps the invariant.
LEMMA QgNextOK == QgInv /\ [QgNext]_qgVars => QgInv'
<1>1. SUFFICES ASSUME QgInv, [QgNext]_qgVars PROVE QgInv'
  OBVIOUS
<1>2. CASE \/ \E t \in QgPolicy : CreatePolicy(t) \/ UpdatePolicy(t) \/ DeletePolicy(t)
           \/ Refuse429
  BY <1>1, <1>2, AsideHolds
<1>3. CASE \E h \in QgHandler, t \in QgPolicy : BeginAssign(h, t)
  BY <1>1, <1>3, AssignmentBegins
<1>4. CASE \E h \in QgHandler : CommitAssign(h)
  BY <1>1, <1>4, AssignmentEnds
<1>5. CASE \E c \in QgCall : Admit(c)
  BY <1>1, <1>5, AdmissionHolds
<1>6. CASE \E c \in QgCall : Answers(c) \/ ModelFails(c) \/ EventLost(c)
  BY <1>1, <1>6, CallEnds
<1>7. CASE (\E d \in Day : Sum(d)) \/ Snapshot
  BY <1>1, <1>7, SumsMove
<1>8. CASE NextDay
  BY <1>1, <1>8, DayHolds
<1>9. CASE UNCHANGED qgVars
  <2>1. UNCHANGED <<templates, assigned, assigning, calls, events, sums, today, charged, qgLog>>
    BY <1>9 DEF qgVars
  <2>2. LogKeeps
    BY <1>1, <2>1 DEF QgInv, LogKeeps
  <2>3. QgTypeOK' /\ ChargedSoFar'
    BY <1>1, <2>1 DEF QgInv, QgTypeOK, ChargedSoFar
  <2>4. \A cycle : Cost(cycle)' \in Nat /\ Cost(cycle)' <= Cost(cycle)
    BY <1>1, <2>1, CostStays, CostType
  <2>5. QED
    BY <1>1, <2>1, <2>2, <2>3, <2>4, QuietHolds
<1>10. QED
  BY <1>1, <1>2, <1>3, <1>4, <1>5, <1>6, <1>7, <1>8, <1>9 DEF QgNext

\* The invariant holds always.
LEMMA QgInvariant == QgSpec => []QgInv
BY QgInitOK, QgNextOK, PTL DEF QgSpec

\* Every variable of the quota gate has its type, with any number of calls, of requests that
\* assign, of days, and of days of a week.
THEOREM QuotaTypeCorrect == QgSpec => []QgTypeOK
<1>1. QgInv => QgTypeOK
  BY DEF QgInv
<1>2. QED
  BY <1>1, QgInvariant, PTL

\* The gate of require_quota goes by the assignment that was committed last unless two met, and
\* what a cycle costs exceeds the limit by no more than the sums were behind when a call was
\* admitted, unless it did from the beginning or a snapshot has overwritten them.
THEOREM GateIsKept == QgSpec => []GateHolds
<1>1. QgInv => GateHolds
  <2>1. SUFFICES ASSUME QgInv PROVE GateHolds
    OBVIOUS
  <2>2. ASSUME ~qgLog.overlap, NEW r \in DOMAIN assigned PROVE assigned[r] = qgLog.last
    <3>1. assigned = <<>> \/ assigned = <<qgLog.last>>
      BY <2>1, <2>2 DEF QgInv, OneAssignment
    <3>2. QED
      BY <2>2, <3>1
  <2>3. QED
    BY <2>1, <2>2 DEF QgInv, GateHolds, LastAssignmentRules
<1>2. QED
  BY <1>1, QgInvariant, PTL

-----------------------------------------------------------------------------
(* The components together *)

\* A behaviour in which one component takes steps and the others rest is a behaviour of each, so
\* what is proved of a component holds in it.
THEOREM PartsOfPortal == AllSpec => Spec /\ AppSpec /\ SkSpec /\ SvSpec /\ PpSpec /\ QgSpec /\
                             MtSpec
<1>1. AllInit => Init /\ AppInit /\ SkInit /\ SvInit /\ PpInit /\ QgInit /\ MtInit
  BY DEF AllInit
<1>2. [AllNext]_allVars => [Next]_vars
  <2>1. UNCHANGED allVars => UNCHANGED vars
    BY DEF allVars
  <2>2. AllNext => Next \/ UNCHANGED vars
    BY Zenon DEF AllNext, Only
  <2>3. QED
    BY <2>1, <2>2
<1>3. [AllNext]_allVars => [AppNext]_appVars
  <2>1. UNCHANGED allVars => UNCHANGED appVars
    BY DEF allVars
  <2>2. AllNext => AppNext \/ UNCHANGED appVars
    BY Zenon DEF AllNext, Only
  <2>3. QED
    BY <2>1, <2>2
<1>4. [AllNext]_allVars => [SkNext]_skVars
  <2>1. UNCHANGED allVars => UNCHANGED skVars
    BY DEF allVars
  <2>2. AllNext => SkNext \/ UNCHANGED skVars
    BY Zenon DEF AllNext, Only
  <2>3. QED
    BY <2>1, <2>2
<1>5. [AllNext]_allVars => [SvNext]_svVars
  <2>1. UNCHANGED allVars => UNCHANGED svVars
    BY DEF allVars
  <2>2. AllNext => SvNext \/ UNCHANGED svVars
    BY Zenon DEF AllNext, Only
  <2>3. QED
    BY <2>1, <2>2
<1>6. [AllNext]_allVars => [PpNext]_pipeVars
  <2>1. UNCHANGED allVars => UNCHANGED pipeVars
    BY DEF allVars
  <2>2. AllNext => PpNext \/ UNCHANGED pipeVars
    BY Zenon DEF AllNext, Only
  <2>3. QED
    BY <2>1, <2>2
<1>7. [AllNext]_allVars => [QgNext]_qgVars
  <2>1. UNCHANGED allVars => UNCHANGED qgVars
    BY DEF allVars
  <2>2. AllNext => QgNext \/ UNCHANGED qgVars
    BY Zenon DEF AllNext, Only
  <2>3. QED
    BY <2>1, <2>2
<1>8. [AllNext]_allVars => [MtNext]_mtVars
  <2>1. UNCHANGED allVars => UNCHANGED mtVars
    BY DEF allVars
  <2>2. AllNext => MtNext \/ UNCHANGED mtVars
    BY Zenon DEF AllNext, Only
  <2>3. QED
    BY <2>1, <2>2
<1>9. QED
  BY <1>1, <1>2, <1>3, <1>4, <1>5, <1>6, <1>7, <1>8, PTL DEF AllSpec, Spec, AppSpec, SkSpec,
    SvSpec, PpSpec, QgSpec, MtSpec

\* Every variable of every component keeps its type.
THEOREM PortalTypesCorrect == AllSpec => []TypesOK
<1>1. AppTypeOK /\ SkTypeOK /\ SvTypeOK /\ PpTypeOK /\ QgTypeOK /\ MtTypeOK => TypesOK
  BY DEF TypesOK
<1>2. QED
  BY <1>1, PartsOfPortal, AppTypeCorrect, SkillTypeCorrect, SurveyTypeCorrect, PipelineTypeCorrect,
    QuotaTypeCorrect, MaintenanceTypeCorrect, PTL
=============================================================================
