---------------------------- MODULE Maintenance ----------------------------
(***************************************************************************)
(* The maintenance mode of the hub: one row, which administrators set      *)
(* (routers/admin.py), and the middleware in front of every other request  *)
(* (main.py), which answers with a page while the mode is on and keeps     *)
(* what it has read of the row in Redis for a while.                       *)
(*                                                                         *)
(* A replica does one thing at a time: neither the middleware nor the      *)
(* administrators' handlers await anything.  Two replicas interleave       *)
(* between their commands to Redis and to the database, all of which are   *)
(* quicker than a tick of the clock.                                       *)
(***************************************************************************)
EXTENDS Naturals

CONSTANTS
  MtReplica,   \* replicas
  MtTtl,       \* ticks that Redis keeps the cached word
  MaxSets,     \* bound: requests of administrators
  MaxMtFaults  \* bound: failed commands

ASSUME MaintenanceAssumption == MtTtl \in Nat \ {0} /\ MaxSets \in Nat /\ MaxMtFaults \in Nat

VARIABLES
  mtRow,    \* the row: "missing", "off" or "on"
  cached,  \* "maintenance:active" in Redis: its word and the ticks it has left
  doing,   \* what each replica is doing
  answer,  \* history: the middleware's answer since the last command of another kind
  stable,  \* ticks since the row changed, up to MtTtl + 1
  mtLeft   \* history: bounds

mtVars == <<mtRow, cached, doing, answer, stable, mtLeft>>

NoWord == [word |-> "none", left |-> 0]
MtResting == [pc |-> "rest", value |-> "none", read |-> "none"]

MtInit ==
  /\ mtRow = "missing"
  /\ cached = NoWord
  /\ doing = [r \in MtReplica |-> MtResting]
  /\ answer = "none"
  /\ stable = 0
  /\ mtLeft = [sets |-> MaxSets, faults |-> MaxMtFaults]

\* Replica r goes on with pc, having read the row or the value to set.
MtAt(r, pc) == doing[r].pc = pc
MtGoes(r, pc, value, read) ==
  doing' = [doing EXCEPT ![r] = [pc |-> pc, value |-> value, read |-> read]]
MtRests(r) == doing' = [doing EXCEPT ![r] = MtResting]

MtFault(r) == mtLeft.faults > 0 /\ mtLeft' = [mtLeft EXCEPT !.faults = @ - 1]

-----------------------------------------------------------------------------
(* The middleware *)

\* Mutant of Means: any word is taken for a true one.
MeansAny(word) == TRUE

\* The word is compared with a string of bytes, and the client of Redis decodes its answers.
Means(word) == word = "bytes 1"

\* What a request is answered.
Replied(on) == answer' = IF on THEN "page" ELSE "passed"

CacheHit(r) ==
  /\ MtAt(r, "rest") /\ cached # NoWord
  /\ Replied(Means(cached.word))
  /\ UNCHANGED <<mtRow, cached, doing, stable, mtLeft>>

CacheMiss(r) ==
  /\ MtAt(r, "rest") /\ cached = NoWord
  /\ MtGoes(r, "look", "cache", "none")
  /\ answer' = "none"
  /\ UNCHANGED <<mtRow, cached, stable, mtLeft>>

\* There is no connection to Redis: the row is read for this request only.
NoCache(r) ==
  /\ MtAt(r, "rest") /\ MtFault(r)
  /\ MtGoes(r, "look", "once", "none")
  /\ answer' = "none"
  /\ UNCHANGED <<mtRow, cached, stable>>

LookAtRow(r) ==
  /\ MtAt(r, "look")
  /\ IF mtRow # "missing" /\ doing[r].value = "cache"
       THEN MtGoes(r, "keep", "cache", mtRow) /\ answer' = "none"
       ELSE MtRests(r) /\ Replied(mtRow = "on")
  /\ UNCHANGED <<mtRow, cached, stable, mtLeft>>

WordOf(read) == IF read = "on" THEN "1" ELSE "0"

KeepWord(r) ==
  /\ MtAt(r, "keep")
  /\ cached' = [word |-> WordOf(doing[r].read), left |-> MtTtl]
  /\ MtRests(r) /\ Replied(doing[r].read = "on")
  /\ UNCHANGED <<mtRow, stable, mtLeft>>

\* A command fails: with nothing read the request passes.
MiddlewareFault(r) ==
  /\ MtAt(r, "rest") \/ MtAt(r, "look") \/ MtAt(r, "keep")
  /\ MtFault(r)
  /\ MtRests(r)
  /\ answer' = IF MtAt(r, "keep") /\ doing[r].read = "on" THEN "page" ELSE "passed by fault"
  /\ UNCHANGED <<mtRow, cached, stable>>

-----------------------------------------------------------------------------
(* Administrators *)

\* get_maintenance, "none", and set_maintenance begin with _get_or_create_maintenance.
BeginSet(r, value) ==
  /\ MtAt(r, "rest") /\ mtLeft.sets > 0
  /\ mtLeft' = [mtLeft EXCEPT !.sets = @ - 1]
  /\ IF mtRow = "missing" THEN MtGoes(r, "create", value, "none")
       ELSE IF value = "none" THEN MtRests(r) ELSE MtGoes(r, "set", value, mtRow)
  /\ answer' = "none"
  /\ UNCHANGED <<mtRow, cached, stable>>

\* Of two insertions of the row, the second breaks the primary key, and the request fails.
CreateRow(r) ==
  /\ MtAt(r, "create")
  /\ mtRow' = IF mtRow = "missing" THEN "off" ELSE mtRow
  /\ IF mtRow = "missing" /\ doing[r].value # "none" THEN MtGoes(r, "set", doing[r].value, "off")
       ELSE MtRests(r)
  /\ answer' = "none"
  /\ UNCHANGED <<cached, stable, mtLeft>>

\* The column is written if it differs from what was read.
CommitMode(r) ==
  /\ MtAt(r, "set")
  /\ mtRow' = IF doing[r].value # doing[r].read THEN doing[r].value ELSE mtRow
  /\ stable' = IF mtRow' # mtRow THEN 0 ELSE stable
  /\ MtGoes(r, "drop", "none", "none")
  /\ answer' = "none"
  /\ UNCHANGED <<cached, mtLeft>>

DropWord(r) ==
  /\ MtAt(r, "drop")
  /\ \/ cached' = NoWord /\ UNCHANGED mtLeft
     \/ MtFault(r) /\ UNCHANGED cached
  /\ MtRests(r)
  /\ answer' = "none"
  /\ UNCHANGED <<mtRow, stable>>

-----------------------------------------------------------------------------

MtTick ==
  /\ \A r \in MtReplica : MtAt(r, "rest")
  /\ stable' = IF stable > MtTtl THEN stable ELSE stable + 1
  /\ cached' = IF cached.left > 1 THEN [cached EXCEPT !.left = @ - 1] ELSE NoWord
  /\ answer' = "none"
  /\ UNCHANGED <<mtRow, doing, mtLeft>>

MtNext ==
  \/ \E r \in MtReplica :
       \/ CacheHit(r) \/ CacheMiss(r) \/ NoCache(r) \/ LookAtRow(r) \/ KeepWord(r)
       \/ MiddlewareFault(r) \/ CreateRow(r) \/ CommitMode(r) \/ DropWord(r)
       \/ \E value \in {"none", "off", "on"} : BeginSet(r, value)
  \/ MtTick

MtSpec == MtInit /\ [][MtNext]_mtVars

-----------------------------------------------------------------------------

\* Every variable has its type.
MtTypeOK ==
  /\ mtRow \in {"missing", "off", "on"}
  /\ cached \in {NoWord} \cup [word : {"0", "1"}, left : 1..MtTtl]
  /\ doing \in [MtReplica -> [pc : {"rest", "look", "keep", "create", "set", "drop"},
                              value : {"none", "off", "on", "cache", "once"},
                              read : {"none", "off", "on"}]]
  /\ answer \in {"none", "page", "passed", "passed by fault"}
  /\ stable \in 0..MtTtl + 1
  /\ mtLeft \in [sets : 0..MaxSets, faults : 0..MaxMtFaults]

\* When the mode has been off for as long as a word is kept, nobody gets the page any more,
\* whatever was read before the end and stored after it, or failed to be dropped.
EndIsSeen == answer = "page" /\ stable > MtTtl => mtRow = "on"

\* What the code says and does not do; a run shows how.

\* When the mode has been on for as long as a word is kept, every request gets the page, faults
\* apart.
ActiveIsShown == answer = "passed" /\ stable > MtTtl => mtRow # "on"

=============================================================================
