----------------------- MODULE SkillGovernance_proofs -----------------------
(***************************************************************************)
(* Proofs about SkillGovernance, for any numbers of administrators, people *)
(* and requests, and any quorum.                                           *)
(*                                                                         *)
(* QuorumKept is not inductive: an approval decides on a tally it took     *)
(* earlier.  What makes the tally good at the commit is that an approval   *)
(* is never taken back while the skill exists, and that a deleted skill    *)
(* stays deleted (TalliesHold).  The counter's type needs that a request   *)
(* to install has read a number below the number of requests (CountsBound).*)
(***************************************************************************)
EXTENDS SkillGovernance, FiniteSetTheorems, TLAPS

Tx == [op : SkOps \cup {"idle"}, who : SkAdmin \cup SkUser, seen : SkRow,
       tally : 0..Cardinality(SkAdmin), id : 0..MaxSkillRequests]

SkLog == [requests : 0..MaxSkillRequests, overlapped : BOOLEAN, rejected : BOOLEAN,
        installed : BOOLEAN]

\* A request under way was made by somebody who may make it, of a skill that existed.
Entitled ==
  \A h \in SkHandler :
    /\ skTx[h].op # "idle" => skTx[h].seen.exists
    /\ skTx[h].op = "approve" => skTx[h].who \in SkAdmin \ {SkAuthor}
    /\ skTx[h].op \in {"install", "uninstall"} =>
         skTx[h].who \in SkUser /\ skTx[h].id \in 1..MaxSkillRequests

\* The author's approval is not among the approvals.
NotByAuthor == SkAuthor \notin approvers

\* Nobody has read a counter above the number of requests.
CountsBound ==
  /\ skill.count <= skLog.requests
  /\ \A h \in SkHandler :
       /\ skTx[h].seen.count <= skLog.requests
       /\ skTx[h].op = "install" => skTx[h].seen.count < skLog.requests

\* The approvals that a request has counted are still there, or the skill is not.
TalliesHold ==
  \A h \in SkHandler :
    skTx[h].op = "approve" /\ skTx[h].tally > 0 /\ skill.exists
      => Cardinality(approvers \cup {skTx[h].who}) >= skTx[h].tally

SkInv == SkTypeOK /\ Entitled /\ NotByAuthor /\ CountsBound /\ TalliesHold /\ QuorumKept

-----------------------------------------------------------------------------

\* There are finitely many administrators, and a quorum is never empty.
LEMMA QuotaOfAdmins == Cardinality(SkAdmin) \in Nat /\ Required \in Nat /\ Required > 0
BY FS_CardinalityType, SkillAssumption

\* Sets of administrators are finite, and a larger one has no fewer members.
LEMMA Monotone ==
  ASSUME NEW S \in SUBSET SkAdmin, NEW T \in SUBSET S
  PROVE  Cardinality(T) \in Nat /\ Cardinality(S) \in Nat /\ Cardinality(T) <= Cardinality(S)
BY FS_Subset, FS_CardinalityType, SkillAssumption

\* A written row is a row, whose columns are the new ones or the ones it had; those that the
\* request did not change are the ones it had.
LEMMA Edited ==
  ASSUME skill \in SkRow, NEW seen \in SkRow, NEW new \in SkRow
  PROVE  /\ Update(seen, new) \in SkRow
         /\ new.exists = seen.exists => Update(seen, new).exists = skill.exists
         /\ Update(seen, new).is_approved \in {skill.is_approved, new.is_approved}
         /\ new.is_approved = seen.is_approved
              => Update(seen, new).is_approved = skill.is_approved
         /\ Update(seen, new).count \in {skill.count, new.count}
BY DEF Update, SkRow

\* A skill that is not distributed needs nobody's approval, one that was is none the worse for
\* more of it.
LEMMA QuorumStays ==
  ASSUME SkInv, NEW S \in SUBSET SkAdmin, approvers \subseteq S,
         skill.exists, skill.is_approved
  PROVE  Cardinality(S) >= Required
<1>1. Cardinality(approvers) >= Required
  BY DEF SkInv, QuorumKept, Distributed
<1>2. QED
  BY <1>1, Monotone, QuotaOfAdmins

-----------------------------------------------------------------------------
(* The steps *)

\* At first there is no skill and nobody has read anything.
LEMMA SkInitOK == SkInit => SkInv
<1> SUFFICES ASSUME SkInit PROVE SkInv
  OBVIOUS
<1> USE QuotaOfAdmins, SkillAssumption
<1>1. Submission \in SkRow
  BY DEF Submission, SkRow
<1>2. NoTx(Submission) \in Tx
  BY <1>1 DEF NoTx, Tx
<1>3. skTx \in [SkHandler -> Tx]
  BY <1>2 DEF SkInit
<1>4. SkTypeOK
  BY <1>1, <1>3 DEF SkInit, SkTypeOK, Tx
<1>5. Entitled /\ NotByAuthor /\ CountsBound /\ TalliesHold
  BY <1>1 DEF SkInit, Entitled, NotByAuthor, CountsBound, TalliesHold, NoTx, Submission
<1>6. QuorumKept
  BY DEF SkInit, QuorumKept, Distributed, Submission
<1>7. QED
  BY <1>4, <1>5, <1>6 DEF SkInv

\* A request is over, with what it wrote: everybody else's tally and reading stay good.
LEMMA RequestEnds ==
  ASSUME SkInv, NEW h \in SkHandler,
         skill' \in SkRow, skill'.count <= skLog.requests,
         skTx' = [skTx EXCEPT ![h] = NoTx(skill')],
         skLog' \in SkLog, skLog'.requests = skLog.requests,
         installs' \subseteq SkUser \X (1..MaxSkillRequests),
         approvers' \subseteq SkAdmin \ {SkAuthor},
         skill'.exists => skill.exists /\ approvers \subseteq approvers',
         QuorumKept'
  PROVE  SkInv'
<1> USE QuotaOfAdmins, SkillAssumption
<1>1. skTx \in [SkHandler -> Tx]
  BY DEF SkInv, SkTypeOK, Tx
<1>2. NoTx(skill') \in Tx
  BY DEF NoTx, Tx
<1>3. skTx' \in [SkHandler -> Tx]
  BY <1>1, <1>2
<1>4. SkTypeOK'
  BY <1>3 DEF SkTypeOK, Tx, SkLog
<1>5. \A g \in SkHandler : skTx'[g] = IF g = h THEN NoTx(skill') ELSE skTx[g]
  BY <1>1
<1>6. Entitled'
  BY <1>5 DEF SkInv, Entitled, NoTx
<1>7. CountsBound'
  BY <1>5 DEF SkInv, CountsBound, NoTx
<1>8. TalliesHold'
  <2> SUFFICES ASSUME NEW g \in SkHandler,
                      skTx'[g].op = "approve", skTx'[g].tally > 0, skill'.exists
               PROVE  Cardinality(approvers' \cup {skTx'[g].who}) >= skTx'[g].tally
    BY DEF TalliesHold
  <2>1. g # h /\ skTx'[g] = skTx[g]
    BY <1>5 DEF NoTx
  <2>2. skTx[g].who \in SkAdmin /\ skTx[g].tally \in Nat
    BY <1>1, <2>1 DEF SkInv, Entitled, Tx
  <2>3. Cardinality(approvers \cup {skTx[g].who}) >= skTx[g].tally
    BY <2>1 DEF SkInv, TalliesHold
  <2>4. (approvers \cup {skTx[g].who}) \subseteq (approvers' \cup {skTx[g].who})
    OBVIOUS
  <2>5. approvers' \cup {skTx[g].who} \in SUBSET SkAdmin
    BY <2>2
  <2>6. QED
    BY <2>1, <2>2, <2>3, <2>4, <2>5, Monotone
<1>9. NotByAuthor'
  BY DEF NotByAuthor
<1>10. QED
  BY <1>4, <1>6, <1>7, <1>8, <1>9 DEF SkInv

\* A request begins: it reads the row.
LEMMA BeginOK ==
  ASSUME SkInv, NEW h \in SkHandler, NEW op \in SkOps, NEW who \in SkAdmin \cup SkUser,
         SkBegin(h, op, who)
  PROVE  SkInv'
<1> USE QuotaOfAdmins, SkillAssumption
<1>0. skill \in SkRow /\ skLog \in SkLog /\ skTx \in [SkHandler -> Tx]
  BY DEF SkInv, SkTypeOK, Tx, SkLog
<1>1. PICK id \in IF op = "uninstall" THEN RowsOf(who) ELSE {skLog.requests + 1} :
        skTx' = [skTx EXCEPT ![h] =
                   [op |-> op, who |-> who, seen |-> skill, tally |-> 0, id |-> id]]
  BY DEF SkBegin
<1> DEFINE t == [op |-> op, who |-> who, seen |-> skill, tally |-> 0, id |-> id]
<1>2. /\ skLog' \in SkLog
      /\ skLog.requests \in Nat /\ skLog'.requests = skLog.requests + 1
      /\ skLog.requests < MaxSkillRequests
  <2> DEFINE b == skLog.overlapped \/ ~SkQuiet
  <2>1. b \in BOOLEAN
    OBVIOUS
  <2>2. skLog' = [skLog EXCEPT !.requests = @ + 1, !.overlapped = b]
    BY DEF SkBegin
  <2> HIDE DEF b
  <2>3. skLog.requests < MaxSkillRequests
    BY DEF SkBegin
  <2>4. skLog.requests \in 0..MaxSkillRequests
    BY <1>0 DEF SkLog
  <2>5. skLog' = [requests |-> skLog.requests + 1, overlapped |-> b,
                  rejected |-> skLog.rejected, installed |-> skLog.installed]
    BY <1>0, <2>2 DEF SkLog
  <2>6. skLog.rejected \in BOOLEAN /\ skLog.installed \in BOOLEAN
    BY <1>0 DEF SkLog
  <2>7. skLog' \in SkLog
    BY <2>1, <2>3, <2>4, <2>5, <2>6 DEF SkLog
  <2>8. QED
    BY <2>3, <2>4, <2>5, <2>7
<1>3. id \in 1..MaxSkillRequests
  BY <1>0, <1>2 DEF RowsOf, SkLog
<1>4. t \in Tx
  BY <1>0, <1>3 DEF Tx
<1> HIDE DEF t
<1>5. skTx' \in [SkHandler -> Tx]
  BY <1>0, <1>1, <1>4 DEF t
<1>6. \A g \in SkHandler : skTx'[g] = IF g = h THEN t ELSE skTx[g]
  BY <1>0, <1>1 DEF t
<1>7. SkTypeOK'
  BY <1>2, <1>5 DEF SkInv, SkTypeOK, SkBegin, Tx, SkLog
<1>8. Entitled'
  <2>1. skill.exists /\ (op = "approve" => who \in SkAdmin \ {SkAuthor})
    BY DEF SkBegin, Admitted
  <2>2. op \in {"install", "uninstall"} => who \in SkUser
    BY DEF SkBegin, Admitted
  <2>3. QED
    BY <1>3, <1>6, <2>1, <2>2 DEF SkInv, Entitled, t
<1>9. CountsBound'
  BY <1>0, <1>2, <1>6 DEF SkInv, CountsBound, SkBegin, t, SkRow, Tx
<1>10. TalliesHold' /\ QuorumKept' /\ NotByAuthor'
  BY <1>6 DEF SkInv, TalliesHold, NotByAuthor, QuorumKept, Distributed, SkBegin, t
<1>11. QED
  BY <1>7, <1>8, <1>9, <1>10 DEF SkInv

\* An approval counts the votes on record and its own.
LEMMA TallyOK ==
  ASSUME SkInv, NEW h \in SkHandler, Tally(h)
  PROVE  SkInv'
<1> USE QuotaOfAdmins, SkillAssumption
<1> DEFINE seenNow == approvers \cup {skTx[h].who}
<1>0. skTx \in [SkHandler -> Tx] /\ seenNow \in SUBSET SkAdmin
  BY DEF SkInv, SkTypeOK, Entitled, Tally, Tx
<1>1. Cardinality(seenNow) \in 0..Cardinality(SkAdmin)
  BY <1>0, Monotone
<1>2. [skTx[h] EXCEPT !.tally = Cardinality(seenNow)] \in Tx
  BY <1>0, <1>1 DEF Tx
<1>3. /\ skTx' \in [SkHandler -> Tx]
      /\ \A g \in SkHandler :
           skTx'[g] = IF g = h THEN [skTx[h] EXCEPT !.tally = Cardinality(seenNow)] ELSE skTx[g]
  BY <1>0, <1>2 DEF Tally
<1>4. /\ skTx'[h].tally = Cardinality(seenNow)
      /\ skTx'[h].op = skTx[h].op /\ skTx'[h].who = skTx[h].who
      /\ skTx'[h].seen = skTx[h].seen /\ skTx'[h].id = skTx[h].id
      /\ \A g \in SkHandler \ {h} : skTx'[g] = skTx[g]
  BY <1>0, <1>3 DEF Tx
<1>5. SkTypeOK'
  BY <1>3 DEF SkInv, SkTypeOK, Tally, Tx
<1>6. Entitled' /\ NotByAuthor' /\ CountsBound' /\ QuorumKept'
  BY <1>4 DEF SkInv, Entitled, NotByAuthor, CountsBound, QuorumKept, Distributed, Tally
<1>7. TalliesHold'
  <2> SUFFICES ASSUME NEW g \in SkHandler,
                      skTx'[g].op = "approve", skTx'[g].tally > 0, skill'.exists
               PROVE  Cardinality(approvers' \cup {skTx'[g].who}) >= skTx'[g].tally
    BY DEF TalliesHold
  <2>1. CASE g = h
    BY <1>1, <1>4, <2>1 DEF Tally
  <2>2. CASE g # h
    BY <1>4, <2>2 DEF SkInv, TalliesHold, Tally
  <2>3. QED
    BY <2>1, <2>2
<1>8. QED
  BY <1>5, <1>6, <1>7 DEF SkInv

\* What a commit finds: the types of what the request has read, and of the row.
LEMMA AtCommit ==
  ASSUME SkInv, NEW h \in SkHandler
  PROVE  /\ skill \in SkRow /\ skLog \in SkLog /\ skTx[h] \in Tx /\ skTx[h].seen \in SkRow
         /\ approvers \subseteq SkAdmin \ {SkAuthor}
         /\ installs \subseteq SkUser \X (1..MaxSkillRequests)
         /\ skill.count <= skLog.requests /\ skTx[h].seen.count <= skLog.requests
         /\ skTx[h].op # "idle" => skTx[h].seen.exists
BY DEF SkInv, SkTypeOK, NotByAuthor, CountsBound, Entitled, Tx, SkLog

\* The commit of an approval, which may approve the skill by its tally.
LEMMA ApprovalOK ==
  ASSUME SkInv, NEW h \in SkHandler, CommitApproval(h)
  PROVE  SkInv'
<1> USE QuotaOfAdmins, SkillAssumption
<1> DEFINE t == skTx[h]
           new == [t.seen EXCEPT !.is_approved = TRUE, !.status = "approved"]
<1>0. /\ t.op = "approve" /\ t.tally > 0 /\ skill.exists
      /\ approvers' = approvers \cup {t.who}
      /\ skill' = IF t.tally >= Required THEN Update(t.seen, new) ELSE skill
      /\ installs' = installs /\ skLog' = skLog
      /\ skTx' = [skTx EXCEPT ![h] = NoTx(skill')]
  BY DEF CommitApproval, EndTx
<1>1. approvers' \subseteq SkAdmin \ {SkAuthor}
  BY <1>0, AtCommit DEF SkInv, Entitled
<1>2. /\ new \in SkRow
      /\ new.exists = t.seen.exists /\ new.count = t.seen.count
  BY AtCommit DEF SkRow
<1>3. skill' \in SkRow /\ skill'.count <= skLog.requests
  <2>1. /\ skill \in SkRow /\ t.seen \in SkRow
        /\ skill.count <= skLog.requests /\ new.count <= skLog.requests
    BY <1>2, AtCommit
  <2>2. Update(t.seen, new) \in SkRow /\ Update(t.seen, new).count \in {skill.count, new.count}
    BY <1>2, <2>1, Edited
  <2>3. QED
    BY <1>0, <2>1, <2>2
<1>4. QuorumKept'
  <2> SUFFICES ASSUME skill'.exists, skill'.is_approved
               PROVE  Cardinality(approvers') >= Required
    BY <1>1 DEF QuorumKept, Distributed
  <2>1. CASE t.tally >= Required
    <3>1. Cardinality(approvers') >= t.tally
      BY <1>0 DEF SkInv, TalliesHold
    <3>2. Cardinality(approvers') \in Nat /\ t.tally \in Nat
      BY <1>1, AtCommit, Monotone DEF Tx
    <3>3. QED
      BY <2>1, <3>1, <3>2
  <2>2. CASE ~(t.tally >= Required)
    BY <1>0, <1>1, <2>2, QuorumStays
  <2>3. QED
    BY <2>1, <2>2
<1>5. skLog' \in SkLog /\ installs' \subseteq SkUser \X (1..MaxSkillRequests)
  BY <1>0, AtCommit
<1>6. QED
  BY <1>0, <1>1, <1>3, <1>4, <1>5, RequestEnds

\* A commit that writes neither existence nor approval keeps the quorum.
LEMMA OtherColumns ==
  ASSUME SkInv, NEW h \in SkHandler, NEW new \in SkRow,
         skTx[h].op # "idle", skill.exists,
         new.exists = skTx[h].seen.exists,
         new.is_approved \in {skTx[h].seen.is_approved, FALSE},
         new.count <= skLog.requests,
         skill' = Update(skTx[h].seen, new),
         skTx' = [skTx EXCEPT ![h] = NoTx(skill')],
         approvers' = approvers,
         installs' \subseteq SkUser \X (1..MaxSkillRequests),
         skLog' \in SkLog, skLog'.requests = skLog.requests
  PROVE  SkInv'
<1> DEFINE seen == skTx[h].seen
<1>0. skill \in SkRow /\ seen \in SkRow /\ skill.count <= skLog.requests
  BY AtCommit
<1>a. /\ skill' = Update(seen, new) /\ new.exists = seen.exists
      /\ new.is_approved = seen.is_approved \/ new.is_approved = FALSE
  OBVIOUS
<1> HIDE DEF seen
<1>b. /\ skill' \in SkRow
      /\ new.exists = seen.exists => skill'.exists = skill.exists
      /\ skill'.is_approved \in {skill.is_approved, new.is_approved}
      /\ new.is_approved = seen.is_approved => skill'.is_approved = skill.is_approved
      /\ skill'.count \in {skill.count, new.count}
  <2>1. skill' = Update(seen, new)
    BY <1>a
  <2>2. /\ Update(seen, new) \in SkRow
        /\ new.exists = seen.exists => Update(seen, new).exists = skill.exists
        /\ Update(seen, new).is_approved \in {skill.is_approved, new.is_approved}
        /\ new.is_approved = seen.is_approved
             => Update(seen, new).is_approved = skill.is_approved
        /\ Update(seen, new).count \in {skill.count, new.count}
    BY <1>0, Edited, Zenon
  <2>3. QED
    BY <2>1, <2>2, Zenon
<1>c. skill'.exists = skill.exists
  BY <1>a, <1>b, Zenon
<1>d. skill'.is_approved = skill.is_approved \/ skill'.is_approved = FALSE
  BY <1>a, <1>b, Zenon
<1>1. /\ skill' \in SkRow
      /\ skill'.exists => skill.exists
      /\ skill'.is_approved => skill.is_approved
      /\ skill'.count <= skLog.requests
  BY <1>0, <1>b, <1>c, <1>d
<1>2. QuorumKept'
  BY <1>1 DEF SkInv, QuorumKept, Distributed
<1>3. approvers' \subseteq SkAdmin \ {SkAuthor}
  BY AtCommit
<1>4. QED
  BY <1>1, <1>2, <1>3, RequestEnds

\* The commit of a rejection takes the approval of the skill away.
LEMMA RejectionOK ==
  ASSUME SkInv, NEW h \in SkHandler, CommitRejection(h)
  PROVE  SkInv'
<1> DEFINE new == [skTx[h].seen EXCEPT !.is_approved = FALSE, !.status = "rejected"]
<1>1. /\ new \in SkRow /\ new.exists = skTx[h].seen.exists
      /\ new.is_approved = FALSE /\ new.count = skTx[h].seen.count
  BY AtCommit DEF SkRow
<1>2. skLog' \in SkLog /\ skLog'.requests = skLog.requests
  BY AtCommit DEF CommitRejection, SkLog
<1>3. installs' \subseteq SkUser \X (1..MaxSkillRequests)
  BY AtCommit DEF CommitRejection
<1>4. QED
  BY <1>1, <1>2, <1>3, AtCommit, OtherColumns DEF CommitRejection, EndTx

\* The commit of a deletion: there is no skill left to have a quorum.
LEMMA DeletionOK ==
  ASSUME SkInv, NEW h \in SkHandler, CommitDeletion(h)
  PROVE  SkInv'
<1>1. /\ skill' \in SkRow /\ ~skill'.exists /\ skill'.count = skill.count
      /\ approvers' = {} /\ installs' = installs /\ skLog' = skLog
      /\ skTx' = [skTx EXCEPT ![h] = NoTx(skill')]
  BY AtCommit DEF CommitDeletion, EndTx, SkRow
<1>2. QuorumKept'
  BY <1>1 DEF QuorumKept, Distributed
<1>3. QED
  BY <1>1, <1>2, AtCommit, RequestEnds

\* The commit of an installation counts one more than it read.
LEMMA InstallationOK ==
  ASSUME SkInv, NEW h \in SkHandler, CommitInstallation(h)
  PROVE  SkInv'
<1> USE SkillAssumption
<1> DEFINE t == skTx[h]
           new == [t.seen EXCEPT !.count = @ + 1]
<1>1. /\ t.seen.count < skLog.requests /\ t.seen.count \in Nat
      /\ skLog.requests \in 0..MaxSkillRequests
      /\ t.who \in SkUser /\ t.id \in 1..MaxSkillRequests
  BY AtCommit DEF SkInv, CountsBound, Entitled, CommitInstallation, SkRow, SkLog
<1>2. /\ new \in SkRow /\ new.exists = t.seen.exists
      /\ new.is_approved = t.seen.is_approved /\ new.count <= skLog.requests
  BY <1>1, AtCommit DEF SkRow
<1>3. skLog' \in SkLog /\ skLog'.requests = skLog.requests
  BY AtCommit DEF CommitInstallation, SkLog
<1>4. installs' \subseteq SkUser \X (1..MaxSkillRequests)
  BY <1>1, AtCommit DEF CommitInstallation
<1>5. QED
  BY <1>2, <1>3, <1>4, AtCommit, OtherColumns DEF CommitInstallation, EndTx

\* The commit of a removal counts one less than it read.
LEMMA RemovalOK ==
  ASSUME SkInv, NEW h \in SkHandler, CommitRemoval(h)
  PROVE  SkInv'
<1> USE SkillAssumption
<1> DEFINE t == skTx[h]
           left == IF t.seen.count > 0 THEN t.seen.count - 1 ELSE 0
           new == [t.seen EXCEPT !.count = left]
<1>1. t.seen.count \in 0..MaxSkillRequests /\ skLog.requests \in Nat
  BY AtCommit DEF SkRow, SkLog
<1>2. left \in 0..MaxSkillRequests /\ left <= t.seen.count
  BY <1>1
<1>3. /\ new \in SkRow /\ new.exists = t.seen.exists
      /\ new.is_approved = t.seen.is_approved /\ new.count = left
  BY <1>2, AtCommit DEF SkRow
<1>4. new.count <= skLog.requests
  BY <1>1, <1>2, <1>3, AtCommit
<1>5. skLog' \in SkLog /\ skLog'.requests = skLog.requests
  BY AtCommit DEF CommitRemoval
<1>6. installs' \subseteq SkUser \X (1..MaxSkillRequests)
  BY AtCommit DEF CommitRemoval
<1>7. QED
  BY <1>3, <1>4, <1>5, <1>6, AtCommit, OtherColumns DEF CommitRemoval, EndTx

\* The commit of a listing changes flags only.
LEMMA ListingOK ==
  ASSUME SkInv, NEW h \in SkHandler, CommitPublication(h) \/ CommitWithdrawal(h)
  PROVE  SkInv'
<1> SUFFICES ASSUME NEW listed \in BOOLEAN,
                    skTx[h].op # "idle", skill.exists,
                    skill' = Update(skTx[h].seen, [skTx[h].seen EXCEPT !.active = listed]),
                    EndTx(h), UNCHANGED <<approvers, installs, skLog>>
             PROVE  SkInv'
  BY DEF CommitPublication, CommitWithdrawal
<1> DEFINE new == [skTx[h].seen EXCEPT !.active = listed]
<1>1. /\ new \in SkRow /\ new.exists = skTx[h].seen.exists
      /\ new.is_approved = skTx[h].seen.is_approved /\ new.count = skTx[h].seen.count
  BY AtCommit DEF SkRow
<1>2. QED
  BY <1>1, AtCommit, OtherColumns DEF EndTx

\* A request that fails writes nothing.
LEMMA AbortOK ==
  ASSUME SkInv, NEW h \in SkHandler, Abort(h)
  PROVE  SkInv'
<1>1. QuorumKept'
  BY DEF Abort, SkInv, QuorumKept, Distributed
<1>2. QED
  BY <1>1, AtCommit, RequestEnds DEF Abort

\* Stuttering keeps the invariant.
LEMMA RestOK ==
  ASSUME SkInv, UNCHANGED skVars
  PROVE  SkInv'
BY DEF SkInv, SkTypeOK, Entitled, NotByAuthor, CountsBound, TalliesHold, QuorumKept,
       Distributed, skVars

\* The invariant is inductive.
THEOREM SkInductive == SkSpec => []SkInv
<1>1. SkInv /\ [SkNext]_skVars => SkInv'
  <2> SUFFICES ASSUME SkInv, SkNext PROVE SkInv'
    BY RestOK
  <2>1. PICK h \in SkHandler :
          \/ \E op \in SkOps, who \in SkAdmin \cup SkUser : SkBegin(h, op, who)
          \/ Tally(h)
          \/ CommitApproval(h) \/ CommitRejection(h) \/ CommitDeletion(h)
          \/ CommitInstallation(h) \/ CommitRemoval(h)
          \/ CommitPublication(h) \/ CommitWithdrawal(h)
          \/ Abort(h)
    BY DEF SkNext
  <2>2. CASE \E op \in SkOps, who \in SkAdmin \cup SkUser : SkBegin(h, op, who)
    BY <2>2, BeginOK
  <2>3. CASE Tally(h)
    BY <2>3, TallyOK
  <2>4. CASE CommitApproval(h)
    BY <2>4, ApprovalOK
  <2>5. CASE CommitRejection(h)
    BY <2>5, RejectionOK
  <2>6. CASE CommitDeletion(h)
    BY <2>6, DeletionOK
  <2>7. CASE CommitInstallation(h)
    BY <2>7, InstallationOK
  <2>8. CASE CommitRemoval(h)
    BY <2>8, RemovalOK
  <2>9. CASE CommitPublication(h) \/ CommitWithdrawal(h)
    BY <2>9, ListingOK
  <2>10. CASE Abort(h)
    BY <2>10, AbortOK
  <2>11. QED
    BY <2>1, <2>2, <2>3, <2>4, <2>5, <2>6, <2>7, <2>8, <2>9, <2>10
<1>2. QED
  BY <1>1, SkInitOK, PTL DEF SkSpec

\* Every variable keeps its type: in particular the counter of installations, which requests
\* write from what they have read, never exceeds the number of requests.
THEOREM SkillTypeCorrect == SkSpec => []SkTypeOK
<1>1. SkInv => SkTypeOK
  BY DEF SkInv
<1>2. QED
  BY <1>1, SkInductive, PTL

\* What new pods get was approved by as many administrators as its category asks for, none of
\* them its author, however approvals, rejections, deletions and edits of the row interleave.
THEOREM QuorumHolds == SkSpec => []QuorumKept
<1>1. SkInv => QuorumKept
  BY DEF SkInv
<1>2. QED
  BY <1>1, SkInductive, PTL

-----------------------------------------------------------------------------
(* Requests one at a time *)

\* One request is under way, which has read the row as it is and its own installation.
OneRequest == \A g, h \in SkHandler : skTx[g].op # "idle" /\ skTx[h].op # "idle" => g = h
ReadsHold ==
  \A h \in SkHandler :
    /\ skTx[h].op # "idle" => skTx[h].seen = skill
    /\ skTx[h].op = "install" => \A i \in 1..MaxSkillRequests : <<skTx[h].who, i>> \notin installs
    /\ skTx[h].op = "uninstall" => <<skTx[h].who, skTx[h].id>> \in installs
    /\ skTx[h].op = "approve" /\ skTx[h].tally > 0
         => skTx[h].tally = Cardinality(approvers \cup {skTx[h].who})

\* Flag, status, approvals, counter and installations agree.
FlagAgrees == skill.exists => (skill.is_approved <=> skill.status = "approved")
QuorumAgrees ==
  ~skLog.rejected /\ skill.exists /\ Cardinality(approvers) >= Required
    => skill.status = "approved"
SingleRows ==
  \A u \in SkUser, i, j \in 1..MaxSkillRequests :
    <<u, i>> \in installs /\ <<u, j>> \in installs => i = j
CountAgrees == skill.count = Cardinality(installs) /\ SingleRows

SkInOrder == OneRequest /\ ReadsHold /\ FlagAgrees /\ QuorumAgrees /\ CountAgrees

CoherentInv == SkInv /\ IsFiniteSet(installs) /\ (~skLog.overlapped => SkInOrder)

\* The invariant is enough.
LEMMA CoherentSuffices == CoherentInv => SkillIsCoherent
<1> SUFFICES ASSUME CoherentInv, ~skLog.overlapped PROVE SkillIsCoherent
  BY DEF SkillIsCoherent, FlagFollowsStatus, QuorumSuffices, CountsInstallations
<1>1. SkInOrder
  BY DEF CoherentInv
<1>2. \A u \in SkUser : Cardinality(RowsOf(u)) <= 1
  <2> SUFFICES ASSUME NEW u \in SkUser PROVE Cardinality(RowsOf(u)) <= 1
    OBVIOUS
  <2>1. CASE RowsOf(u) = {}
    BY <2>1, FS_EmptySet
  <2>2. ASSUME NEW i \in RowsOf(u) PROVE Cardinality(RowsOf(u)) <= 1
    <3>1. RowsOf(u) = {i}
      BY <1>1, <2>2 DEF SkInOrder, CountAgrees, SingleRows, RowsOf
    <3>2. Cardinality({i}) = 1
      BY FS_Singleton
    <3>3. Cardinality(RowsOf(u)) = 1
      BY <3>1, <3>2
    <3>4. QED
      BY <3>3
  <2>3. QED
    BY <2>1, <2>2
<1>3. QED
  BY <1>1, <1>2 DEF SkillIsCoherent, FlagFollowsStatus, QuorumSuffices, CountsInstallations,
                    SkInOrder, FlagAgrees, QuorumAgrees, CountAgrees

\* At first there is a submission that nobody approved or installed.
LEMMA InitCoherent == SkInit => CoherentInv
<1> SUFFICES ASSUME SkInit PROVE CoherentInv
  OBVIOUS
<1>1. SkInv /\ IsFiniteSet(installs)
  BY SkInitOK, FS_EmptySet DEF SkInit
<1>2. \A h \in SkHandler : skTx[h].op = "idle"
  BY DEF SkInit, NoTx
<1>3. OneRequest /\ ReadsHold
  BY <1>2 DEF OneRequest, ReadsHold
<1>4. Cardinality(approvers) = 0 /\ Cardinality(installs) = 0 /\ skill.count = 0
  BY FS_EmptySet DEF SkInit, Submission
<1>5. FlagAgrees /\ QuorumAgrees /\ CountAgrees
  BY <1>4, QuotaOfAdmins
  DEF SkInit, Submission, FlagAgrees, QuorumAgrees, CountAgrees, SingleRows
<1>6. QED
  BY <1>1, <1>3, <1>5 DEF CoherentInv, SkInOrder

\* What a request wrote that has read the row as it is.
LEMMA WrittenWhole ==
  ASSUME skill \in SkRow, NEW new \in SkRow
  PROVE  Update(skill, new) = new
BY DEF Update, SkRow

\* A request has ended, and no other is under way.
LEMMA EndsInOrder ==
  ASSUME CoherentInv, SkInv', NEW h \in SkHandler, skTx[h].op # "idle",
         NEW row, skTx' = [skTx EXCEPT ![h] = NoTx(row)], IsFiniteSet(installs'),
         skLog'.overlapped = skLog.overlapped,
         ~skLog.overlapped => FlagAgrees' /\ QuorumAgrees' /\ CountAgrees'
  PROVE  CoherentInv'
<1> SUFFICES ASSUME ~skLog.overlapped PROVE OneRequest' /\ ReadsHold'
  BY DEF CoherentInv, SkInOrder
<1>1. \A g \in SkHandler : skTx'[g].op = "idle"
  <2>1. skTx \in [SkHandler -> Tx]
    BY DEF CoherentInv, SkInv, SkTypeOK, Tx
  <2>2. \A g \in SkHandler : g # h => skTx[g].op = "idle"
    BY DEF CoherentInv, SkInOrder, OneRequest
  <2>3. \A g \in SkHandler : skTx'[g] = IF g = h THEN NoTx(row) ELSE skTx[g]
    BY <2>1
  <2>4. NoTx(row).op = "idle"
    BY DEF NoTx
  <2>5. QED
    BY <2>2, <2>3, <2>4
<1>2. QED
  BY <1>1 DEF OneRequest, ReadsHold

\* A request begins: it is the only one, or requests overlap from now on.
LEMMA BeginInOrder ==
  ASSUME CoherentInv, NEW h \in SkHandler, NEW op \in SkOps, NEW who \in SkAdmin \cup SkUser,
         SkBegin(h, op, who)
  PROVE  CoherentInv'
<1>1. PICK id \in IF op = "uninstall" THEN RowsOf(who) ELSE {skLog.requests + 1} :
        skTx' = [skTx EXCEPT ![h] =
                   [op |-> op, who |-> who, seen |-> skill, tally |-> 0, id |-> id]]
  BY DEF SkBegin
<1> DEFINE t == [op |-> op, who |-> who, seen |-> skill, tally |-> 0, id |-> id]
<1>2. /\ SkInv' /\ UNCHANGED <<skill, approvers, installs>>
      /\ skTx \in [SkHandler -> Tx] /\ skLog \in SkLog
  BY BeginOK DEF CoherentInv, SkBegin, SkInv, SkTypeOK, Tx, SkLog
<1> SUFFICES ASSUME ~skLog'.overlapped PROVE SkInOrder'
  BY <1>2 DEF CoherentInv
<1>3. ~skLog.overlapped /\ SkQuiet /\ skLog'.rejected = skLog.rejected
  BY <1>2 DEF SkBegin, SkLog
<1>4. \A g \in SkHandler : skTx'[g] = IF g = h THEN t ELSE skTx[g]
  BY <1>1, <1>2
<1>5. /\ t.op = op /\ t.who = who /\ t.seen = skill /\ t.tally = 0 /\ t.id = id
      /\ \A g \in SkHandler : g # h => skTx'[g].op = "idle"
  BY <1>3, <1>4 DEF SkQuiet
<1> HIDE DEF t
<1>6. OneRequest'
  BY <1>5 DEF OneRequest
<1>7. ReadsHold'
  <2>1. op = "install" => \A i \in 1..MaxSkillRequests : <<who, i>> \notin installs
    BY DEF SkBegin, Admitted, RowsOf
  <2>2. op = "uninstall" => <<who, id>> \in installs
    BY <1>1 DEF RowsOf
  <2>3. QED
    BY <1>2, <1>4, <1>5, <2>1, <2>2 DEF ReadsHold
<1>8. FlagAgrees' /\ QuorumAgrees' /\ CountAgrees'
  BY <1>2, <1>3 DEF CoherentInv, SkInOrder, FlagAgrees, QuorumAgrees, CountAgrees, SingleRows
<1>9. QED
  BY <1>6, <1>7, <1>8 DEF SkInOrder

\* An approval counts.
LEMMA TallyInOrder ==
  ASSUME CoherentInv, NEW h \in SkHandler, Tally(h)
  PROVE  CoherentInv'
<1>1. SkInv' /\ UNCHANGED <<skill, approvers, installs, skLog>> /\ skTx \in [SkHandler -> Tx]
  BY TallyOK DEF CoherentInv, Tally, SkInv, SkTypeOK, Tx
<1> DEFINE t == [skTx[h] EXCEPT !.tally = Cardinality(approvers \cup {skTx[h].who})]
<1>2. \A g \in SkHandler : skTx'[g] = IF g = h THEN t ELSE skTx[g]
  BY <1>1 DEF Tally
<1>3. /\ t.op = skTx[h].op /\ t.who = skTx[h].who /\ t.seen = skTx[h].seen /\ t.id = skTx[h].id
      /\ t.tally = Cardinality(approvers \cup {skTx[h].who}) /\ skTx[h].op = "approve"
  BY <1>1 DEF Tally, Tx
<1> HIDE DEF t
<1> SUFFICES ASSUME ~skLog.overlapped PROVE SkInOrder'
  BY <1>1 DEF CoherentInv
<1>4. OneRequest'
  BY <1>1, <1>2, <1>3 DEF CoherentInv, SkInOrder, OneRequest
<1>7. ReadsHold'
  BY <1>1, <1>2, <1>3 DEF CoherentInv, SkInOrder, ReadsHold
<1>5. FlagAgrees' /\ QuorumAgrees' /\ CountAgrees'
  BY <1>1 DEF CoherentInv, SkInOrder, FlagAgrees, QuorumAgrees, CountAgrees, SingleRows
<1>6. QED
  BY <1>4, <1>5, <1>7 DEF SkInOrder

\* A commit that writes the row it has read, in a row of its own.
LEMMA CommitReads ==
  ASSUME CoherentInv, ~skLog.overlapped, NEW h \in SkHandler, skTx[h].op # "idle"
  PROVE  /\ skTx[h].seen = skill /\ skill \in SkRow
         /\ \A new \in SkRow : Update(skTx[h].seen, new) = new
         /\ FlagAgrees /\ QuorumAgrees /\ CountAgrees
<1>1. skTx[h].seen = skill /\ skill \in SkRow
  BY AtCommit DEF CoherentInv, SkInOrder, ReadsHold
<1>2. QED
  BY <1>1, WrittenWhole DEF CoherentInv, SkInOrder

\* The commit of an approval.
LEMMA ApprovalInOrder ==
  ASSUME CoherentInv, NEW h \in SkHandler, CommitApproval(h)
  PROVE  CoherentInv'
<1> DEFINE t == skTx[h]
           new == [t.seen EXCEPT !.is_approved = TRUE, !.status = "approved"]
<1>1. /\ t.op = "approve" /\ t.tally > 0 /\ UNCHANGED <<installs, skLog>> /\ SkInv'
      /\ approvers' = approvers \cup {t.who}
      /\ skTx' = [skTx EXCEPT ![h] = NoTx(skill')]
      /\ skill' = IF t.tally >= Required THEN Update(t.seen, new) ELSE skill
  BY ApprovalOK DEF CommitApproval, EndTx, CoherentInv
<1>2. ASSUME ~skLog.overlapped PROVE FlagAgrees' /\ QuorumAgrees' /\ CountAgrees'
  <2>1. /\ t.seen = skill /\ skill \in SkRow /\ FlagAgrees /\ QuorumAgrees /\ CountAgrees
        /\ \A x \in SkRow : Update(t.seen, x) = x
    BY <1>1, <1>2, CommitReads
  <2>2. t.tally = Cardinality(approvers')
    BY <1>1, <1>2 DEF CoherentInv, SkInOrder, ReadsHold
  <2>3. CASE t.tally >= Required
    <3>1. /\ new \in SkRow /\ new.is_approved = TRUE /\ new.status = "approved"
          /\ new.count = skill.count
      BY <2>1 DEF SkRow
    <3>2. skill' = new
      BY <1>1, <2>1, <2>3, <3>1
    <3> HIDE DEF new
    <3>3. QED
      BY <1>1, <2>1, <3>1, <3>2 DEF FlagAgrees, QuorumAgrees, CountAgrees, SingleRows
  <2>4. CASE ~(t.tally >= Required)
    BY <1>1, <2>1, <2>2, <2>4 DEF FlagAgrees, QuorumAgrees, CountAgrees, SingleRows
  <2>5. QED
    BY <2>3, <2>4
<1>3. QED
  BY <1>1, <1>2, EndsInOrder DEF CoherentInv

\* The commit of a rejection.
LEMMA RejectionInOrder ==
  ASSUME CoherentInv, NEW h \in SkHandler, CommitRejection(h)
  PROVE  CoherentInv'
<1> DEFINE new == [skTx[h].seen EXCEPT !.is_approved = FALSE, !.status = "rejected"]
<1>1. /\ skTx[h].op = "reject" /\ UNCHANGED <<installs, approvers>> /\ SkInv'
      /\ skTx' = [skTx EXCEPT ![h] = NoTx(skill')]
      /\ skill' = Update(skTx[h].seen, new)
      /\ skLog'.rejected = TRUE /\ skLog'.overlapped = skLog.overlapped
  BY RejectionOK, AtCommit DEF CommitRejection, EndTx, CoherentInv, SkLog
<1>2. ASSUME ~skLog.overlapped PROVE FlagAgrees' /\ QuorumAgrees' /\ CountAgrees'
  <2>1. /\ skTx[h].seen = skill /\ skill \in SkRow /\ CountAgrees
        /\ \A x \in SkRow : Update(skTx[h].seen, x) = x
    BY <1>1, <1>2, CommitReads
  <2>2. /\ new \in SkRow /\ new.is_approved = FALSE /\ new.status = "rejected"
        /\ new.count = skill.count
    BY <2>1 DEF SkRow
  <2>3. skill' = new
    BY <1>1, <2>1, <2>2
  <2> HIDE DEF new
  <2>4. QED
    BY <1>1, <2>1, <2>2, <2>3 DEF FlagAgrees, QuorumAgrees, CountAgrees, SingleRows
<1>3. QED
  BY <1>1, <1>2, EndsInOrder DEF CoherentInv

\* The commit of a deletion, or a request that fails.
LEMMA DeletionInOrder ==
  ASSUME CoherentInv, NEW h \in SkHandler, CommitDeletion(h) \/ Abort(h)
  PROVE  CoherentInv'
<1>1. /\ skTx[h].op # "idle" /\ UNCHANGED <<installs, skLog>> /\ SkInv'
      /\ skTx' = [skTx EXCEPT ![h] = NoTx(skill')]
      /\ UNCHANGED <<skill, approvers>> \/ skill' = [skill EXCEPT !.exists = FALSE]
  BY DeletionOK, AbortOK DEF CommitDeletion, Abort, EndTx, CoherentInv
<1>2. ASSUME ~skLog.overlapped PROVE FlagAgrees' /\ QuorumAgrees' /\ CountAgrees'
  <2>1. skill \in SkRow /\ FlagAgrees /\ QuorumAgrees /\ CountAgrees
    BY <1>1, <1>2, CommitReads
  <2>2. CASE UNCHANGED <<skill, approvers>>
    BY <1>1, <2>1, <2>2 DEF FlagAgrees, QuorumAgrees, CountAgrees, SingleRows
  <2>3. CASE skill' = [skill EXCEPT !.exists = FALSE]
    <3>1. skill'.exists = FALSE /\ skill'.count = skill.count
      BY <2>1, <2>3 DEF SkRow
    <3>2. QED
      BY <1>1, <2>1, <3>1 DEF FlagAgrees, QuorumAgrees, CountAgrees, SingleRows
  <2>4. QED
    BY <1>1, <2>2, <2>3
<1>3. QED
  BY <1>1, <1>2, EndsInOrder DEF CoherentInv

\* A commit that leaves flag, status and approvals alone.
LEMMA OthersInOrder ==
  ASSUME CoherentInv, NEW h \in SkHandler, skTx[h].op # "idle", SkInv', NEW new \in SkRow,
         skill' = Update(skTx[h].seen, new), skTx' = [skTx EXCEPT ![h] = NoTx(skill')],
         new.exists = skTx[h].seen.exists, new.is_approved = skTx[h].seen.is_approved,
         new.status = skTx[h].seen.status,
         UNCHANGED approvers, IsFiniteSet(installs'),
         skLog'.overlapped = skLog.overlapped, skLog'.rejected = skLog.rejected,
         ~skLog.overlapped => new.count = Cardinality(installs') /\ SingleRows'
  PROVE  CoherentInv'
<1>1. ASSUME ~skLog.overlapped PROVE FlagAgrees' /\ QuorumAgrees' /\ CountAgrees'
  <2>1. /\ skTx[h].seen = skill /\ FlagAgrees /\ QuorumAgrees
        /\ Update(skTx[h].seen, new) = new
    BY <1>1, CommitReads
  <2>2. skill' = new
    BY <2>1
  <2>3. FlagAgrees'
    BY <2>1, <2>2 DEF FlagAgrees
  <2>4. QuorumAgrees'
    BY <2>1, <2>2 DEF QuorumAgrees
  <2>5. QED
    BY <1>1, <2>2, <2>3, <2>4 DEF CountAgrees
<1>2. QED
  BY <1>1, EndsInOrder

\* The commit of an installation adds a row that was not there.
LEMMA InstallationInOrder ==
  ASSUME CoherentInv, NEW h \in SkHandler, CommitInstallation(h)
  PROVE  CoherentInv'
<1> DEFINE t == skTx[h]
           new == [t.seen EXCEPT !.count = @ + 1]
<1>1. /\ t.op = "install" /\ installs' = installs \cup {<<t.who, t.id>>} /\ SkInv'
      /\ skTx' = [skTx EXCEPT ![h] = NoTx(skill')] /\ UNCHANGED approvers
      /\ skill' = Update(t.seen, new)
      /\ skLog'.rejected = skLog.rejected /\ skLog'.overlapped = skLog.overlapped
  BY InstallationOK, AtCommit DEF CommitInstallation, EndTx, CoherentInv, SkLog
<1>2. /\ t.seen.count < skLog.requests /\ t.seen.count \in Nat
      /\ skLog.requests \in 0..MaxSkillRequests
      /\ t.who \in SkUser /\ t.id \in 1..MaxSkillRequests /\ t.seen \in SkRow
  BY <1>1, AtCommit DEF CoherentInv, SkInv, CountsBound, Entitled, SkRow, SkLog
<1>3. /\ new \in SkRow /\ new.exists = t.seen.exists /\ new.status = t.seen.status
      /\ new.is_approved = t.seen.is_approved /\ new.count = t.seen.count + 1
  BY <1>2, SkillAssumption DEF SkRow
<1>4. IsFiniteSet(installs')
  BY <1>1, FS_AddElement DEF CoherentInv
<1>5. ASSUME ~skLog.overlapped PROVE new.count = Cardinality(installs') /\ SingleRows'
  <2>1. t.seen = skill /\ CountAgrees
    BY <1>1, <1>5, CommitReads
  <2>2. \A i \in 1..MaxSkillRequests : <<t.who, i>> \notin installs
    BY <1>1, <1>5 DEF CoherentInv, SkInOrder, ReadsHold
  <2>3. Cardinality(installs') = Cardinality(installs) + 1
    BY <1>1, <1>2, <2>2, FS_AddElement DEF CoherentInv
  <2>4. SingleRows'
    <3> SUFFICES ASSUME NEW u \in SkUser, NEW i \in 1..MaxSkillRequests,
                        NEW j \in 1..MaxSkillRequests,
                        <<u, i>> \in installs', <<u, j>> \in installs'
                 PROVE  i = j
      BY DEF SingleRows
    <3>1. CASE u = t.who
      <4>1. i = t.id /\ j = t.id
        BY <1>1, <2>2, <3>1
      <4>2. QED
        BY <4>1
    <3>2. CASE u # t.who
      BY <1>1, <2>1, <3>2 DEF CountAgrees, SingleRows
    <3>3. QED
      BY <3>1, <3>2
  <2>5. QED
    BY <1>3, <2>1, <2>3, <2>4 DEF CountAgrees
<1> HIDE DEF new
<1>6. QED
  BY <1>1, <1>3, <1>4, <1>5, OthersInOrder

\* The commit of a removal takes away a row that is there.
LEMMA RemovalInOrder ==
  ASSUME CoherentInv, NEW h \in SkHandler, CommitRemoval(h)
  PROVE  CoherentInv'
<1> DEFINE t == skTx[h]
           left == IF t.seen.count > 0 THEN t.seen.count - 1 ELSE 0
           new == [t.seen EXCEPT !.count = left]
<1>1. /\ t.op = "uninstall" /\ installs' = installs \ {<<t.who, t.id>>} /\ SkInv'
      /\ skTx' = [skTx EXCEPT ![h] = NoTx(skill')] /\ UNCHANGED <<approvers, skLog>>
      /\ skill' = Update(t.seen, new)
  BY RemovalOK DEF CommitRemoval, EndTx, CoherentInv
<1>2. t.seen \in SkRow /\ t.seen.count \in 0..MaxSkillRequests /\ left \in 0..MaxSkillRequests
  <2>1. t.seen \in SkRow
    BY AtCommit DEF CoherentInv
  <2>2. QED
    BY <2>1, SkillAssumption DEF SkRow
<1>3. /\ new \in SkRow /\ new.exists = t.seen.exists /\ new.status = t.seen.status
      /\ new.is_approved = t.seen.is_approved /\ new.count = left
  BY <1>2 DEF SkRow
<1>4. IsFiniteSet(installs')
  BY <1>1, FS_RemoveElement DEF CoherentInv
<1>5. ASSUME ~skLog.overlapped PROVE new.count = Cardinality(installs') /\ SingleRows'
  <2>1. t.seen = skill /\ CountAgrees
    BY <1>1, <1>5, CommitReads
  <2>2. <<t.who, t.id>> \in installs
    BY <1>1, <1>5 DEF CoherentInv, SkInOrder, ReadsHold
  <2>3. Cardinality(installs') = Cardinality(installs) - 1 /\ Cardinality(installs') \in Nat
    BY <1>1, <1>4, <2>2, FS_RemoveElement, FS_CardinalityType DEF CoherentInv
  <2>4. SingleRows'
    BY <1>1, <2>1 DEF CountAgrees, SingleRows
  <2>5. Cardinality(installs) = t.seen.count /\ Cardinality(installs) \in Nat
    BY <2>1, FS_CardinalityType DEF CountAgrees, CoherentInv
  <2>6. left = Cardinality(installs')
    BY <2>3, <2>5
  <2>7. QED
    BY <1>3, <2>4, <2>6
<1> HIDE DEF new
<1>6. QED
  BY <1>1, <1>3, <1>4, <1>5, OthersInOrder

\* The commit of a listing.
LEMMA ListingInOrder ==
  ASSUME CoherentInv, NEW h \in SkHandler, CommitPublication(h) \/ CommitWithdrawal(h)
  PROVE  CoherentInv'
<1>1. PICK listed \in BOOLEAN :
        /\ skTx[h].op # "idle" /\ UNCHANGED <<approvers, installs, skLog>>
        /\ skill' = Update(skTx[h].seen, [skTx[h].seen EXCEPT !.active = listed])
        /\ skTx' = [skTx EXCEPT ![h] = NoTx(skill')]
  BY DEF CommitPublication, CommitWithdrawal, EndTx
<1> DEFINE new == [skTx[h].seen EXCEPT !.active = listed]
<1>2. skTx[h].seen \in SkRow /\ SkInv'
  BY AtCommit, ListingOK DEF CoherentInv
<1>3. /\ new \in SkRow /\ new.exists = skTx[h].seen.exists /\ new.status = skTx[h].seen.status
      /\ new.is_approved = skTx[h].seen.is_approved /\ new.count = skTx[h].seen.count
  BY <1>2 DEF SkRow
<1> HIDE DEF new
<1>4. ASSUME ~skLog.overlapped PROVE new.count = Cardinality(installs') /\ SingleRows'
  <2>1. skTx[h].seen = skill /\ CountAgrees
    BY <1>1, <1>4, CommitReads
  <2>2. QED
    BY <1>1, <1>3, <2>1 DEF CountAgrees, SingleRows
<1>5. QED
  BY <1>1, <1>2, <1>3, <1>4, OthersInOrder DEF CoherentInv, new

\* While requests come one at a time, a skill's flag follows its status, its quorum approves it
\* unless it was ever rejected, and its counter is the number of its installations, of which
\* nobody has two.
THEOREM SkillsAreCoherent == SkSpec => []SkillIsCoherent
<1>1. CoherentInv /\ [SkNext]_skVars => CoherentInv'
  <2> SUFFICES ASSUME CoherentInv, [SkNext]_skVars PROVE CoherentInv'
    OBVIOUS
  <2>1. CASE UNCHANGED skVars
    <3>1. SkInv'
      BY <2>1, RestOK DEF CoherentInv
    <3>2. QED
      BY <2>1, <3>1 DEF CoherentInv, skVars, SkInOrder, OneRequest, ReadsHold, FlagAgrees,
                        QuorumAgrees, CountAgrees, SingleRows
  <2>2. ASSUME NEW h \in SkHandler, NEW op \in SkOps, NEW who \in SkAdmin \cup SkUser,
               SkBegin(h, op, who)
        PROVE  CoherentInv'
    BY <2>2, BeginInOrder
  <2>3. ASSUME NEW h \in SkHandler, Tally(h) PROVE CoherentInv'
    BY <2>3, TallyInOrder
  <2>4. ASSUME NEW h \in SkHandler, CommitApproval(h) \/ CommitRejection(h) PROVE CoherentInv'
    BY <2>4, ApprovalInOrder, RejectionInOrder
  <2>5. ASSUME NEW h \in SkHandler, CommitDeletion(h) \/ Abort(h) PROVE CoherentInv'
    BY <2>5, DeletionInOrder
  <2>6. ASSUME NEW h \in SkHandler, CommitInstallation(h) \/ CommitRemoval(h)
        PROVE  CoherentInv'
    BY <2>6, InstallationInOrder, RemovalInOrder
  <2>7. ASSUME NEW h \in SkHandler, CommitPublication(h) \/ CommitWithdrawal(h)
        PROVE  CoherentInv'
    BY <2>7, ListingInOrder
  <2>8. QED
    BY <2>1, <2>2, <2>3, <2>4, <2>5, <2>6, <2>7 DEF SkNext
<1>2. SkSpec => []CoherentInv
  BY <1>1, InitCoherent, PTL DEF SkSpec
<1>3. QED
  BY <1>2, CoherentSuffices, PTL

=============================================================================
