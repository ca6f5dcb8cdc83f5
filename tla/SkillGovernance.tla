-------------------------- MODULE SkillGovernance --------------------------
(***************************************************************************)
(* One shared skill: its approval by several administrators, its place in  *)
(* the store and its installations (routers/skills.py).                    *)
(*                                                                         *)
(* A request is one database transaction at READ COMMITTED: it reads the   *)
(* row, maybe counts the approvals that are committed by then, and commits *)
(* what it has changed.  Requests of the two replicas interleave between   *)
(* these points.                                                           *)
(***************************************************************************)
EXTENDS Integers, FiniteSets

CONSTANTS
  SkAdmin, SkAuthor,   \* administrators; the one who submitted the skill is one of them
  SkUser,              \* people who install it
  SkHandler,           \* requests that can be under way, one per replica
  Required,            \* approvals that the skill's category needs
  MaxSkillRequests     \* bound: requests

ASSUME SkillAssumption ==
  /\ SkAuthor \in SkAdmin /\ IsFiniteSet(SkAdmin)
  /\ Required \in Nat \ {0} /\ MaxSkillRequests \in Nat

VARIABLES
  skill,      \* the row of shared_skills
  approvers,  \* actors of the APPROVE events of this skill
  installs,   \* live rows of skill_installs: user and id
  skTx,       \* the transactions under way
  skLog       \* history: requests, whether two overlapped, whether the skill was ever
              \* rejected, ever installed

skVars == <<skill, approvers, installs, skTx, skLog>>

SkRow == [exists : BOOLEAN, is_approved : BOOLEAN,
          status : {"pending", "approved", "rejected"},
          active : BOOLEAN, count : 0..MaxSkillRequests]

NoTx(row) == [op |-> "idle", who |-> SkAuthor, seen |-> row, tally |-> 0, id |-> 0]

\* What submit_skill leaves.
Submission == [exists |-> TRUE, is_approved |-> FALSE, status |-> "pending",
               active |-> TRUE, count |-> 0]

SkInit ==
  /\ skill = Submission
  /\ approvers = {}
  /\ installs = {}
  /\ skTx = [h \in SkHandler |-> NoTx(Submission)]
  /\ skLog = [requests |-> 0, overlapped |-> FALSE, rejected |-> FALSE, installed |-> FALSE]

RowsOf(u) == {i \in 1..MaxSkillRequests : <<u, i>> \in installs}

SkQuiet == \A h \in SkHandler : skTx[h].op = "idle"

-----------------------------------------------------------------------------
(* Transactions *)

\* What a request checks on what it reads.  Approving looks at no status: a rejected skill
\* can be approved, and the approvals of before its rejection count.
Admitted(op, who) ==
  /\ skill.exists
  /\ CASE op = "approve" -> who \in SkAdmin \ ({SkAuthor} \cup approvers)
       [] op = "reject" -> who \in SkAdmin \ {SkAuthor}
       [] op = "delete" -> who \in SkAdmin
       [] op = "install" -> who \in SkUser /\ skill.active /\ RowsOf(who) = {}
       [] op = "uninstall" -> who \in SkUser /\ RowsOf(who) # {}
       [] op \in {"unpublish", "publish"} -> who = SkAuthor

SkOps == {"approve", "reject", "delete", "install", "uninstall", "unpublish", "publish"}

SkBegin(h, op, who) ==
  /\ skTx[h].op = "idle"
  /\ skLog.requests < MaxSkillRequests
  /\ Admitted(op, who)
  /\ \E id \in IF op = "uninstall" THEN RowsOf(who) ELSE {skLog.requests + 1} :
       skTx' = [skTx EXCEPT ![h] =
                  [op |-> op, who |-> who, seen |-> skill, tally |-> 0, id |-> id]]
  /\ skLog' = [skLog EXCEPT !.requests = @ + 1, !.overlapped = @ \/ ~SkQuiet]
  /\ UNCHANGED <<skill, approvers, installs>>

\* An approval counts the committed approvals and its own, which no other request sees yet.
Tally(h) ==
  /\ skTx[h].op = "approve" /\ skTx[h].tally = 0 /\ skill.exists
  /\ skTx' = [skTx EXCEPT ![h].tally = Cardinality(approvers \cup {skTx[h].who})]
  /\ UNCHANGED <<skill, approvers, installs, skLog>>

\* Columns that the request gave a value other than the one it had read are written.
Update(seen, new) == [c \in DOMAIN skill |-> IF new[c] = seen[c] THEN skill[c] ELSE new[c]]

EndTx(h) == skTx' = [skTx EXCEPT ![h] = NoTx(skill')]

\* Mutant of CommitApproval: an approval is one too few.
CommitApprovalEarly(h) ==
  LET t == skTx[h] IN
  /\ t.op = "approve" /\ t.tally > 0 /\ skill.exists
  /\ approvers' = approvers \cup {t.who}
  /\ skill' = IF t.tally + 1 >= Required
                THEN Update(t.seen, [t.seen EXCEPT !.is_approved = TRUE, !.status = "approved"])
                ELSE skill
  /\ EndTx(h)
  /\ UNCHANGED <<installs, skLog>>

CommitApproval(h) ==
  LET t == skTx[h] IN
  /\ t.op = "approve" /\ t.tally > 0 /\ skill.exists
  /\ approvers' = approvers \cup {t.who}
  /\ skill' = IF t.tally >= Required
                THEN Update(t.seen, [t.seen EXCEPT !.is_approved = TRUE, !.status = "approved"])
                ELSE skill
  /\ EndTx(h)
  /\ UNCHANGED <<installs, skLog>>

CommitRejection(h) ==
  LET t == skTx[h] IN
  /\ t.op = "reject" /\ skill.exists
  /\ skill' = Update(t.seen, [t.seen EXCEPT !.is_approved = FALSE, !.status = "rejected"])
  /\ skLog' = [skLog EXCEPT !.rejected = TRUE]
  /\ EndTx(h)
  /\ UNCHANGED <<approvers, installs>>

\* Installation rows keep the skill from being deleted; events lose their reference.
CommitDeletion(h) ==
  /\ skTx[h].op = "delete" /\ skill.exists /\ ~skLog.installed
  /\ skill' = [skill EXCEPT !.exists = FALSE]
  /\ approvers' = {}
  /\ EndTx(h)
  /\ UNCHANGED <<installs, skLog>>

\* Mutant of CommitInstallation: the counter is not kept.
CommitInstallationUncounted(h) ==
  LET t == skTx[h] IN
  /\ t.op = "install" /\ skill.exists
  /\ installs' = installs \cup {<<t.who, t.id>>}
  /\ skill' = skill
  /\ skLog' = [skLog EXCEPT !.installed = TRUE]
  /\ EndTx(h)
  /\ UNCHANGED approvers

CommitInstallation(h) ==
  LET t == skTx[h] IN
  /\ t.op = "install" /\ skill.exists
  /\ installs' = installs \cup {<<t.who, t.id>>}
  /\ skill' = Update(t.seen, [t.seen EXCEPT !.count = @ + 1])
  /\ skLog' = [skLog EXCEPT !.installed = TRUE]
  /\ EndTx(h)
  /\ UNCHANGED approvers

\* A request whose row another has closed meanwhile closes it again.
CommitRemoval(h) ==
  LET t == skTx[h]
      left == IF t.seen.count > 0 THEN t.seen.count - 1 ELSE 0
  IN
  /\ t.op = "uninstall" /\ skill.exists
  /\ installs' = installs \ {<<t.who, t.id>>}
  /\ skill' = Update(t.seen, [t.seen EXCEPT !.count = left])
  /\ EndTx(h)
  /\ UNCHANGED <<approvers, skLog>>

\* Publishing what has a row already lists it again.
CommitPublication(h) ==
  LET t == skTx[h] IN
  /\ t.op = "publish" /\ skill.exists
  /\ skill' = Update(t.seen, [t.seen EXCEPT !.active = TRUE])
  /\ EndTx(h)
  /\ UNCHANGED <<approvers, installs, skLog>>

CommitWithdrawal(h) ==
  LET t == skTx[h] IN
  /\ t.op = "unpublish" /\ skill.exists
  /\ skill' = Update(t.seen, [t.seen EXCEPT !.active = FALSE])
  /\ EndTx(h)
  /\ UNCHANGED <<approvers, installs, skLog>>

\* The row is gone, or installations hold it: the transaction fails.
Abort(h) ==
  /\ skTx[h].op # "idle"
  /\ \/ ~skill.exists
     \/ skTx[h].op = "delete" /\ skLog.installed
  /\ skTx' = [skTx EXCEPT ![h] = NoTx(skill)]
  /\ UNCHANGED <<skill, approvers, installs, skLog>>

SkNext ==
  \E h \in SkHandler :
    \/ \E op \in SkOps, who \in SkAdmin \cup SkUser : SkBegin(h, op, who)
    \/ Tally(h)
    \/ CommitApproval(h) \/ CommitRejection(h) \/ CommitDeletion(h)
    \/ CommitInstallation(h) \/ CommitRemoval(h)
    \/ CommitPublication(h) \/ CommitWithdrawal(h)
    \/ Abort(h)

SkSpec == SkInit /\ [][SkNext]_skVars

-----------------------------------------------------------------------------
(* Properties *)

\* What new pods get (approved-contents).
Distributed == skill.exists /\ skill.is_approved

\* The type invariant.
SkTypeOK ==
  /\ skill \in SkRow
  /\ approvers \subseteq SkAdmin
  /\ installs \subseteq SkUser \X (1..MaxSkillRequests)
  /\ skTx \in [SkHandler -> [op : SkOps \cup {"idle"}, who : SkAdmin \cup SkUser, seen : SkRow,
                             tally : 0..Cardinality(SkAdmin),
                             id : 0..MaxSkillRequests]]
  /\ skLog \in [requests : 0..MaxSkillRequests, overlapped : BOOLEAN, rejected : BOOLEAN,
                installed : BOOLEAN]

\* However approvals, rejections and deletions interleave, what new pods get was approved by
\* as many different administrators as its category asks for, and not by its author.
QuorumKept == Distributed => Cardinality(approvers) >= Required /\ SkAuthor \notin approvers

\* While requests come one at a time the flag that distribution looks at follows the status.
FlagFollowsStatus ==
  ~skLog.overlapped /\ skill.exists => (skill.is_approved <=> skill.status = "approved")

\* While requests come one at a time a skill that has its approvals and was never rejected is
\* approved.  (Two approvals at the same time each miss the other and leave it pending.)
QuorumSuffices ==
  ~skLog.overlapped /\ ~skLog.rejected /\ skill.exists /\ Cardinality(approvers) >= Required
    => skill.status = "approved"

\* While requests come one at a time the store's counter is the number of installations, and
\* nobody has installed the skill twice.
CountsInstallations ==
  ~skLog.overlapped => /\ skill.count = Cardinality(installs)
                       /\ \A u \in SkUser : Cardinality(RowsOf(u)) <= 1

\* While requests come one at a time flag, status, approvals, counter and installations of a
\* skill agree.
SkillIsCoherent == FlagFollowsStatus /\ QuorumSuffices /\ CountsInstallations
=============================================================================
