-------------------------- MODULE SecurityPolicies --------------------------
(***************************************************************************)
(* Security policies: the templates that administrators keep, the policy   *)
(* of every person, and the terminals, whose rights on the databases are   *)
(* those of the policy they were made with (routers/security.py and the    *)
(* part of routers/sessions.py that makes a terminal).                     *)
(*                                                                         *)
(* A changed template is spread in three commits: the template, the        *)
(* policies of the people at its level, and, after their pods have been    *)
(* backed up and deleted one by one, their sessions.  The two replicas     *)
(* interleave between those steps.  A deleted pod runs on for its grace    *)
(* period, in which it is taken for one that is there; Kubernetes, which   *)
(* also ends pods by itself, is external.                                  *)
(***************************************************************************)
EXTENDS Naturals, FiniteSets

CONSTANTS
  SpUser,       \* people
  SpLevel,      \* names of templates, which are the levels of policies
  BuiltIn,      \* the names that have a template in the code
  SpHandler,    \* handlers that can be under way
  MaxVersions,  \* bound: texts of policies that administrators write
  MaxSpOps,     \* bound: requests
  MaxSpFaults   \* bound: failing calls of Kubernetes and dying replicas

ASSUME PolicyAssumption ==
  /\ BuiltIn \subseteq SpLevel /\ "standard" \in BuiltIn /\ "none" \notin SpLevel
  /\ MaxVersions \in Nat /\ MaxSpOps \in Nat /\ MaxSpFaults \in Nat

\* A policy has the level that its text names; version 0 of a level is the built-in text.
Policy == [level : SpLevel, version : 0..MaxVersions]
NoPolicy == [level |-> "none", version |-> 0]

VARIABLES
  template,   \* row of each name: its policy, or none
  policy,     \* policy of each person, or none
  approved,   \* people who are approved
  terminal,   \* policy that each person's pod was made with, or none: no pod
  leaving,    \* people whose pod has been deleted and is in its grace period
  ended,      \* people whose pod has failed or succeeded
  live,       \* people whose session is creating or running
  spTasks,    \* handlers under way
  spLog       \* history: bounds; whether two changes of templates overlapped; people whose policy
              \* was set without a template or who were passed by; whose pod was made with a policy
              \* that was replaced meanwhile; who came back while their session was being ended; who
              \* were given, when last they asked for a terminal, a pod that was going or over

pods == <<terminal, leaving, ended>>
spVars == <<template, policy, approved, pods, live, spTasks, spLog>>

SpRest == [op |-> "idle", phase |-> "none", who |-> "none", level |-> "none", text |-> NoPolicy,
           todo |-> {}, marked |-> {}, flushed |-> {}]

SpInit ==
  /\ template = [n \in SpLevel |-> NoPolicy]
  /\ policy = [u \in SpUser |-> NoPolicy]
  /\ approved = SpUser
  /\ terminal = [u \in SpUser |-> NoPolicy]
  /\ leaving = {} /\ ended = {} /\ live = {}
  /\ spTasks = [h \in SpHandler |-> SpRest]
  /\ spLog = [ops |-> 0, faults |-> 0, version |-> 0, overlapped |-> FALSE,
              strayed |-> {}, direct |-> {}, late |-> {}, crossed |-> {}, reused |-> {}]

\* A person without a policy has the built-in standard one.
Effective(u) == IF policy[u] = NoPolicy THEN [level |-> "standard", version |-> 0] ELSE policy[u]

SpOp == spLog.ops < MaxSpOps

SpFinish(h) == spTasks' = [spTasks EXCEPT ![h] = SpRest]

Making(u) == {h \in SpHandler : spTasks[h].op = "make" /\ spTasks[h].who = u}
Spreading == {h \in SpHandler : spTasks[h].op = "spread"}
\* The pod is there, and will be.
Stays(u) == terminal[u] # NoPolicy /\ u \notin leaving
\* The rows that an uncommitted transaction has written already.
RowLocked(u) == \E h \in SpHandler : u \in spTasks[h].flushed

-----------------------------------------------------------------------------
(* Policies of one person *)

\* update_policy: any text; pods go on as they are.
SetPolicy(u) ==
  /\ SpOp
  /\ spLog.version < MaxVersions
  /\ \E n \in SpLevel :
       policy' = [policy EXCEPT ![u] = [level |-> n, version |-> spLog.version + 1]]
  /\ spLog' = [spLog EXCEPT !.ops = @ + 1, !.version = @ + 1,
                            !.strayed = @ \cup {u}, !.direct = @ \cup {u}]
  /\ UNCHANGED <<template, approved, pods, live, spTasks>>

\* apply_template: a built-in text goes before a row of the same name.
ApplyTemplate(u, n) ==
  LET text == IF n \in BuiltIn THEN [level |-> n, version |-> 0] ELSE template[n] IN
  /\ SpOp
  /\ text # NoPolicy
  /\ policy' = [policy EXCEPT ![u] = text]
  /\ spLog' = [spLog EXCEPT !.ops = @ + 1, !.strayed = @ \cup {u}, !.direct = @ \cup {u}]
  /\ UNCHANGED <<template, approved, pods, live, spTasks>>

\* Approval is taken away and given again; the policy stays.
TurnApproval(u) ==
  /\ SpOp
  /\ approved' = IF u \in approved THEN approved \ {u} ELSE approved \cup {u}
  /\ spLog' = [spLog EXCEPT !.ops = @ + 1]
  /\ UNCHANGED <<template, policy, pods, live, spTasks>>

-----------------------------------------------------------------------------
(* Templates *)

\* create_custom_template of a new name: nobody's policy changes, even if it is a built-in name.
CreateTemplate(n) ==
  LET text == [level |-> n, version |-> spLog.version + 1] IN
  /\ SpOp
  /\ spLog.version < MaxVersions
  /\ template[n] = NoPolicy
  /\ template' = [template EXCEPT ![n] = text]
  /\ spLog' = [spLog EXCEPT !.ops = @ + 1, !.version = @ + 1,
                            !.overlapped = @ \/ Spreading # {},
                            !.strayed = @ \cup {u \in SpUser : Effective(u).level = n}]
  /\ UNCHANGED <<policy, approved, pods, live, spTasks>>

Spread(h, n, text) ==
  /\ spTasks[h].op = "idle"
  /\ SpOp
  /\ spTasks' = [spTasks EXCEPT
       ![h] = [SpRest EXCEPT !.op = "spread", !.phase = "spread", !.level = n, !.text = text]]
  /\ spLog' = [spLog EXCEPT !.ops = @ + 1,
                            !.version = IF @ < text.version THEN text.version ELSE @,
                            !.overlapped = @ \/ Spreading # {}]
  /\ UNCHANGED <<policy, approved, pods, live>>

\* create_custom_template of a name that is there, or update_custom_template, with a new text.
RewriteTemplate(h, n) ==
  LET text == [level |-> n, version |-> spLog.version + 1] IN
  /\ spLog.version < MaxVersions
  /\ template[n] # NoPolicy
  /\ template' = [template EXCEPT ![n] = text]
  /\ Spread(h, n, text)

\* update_custom_template with another name and the old text, which names the old level.
RenameTemplate(h, n, new) ==
  /\ template[n] # NoPolicy /\ template[new] = NoPolicy
  /\ template' = [template EXCEPT ![n] = NoPolicy, ![new] = template[n]]
  /\ Spread(h, new, template[n])

DeleteTemplate(n) ==
  /\ SpOp
  /\ template[n] # NoPolicy
  /\ template' = [template EXCEPT ![n] = NoPolicy]
  /\ spLog' = [spLog EXCEPT !.ops = @ + 1]
  /\ UNCHANGED <<policy, approved, pods, live, spTasks>>

-----------------------------------------------------------------------------
(* Spreading a template *)

\* The people at the level; one request takes those without a policy for standard, the other not.
AtLevel(n) == {u \in SpUser : policy[u].level = n}
AtLevelOrDefault(n) == {u \in SpUser : Effective(u).level = n}

\* Those whose policy is not their template's text when h has passed the people in who: a text
\* that kept an old level's name may have put them among the people of another template.
Strayed(h, who) ==
  LET t == spTasks[h] IN
  (spLog.strayed \ who) \cup (AtLevelOrDefault(t.level) \ who) \cup (who \ approved)
    \cup {u \in who : template[t.text.level] \notin {NoPolicy, t.text}}

\* Mutant of SpreadPolicies: the policies change, and the pods go on.
SpreadPoliciesQuietly(h) ==
  LET t == spTasks[h] IN
  /\ t.phase = "spread"
  /\ \E who \in {AtLevel(t.level), AtLevelOrDefault(t.level)} :
       /\ policy' = [u \in SpUser |-> IF u \in who \cap approved THEN t.text ELSE policy[u]]
       /\ spLog' = [spLog EXCEPT !.strayed = Strayed(h, who)]
  /\ SpFinish(h)
  /\ UNCHANGED <<template, approved, pods, live>>

\* The approved people at the level have their policy replaced, and their pods are to go.
SpreadPolicies(h) ==
  LET t == spTasks[h] IN
  /\ t.phase = "spread"
  /\ \E who \in {AtLevel(t.level), AtLevelOrDefault(t.level)} :
       /\ policy' = [u \in SpUser |-> IF u \in who \cap approved THEN t.text ELSE policy[u]]
       /\ spTasks' = [spTasks EXCEPT ![h].phase = "kill", ![h].todo = who \cap approved]
       /\ spLog' = [spLog EXCEPT !.strayed = Strayed(h, who)]
  /\ UNCHANGED <<template, approved, pods, live>>

\* Mutant of Killed: the person is looked at once more.
KilledAgain(h, u) ==
  [spTasks EXCEPT ![h].flushed = @ \cup spTasks[h].marked, ![h].marked = {u}]

\* The task of h once u is done: asking for u's session has written the one before.
Killed(h, u) ==
  [spTasks EXCEPT ![h].todo = @ \ {u}, ![h].flushed = @ \cup spTasks[h].marked, ![h].marked = {u}]

\* _terminate_user_pods: a pod that is not there, or that is over, is passed over.
KillPod(h, u) ==
  LET over == terminal[u] = NoPolicy \/ u \in ended IN
  /\ spTasks[h].phase = "kill" /\ u \in spTasks[h].todo
  /\ leaving' = IF over THEN leaving ELSE leaving \cup {u}
  /\ spTasks' = IF over THEN [spTasks EXCEPT ![h].todo = @ \ {u}] ELSE Killed(h, u)
  /\ spLog' = IF Making(u) = {} THEN spLog
              ELSE [spLog EXCEPT !.late = @ \cup {u}, !.crossed = @ \cup {u}]
  /\ UNCHANGED <<template, policy, approved, terminal, ended, live>>

CommitKills(h) ==
  /\ spTasks[h].phase = "kill" /\ spTasks[h].todo = {}
  /\ live' = live \ (spTasks[h].marked \cup spTasks[h].flushed)
  /\ SpFinish(h)
  /\ UNCHANGED <<template, policy, approved, pods, spLog>>

-----------------------------------------------------------------------------
(* Terminals *)

\* create_session reads the policy; a session whose pod is gone or over is ended first, and the
\* pod that is over is deleted.
BeginMake(h, u) ==
  /\ spTasks[h].op = "idle"
  /\ SpOp
  /\ u \in approved /\ Making(u) = {}
  /\ u \notin live \/ terminal[u] = NoPolicy \/ u \in ended
  /\ u \in live => ~RowLocked(u)
  /\ live' = live \ {u}
  /\ leaving' = IF u \in live \cap ended THEN leaving \cup {u} ELSE leaving
  /\ spTasks' = [spTasks EXCEPT
       ![h] = [SpRest EXCEPT !.op = "make", !.phase = "pod", !.who = u, !.text = Effective(u)]]
  /\ spLog' = [spLog EXCEPT !.ops = @ + 1, !.reused = @ \ {u},
       !.crossed = IF \E g \in SpHandler : u \in spTasks[g].marked THEN @ \cup {u} ELSE @]
  /\ UNCHANGED <<template, policy, approved, terminal, ended>>

\* create_pod: a pod that is there is taken as it is, one that is going or over, too.
MakePod(h) ==
  LET t == spTasks[h] IN
  /\ t.phase = "pod"
  /\ terminal' = IF terminal[t.who] = NoPolicy THEN [terminal EXCEPT ![t.who] = t.text]
                                               ELSE terminal
  /\ spTasks' = [spTasks EXCEPT ![h].phase = "row"]
  /\ spLog' = IF terminal[t.who] = NoPolicy
                THEN [spLog EXCEPT
                       !.direct = IF Effective(t.who) = t.text THEN @ \ {t.who} ELSE @,
                       !.late = IF Effective(t.who) = t.text THEN @ \ {t.who} ELSE @]
              ELSE IF t.who \in leaving \cup ended
                THEN [spLog EXCEPT !.reused = @ \cup {t.who}]
              ELSE spLog
  /\ UNCHANGED <<template, policy, approved, leaving, ended, live>>

StoreSession(h) ==
  LET t == spTasks[h] IN
  /\ t.phase = "row"
  /\ ~RowLocked(t.who)
  /\ live' = live \cup {t.who}
  /\ SpFinish(h)
  /\ spLog' = [spLog EXCEPT
       !.crossed = IF \E g \in SpHandler : t.who \in spTasks[g].marked THEN @ \cup {t.who} ELSE @]
  /\ UNCHANGED <<template, policy, approved, pods>>

\* The person ends the session: the pod is to go, and the row says so.
EndSession(u) ==
  /\ u \in live /\ ~RowLocked(u) /\ Making(u) = {}
  /\ leaving' = IF terminal[u] = NoPolicy THEN leaving ELSE leaving \cup {u}
  /\ live' = live \ {u}
  /\ UNCHANGED <<template, policy, approved, terminal, ended, spTasks, spLog>>

-----------------------------------------------------------------------------
(* Kubernetes *)

\* The deadline, a crash or a lost node.
PodFinishes(u) ==
  /\ terminal[u] # NoPolicy
  /\ ended' = ended \cup {u}
  /\ UNCHANGED <<template, policy, approved, terminal, leaving, live, spTasks, spLog>>

\* The grace period is over.
PodGoes(u) ==
  /\ u \in leaving
  /\ terminal' = [terminal EXCEPT ![u] = NoPolicy]
  /\ leaving' = leaving \ {u} /\ ended' = ended \ {u}
  /\ UNCHANGED <<template, policy, approved, live, spTasks, spLog>>

-----------------------------------------------------------------------------
(* Faults *)

SpFault ==
  /\ spLog.faults < MaxSpFaults
  /\ spLog' = [spLog EXCEPT !.faults = @ + 1]

\* Kubernetes refuses: the pod stays, the next one is looked at.
KillFails(h, u) ==
  /\ spTasks[h].phase = "kill" /\ u \in spTasks[h].todo
  /\ SpFault
  /\ spTasks' = [spTasks EXCEPT ![h].todo = @ \ {u}]
  /\ UNCHANGED <<template, policy, approved, pods, live>>

\* A replica dies, or Kubernetes makes no pod: what is not committed is gone.
SpDies(h) ==
  /\ spTasks[h].op # "idle"
  /\ SpFault
  /\ SpFinish(h)
  /\ UNCHANGED <<template, policy, approved, pods, live>>

SpNext ==
  \/ \E u \in SpUser : \/ SetPolicy(u) \/ TurnApproval(u) \/ EndSession(u)
                       \/ PodFinishes(u) \/ PodGoes(u)
                       \/ \E n \in SpLevel : ApplyTemplate(u, n)
  \/ \E n \in SpLevel : CreateTemplate(n) \/ DeleteTemplate(n)
  \/ \E h \in SpHandler :
       \/ \E n \in SpLevel : RewriteTemplate(h, n)
       \/ \E n, new \in SpLevel : RenameTemplate(h, n, new)
       \/ SpreadPolicies(h) \/ CommitKills(h)
       \/ \E u \in SpUser : KillPod(h, u) \/ KillFails(h, u) \/ BeginMake(h, u)
       \/ MakePod(h) \/ StoreSession(h) \/ SpDies(h)

SpSpec == SpInit /\ [][SpNext]_spVars

-----------------------------------------------------------------------------
(* Properties *)

\* The type invariant.
SpTypeOK ==
  /\ template \in [SpLevel -> Policy \cup {NoPolicy}]
  /\ policy \in [SpUser -> Policy \cup {NoPolicy}]
  /\ terminal \in [SpUser -> Policy \cup {NoPolicy}]
  /\ leaving \cup ended \subseteq {u \in SpUser : terminal[u] # NoPolicy}
  /\ approved \subseteq SpUser /\ live \subseteq SpUser
  /\ \A h \in SpHandler :
       LET t == spTasks[h] IN
       /\ t.op \in {"idle", "spread", "make"} /\ (t.op = "idle" <=> t = SpRest)
       /\ t.todo \subseteq SpUser /\ t.marked \subseteq SpUser \ t.todo
       /\ t.op = "make" => t.text \in Policy /\ t.who \in SpUser

\* Once a change of a template has passed a person, the pod runs with the policy that the person
\* has, however terminals are made and ended meanwhile, or it is in its grace period; but for
\* pods that were being made while it passed, for policies set one by one, which restart nothing,
\* and for failing calls.
PodsFollowPolicies ==
  \A u \in SpUser :
    \/ ~Stays(u) \/ u \in ended
    \/ terminal[u] = Effective(u)
    \/ u \in spLog.direct \cup spLog.late
    \/ \E h \in SpHandler : u \in spTasks[h].todo
    \/ spLog.faults > 0

\* Where changes of templates do not overlap, the people at a level have its template's text:
\* all but those who were passed by, were given a text of their own, or were given the text of a
\* renamed template that names the level of another.
PeopleFollowTemplates ==
  spLog.overlapped \/ Spreading # {} \/ spLog.faults > 0 \/
  \A u \in approved \ spLog.strayed :
    policy[u] = NoPolicy \/ template[policy[u].level] \in {NoPolicy, policy[u]}

\* A session that is over has no pod that stays and one that is on has it, but for those that
\* are being made or ended, those that were being made when they were ended, and those that were
\* given a pod that was going: such a session is on, and has none when the grace period is over.
SessionsTellPods ==
  \A u \in SpUser :
    \/ u \in live <=> Stays(u)
    \/ u \in live \cap spLog.reused
    \/ Making(u) # {} \/ u \in spLog.crossed
    \/ \E h \in SpHandler : u \in spTasks[h].marked \cup spTasks[h].flushed
    \/ spLog.faults > 0

\* A changed template reaches the people at its level and their pods, and the sessions tell
\* which pods there are.
PoliciesSpread == PodsFollowPolicies /\ PeopleFollowTemplates /\ SessionsTellPods
=============================================================================
