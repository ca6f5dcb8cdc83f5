--------------------------- MODULE AuditPipeline ---------------------------
(***************************************************************************)
(* The prompts of one terminal on their way into the audit tables and the  *)
(* knowledge graph.  (services/prompt_audit_service.py,                    *)
(* services/knowledge_extractor.py, services/knowledge_snapshot.py, their  *)
(* loops in core/scheduler.py, and the endpoints that trigger and review.) *)
(*                                                                         *)
(* Every replica runs every loop: the lock of the knowledge jobs is kept   *)
(* in the memory of the process.  A run reads, and writes all it has to    *)
(* write in one transaction.                                               *)
(***************************************************************************)
EXTENDS Naturals, FiniteSets

CONSTANTS
  PpReplica,  \* replicas, one job at a time each
  MaxPrompts, \* bound: messages of the terminal
  Violating,  \* those that match a security pattern
  Window,     \* messages that the script in the pod prints (500 in the code)
  MaxRuns     \* bound: runs of the jobs

Prompt == 1..MaxPrompts
ASSUME AuditAssumption ==
  /\ IsFiniteSet(PpReplica)
  /\ MaxPrompts \in Nat /\ Violating \subseteq Prompt
  /\ Window \in Nat \ {0} /\ MaxRuns \in Nat

VARIABLES
  written,  \* number of messages in the terminal's files
  convs,    \* rows of prompt_audit_conversations: the messages stored
  marked,   \* those of them with knowledge_extracted_at
  summary,  \* the day's row of prompt_audit_summary: messages and flagged ones, or none
  flags,    \* rows of prompt_audit_flags per message: unreviewed and reviewed ones
  graph,    \* whether the concept's node exists, and its mentions per message
  snapshot, \* the day's count of mentions in knowledge_snapshots, or none
  ppJob,    \* what each replica is doing
  ppLog     \* history: runs; whether jobs overlapped; messages whose batch the model did not
            \* answer

pipeVars == <<written, convs, marked, summary, flags, graph, snapshot, ppJob, ppLog>>

NoneYet == [there |-> FALSE, count |-> 0, flagged |-> 0]
PpIdle == [job |-> "idle", seen |-> {}, found |-> {}, row |-> FALSE, ok |-> FALSE, count |-> 0]
PpQuiet == \A r \in PpReplica : ppJob[r].job = "idle"

PpInit ==
  /\ written = 0 /\ convs = {} /\ marked = {}
  /\ summary = NoneYet
  /\ flags = [p \in Prompt |-> [open |-> 0, reviewed |-> 0]]
  /\ graph = [node |-> FALSE, mentions |-> [p \in Prompt |-> 0]]
  /\ snapshot = [there |-> FALSE, count |-> 0]
  /\ ppJob = [r \in PpReplica |-> PpIdle]
  /\ ppLog = [runs |-> 0, overlapped |-> FALSE, unanswered |-> {}]

Mentions ==
  LET Sum[n \in 0..MaxPrompts] == IF n = 0 THEN 0 ELSE Sum[n - 1] + graph.mentions[n]
  IN Sum[MaxPrompts]

\* The user goes on working.
UserWrites ==
  /\ written < MaxPrompts
  /\ written' = written + 1
  /\ UNCHANGED <<convs, marked, summary, flags, graph, snapshot, ppJob, ppLog>>

Launch(r, w) ==
  /\ ppJob[r].job = "idle" /\ ppLog.runs < MaxRuns
  /\ ppJob' = [ppJob EXCEPT ![r] = w]
  /\ ppLog' = [ppLog EXCEPT !.runs = @ + 1, !.overlapped = @ \/ ~PpQuiet]

\* A statement breaks a uniqueness: nothing of the run remains, and it is only logged.
Abandon(r) ==
  /\ ppJob' = [ppJob EXCEPT ![r] = PpIdle]
  /\ UNCHANGED <<convs, marked, summary, flags, graph, snapshot, ppLog>>

-----------------------------------------------------------------------------
(* The audit, every half hour and on an admin's demand *)

\* The last messages of the files, and the rows that are there for them.
LastMessages == {p \in 1..written : p + Window > written}

BeginAudit(r) ==
  /\ written > 0
  /\ Launch(r, [PpIdle EXCEPT !.job = "audit", !.seen = LastMessages,
                              !.found = convs, !.row = summary.there])
  /\ UNCHANGED <<written, convs, marked, summary, flags, graph, snapshot>>

\* Mutant of StoreAudit: the conversations are committed, the flags are lost.
StoreAuditUnflagged(r) ==
  LET w == ppJob[r] IN
  /\ convs' = convs \cup w.seen
  /\ summary' = [there |-> TRUE, count |-> Cardinality(w.seen),
                 flagged |-> Cardinality(w.seen \cap Violating)]
  /\ ppJob' = [ppJob EXCEPT ![r] = PpIdle]
  /\ UNCHANGED <<marked, flags, graph, snapshot, ppLog>>

\* New messages are stored once, but every message seen is classified and flagged again; the
\* day's summary is replaced.
StoreAudit(r) ==
  LET w == ppJob[r] IN
  /\ convs' = convs \cup w.seen
  /\ summary' = [there |-> TRUE, count |-> Cardinality(w.seen),
                 flagged |-> Cardinality(w.seen \cap Violating)]
  /\ flags' = [p \in Prompt |-> [flags[p] EXCEPT !.open =
                 @ + IF p \in w.seen \cap Violating THEN 1 ELSE 0]]
  /\ ppJob' = [ppJob EXCEPT ![r] = PpIdle]
  /\ UNCHANGED <<marked, graph, snapshot, ppLog>>

CommitAudit(r) ==
  LET w == ppJob[r] IN
  /\ w.job = "audit"
  /\ IF (w.seen \ w.found) \cap convs # {} \/ (~w.row /\ summary.there)
       THEN Abandon(r) ELSE StoreAudit(r)
  /\ UNCHANGED written

\* An admin closes one flag.
ReviewFlag(p) ==
  /\ flags[p].open > 0
  /\ flags' = [flags EXCEPT ![p] = [open |-> @.open - 1, reviewed |-> @.reviewed + 1]]
  /\ UNCHANGED <<written, convs, marked, summary, graph, snapshot, ppJob, ppLog>>

-----------------------------------------------------------------------------
(* The extraction, every six hours, and the snapshot, every day *)

BeginExtraction(r) ==
  /\ convs \ marked # {}
  /\ Launch(r, [PpIdle EXCEPT !.job = "ask", !.seen = convs \ marked])
  /\ UNCHANGED <<written, convs, marked, summary, flags, graph, snapshot>>

\* The model answers with the concept, or three times not at all; the concept's node is
\* looked up after that.
ModelAnswers(r) ==
  /\ ppJob[r].job = "ask"
  /\ \E ok \in BOOLEAN :
       ppJob' = [ppJob EXCEPT ![r] = [@ EXCEPT !.job = "store", !.ok = ok, !.row = graph.node]]
  /\ UNCHANGED <<written, convs, marked, summary, flags, graph, snapshot, ppLog>>

\* Mutant of StoreExtraction: conversations are marked before the mentions are stored.
StoreExtractionMarkOnly(r) ==
  LET w == ppJob[r] IN
  /\ marked' = marked \cup w.seen
  /\ graph' = [graph EXCEPT !.node = @ \/ w.ok]
  /\ ppLog' = [ppLog EXCEPT !.unanswered = IF w.ok THEN @ ELSE @ \cup w.seen]
  /\ ppJob' = [ppJob EXCEPT ![r] = PpIdle]
  /\ UNCHANGED <<convs, summary, flags, snapshot>>

\* What the model did not answer is marked as extracted all the same.
StoreExtraction(r) ==
  LET w == ppJob[r] IN
  /\ marked' = marked \cup w.seen
  /\ graph' = [node |-> graph.node \/ w.ok,
               mentions |-> [p \in Prompt |->
                 graph.mentions[p] + IF w.ok /\ p \in w.seen THEN 1 ELSE 0]]
  /\ ppLog' = [ppLog EXCEPT !.unanswered = IF w.ok THEN @ ELSE @ \cup w.seen]
  /\ ppJob' = [ppJob EXCEPT ![r] = PpIdle]
  /\ UNCHANGED <<convs, summary, flags, snapshot>>

CommitExtraction(r) ==
  LET w == ppJob[r] IN
  /\ w.job = "store"
  /\ IF w.ok /\ ~w.row /\ graph.node THEN Abandon(r) ELSE StoreExtraction(r)
  /\ UNCHANGED written

BeginSnapshot(r) ==
  /\ graph.node
  /\ Launch(r, [PpIdle EXCEPT !.job = "count", !.count = Mentions, !.row = snapshot.there])
  /\ UNCHANGED <<written, convs, marked, summary, flags, graph, snapshot>>

CommitSnapshot(r) ==
  LET w == ppJob[r] IN
  /\ w.job = "count"
  /\ IF ~w.row /\ snapshot.there
       THEN Abandon(r)
       ELSE /\ snapshot' = [there |-> TRUE, count |-> w.count]
            /\ ppJob' = [ppJob EXCEPT ![r] = PpIdle]
            /\ UNCHANGED <<convs, marked, summary, flags, graph, ppLog>>
  /\ UNCHANGED written

\* The replica restarts: what it had not committed is gone.
JobDies(r) == ppJob[r].job # "idle" /\ Abandon(r) /\ UNCHANGED written

PpNext ==
  \/ UserWrites
  \/ \E r \in PpReplica :
       \/ BeginAudit(r) \/ CommitAudit(r)
       \/ BeginExtraction(r) \/ ModelAnswers(r) \/ CommitExtraction(r)
       \/ BeginSnapshot(r) \/ CommitSnapshot(r)
       \/ JobDies(r)
  \/ \E p \in Violating : ReviewFlag(p)

PpSpec == PpInit /\ [][PpNext]_pipeVars

-----------------------------------------------------------------------------
(* Properties *)

\* The type invariant.
PpTypeOK ==
  /\ written \in 0..MaxPrompts
  /\ convs \subseteq 1..written /\ marked \subseteq convs
  /\ summary \in [there : BOOLEAN, count : 0..Window, flagged : 0..Window]
  /\ flags \in [Prompt -> [open : Nat, reviewed : Nat]]
  /\ graph.node \in BOOLEAN /\ graph.mentions \in [Prompt -> Nat]
  /\ snapshot \in [there : BOOLEAN, count : Nat]
  /\ ppJob \in [PpReplica -> [job : {"idle", "audit", "ask", "store", "count"},
                              seen : SUBSET Prompt, found : SUBSET Prompt, row : BOOLEAN,
                              ok : BOOLEAN, count : Nat]]
  /\ ppLog \in [runs : 0..MaxRuns, overlapped : BOOLEAN, unanswered : SUBSET Prompt]

\* A message is in the audit tables with its flags or not at all, whatever audits overlap,
\* break a uniqueness or die.
FlaggedWhenStored ==
  \A p \in Violating : p \in convs <=> flags[p].open + flags[p].reviewed > 0

\* Nothing the model has answered is lost between the tables: a conversation marked as
\* extracted is mentioned, unless its batch got no answer.
ExtractedIsMentioned ==
  \A p \in marked \ ppLog.unanswered : graph.mentions[p] > 0

\* While jobs do not overlap a conversation is mentioned once.  The lock of the extraction is
\* one per process and promises nothing to the other replica: when both run, a conversation is
\* mentioned as often as there are replicas, and no more.
MentionedOnce ==
  \A p \in Prompt :
    graph.mentions[p] <= IF ppLog.overlapped THEN Cardinality(PpReplica) ELSE 1

\* However often and late the snapshot of a day is repeated, it replaces the day's count and
\* never comes to more mentions than there are.
SnapshotNotAhead == snapshot.count <= Mentions

\* Between the audit tables, the graph and its snapshots nothing the model has answered is lost,
\* and nothing is counted twice.
GraphIsAccounted == ExtractedIsMentioned /\ MentionedOnce /\ SnapshotNotAhead
=============================================================================
