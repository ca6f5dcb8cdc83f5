----------------------------- MODULE MCLiveness -----------------------------
(***************************************************************************)
(* A small instance, for one run of TLC, of the three components with a    *)
(* promise that something happens in the end: the editing of documents,    *)
(* the sessions of terminals and the usage worker.  They share no state,   *)
(* so a behaviour of the run is a behaviour of one of them, which part     *)
(* names.                                                                  *)
(***************************************************************************)
EXTENDS EditSession, SessionLifecycle, Sequences

CONSTANTS u1, e1, h1, h2, t1, t2, t3, t4, t5, t6, w1, w2

\* The constants and variables of UsageWorker.
CONSTANTS Worker, Survivor, RequestId, NoRequestId, NoWorker, Kinds, BatchSize, MaxRetries,
          MaxEntries, MaxFaults

VARIABLES stream, cursor, owner, deliveries, stale, pc, caller, batch, claimed, retries, ledger,
          charged, dlq, lost, faults

UW == INSTANCE UsageWorker

uwVars == <<stream, cursor, owner, deliveries, stale, pc, caller, batch, claimed, retries, ledger,
            charged, dlq, lost, faults>>

VARIABLE part  \* the component whose behaviour it is

AllInit == part \in {"edit", "session", "usage"} /\ Init /\ SlInit /\ UW!Init

allVars == <<part, vars, slVars, uwVars>>

\* The component in question takes a step, the others rest.
InEdit == part = "edit" /\ UNCHANGED <<part, slVars, uwVars>>
InSessions == part = "session" /\ UNCHANGED <<part, vars, uwVars>>
InUsage == part = "usage" /\ UNCHANGED <<part, vars, slVars>>

AllNext == (InEdit /\ Next) \/ (InSessions /\ SlNext) \/ (InUsage /\ UW!Next)

\* The fairness of each component.  As part never changes, an action of one component and an
\* action of another are together treated fairly when each is in the behaviours that are its own.
AllFairness ==
  /\ WF_allVars(InEdit /\ \E m \in net : Receive(m))
  /\ \A h \in Handler : WF_allVars((InEdit /\ HandlerStep(h)) \/ (InSessions /\ SlStep(h)))
  /\ WF_allVars((InSessions /\ PodStarts) \/ (InUsage /\ UW!Idle(1)))
  /\ WF_allVars((InSessions /\ PodGone) \/ (InUsage /\ UW!Idle(2)))
  /\ SF_allVars(InSessions /\ \E h \in SlHandler : Wake(h))
  /\ \A w \in Survivor :
       /\ WF_allVars(InUsage /\ UW!Step(w))
       /\ SF_allVars(\/ InSessions /\ \E h \in SlHandler : Begin(h, "create")
                     \/ InUsage /\ UW!ClaimStale(w))
       /\ SF_allVars(\/ InSessions /\ \E h \in SlHandler : Begin(h, "list")
                     \/ InUsage /\ UW!ReadNew(w))

AllFairSpec == AllInit /\ [][AllNext]_allVars /\ AllFairness

\* SessionLifecycle's Served, of the behaviours that are sessions: a user who keeps asking for
\* a session gets a pod that runs and a row that says so, over and over.
SessionServed == []<>(part = "session" => Usable)

\* UsageWorker's EverySettles: a published entry is acknowledged in the end, whatever happens to
\* the worker that was given it, unless an entry that no code can process is in the way.
EntriesSettle == UW!EverySettles
=============================================================================
