---------------------------- MODULE OutboundProxy ----------------------------
(***************************************************************************)
(* The proxy by which terminals reach the outside: the white list of       *)
(* domains that administrators keep (routers/admin.py), the copy of it in  *)
(* the proxy's memory (services/domain_whitelist.py), and the connections, *)
(* from the request to the end of the tunnel and its line in the access    *)
(* log (proxy_server.py).                                                  *)
(*                                                                         *)
(* Connections wait for the client, for the remote server and for the two  *)
(* relays; between a request's secret and the verdict nothing else runs.   *)
(***************************************************************************)
EXTENDS Naturals, FiniteSets

CONSTANTS
  PxConn,       \* connections
  PxHost,       \* hosts that are asked for
  PxRule,       \* entries that the white list may have: [base, wild]
  PxBelow,      \* pairs of a host and a domain that it is below of
  PxSecret,     \* secrets of sessions, all of one person
  PxTtl,        \* ticks that the copy of the list lasts
  MaxTicks,     \* bound: ticks of the clock
  MaxChanges,   \* bound: changes of the list and of the sessions
  MaxPxFaults   \* bound: failing databases and dying proxies

ASSUME ProxyAssumption ==
  /\ PxRule \subseteq [base : PxHost, wild : BOOLEAN]
  /\ PxBelow \subseteq PxHost \X PxHost
  /\ PxTtl \in Nat /\ MaxTicks \in Nat /\ MaxChanges \in Nat /\ MaxPxFaults \in Nat

VARIABLES
  domains,   \* row of each entry: absent, on or off
  sessions,  \* secrets of the sessions that are creating or running
  copy,      \* the proxy's copy: its entries, its age in ticks (cut at PxTtl + 1), whether it was
             \* ever loaded, and (history) whether loading it failed since
  conns,     \* connections
  pxLog      \* history: bounds; ticks since each entry was last on (cut at PxTtl + 1)

pxVars == <<domains, sessions, copy, conns, pxLog>>

\* said: the answer that the client had; line: the line of the access log; lately (history):
\* whether the verdict was right for the list, now or at most a copy's life ago.
NewConn == [phase |-> "new", host |-> "none", secret |-> "none", said |-> "nothing",
            line |-> "none", ends |-> {}, lately |-> FALSE]

PxInit ==
  /\ domains = [r \in PxRule |-> "absent"]
  /\ sessions = {}
  /\ copy = [rules |-> {}, age |-> 0, loaded |-> FALSE, failed |-> FALSE]
  /\ conns = [c \in PxConn |-> NewConn]
  /\ pxLog = [ticks |-> 0, changes |-> 0, faults |-> 0, off |-> [r \in PxRule |-> PxTtl + 1]]

Older(t) == IF t > PxTtl THEN t ELSE t + 1

PxTick ==
  /\ pxLog.ticks < MaxTicks
  /\ pxLog' = [pxLog EXCEPT !.ticks = @ + 1,
       !.off = [r \in PxRule |-> IF domains[r] = "on" THEN 0 ELSE Older(@[r])]]
  /\ copy' = [copy EXCEPT !.age = Older(@)]
  /\ UNCHANGED <<domains, sessions, conns>>

-----------------------------------------------------------------------------
(* The white list and the sessions *)

PxChange ==
  /\ pxLog.changes < MaxChanges
  /\ UNCHANGED <<copy, conns>>

\* add_allowed_domain; an entry that is there, even off, is refused.
AddDomain(r) ==
  /\ PxChange
  /\ domains[r] = "absent"
  /\ domains' = [domains EXCEPT ![r] = "on"]
  /\ pxLog' = [pxLog EXCEPT !.changes = @ + 1, !.off[r] = 0]
  /\ UNCHANGED sessions

\* update_allowed_domain turns an entry on or off.
TurnDomain(r) ==
  /\ PxChange
  /\ domains[r] # "absent"
  /\ domains' = [domains EXCEPT ![r] = IF @ = "on" THEN "off" ELSE "on"]
  /\ pxLog' = [pxLog EXCEPT !.changes = @ + 1, !.off[r] = IF domains[r] = "off" THEN 0 ELSE @]
  /\ UNCHANGED sessions

DeleteDomain(r) ==
  /\ PxChange
  /\ domains[r] # "absent"
  /\ domains' = [domains EXCEPT ![r] = "absent"]
  /\ pxLog' = [pxLog EXCEPT !.changes = @ + 1]
  /\ UNCHANGED sessions

\* A session begins with its secret, or ends; tunnels stay.
TurnSession(k) ==
  /\ PxChange
  /\ sessions' = IF k \in sessions THEN sessions \ {k} ELSE sessions \cup {k}
  /\ pxLog' = [pxLog EXCEPT !.changes = @ + 1]
  /\ UNCHANGED domains

-----------------------------------------------------------------------------
(* The verdict *)

\* Mutant of Stale: a list that was loaded is good for ever.
StaleNever == ~copy.loaded

Stale == ~copy.loaded \/ copy.age > PxTtl

\* A stale copy is loaded again; if that fails, the old one goes on, and is stale the next time.
FreshCopy ==
  \/ /\ ~Stale
     /\ UNCHANGED <<copy, pxLog>>
  \/ /\ Stale
     /\ copy' = [rules |-> {r \in PxRule : domains[r] = "on"}, age |-> 0,
                 loaded |-> TRUE, failed |-> FALSE]
     /\ UNCHANGED pxLog
  \/ /\ Stale /\ pxLog.faults < MaxPxFaults
     /\ copy' = [copy EXCEPT !.failed = TRUE]
     /\ pxLog' = [pxLog EXCEPT !.faults = @ + 1]

\* An entry admits its domain; with a wild card, those below it too.
Matches(r, host) == host = r.base \/ (r.wild /\ <<host, r.base>> \in PxBelow)

\* Whether the list had the host at some moment within the copy's life, and had not had it at one.
OnLately(host) == \E r \in PxRule :
  /\ r.base = host \/ (r.wild /\ <<host, r.base>> \in PxBelow)
  /\ pxLog.off[r] <= PxTtl

\* The client is answered and let go; its line is on its way to the log.
Refuse(c, answer) ==
  conns' = [conns EXCEPT ![c].phase = "done", ![c].said = answer, ![c].line = "queued",
                         ![c].ends = {}]

BeginConnect(c) ==
  /\ conns[c].phase = "new"
  /\ \E host \in PxHost, k \in PxSecret \cup {"none"} :
       conns' = [conns EXCEPT ![c] =
         [NewConn EXCEPT !.phase = "asking", !.host = host, !.secret = k, !.ends = {"client"}]]
  /\ UNCHANGED <<domains, sessions, copy, pxLog>>

\* The client is slow or sends something else than CONNECT: it is let go without a line.
LetGo(c) ==
  /\ conns[c].phase = "asking"
  /\ conns' = [conns EXCEPT ![c].phase = "done", ![c].ends = {}]
  /\ UNCHANGED <<domains, sessions, copy, pxLog>>

\* No credentials, or a secret of no session that is on.
RefuseSecret(c) ==
  /\ conns[c].phase = "asking" /\ conns[c].secret \notin sessions
  /\ Refuse(c, "407")
  /\ UNCHANGED <<domains, sessions, copy, pxLog>>

\* is_allowed
Judge(c) ==
  LET admitted == \E r \in copy'.rules : Matches(r, conns[c].host) IN
  /\ conns[c].phase = "asking" /\ conns[c].secret \in sessions
  /\ FreshCopy
  /\ IF admitted
       THEN conns' = [conns EXCEPT ![c].phase = "dialling", ![c].lately = OnLately(conns[c].host)]
       ELSE Refuse(c, "403")
  /\ UNCHANGED <<domains, sessions>>

-----------------------------------------------------------------------------
(* The tunnel *)

DialFails(c) ==
  /\ conns[c].phase = "dialling"
  /\ Refuse(c, "502")
  /\ UNCHANGED <<domains, sessions, copy, pxLog>>

\* Mutant of Dialled: the line is queued once the tunnel is over.
DialledUnlogged(c) ==
  /\ conns[c].phase = "dialling"
  /\ conns' = [conns EXCEPT ![c].phase = "open", ![c].said = "200",
                            ![c].ends = {"client", "remote"}]
  /\ UNCHANGED <<domains, sessions, copy, pxLog>>

\* The client is told and the relays begin; or it has gone, which leaves the remote end open and
\* no line.
Dialled(c) ==
  /\ conns[c].phase = "dialling"
  /\ \/ conns' = [conns EXCEPT ![c].phase = "open", ![c].said = "200", ![c].line = "queued",
                               ![c].ends = {"client", "remote"}]
     \/ conns' = [conns EXCEPT ![c].phase = "done", ![c].said = "gone", ![c].ends = {"remote"}]
  /\ UNCHANGED <<domains, sessions, copy, pxLog>>

\* One end has nothing more to say: its relay closes the other end.
RelayEnds(c) ==
  /\ conns[c].phase = "open" /\ Cardinality(conns[c].ends) = 2
  /\ \E e \in conns[c].ends : conns' = [conns EXCEPT ![c].ends = @ \ {e}]
  /\ UNCHANGED <<domains, sessions, copy, pxLog>>

\* The relay that is left is cancelled, which closes the end that it writes to.
EndTunnel(c) ==
  /\ conns[c].phase = "open" /\ Cardinality(conns[c].ends) < 2
  /\ conns' = [conns EXCEPT ![c].phase = "done", ![c].ends = {}]
  /\ UNCHANGED <<domains, sessions, copy, pxLog>>

-----------------------------------------------------------------------------
(* The access log, and faults *)

\* A thread of the pool writes the line; a failing database costs the line.
WriteLine(c) ==
  /\ conns[c].line = "queued"
  /\ \/ /\ conns' = [conns EXCEPT ![c].line =
                        IF conns[c].said = "200" THEN "allowed" ELSE "blocked"]
        /\ UNCHANGED pxLog
     \/ /\ pxLog.faults < MaxPxFaults
        /\ conns' = [conns EXCEPT ![c].line = "lost"]
        /\ pxLog' = [pxLog EXCEPT !.faults = @ + 1]
  /\ UNCHANGED <<domains, sessions, copy>>

\* The proxy dies and is started again: connections, queued lines and the copy are gone.
PxRestarts ==
  /\ pxLog.faults < MaxPxFaults
  /\ \E c \in PxConn : conns[c].phase # "new"
  /\ copy' = [rules |-> {}, age |-> 0, loaded |-> FALSE, failed |-> FALSE]
  /\ conns' = [c \in PxConn |->
       IF conns[c].phase = "new" THEN conns[c]
       ELSE [conns[c] EXCEPT !.phase = "done", !.ends = {},
                             !.line = IF @ = "queued" THEN "lost" ELSE @]]
  /\ pxLog' = [pxLog EXCEPT !.faults = @ + 1]
  /\ UNCHANGED <<domains, sessions>>

PxNext ==
  \/ PxTick \/ PxRestarts
  \/ \E r \in PxRule : AddDomain(r) \/ TurnDomain(r) \/ DeleteDomain(r)
  \/ \E k \in PxSecret : TurnSession(k)
  \/ \E c \in PxConn :
       \/ BeginConnect(c) \/ LetGo(c) \/ RefuseSecret(c) \/ Judge(c)
       \/ DialFails(c) \/ Dialled(c) \/ RelayEnds(c) \/ EndTunnel(c) \/ WriteLine(c)

PxSpec == PxInit /\ [][PxNext]_pxVars

-----------------------------------------------------------------------------
(* Properties *)

\* The type invariant.
PxTypeOK ==
  /\ domains \in [PxRule -> {"absent", "on", "off"}]
  /\ sessions \subseteq PxSecret
  /\ copy.rules \subseteq PxRule /\ copy.age \in 0..PxTtl + 1
  /\ conns \in [PxConn ->
       [phase : {"new", "asking", "dialling", "open", "done"}, host : PxHost \cup {"none"},
        secret : PxSecret \cup {"none"}, said : {"nothing", "gone", "200", "403", "407", "502"},
        line : {"none", "queued", "allowed", "blocked", "lost"},
        ends : SUBSET {"client", "remote"}, lately : BOOLEAN]]
  /\ \A c \in PxConn : conns[c].phase \in {"dialling", "open"} => conns[c].secret \in PxSecret

\* However the list changes, a tunnel is opened only to a host that the list had within the last
\* life of the copy, unless loading the list failed.
AdmittedLately ==
  [][\A c \in PxConn :
       conns[c].phase = "asking" /\ conns'[c].phase = "dialling" /\ ~copy'.failed
         => conns'[c].lately]_conns

\* Whoever loses or wins: a client that had an answer has one line in the log, which tells
\* whether a tunnel was opened, or the line is on its way or was lost with the database.
EveryAnswerHasItsLine ==
  \A c \in PxConn :
    /\ conns[c].said \in {"403", "407", "502"} => conns[c].line \in {"queued", "blocked", "lost"}
    /\ conns[c].said = "200" => conns[c].line \in {"queued", "allowed", "lost"}

\* A connection that is over has no end open, but for the remote one of a client that went
\* before it was told.
EndsTogether ==
  \A c \in PxConn :
    conns[c].phase = "done" =>
      conns[c].ends \subseteq (IF conns[c].said = "gone" THEN {"remote"} ELSE {})

\* Every CONNECT request that was answered leaves its line in the log, and none leaves an end
\* open.
ConnectionsEnd == EveryAnswerHasItsLine /\ EndsTogether
=============================================================================
