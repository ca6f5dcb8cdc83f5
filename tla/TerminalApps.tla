---------------------------- MODULE TerminalApps ----------------------------
(***************************************************************************)
(* The applications of one terminal (container-image/fileserver.py): the   *)
(* directories of its workspace, the file in which the file server keeps   *)
(* the port of each application, the processes it starts, and the copy of  *)
(* a project's files that a deployment takes.                              *)
(*                                                                         *)
(* The file server has one thread: a request waits while another is        *)
(* handled.  Processes do not wait: one that was started listens only      *)
(* later, and one that was told to end holds its port until it does.  The  *)
(* server looks for listeners in the kernel's table of IPv4 sockets, and   *)
(* sees none that listens at '::', as node does unless it is told not to.  *)
(***************************************************************************)
EXTENDS Naturals

CONSTANTS
  WaDir,        \* directories of the workspace, by the name of each
  WaAlias,      \* other names that applications are given
  MaxPort,      \* ports 1..MaxPort stand for 3000..3100
  WaProc,       \* processes
  WaItem,       \* items of the project that is deployed
  MaxWaOps,     \* bound: requests, edits and processes run by hand
  MaxWaFaults   \* bound: terminals that restart, copies and searches that fail

ASSUME TerminalAppsAssumption ==
  /\ MaxPort \in Nat \ {0}
  /\ WaDir \cap WaAlias = {}
  /\ MaxWaOps \in Nat /\ MaxWaFaults \in Nat

VARIABLES
  dirs,      \* absent, bare, or a project (package.json, requirements.txt, Dockerfile)
  registry,  \* .webapp-registry.json: the entry of each name
  procs,     \* processes: working directory, port, and whether IPv4 sockets show them
  tab,       \* the application that the hub started last, and what its window shows
  copying,   \* the copy for a deployment
  files,     \* versions of the project's items: in its directory, and in deployed/.../current
  waLog      \* history: bounds; whether the list of applications is as the last status left it

waVars == <<dirs, registry, procs, tab, copying, files, waLog>>

WaName == WaDir \cup WaAlias
WaPort == 1..MaxPort
NoPort == 0
NoEntry == [port |-> NoPort, path |-> "none"]
NoProc == [phase |-> "none", dir |-> "none", port |-> NoPort, family |-> "v4"]

\* quiet (history): nothing else was, or came, on its way to the port, or held it unseen.
NoTab == [dir |-> "none", port |-> NoPort, quiet |-> FALSE, shows |-> "nothing"]

\* said: the answer that the hub had; seen (history): the versions when the copy began.
NoCopy == [phase |-> "idle", todo |-> {}, said |-> "nothing", seen |-> [i \in WaItem |-> 0]]

WaInit ==
  /\ dirs = [d \in WaDir |-> "project"]
  /\ registry = [n \in WaName |-> NoEntry]
  /\ procs = [p \in WaProc |-> NoProc]
  /\ tab = NoTab
  /\ copying = NoCopy
  /\ files = [source |-> [i \in WaItem |-> 1], current |-> [i \in WaItem |-> 0]]
  /\ waLog = [ops |-> 0, faults |-> 0, listed |-> FALSE]

\* One more thing happens; listed says whether the list of applications is still that of status.
CountsOp(listed) ==
  /\ waLog.ops < MaxWaOps
  /\ waLog' = [waLog EXCEPT !.ops = @ + 1, !.listed = listed]

\* A request is handled while no other is.
Handled(listed) == copying.phase = "idle" /\ CountsOp(listed)

-----------------------------------------------------------------------------
(* Processes and ports *)

Holders(q) == {p \in WaProc : procs[p].phase \in {"listening", "dying"} /\ procs[p].port = q}

Seen(q) == {p \in Holders(q) : procs[p].family = "v4"}

\* What a scan can find, and the ports it finds listeners at that work in a directory.
ListeningPorts == {q \in WaPort : Seen(q) # {}}
PortsOf(d, scan) == {q \in scan : \E p \in Seen(q) : procs[p].dir = d}

\* A request is handled that scans the ports; what a scan that fails has not found is missing.
Scans(scan, listed) ==
  /\ copying.phase = "idle"
  /\ waLog.ops < MaxWaOps
  /\ scan = ListeningPorts \/ waLog.faults < MaxWaFaults
  /\ waLog' = [waLog EXCEPT !.ops = @ + 1, !.listed = listed,
                            !.faults = IF scan = ListeningPorts THEN @ ELSE @ + 1]

\* Who listens at one of the ports is told to end, which he may do at any time; a process that
\* does not listen yet, or that is not seen, is not found.
KilledAt(ports) ==
  [p \in WaProc |-> IF \E q \in ports : p \in Seen(q)
                    THEN [procs[p] EXCEPT !.phase = "dying"] ELSE procs[p]]

Spawned(ps, d, q) ==
  {[ps EXCEPT ![p] = [phase |-> "starting", dir |-> d, port |-> q, family |-> f]] :
     p \in {r \in WaProc : ps[r] = NoProc}, f \in {"v4", "v6"}}

\* A process binds its port; if somebody holds it, the process ends.
Bind(p) ==
  /\ procs[p].phase = "starting"
  /\ procs' = [procs EXCEPT ![p] = IF Holders(procs[p].port) = {}
                                   THEN [@ EXCEPT !.phase = "listening"] ELSE NoProc]
  /\ waLog' = [waLog EXCEPT !.listed = FALSE]
  /\ UNCHANGED <<dirs, registry, tab, copying, files>>

\* A process ends, by itself or because it was told to.
Exit(p) ==
  /\ procs[p] # NoProc
  /\ procs' = [procs EXCEPT ![p] = NoProc]
  /\ UNCHANGED <<dirs, registry, tab, copying, files, waLog>>

\* The user runs a program in the terminal, which is to listen at a port.
RunByHand(d, q) ==
  /\ CountsOp(FALSE)
  /\ dirs[d] # "absent"
  /\ procs' \in Spawned(procs, d, q)
  /\ tab' = IF tab.port = q THEN [tab EXCEPT !.quiet = FALSE] ELSE tab
  /\ UNCHANGED <<dirs, registry, copying, files>>

\* The terminal restarts: its processes are gone, its workspace stays.
RestartTerminal ==
  /\ waLog.faults < MaxWaFaults
  /\ waLog' = [waLog EXCEPT !.faults = @ + 1]
  /\ procs' = [p \in WaProc |-> NoProc]
  /\ tab' = NoTab
  /\ copying' = NoCopy
  /\ UNCHANGED <<dirs, registry, files>>

-----------------------------------------------------------------------------
(* Starting, showing and stopping applications *)

\* An application that is seen to run is told to end, and its port is taken again; else it is the
\* first port at which the scan found nobody.
PortsFor(d, scan) ==
  IF PortsOf(d, scan) # {} THEN PortsOf(d, scan)
  ELSE {q \in WaPort \ scan : \A r \in WaPort \ scan : q <= r}

\* Nobody is on his way to the port, or holds it without the scan having found him.
NothingUnseen(q, scan) ==
  /\ \A p \in WaProc : procs[p].phase = "starting" => procs[p].port # q
  /\ q \in scan \/ Holders(q) = {}

\* The hub starts the application of a directory, by the name of the directory.  The entry is
\* written first, and stays when there is nothing to run.
StartApp(d, scan) ==
  /\ Scans(scan, FALSE)
  /\ \E q \in PortsFor(d, scan) :
       LET rest == KilledAt(IF PortsOf(d, scan) # {} THEN {q} ELSE {}) IN
       /\ registry' = [registry EXCEPT ![d] = [port |-> q, path |-> d]]
       /\ \/ dirs[d] = "absent" /\ procs' = rest /\ tab' = NoTab
          \/ /\ dirs[d] # "absent"
             /\ procs' \in Spawned(rest, d, q)
             /\ tab' = [NoTab EXCEPT !.dir = d, !.port = q, !.quiet = NothingUnseen(q, scan)]
  /\ UNCHANGED <<dirs, copying, files>>

\* An application of a type that cannot be started: what runs is told to end all the same.
StartAppUnsupported(d, scan) ==
  /\ Scans(scan, waLog.listed)
  /\ \E q \in PortsOf(d, scan) : procs' = KilledAt({q})
  /\ UNCHANGED <<dirs, registry, tab, copying, files>>

\* The hub opens the window of the application it started: the file server passes the request on
\* to whoever listens at the port.
Open ==
  /\ copying.phase = "idle"
  /\ tab.port # NoPort /\ tab.shows = "nothing"
  /\ tab' = [tab EXCEPT !.shows =
       IF Holders(tab.port) = {} THEN "nobody"
       ELSE IF \E p \in Holders(tab.port) : procs[p].dir = tab.dir THEN "it" ELSE "another"]
  /\ UNCHANGED <<dirs, registry, procs, copying, files, waLog>>

Stop(q) ==
  /\ Handled(waLog.listed)
  /\ procs' = KilledAt({q})
  /\ UNCHANGED <<dirs, registry, tab, copying, files>>

StopAll(scan) ==
  /\ Scans(scan, waLog.listed)
  /\ procs' = KilledAt(scan)
  /\ UNCHANGED <<dirs, registry, tab, copying, files>>

-----------------------------------------------------------------------------
(* The list of applications *)

\* A project without an entry gets one.
Detected(n) ==
  IF registry[n] = NoEntry /\ n \in WaDir /\ dirs[n] = "project"
  THEN [NoEntry EXCEPT !.path = n] ELSE registry[n]

\* Mutant of AtPort: the port of an application that does not run stays.
AtPortKept(entry, ports) ==
  IF entry = NoEntry \/ ports[entry.path] = NoPort THEN entry
  ELSE [entry EXCEPT !.port = ports[entry.path]]

\* An entry has the port at which somebody listens from its directory, or none.
AtPort(entry, ports) ==
  IF entry = NoEntry THEN entry ELSE [entry EXCEPT !.port = ports[entry.path]]

\* status writes the file again.  Of several ports of a directory it is any.
Status(scan) ==
  /\ Scans(scan, TRUE)
  /\ \E ports \in [WaDir -> WaPort \cup {NoPort}] :
       /\ \A d \in WaDir :
            ports[d] \in (IF PortsOf(d, scan) = {} THEN {NoPort} ELSE PortsOf(d, scan))
       /\ registry' = [n \in WaName |-> AtPort(Detected(n), ports)]
  /\ UNCHANGED <<dirs, procs, tab, copying, files>>

\* The entry goes to the new name, over what was there.
RenameApp(old, new) ==
  /\ Handled(waLog.listed)
  /\ old # new /\ registry[old] # NoEntry
  /\ registry' = [registry EXCEPT ![new] = registry[old], ![old] = NoEntry]
  /\ UNCHANGED <<dirs, procs, tab, copying, files>>

\* What works in a directory that is gone has no directory the scan would find.
Orphaned(ps, d) ==
  [p \in WaProc |-> IF ps[p].dir = d THEN [ps[p] EXCEPT !.dir = "gone"] ELSE ps[p]]

\* The hub deletes a project by its path: whoever listens at the port of the entry is told to end,
\* the directory and the entry go.
DeleteProject(d) ==
  /\ Handled(FALSE)
  /\ procs' = Orphaned(KilledAt({registry[d].port}), d)
  /\ dirs' = [dirs EXCEPT ![d] = "absent"]
  /\ registry' = [registry EXCEPT ![d] = NoEntry]
  /\ tab' = [tab EXCEPT !.quiet = FALSE]
  /\ UNCHANGED <<copying, files>>

-----------------------------------------------------------------------------
(* Files *)

Mkdir(d) ==
  /\ Handled(waLog.listed)
  /\ dirs[d] = "absent"
  /\ dirs' = [dirs EXCEPT ![d] = "bare"]
  /\ UNCHANGED <<registry, procs, tab, copying, files>>

\* The user makes a project of a directory.
MakeProject(d) ==
  /\ dirs[d] = "bare"
  /\ dirs' = [dirs EXCEPT ![d] = "project"]
  /\ UNCHANGED <<registry, procs, tab, copying, files, waLog>>

\* A directory goes, and what runs there goes on.
DeleteDir(d) ==
  /\ Handled(FALSE)
  /\ dirs[d] # "absent"
  /\ dirs' = [dirs EXCEPT ![d] = "absent"]
  /\ procs' = Orphaned(procs, d)
  /\ tab' = [tab EXCEPT !.quiet = FALSE]
  /\ UNCHANGED <<registry, copying, files>>

\* A directory gets a name that is free, and what runs there goes with it.
RenameDir(d, e) ==
  /\ Handled(FALSE)
  /\ dirs[d] # "absent" /\ dirs[e] = "absent"
  /\ dirs' = [dirs EXCEPT ![e] = dirs[d], ![d] = "absent"]
  /\ procs' = [p \in WaProc |-> IF procs[p].dir = d THEN [procs[p] EXCEPT !.dir = e] ELSE procs[p]]
  /\ tab' = [tab EXCEPT !.quiet = FALSE]
  /\ UNCHANGED <<registry, copying, files>>

-----------------------------------------------------------------------------
(* The copy for a deployment, of a project of its own *)

\* The user writes an item, or removes it; each version has a number of its own.
EditItem(i) ==
  /\ CountsOp(waLog.listed)
  /\ \E v \in {waLog.ops + 2, 0} : files' = [files EXCEPT !.source[i] = v]
  /\ UNCHANGED <<dirs, registry, procs, tab, copying>>

Present == {i \in WaItem : files.source[i] # 0}

\* Mutant of BeginPrepare: what was deployed before is not removed.
BeginPrepareOver ==
  /\ Handled(waLog.listed)
  /\ copying' = [phase |-> "copying", todo |-> Present, said |-> "nothing", seen |-> files.source]
  /\ UNCHANGED <<dirs, registry, procs, tab, files>>

\* prepare-deploy removes what was deployed before, and lists the items of the project.
BeginPrepare ==
  /\ Handled(waLog.listed)
  /\ files' = [files EXCEPT !.current = [i \in WaItem |-> 0]]
  /\ copying' = [phase |-> "copying", todo |-> Present, said |-> "nothing", seen |-> files.source]
  /\ UNCHANGED <<dirs, registry, procs, tab>>

\* It copies one after the other, and fails at an item that is gone by then.
CopyItem(i) ==
  /\ copying.phase = "copying" /\ i \in copying.todo
  /\ files.source[i] # 0
  /\ files' = [files EXCEPT !.current[i] = files.source[i]]
  /\ copying' = [copying EXCEPT !.todo = @ \ {i}]
  /\ UNCHANGED <<dirs, registry, procs, tab, waLog>>

CopyFails ==
  /\ copying.phase = "copying" /\ copying.todo # {}
  /\ \/ \E i \in copying.todo : files.source[i] = 0 /\ UNCHANGED waLog
     \/ /\ waLog.faults < MaxWaFaults
        /\ waLog' = [waLog EXCEPT !.faults = @ + 1]
  /\ copying' = [NoCopy EXCEPT !.said = "failed"]
  /\ UNCHANGED <<dirs, registry, procs, tab, files>>

EndPrepare ==
  /\ copying.phase = "copying" /\ copying.todo = {}
  /\ copying' = [copying EXCEPT !.phase = "idle", !.said = "prepared"]
  /\ UNCHANGED <<dirs, registry, procs, tab, files, waLog>>

-----------------------------------------------------------------------------

WaNext ==
  \/ \E p \in WaProc : Bind(p) \/ Exit(p)
  \/ \E d \in WaDir, q \in WaPort : RunByHand(d, q)
  \/ \E scan \in SUBSET ListeningPorts :
       \/ \E d \in WaDir : StartApp(d, scan) \/ StartAppUnsupported(d, scan)
       \/ StopAll(scan) \/ Status(scan)
  \/ \E d \in WaDir : DeleteProject(d) \/ Mkdir(d) \/ MakeProject(d) \/ DeleteDir(d)
  \/ \E d, e \in WaDir : RenameDir(d, e)
  \/ \E old, new \in WaName : RenameApp(old, new)
  \/ \E q \in WaPort : Stop(q)
  \/ \E i \in WaItem : EditItem(i) \/ CopyItem(i)
  \/ Open \/ RestartTerminal
  \/ BeginPrepare \/ CopyFails \/ EndPrepare

WaSpec == WaInit /\ [][WaNext]_waVars

-----------------------------------------------------------------------------

\* Every variable has its type.
WaTypeOK ==
  /\ dirs \in [WaDir -> {"absent", "bare", "project"}]
  /\ registry \in [WaName -> [port : WaPort \cup {NoPort}, path : WaDir \cup {"none"}]]
  /\ procs \in [WaProc -> [phase : {"none", "starting", "listening", "dying"},
                           dir : WaDir \cup {"none", "gone"}, port : WaPort \cup {NoPort},
                           family : {"v4", "v6"}]]
  /\ tab \in [dir : WaDir \cup {"none"}, port : WaPort \cup {NoPort}, quiet : BOOLEAN,
              shows : {"nothing", "nobody", "it", "another"}]
  /\ copying \in [phase : {"idle", "copying"}, todo : SUBSET WaItem,
                  said : {"nothing", "failed", "prepared"}, seen : [WaItem -> Nat]]
  /\ files \in [source : [WaItem -> Nat], current : [WaItem -> Nat]]
  /\ waLog.ops \in 0..MaxWaOps /\ waLog.faults \in 0..MaxWaFaults /\ waLog.listed \in BOOLEAN

\* Until something starts or moves, the list of applications does not name the port of another:
\* whoever listens at the port of an entry, whatever ended or was renamed since the list was
\* made, works in the directory of the entry.  So stopping by the list, or deleting an application
\* with the port of its entry, ends nobody else's.
ListNamesOwnPorts ==
  waLog.listed =>
    \A n \in WaName, p \in WaProc :
      registry[n].port # NoPort /\ p \in Holders(registry[n].port) =>
        procs[p].dir = registry[n].path

\* The window that the hub opens for an application it started shows that application or nobody,
\* never another one, unless something else was on its way to the same port, or held it without
\* being seen: at '::', or because the scan failed.
WindowShowsOwn == tab.quiet => tab.shows # "another"

\* When the hub is told that a deployment is prepared, what is deployed is the project and nothing
\* of an earlier deployment: each item in a version that the project had since the copy began,
\* whatever copies failed before and whatever was edited meanwhile.
PreparedIsTheProject ==
  copying.said = "prepared" =>
    \A i \in WaItem : IF copying.seen[i] = 0 THEN files.current[i] = 0
                      ELSE files.current[i] >= copying.seen[i]

\* An entry of the list names a port of its own application or of nobody, and so does the window
\* that the hub opens after a start.
AppsKeepTheirPorts == ListNamesOwnPorts /\ WindowShowsOwn
=============================================================================
