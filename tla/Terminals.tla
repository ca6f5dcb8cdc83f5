----------------------------- MODULE Terminals ------------------------------
(***************************************************************************)
(* The components around terminals: the usage worker, the sessions and     *)
(* their extension, bots, and the file server with the applications that   *)
(* run in them. They share no state, so what one does is nothing to the    *)
(* others: in a behaviour one of them, which part names, takes steps, and  *)
(* the others rest.                                                        *)
(***************************************************************************)
EXTENDS UsageWorker, SessionLifecycle, UserBots, ExtensionRequests, TerminalApps

VARIABLE part  \* the component whose behaviour it is

Parts == {"usage", "session", "bot", "extension", "webapp"}

\* The components at rest start from one of their initial states.
AllInit ==
  /\ part \in Parts
  /\ Init
  /\ SlInit
  /\ UbInit
  /\ ExInit
  /\ part # "extension" => ~adminMapped
  /\ WaInit

\* The component in question takes a step, the others rest.
Only(p) ==
  /\ part = p
  /\ UNCHANGED part
  /\ IF p = "usage" THEN TRUE ELSE UNCHANGED vars
  /\ IF p = "session" THEN TRUE ELSE UNCHANGED slVars
  /\ IF p = "bot" THEN TRUE ELSE UNCHANGED ubVars
  /\ IF p = "extension" THEN TRUE ELSE UNCHANGED exVars
  /\ IF p = "webapp" THEN TRUE ELSE UNCHANGED waVars

AllNext ==
  \/ Only("usage") /\ Next
  \/ Only("session") /\ SlNext
  \/ Only("bot") /\ UbNext
  \/ Only("extension") /\ ExNext
  \/ Only("webapp") /\ WaNext

allVars == <<part, vars, slVars, ubVars, exVars, waVars>>

AllSpec == AllInit /\ [][AllNext]_allVars

\* The type invariants of the components.
TypesOK == TypeOK /\ SlTypeOK /\ UbTypeOK /\ ExTypeOK /\ WaTypeOK
=============================================================================
