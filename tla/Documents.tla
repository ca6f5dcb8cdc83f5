----------------------------- MODULE Documents ------------------------------
(***************************************************************************)
(* The components that keep documents and guard the way out: editing,      *)
(* sharing, the vault, the retention of the files of terminals, and the    *)
(* outbound proxy. They share no state, so what one does is nothing to the *)
(* others: in a behaviour one of them, which part names, takes steps, and  *)
(* the others rest.                                                        *)
(***************************************************************************)
EXTENDS EditSession, Sharing, Vault, FileRetention, OutboundProxy

VARIABLE part  \* the component whose behaviour it is

Parts == {"edit", "sharing", "vault", "retention", "proxy"}

\* The components at rest start from one of their initial states.
AllInit ==
  /\ part \in Parts
  /\ Init
  /\ ShInit
  /\ VtInit
  /\ part # "vault" => upload = "done"
  /\ FrInit
  /\ PxInit

\* The component in question takes a step, the others rest.
Only(p) ==
  /\ part = p
  /\ UNCHANGED part
  /\ IF p = "edit" THEN TRUE ELSE UNCHANGED vars
  /\ IF p = "sharing" THEN TRUE ELSE UNCHANGED shVars
  /\ IF p = "vault" THEN TRUE ELSE UNCHANGED vtVars
  /\ IF p = "retention" THEN TRUE ELSE UNCHANGED frVars
  /\ IF p = "proxy" THEN TRUE ELSE UNCHANGED pxVars

AllNext ==
  \/ Only("edit") /\ Next
  \/ Only("sharing") /\ ShNext
  \/ Only("vault") /\ VtNext
  \/ Only("retention") /\ FrNext
  \/ Only("proxy") /\ PxNext

allVars == <<part, vars, shVars, vtVars, frVars, pxVars>>

AllSpec == AllInit /\ [][AllNext]_allVars

\* The type invariants of the components.
TypesOK == TypeOK /\ ShTypeOK /\ VtTypeOK /\ FrTypeOK /\ PxTypeOK
=============================================================================
