------------------------------- MODULE SignOn -------------------------------
(***************************************************************************)
(* The components of signing on: tokens, accounts with their second        *)
(* factor, messages by telephone, and security policies. They share no     *)
(* state, so what one does is nothing to the others: in a behaviour one of *)
(* them, which part names, takes steps, and the others rest.               *)
(***************************************************************************)
EXTENDS JwtAuth, Accounts, Messaging, SecurityPolicies

VARIABLE part  \* the component whose behaviour it is

Parts == {"jwt", "account", "message", "policy"}

\* The components at rest start from one of their initial states.
AllInit ==
  /\ part \in Parts
  /\ Init
  /\ AcInit
  /\ part # "account" => secondFactor /\ account = NoAccount
  /\ MsInit
  /\ SpInit

\* The component in question takes a step, the others rest.
Only(p) ==
  /\ part = p
  /\ UNCHANGED part
  /\ IF p = "jwt" THEN TRUE ELSE UNCHANGED vars
  /\ IF p = "account" THEN TRUE ELSE UNCHANGED acVars
  /\ IF p = "message" THEN TRUE ELSE UNCHANGED msVars
  /\ IF p = "policy" THEN TRUE ELSE UNCHANGED spVars

AllNext ==
  \/ Only("jwt") /\ Next
  \/ Only("account") /\ AcNext
  \/ Only("message") /\ MsNext
  \/ Only("policy") /\ SpNext

allVars == <<part, vars, acVars, msVars, spVars>>

AllSpec == AllInit /\ [][AllNext]_allVars

\* The type invariants of the components.
TypesOK == TypeOK /\ AcTypeOK /\ MsTypeOK /\ SpTypeOK
=============================================================================
