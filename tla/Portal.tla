------------------------------- MODULE Portal -------------------------------
(***************************************************************************)
(* The hub and what it offers: tokens, applications, skills, surveys, the  *)
(* audit of prompts, the budgets of people, and the maintenance mode. They *)
(* share no state, so what one does is nothing to the others: in a         *)
(* behaviour one of them, which part names, takes steps, and the others    *)
(* rest.                                                                   *)
(***************************************************************************)
EXTENDS JwtAuth, AppDeployment, SkillGovernance, Surveys, AuditPipeline, QuotaGate,
        Maintenance

VARIABLE part  \* the component whose behaviour it is

Parts == {"jwt", "app", "skill", "survey", "audit", "quota", "maintenance"}

\* The components at rest start from one of their initial states.
AllInit ==
  /\ part \in Parts
  /\ Init
  /\ AppInit
  /\ SkInit
  /\ SvInit
  /\ PpInit
  /\ QgInit
  /\ part # "quota" => templates = [t \in QgPolicy |-> NoPolicy]
  /\ MtInit

\* The component in question takes a step, the others rest.
Only(p) ==
  /\ part = p
  /\ UNCHANGED part
  /\ IF p = "jwt" THEN TRUE ELSE UNCHANGED vars
  /\ IF p = "app" THEN TRUE ELSE UNCHANGED appVars
  /\ IF p = "skill" THEN TRUE ELSE UNCHANGED skVars
  /\ IF p = "survey" THEN TRUE ELSE UNCHANGED svVars
  /\ IF p = "audit" THEN TRUE ELSE UNCHANGED pipeVars
  /\ IF p = "quota" THEN TRUE ELSE UNCHANGED qgVars
  /\ IF p = "maintenance" THEN TRUE ELSE UNCHANGED mtVars

AllNext ==
  \/ Only("jwt") /\ Next
  \/ Only("app") /\ AppNext
  \/ Only("skill") /\ SkNext
  \/ Only("survey") /\ SvNext
  \/ Only("audit") /\ PpNext
  \/ Only("quota") /\ QgNext
  \/ Only("maintenance") /\ MtNext

allVars == <<part, vars, appVars, skVars, svVars, pipeVars, qgVars, mtVars>>

AllSpec == AllInit /\ [][AllNext]_allVars

\* The type invariants of the components.
TypesOK == AppTypeOK /\ SkTypeOK /\ SvTypeOK /\ PpTypeOK /\ QgTypeOK /\ MtTypeOK
=============================================================================
