-------------------------------- MODULE Growth --------------------------------
(* The growth side of one organization: the team's work for its companies and    *)
(* missions, what the website sends, and where companies and figures come from.  *)
(* They share no variable: the candidates a source finds are those there may be, *)
(* and what an inquiry or a visit tells of a lead no modelled run reads.         *)
EXTENDS Missions, Inbound, Markets

growthVars == <<outreachVars, agentVars, missionVars>>
sideVars == <<growthVars, inboundVars, marketVars>>

SideInit == OutreachInit /\ AgentsInit /\ MissionsInit /\ InboundInit /\ MarketsInit
SideNext ==
  \/ GrowthNext /\ UNCHANGED <<inboundVars, marketVars>>
  \/ InboundNext /\ UNCHANGED <<growthVars, marketVars>>
  \/ MarketsNext /\ UNCHANGED <<growthVars, inboundVars>>
SideSpec == SideInit /\ [][SideNext]_sideVars

(* Types, the bounds of the steps and messages a run may leave, and that what a  *)
(* row names exists: drafts, runs, steps, visits.                                *)
GrowthTypeOK ==
  OutreachTypeOK /\ AgentsTypeOK /\ MissionsTypeOK /\ InboundTypeOK /\ MarketsTypeOK
===============================================================================
