----------------------------- MODULE Validation ------------------------------
(***************************************************************************)
(* The Python side of the full regression: the oracles that judge the        *)
(* hardware (ReferenceOracles) and the multi-seed campaigns that drive it     *)
(* (SeedCampaign).  A behaviour follows one of them: they share no variable,  *)
(* and the campaigns start once the coverage phase has passed.               *)
(***************************************************************************)
EXTENDS ReferenceOracles, SeedCampaign

VARIABLE subject   \* what the behaviour follows: "oracles" or "campaign"

allVars == <<subject, oracleVars, campaignVars>>

ValidationInit ==
  \/ subject = "oracles" /\ OracleInit /\ CampaignInit /\ harness = "soak"
  \/ /\ subject = "campaign" /\ CampaignInit /\ Init /\ ~big
     /\ at = 512 /\ outcome = "passed" /\ policy = 448
     /\ counts = [c \in ArmClasses |-> 0] /\ covered = {}

OracleStep ==
  subject = "oracles" /\ OracleNext /\ UNCHANGED <<subject, campaignVars>>

CampaignStep(step) ==
  subject = "campaign" /\ step /\ UNCHANGED <<subject, oracleVars>>

ValidationNext == OracleStep \/ CampaignStep(CampaignNext)

\* As in SeedCampaign: every execution of the simulator ends.
ValidationSpec ==
  ValidationInit /\ [][ValidationNext]_allVars
    /\ WF_allVars(CampaignStep(Progress))
==============================================================================
