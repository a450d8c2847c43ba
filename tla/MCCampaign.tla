----------------------------- MODULE MCCampaign -----------------------------
(* A campaign of two missions that both lead out of the dropzone: a walk     *)
(* from one to the other passes it.                                          *)
EXTENDS CampaignSave, TLC

CONSTANTS m1, p1, p2

CampaignMarines == {m1}
CampaignPlayers == {p1, p2}
CampaignLinks == 0 :> {1, 2} @@ 1 :> {0} @@ 2 :> {0}
=============================================================================
