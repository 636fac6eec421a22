------------------------ MODULE MCCampaignStateCache ------------------------
\* Instances of CampaignStateCache for TLC.
EXTENDS CampaignStateCache
=============================================================================
