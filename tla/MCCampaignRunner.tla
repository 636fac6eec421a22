-------------------------- MODULE MCCampaignRunner --------------------------
(* Two attempts at a time, at one campaign. *)
EXTENDS CampaignRunner
=============================================================================
