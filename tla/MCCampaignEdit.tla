----------------------------- MODULE MCCampaignEdit -----------------------------
(* CampaignEdit with the symmetry of its interchangeable model values.         *)
EXTENDS CampaignEdit, TLC

Symmetry == Permutations(Campaigns) \cup Permutations(Recordings)
              \cup Permutations(Requests)
MCSelections == SUBSET Recordings
=================================================================================
