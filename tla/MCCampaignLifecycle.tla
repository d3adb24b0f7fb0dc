------------------------ MODULE MCCampaignLifecycle ------------------------
EXTENDS CampaignLifecycle, TLC

\* Starts and stops are interchangeable: they carry no identity of their own.
Symmetry == Permutations(Starts) \cup Permutations(Stops)
=============================================================================
