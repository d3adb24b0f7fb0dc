--------------------------- MODULE CampaignStatus ---------------------------
(***************************************************************************)
(* What the campaign subsystem promises its callers, without handlers,     *)
(* goroutines or the running map: a campaign is claimed by one start at a  *)
(* time, every status it takes follows the lifecycle, and only the claim's *)
(* holder can settle it.  CampaignLifecycle implements this module.        *)
(***************************************************************************)
CONSTANT Campaigns

VARIABLES
  status,   \* status[c]: the status column of campaign c
  claimed,  \* the campaigns some start or run of the process answers for
  serving   \* TRUE while a server process exists

vars == <<status, claimed, serving>>

Status    == {"CREATED", "STARTING", "RUNNING", "STOPPING",
              "STOPPED", "FINISHED", "FAILED"}
Startable == {"CREATED", "STOPPED", "FINISHED", "FAILED"}
Active    == {"STARTING", "RUNNING", "STOPPING"}
Terminal  == {"STOPPED", "FINISHED", "FAILED"}

Init ==
  /\ status = [c \in Campaigns |-> "CREATED"]
  /\ claimed = {}
  /\ serving = TRUE

SetStatus(c, new) == status' = [status EXCEPT ![c] = new]

\* A start takes an idle campaign: nobody else may hold it.
Claim(c) ==
  /\ serving
  /\ c \notin claimed
  /\ status[c] \in Startable
  /\ SetStatus(c, "STARTING")
  /\ claimed' = claimed \cup {c}
  /\ UNCHANGED serving

Launch(c) ==
  /\ c \in claimed
  /\ status[c] = "STARTING"
  /\ SetStatus(c, "RUNNING")
  /\ UNCHANGED <<claimed, serving>>

RequestStop(c) ==
  /\ serving
  /\ status[c] \in {"STARTING", "RUNNING"}
  /\ SetStatus(c, "STOPPING")
  /\ UNCHANGED <<claimed, serving>>

\* The holder records the outcome and lets go in the same step.
Settle(c) ==
  /\ c \in claimed
  /\ \/ status[c] \in {"STARTING", "RUNNING"} /\ SetStatus(c, "FAILED")
     \/ /\ status[c] \in {"RUNNING", "STOPPING"}
        /\ \E final \in {"STOPPED", "FINISHED"} : SetStatus(c, final)
  /\ claimed' = claimed \ {c}
  /\ UNCHANGED serving

\* The holder gives up on a campaign that a stop reached before it was launched
\* (or before its planner was built): it stays STOPPING until the next restart.
Abandon(c) ==
  /\ c \in claimed
  /\ status[c] = "STOPPING"
  /\ claimed' = claimed \ {c}
  /\ UNCHANGED <<status, serving>>

\* The process ends, by a crash or at the end of its shutdown.
End ==
  /\ serving
  /\ serving' = FALSE
  /\ claimed' = {}
  /\ UNCHANGED status

\* A new process stops what the old one left active.
Recover ==
  /\ ~serving
  /\ serving' = TRUE
  /\ status' = [c \in Campaigns |-> IF status[c] \in Active THEN "STOPPED"
                                                            ELSE status[c]]
  /\ UNCHANGED claimed

Next ==
  \/ \E c \in Campaigns : \/ Claim(c) \/ Launch(c) \/ RequestStop(c)
                          \/ Settle(c) \/ Abandon(c)
  \/ End
  \/ Recover

Spec == Init /\ [][Next]_vars
=============================================================================
