----------------------------- MODULE CampaignEdit -----------------------------
(***************************************************************************)
(* What campaigns are made of, changed by handlers that check first and    *)
(* write later: creating campaigns, editing them, adding recordings,       *)
(* deleting recordings, while campaigns start, load their seeds and run.   *)
(* The status column, its claims and process death are CampaignStatus,     *)
(* which CampaignLifecycle implements.                                     *)
(***************************************************************************)
EXTENDS FiniteSets

CONSTANTS
  Campaigns,
  Recordings,
  Configs,     \* campaign configurations that validateCampaignConfig accepts
  Invalid,     \* one that it refuses
  QuickConfig, \* the configuration of a quick campaign
  Selections,  \* what a filter, a list of ids or an id selects
  Requests,    \* handlers under way together
  None

ASSUME EditAssumption ==
  /\ Selections \subseteq SUBSET Recordings
  /\ Invalid \notin Configs
  /\ QuickConfig \in Configs
  /\ None \notin Configs

VARIABLES
  status, claimed, serving,   \* as in CampaignStatus
  rows,      \* campaigns that have been created
  config,    \* config[c]: the column config
  links,     \* links[c]: its rows in campaign_recordings
  recs,      \* recordings
  hits,      \* recordings that a finding names as its seed
  request,   \* request[q]: a handler between its first check and its write
  starting,  \* starting[c]: the configuration a start has read for its claim
  ran,       \* ran[c]: the configuration of the claimed run
  seeds,     \* seeds[c]: the recordings it has loaded, None before that
  raced      \* history: raced[c], an edit read c while it was idle and wrote
             \* after c's latest start had read it

Column == INSTANCE CampaignStatus

statusVars == <<status, claimed, serving>>
campaignVars == <<rows, config, links>>
runVars == <<starting, ran, seeds>>
vars == <<statusVars, campaignVars, recs, hits, request, runVars, raced>>

Init ==
  /\ Column!Init
  /\ rows = {}
  /\ config = [c \in Campaigns |-> None]
  /\ links = [c \in Campaigns |-> {}]
  /\ recs = {}
  /\ hits = {}
  /\ request = [q \in Requests |-> None]
  /\ starting = [c \in Campaigns |-> None]
  /\ ran = [c \in Campaigns |-> None]
  /\ seeds = [c \in Campaigns |-> None]
  /\ raced = [c \in Campaigns |-> FALSE]

ValidConfig(cfg) == cfg # Invalid

\* GetByID; Requests keep what they have read of the row.
ReadCampaign(c) == [status |-> status[c], ids |-> links[c], cfg |-> config[c]]

Idle(q) == serving /\ request[q] = None
Await(q, what) == request' = [request EXCEPT ![q] = what]
Answer(q) == request' = [request EXCEPT ![q] = None]
Under(q, kind) == request[q] # None /\ request[q].kind = kind

-----------------------------------------------------------------------------
(* POST /campaigns and POST /campaigns/quick.                              *)

\* createCampaign looks every recording up, and validates the configuration.
CreateCheck(q, c, ids, cfg) ==
  /\ Idle(q)
  /\ c \notin rows
  /\ ids # {}
  /\ ids \subseteq recs
  /\ ValidConfig(cfg)
  /\ \A p \in Requests : ~(Under(p, "create") /\ request[p].c = c)
  /\ Await(q, [kind |-> "create", c |-> c, ids |-> ids, cfg |-> cfg])
  /\ UNCHANGED <<statusVars, campaignVars, recs, hits, runVars, raced>>

\* Mutant: the campaign is inserted outside the transaction of its links.
CreateRow_NoRollback(q) ==
  /\ Under(q, "create")
  /\ LET c == request[q].c IN
       /\ rows' = rows \cup {c}
       /\ config' = [config EXCEPT ![c] = request[q].cfg]
       /\ links' = [links EXCEPT ![c] = IF request[q].ids \subseteq recs
                                          THEN request[q].ids ELSE {}]
  /\ Answer(q)
  /\ UNCHANGED <<statusVars, recs, hits, runVars, raced>>

\* Mutant: no foreign key.
CreateRow_NoForeignKey(q) ==
  /\ Under(q, "create")
  /\ LET c == request[q].c IN
       /\ rows' = rows \cup {c}
       /\ config' = [config EXCEPT ![c] = request[q].cfg]
       /\ links' = [links EXCEPT ![c] = request[q].ids]
  /\ Answer(q)
  /\ UNCHANGED <<statusVars, recs, hits, runVars, raced>>

\* CampaignStore.Create: a recording that has gone since fails the transaction.
CreateRow(q) ==
  /\ Under(q, "create")
  /\ LET c == request[q].c IN
       IF request[q].ids \subseteq recs
         THEN /\ rows' = rows \cup {c}
              /\ config' = [config EXCEPT ![c] = request[q].cfg]
              /\ links' = [links EXCEPT ![c] = request[q].ids]
         ELSE UNCHANGED campaignVars
  /\ Answer(q)
  /\ UNCHANGED <<statusVars, recs, hits, runVars, raced>>

\* One transaction, rolled back when nothing matches.
CreateWithFilter(c, filter, cfg) ==
  /\ filter \cap recs # {}
  /\ rows' = rows \cup {c}
  /\ config' = [config EXCEPT ![c] = cfg]
  /\ links' = [links EXCEPT ![c] = filter \cap recs]

QuickCreate(c, filter) ==
  /\ serving
  /\ c \notin rows
  /\ \A p \in Requests : ~(Under(p, "create") /\ request[p].c = c)
  /\ CreateWithFilter(c, filter, QuickConfig)
  /\ UNCHANGED <<statusVars, recs, hits, request, runVars, raced>>

-----------------------------------------------------------------------------
(* PATCH /campaigns/{id} and POST /campaigns/{id}/recordings.              *)

\* Mutant: a campaign that is stopping may be edited.
EditCheck_Stopping(q, c, ids, cfg) ==
  /\ Idle(q)
  /\ c \in rows
  /\ status[c] \in Column!Startable \cup {"STOPPING"}
  /\ ids # None => ids \subseteq recs
  /\ ValidConfig(cfg)
  /\ Await(q, [kind |-> "edit", c |-> c,
               ids |-> IF ids = None THEN links[c] ELSE ids,
               cfg |-> IF cfg = None THEN config[c] ELSE cfg,
               idle |-> c \notin claimed])
  /\ UNCHANGED <<statusVars, campaignVars, recs, hits, runVars, raced>>

\* editCampaign: what the request leaves out (None) is kept as it was read.
\* A list of ids may be empty.
EditCheck(q, c, ids, cfg) ==
  /\ Idle(q)
  /\ c \in rows
  /\ ReadCampaign(c).status \in Column!Startable
  /\ ids # None => ids \subseteq recs
  /\ ValidConfig(cfg)
  /\ Await(q, [kind |-> "edit", c |-> c,
               ids |-> IF ids = None THEN ReadCampaign(c).ids ELSE ids,
               cfg |-> IF cfg = None THEN ReadCampaign(c).cfg ELSE cfg,
               idle |-> c \notin claimed])
  /\ UNCHANGED <<statusVars, campaignVars, recs, hits, runVars, raced>>

\* CampaignStore.Update, whatever the status is by now.
EditWrite(q) ==
  /\ Under(q, "edit")
  /\ LET c == request[q].c IN
       IF request[q].ids \subseteq recs
         THEN /\ config' = [config EXCEPT ![c] = request[q].cfg]
              /\ links' = [links EXCEPT ![c] = request[q].ids]
              /\ raced' = [raced EXCEPT ![c] = @ \/ request[q].idle]
         ELSE UNCHANGED <<config, links, raced>>
  /\ Answer(q)
  /\ UNCHANGED <<statusVars, rows, recs, hits, runVars>>

\* addRecordingsToCampaign: STOPPING passes.
AddCheck(q, c, filter) ==
  /\ Idle(q)
  /\ c \in rows
  /\ status[c] \notin {"RUNNING", "STARTING"}
  /\ Await(q, [kind |-> "add", c |-> c, filter |-> filter])
  /\ UNCHANGED <<statusVars, campaignVars, recs, hits, runVars, raced>>

\* AddRecordingsByFilter; the filter is evaluated now.
AddWrite(q) ==
  /\ Under(q, "add")
  /\ LET c == request[q].c
         added == request[q].filter \cap recs
     IN links' = [links EXCEPT ![c] = @ \cup added]
  /\ Answer(q)
  /\ UNCHANGED <<statusVars, rows, config, recs, hits, runVars, raced>>

-----------------------------------------------------------------------------
(* Recordings.                                                             *)

\* The proxy or an import: a recording that was not there.
Record(r) ==
  /\ serving
  /\ r \notin recs
  /\ recs' = recs \cup {r}
  /\ UNCHANGED <<statusVars, campaignVars, hits, request, runVars, raced>>

InUse(selected) ==
  \E c \in rows : status[c] \in {"RUNNING", "STARTING"} /\ links[c] \cap selected # {}

\* The check of a deletion ...
DeleteCheck(q, selected) ==
  /\ Idle(q)
  /\ ~InUse(selected \cap recs)
  /\ Await(q, [kind |-> "delete", selected |-> selected])
  /\ UNCHANGED <<statusVars, campaignVars, recs, hits, runVars, raced>>

DeleteRecording(q, r) == DeleteCheck(q, {r})
DeleteRecordingsByPrefix(q, filter) == DeleteCheck(q, filter)

\* Mutant: links go with their recording (ON DELETE CASCADE).
DeleteWrite_Cascade(q) ==
  /\ Under(q, "delete")
  /\ recs' = recs \ request[q].selected
  /\ links' = [c \in Campaigns |-> links[c] \ request[q].selected]
  /\ hits' = hits \ request[q].selected
  /\ Answer(q)
  /\ UNCHANGED <<statusVars, rows, config, runVars, raced>>

Referenced == hits \cup UNION {links[c] : c \in Campaigns}

\* ... and the statement, which deletes nothing if a link or a finding refers
\* to one of the recordings: neither foreign key cascades.
DeleteWrite(q) ==
  /\ Under(q, "delete")
  /\ recs' = IF request[q].selected \cap recs \cap Referenced = {}
               THEN recs \ request[q].selected
               ELSE recs
  /\ Answer(q)
  /\ UNCHANGED <<statusVars, campaignVars, hits, runVars, raced>>

-----------------------------------------------------------------------------
(* Starting and running.                                                   *)

\* startCampaign reads the row; one start at a time, their race is
\* CampaignLifecycle's.
StartRead(c) ==
  /\ serving
  /\ c \in rows \ claimed
  /\ status[c] \in Column!Startable
  /\ starting[c] = None
  /\ starting' = [starting EXCEPT ![c] = ReadCampaign(c).cfg]
  /\ raced' = [raced EXCEPT ![c] = FALSE]
  /\ UNCHANGED <<statusVars, campaignVars, recs, hits, request, ran, seeds>>

\* The compare-and-swap of the claim says nothing about the configuration.
StartClaim(c) ==
  /\ starting[c] # None
  /\ Column!Claim(c)
  /\ ran' = [ran EXCEPT ![c] = starting[c]]
  /\ seeds' = [seeds EXCEPT ![c] = None]
  /\ starting' = [starting EXCEPT ![c] = None]
  /\ UNCHANGED <<campaignVars, recs, hits, request, raced>>

\* GetSeeds: recordings that cannot be found are skipped.
LoadSeeds(c) ==
  /\ c \in claimed
  /\ seeds[c] = None
  /\ seeds' = [seeds EXCEPT ![c] = links[c] \cap recs]
  /\ UNCHANGED <<statusVars, campaignVars, recs, hits, request, starting, ran, raced>>

Launch(c) ==
  /\ seeds[c] \notin {None, {}}
  /\ Column!Launch(c)
  /\ UNCHANGED <<campaignVars, recs, hits, request, runVars, raced>>

\* A worker's finding; its insertion fails when its seed is gone.
CreateFinding(c) ==
  /\ c \in claimed
  /\ status[c] \in {"RUNNING", "STOPPING"}
  /\ seeds[c] # None
  /\ \E r \in seeds[c] \cap recs : hits' = hits \cup {r}
  /\ UNCHANGED <<statusVars, campaignVars, recs, request, runVars, raced>>

\* The rest of the lifecycle: stops, ends, and starts that fail.
StatusStep(c) ==
  /\ \/ Column!RequestStop(c)
     \/ Column!Settle(c)
     \/ Column!Abandon(c)
  /\ UNCHANGED <<campaignVars, recs, hits, request, runVars, raced>>

\* The process ends: committed transactions are all that is left.
End ==
  /\ Column!End
  /\ request' = [q \in Requests |-> None]
  /\ starting' = [c \in Campaigns |-> None]
  /\ ran' = [c \in Campaigns |-> None]
  /\ seeds' = [c \in Campaigns |-> None]
  /\ UNCHANGED <<campaignVars, recs, hits, raced>>

Recover == Column!Recover /\ UNCHANGED <<campaignVars, recs, hits, request, runVars, raced>>

Next ==
  \/ \E q \in Requests :
       \/ \E c \in Campaigns, ids \in Selections, cfg \in Configs \cup {Invalid} : CreateCheck(q, c, ids, cfg)
       \/ \E c \in Campaigns, ids \in Selections \cup {None}, cfg \in Configs \cup {None, Invalid} :
            EditCheck(q, c, ids, cfg)
       \/ \E c \in Campaigns, filter \in Selections : AddCheck(q, c, filter)
       \/ \E r \in Recordings : DeleteRecording(q, r)
       \/ \E filter \in Selections : DeleteRecordingsByPrefix(q, filter)
       \/ CreateRow(q) \/ EditWrite(q) \/ AddWrite(q) \/ DeleteWrite(q)
  \/ \E c \in Campaigns, filter \in Selections : QuickCreate(c, filter)
  \/ \E r \in Recordings : Record(r)
  \/ \E c \in Campaigns :
       StartRead(c) \/ StartClaim(c) \/ LoadSeeds(c) \/ Launch(c) \/ CreateFinding(c) \/ StatusStep(c)
  \/ End \/ Recover

Spec == Init /\ [][Next]_vars

-----------------------------------------------------------------------------
(* Properties.                                                             *)

\* Every variable has its type, and no foreign key dangles: a campaign's links
\* and the findings' seeds are recordings that exist, although createCampaign
\* and editCampaign look them up in statements of their own before they write.
TypeOK ==
  /\ status \in [Campaigns -> Column!Status]
  /\ claimed \subseteq rows /\ serving \in BOOLEAN
  /\ rows \subseteq Campaigns
  /\ \A c \in rows : config[c] \in Configs
  /\ \A c \in Campaigns \ rows : config[c] = None /\ links[c] = {}
  /\ recs \subseteq Recordings
  /\ hits \subseteq recs
  /\ \A c \in Campaigns : links[c] \subseteq recs
  /\ raced \in [Campaigns -> BOOLEAN]
  /\ \A c \in claimed : ran[c] \in Configs

\* The run that holds a campaign works with the configuration the row shows
\* and with seeds that are there and still linked, in every state of the run:
\* an edit can only spoil this if it had read the campaign while nobody held
\* it, and a deletion not at all, although both check first and write later.
\* A running one has seeds.
RunMatchesRow ==
  \A c \in claimed :
    ~raced[c] =>
      /\ ran[c] = config[c]
      /\ seeds[c] # None => seeds[c] \subseteq links[c] \cap recs
      /\ status[c] = "RUNNING" => seeds[c] \notin {None, {}}

\* A campaign is created complete: all recordings of the list, or the ones
\* the filter finds, and at least one.
CreatedWhole ==
  [][\A c \in rows' \ rows : links'[c] # {} /\ links'[c] \subseteq recs]_vars

===============================================================================
