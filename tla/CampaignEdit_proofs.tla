-------------------------- MODULE CampaignEdit_proofs --------------------------
(***************************************************************************)
(* Theorems about CampaignEdit for any campaigns, recordings and           *)
(* configurations and any number of handlers under way together.           *)
(***************************************************************************)
EXTENDS CampaignEdit, TLAPS

USE EditAssumption DEF EditAssumption

\* What every variable is a function of.
ShapeOK ==
  /\ config \in [Campaigns -> Configs \cup {None}]
  /\ links \in [Campaigns -> SUBSET Recordings]
  /\ request = [q \in Requests |-> request[q]]
  /\ starting \in [Campaigns -> Configs \cup {None}]
  /\ ran \in [Campaigns -> Configs \cup {None}]
  /\ seeds \in [Campaigns -> (SUBSET Recordings) \cup {None}]

\* What a handler has read still holds when it writes: the campaign to create is
\* not there yet and nobody else creates it, the one to edit or to extend is.
RequestOK ==
  /\ \A q \in Requests : Under(q, "create") =>
       /\ request[q].c \in Campaigns \ rows
       /\ request[q].ids # {}
       /\ request[q].cfg \in Configs
  /\ \A q \in Requests : Under(q, "edit") =>
       request[q].c \in rows /\ request[q].cfg \in Configs /\ request[q].idle
  /\ \A q \in Requests : Under(q, "add") => request[q].c \in rows
  /\ \A p, q \in Requests :
       Under(p, "create") /\ Under(q, "create") /\ request[p].c = request[q].c => p = q

\* A claimed campaign is active, so no edit reads it; a start holds the row's
\* configuration unless an edit raced with it.
ClaimOK ==
  /\ \A c \in claimed : status[c] \in Column!Active
  /\ ~serving => claimed = {}
  /\ \A c \in Campaigns : starting[c] # None =>
       c \in rows /\ (raced[c] \/ starting[c] = config[c])

IInv == TypeOK /\ ShapeOK /\ RequestOK /\ ClaimOK /\ RunMatchesRow

\* Initially there are no campaigns, recordings or handlers.
LEMMA InitIInv == Init => IInv
<1> SUFFICES ASSUME Init PROVE IInv
  OBVIOUS
<1> USE DEF Init, Column!Init
<1>1. TypeOK
  BY DEF TypeOK, Column!Status
<1>2. ShapeOK
  <2>1. seeds \in [Campaigns -> (SUBSET Recordings) \cup {None}]
    OBVIOUS
  <2>2. request = [q \in Requests |-> request[q]]
    OBVIOUS
  <2>3. links \in [Campaigns -> SUBSET Recordings]
    OBVIOUS
  <2>4. \A f : f = [c \in Campaigns |-> None] => f \in [Campaigns -> Configs \cup {None}]
    OBVIOUS
  <2> QED BY <2>1, <2>2, <2>3, <2>4 DEF ShapeOK
<1>3. RequestOK
  BY DEF RequestOK, Under
<1>4. ClaimOK /\ RunMatchesRow
  BY DEF ClaimOK, RunMatchesRow
<1> QED BY <1>1, <1>2, <1>3, <1>4 DEF IInv

\* A step that leaves the requests alone, or ends one, and removes no campaign
\* keeps what the handlers have read.
LEMMA RequestsKept ==
  ASSUME IInv, rows' = rows,
         request' = request \/ (\E q \in Requests : Answer(q)) \/ request' = [q \in Requests |-> None]
  PROVE  RequestOK' /\ request' = [q \in Requests |-> request'[q]]
<1>1. \A q \in Requests : request'[q] # None => request'[q] = request[q]
  BY DEF IInv, ShapeOK, Answer
<1>2. request' = [q \in Requests |-> request'[q]]
  BY DEF IInv, ShapeOK, Answer
<1>3. \A q \in Requests, kind \in {"create", "edit", "add"} :
        Under(q, kind)' => Under(q, kind) /\ request'[q] = request[q]
  BY <1>1 DEF Under
<1>4. RequestOK'
  BY <1>3 DEF IInv, RequestOK
<1> QED BY <1>2, <1>4

\* A check that only leaves a request behind.
LEMMA CheckKept ==
  ASSUME IInv, NEW q \in Requests, NEW what, Idle(q), Await(q, what),
         UNCHANGED <<statusVars, campaignVars, recs, hits, runVars, raced>>,
         what.kind = "create" =>
           /\ what.c \in Campaigns \ rows /\ what.ids # {} /\ what.cfg \in Configs
           /\ \A p \in Requests : ~(Under(p, "create") /\ request[p].c = what.c),
         what.kind = "edit" => what.c \in rows /\ what.cfg \in Configs /\ what.idle,
         what.kind = "add" => what.c \in rows
  PROVE  IInv'
<1> USE DEF statusVars, campaignVars, runVars
<1>1. request' = [request EXCEPT ![q] = what] /\ request'[q] = what
  BY DEF Await, IInv, ShapeOK
<1>2. \A p \in Requests \ {q} : request'[p] = request[p]
  BY <1>1 DEF IInv, ShapeOK
<1>3. RequestOK'
  BY <1>1, <1>2 DEF IInv, RequestOK, Under
<1>4. request' = [p \in Requests |-> request'[p]]
  BY <1>1 DEF IInv, ShapeOK
<1>5. TypeOK'
  BY DEF IInv, TypeOK
<1>6. ShapeOK' /\ ClaimOK' /\ RunMatchesRow'
  BY <1>4 DEF IInv, ShapeOK, ClaimOK, RunMatchesRow
<1> QED BY <1>3, <1>5, <1>6 DEF IInv

\* A campaign that was not there comes into being, whole.
LEMMA CreateKept ==
  ASSUME IInv, NEW c \in Campaigns \ rows, NEW cfg \in Configs, NEW ids \in SUBSET recs,
         rows' = rows \cup {c},
         config' = [config EXCEPT ![c] = cfg],
         links' = [links EXCEPT ![c] = ids],
         UNCHANGED <<statusVars, recs, hits, runVars, raced>>
  PROVE  TypeOK' /\ ClaimOK' /\ RunMatchesRow'
         /\ config' \in [Campaigns -> Configs \cup {None}] /\ links' \in [Campaigns -> SUBSET Recordings]
<1> USE DEF statusVars, runVars
<1>1. c \notin claimed /\ starting[c] = None
  BY DEF IInv, TypeOK, ClaimOK
<1>2. \A d \in Campaigns \ {c} : config'[d] = config[d] /\ links'[d] = links[d]
  BY DEF IInv, ShapeOK
<1>3. config'[c] = cfg /\ links'[c] = ids /\ ids \subseteq Recordings
  BY DEF IInv, ShapeOK, TypeOK
<1>4. config' \in [Campaigns -> Configs \cup {None}] /\ links' \in [Campaigns -> SUBSET Recordings]
  BY <1>3 DEF IInv, ShapeOK
<1>5. TypeOK'
  BY <1>2, <1>3 DEF IInv, TypeOK
<1>6. ClaimOK'
  BY <1>1, <1>2 DEF IInv, ClaimOK
<1>7. RunMatchesRow'
  BY <1>1, <1>2 DEF IInv, RunMatchesRow, TypeOK
<1> QED BY <1>4, <1>5, <1>6, <1>7

\* Every step of handlers, runs and the process preserves the invariant.
LEMMA NextIInv == IInv /\ [Next]_vars => IInv'
<1> SUFFICES ASSUME IInv, [Next]_vars PROVE IInv'
  OBVIOUS
<1> USE DEF statusVars, campaignVars, runVars
<1>1. ASSUME NEW q \in Requests, NEW c \in Campaigns, NEW ids, NEW cfg \in Configs \cup {Invalid},
             CreateCheck(q, c, ids, cfg)
      PROVE  IInv'
  <2> DEFINE what == [kind |-> "create", c |-> c, ids |-> ids, cfg |-> cfg]
  <2>1. what.c \in Campaigns \ rows /\ what.ids # {} /\ what.cfg \in Configs
    BY <1>1 DEF CreateCheck, ValidConfig
  <2>2. what.kind = "create" /\ Await(q, what)
    BY <1>1 DEF CreateCheck
  <2>3. Idle(q) /\ (\A p \in Requests : ~(Under(p, "create") /\ request[p].c = what.c))
        /\ UNCHANGED <<statusVars, campaignVars, recs, hits, runVars, raced>>
    BY <1>1 DEF CreateCheck
  <2> HIDE DEF what
  <2> QED BY <2>1, <2>2, <2>3, CheckKept
<1>2. ASSUME NEW q \in Requests, NEW c \in Campaigns, NEW ids, NEW cfg \in Configs \cup {None, Invalid},
             EditCheck(q, c, ids, cfg)
      PROVE  IInv'
  <2> DEFINE what == [kind |-> "edit", c |-> c,
                      ids |-> IF ids = None THEN ReadCampaign(c).ids ELSE ids,
                      cfg |-> IF cfg = None THEN ReadCampaign(c).cfg ELSE cfg,
                      idle |-> c \notin claimed]
  <2>1. c \in rows /\ status[c] \in Column!Startable
    BY <1>2 DEF EditCheck, ReadCampaign
  <2>2. what.kind = "edit" /\ what.c \in rows /\ what.cfg \in Configs
    BY <1>2, <2>1 DEF EditCheck, ReadCampaign, ValidConfig, IInv, TypeOK
  <2>3. what.idle
    BY <2>1 DEF IInv, ClaimOK, Column!Active, Column!Startable
  <2>4. Idle(q) /\ Await(q, what) /\ UNCHANGED <<statusVars, campaignVars, recs, hits, runVars, raced>>
    BY <1>2 DEF EditCheck
  <2> HIDE DEF what
  <2> QED BY <2>2, <2>3, <2>4, CheckKept
<1>3. ASSUME NEW q \in Requests, NEW c \in Campaigns, NEW filter, AddCheck(q, c, filter) PROVE IInv'
  <2> DEFINE what == [kind |-> "add", c |-> c, filter |-> filter]
  <2>1. what.kind = "add" /\ what.c \in rows /\ Idle(q) /\ Await(q, what)
        /\ UNCHANGED <<statusVars, campaignVars, recs, hits, runVars, raced>>
    BY <1>3 DEF AddCheck
  <2> HIDE DEF what
  <2> QED BY <2>1, CheckKept
<1>4. ASSUME NEW q \in Requests, NEW selected, DeleteCheck(q, selected) PROVE IInv'
  <2> DEFINE what == [kind |-> "delete", selected |-> selected]
  <2>1. what.kind = "delete" /\ Idle(q) /\ Await(q, what)
        /\ UNCHANGED <<statusVars, campaignVars, recs, hits, runVars, raced>>
    BY <1>4 DEF DeleteCheck
  <2> HIDE DEF what
  <2> QED BY <2>1, CheckKept
<1>5. ASSUME NEW q \in Requests, CreateRow(q) PROVE IInv'
  <2> DEFINE c == request[q].c
  <2>1. c \in Campaigns \ rows /\ request[q].cfg \in Configs /\ Answer(q)
        /\ UNCHANGED <<statusVars, recs, hits, runVars, raced>>
    BY <1>5 DEF CreateRow, IInv, RequestOK
  <2>2. CASE request[q].ids \subseteq recs
    <3>1. TypeOK' /\ ClaimOK' /\ RunMatchesRow'
          /\ config' \in [Campaigns -> Configs \cup {None}] /\ links' \in [Campaigns -> SUBSET Recordings]
      BY <1>5, <2>1, <2>2, CreateKept DEF CreateRow
    <3>2. \A p \in Requests : request'[p] = IF p = q THEN None ELSE request[p]
      BY <2>1 DEF Answer, IInv, ShapeOK
    <3>3. request' = [p \in Requests |-> request'[p]]
      BY <2>1 DEF Answer, IInv, ShapeOK
    <3>4. rows' = rows \cup {c} /\ \A p \in Requests \ {q} : Under(p, "create") => request[p].c # c
      BY <1>5, <2>2 DEF CreateRow, IInv, RequestOK
    <3>5. RequestOK'
      BY <3>2, <3>4 DEF IInv, RequestOK, Under
    <3>6. ShapeOK'
      BY <2>1, <3>1, <3>3 DEF IInv, ShapeOK
    <3> QED BY <3>1, <3>5, <3>6 DEF IInv
  <2>3. CASE UNCHANGED campaignVars
    <3>1. RequestOK' /\ request' = [p \in Requests |-> request'[p]]
      BY <2>1, <2>3, RequestsKept
    <3>2. TypeOK' /\ ClaimOK' /\ RunMatchesRow'
      BY <2>1, <2>3 DEF IInv, TypeOK, ClaimOK, RunMatchesRow
    <3> QED BY <2>1, <2>3, <3>1, <3>2 DEF IInv, ShapeOK
  <2> QED BY <1>5, <2>2, <2>3 DEF CreateRow
<1>6. ASSUME NEW c \in Campaigns, NEW filter, QuickCreate(c, filter) PROVE IInv'
  <2>1. c \notin rows /\ UNCHANGED <<statusVars, recs, hits, request, runVars, raced>>
        /\ CreateWithFilter(c, filter, QuickConfig)
    BY <1>6 DEF QuickCreate
  <2>2. TypeOK' /\ ClaimOK' /\ RunMatchesRow'
        /\ config' \in [Campaigns -> Configs \cup {None}] /\ links' \in [Campaigns -> SUBSET Recordings]
    <3>1. filter \cap recs \in SUBSET recs
      OBVIOUS
    <3> QED BY <2>1, <3>1, CreateKept DEF CreateWithFilter
  <2>3. rows' = rows \cup {c} /\ \A p \in Requests : Under(p, "create") => request[p].c # c
    BY <1>6 DEF QuickCreate, CreateWithFilter
  <2>4. RequestOK'
    BY <2>1, <2>3 DEF IInv, RequestOK, Under
  <2> QED BY <2>1, <2>2, <2>4 DEF IInv, ShapeOK
<1>7. ASSUME NEW q \in Requests, EditWrite(q) PROVE IInv'
  <2> DEFINE c == request[q].c
  <2>1. c \in rows /\ c \in Campaigns /\ request[q].cfg \in Configs /\ request[q].idle
    BY <1>7 DEF EditWrite, IInv, RequestOK, TypeOK
  <2>2. Answer(q) /\ UNCHANGED <<statusVars, rows, recs, hits, runVars>>
    BY <1>7 DEF EditWrite
  <2>3. RequestOK' /\ request' = [p \in Requests |-> request'[p]]
    BY <2>2, RequestsKept
  <2>4. CASE UNCHANGED <<config, links, raced>>
    BY <2>2, <2>3, <2>4 DEF IInv, TypeOK, ShapeOK, ClaimOK, RunMatchesRow
  <2>5. CASE request[q].ids \subseteq recs
    <3>1. config' = [config EXCEPT ![c] = request[q].cfg] /\ links' = [links EXCEPT ![c] = request[q].ids]
          /\ raced' = [raced EXCEPT ![c] = TRUE]
      BY <1>7, <2>1, <2>5 DEF EditWrite, IInv, TypeOK
    <3>2. \A d \in Campaigns \ {c} : config'[d] = config[d] /\ links'[d] = links[d] /\ raced'[d] = raced[d]
      BY <3>1 DEF IInv, ShapeOK, TypeOK
    <3>3. config'[c] \in Configs /\ links'[c] \subseteq recs /\ raced'[c]
      BY <2>1, <2>5, <3>1 DEF IInv, ShapeOK, TypeOK
    <3>4. raced' \in [Campaigns -> BOOLEAN] /\ config' \in [Campaigns -> Configs \cup {None}]
          /\ links' \in [Campaigns -> SUBSET Recordings]
      BY <2>1, <2>5, <3>1 DEF IInv, ShapeOK, TypeOK
    <3>5. TypeOK'
      BY <2>1, <2>2, <3>2, <3>3, <3>4 DEF IInv, TypeOK
    <3>6. ClaimOK' /\ RunMatchesRow'
      BY <2>2, <3>2, <3>3 DEF IInv, ClaimOK, RunMatchesRow, TypeOK
    <3> QED BY <2>2, <2>3, <3>4, <3>5, <3>6 DEF IInv, ShapeOK
  <2> QED BY <1>7, <2>4, <2>5 DEF EditWrite
<1>8. ASSUME NEW q \in Requests, AddWrite(q) PROVE IInv'
  <2> DEFINE c == request[q].c
  <2>1. c \in rows /\ c \in Campaigns /\ Answer(q) /\ UNCHANGED <<statusVars, rows, config, recs, hits, runVars, raced>>
    BY <1>8 DEF AddWrite, IInv, RequestOK, TypeOK
  <2>2. RequestOK' /\ request' = [p \in Requests |-> request'[p]]
    BY <2>1, RequestsKept
  <2>3. links' = [links EXCEPT ![c] = @ \cup (request[q].filter \cap recs)]
    BY <1>8 DEF AddWrite
  <2>4. /\ links' \in [Campaigns -> SUBSET Recordings]
        /\ \A d \in Campaigns : links[d] \subseteq links'[d] /\ links'[d] \subseteq recs
        /\ \A d \in Campaigns \ {c} : links'[d] = links[d]
    BY <2>1, <2>3 DEF IInv, ShapeOK, TypeOK
  <2>5. TypeOK'
    BY <2>1, <2>4 DEF IInv, TypeOK
  <2>6. RunMatchesRow'
    BY <2>1, <2>4 DEF IInv, RunMatchesRow, TypeOK
  <2> QED BY <2>1, <2>2, <2>4, <2>5, <2>6 DEF IInv, ShapeOK, ClaimOK
<1>9. ASSUME NEW r \in Recordings, Record(r) PROVE IInv'
  <2>1. RequestOK' /\ request' = [p \in Requests |-> request'[p]]
    BY <1>9, RequestsKept DEF Record
  <2>2. recs' = recs \cup {r}
    BY <1>9 DEF Record
  <2>3. TypeOK'
    BY <1>9, <2>2 DEF Record, IInv, TypeOK
  <2>4. ShapeOK' /\ ClaimOK' /\ RunMatchesRow'
    BY <1>9, <2>1, <2>2 DEF Record, IInv, ShapeOK, ClaimOK, RunMatchesRow
  <2> QED BY <2>1, <2>3, <2>4 DEF IInv
<1>10. ASSUME NEW q \in Requests, DeleteWrite(q) PROVE IInv'
  <2>1. Answer(q) /\ UNCHANGED <<statusVars, campaignVars, hits, runVars, raced>>
    BY <1>10 DEF DeleteWrite
  <2>2. RequestOK' /\ request' = [p \in Requests |-> request'[p]]
    BY <2>1, RequestsKept
  <2>3. recs' \subseteq recs /\ Referenced \cap recs \subseteq recs'
    BY <1>10 DEF DeleteWrite
  <2>4. hits \subseteq recs' /\ \A c \in Campaigns : links[c] \subseteq recs'
    BY <2>3 DEF Referenced, IInv, TypeOK
  <2>5. TypeOK'
    BY <2>1, <2>3, <2>4 DEF IInv, TypeOK
  <2>6. RunMatchesRow'
    BY <2>1, <2>4 DEF IInv, RunMatchesRow, TypeOK
  <2> QED BY <2>1, <2>2, <2>5, <2>6 DEF IInv, ShapeOK, ClaimOK
<1>11. ASSUME NEW c \in Campaigns, StartRead(c) PROVE IInv'
  <2>1. c \in rows /\ c \notin claimed /\ starting' = [starting EXCEPT ![c] = config[c]]
        /\ raced' = [raced EXCEPT ![c] = FALSE]
        /\ UNCHANGED <<statusVars, campaignVars, recs, hits, request, ran, seeds>>
    BY <1>11 DEF StartRead, ReadCampaign
  <2>2. RequestOK'
    BY <2>1, RequestsKept
  <2>3. TypeOK' /\ ShapeOK'
    BY <2>1 DEF IInv, TypeOK, ShapeOK
  <2>4. ClaimOK' /\ RunMatchesRow'
    BY <2>1 DEF IInv, TypeOK, ShapeOK, ClaimOK, RunMatchesRow
  <2> QED BY <2>2, <2>3, <2>4 DEF IInv
<1>12. ASSUME NEW c \in Campaigns, StartClaim(c) PROVE IInv'
  <2>1. /\ c \notin claimed /\ serving /\ status' = [status EXCEPT ![c] = "STARTING"]
        /\ claimed' = claimed \cup {c} /\ UNCHANGED serving
    BY <1>12 DEF StartClaim, Column!Claim, Column!SetStatus
  <2>2. /\ starting[c] # None
        /\ ran' = [ran EXCEPT ![c] = starting[c]]
        /\ seeds' = [seeds EXCEPT ![c] = None]
        /\ starting' = [starting EXCEPT ![c] = None]
        /\ UNCHANGED <<campaignVars, recs, hits, request, raced>>
    BY <1>12 DEF StartClaim
  <2>3. RequestOK'
    BY <2>2, RequestsKept
  <2>4. c \in rows /\ starting[c] \in Configs /\ (raced[c] \/ starting[c] = config[c])
    BY <2>2 DEF IInv, ClaimOK, ShapeOK
  <2>5. \A d \in Campaigns \ {c} :
          status'[d] = status[d] /\ ran'[d] = ran[d] /\ seeds'[d] = seeds[d] /\ starting'[d] = starting[d]
    BY <2>1, <2>2 DEF IInv, TypeOK, ShapeOK
  <2>6. status'[c] = "STARTING" /\ ran'[c] = starting[c] /\ seeds'[c] = None /\ starting'[c] = None
    BY <2>1, <2>2 DEF IInv, TypeOK, ShapeOK
  <2>7. TypeOK'
    BY <2>1, <2>2, <2>4, <2>5, <2>6 DEF IInv, TypeOK, Column!Status
  <2>8. ShapeOK'
    <3>1. seeds' \in [Campaigns -> (SUBSET Recordings) \cup {None}]
      BY <2>2 DEF IInv, ShapeOK
    <3>2. ran' \in [Campaigns -> Configs \cup {None}] /\ starting' \in [Campaigns -> Configs \cup {None}]
      BY <2>2, <2>4 DEF IInv, ShapeOK
    <3> QED BY <2>2, <3>1, <3>2 DEF IInv, ShapeOK
  <2>9. ClaimOK'
    BY <2>1, <2>2, <2>5, <2>6 DEF IInv, TypeOK, ClaimOK, Column!Active
  <2>10. RunMatchesRow'
    BY <2>1, <2>2, <2>4, <2>5, <2>6 DEF IInv, TypeOK, RunMatchesRow
  <2> QED BY <2>3, <2>7, <2>8, <2>9, <2>10 DEF IInv
<1>13. ASSUME NEW c \in Campaigns, LoadSeeds(c) PROVE IInv'
  <2>1. /\ seeds[c] = None /\ seeds' = [seeds EXCEPT ![c] = links[c] \cap recs]
        /\ UNCHANGED <<statusVars, campaignVars, recs, hits, request, starting, ran, raced>>
    BY <1>13 DEF LoadSeeds
  <2>2. RequestOK'
    BY <2>1, RequestsKept
  <2>3. TypeOK' /\ ShapeOK' /\ ClaimOK'
    BY <2>1 DEF IInv, TypeOK, ShapeOK, ClaimOK
  <2>4. RunMatchesRow'
    BY <2>1 DEF IInv, RunMatchesRow, ShapeOK, TypeOK
  <2> QED BY <2>2, <2>3, <2>4 DEF IInv
<1>14. ASSUME NEW c \in Campaigns, Launch(c) PROVE IInv'
  <2>1. /\ seeds[c] \notin {None, {}} /\ c \in claimed
        /\ status' = [status EXCEPT ![c] = "RUNNING"]
        /\ UNCHANGED <<claimed, serving, campaignVars, recs, hits, request, runVars, raced>>
    BY <1>14 DEF Launch, Column!Launch, Column!SetStatus
  <2>2. RequestOK'
    BY <2>1, RequestsKept
  <2>3. \A d \in Campaigns : status'[d] = IF d = c THEN "RUNNING" ELSE status[d]
    BY <2>1 DEF IInv, TypeOK
  <2>4. TypeOK' /\ ShapeOK'
    BY <2>1 DEF IInv, TypeOK, ShapeOK, Column!Status
  <2>5. ClaimOK' /\ RunMatchesRow'
    BY <2>1, <2>3 DEF IInv, TypeOK, ClaimOK, RunMatchesRow, Column!Active
  <2> QED BY <2>2, <2>4, <2>5 DEF IInv
<1>15. ASSUME NEW c \in Campaigns, CreateFinding(c) PROVE IInv'
  <2>1. hits' \subseteq recs /\ UNCHANGED <<statusVars, campaignVars, recs, request, runVars, raced>>
    BY <1>15 DEF CreateFinding, IInv, TypeOK
  <2>2. RequestOK'
    BY <2>1, RequestsKept
  <2> QED BY <2>1, <2>2 DEF IInv, TypeOK, ShapeOK, ClaimOK, RunMatchesRow
<1>16. ASSUME NEW c \in Campaigns, StatusStep(c) PROVE IInv'
  <2>1. UNCHANGED <<campaignVars, recs, hits, request, runVars, raced>>
    BY <1>16 DEF StatusStep
  <2>2. RequestOK'
    BY <2>1, RequestsKept
  <2>3. CASE Column!RequestStop(c)
    <3>1. status' = [status EXCEPT ![c] = "STOPPING"] /\ UNCHANGED <<claimed, serving>>
      BY <2>3 DEF Column!RequestStop, Column!SetStatus
    <3>2. TypeOK' /\ ShapeOK'
      BY <2>1, <3>1 DEF IInv, TypeOK, ShapeOK, Column!Status
    <3>3. ClaimOK' /\ RunMatchesRow'
      BY <2>1, <3>1 DEF IInv, TypeOK, ClaimOK, RunMatchesRow, Column!Active
    <3> QED BY <2>2, <3>2, <3>3 DEF IInv
  <2>4. CASE Column!Settle(c)
    <3>1. claimed' = claimed \ {c} /\ UNCHANGED serving
          /\ \E s \in {"FAILED", "STOPPED", "FINISHED"} : status' = [status EXCEPT ![c] = s]
      BY <2>4 DEF Column!Settle, Column!SetStatus
    <3>2. TypeOK' /\ ShapeOK'
      BY <2>1, <3>1 DEF IInv, TypeOK, ShapeOK, Column!Status
    <3>3. ClaimOK' /\ RunMatchesRow'
      BY <2>1, <3>1 DEF IInv, TypeOK, ClaimOK, RunMatchesRow
    <3> QED BY <2>2, <3>2, <3>3 DEF IInv
  <2>5. CASE Column!Abandon(c)
    <3>1. claimed' = claimed \ {c} /\ UNCHANGED <<status, serving>>
      BY <2>5 DEF Column!Abandon
    <3> QED BY <2>1, <2>2, <3>1 DEF IInv, TypeOK, ShapeOK, ClaimOK, RunMatchesRow
  <2> QED BY <1>16, <2>3, <2>4, <2>5 DEF StatusStep
<1>17. CASE End
  <2>1. claimed' = {} /\ UNCHANGED <<status, campaignVars, recs, hits, raced>> /\ serving' = FALSE
    BY <1>17 DEF End, Column!End
  <2>2. RequestOK' /\ request' = [q \in Requests |-> request'[q]]
    BY <1>17, <2>1, RequestsKept DEF End
  <2>3. \A c \in Campaigns : starting'[c] = None
    BY <1>17 DEF End
  <2>4. TypeOK'
    BY <2>1 DEF IInv, TypeOK
  <2>5. ShapeOK'
    <3>1. seeds' \in [Campaigns -> (SUBSET Recordings) \cup {None}]
      BY <1>17 DEF End
    <3>2. ran' \in [Campaigns -> Configs \cup {None}] /\ starting' \in [Campaigns -> Configs \cup {None}]
      BY <1>17 DEF End
    <3> QED BY <2>1, <2>2, <3>1, <3>2 DEF IInv, ShapeOK
  <2> QED BY <2>1, <2>2, <2>3, <2>4, <2>5 DEF IInv, ClaimOK, RunMatchesRow
<1>18. CASE Recover
  <2>1. /\ claimed = {} /\ claimed' = {} /\ serving' = TRUE
        /\ status' = [c \in Campaigns |-> IF status[c] \in Column!Active THEN "STOPPED" ELSE status[c]]
        /\ UNCHANGED <<campaignVars, recs, hits, request, runVars, raced>>
    BY <1>18 DEF Recover, Column!Recover, IInv, ClaimOK
  <2>2. RequestOK'
    BY <2>1, RequestsKept
  <2> QED BY <2>1, <2>2 DEF IInv, TypeOK, ShapeOK, ClaimOK, RunMatchesRow, Column!Status
<1>19. CASE UNCHANGED vars
  <2>1. RequestOK'
    BY <1>19, RequestsKept DEF vars
  <2> QED BY <1>19, <2>1 DEF vars, IInv, TypeOK, ShapeOK, ClaimOK, RunMatchesRow
<1> QED
  BY <1>1, <1>2, <1>3, <1>4, <1>5, <1>6, <1>7, <1>8, <1>9, <1>10, <1>11, <1>12, <1>13, <1>14, <1>15, <1>16,
     <1>17, <1>18, <1>19 DEF Next, DeleteRecording, DeleteRecordingsByPrefix

\* The invariant holds in every reachable state.
THEOREM Invariant == Spec => []IInv
  BY InitIInv, NextIInv, PTL DEF Spec

\* No foreign key dangles, however many handlers check first and write later.
THEOREM EditTypeCorrect == Spec => []TypeOK
<1>1. IInv => TypeOK
  BY DEF IInv
<1> QED BY <1>1, Invariant, PTL

\* A run works with the row's configuration and with seeds that are there and
\* linked, unless an edit that had read the idle campaign wrote after the start.
THEOREM EditRunMatchesRow == Spec => []RunMatchesRow
<1>1. IInv => RunMatchesRow
  BY DEF IInv
<1> QED BY <1>1, Invariant, PTL

\* Campaigns come into being whole: CampaignStore.Create checks the recordings
\* again inside its transaction, by the foreign key.
THEOREM EditCreatedWhole == Spec => CreatedWhole
<1>1. ASSUME IInv, [Next]_vars, NEW c \in rows' \ rows PROVE links'[c] # {} /\ links'[c] \subseteq recs
  <2>1. ASSUME NEW q \in Requests, CreateRow(q) PROVE links'[c] # {} /\ links'[c] \subseteq recs
    <3>1. request[q].ids \subseteq recs /\ request[q].ids # {} /\ c = request[q].c
          /\ links' = [links EXCEPT ![c] = request[q].ids] /\ c \in Campaigns
      BY <1>1, <2>1 DEF CreateRow, campaignVars, IInv, RequestOK
    <3> QED BY <1>1, <3>1 DEF IInv, ShapeOK
  <2>2. ASSUME NEW d \in Campaigns, NEW filter, QuickCreate(d, filter)
        PROVE  links'[c] # {} /\ links'[c] \subseteq recs
    BY <1>1, <2>2 DEF QuickCreate, CreateWithFilter, IInv, ShapeOK
  <2>3. CASE rows' = rows
    BY <1>1, <2>3
  <2>4. CASE rows' # rows
    <3>1. (\E q \in Requests : CreateRow(q)) \/ (\E d \in Campaigns, filter \in Selections : QuickCreate(d, filter))
      BY <1>1, <2>4 DEF Next, vars, campaignVars, CreateCheck, EditCheck, AddCheck, DeleteRecording,
         DeleteRecordingsByPrefix, DeleteCheck, EditWrite, AddWrite, DeleteWrite, Record, StartRead, StartClaim,
         LoadSeeds, Launch, CreateFinding, StatusStep, End, Recover
    <3> QED BY <2>1, <2>2, <3>1
  <2> QED BY <2>3, <2>4
<1>2. IInv /\ [Next]_vars => [\A c \in rows' \ rows : links'[c] # {} /\ links'[c] \subseteq recs]_vars
  BY <1>1
<1> QED BY <1>2, Invariant, PTL DEF Spec, CreatedWhole
=============================================================================
