---------------------------- MODULE EndpointMerge ----------------------------
(***************************************************************************)
(* The recordings of one origin: the proxy's connections normalise a path, *)
(* have the resolver's trie observe it and append the exchange to the      *)
(* recording of that path; a collapse of the trie is merged into the table *)
(* by a goroutine of its own.  A path is a sequence of segments.  Tries of *)
(* different origins do not interact, so there is one.                     *)
(***************************************************************************)
EXTENDS Naturals, SequencesExt

CONSTANTS
  Exchanges,   \* recorded or imported requests; each runs Record once
  Paths,       \* the paths they may ask for
  Params,      \* segments that isParameter recognises
  Extends,     \* <<s, t>>: the text of segment t starts with that of s
  PH,          \* the placeholder {_}
  None,
  Committed,   \* a merge whose transaction has committed
  MaxLinked,   \* bound: recordings of the campaign
  MaxFaults    \* bound: crashes, and transactions that fail while the server
               \* runs for another reason than a foreign key

Segments == (UNION {ToSet(path) : path \in Paths}) \cup Extends \cup {PH}

\* Paths are sequences.  What extends another segment is a segment of a request: not what
\* a merge has left of one, and not the placeholder, so none is a "{" alone.
ASSUME MergeAssumption ==
  /\ IsFiniteSet(Exchanges)
  /\ \A path \in Paths : path \in Seq(ToSet(path))
  /\ PH \notin Params
  /\ MaxLinked \in Nat /\ MaxFaults \in Nat
  /\ \A e \in Extends : e[2] \notin Extends \cup {PH}
  /\ None # Committed /\ None \notin Seq(Segments)
  /\ {None, Committed} \cap [parent : Seq(Segments), keys : SUBSET Segments] = {}
  /\ None \notin [path : Seq(Segments), seq : UNION {[es -> Nat] : es \in SUBSET Exchanges}, count : Nat]

VARIABLES
  up,          \* the proxy accepts traffic: RebuildFromDB has returned
  trie,        \* observationCount of each node, the root being <<>>
  record,      \* record[x]: "idle", "observed", "stored", "lost"
  asked,       \* history: asked[x], the path x asked for
  target,      \* target[x]: the path ObservePath returned to x
  merging,     \* merging[x]: the merge that x's observation has started
  rows,        \* rows[x]: the recordings which that merge has selected
  table,       \* table[x]: the recording created by exchange x
  linked,      \* recordings in campaign_recordings
  active,      \* that campaign is STARTING or RUNNING
  raced,       \* history: raced[x], those of rows[x] that the campaign took into use since
  deleted,     \* history: exchanges of recordings the API has deleted
  faults       \* history: what MaxFaults bounds

trieVars == <<trie, target, merging, rows>>
storeVars == <<table, deleted>>
campaignVars == <<linked, active, raced>>
vars == <<up, record, asked, trieVars, storeVars, campaignVars, faults>>

-----------------------------------------------------------------------------
(* The trie.                                                               *)

NormalizePath(path) == [i \in DOMAIN path |-> IF path[i] \in Params THEN PH ELSE path[i]]

Count(t, node) == IF node \in DOMAIN t THEN t[node] ELSE 0
Nodes(path) == {SubSeq(path, 1, n) : n \in 0..Len(path)}
SumCounts(t, nodes) == SumFunctionOnSet(t, nodes)

\* trieNode.observe: every node on the way is counted, the leaf included.
Observe(t, path) ==
  [node \in DOMAIN t \cup Nodes(path) |->
     Count(t, node) + IF node \in Nodes(path) THEN 1 ELSE 0]

Literals(t, parent) ==
  {node[Len(parent) + 1] :
     node \in {n \in DOMAIN t : Len(n) > Len(parent) /\ IsPrefix(parent, n)}} \ {PH}

collapseMinChildren == 3
collapseMinWithPlaceholder == 2

\* The ratio of literals to observations is above 0.3, in integers.
ShouldCollapse(t, parent) ==
  LET literals == Cardinality(Literals(t, parent))
  IN \/ literals >= collapseMinChildren /\ 10 * literals > 3 * t[parent]
     \/ Append(parent, PH) \in DOMAIN t /\ literals >= collapseMinWithPlaceholder

\* checkCollapse returns the first one in map order; it does not look below
\* a placeholder, nor below a node it returns.
Candidates(t) ==
  {parent \in DOMAIN t :
     /\ PH \notin ToSet(parent)
     /\ ShouldCollapse(t, parent)
     /\ \A n \in 0..(Len(parent) - 1) : ~ShouldCollapse(t, SubSeq(parent, 1, n))}

\* The node that collapse(parent) makes of node.
Image(node, parent) ==
  IF Len(node) > Len(parent) /\ IsPrefix(parent, node)
    THEN ReplaceAt(node, Len(parent) + 1, PH)
    ELSE node

\* Mutant: the children of the collapsed literals are dropped.
Collapse_Shallow(t, parent) ==
  LET kept == {n \in DOMAIN t : Image(n, parent) = n \/ Len(n) = Len(parent) + 1}
      nodes == {Image(node, parent) : node \in kept}
  IN [node \in nodes |-> SumCounts(t, {n \in kept : Image(n, parent) = node})]

Collapse(t, parent) ==
  LET nodes == {Image(node, parent) : node \in DOMAIN t}
  IN [node \in nodes |-> SumCounts(t, {n \in DOMAIN t : Image(n, parent) = node})]

\* collapse, then collapsedPatterns: the trie and the merge that follow from
\* the first candidate, if there is one.
Settled(t) ==
  IF Candidates(t) = {}
    THEN {[trie |-> t, job |-> None]}
    ELSE {[trie |-> Collapse(t, parent),
           job |-> [parent |-> parent, keys |-> Literals(t, parent)]] :
            parent \in Candidates(t)}

\* rewritePath, for the position of the collapse.
RewritePath(path, job) ==
  IF job = None \/ Len(job.parent) >= Len(path)
    THEN path
    ELSE ReplaceAt(path, Len(job.parent) + 1, PH)

-----------------------------------------------------------------------------
(* The tables recordings and exchanges.                                    *)

Live == {r \in Exchanges : table[r] # None}
At(tbl, path) == {r \in Exchanges : tbl[r] # None /\ tbl[r].path = path}
Entries(rec) == DOMAIN rec.seq

Single(x, path) == [path |-> path, seq |-> [e \in {x} |-> 0], count |-> 1]

\* insertExchanges numbers from entry_count.
AppendTo(rec, x) ==
  [rec EXCEPT !.seq = [e \in DOMAIN rec.seq \cup {x} |->
                         IF e = x THEN rec.count ELSE rec.seq[e]],
              !.count = @ + 1]

\* The unique index allows one recording per path.
FindOrAppend(tbl, x, path) ==
  IF At(tbl, path) = {}
    THEN [tbl EXCEPT ![x] = Single(x, path)]
    ELSE [r \in Exchanges |->
            IF r \in At(tbl, path) THEN AppendTo(tbl[r], x) ELSE tbl[r]]

\* Upsert does not append: a second recording of a path violates the index.
Upsert(x, path, result) ==
  IF At(table, path) = {}
    THEN result = "stored" /\ table' = [table EXCEPT ![x] = Single(x, path)]
    ELSE result = "lost" /\ UNCHANGED table

\* LIKE prefix%: the text of a segment may go on behind a key.
Sources(path, job) ==
  IF Len(path) > Len(job.parent) /\ IsPrefix(job.parent, path)
    THEN LET seg == path[Len(job.parent) + 1]
         IN {key \in job.keys : key = seg \/ <<key, seg>> \in Extends}
    ELSE {}

\* Mutant: recordings of active campaigns are not left out.
Affected_Active(job) == {r \in Live : Sources(table[r].path, job) # {}}

Affected(job) ==
  {r \in Live : Sources(table[r].path, job) # {} /\ ~(active /\ r \in linked)}

\* Mutant: what follows the source in the path is lost.
RewriteTargetPath_NoRest(path, job, key) == Append(job.parent, PH)

\* For the source of key; what is left of a longer segment stays behind the
\* placeholder.
RewriteTargetPath(path, job, key) ==
  LET n == Len(job.parent) + 1
  IN ReplaceAt(path, n, IF key = path[n] THEN PH ELSE <<key, path[n]>>)

\* max(seq_order) + 1 of the recording that is kept.
Base(rec) ==
  IF DOMAIN rec.seq = {} THEN 0 ELSE Max({rec.seq[e] : e \in DOMAIN rec.seq}) + 1

\* Mutant: entry_count of the kept recording is not recomputed.
MoveEntries_StaleCount(rec, source) ==
  [rec EXCEPT !.seq = [e \in DOMAIN rec.seq \cup DOMAIN source.seq |->
                         IF e \in DOMAIN rec.seq
                           THEN rec.seq[e]
                           ELSE source.seq[e] + Base(rec)]]

MoveEntries(rec, source) ==
  [rec EXCEPT !.seq = [e \in DOMAIN rec.seq \cup DOMAIN source.seq |->
                         IF e \in DOMAIN rec.seq
                           THEN rec.seq[e]
                           ELSE source.seq[e] + Base(rec)],
              !.count = Cardinality(DOMAIN rec.seq \cup DOMAIN source.seq)]

\* Mutant: the source is deleted first, and its exchanges with it.
MergeRow_DeleteFirst(tbl, r, path) ==
  IF At(tbl, path) \subseteq {r}
    THEN [tbl EXCEPT ![r].path = path]
    ELSE [tbl EXCEPT ![r] = None]

\* One affected row: it becomes the recording of its new path, or moves its
\* exchanges to the one there is and is deleted.
MergeRow(tbl, r, path) ==
  IF At(tbl, path) \subseteq {r}
    THEN [tbl EXCEPT ![r].path = path]
    ELSE LET keeper == CHOOSE k \in At(tbl, path) : TRUE
         IN [tbl EXCEPT ![keeper] = MoveEntries(@, tbl[r]), ![r] = None]

\* The first source, in map order, for each segment at the collapsed position.
FirstSources(job, affected) ==
  LET n == Len(job.parent) + 1
  IN {first \in [{table[r].path[n] : r \in affected} -> job.keys] :
        \A r \in affected : first[table[r].path[n]] \in Sources(table[r].path, job)}

\* The rows one after the other, each path being rewritten as it was read.
MergeRows(job, order, first) ==
  FoldLeft(LAMBDA tbl, r :
             MergeRow(tbl, r, RewriteTargetPath(table[r].path, job,
                                                first[table[r].path[Len(job.parent) + 1]])),
           table, order)

\* The tables after the transaction, for any order of the affected rows and
\* any order of the sources.
Merged(job, affected) ==
  {MergeRows(job, order, first) :
     order \in SetToSeqs(affected), first \in FirstSources(job, affected)}

\* campaign_recordings references recordings without a cascade: deleting a
\* linked one fails the transaction.
Commits(tbl) == \A r \in linked : tbl[r] # None

-----------------------------------------------------------------------------
Init ==
  /\ up = TRUE
  /\ trie = [node \in {<<>>} |-> 0]
  /\ record = [x \in Exchanges |-> "idle"]
  /\ asked = [x \in Exchanges |-> None]
  /\ target = [x \in Exchanges |-> None]
  /\ merging = [x \in Exchanges |-> None]
  /\ rows = [x \in Exchanges |-> {}]
  /\ table = [x \in Exchanges |-> None]
  /\ linked = {}
  /\ active = FALSE
  /\ raced = [x \in Exchanges |-> {}]
  /\ deleted = {}
  /\ faults = 0

Fault == faults < MaxFaults /\ faults' = faults + 1

\* Mutant: the trie is checked before the observation is counted.
ObservePath_CheckFirst(x, path) ==
  /\ up
  /\ record[x] = "idle"
  /\ record' = [record EXCEPT ![x] = "observed"]
  /\ asked' = [asked EXCEPT ![x] = path]
  /\ \E s \in Settled(trie) :
       /\ trie' = Observe(s.trie, NormalizePath(path))
       /\ merging' = [merging EXCEPT ![x] = s.job]
       /\ target' = [target EXCEPT ![x] = RewritePath(NormalizePath(path), s.job)]
  /\ UNCHANGED <<up, rows, storeVars, campaignVars, faults>>

\* ObservePath, under the resolver's mutex up to the rewrite of the path.
ObservePath(x, path) ==
  /\ up
  /\ record[x] = "idle"
  /\ record' = [record EXCEPT ![x] = "observed"]
  /\ asked' = [asked EXCEPT ![x] = path]
  /\ \E s \in Settled(Observe(trie, NormalizePath(path))) :
       /\ trie' = s.trie
       /\ merging' = [merging EXCEPT ![x] = s.job]
       /\ target' = [target EXCEPT ![x] = RewritePath(NormalizePath(path), s.job)]
  /\ UNCHANGED <<up, rows, storeVars, campaignVars, faults>>

\* The rest of Record.  Record's error is logged by the proxy.
Store(x) ==
  /\ up
  /\ record[x] = "observed"
  /\ \/ /\ record' = [record EXCEPT ![x] = "stored"]
        /\ table' = FindOrAppend(table, x, target[x])
        /\ UNCHANGED faults
     \/ /\ Fault
        /\ record' = [record EXCEPT ![x] = "lost"]
        /\ UNCHANGED table
  /\ UNCHANGED <<up, asked, trieVars, deleted, campaignVars>>

\* importRecordings: the trie is not told.
Import(x, path) ==
  /\ up
  /\ record[x] = "idle"
  /\ asked' = [asked EXCEPT ![x] = path]
  /\ \E result \in {"stored", "lost"} :
       /\ Upsert(x, NormalizePath(path), result)
       /\ record' = [record EXCEPT ![x] = result]
  /\ UNCHANGED <<up, trieVars, deleted, campaignVars, faults>>

\* executeMerge and each round of drainCollapses call MergeRecordings, a transaction that
\* reads what is committed when each of its statements begins.  Which campaigns are active
\* is read by the first one.
SelectAffected(x) ==
  /\ up
  /\ merging[x] \notin {None, Committed}
  /\ rows[x] = {}
  /\ \/ /\ rows' = [rows EXCEPT ![x] = Affected(merging[x])]
        /\ merging' = [merging EXCEPT ![x] = IF rows'[x] = {} THEN Committed ELSE @]
        /\ UNCHANGED faults
     \/ /\ Fault
        /\ merging' = [merging EXCEPT ![x] = None]
        /\ UNCHANGED rows
  /\ UNCHANGED <<up, record, asked, trie, target, storeVars, campaignVars>>

\* FOR UPDATE: once it has the lock of a row, the path is read again, the campaigns are not.
Locked(x) == {r \in rows[x] : table[r] # None /\ Sources(table[r].path, merging[x]) # {}}

\* The rest, with the rows locked: it commits and the next collapse is looked for, or it
\* fails and nothing is tried again.
Merge(x) ==
  /\ up
  /\ rows[x] # {}
  /\ rows' = [rows EXCEPT ![x] = {}]
  /\ raced' = [raced EXCEPT ![x] = {}]
  /\ \/ \E tbl \in Merged(merging[x], Locked(x)) :
          /\ Commits(tbl)
          /\ table' = tbl
          /\ merging' = [merging EXCEPT ![x] = Committed]
          /\ UNCHANGED faults
     \/ /\ IF \E tbl \in Merged(merging[x], Locked(x)) : ~Commits(tbl) THEN UNCHANGED faults ELSE Fault
        /\ merging' = [merging EXCEPT ![x] = None]
        /\ UNCHANGED table
  /\ UNCHANGED <<up, record, asked, trie, target, deleted, linked, active>>

Drain(x) ==
  /\ up
  /\ merging[x] = Committed
  /\ \E s \in Settled(trie) :
       /\ trie' = s.trie
       /\ merging' = [merging EXCEPT ![x] = s.job]
  /\ UNCHANGED <<up, record, asked, target, rows, storeVars, campaignVars, faults>>

-----------------------------------------------------------------------------
(* Campaigns and the API, as far as recordings see them.                   *)

Race(ids) == [x \in Exchanges |-> raced[x] \cup (rows[x] \cap ids)]

\* addRecordings checks the status in a statement of its own, so the link
\* may come while the campaign is active.
AddRecording(r) ==
  /\ up
  /\ r \in Live \ linked
  /\ Cardinality(linked) < MaxLinked
  /\ linked' = linked \cup {r}
  /\ raced' = IF active THEN Race({r}) ELSE raced
  /\ UNCHANGED <<up, record, asked, trieVars, storeVars, active, faults>>

StartCampaign ==
  /\ up
  /\ ~active
  /\ linked # {}
  /\ active' = TRUE
  /\ raced' = Race(linked)
  /\ UNCHANGED <<up, record, asked, trieVars, storeVars, linked, faults>>

EndCampaign ==
  /\ active
  /\ active' = FALSE
  /\ raced' = [x \in Exchanges |-> {}]
  /\ UNCHANGED <<up, record, asked, trieVars, storeVars, linked, faults>>

\* Mutant: linked recordings go as well (no foreign key).
Delete_Linked(r) ==
  /\ up
  /\ r \in Live
  /\ deleted' = deleted \cup Entries(table[r])
  /\ table' = [table EXCEPT ![r] = None]
  /\ UNCHANGED <<up, record, asked, trieVars, campaignVars, faults>>

\* DELETE of a linked recording fails by the foreign key; exchanges cascade.
Delete(r) ==
  /\ up
  /\ r \in Live \ linked
  /\ deleted' = deleted \cup Entries(table[r])
  /\ table' = [table EXCEPT ![r] = None]
  /\ UNCHANGED <<up, record, asked, trieVars, campaignVars, faults>>

-----------------------------------------------------------------------------
(* Crash and RebuildFromDB.                                                *)

\* Requests under way and merges are gone; every distinct path is observed once.
Rebuilt == FoldSet(LAMBDA path, t : Observe(t, path),
                   [node \in {<<>>} |-> 0],
                   {table[r].path : r \in Live})

Crash ==
  /\ up
  /\ Fault
  /\ up' = FALSE
  /\ record' = [x \in Exchanges |-> IF record[x] = "observed" THEN "lost" ELSE record[x]]
  /\ target' = [x \in Exchanges |-> None]
  /\ merging' = [x \in Exchanges |-> None]
  /\ rows' = [x \in Exchanges |-> {}]
  /\ trie' = Rebuilt
  /\ active' = FALSE
  /\ raced' = [x \in Exchanges |-> {}]
  /\ UNCHANGED <<asked, storeVars, linked>>

\* One round of the drain at startup, when nobody can start a campaign; a failed merge
\* is logged.
RebuildStep ==
  /\ ~up
  /\ \E s \in Settled(trie) :
       /\ s.job # None
       /\ trie' = s.trie
       /\ \/ \E tbl \in Merged(s.job, Affected(s.job)) : Commits(tbl) /\ table' = tbl
          \/ UNCHANGED table
  /\ UNCHANGED <<up, record, asked, target, merging, rows, deleted, campaignVars, faults>>

\* A failed RebuildFromDB is logged, and the server goes on with no trie.
RebuildDone ==
  /\ ~up
  /\ up' = TRUE
  /\ \/ Candidates(trie) = {} /\ UNCHANGED trie
     \/ trie' = [node \in {<<>>} |-> 0]
  /\ UNCHANGED <<record, asked, target, merging, rows, storeVars, campaignVars, faults>>

Next ==
  \/ \E x \in Exchanges, path \in Paths : ObservePath(x, path) \/ Import(x, path)
  \/ \E x \in Exchanges : Store(x) \/ SelectAffected(x) \/ Merge(x) \/ Drain(x)
  \/ \E r \in Exchanges : AddRecording(r) \/ Delete(r)
  \/ StartCampaign \/ EndCampaign
  \/ Crash \/ RebuildStep \/ RebuildDone

Spec == Init /\ [][Next]_vars

-----------------------------------------------------------------------------
(* Properties.                                                             *)

\* Types: the trie is closed under parents, a request under way has its path, a merge has
\* keys, only a merge has selected rows, and what is linked is in the table.
TypeOK ==
  /\ up \in BOOLEAN /\ active \in BOOLEAN
  /\ \A node \in DOMAIN trie : Nodes(node) \subseteq DOMAIN trie /\ trie[node] \in Nat
  /\ record \in [Exchanges -> {"idle", "observed", "stored", "lost"}]
  /\ \A x \in Exchanges :
       /\ record[x] = "observed" => target[x] # None
       /\ merging[x] \notin {None, Committed} => merging[x].keys # {}
       /\ rows[x] # {} => merging[x] \notin {None, Committed}
       /\ raced[x] \subseteq rows[x] /\ rows[x] \subseteq Exchanges
  /\ linked \subseteq Live
  /\ \A r \in Live : table[r].seq \in [Entries(table[r]) -> Nat] /\ Entries(table[r]) \subseteq Exchanges
  /\ deleted \subseteq Exchanges
  /\ faults \in 0..MaxFaults

\* FindOrAppend numbers from entry_count, a merge from max(seq_order) + 1
\* and recounts afterwards: in whatever order they meet, the exchanges of a
\* recording are numbered 0, 1, ... entry_count - 1, each number once.
EntriesNumbered ==
  \A r \in Live :
    /\ table[r].count = Cardinality(Entries(table[r]))
    /\ {table[r].seq[e] : e \in Entries(table[r])} = 0..(table[r].count - 1)

\* An exchange whose Record or import succeeded is in exactly one recording,
\* through merges that move and delete, failed ones, crashes and rebuilds,
\* until the API deletes the recording it is in.
NothingLost ==
  \A x \in Exchanges :
    record[x] = "stored" =>
      Cardinality({r \in Live : x \in Entries(table[r])}) = IF x \in deleted THEN 0 ELSE 1

Generalises(path, raw) ==
  /\ Len(path) = Len(raw)
  /\ \A i \in DOMAIN path :
       path[i] \in {raw[i], PH} \cup {e \in Extends : e[2] = raw[i]}

\* Exchanges only meet in a recording whose path is the path of each, some
\* segments being the placeholder (or, when a merged key is the beginning of
\* a longer segment's text, the placeholder and what is left of it).
PathGeneralises ==
  \A r \in Live : \A x \in Entries(table[r]) : Generalises(table[r].path, asked[x])

\* One collapse per observation is enough: while the proxy runs, no node
\* waits to be collapsed, although neither ObservePath nor a failed merge
\* looks for a second one.
TrieSettled == up => Candidates(trie) = {}

\* The path an exchange is about to be stored under is one the trie still
\* holds, or has collapsed since: the literals that a later collapse counts,
\* and the merge after it moves, include those of exchanges on their way.
TargetsKnown ==
  \A x \in Exchanges :
    record[x] = "observed" =>
      \E node \in DOMAIN trie :
        /\ Len(node) = Len(target[x])
        /\ \A i \in DOMAIN node : node[i] \in {target[x][i], PH}

\* A recording that a campaign is using is never deleted nor emptied, and its exchanges
\* keep their numbers: a merge may only move others into it.  Its path changes only if the
\* merge had selected it before the campaign took it into use.
ActiveUntouched ==
  [][\A r \in Live :
       active /\ r \in linked =>
         /\ table'[r] # None
         /\ table'[r].path = table[r].path \/ \E x \in Exchanges : r \in raced[x] \ raced'[x]
         /\ \A e \in Entries(table[r]) :
              e \in Entries(table'[r]) /\ table'[r].seq[e] = table[r].seq[e]]_vars

=============================================================================
