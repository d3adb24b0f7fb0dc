------------------------ MODULE FindingPipeline_proofs ------------------------
(***************************************************************************)
(* Theorems about FindingPipeline for any finite set of workers, any       *)
(* findings, signatures and group keys, and any number of failures.        *)
(***************************************************************************)
EXTENDS FindingPipeline, FiniteSetTheorems, TLAPS

USE PipelineAssumption DEF PipelineAssumption

Row == [sig : Sigs, key : Keys, by : Workers]

-----------------------------------------------------------------------------
(* Types.                                                                  *)

\* A worker that goes on with its hit keeps what the types say of it.
LEMMA GotoTypes ==
  ASSUME TypeOK, NEW w \in Workers, NEW label,
         pc[w] # "next", Goto(w, label), UNCHANGED <<row, hit, cur>>,
         label \in {"stats", "file", "artifact", "confirm", "minimize", "file2", "artifact2"},
         pc[w] # "create"
  PROVE  /\ pc' \in [Workers -> {"next", "create", "stats", "file", "artifact", "confirm",
                                 "minimize", "file2", "artifact2"}]
         /\ \A v \in Workers : pc'[v] # "next" <=> hit'[v] # NoHit
         /\ \A v \in Workers : IF pc'[v] \in {"next", "create"} THEN cur'[v] = None ELSE cur'[v] \in Rows'
  BY DEF TypeOK, Goto, Rows

\* So does one that is done with it.
LEMMA DoneTypes ==
  ASSUME TypeOK, NEW w \in Workers, Done(w), UNCHANGED row
  PROVE  /\ pc' \in [Workers -> {"next", "create", "stats", "file", "artifact", "confirm",
                                 "minimize", "file2", "artifact2"}]
         /\ hit' \in [Workers -> Hits \cup {NoHit}]
         /\ cur' \in [Workers -> Findings \cup {None}]
         /\ \A v \in Workers : pc'[v] # "next" <=> hit'[v] # NoHit
         /\ \A v \in Workers : IF pc'[v] \in {"next", "create"} THEN cur'[v] = None ELSE cur'[v] \in Rows'
  BY DEF TypeOK, Done, Rows

\* A count of failures stays within its bound.
LEMMA FaultTypes ==
  ASSUME faults \in 0..MaxFaults, Fault \/ Lost \/ Live \/ UNCHANGED faults
  PROVE  faults' \in 0..MaxFaults
  BY DEF Fault, Lost, Live

\* What a plan writes: its findings are the ones asked for, its identifiers are
\* unused ones, and equal identifiers mean equal group keys.
LEMMA PlanContents ==
  ASSUME NEW fs, NEW p \in GroupPlans(fs)
  PROVE  /\ \A x \in p : x[1] \in fs /\ x[2] \in FreshIds /\ x = <<x[1], x[2]>>
         /\ \A x, y \in p : x[2] = y[2] => row[x[1]].key = row[y[1]].key
<1> DEFINE keys == {row[f].key : f \in fs}
<1>1. PICK ids \in Injection(keys, Draw(Cardinality(keys))) : p = {<<f, ids[row[f].key]>> : f \in fs}
  BY DEF GroupPlans
<1>2. /\ ids \in [keys -> Draw(Cardinality(keys))]
      /\ \A a, b \in keys : ids[a] = ids[b] => a = b
  BY DEF Injection, IsInjective
<1>3. Draw(Cardinality(keys)) \subseteq FreshIds
  BY DEF Draw
<1>4. \A f \in fs : row[f].key \in keys
  OBVIOUS
<1> QED BY <1>1, <1>2, <1>3, <1>4

\* Types hold initially ...
LEMMA InitTypeOK == Init => TypeOK
<1> SUFFICES ASSUME Init PROVE TypeOK
  OBVIOUS
<1>1. plan \in [Groupers -> SUBSET (Findings \X (1..MaxGroup))] /\ faults \in 0..MaxFaults
  BY DEF Init
<1>2. hit \in [Workers -> Hits \cup {NoHit}] /\ \A w \in Workers : hit[w] = NoHit
  BY DEF Init
<1>3. \A w \in Workers : pc[w] = "next" /\ cur[w] = None
  BY DEF Init
<1> QED BY <1>1, <1>2, <1>3 DEF Init, TypeOK

\* ... and after every step of workers, of the run and of the groupers.
LEMMA NextTypeOK == TypeOK /\ [Next]_vars => TypeOK'
<1> SUFFICES ASSUME TypeOK, [Next]_vars PROVE TypeOK'
  OBVIOUS
<1> USE DEF dbVars, workerVars, groupVars
<1>1. ASSUME NEW w \in Workers, CheckDedup(w) PROVE TypeOK'
  <2>1. PICK h \in Hits : hit' = [hit EXCEPT ![w] = h]
    BY <1>1 DEF CheckDedup
  <2>2. h # NoHit
    BY DEF Hits, NoHit
  <2> QED BY <1>1, <2>1, <2>2 DEF CheckDedup, Goto, TypeOK, Rows
<1>2. ASSUME NEW w \in Workers, CreateFinding(w) PROVE TypeOK'
  <2>1. hit[w] \in Hits /\ pc[w] = "create"
    BY <1>2 DEF CreateFinding, TypeOK
  <2>2. ASSUME NEW f \in Findings \ Rows, Live,
               row' = [row EXCEPT ![f] = [sig |-> hit[w].sig, key |-> hit[w].key, by |-> w]],
               cur' = [cur EXCEPT ![w] = f], Goto(w, "stats"), UNCHANGED hit
        PROVE  TypeOK'
    <3> DEFINE new == [sig |-> hit[w].sig, key |-> hit[w].key, by |-> w]
    <3>1. new \in Row /\ new # None
      BY <2>1 DEF Row, Hits
    <3>2. row' \in [Findings -> {None} \cup Row]
      BY <3>1, <2>2 DEF TypeOK, Row
    <3>3. Rows' = Rows \cup {f}
      BY <3>1, <2>2 DEF Rows, TypeOK
    <3>4. \A v \in Workers : IF pc'[v] \in {"next", "create"} THEN cur'[v] = None ELSE cur'[v] \in Rows'
      BY <2>1, <2>2, <3>3 DEF TypeOK, Goto
    <3>5. faults' \in 0..MaxFaults
      BY <2>2, FaultTypes DEF TypeOK
    <3> QED BY <1>2, <2>1, <2>2, <3>2, <3>4, <3>5 DEF CreateFinding, TypeOK, Goto, Row
  <2>3. CASE Lost /\ Done(w) /\ UNCHANGED row
    BY <1>2, <2>3, DoneTypes, FaultTypes DEF CreateFinding, TypeOK
  <2> QED BY <1>2, <2>2, <2>3 DEF CreateFinding
<1>3. ASSUME NEW w \in Workers, IncrementStats(w) PROVE TypeOK'
  <2>1. faults' \in 0..MaxFaults /\ total' \in Nat
    BY <1>3, FaultTypes DEF IncrementStats, TypeOK
  <2> QED BY <1>3, <2>1, GotoTypes DEF IncrementStats, TypeOK
<1>4. ASSUME NEW w \in Workers, AfterArtifact(w), UNCHANGED <<row, status, group, total, run, cancelled, groupVars>>,
             pc[w] \in {"file", "file2", "artifact", "artifact2"},
             files' \in SUBSET Findings, arts' \in [Findings -> Nat], faults' \in 0..MaxFaults
      PROVE  TypeOK'
  <2>1. CASE Goto(w, "confirm") /\ UNCHANGED <<hit, cur>>
    BY <1>4, <2>1, GotoTypes DEF TypeOK
  <2>2. CASE Done(w)
    BY <1>4, <2>2, DoneTypes DEF TypeOK
  <2> QED BY <1>4, <2>1, <2>2 DEF AfterArtifact
<1>5. ASSUME NEW w \in Workers, WriteFile(w) PROVE TypeOK'
  <2>1. cur[w] \in Findings /\ faults' \in 0..MaxFaults
    BY <1>5, FaultTypes DEF WriteFile, TypeOK, Rows
  <2>2. CASE files' = files \cup {cur[w]} /\ Goto(w, IF pc[w] = "file" THEN "artifact" ELSE "artifact2")
             /\ UNCHANGED <<hit, cur, faults>>
    <3> DEFINE label == IF pc[w] = "file" THEN "artifact" ELSE "artifact2"
    <3>1. Goto(w, label) /\ label \in {"artifact", "artifact2"} /\ pc[w] \in {"file", "file2"}
      BY <1>5, <2>2 DEF WriteFile
    <3> HIDE DEF label
    <3> QED BY <1>5, <2>1, <2>2, <3>1, GotoTypes DEF WriteFile, TypeOK
  <2>3. CASE Fault /\ UNCHANGED files /\ AfterArtifact(w)
    BY <1>4, <1>5, <2>1, <2>3 DEF WriteFile, TypeOK
  <2> QED BY <1>5, <2>2, <2>3 DEF WriteFile
<1>6. ASSUME NEW w \in Workers, CreateArtifact(w) PROVE TypeOK'
  <2>1. faults' \in 0..MaxFaults /\ arts' \in [Findings -> Nat]
    BY <1>6, FaultTypes DEF CreateArtifact, TypeOK
  <2> QED BY <1>4, <1>6, <2>1 DEF CreateArtifact, TypeOK
<1>7. ASSUME NEW w \in Workers, Confirm(w) PROVE TypeOK'
  <2>1. faults' \in 0..MaxFaults /\ status' \in [Findings -> {"UNCONFIRMED", "CONFIRMED"}]
    BY <1>7, FaultTypes DEF Confirm, TypeOK
  <2> QED BY <1>7, <2>1, GotoTypes, DoneTypes DEF Confirm, TypeOK
<1>8. ASSUME NEW w \in Workers, Minimize(w) PROVE TypeOK'
  BY <1>8, GotoTypes, DoneTypes DEF Minimize, TypeOK
<1>9. CASE Stop \/ EndRun \/ StartRun
  <2>1. CASE Stop \/ StartRun
    BY <2>1 DEF Stop, StartRun, TypeOK, Rows
  <2>2. CASE EndRun
    <3>1. gpc' \in [Groupers -> {"off", "list", "assign"}]
      BY <2>2 DEF EndRun, TypeOK
    <3> QED BY <2>2, <3>1 DEF EndRun, TypeOK, Rows
  <2> QED BY <1>9, <2>1, <2>2
<1>10. CASE Crash
  BY <1>10 DEF Crash, TypeOK, Rows, Groupers
<1>11. ASSUME NEW fs \in SUBSET Findings, NEW p \in GroupPlans(fs)
       PROVE  p \in SUBSET (Findings \X (1..MaxGroup))
  <2>1. FreshIds \subseteq 1..MaxGroup
    BY DEF FreshIds
  <2> QED BY <1>11, <2>1, PlanContents
<1>12. Confirmed \subseteq Findings
  BY DEF Confirmed, Rows
<1>13. CASE ListFinal
  <2>1. plan' \in [Groupers -> SUBSET (Findings \X (1..MaxGroup))]
    BY <1>13, <1>11, <1>12 DEF ListFinal, TypeOK, Groupers
  <2>2. faults' \in 0..MaxFaults
    BY <1>13, FaultTypes DEF ListFinal, TypeOK
  <2>3. gpc' \in [Groupers -> {"off", "list", "assign"}]
    BY <1>13 DEF ListFinal, TypeOK
  <2> QED BY <1>13, <2>1, <2>2, <2>3 DEF ListFinal, TypeOK, Rows
<1>14. CASE ListPeriodic
  <2>1. plan' \in [Groupers -> SUBSET (Findings \X (1..MaxGroup))]
    BY <1>14, <1>11, <1>12 DEF ListPeriodic, TypeOK, Groupers
  <2> QED BY <1>14, <2>1 DEF ListPeriodic, TypeOK, Rows
<1>15. ASSUME NEW g \in Groupers, AssignGroup(g) PROVE TypeOK'
  <2>1. PICK p \in plan[g] :
          /\ \/ group' = [group EXCEPT ![p[1]] = p[2]] /\ UNCHANGED faults
             \/ Fault /\ UNCHANGED group
          /\ plan' = [plan EXCEPT ![g] = @ \ {p}]
          /\ gpc' = [gpc EXCEPT ![g] = IF plan[g] = {p} THEN "off" ELSE "assign"]
    BY <1>15 DEF AssignGroup
  <2>2. p[1] \in Findings /\ p[2] \in 1..MaxGroup
    BY DEF TypeOK
  <2>3. group' \in [Findings -> 1..MaxGroup \cup {None}]
    BY <2>1, <2>2 DEF TypeOK
  <2>4. plan' \in [Groupers -> SUBSET (Findings \X (1..MaxGroup))]
    BY <2>1 DEF TypeOK
  <2>5. faults' \in 0..MaxFaults
    BY <2>1, FaultTypes DEF TypeOK
  <2>6. gpc' \in [Groupers -> {"off", "list", "assign"}]
    BY <2>1 DEF TypeOK
  <2> QED BY <1>15, <2>3, <2>4, <2>5, <2>6 DEF AssignGroup, TypeOK, Rows
<1>16. CASE UNCHANGED vars
  BY <1>16 DEF vars, TypeOK, Rows
<1> QED
  BY <1>1, <1>2, <1>3, <1>5, <1>6, <1>7, <1>8, <1>9, <1>10, <1>13, <1>14, <1>15, <1>16
     DEF Next, WorkerStep

\* Every reachable state is well typed: a worker past the INSERT holds a row.
THEOREM PipelineTypeCorrect == Spec => []TypeOK
  BY InitTypeOK, NextTypeOK, PTL DEF Spec
-----------------------------------------------------------------------------
(* What stays as it is.                                                    *)

\* A row is never changed, a status never goes back, and files stay.
Grows ==
  /\ Rows \subseteq Rows'
  /\ \A f \in Rows : row'[f] = row[f]
  /\ files \subseteq files'
  /\ \A f \in Findings : arts'[f] >= arts[f]
  /\ \A f \in Findings : status[f] = "CONFIRMED" => status'[f] = "CONFIRMED"

\* Every step keeps what is there, and only CreateFinding adds a row.
LEMMA StepGrows ==
  ASSUME TypeOK, [Next]_vars
  PROVE  Grows /\ (Rows' # Rows => \E w \in Workers : CreateFinding(w) /\ Live)
<1> USE DEF dbVars, workerVars, groupVars
<1>1. CASE UNCHANGED <<row, status, files, arts>>
  BY <1>1 DEF Grows, Rows, TypeOK
<1>2. ASSUME NEW w \in Workers, CreateFinding(w)
      PROVE  Grows /\ (Rows' # Rows => Live)
  <2>1. UNCHANGED <<status, files, arts>>
    BY <1>2 DEF CreateFinding
  <2>2. CASE UNCHANGED row
    BY <2>1, <2>2 DEF Grows, Rows, TypeOK
  <2>3. ASSUME NEW f \in Findings \ Rows, Live,
               row' = [row EXCEPT ![f] = [sig |-> hit[w].sig, key |-> hit[w].key, by |-> w]]
        PROVE  Grows
    <3>1. \A g \in Rows : g # f /\ row'[g] = row[g]
      BY <2>3 DEF TypeOK, Rows
    <3>2. Rows \subseteq Rows'
      BY <3>1 DEF Rows
    <3> QED BY <2>1, <3>1, <3>2 DEF Grows, TypeOK
  <2> QED BY <1>2, <2>2, <2>3 DEF CreateFinding
<1>3. ASSUME NEW w \in Workers, IncrementStats(w) \/ WriteFile(w) \/ CreateArtifact(w) \/ Confirm(w)
      PROVE  Grows /\ Rows' = Rows
  <2>1. row' = row /\ Rows' = Rows
    BY <1>3 DEF IncrementStats, WriteFile, CreateArtifact, Confirm, Rows
  <2>2. files \subseteq files'
    BY <1>3 DEF IncrementStats, WriteFile, CreateArtifact, Confirm
  <2>3. \A f \in Findings : arts'[f] >= arts[f]
    BY <1>3 DEF IncrementStats, WriteFile, CreateArtifact, Confirm, TypeOK
  <2>4. \A f \in Findings : status[f] = "CONFIRMED" => status'[f] = "CONFIRMED"
    BY <1>3 DEF IncrementStats, WriteFile, CreateArtifact, Confirm, TypeOK
  <2> QED BY <2>1, <2>2, <2>3, <2>4 DEF Grows
<1>4. ASSUME NEW w \in Workers, CheckDedup(w) \/ Minimize(w) PROVE UNCHANGED <<row, status, files, arts>>
  BY <1>4 DEF CheckDedup, Minimize
<1>5. ASSUME Stop \/ EndRun \/ StartRun \/ Crash \/ ListFinal \/ ListPeriodic PROVE UNCHANGED <<row, status, files, arts>>
  BY <1>5 DEF Stop, EndRun, StartRun, Crash, ListFinal, ListPeriodic
<1>6. ASSUME NEW g \in Groupers, AssignGroup(g) PROVE UNCHANGED <<row, status, files, arts>>
  BY <1>6 DEF AssignGroup
<1>7. ASSUME UNCHANGED vars PROVE UNCHANGED <<row, status, files, arts>>
  BY <1>7 DEF vars
<1>8. UNCHANGED <<row, status, files, arts>> => Rows' = Rows
  BY DEF Rows
<1> QED BY <1>1, <1>2, <1>3, <1>4, <1>5, <1>6, <1>7, <1>8 DEF Next, WorkerStep

-----------------------------------------------------------------------------
(* Duplicates.                                                             *)

\* What a worker has checked stays true until its INSERT: only it could insert
\* a row of its own.
Checked ==
  \A w \in Workers : pc[w] = "create" =>
    \A f \in Rows : row[f].by = w => row[f].sig # hit[w].sig

DedupInv == Checked /\ OnePerWorker

\* Every step preserves it.
LEMMA NextDedup == TypeOK /\ TypeOK' /\ DedupInv /\ [Next]_vars => DedupInv'
<1> SUFFICES ASSUME TypeOK, TypeOK', DedupInv, [Next]_vars PROVE DedupInv'
  OBVIOUS
<1> USE DEF DedupInv, dbVars, workerVars, groupVars
<1>1. ASSUME NEW w \in Workers, CheckDedup(w) PROVE DedupInv'
  BY <1>1 DEF CheckDedup, Goto, Checked, OnePerWorker, Rows, TypeOK
<1>2. ASSUME NEW w \in Workers, CreateFinding(w), Rows' # Rows PROVE DedupInv'
  <2>1. PICK f \in Findings \ Rows :
          /\ row' = [row EXCEPT ![f] = [sig |-> hit[w].sig, key |-> hit[w].key, by |-> w]]
          /\ Goto(w, "stats") /\ UNCHANGED hit
    BY <1>2 DEF CreateFinding, Rows
  <2>2. Rows' \subseteq Rows \cup {f} /\ row'[f].sig = hit[w].sig /\ row'[f].by = w
    BY <2>1 DEF Rows, TypeOK
  <2>3. \A g \in Rows : g # f /\ row'[g] = row[g]
    BY <2>1 DEF TypeOK, Rows
  <2>4. pc[w] = "create" /\ pc' = [pc EXCEPT ![w] = "stats"]
    BY <1>2, <2>1 DEF CreateFinding, Goto
  <2>5. Checked'
    BY <2>1, <2>2, <2>3, <2>4 DEF Checked, TypeOK
  <2>6. OnePerWorker'
    BY <2>2, <2>3, <2>4 DEF Checked, OnePerWorker
  <2> QED BY <2>5, <2>6
<1>3. ASSUME Rows' = Rows, \A w \in Workers : pc'[w] = "create" => pc[w] = "create" /\ hit'[w] = hit[w]
      PROVE  DedupInv'
  BY <1>3, StepGrows DEF Grows, Checked, OnePerWorker
<1>4. ASSUME NEW w \in Workers, CreateFinding(w) \/ IncrementStats(w) \/ WriteFile(w)
                                  \/ CreateArtifact(w) \/ Confirm(w) \/ Minimize(w)
      PROVE  \A v \in Workers : pc'[v] = "create" => pc[v] = "create" /\ hit'[v] = hit[v]
  <2>1. \E label \in {"stats", "file", "artifact", "artifact2", "confirm", "minimize", "file2", "next"} :
          pc' = [pc EXCEPT ![w] = label] /\ \A v \in Workers \ {w} : hit'[v] = hit[v]
    BY <1>4 DEF CreateFinding, IncrementStats, WriteFile, CreateArtifact, AfterArtifact, Confirm, Minimize,
                Goto, Done, TypeOK
  <2> QED BY <2>1 DEF TypeOK
<1>5. ASSUME Stop \/ EndRun \/ StartRun \/ Crash \/ ListFinal \/ ListPeriodic \/ UNCHANGED vars
      PROVE  \A v \in Workers : pc'[v] = "create" => pc[v] = "create" /\ hit'[v] = hit[v]
  BY <1>5 DEF Stop, EndRun, StartRun, Crash, ListFinal, ListPeriodic, vars
<1>6. ASSUME NEW g \in Groupers, AssignGroup(g)
      PROVE  \A v \in Workers : pc'[v] = "create" => pc[v] = "create" /\ hit'[v] = hit[v]
  BY <1>6 DEF AssignGroup
<1>7. CASE Rows' # Rows
  BY <1>2, <1>7, StepGrows
<1>8. CASE Rows' = Rows
  BY <1>1, <1>3, <1>4, <1>5, <1>6, <1>8 DEF Next, WorkerStep
<1> QED BY <1>7, <1>8

\* A signature has at most one finding per worker, over every run and crash: the
\* check ExistsBySignature holds against the worker's own inserts only.
THEOREM PipelineOnePerWorker == Spec => []OnePerWorker
<1>1. Init => DedupInv
  BY DEF Init, DedupInv, Checked, OnePerWorker, Rows
<1>2. DedupInv => OnePerWorker
  BY DEF DedupInv
<1> QED BY <1>1, <1>2, NextDedup, PipelineTypeCorrect, PTL DEF Spec
-----------------------------------------------------------------------------
(* Artifacts.                                                              *)

\* A worker between the two halves of writeArtifact has written the file.
FileFirst == \A w \in Workers : pc[w] \in {"artifact", "artifact2"} => cur[w] \in files

FileInv == FileFirst /\ ArtifactHasFile

\* Every step preserves it.
LEMMA NextFile == TypeOK /\ FileInv /\ [Next]_vars => FileInv'
<1> SUFFICES ASSUME TypeOK, FileInv, [Next]_vars PROVE FileInv'
  OBVIOUS
<1> USE DEF FileInv, dbVars, workerVars, groupVars
<1>1. ASSUME UNCHANGED arts,
             \A w \in Workers : pc'[w] \in {"artifact", "artifact2"} => cur'[w] \in files'
      PROVE  FileInv'
  BY <1>1, StepGrows DEF Grows, FileFirst, ArtifactHasFile
<1>2. ASSUME NEW w \in Workers, WriteFile(w) PROVE FileInv'
  <2>1. \A v \in Workers \ {w} : pc'[v] = pc[v] /\ cur'[v] = cur[v]
    BY <1>2 DEF WriteFile, AfterArtifact, Goto, Done, TypeOK
  <2>2. pc'[w] \in {"artifact", "artifact2"} => cur'[w] \in files'
    BY <1>2 DEF WriteFile, AfterArtifact, Goto, Done, TypeOK
  <2>3. UNCHANGED arts /\ files \subseteq files'
    BY <1>2 DEF WriteFile
  <2> QED BY <1>1, <2>1, <2>2, <2>3 DEF FileFirst
<1>3. ASSUME NEW w \in Workers, CreateArtifact(w) PROVE FileInv'
  <2>1. cur[w] \in files /\ UNCHANGED files
    BY <1>3 DEF CreateArtifact, FileFirst
  <2>2. \A f \in Findings : arts'[f] > 0 => arts[f] > 0 \/ f = cur[w]
    BY <1>3 DEF CreateArtifact, TypeOK
  <2>3. ArtifactHasFile'
    BY <2>1, <2>2 DEF ArtifactHasFile
  <2>4. \A v \in Workers : pc'[v] \in {"artifact", "artifact2"} => pc'[v] = pc[v] /\ cur'[v] = cur[v]
    BY <1>3 DEF CreateArtifact, AfterArtifact, Goto, Done, TypeOK
  <2> QED BY <2>1, <2>3, <2>4 DEF FileFirst
<1>4. ASSUME UNCHANGED arts, files' = files,
             \A w \in Workers : pc'[w] \in {"artifact", "artifact2"} => pc'[w] = pc[w] /\ cur'[w] = cur[w]
      PROVE  FileInv'
  BY <1>4 DEF FileFirst, ArtifactHasFile
<1>5. ASSUME NEW w \in Workers, CheckDedup(w) \/ CreateFinding(w) \/ IncrementStats(w)
                                  \/ Confirm(w) \/ Minimize(w)
      PROVE  FileInv'
  <2>1. UNCHANGED <<arts, files>>
    BY <1>5 DEF CheckDedup, CreateFinding, IncrementStats, Confirm, Minimize
  <2>2. /\ \E label \in {"create", "stats", "file", "confirm", "minimize", "file2", "next"} :
             pc' = [pc EXCEPT ![w] = label]
        /\ \A v \in Workers \ {w} : cur'[v] = cur[v]
    BY <1>5 DEF CheckDedup, CreateFinding, IncrementStats, Confirm, Minimize, Goto, Done, TypeOK
  <2> QED BY <1>4, <2>1, <2>2 DEF TypeOK
<1>6. CASE Stop \/ EndRun \/ StartRun \/ Crash \/ ListFinal \/ ListPeriodic \/ UNCHANGED vars
  BY <1>4, <1>6 DEF Stop, EndRun, StartRun, Crash, ListFinal, ListPeriodic, vars
<1>7. ASSUME NEW g \in Groupers, AssignGroup(g) PROVE FileInv'
  BY <1>4, <1>7 DEF AssignGroup
<1> QED BY <1>2, <1>3, <1>5, <1>6, <1>7 DEF Next, WorkerStep

\* A row in artifacts always has its file, whenever the process dies: the rename
\* comes first, and a failed write returns before the row.
THEOREM PipelineArtifactHasFile == Spec => []ArtifactHasFile
<1>1. Init => FileInv
  BY DEF Init, FileInv, FileFirst, ArtifactHasFile
<1>2. FileInv => ArtifactHasFile
  BY DEF FileInv
<1> QED BY <1>1, <1>2, NextFile, PipelineTypeCorrect, PTL DEF Spec

\* Without failures a worker that confirms in a run that is not cancelled has its
\* artifact; nobody works in a run that is over; what was not inserted yet is not
\* confirmed.
ConfirmLate ==
  /\ faults = 0 /\ ~cancelled => \A w \in Workers : pc[w] = "confirm" => arts[cur[w]] > 0
  /\ run = "over" => \A w \in Workers : pc[w] = "next"
  /\ \A f \in Findings \ Rows : status[f] = "UNCONFIRMED"

ConfirmInv == ConfirmLate /\ ConfirmedHasArtifact

\* Every step preserves it.
LEMMA NextConfirm == TypeOK /\ TypeOK' /\ ConfirmInv /\ [Next]_vars => ConfirmInv'
<1> SUFFICES ASSUME TypeOK, TypeOK', ConfirmInv, [Next]_vars PROVE ConfirmInv'
  OBVIOUS
<1> USE DEF ConfirmInv, dbVars, workerVars, groupVars
<1>1. faults' >= faults /\ faults \in Nat
  <2>1. faults' = faults \/ faults' = faults + 1
    BY DEF Next, WorkerStep, CheckDedup, CreateFinding, IncrementStats, WriteFile, CreateArtifact, Confirm,
           Minimize, Stop, EndRun, StartRun, Crash, ListFinal, ListPeriodic, AssignGroup, Fault, Lost, Live, vars
  <2> QED BY <2>1 DEF TypeOK
\* The parts of the invariant that do not count artifacts.
<1>2. ASSUME Rows' = Rows, status' = status
      PROVE  ConfirmedHasArtifact' /\ \A f \in Findings \ Rows' : status'[f] = "UNCONFIRMED"
  <2>1. \A f \in Rows : arts[f] > 0 => arts'[f] > 0
    BY StepGrows DEF Grows, TypeOK, Rows
  <2> QED BY <1>1, <1>2, <2>1 DEF ConfirmedHasArtifact, ConfirmLate, TypeOK
<1>3. ASSUME UNCHANGED <<run, cancelled, status>>, Rows' = Rows,
             NEW w \in Workers, pc[w] # "next",
             \A v \in Workers \ {w} : pc'[v] = pc[v] /\ cur'[v] = cur[v],
             faults' = 0 /\ ~cancelled /\ pc'[w] = "confirm" => arts'[cur'[w]] > 0
      PROVE  ConfirmInv'
  <2>1. run # "over"
    BY <1>3 DEF ConfirmLate
  <2>2. \A v \in Workers \ {w} : pc[v] = "confirm" => arts'[cur[v]] >= arts[cur[v]]
    BY StepGrows DEF Grows, TypeOK, Rows
  <2>3. ASSUME faults' = 0, ~cancelled', NEW v \in Workers, pc'[v] = "confirm" PROVE arts'[cur'[v]] > 0
    <3>1. CASE v = w
      BY <1>3, <2>3, <3>1
    <3>2. CASE v # w
      <4>1. faults = 0 /\ arts[cur[v]] > 0 /\ cur[v] \in Findings
        BY <1>1, <1>3, <2>3, <3>2 DEF ConfirmLate, TypeOK, Rows
      <4> QED BY <1>3, <2>2, <2>3, <3>2, <4>1 DEF TypeOK
    <3> QED BY <3>1, <3>2
  <2> QED BY <1>2, <1>3, <2>1, <2>3 DEF ConfirmLate
<1>4. ASSUME NEW w \in Workers, CheckDedup(w) PROVE ConfirmInv'
  BY <1>4 DEF CheckDedup, Goto, ConfirmLate, ConfirmedHasArtifact, Rows, TypeOK
<1>5. ASSUME NEW w \in Workers, CreateFinding(w) PROVE ConfirmInv'
  <2>1. UNCHANGED <<status, arts, run, cancelled>> /\ pc[w] = "create"
    BY <1>5 DEF CreateFinding
  <2>2. /\ pc'[w] # "confirm"
        /\ \A v \in Workers \ {w} : pc'[v] = pc[v] /\ cur'[v] = cur[v]
    BY <1>5 DEF CreateFinding, Goto, Done, TypeOK
  <2>3. \A f \in Rows' \ Rows : status[f] = "UNCONFIRMED"
    BY DEF ConfirmLate, Rows
  <2>4. Rows \subseteq Rows'
    BY StepGrows DEF Grows
  <2>5. ConfirmedHasArtifact'
    BY <1>1, <2>1, <2>3 DEF ConfirmedHasArtifact
  <2> QED BY <1>1, <2>1, <2>2, <2>3, <2>4, <2>5 DEF ConfirmLate
<1>6. ASSUME NEW w \in Workers, IncrementStats(w) PROVE ConfirmInv'
  BY <1>3, <1>6 DEF IncrementStats, Goto, Rows, TypeOK
<1>7. ASSUME NEW w \in Workers, WriteFile(w) PROVE ConfirmInv'
  <2>1. UNCHANGED <<run, cancelled, status>> /\ Rows' = Rows /\ pc[w] # "next"
    BY <1>7 DEF WriteFile, Rows
  <2>2. \A v \in Workers \ {w} : pc'[v] = pc[v] /\ cur'[v] = cur[v]
    BY <1>7 DEF WriteFile, AfterArtifact, Goto, Done, TypeOK
  <2>3. pc'[w] = "confirm" => faults' = faults + 1
    BY <1>7 DEF WriteFile, AfterArtifact, Goto, Done, TypeOK, Fault
  <2> QED BY <1>1, <1>3, <2>1, <2>2, <2>3
<1>8. ASSUME NEW w \in Workers, CreateArtifact(w) PROVE ConfirmInv'
  <2>1. UNCHANGED <<run, cancelled, status>> /\ Rows' = Rows /\ pc[w] # "next"
    BY <1>8 DEF CreateArtifact, Rows
  <2>2. \A v \in Workers \ {w} : pc'[v] = pc[v] /\ cur'[v] = cur[v]
    BY <1>8 DEF CreateArtifact, AfterArtifact, Goto, Done, TypeOK
  <2>3. CASE Lost
    BY <1>1, <1>3, <2>1, <2>2, <2>3 DEF Lost, Fault
  <2>4. CASE arts' = [arts EXCEPT ![cur[w]] = @ + 1]
    <3>1. cur[w] \in Findings
      BY <1>8 DEF CreateArtifact, TypeOK, Rows
    <3>2. pc'[w] = "confirm" => cur'[w] = cur[w]
      BY <1>8 DEF CreateArtifact, AfterArtifact, Goto, Done, TypeOK
    <3>3. arts'[cur[w]] > 0
      BY <2>4, <3>1 DEF TypeOK
    <3> QED BY <1>3, <2>1, <2>2, <3>2, <3>3
  <2> QED BY <1>8, <2>3, <2>4 DEF CreateArtifact
<1>9. ASSUME NEW w \in Workers, Confirm(w) PROVE ConfirmInv'
  <2>1. UNCHANGED <<row, run, cancelled, arts>> /\ Rows' = Rows /\ pc[w] = "confirm"
    BY <1>9 DEF Confirm, Rows
  <2>2. pc'[w] # "confirm" /\ \A v \in Workers \ {w} : pc'[v] = pc[v] /\ cur'[v] = cur[v]
    BY <1>9 DEF Confirm, Goto, Done, TypeOK
  <2>3. CASE UNCHANGED status
    BY <1>3, <2>1, <2>2, <2>3
  <2>4. CASE Live /\ status' = [status EXCEPT ![cur[w]] = "CONFIRMED"]
    <3>1. cur[w] \in Rows /\ run # "over"
      BY <2>1 DEF TypeOK, ConfirmLate
    <3>2. faults = 0 => arts[cur[w]] > 0
      BY <2>1, <2>4 DEF Live, ConfirmLate
    <3>3. \A f \in Findings : f # cur[w] => status'[f] = status[f]
      BY <2>4 DEF TypeOK
    <3>4. ConfirmedHasArtifact'
      BY <2>1, <2>4, <3>2, <3>3 DEF ConfirmedHasArtifact, Live, Rows
    <3>5. ConfirmLate'
      BY <2>1, <2>2, <2>4, <3>1, <3>3 DEF ConfirmLate, Live
    <3> QED BY <3>4, <3>5
  <2> QED BY <1>9, <2>3, <2>4 DEF Confirm
<1>10. ASSUME NEW w \in Workers, Minimize(w) PROVE ConfirmInv'
  <2>1. UNCHANGED <<row, run, cancelled, status>> /\ Rows' = Rows /\ pc[w] # "next"
    BY <1>10 DEF Minimize, Rows
  <2>2. pc'[w] # "confirm" /\ \A v \in Workers \ {w} : pc'[v] = pc[v] /\ cur'[v] = cur[v]
    BY <1>10 DEF Minimize, Goto, Done, TypeOK
  <2> QED BY <1>3, <2>1, <2>2
<1>11. CASE Stop \/ EndRun \/ StartRun \/ Crash
  <2>1. Rows' = Rows /\ UNCHANGED <<status, arts>>
    BY <1>11 DEF Stop, EndRun, StartRun, Crash, Rows
  <2> QED BY <1>2, <1>11, <2>1 DEF Stop, EndRun, StartRun, Crash, ConfirmLate
<1>12. CASE ListFinal \/ ListPeriodic \/ (\E g \in Groupers : AssignGroup(g)) \/ UNCHANGED vars
  <2>1. UNCHANGED <<row, status, arts, workerVars, run, cancelled>> /\ Rows' = Rows
    BY <1>12 DEF ListFinal, ListPeriodic, AssignGroup, vars, Rows
  <2> QED BY <1>1, <1>2, <2>1 DEF ConfirmLate
<1> QED
  BY <1>4, <1>5, <1>6, <1>7, <1>8, <1>9, <1>10, <1>11, <1>12 DEF Next, WorkerStep

\* A stop or a crash never leaves a CONFIRMED finding without an artifact: when
\* its INSERT fails because the context is over, so does the status update.
THEOREM PipelineConfirmedHasArtifact == Spec => []ConfirmedHasArtifact
<1>1. Init => ConfirmInv
  BY DEF Init, ConfirmInv, ConfirmLate, ConfirmedHasArtifact, Rows
<1>2. ConfirmInv => ConfirmedHasArtifact
  BY DEF ConfirmInv
<1> QED BY <1>1, <1>2, NextConfirm, PipelineTypeCorrect, PTL DEF Spec
-----------------------------------------------------------------------------
(* Statistics.                                                             *)

Counting == {w \in Workers : pc[w] = "stats"}

CountInv == IsFiniteSet(Rows) /\ TotalWithinFindings

\* Sets of workers are finite, so their sizes can be compared.
LEMMA CountingFinite == IsFiniteSet(Counting) /\ Cardinality(Counting) \in Nat
<1>1. Counting \subseteq Workers
  BY DEF Counting
<1> QED BY <1>1, FS_Subset, FS_CardinalityType

\* The same in the next state.
LEMMA CountingFiniteNext == IsFiniteSet(Counting') /\ Cardinality(Counting') \in Nat
<1>1. Counting' \subseteq Workers
  BY DEF Counting
<1> QED BY <1>1, FS_Subset, FS_CardinalityType

\* A step that adds neither to the total nor to the workers about to count keeps
\* the total within the rows.
LEMMA CountKept ==
  ASSUME TypeOK, CountInv, total' = total, Rows' = Rows, Counting' \subseteq Counting
  PROVE  CountInv'
<1>1. Cardinality(Counting') <= Cardinality(Counting)
  BY CountingFinite, FS_Subset
<1>2. Cardinality(Rows) \in Nat
  BY FS_CardinalityType DEF CountInv
<1>3. total + Cardinality(Counting) <= Cardinality(Rows)
  BY DEF CountInv, TotalWithinFindings, Counting
<1>4. total + Cardinality(Counting') <= Cardinality(Rows)
  BY <1>1, <1>2, <1>3, CountingFinite, CountingFiniteNext DEF TypeOK
<1>5. TotalWithinFindings'
  BY <1>4 DEF TotalWithinFindings, Counting
<1> QED BY <1>5 DEF CountInv

\* Every step keeps the total within the rows: an INSERT adds one to both sides,
\* and the worker that counts is one of those that may.
LEMMA NextCount == TypeOK /\ TypeOK' /\ CountInv /\ [Next]_vars => CountInv'
<1> SUFFICES ASSUME TypeOK, TypeOK', CountInv, [Next]_vars PROVE CountInv'
  OBVIOUS
<1> USE DEF dbVars, workerVars, groupVars
<1>1. total + Cardinality(Counting) <= Cardinality(Rows) /\ IsFiniteSet(Rows) /\ Cardinality(Rows) \in Nat
  BY FS_CardinalityType DEF CountInv, TotalWithinFindings, Counting
<1>2. ASSUME NEW w \in Workers, CreateFinding(w) PROVE CountInv'
  <2>1. total' = total /\ pc[w] = "create"
    BY <1>2 DEF CreateFinding
  <2>2. CASE Lost /\ Done(w) /\ UNCHANGED row
    <3>1. Counting' \subseteq Counting /\ Rows' = Rows
      BY <2>2 DEF Counting, Done, Rows, TypeOK
    <3> QED BY <2>1, <3>1, CountKept
  <2>3. ASSUME NEW f \in Findings \ Rows,
               row' = [row EXCEPT ![f] = [sig |-> hit[w].sig, key |-> hit[w].key, by |-> w]],
               cur' = [cur EXCEPT ![w] = f], Goto(w, "stats")
        PROVE  CountInv'
    <3>1. Counting' = Counting \cup {w} /\ w \notin Counting
      BY <2>1, <2>3 DEF Counting, Goto, TypeOK
    <3>2. f \in Rows'
      <4>1. pc'[w] = "stats" /\ cur'[w] = f
        BY <2>3 DEF Goto, TypeOK
      <4> QED BY <4>1 DEF TypeOK
    <3>3. Rows' = Rows \cup {f} /\ f \notin Rows
      BY <2>3, <3>2 DEF Rows, TypeOK
    <3>4. Cardinality(Counting') = Cardinality(Counting) + 1
      BY <3>1, CountingFinite, FS_AddElement
    <3>5. Cardinality(Rows') = Cardinality(Rows) + 1 /\ IsFiniteSet(Rows')
      BY <1>1, <3>3, FS_AddElement
    <3>6. total' + Cardinality(Counting') <= Cardinality(Rows')
      BY <1>1, <2>1, <3>4, <3>5, CountingFinite DEF TypeOK
    <3>7. TotalWithinFindings'
      BY <3>6 DEF TotalWithinFindings, Counting
    <3> QED BY <3>5, <3>7 DEF CountInv
  <2> QED BY <1>2, <2>2, <2>3 DEF CreateFinding
<1>3. ASSUME NEW w \in Workers, IncrementStats(w) PROVE CountInv'
  <2>1. Counting' = Counting \ {w} /\ w \in Counting /\ Rows' = Rows
    BY <1>3 DEF IncrementStats, Counting, Goto, Rows, TypeOK
  <2>2. Cardinality(Counting') = Cardinality(Counting) - 1
    BY <2>1, CountingFinite, FS_RemoveElement
  <2>3. total' \in {total, total + 1}
    BY <1>3 DEF IncrementStats
  <2>4. total' + Cardinality(Counting') <= Cardinality(Rows')
    BY <1>1, <2>1, <2>2, <2>3, CountingFinite DEF TypeOK
  <2>5. TotalWithinFindings'
    BY <2>4 DEF TotalWithinFindings, Counting
  <2> QED BY <1>1, <2>1, <2>5 DEF CountInv
<1>4. ASSUME NEW w \in Workers, CheckDedup(w) \/ WriteFile(w) \/ CreateArtifact(w) \/ Confirm(w) \/ Minimize(w)
      PROVE  CountInv'
  <2>1. \E label \in {"create", "artifact", "artifact2", "confirm", "minimize", "file2", "next"} :
          pc' = [pc EXCEPT ![w] = label]
    BY <1>4 DEF CheckDedup, WriteFile, CreateArtifact, AfterArtifact, Confirm, Minimize, Goto, Done
  <2>2. Counting' \subseteq Counting
    BY <2>1 DEF Counting, TypeOK
  <2>3. total' = total /\ Rows' = Rows
    BY <1>4 DEF CheckDedup, WriteFile, CreateArtifact, Confirm, Minimize, Rows
  <2> QED BY <2>2, <2>3, CountKept
<1>5. CASE \/ Stop \/ EndRun \/ StartRun \/ Crash \/ ListFinal \/ ListPeriodic
           \/ \E g \in Groupers : AssignGroup(g)
           \/ UNCHANGED vars
  <2>1. total' = total /\ Rows' = Rows
    BY <1>5 DEF Stop, EndRun, StartRun, Crash, ListFinal, ListPeriodic, AssignGroup, vars, Rows
  <2>2. Counting' \subseteq Counting
    BY <1>5 DEF Stop, EndRun, StartRun, Crash, ListFinal, ListPeriodic, AssignGroup, vars, Counting
  <2> QED BY <2>1, <2>2, CountKept
<1> QED BY <1>2, <1>3, <1>4, <1>5 DEF Next, WorkerStep

\* findings_total never runs ahead of the findings, whatever is cancelled or lost:
\* a crash between the INSERT and the count can only leave it behind.
THEOREM PipelineTotalWithinFindings == Spec => []TotalWithinFindings
<1>1. ASSUME Init PROVE CountInv
  <2>1. Rows = {} /\ Counting = {} /\ total = 0
    BY <1>1 DEF Init, Rows, Counting
  <2>2. TotalWithinFindings
    BY <2>1, FS_EmptySet DEF TotalWithinFindings, Counting
  <2> QED BY <2>1, <2>2, FS_EmptySet DEF CountInv
<1>2. CountInv => TotalWithinFindings
  BY DEF CountInv
<1> QED BY <1>1, <1>2, NextCount, PipelineTypeCorrect, PTL DEF Spec

-----------------------------------------------------------------------------
(* Groups.                                                                 *)

\* The pairs of finding and group that are written, or that a grouper has still
\* to write.
Assigned ==
  {<<f, group[f]>> : f \in {g \in Findings : group[g] # None}} \cup plan["final"] \cup plan["periodic"]

\* They are of CONFIRMED findings, and a group has one key.
AssignedOK(pairs) ==
  /\ \A p \in pairs : p[1] \in Confirmed
  /\ \A p, q \in pairs : p[2] = q[2] => row[p[1]].key = row[q[1]].key

GroupInv == AssignedOK(Assigned)

\* The new pairs of a pass are as good as the ones that were there, since their
\* identifiers are fresh.
LEMMA PlanAgrees ==
  ASSUME TypeOK, GroupInv, NEW fs \in SUBSET Confirmed, NEW p \in GroupPlans(fs)
  PROVE  AssignedOK(Assigned \cup p)
<1>1. \A x \in Assigned : x[2] \in UsedIds
  BY DEF Assigned, UsedIds
<1>2. \A x \in p : x[1] \in Confirmed /\ x[2] \notin UsedIds
  BY PlanContents DEF FreshIds
<1>3. \A x, y \in p : x[2] = y[2] => row[x[1]].key = row[y[1]].key
  BY PlanContents
<1> QED BY <1>1, <1>2, <1>3 DEF GroupInv, AssignedOK

\* Every step preserves the invariant.
LEMMA NextGroup == TypeOK /\ TypeOK' /\ GroupInv /\ [Next]_vars => GroupInv'
<1> SUFFICES ASSUME TypeOK, TypeOK', GroupInv, [Next]_vars PROVE GroupInv'
  OBVIOUS
<1> USE DEF dbVars, workerVars, groupVars
<1>1. Confirmed \subseteq Confirmed' /\ \A f \in Confirmed : row'[f] = row[f]
  BY StepGrows DEF Grows, Confirmed, Rows
<1>2. ASSUME NEW pairs, AssignedOK(pairs), Assigned' \subseteq pairs PROVE GroupInv'
  <2>1. \A p \in Assigned' : p[1] \in Confirmed /\ p[1] \in Confirmed'
    BY <1>1, <1>2 DEF AssignedOK
  <2>2. \A p, q \in Assigned' : p[2] = q[2] => row'[p[1]].key = row'[q[1]].key
    BY <1>1, <1>2, <2>1 DEF AssignedOK
  <2> QED BY <2>1, <2>2 DEF GroupInv, AssignedOK
<1>3. ASSUME UNCHANGED <<group, plan>> PROVE GroupInv'
  <2>1. Assigned' = Assigned
    BY <1>3 DEF Assigned
  <2> QED BY <1>2, <2>1 DEF GroupInv
<1>4. ASSUME NEW w \in Workers, WorkerStep(w) PROVE GroupInv'
  BY <1>3, <1>4 DEF WorkerStep, CheckDedup, CreateFinding, IncrementStats, WriteFile, CreateArtifact,
                    Confirm, Minimize
<1>5. CASE Stop \/ EndRun \/ StartRun \/ UNCHANGED vars
  BY <1>3, <1>5 DEF Stop, EndRun, StartRun, vars
<1>6. CASE Crash
  <2>1. Assigned' \subseteq Assigned
    BY <1>6 DEF Crash, Assigned, Groupers
  <2> QED BY <1>2, <2>1 DEF GroupInv
<1>7. ASSUME NEW fs \in SUBSET Confirmed, NEW p \in GroupPlans(fs), NEW g \in Groupers,
             plan' = [plan EXCEPT ![g] = p], group' = group
      PROVE  GroupInv'
  <2>1. Assigned' \subseteq Assigned \cup p
    BY <1>7 DEF Assigned, Groupers, TypeOK
  <2> QED BY <1>2, <2>1, PlanAgrees
<1>8. CASE ListFinal
  BY <1>3, <1>7, <1>8 DEF ListFinal, Groupers
<1>9. CASE ListPeriodic
  <2>1. {f \in Confirmed : group[f] = None} \in SUBSET Confirmed
    OBVIOUS
  <2> QED BY <1>7, <1>9, <2>1 DEF ListPeriodic, Groupers
<1>10. ASSUME NEW g \in Groupers, AssignGroup(g) PROVE GroupInv'
  <2>1. PICK p \in plan[g] :
          /\ group' = [group EXCEPT ![p[1]] = p[2]] \/ UNCHANGED group
          /\ plan' = [plan EXCEPT ![g] = @ \ {p}]
    BY <1>10 DEF AssignGroup
  <2>2. p \in Assigned /\ p \in Findings \X (1..MaxGroup)
    BY DEF Assigned, Groupers, TypeOK
  <2>3. \A f \in Findings : group'[f] = group[f] \/ <<f, group'[f]>> = p
    BY <2>1, <2>2 DEF TypeOK
  <2>4. plan'["final"] \subseteq plan["final"] /\ plan'["periodic"] \subseteq plan["periodic"]
    BY <2>1 DEF Groupers, TypeOK
  <2>5. Assigned' \subseteq Assigned
    BY <2>2, <2>3, <2>4 DEF Assigned
  <2> QED BY <1>2, <2>5 DEF GroupInv
<1> QED BY <1>4, <1>5, <1>6, <1>8, <1>9, <1>10 DEF Next

\* However the two groupers interleave with each other, with crashes and with new
\* runs, a group never mixes group keys, and only CONFIRMED findings are in one.
THEOREM PipelineGroupsAgree == Spec => []GroupsAgree
<1>1. Init => GroupInv
  BY DEF Init, GroupInv, AssignedOK, Assigned, Groupers
<1>2. ASSUME GroupInv PROVE GroupsAgree
  <2>1. \A f \in Findings : group[f] # None => <<f, group[f]>> \in Assigned
    BY DEF Assigned
  <2>2. \A f \in Findings : group[f] # None => f \in Confirmed
    BY <1>2, <2>1 DEF GroupInv, AssignedOK
  <2>3. ASSUME NEW f \in Rows, NEW g \in Rows, group[f] # None, group[f] = group[g]
        PROVE  row[f].key = row[g].key
    BY <1>2, <2>1, <2>3 DEF GroupInv, AssignedOK, Rows
  <2> QED BY <2>2, <2>3 DEF GroupsAgree
<1> QED BY <1>1, <1>2, NextGroup, PipelineTypeCorrect, PTL DEF Spec
=============================================================================
