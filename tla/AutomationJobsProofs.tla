-------------------------- MODULE AutomationJobsProofs --------------------------
(***************************************************************************)
(* Automation jobs on one database, for any processes, jobs, files and     *)
(* crashes: what the history claims has happened, an export shows what its *)
(* run has stored, dry runs write nothing, and what is stored is counted   *)
(* once.                                                                   *)
(***************************************************************************)
EXTENDS AutomationJobs, MeetingImportProofs

------------------------------------------------------------------------------
(* The inductive invariant *)
IsASeq(s) == \E T : s \in Seq(T)

AutomationTypeOK ==
  /\ job \in [Worker -> Job \cup {NULL}]
  /\ dry_run \in [Worker -> BOOLEAN]
  /\ DOMAIN outcomes = Worker /\ DOMAIN stages = Worker
  /\ \A w \in Worker : IsASeq(outcomes[w]) /\ IsASeq(stages[w])
  /\ graph_store \in [Worker -> GraphStore]
  /\ own \in [Worker -> SUBSET MemoryId]
  /\ graph \in SUBSET MemoryId
  /\ destination \in [StepPlace -> {NULL} \cup SUBSET MemoryId]
  /\ IsASeq(history)

Steps(w) == StepsOf[job[w]]
Writes(w) == job[w] # NULL /\ ~dry_run[w]

\* Where a worker is in its job: a file is under way only in an import step that
\* is no dry run, and once its meeting is registered so is its text.
Positioned(w) ==
  /\ job[w] = NULL => stages[w] = <<>> /\ graph_store[w] = NoGraph
  /\ job[w] # NULL => Len(stages[w]) <= Len(Steps(w))
  /\ ~AtStep(w, "import") => pc[w] = "idle" /\ outcomes[w] = <<>>
  /\ pc[w] \in Busy \cup {"StorageError"} =>
       ~dry_run[w] /\ FilesLeft(w) /\ file[w] = NextFile(w)
  /\ Writing(w) => HashRegistered(HashOf[file[w]])
  /\ own[w] \subseteq Stored

\* The graph of the database holds what the run had stored at its last graph
\* step, and exports read it from there on.
GraphDone(w) == {g \in DOMAIN stages[w] : Steps(w)[g].type = "graph"}
ImportsCovered(w) ==
  \A k \in 1 .. Len(stages[w]) + 1 :
    k <= Len(Steps(w)) /\ Steps(w)[k].type = "import" => \E g \in GraphDone(w) : k < g
GraphFresh(w) ==
  Writes(w) =>
    /\ graph_store[w].where = (IF GraphDone(w) = {} THEN "none" ELSE "database")
    /\ GraphDone(w) # {} /\ ImportsCovered(w) => own[w] \subseteq graph

\* What an outcome, a stage and a recorded run say of the files is true.
OutcomeTrue(f, outcome) ==
  /\ outcome.status \in {"SUCCESS", "SKIPPED", "FAILURE"}
  /\ IF outcome.status = "FAILURE" THEN FileKind[f] # "good" ELSE HashRegistered(HashOf[f])
OutcomesTrue(w) ==
  Writes(w) /\ AtStep(w, "import") =>
    /\ Len(outcomes[w]) <= Len(Current(w).files)
    /\ \A n \in 1 .. Len(outcomes[w]) : OutcomeTrue(Current(w).files[n], outcomes[w][n])
StageTrue(j, i, result) ==
  StepsOf[j][i].type = "import" =>
    /\ result.status \in {"SUCCESS", "PARTIAL", "FAILURE"}
    /\ ImportedAsReported(j, i, result)
StagesTrue(w) ==
  Writes(w) => \A i \in 1 .. Len(stages[w]) : StageTrue(job[w], i, stages[w][i])
RunTrue(r) ==
  /\ r.job \in Job /\ IsASeq(r.stages)
  /\ Len(r.stages) <= Len(StepsOf[r.job])
  /\ r.status # "FAILURE" => Len(r.stages) = Len(StepsOf[r.job])
  /\ ~r.dry_run => \A i \in 1 .. Len(r.stages) : StageTrue(r.job, i, r.stages[i])
  /\ r.status = "SUCCESS" =>
       \A i \in 1 .. Len(r.stages) : r.stages[i].status \notin {"FAILURE", "PARTIAL"}
HistoryTrue == \A n \in 1 .. Len(history) : RunTrue(history[n])

\* The export that is step i of job j has come after all imports of the job, and
\* after a graph step that covers them if it reads a graph.
LastExport(j, i) ==
  /\ StepsOf[j][i].type = "export" /\ UpToDate(j, i)
  /\ {k \in i + 1 .. Len(StepsOf[j]) : StepsOf[j][k].type = "import"} = {}

\* A file that was cut short promises nothing.
Shows(shown, held) == shown = NULL \/ held \subseteq shown
ShownIn(files, w) ==
  Writes(w) =>
    \A i \in 1 .. Len(stages[w]) :
      stages[w][i].status = "SUCCESS" /\ LastExport(job[w], i) => Shows(files[<<job[w], i>>], own[w])

WorkerInv(w) ==
  /\ Positioned(w) /\ GraphFresh(w)
  /\ OutcomesTrue(w) /\ StagesTrue(w)
  /\ ShownIn(destination, w)

AutomationInv ==
  /\ ImportTypeOK /\ BatchFromFile
  /\ AutomationTypeOK
  /\ \A w \in Worker : WorkerInv(w)
  /\ HistoryTrue

------------------------------------------------------------------------------
(* Sequences of results of any kind *)
LEMMA EmptyResults ==
  /\ IsASeq(<<>>) /\ Len(<<>>) = 0 /\ DOMAIN <<>> = {}
<1>1. <<>> \in Seq({})
  OBVIOUS
<1> QED
  BY <1>1 DEF IsASeq

LEMMA ResultsListed ==
  ASSUME NEW s, IsASeq(s)
  PROVE  Len(s) \in Nat /\ DOMAIN s = 1 .. Len(s)
<1>1. PICK T : s \in Seq(T)
  BY DEF IsASeq
<1> QED
  BY <1>1

LEMMA ResultAdded ==
  ASSUME NEW s, IsASeq(s), NEW r
  PROVE  /\ IsASeq(Append(s, r))
         /\ Len(Append(s, r)) = Len(s) + 1
         /\ Append(s, r)[Len(s) + 1] = r
         /\ \A i \in 1 .. Len(s) : Append(s, r)[i] = s[i]
<1>1. PICK T : s \in Seq(T)
  BY DEF IsASeq
<1> DEFINE U == T \cup {r}
<1>2. s \in Seq(U) /\ r \in U
  BY <1>1
<1> HIDE DEF U
<1>3. Append(s, r) \in Seq(U) /\ Len(Append(s, r)) = Len(s) + 1
  BY <1>2
<1>4. Append(s, r)[Len(s) + 1] = r /\ \A i \in 1 .. Len(s) : Append(s, r)[i] = s[i]
  BY <1>2
<1> QED
  BY <1>3, <1>4 DEF IsASeq

------------------------------------------------------------------------------
(* Steps of a job, and what a worker's place in it depends on *)
LEMMA StepTypes ==
  ASSUME NEW j \in Job
  PROVE  /\ StepsOf[j] \in Seq(StepConfig) /\ Len(StepsOf[j]) \in Nat
         /\ \A i \in 1 .. Len(StepsOf[j]) :
              /\ StepsOf[j][i].type \in {"import", "graph", "intelligence", "unknown", "export"}
              /\ StepsOf[j][i].type = "import" =>
                   /\ StepsOf[j][i].files \in Seq(File)
                   /\ Len(StepsOf[j][i].files) \in Nat
                   /\ \A n \in 1 .. Len(StepsOf[j][i].files) : StepsOf[j][i].files[n] \in File
                   /\ ToSet(StepsOf[j][i].files) \subseteq File
              /\ <<j, i>> \in StepPlace
<1>1. StepsOf[j] \in Seq(StepConfig)
  BY JobAssumption
<1>2. DOMAIN StepsOf[j] = 1 .. Len(StepsOf[j]) /\ Len(StepsOf[j]) \in Nat
  BY <1>1
<1>3. ASSUME NEW i \in 1 .. Len(StepsOf[j])
      PROVE  /\ StepsOf[j][i].type \in {"import", "graph", "intelligence", "unknown", "export"}
             /\ StepsOf[j][i].type = "import" =>
                   /\ StepsOf[j][i].files \in Seq(File)
                   /\ Len(StepsOf[j][i].files) \in Nat
                   /\ \A n \in 1 .. Len(StepsOf[j][i].files) : StepsOf[j][i].files[n] \in File
                   /\ ToSet(StepsOf[j][i].files) \subseteq File
  <2>1. StepsOf[j][i] \in StepConfig
    BY <1>1, <1>2
  <2>2. StepsOf[j][i].type = "import" => StepsOf[j][i].files \in Seq(File)
    BY <2>1 DEF StepConfig
  <2>3. ASSUME NEW files \in Seq(File)
        PROVE  /\ Len(files) \in Nat /\ \A n \in 1 .. Len(files) : files[n] \in File
               /\ ToSet(files) \subseteq File
    BY DEF ToSet
  <2> QED
    BY <2>1, <2>2, <2>3 DEF StepConfig
<1>4. \A i \in 1 .. Len(StepsOf[j]) : <<j, i>> \in StepPlace
  BY <1>2 DEF StepPlace
<1> QED
  BY <1>1, <1>2, <1>3, <1>4

\* An import step under way, and the files it takes.
LEMMA ImportFiles ==
  ASSUME AutomationTypeOK, NEW w \in Worker, AtStep(w, "import")
  PROVE  /\ job[w] \in Job /\ Len(stages[w]) \in Nat
         /\ Current(w) = StepsOf[job[w]][Len(stages[w]) + 1]
         /\ Len(stages[w]) + 1 \in 1 .. Len(StepsOf[job[w]])
         /\ Current(w).files \in Seq(File) /\ Len(Current(w).files) \in Nat
         /\ \A n \in 1 .. Len(Current(w).files) : Current(w).files[n] \in File
<1>1. job[w] \in Job /\ Len(stages[w]) \in Nat /\ Len(StepsOf[job[w]]) \in Nat
  BY ResultsListed, StepTypes DEF AutomationTypeOK, AtStep, Running
<1>2. Len(stages[w]) + 1 \in 1 .. Len(StepsOf[job[w]])
  BY <1>1 DEF AtStep, Running
<1> QED
  BY <1>1, <1>2, StepTypes DEF AtStep, Current

LEMMA SamePlace ==
  ASSUME NEW w \in Worker, job'[w] = job[w], stages'[w] = stages[w]
  PROVE  /\ Running(w)' <=> Running(w)
         /\ Current(w)' = Current(w) /\ Steps(w)' = Steps(w)
         /\ \A type : AtStep(w, type)' <=> AtStep(w, type)
         /\ GraphDone(w)' = GraphDone(w)
         /\ ImportsCovered(w)' <=> ImportsCovered(w)
BY DEF Running, Current, Steps, AtStep, GraphDone, ImportsCovered, Failed

\* What committed steps do to the database: nothing is taken back.
Grows ==
  /\ Stored \subseteq Stored'
  /\ \A f \in File : HashRegistered(HashOf[f]) => HashRegistered(HashOf[f])'
  /\ graph \subseteq graph'

LEMMA TruthLasts ==
  ASSUME Grows
  PROVE  /\ \A f \in File : \A o : OutcomeTrue(f, o) => OutcomeTrue(f, o)'
         /\ \A j \in Job : \A i \in 1 .. Len(StepsOf[j]) : \A r :
              StageTrue(j, i, r) => StageTrue(j, i, r)'
         /\ \A r : RunTrue(r) => RunTrue(r)'
<1>1. \A f \in File : \A o : OutcomeTrue(f, o) => OutcomeTrue(f, o)'
  BY DEF OutcomeTrue, Grows
<1>2. ASSUME NEW j \in Job, NEW i \in 1 .. Len(StepsOf[j]), NEW r, StageTrue(j, i, r)
      PROVE  StageTrue(j, i, r)'
  <2>1. StepsOf[j][i].type = "import" => ToSet(StepsOf[j][i].files) \subseteq File
    BY StepTypes
  <2> QED
    BY <1>2, <2>1 DEF StageTrue, ImportedAsReported, Grows
<1>3. ASSUME NEW r, RunTrue(r)
      PROVE  RunTrue(r)'
  <2>1. /\ r.job \in Job /\ Len(r.stages) \in Nat /\ Len(StepsOf[r.job]) \in Nat
        /\ Len(r.stages) <= Len(StepsOf[r.job])
    BY <1>3, ResultsListed, StepTypes DEF RunTrue
  <2>2. ~r.dry_run => \A i \in 1 .. Len(r.stages) : StageTrue(r.job, i, r.stages[i])'
    BY <1>2, <1>3, <2>1 DEF RunTrue
  <2> QED
    BY <1>3, <2>2 DEF RunTrue
<1> QED
  BY <1>1, <1>2, <1>3

Same(w) ==
  /\ job'[w] = job[w] /\ dry_run'[w] = dry_run[w]
  /\ outcomes'[w] = outcomes[w] /\ stages'[w] = stages[w]
  /\ graph_store'[w] = graph_store[w] /\ own'[w] = own[w]
  /\ pc'[w] = pc[w] /\ file'[w] = file[w]

\* What a worker has reported stays true while it is at the same place.
LEMMA ReportsLast ==
  ASSUME AutomationTypeOK, NEW w \in Worker, Positioned(w), StagesTrue(w), Grows,
         job'[w] = job[w], dry_run'[w] = dry_run[w]
  PROVE  /\ stages'[w] = stages[w] => StagesTrue(w)'
         /\ \A j, results : Writes(w) /\ j = job[w] /\ results = stages[w] =>
              \A i \in 1 .. Len(results) : StageTrue(j, i, results[i])'
         /\ stages'[w] = stages[w] /\ outcomes'[w] = outcomes[w] /\ OutcomesTrue(w) => OutcomesTrue(w)'
<1>1. ASSUME Writes(w), NEW j, j = job[w], NEW results, results = stages[w], NEW i \in 1 .. Len(results)
      PROVE  StageTrue(j, i, results[i])'
  <2>1. j \in Job /\ Len(results) \in Nat /\ Len(StepsOf[j]) \in Nat /\ Len(results) <= Len(StepsOf[j])
    BY <1>1, ResultsListed, StepTypes DEF AutomationTypeOK, Writes, Positioned, Steps
  <2>2. i \in 1 .. Len(StepsOf[j]) /\ StageTrue(j, i, results[i])
    BY <1>1, <2>1 DEF StagesTrue
  <2> QED
    BY <2>1, <2>2, TruthLasts
<1>2. stages'[w] = stages[w] => StagesTrue(w)'
  BY <1>1 DEF StagesTrue, Writes
<1>3. ASSUME stages'[w] = stages[w], outcomes'[w] = outcomes[w], OutcomesTrue(w)
      PROVE  OutcomesTrue(w)'
  <2> SUFFICES ASSUME Writes(w), AtStep(w, "import"),
                      NEW files, files = Current(w).files, NEW results, results = outcomes[w]
               PROVE  /\ Len(results) <= Len(files)
                      /\ \A n \in 1 .. Len(results) : OutcomeTrue(files[n], results[n])'
    BY <1>3, SamePlace DEF OutcomesTrue, Writes
  <2>1. Len(results) \in Nat /\ Len(files) \in Nat /\ Len(results) <= Len(files)
    BY <1>3, ResultsListed, ImportFiles DEF AutomationTypeOK, OutcomesTrue
  <2>2. \A n \in 1 .. Len(results) : files[n] \in File /\ OutcomeTrue(files[n], results[n])
    BY <1>3, <2>1, ImportFiles DEF OutcomesTrue
  <2> QED
    BY <2>1, <2>2, TruthLasts
<1> QED
  BY <1>1, <1>2, <1>3

\* A worker that a step does not concern.
LEMMA OthersKept ==
  ASSUME ImportTypeOK, AutomationTypeOK, NEW w \in Worker, WorkerInv(w), Same(w), Grows,
         ShownIn(destination', w)
  PROVE  WorkerInv(w)'
<1> USE DEF Same
<1>1. Positioned(w)'
  <2>1. file[w] \in File
    BY DEF ImportTypeOK
  <2>2. Writing(w)' => HashRegistered(HashOf[file[w]])'
    BY <2>1 DEF WorkerInv, Positioned, Writing, Grows
  <2> QED
    BY <2>2, SamePlace DEF WorkerInv, Positioned, FilesLeft, NextFile, Grows
<1>2. GraphFresh(w)'
  BY SamePlace DEF WorkerInv, GraphFresh, Writes, Grows
<1>3. OutcomesTrue(w)' /\ StagesTrue(w)'
  BY ReportsLast DEF WorkerInv
<1>4. ShownIn(destination, w)'
  <2>1. \A i : LastExport(job[w], i)' <=> LastExport(job[w], i)
    BY DEF LastExport, UpToDate
  <2> QED
    BY <2>1 DEF ShownIn, Writes
<1> QED
  BY <1>1, <1>2, <1>3, <1>4 DEF WorkerInv

\* Before an import step of the job is over, no graph covers the imports, and no
\* export has come after them all.
LEMMA AtImport ==
  ASSUME AutomationTypeOK, NEW w \in Worker, AtStep(w, "import")
  PROVE  /\ ~ImportsCovered(w)
         /\ \A i \in 1 .. Len(stages[w]) : ~LastExport(job[w], i)
<1> DEFINE n == Len(stages[w]) + 1
<1>1. /\ Len(stages[w]) \in Nat /\ DOMAIN stages[w] = 1 .. Len(stages[w])
      /\ job[w] \in Job /\ Len(Steps(w)) \in Nat
  BY ResultsListed, StepTypes DEF AutomationTypeOK, AtStep, Running, Steps
<1>2. n \in 1 .. Len(Steps(w)) /\ Steps(w)[n].type = "import"
  BY <1>1 DEF AtStep, Running, Current, Steps
<1>3. ~ImportsCovered(w)
  <2>1. \A g \in GraphDone(w) : ~(n < g)
    BY <1>1 DEF GraphDone
  <2>2. n \in 1 .. n
    BY <1>1
  <2> QED
    BY <1>1, <1>2, <2>1, <2>2 DEF ImportsCovered
<1>4. ASSUME NEW i \in 1 .. Len(stages[w])
      PROVE  ~LastExport(job[w], i)
  <2>1. n \in i + 1 .. Len(StepsOf[job[w]])
    BY <1>1, <1>2 DEF Steps
  <2> QED
    BY <1>2, <2>1 DEF LastExport, Steps
<1> QED
  BY <1>3, <1>4

\* Within an import step only the outcomes and the file under way matter.
LEMMA ImportGoesOn ==
  ASSUME AutomationTypeOK, NEW w \in Worker, WorkerInv(w), AtStep(w, "import"),
         job'[w] = job[w], dry_run'[w] = dry_run[w], stages'[w] = stages[w],
         graph_store'[w] = graph_store[w], own'[w] \subseteq Stored', Grows,
         pc'[w] \in Busy \cup {"StorageError"} =>
           ~dry_run[w] /\ FilesLeft(w)' /\ file'[w] = NextFile(w)',
         Writing(w)' => HashRegistered(HashOf[file[w]])' /\ file'[w] = file[w],
         OutcomesTrue(w)'
  PROVE  WorkerInv(w)'
<1>1. Positioned(w)'
  BY SamePlace DEF WorkerInv, Positioned, AtStep, Running
<1>2. ~ImportsCovered(w)' /\ \A i \in 1 .. Len(stages[w]) : ~LastExport(job[w], i)
  BY AtImport, SamePlace
<1>3. GraphFresh(w)'
  BY <1>2, SamePlace DEF WorkerInv, GraphFresh, Writes
<1>4. StagesTrue(w)'
  BY ReportsLast DEF WorkerInv
<1>5. ShownIn(destination, w)'
  <2>1. \A i : LastExport(job[w], i)' <=> LastExport(job[w], i)
    BY DEF LastExport, UpToDate
  <2> QED
    BY <1>2, <2>1 DEF ShownIn
<1> QED
  BY <1>1, <1>3, <1>4, <1>5 DEF WorkerInv

LEMMA OutcomeAdded ==
  ASSUME AutomationTypeOK, NEW w \in Worker, OutcomesTrue(w), AtStep(w, "import"), FilesLeft(w),
         job'[w] = job[w], dry_run'[w] = dry_run[w], stages'[w] = stages[w], Grows,
         NEW o, outcomes'[w] = Append(outcomes[w], o),
         NEW f, f = NextFile(w), Writes(w) => OutcomeTrue(f, o)'
  PROVE  OutcomesTrue(w)'
<1> SUFFICES ASSUME NEW files, files = Current(w).files, NEW results, results = outcomes'[w], Writes(w)
             PROVE  /\ Len(results) <= Len(files)
                    /\ \A n \in 1 .. Len(results) : OutcomeTrue(files[n], results[n])'
  BY SamePlace DEF OutcomesTrue, Writes
<1>1. /\ Len(outcomes[w]) \in Nat /\ Len(results) = Len(outcomes[w]) + 1
      /\ results[Len(outcomes[w]) + 1] = o
      /\ \A n \in 1 .. Len(outcomes[w]) : results[n] = outcomes[w][n]
  BY ResultsListed, ResultAdded DEF AutomationTypeOK
<1>2. Len(files) \in Nat /\ \A n \in 1 .. Len(files) : files[n] \in File
  BY ImportFiles
<1>3. ASSUME NEW n \in 1 .. Len(results)
      PROVE  OutcomeTrue(files[n], results[n])'
  <2>1. CASE n \in 1 .. Len(outcomes[w])
    <3>1. n \in 1 .. Len(files) /\ OutcomeTrue(files[n], results[n])
      BY <1>1, <1>2, <2>1 DEF OutcomesTrue
    <3> QED
      BY <1>2, <3>1, TruthLasts
  <2>2. CASE n = Len(outcomes[w]) + 1
    <3>1. files[n] = f /\ results[n] = o
      BY <1>1, <2>2 DEF NextFile
    <3> QED
      BY <3>1
  <2> QED
    BY <1>1, <2>1, <2>2
<1> QED
  BY <1>1, <1>2, <1>3 DEF FilesLeft

\* A worker whose run is over holds nothing.
LEMMA RunOver ==
  ASSUME NEW w \in Worker, job'[w] = NULL, stages'[w] = <<>>, graph_store'[w] = NoGraph,
         own'[w] = {}, outcomes'[w] = <<>>, pc'[w] = "idle"
  PROVE  WorkerInv(w)'
<1>1. ~AtStep(w, "import")' /\ ~Writes(w)' /\ ~Writing(w)'
  BY DEF AtStep, Running, Writes, Writing
<1>2. Positioned(w)'
  BY <1>1 DEF Positioned, Busy
<1> QED
  BY <1>1, <1>2 DEF WorkerInv, GraphFresh, OutcomesTrue, StagesTrue, ShownIn

LEMMA JobBegins ==
  ASSUME AutomationTypeOK, NEW w \in Worker, WorkerInv(w), job[w] = NULL, NEW j \in Job,
         job'[w] = j, stages'[w] = stages[w], graph_store'[w] = graph_store[w],
         own'[w] = own[w], outcomes'[w] = outcomes[w], pc'[w] = pc[w], Grows
  PROVE  WorkerInv(w)'
<1>1. stages[w] = <<>> /\ graph_store[w] = NoGraph /\ outcomes[w] = <<>> /\ pc[w] = "idle"
  BY DEF WorkerInv, Positioned, AtStep, Running
<1>2. Len(StepsOf[j]) \in Nat /\ j # NULL
  BY StepTypes, JobAssumption
<1>3. Positioned(w)'
  BY <1>1, <1>2, EmptyResults DEF WorkerInv, Positioned, Steps, Writing, Busy, Grows
<1>4. GraphDone(w)' = {}
  BY <1>1, EmptyResults DEF GraphDone
<1>5. GraphFresh(w)'
  BY <1>1, <1>4 DEF GraphFresh, NoGraph
<1>6. OutcomesTrue(w)'
  <2>1. ASSUME AtStep(w, "import")'
        PROVE  Len(Current(w)'.files) \in Nat
    <3>1. 1 \in 1 .. Len(StepsOf[j]) /\ Current(w)' = StepsOf[j][1]
      BY <1>1, <1>2, <2>1, EmptyResults DEF AtStep, Running, Current
    <3> QED
      BY <2>1, <3>1, StepTypes DEF AtStep
  <2> QED
    BY <1>1, <2>1, EmptyResults DEF OutcomesTrue
<1>7. StagesTrue(w)' /\ ShownIn(destination, w)'
  BY <1>1, EmptyResults DEF StagesTrue, ShownIn
<1> QED
  BY <1>3, <1>5, <1>6, <1>7 DEF WorkerInv

\* A step of the job is over.
LEMMA StageEnds ==
  ASSUME AutomationTypeOK, AutomationTypeOK', NEW w \in Worker, WorkerInv(w), Running(w), Grows,
         NEW r, NEW n, n = Len(stages[w]) + 1, stages'[w] = Append(stages[w], r),
         job'[w] = job[w], dry_run'[w] = dry_run[w], own'[w] = own[w],
         outcomes'[w] = <<>>, pc'[w] = "idle",
         Writes(w) =>
           /\ StageTrue(job[w], n, r)'
           /\ IF Current(w).type = "graph"
              THEN graph_store'[w].where = "database" /\ Stored \subseteq graph'
              ELSE graph_store'[w] = graph_store[w]
           /\ \A i \in 1 .. Len(stages[w]) : destination'[<<job[w], i>>] = destination[<<job[w], i>>]
           /\ r.status = "SUCCESS" /\ LastExport(job[w], n) => Shows(destination'[<<job[w], n>>], own[w])
  PROVE  WorkerInv(w)'
<1>1. /\ job[w] \in Job /\ job[w] # NULL
      /\ Len(stages[w]) \in Nat /\ DOMAIN stages[w] = 1 .. Len(stages[w])
      /\ Len(stages'[w]) = n /\ DOMAIN stages'[w] = 1 .. n
      /\ stages'[w][n] = r /\ \A i \in 1 .. Len(stages[w]) : stages'[w][i] = stages[w][i]
      /\ Len(Steps(w)) \in Nat /\ Steps(w)' = Steps(w)
  BY ResultsListed, ResultAdded, StepTypes, JobAssumption DEF AutomationTypeOK, Running, Steps
<1>2. Current(w) = Steps(w)[n] /\ n \in 1 .. Len(Steps(w))
  BY <1>1 DEF Running, Current, Steps
<1>3. Positioned(w)'
  <2>1. Len(stages'[w]) <= Len(Steps(w)')
    BY <1>1, <1>2
  <2>2. own'[w] \subseteq Stored'
    BY DEF WorkerInv, Positioned, Grows
  <2> QED
    BY <1>1, <2>1, <2>2 DEF Positioned, Writing, Busy
<1>4. /\ Writes(w)' <=> Writes(w)
      /\ \A i \in 1 .. n : i \in 1 .. Len(stages[w]) \/ i = n
      /\ \A i \in 1 .. Len(stages[w]) : i \in 1 .. n
  BY <1>1 DEF Writes
<1>5. GraphDone(w)' = GraphDone(w) \cup (IF Current(w).type = "graph" THEN {n} ELSE {})
  BY <1>1, <1>2, <1>4 DEF GraphDone
<1>6. GraphFresh(w)'
  <2>1. CASE Current(w).type = "graph"
    BY <1>4, <1>5, <2>1 DEF WorkerInv, Positioned, GraphFresh
  <2>2. CASE Current(w).type # "graph"
    <3>1. GraphDone(w)' = GraphDone(w)
      BY <1>5, <2>2
    <3>2. ImportsCovered(w)' => ImportsCovered(w)
      <4>1. 1 .. Len(stages[w]) + 1 \subseteq 1 .. Len(stages'[w]) + 1
        BY <1>1
      <4> QED
        BY <1>1, <3>1, <4>1 DEF ImportsCovered
    <3> QED
      BY <1>4, <2>2, <3>1, <3>2 DEF WorkerInv, GraphFresh, Grows
  <2> QED
    BY <2>1, <2>2
<1>7. OutcomesTrue(w)'
  <2>1. ASSUME AtStep(w, "import")'
        PROVE  Len(Current(w)'.files) \in Nat
    <3>1. n + 1 \in 1 .. Len(StepsOf[job[w]]) /\ Current(w)' = StepsOf[job[w]][n + 1]
      BY <1>1, <2>1 DEF AtStep, Running, Current
    <3> QED
      BY <1>1, <2>1, <3>1, StepTypes DEF AtStep
  <2> QED
    BY <2>1, EmptyResults DEF OutcomesTrue
<1>8. StagesTrue(w)'
  <2> SUFFICES ASSUME Writes(w), NEW j, j = job[w], NEW results, results = stages'[w],
                      NEW i \in 1 .. n
               PROVE  StageTrue(j, i, results[i])'
    BY <1>1, <1>4 DEF StagesTrue
  <2>1. CASE i = n
    BY <1>1, <2>1
  <2>2. CASE i \in 1 .. Len(stages[w])
    BY <1>1, <2>2, ReportsLast DEF WorkerInv
  <2> QED
    BY <1>4, <2>1, <2>2
<1>9. ShownIn(destination, w)'
  <2> SUFFICES ASSUME Writes(w), NEW i \in 1 .. n, stages'[w][i].status = "SUCCESS", LastExport(job[w], i)
               PROVE  Shows(destination'[<<job[w], i>>], own[w])
    BY <1>1, <1>4 DEF ShownIn, LastExport, UpToDate
  <2>1. CASE i = n
    BY <1>1, <2>1
  <2>2. CASE i \in 1 .. Len(stages[w])
    BY <1>1, <2>2 DEF WorkerInv, ShownIn
  <2> QED
    BY <1>4, <2>1, <2>2
<1> QED
  BY <1>3, <1>6, <1>7, <1>8, <1>9 DEF WorkerInv

------------------------------------------------------------------------------
(* What the results are worth *)

\* A batch reports what its outcomes, one per file, say.
LEMMA BatchReported ==
  ASSUME AutomationTypeOK, NEW w \in Worker, WorkerInv(w), Writes(w),
         AtStep(w, "import"), ~FilesLeft(w),
         NEW r, r.status = ImportStatus(outcomes[w], dry_run[w])
  PROVE  StageTrue(job[w], Len(stages[w]) + 1, r)
<1> DEFINE files == Current(w).files
           failures == {i \in DOMAIN outcomes[w] : outcomes[w][i].status = "FAILURE"}
<1>1. /\ Len(outcomes[w]) \in Nat /\ DOMAIN outcomes[w] = 1 .. Len(outcomes[w])
      /\ Current(w) = StepsOf[job[w]][Len(stages[w]) + 1]
      /\ ~dry_run[w]
  BY ResultsListed DEF AutomationTypeOK, Writes, Current
<1>2. files \in Seq(File) /\ Len(files) = Len(outcomes[w])
  <2>1. files \in Seq(File) /\ Len(files) \in Nat
    BY ImportFiles
  <2>2. Len(outcomes[w]) <= Len(files)
    BY DEF WorkerInv, OutcomesTrue
  <2> QED
    BY <1>1, <2>1, <2>2 DEF FilesLeft
<1>3. /\ DOMAIN files = DOMAIN outcomes[w]
      /\ \A i \in DOMAIN files : OutcomeTrue(files[i], outcomes[w][i])
  <2>1. \A i \in 1 .. Len(outcomes[w]) : OutcomeTrue(files[i], outcomes[w][i])
    BY DEF WorkerInv, OutcomesTrue
  <2>2. DOMAIN files = 1 .. Len(files)
    BY <1>2
  <2> QED
    BY <1>1, <1>2, <2>1, <2>2
<1>4. r.status \in {"SUCCESS", "PARTIAL", "FAILURE"} /\ (r.status = "SUCCESS" => failures = {})
  <2>1. CASE outcomes[w] = <<>>
    BY <2>1, EmptyResults DEF ImportStatus
  <2>2. CASE outcomes[w] # <<>>
    BY <1>1, <2>2 DEF ImportStatus
  <2> QED
    BY <2>1, <2>2
<1>5. ImportedAsReported(job[w], Len(stages[w]) + 1, r)
  <2> SUFFICES ASSUME NEW i \in DOMAIN files,
                      r.status = "SUCCESS" \/ FileKind[files[i]] = "good"
               PROVE  HashRegistered(HashOf[files[i]])
    BY <1>1 DEF ImportedAsReported, ToSet
  <2>1. outcomes[w][i].status # "FAILURE"
    BY <1>3, <1>4 DEF OutcomeTrue
  <2> QED
    BY <1>3, <2>1 DEF OutcomeTrue
<1> QED
  BY <1>4, <1>5 DEF StageTrue

\* What is recorded of a run that has come to its end.
LEMMA RunRecorded ==
  ASSUME AutomationTypeOK, NEW w \in Worker, WorkerInv(w), job[w] # NULL, ~Running(w),
         NEW r, r.job = job[w], r.dry_run = dry_run[w], r.stages = stages[w],
         r.status = JobStatus(stages[w], dry_run[w])
  PROVE  RunTrue(r)
<1>1. /\ job[w] \in Job /\ Len(StepsOf[job[w]]) \in Nat /\ IsASeq(stages[w])
      /\ Len(stages[w]) \in Nat /\ DOMAIN stages[w] = 1 .. Len(stages[w])
      /\ Len(stages[w]) <= Len(StepsOf[job[w]])
  BY ResultsListed, StepTypes DEF AutomationTypeOK, WorkerInv, Positioned, Steps
<1>2. r.status # "FAILURE" => ~Failed(stages[w])
  BY DEF JobStatus
<1>3. r.status = "SUCCESS" => \A i \in 1 .. Len(stages[w]) : stages[w][i].status \notin {"FAILURE", "PARTIAL"}
  BY <1>1 DEF JobStatus, Failed
<1>4. r.status # "FAILURE" => Len(stages[w]) = Len(StepsOf[job[w]])
  BY <1>1, <1>2 DEF Running
<1>5. ~dry_run[w] => \A i \in 1 .. Len(stages[w]) : StageTrue(job[w], i, stages[w][i])
  BY DEF WorkerInv, StagesTrue, Writes
<1> QED
  BY <1>1, <1>3, <1>4, <1>5 DEF RunTrue

------------------------------------------------------------------------------
(* What a step does to the import and to the other workers *)
OthersStay(w) == \A v \in Worker \ {w} : pc'[v] = pc[v] /\ file'[v] = file[v]

LEMMA NothingStored ==
  ASSUME ImportTypeOK, BatchFromFile, NEW w \in Worker,
         UNCHANGED <<vars, to_store, deletion, file>>, crashes' \in Nat,
         pc' = pc \/ pc' = [pc EXCEPT ![w] = "idle"], graph \subseteq graph'
  PROVE  ImportTypeOK' /\ BatchFromFile' /\ Grows /\ OthersStay(w) /\ Stored' = Stored
<1>1. Stored' = Stored /\ \A hash : HashRegistered(hash)' <=> HashRegistered(hash)
  BY DEF vars, Stored, HashRegistered
<1>2. TypeOK'
  BY DEF ImportTypeOK, TypeOK, vars
<1>3. pc' \in [Worker -> Ended \cup Busy] /\ OthersStay(w)
  BY DEF ImportTypeOK, Ended, OthersStay
<1> QED
  BY <1>1, <1>2, <1>3 DEF ImportTypeOK, BatchFromFile, deletion, Grows

LEMMA ImportKeeps ==
  ASSUME ImportTypeOK, BatchFromFile, NEW w \in Worker,
         Step(w) \/ \E f \in File : Begin(w, f), UNCHANGED graph
  PROVE  ImportTypeOK' /\ BatchFromFile' /\ Grows /\ OthersStay(w)
<1>1. ImportTypeOK' /\ BatchFromFile'
  BY TypeStep DEF ImportNext
<1>2. OthersStay(w)
  BY DEF Step, Begin, FindHash, CheckId, CheckHash, InsertMeeting, FilterDuplicates, InsertAll,
     HandleDuplicate, ReadOnly, Goto, OthersStay, ImportTypeOK
<1>3. ASSUME UNCHANGED tables
      PROVE  Grows
  BY <1>3, TablesUnchanged DEF HashRegistered, Grows
<1>4. ASSUME InsertMeeting(w)
      PROVE  Grows
  <2>1. CASE UNCHANGED tables
    BY <1>3, <2>1
  <2>2. CASE /\ IdOf[file[w]] \notin Registered
             /\ meetings' = [meetings EXCEPT ![IdOf[file[w]]] = HashOf[file[w]]]
             /\ UNCHANGED <<memories, evidence, metadata>>
    <3>1. Stored' = Stored
      BY <2>2 DEF Stored
    <3>2. IdOf[file[w]] \in MeetingId /\ meetings \in [MeetingId -> Hash \cup {NULL}]
      BY BatchTypes DEF ImportTypeOK, TypeOK
    <3>3. \A x \in Registered : meetings'[x] = meetings[x]
      BY <2>2, <3>2 DEF Registered
    <3>4. ASSUME NEW f \in File, HashRegistered(HashOf[f])
          PROVE  HashRegistered(HashOf[f])'
      <4>1. PICK x \in MeetingId : meetings[x] = HashOf[f]
        BY <3>4 DEF HashRegistered
      <4>2. x \in Registered
        BY <4>1, FileTypes, NullAssumption DEF Registered
      <4> QED
        BY <3>3, <4>1, <4>2 DEF HashRegistered
    <3> QED
      BY <3>1, <3>4 DEF Grows
  <2> QED
    BY <1>4, <2>1, <2>2 DEF InsertMeeting, SaveMeeting, Answer
<1>5. ASSUME InsertAll(w)
      PROVE  Grows
  <2>1. CASE Insertable(SetToSeq(to_store[w]))
    <3>1. Stored \subseteq Stored' /\ meetings' = meetings
      BY <1>5, <2>1, InsertedAll
    <3> QED
      BY <3>1 DEF Grows, HashRegistered
  <2>2. CASE ~Insertable(SetToSeq(to_store[w]))
    BY <1>3, <1>5, <2>2 DEF InsertAll, SaveMany, Answer
  <2> QED
    BY <2>1, <2>2
<1>6. InsertMeeting(w) \/ InsertAll(w) \/ UNCHANGED tables
  BY DEF Step, Begin, FindHash, CheckId, CheckHash, FilterDuplicates, HandleDuplicate, ReadOnly,
     vars, tables
<1> QED
  BY <1>1, <1>2, <1>3, <1>4, <1>5, <1>6

\* Where the next statement of persist_extraction leads, and what is registered by then.
LEMMA PersistLeads ==
  ASSUME ImportTypeOK, BatchFromFile, NEW w \in Worker, Persist(w)
  PROVE  /\ Step(w) /\ pc[w] \in Busy /\ file' = file
         /\ pc'[w] = "duplicate" => HashRegistered(HashOf[file[w]])
         /\ pc'[w] = "imported" => Writing(w)
         /\ Writing(w)' => Writing(w) \/ HashRegistered(HashOf[file[w]])'
         /\ \/ pc'[w] = "duplicate" /\ AddOutcome(w, "SKIPPED", 0)
            \/ pc'[w] = "imported" /\ \E n : AddOutcome(w, "SUCCESS", n)
            \/ pc'[w] \in Busy \cup {"StorageError"} /\ outcomes' = outcomes
<1>1. /\ Step(w) /\ FileOutcome(w)
      /\ FindHash(w) \/ CheckId(w) \/ CheckHash(w) \/ InsertMeeting(w) \/ FilterDuplicates(w) \/ InsertAll(w)
  BY DEF Persist, Step
<1>2. pc \in [Worker -> Ended \cup Busy]
  BY DEF ImportTypeOK
<1>3. pc[w] \in Busy /\ file' = file
  BY <1>1 DEF FindHash, CheckId, CheckHash, InsertMeeting, FilterDuplicates, InsertAll, At, Busy, ReadOnly
<1>4. /\ pc'[w] \in Busy \cup {"duplicate", "imported", "StorageError"}
      /\ pc'[w] = "duplicate" => HashRegistered(HashOf[file[w]])
      /\ pc'[w] = "imported" => Writing(w)
      /\ pc'[w] = "insert memories" => Writing(w)
  BY <1>1, <1>2 DEF FindHash, CheckId, CheckHash, InsertMeeting, FilterDuplicates, InsertAll,
     At, Goto, Busy, Writing
<1>5. ASSUME pc'[w] = "read existing"
      PROVE  HashRegistered(HashOf[file[w]])'
  <2>1. InsertMeeting(w) /\ reply' = "ok"
    BY <1>1, <1>2, <1>5 DEF FindHash, CheckId, CheckHash, InsertMeeting, FilterDuplicates, InsertAll, Goto
  <2>2. meetings' = [meetings EXCEPT ![IdOf[file[w]]] = HashOf[file[w]]]
    BY <2>1 DEF InsertMeeting, SaveMeeting, Answer
  <2>3. IdOf[file[w]] \in MeetingId /\ meetings \in [MeetingId -> Hash \cup {NULL}]
    BY BatchTypes DEF ImportTypeOK, TypeOK
  <2> QED
    BY <1>3, <2>2, <2>3 DEF HashRegistered
<1>6. \/ pc'[w] = "duplicate" /\ AddOutcome(w, "SKIPPED", 0)
      \/ pc'[w] = "imported" /\ \E n : AddOutcome(w, "SUCCESS", n)
      \/ pc'[w] \in Busy \cup {"StorageError"} /\ outcomes' = outcomes
  BY <1>1, <1>4 DEF FileOutcome
<1>7. Writing(w)' => Writing(w) \/ HashRegistered(HashOf[file[w]])'
  BY <1>4, <1>5 DEF Writing
<1> QED
  BY <1>1, <1>3, <1>4, <1>6, <1>7

------------------------------------------------------------------------------
(* One lemma per action.  A step of a worker leaves the others where they are. *)
Goes(w) ==
  /\ ImportTypeOK' /\ BatchFromFile' /\ AutomationTypeOK'
  /\ Grows
  /\ \A v \in Worker \ {w} : Same(v)
  /\ WorkerInv(w)'

LEMMA StepKeeps ==
  ASSUME AutomationInv, NEW w \in Worker, Goes(w), HistoryTrue',
         \A v \in Worker \ {w} : ShownIn(destination', v)
  PROVE  AutomationInv'
<1>1. ASSUME NEW v \in Worker
      PROVE  WorkerInv(v)'
  <2>1. CASE v = w
    BY <2>1 DEF Goes
  <2>2. CASE v # w
    BY <2>2, OthersKept DEF AutomationInv, Goes
  <2> QED
    BY <2>1, <2>2
<1> QED
  BY <1>1 DEF AutomationInv, Goes

LEMMA QuietStepKeeps ==
  ASSUME AutomationInv, NEW w \in Worker, Goes(w), UNCHANGED <<history, destination>>
  PROVE  AutomationInv'
<1>1. HistoryTrue'
  BY TruthLasts DEF AutomationInv, HistoryTrue, Goes
<1>2. \A v \in Worker : ShownIn(destination', v)
  BY DEF AutomationInv, WorkerInv
<1> QED
  BY <1>1, <1>2, StepKeeps

LEMMA StartJobInv ==
  ASSUME AutomationInv, NEW w \in Worker, NEW j \in Job, NEW dry \in BOOLEAN, StartJob(w, j, dry)
  PROVE  AutomationInv'
<1>0. ImportTypeOK /\ BatchFromFile /\ AutomationTypeOK /\ WorkerInv(w)
  BY DEF AutomationInv
<1>1. UNCHANGED <<vars, to_store, deletion, file, pc, crashes, graph, history, destination,
                  outcomes, stages, graph_store, own>>
  BY DEF StartJob, importVars, import, vars, deletion
<1>2. ImportTypeOK' /\ BatchFromFile' /\ Grows
  <2>1. crashes' \in Nat
    BY <1>0, <1>1 DEF ImportTypeOK
  <2> QED
    BY <1>0, <1>1, <2>1, NothingStored
<1>3. /\ job' = [job EXCEPT ![w] = j] /\ dry_run' = [dry_run EXCEPT ![w] = dry] /\ job[w] = NULL
  BY DEF StartJob
<1>4. AutomationTypeOK' /\ \A v \in Worker \ {w} : Same(v)
  BY <1>0, <1>1, <1>3 DEF AutomationTypeOK, Same
<1>5. WorkerInv(w)'
  <2>1. job'[w] = j
    BY <1>0, <1>3 DEF AutomationTypeOK
  <2> QED
    BY <1>0, <1>1, <1>2, <1>3, <2>1, JobBegins
<1> QED
  BY <1>1, <1>2, <1>4, <1>5, QuietStepKeeps DEF Goes

\* A file that cannot be read, does not parse, or is a preview gives an outcome.
LEMMA OutcomeInv ==
  ASSUME AutomationInv, NEW w \in Worker, AtStep(w, "import"), FilesLeft(w),
         NEW o, outcomes' = [outcomes EXCEPT ![w] = Append(@, o)],
         ~dry_run[w] => OutcomeTrue(NextFile(w), o),
         UNCHANGED <<vars, to_store, deletion, file, crashes, world, job, dry_run, stages, graph_store, own>>,
         pc' = pc \/ pc' = [pc EXCEPT ![w] = "idle"],
         pc'[w] \notin Busy \cup {"StorageError"}
  PROVE  AutomationInv'
<1>0. ImportTypeOK /\ BatchFromFile /\ AutomationTypeOK /\ WorkerInv(w)
  BY DEF AutomationInv
<1>1. UNCHANGED <<graph, history, destination>>
  BY DEF world
<1>2. ImportTypeOK' /\ BatchFromFile' /\ Grows /\ OthersStay(w) /\ Stored' = Stored
  <2>1. crashes' \in Nat
    BY <1>0 DEF ImportTypeOK
  <2> QED
    BY <1>0, <1>1, <2>1, NothingStored
<1>3. outcomes'[w] = Append(outcomes[w], o) /\ IsASeq(outcomes'[w])
  BY <1>0, ResultAdded DEF AutomationTypeOK
<1>4. AutomationTypeOK' /\ \A v \in Worker \ {w} : Same(v)
  BY <1>0, <1>1, <1>2, <1>3 DEF AutomationTypeOK, Same, OthersStay
<1>5. OutcomesTrue(w)'
  <2> SUFFICES ASSUME NEW f, f = NextFile(w)
               PROVE  OutcomesTrue(w)'
    OBVIOUS
  <2>1. f \in File
    <3>1. Len(outcomes[w]) \in Nat /\ Len(Current(w).files) \in Nat
      BY <1>0, ResultsListed, ImportFiles DEF AutomationTypeOK
    <3> QED
      BY <1>0, <3>1, ImportFiles DEF NextFile, FilesLeft
  <2>2. Writes(w) => OutcomeTrue(f, o)'
    BY <1>2, <2>1, TruthLasts DEF Writes
  <2> QED
    BY <1>0, <1>2, <1>3, <2>2, OutcomeAdded DEF WorkerInv
<1>6. own'[w] \subseteq Stored' /\ ~Writing(w)'
  BY <1>0, <1>2 DEF WorkerInv, Positioned, Writing, Busy
<1>7. WorkerInv(w)'
  BY <1>0, <1>1, <1>2, <1>5, <1>6, ImportGoesOn
<1> QED
  BY <1>1, <1>2, <1>4, <1>7, QuietStepKeeps DEF Goes

LEMMA FileRefusedInv ==
  ASSUME AutomationInv, NEW w \in Worker, Unreadable(w) \/ Preview(w) \/ ParseFails(w)
  PROVE  AutomationInv'
<1>0. ImportTypeOK /\ AutomationTypeOK /\ WorkerInv(w)
  BY DEF AutomationInv
<1>1. ASSUME Unreadable(w) \/ Preview(w)
      PROVE  AutomationInv'
  <2>1. /\ AtStep(w, "import") /\ FilesLeft(w) /\ pc[w] \notin Busy \cup {"StorageError"}
        /\ UNCHANGED <<importVars, world, job, dry_run, stages, graph_store, own>>
    BY <1>1 DEF Unreadable, Preview, BetweenFiles, Ended, Busy
  <2>2. \E o : /\ outcomes' = [outcomes EXCEPT ![w] = Append(@, o)]
               /\ ~dry_run[w] => OutcomeTrue(NextFile(w), o)
    BY <1>1 DEF Unreadable, Preview, AddOutcome, OutcomeTrue
  <2>3. UNCHANGED <<vars, to_store, deletion, file, crashes, pc>>
    BY <2>1 DEF importVars, import
  <2> QED
    BY <2>1, <2>2, <2>3, OutcomeInv
<1>2. ASSUME ParseFails(w)
      PROVE  AutomationInv'
  <2>1. /\ AtStep(w, "import") /\ FilesLeft(w) /\ file[w] = NextFile(w) /\ FileKind[file[w]] = "malformed"
        /\ pc' = [pc EXCEPT ![w] = "idle"]
        /\ UNCHANGED <<vars, to_store, deletion, file, crashes, world, job, dry_run, stages, graph_store, own>>
    BY <1>0, <1>2 DEF ParseFails, At, Busy, WorkerInv, Positioned, Goto
  <2>2. pc'[w] = "idle" /\ "idle" \notin Busy \cup {"StorageError"}
    BY <1>0, <2>1 DEF ImportTypeOK, Busy
  <2>3. outcomes' = [outcomes EXCEPT ![w] = Append(@, [status |-> "FAILURE", stored |-> 0])]
    BY <1>2 DEF ParseFails, AddOutcome
  <2>4. OutcomeTrue(NextFile(w), [status |-> "FAILURE", stored |-> 0])
    BY <2>1 DEF OutcomeTrue
  <2> QED
    BY <2>1, <2>2, <2>3, <2>4, OutcomeInv
<1> QED
  BY <1>1, <1>2

LEMMA ReadFileInv ==
  ASSUME AutomationInv, NEW w \in Worker, ReadFile(w)
  PROVE  AutomationInv'
<1>0. ImportTypeOK /\ BatchFromFile /\ AutomationTypeOK /\ WorkerInv(w)
  BY DEF AutomationInv
<1>1. /\ AtStep(w, "import") /\ FilesLeft(w) /\ ~dry_run[w] /\ Begin(w, NextFile(w))
      /\ UNCHANGED <<job, dry_run, outcomes, stages, graph_store, own, graph, history, destination>>
  BY DEF ReadFile, BetweenFiles, context, world
<1>2. NextFile(w) \in File
  <2>1. Len(outcomes[w]) \in Nat /\ Len(Current(w).files) \in Nat
    BY <1>0, <1>1, ResultsListed, ImportFiles DEF AutomationTypeOK
  <2> QED
    BY <1>0, <1>1, <2>1, ImportFiles DEF NextFile, FilesLeft
<1>3. ImportTypeOK' /\ BatchFromFile' /\ Grows /\ OthersStay(w)
  BY <1>0, <1>1, <1>2, ImportKeeps
<1>4. pc'[w] = "find hash" /\ file'[w] = NextFile(w)
  BY <1>0, <1>1 DEF Begin, Goto, ImportTypeOK
<1>5. AutomationTypeOK' /\ \A v \in Worker \ {w} : Same(v)
  BY <1>0, <1>1, <1>3 DEF AutomationTypeOK, Same, OthersStay
<1>6. OutcomesTrue(w)'
  BY <1>0, <1>1, <1>3, ReportsLast DEF WorkerInv
<1>7. FilesLeft(w)' /\ NextFile(w)' = NextFile(w) /\ ~Writing(w)' /\ own'[w] \subseteq Stored'
  BY <1>0, <1>1, <1>3, <1>4, SamePlace DEF FilesLeft, NextFile, Writing, WorkerInv, Positioned, Grows
<1>8. WorkerInv(w)'
  BY <1>0, <1>1, <1>3, <1>4, <1>6, <1>7, ImportGoesOn
<1> QED
  BY <1>1, <1>3, <1>5, <1>8, QuietStepKeeps DEF Goes

LEMMA PersistInv ==
  ASSUME AutomationInv, NEW w \in Worker, Persist(w)
  PROVE  AutomationInv'
<1>0. ImportTypeOK /\ BatchFromFile /\ AutomationTypeOK /\ WorkerInv(w)
  BY DEF AutomationInv
<1>1. /\ AtStep(w, "import") /\ own' = [own EXCEPT ![w] = @ \cup (Stored' \ Stored)]
      /\ UNCHANGED <<job, dry_run, stages, graph_store, graph, history, destination>>
  BY DEF Persist, world
<1>2. /\ Step(w) /\ pc[w] \in Busy /\ file' = file
      /\ pc'[w] = "duplicate" => HashRegistered(HashOf[file[w]])
      /\ pc'[w] = "imported" => Writing(w)
      /\ Writing(w)' => Writing(w) \/ HashRegistered(HashOf[file[w]])'
  BY <1>0, PersistLeads
<1>3. ImportTypeOK' /\ BatchFromFile' /\ Grows /\ OthersStay(w)
  BY <1>0, <1>1, <1>2, ImportKeeps
<1>4. ~dry_run[w] /\ FilesLeft(w) /\ file[w] = NextFile(w) /\ file[w] \in File
  BY <1>0, <1>2 DEF WorkerInv, Positioned, ImportTypeOK
<1>5. \/ pc'[w] \notin Busy \cup {"StorageError"}
         /\ \E o : /\ outcomes' = [outcomes EXCEPT ![w] = Append(@, o)]
                   /\ OutcomeTrue(file[w], o)
      \/ outcomes' = outcomes
  <2>1. pc'[w] \in {"duplicate", "imported"} => HashRegistered(HashOf[file[w]])
    BY <1>0, <1>2 DEF WorkerInv, Positioned
  <2>2. {"duplicate", "imported"} \cap (Busy \cup {"StorageError"}) = {}
    BY DEF Busy
  <2>3. ASSUME NEW status \in {"SKIPPED", "SUCCESS"}, NEW n, pc'[w] \in {"duplicate", "imported"},
               AddOutcome(w, status, n)
        PROVE  /\ pc'[w] \notin Busy \cup {"StorageError"}
               /\ \E o : /\ outcomes' = [outcomes EXCEPT ![w] = Append(@, o)]
                         /\ OutcomeTrue(file[w], o)
    <3> SUFFICES ASSUME NEW o, o = [status |-> status, stored |-> n]
                 PROVE  outcomes' = [outcomes EXCEPT ![w] = Append(@, o)] /\ OutcomeTrue(file[w], o)
      BY <2>2, <2>3
    <3>1. o.status = status
      OBVIOUS
    <3> QED
      BY <2>1, <2>3, <3>1 DEF OutcomeTrue, AddOutcome
  <2>4. CASE /\ pc'[w] = "duplicate"
             /\ AddOutcome(w, "SKIPPED", 0)
    BY <2>3, <2>4
  <2>5. CASE /\ pc'[w] = "imported"
             /\ \E n : AddOutcome(w, "SUCCESS", n)
    <3>1. PICK n : AddOutcome(w, "SUCCESS", n)
      BY <2>5
    <3> QED
      BY <2>3, <2>5, <3>1
  <2>6. CASE outcomes' = outcomes
    BY <2>6
  <2>7. \/ pc'[w] = "duplicate" /\ AddOutcome(w, "SKIPPED", 0)
        \/ pc'[w] = "imported" /\ \E n : AddOutcome(w, "SUCCESS", n)
        \/ outcomes' = outcomes
    BY <1>0, PersistLeads
  <2> QED
    BY <2>4, <2>5, <2>6, <2>7
<1>6. /\ \A v \in Worker \ {w} : outcomes'[v] = outcomes[v]
      /\ IsASeq(outcomes'[w]) /\ DOMAIN outcomes' = Worker
  <2>1. ASSUME NEW o, outcomes' = [outcomes EXCEPT ![w] = Append(@, o)]
        PROVE  outcomes'[w] = Append(outcomes[w], o) /\ IsASeq(Append(outcomes[w], o))
    BY <1>0, <2>1, ResultAdded DEF AutomationTypeOK
  <2>2. CASE outcomes' = outcomes
    BY <1>0, <2>2 DEF AutomationTypeOK
  <2> QED
    BY <1>0, <1>5, <2>1, <2>2 DEF AutomationTypeOK
<1>7. own'[w] \subseteq Stored' /\ own' \in [Worker -> SUBSET MemoryId]
  BY <1>0, <1>1, <1>3 DEF AutomationTypeOK, WorkerInv, Positioned, Grows, Stored
<1>8. AutomationTypeOK' /\ \A v \in Worker \ {w} : Same(v)
  BY <1>0, <1>1, <1>2, <1>3, <1>6, <1>7 DEF AutomationTypeOK, Same, OthersStay
<1>9. OutcomesTrue(w)'
  <2>1. CASE outcomes' = outcomes
    BY <1>0, <1>1, <1>3, <2>1, ReportsLast DEF WorkerInv
  <2>2. ASSUME NEW o, outcomes' = [outcomes EXCEPT ![w] = Append(@, o)], OutcomeTrue(file[w], o)
        PROVE  OutcomesTrue(w)'
    <3> SUFFICES ASSUME NEW f, f = file[w]
                 PROVE  OutcomesTrue(w)'
      OBVIOUS
    <3>1. outcomes'[w] = Append(outcomes[w], o)
      BY <1>0, <2>2 DEF AutomationTypeOK
    <3>2. OutcomeTrue(f, o)'
      BY <1>3, <1>4, <2>2, TruthLasts
    <3> QED
      BY <1>0, <1>1, <1>3, <1>4, <3>1, <3>2, OutcomeAdded DEF WorkerInv
  <2> QED
    BY <1>5, <2>1, <2>2
<1>10. pc'[w] \in Busy \cup {"StorageError"} => FilesLeft(w)' /\ file'[w] = NextFile(w)'
  BY <1>1, <1>2, <1>4, <1>5, SamePlace DEF FilesLeft, NextFile
<1>11. Writing(w)' => HashRegistered(HashOf[file[w]])'
  BY <1>0, <1>2, <1>3, <1>4 DEF WorkerInv, Positioned, Grows
<1>12. WorkerInv(w)'
  BY <1>0, <1>1, <1>2, <1>3, <1>4, <1>7, <1>9, <1>10, <1>11, ImportGoesOn
<1> QED
  BY <1>1, <1>3, <1>8, <1>12, QuietStepKeeps DEF Goes

LEMMA StageInv ==
  ASSUME AutomationInv, NEW w \in Worker, Running(w),
         NEW status, NEW stored, EndStage(w, status, stored),
         NEW r, r = [status |-> status, stored |-> stored],
         NEW n, n = Len(stages[w]) + 1,
         UNCHANGED <<vars, to_store, deletion, file, crashes, job, dry_run, own, history>>,
         pc'[w] = "idle", pc' = pc \/ pc' = [pc EXCEPT ![w] = "idle"],
         outcomes'[w] = <<>>, outcomes' = outcomes \/ outcomes' = [outcomes EXCEPT ![w] = <<>>],
         graph_store' \in [Worker -> GraphStore],
         \A v \in Worker \ {w} : graph_store'[v] = graph_store[v],
         graph' \in SUBSET MemoryId, graph \subseteq graph',
         destination' \in [StepPlace -> {NULL} \cup SUBSET MemoryId],
         \A v \in Worker \ {w} : ShownIn(destination', v),
         Writes(w) =>
           /\ StageTrue(job[w], n, r)
           /\ IF Current(w).type = "graph"
              THEN graph_store'[w].where = "database" /\ Stored \subseteq graph'
              ELSE graph_store'[w] = graph_store[w]
           /\ \A i \in 1 .. Len(stages[w]) : destination'[<<job[w], i>>] = destination[<<job[w], i>>]
           /\ status = "SUCCESS" /\ LastExport(job[w], n) => Shows(destination'[<<job[w], n>>], own[w])
  PROVE  AutomationInv'
<1>0. ImportTypeOK /\ BatchFromFile /\ AutomationTypeOK /\ WorkerInv(w)
  BY DEF AutomationInv
<1>1. ImportTypeOK' /\ BatchFromFile' /\ Grows /\ OthersStay(w)
  <2>1. crashes' \in Nat
    BY <1>0 DEF ImportTypeOK
  <2> QED
    BY <1>0, <2>1, NothingStored
<1>2. /\ stages' = [stages EXCEPT ![w] = Append(@, r)] /\ stages'[w] = Append(stages[w], r)
      /\ IsASeq(stages'[w]) /\ IsASeq(outcomes'[w])
  BY <1>0, ResultAdded, EmptyResults DEF EndStage, AutomationTypeOK
<1>3. AutomationTypeOK' /\ \A v \in Worker \ {w} : Same(v)
  BY <1>0, <1>1, <1>2 DEF AutomationTypeOK, Same, OthersStay
<1>4. ASSUME Writes(w)
      PROVE  StageTrue(job[w], n, r)'
  <2> SUFFICES ASSUME NEW j, j = job[w]
               PROVE  StageTrue(j, n, r)'
    OBVIOUS
  <2>1. j \in Job /\ n \in 1 .. Len(StepsOf[j])
    <3>1. j \in Job /\ Len(stages[w]) \in Nat /\ Len(StepsOf[j]) \in Nat
      BY <1>0, <1>4, ResultsListed, StepTypes DEF AutomationTypeOK, Writes
    <3> QED
      BY <3>1 DEF Running
  <2> QED
    BY <1>1, <1>4, <2>1, TruthLasts
<1>5. WorkerInv(w)'
  <2>1. r.status = status
    OBVIOUS
  <2> QED
    BY <1>0, <1>1, <1>2, <1>3, <1>4, <2>1, StageEnds
<1>6. HistoryTrue'
  BY <1>1, TruthLasts DEF AutomationInv, HistoryTrue
<1> QED
  BY <1>1, <1>3, <1>5, <1>6, StepKeeps DEF Goes

\* Steps that write no file and build no graph.
LEMMA PlainStageInv ==
  ASSUME AutomationInv, NEW w \in Worker, Running(w), Current(w).type # "graph",
         NEW status, NEW stored, EndStage(w, status, stored),
         status # "SUCCESS" \/ Current(w).type # "export",
         NEW r, r = [status |-> status, stored |-> stored],
         NEW n, n = Len(stages[w]) + 1, Writes(w) => StageTrue(job[w], n, r),
         UNCHANGED <<vars, to_store, deletion, file, crashes, job, dry_run, own, history,
                     graph, graph_store, destination>>,
         pc'[w] = "idle", pc' = pc \/ pc' = [pc EXCEPT ![w] = "idle"],
         outcomes'[w] = <<>>, outcomes' = outcomes \/ outcomes' = [outcomes EXCEPT ![w] = <<>>]
  PROVE  AutomationInv'
<1>1. /\ graph_store' \in [Worker -> GraphStore] /\ graph' \in SUBSET MemoryId
      /\ destination' \in [StepPlace -> {NULL} \cup SUBSET MemoryId]
  BY DEF AutomationInv, AutomationTypeOK
<1>2. \A v \in Worker \ {w} : ShownIn(destination', v)
  BY DEF AutomationInv, WorkerInv
<1>3. status = "SUCCESS" => ~LastExport(job[w], n)
  BY DEF LastExport, Current
<1> QED
  BY <1>1, <1>2, <1>3, StageInv

LEMMA FailedTrue ==
  ASSUME NEW j, NEW i, NEW r, r.status = "FAILURE" \/ StepsOf[j][i].type # "import"
  PROVE  StageTrue(j, i, r)
BY DEF StageTrue, ImportedAsReported

LEMMA EndImportInv ==
  ASSUME AutomationInv, NEW w \in Worker, EndImport(w)
  PROVE  AutomationInv'
<1> SUFFICES ASSUME NEW status, status = ImportStatus(outcomes[w], dry_run[w]),
                    NEW stored, stored = StoredBy(outcomes[w]),
                    NEW r, r = [status |-> status, stored |-> stored],
                    NEW n, n = Len(stages[w]) + 1
             PROVE  AutomationInv'
  OBVIOUS
<1>1. /\ AtStep(w, "import") /\ ~FilesLeft(w) /\ EndStage(w, status, stored) /\ ClearStage(w)
      /\ UNCHANGED <<vars, to_store, deletion, file, crashes, job, dry_run, own, history,
                     graph, graph_store, destination>>
  BY DEF EndImport, BetweenFiles, StoresNothing, world
<1>2. Running(w) /\ Current(w).type = "import" /\ r.status = status
  BY <1>1 DEF AtStep
<1>3. Writes(w) => StageTrue(job[w], n, r)
  BY <1>1, <1>2, BatchReported DEF AutomationInv
<1>4. pc'[w] = "idle" /\ outcomes'[w] = <<>>
  BY <1>1 DEF ClearStage, AutomationInv, ImportTypeOK, AutomationTypeOK
<1> QED
  BY <1>1, <1>2, <1>3, <1>4, PlainStageInv DEF ClearStage

LEMMA PersistRaisesInv ==
  ASSUME AutomationInv, NEW w \in Worker, PersistRaises(w)
  PROVE  AutomationInv'
<1> SUFFICES ASSUME NEW r, r = [status |-> "FAILURE", stored |-> 0], NEW n, n = Len(stages[w]) + 1
             PROVE  AutomationInv'
  OBVIOUS
<1>1. /\ AtStep(w, "import") /\ EndStage(w, "FAILURE", 0) /\ ClearStage(w)
      /\ UNCHANGED <<vars, to_store, deletion, file, crashes, job, dry_run, own, history,
                     graph, graph_store, destination>>
  BY DEF PersistRaises, StoresNothing
<1>2. Running(w) /\ Current(w).type = "import" /\ r.status = "FAILURE"
  BY <1>1 DEF AtStep
<1>3. StageTrue(job[w], n, r)
  BY <1>2, FailedTrue
<1>4. pc'[w] = "idle" /\ outcomes'[w] = <<>>
  BY <1>1 DEF ClearStage, AutomationInv, ImportTypeOK, AutomationTypeOK
<1> QED
  BY <1>1, <1>2, <1>3, <1>4, PlainStageInv DEF ClearStage

LEMMA OtherStageInv ==
  ASSUME AutomationInv, NEW w \in Worker, IntelligenceStep(w) \/ UnknownStep(w)
  PROVE  AutomationInv'
<1> SUFFICES ASSUME NEW status, NEW n, n = Len(stages[w]) + 1,
                    status = (IF IntelligenceStep(w) THEN "SUCCESS" ELSE "FAILURE"),
                    NEW r, r = [status |-> status, stored |-> 0]
             PROVE  AutomationInv'
  OBVIOUS
<1>1. /\ Running(w) /\ EndStage(w, status, 0)
      /\ Current(w).type \notin {"graph", "import"}
      /\ status # "SUCCESS" \/ Current(w).type # "export"
      /\ UNCHANGED <<importVars, world, job, dry_run, outcomes, graph_store, own>>
  <2>1. CASE IntelligenceStep(w)
    BY <2>1 DEF IntelligenceStep, AtStep
  <2>2. CASE ~IntelligenceStep(w)
    BY <2>2 DEF UnknownStep, Unhandled
  <2> QED
    BY <2>1, <2>2
<1>2. UNCHANGED <<vars, to_store, deletion, file, pc, crashes, history, graph, destination>>
  BY <1>1 DEF importVars, import, world
<1>3. pc[w] = "idle" /\ outcomes[w] = <<>>
  BY <1>1 DEF AutomationInv, WorkerInv, Positioned, AtStep
<1>4. StageTrue(job[w], n, r)
  BY <1>1, FailedTrue DEF Current
<1> QED
  BY <1>1, <1>2, <1>3, <1>4, PlainStageInv

LEMMA GraphStepInv ==
  ASSUME AutomationInv, NEW w \in Worker, GraphStep(w)
  PROVE  AutomationInv'
<1> SUFFICES ASSUME NEW n, n = Len(stages[w]) + 1, NEW r, r = [status |-> "SUCCESS", stored |-> 0]
             PROVE  AutomationInv'
  OBVIOUS
<1>0. AutomationTypeOK /\ WorkerInv(w)
  BY DEF AutomationInv
<1>1. /\ Running(w) /\ EndStage(w, "SUCCESS", 0) /\ Current(w).type = "graph"
      /\ UNCHANGED <<importVars, job, dry_run, outcomes, own, destination, history>>
  BY DEF GraphStep, AtStep
<1>2. UNCHANGED <<vars, to_store, deletion, file, pc, crashes>>
  BY <1>1 DEF importVars, import
<1>3. pc[w] = "idle" /\ outcomes[w] = <<>>
  BY <1>0, <1>1 DEF WorkerInv, Positioned, AtStep
<1>4. StageTrue(job[w], n, r) /\ ~LastExport(job[w], n)
  BY <1>1, FailedTrue DEF Current, LastExport
<1>5. Stored \in SUBSET MemoryId
  BY DEF Stored
<1>6. \E store \in GraphStore :
        /\ graph_store' = [graph_store EXCEPT ![w] = store]
        /\ ~dry_run[w] => store.where = "database"
  <2>1. /\ [where |-> "memory", holds |-> Stored] \in GraphStore
        /\ [where |-> "database"] \in GraphStore
    BY <1>5 DEF GraphStore
  <2> QED
    BY <2>1 DEF GraphStep
<1>7. /\ graph_store' \in [Worker -> GraphStore]
      /\ \A v \in Worker \ {w} : graph_store'[v] = graph_store[v]
      /\ ~dry_run[w] => graph_store'[w].where = "database"
  BY <1>0, <1>6 DEF AutomationTypeOK
<1>8. /\ graph' \in SUBSET MemoryId /\ graph \subseteq graph'
      /\ ~dry_run[w] => Stored \subseteq graph'
  BY <1>0, <1>5 DEF GraphStep, AutomationTypeOK
<1>9. /\ destination' \in [StepPlace -> {NULL} \cup SUBSET MemoryId]
      /\ \A v \in Worker \ {w} : ShownIn(destination', v)
  BY <1>1 DEF AutomationInv, AutomationTypeOK, WorkerInv
<1>10. Writes(w) =>
         /\ StageTrue(job[w], n, r)
         /\ IF Current(w).type = "graph"
            THEN graph_store'[w].where = "database" /\ Stored \subseteq graph'
            ELSE graph_store'[w] = graph_store[w]
         /\ \A i \in 1 .. Len(stages[w]) : destination'[<<job[w], i>>] = destination[<<job[w], i>>]
         /\ ~LastExport(job[w], n)
  BY <1>1, <1>4, <1>7, <1>8 DEF Writes
<1> QED
  BY <1>1, <1>2, <1>3, <1>7, <1>8, <1>9, <1>10, StageInv


\* What the last export of a job shows: with no graph step before it the memory
\* store as it is now, else the graph of the database, which covers the imports of
\* every run of the job that has come this far.
LEMMA ExportCurrent ==
  ASSUME AutomationInv, NEW w \in Worker, Running(w), Writes(w),
         NEW n, n = Len(stages[w]) + 1, LastExport(job[w], n),
         NEW v \in Worker, Writes(v), job[v] = job[w],
         v = w \/ n \in 1 .. Len(stages[v])
  PROVE  own[v] \subseteq Rendered(w, Current(w).format)
<1> DEFINE before(type) == {k \in 1 .. n - 1 : Steps(w)[k].type = type}
<1>0. AutomationTypeOK /\ WorkerInv(w) /\ WorkerInv(v)
  BY DEF AutomationInv
<1>1. /\ Len(stages[w]) \in Nat /\ DOMAIN stages[w] = 1 .. Len(stages[w])
      /\ Len(stages[v]) \in Nat /\ DOMAIN stages[v] = 1 .. Len(stages[v])
      /\ Len(Steps(w)) \in Nat /\ n \in 1 .. Len(Steps(w))
  BY <1>0, ResultsListed, StepTypes DEF AutomationTypeOK, Writes, Running, Steps
<1>2. Current(w) = Steps(w)[n] /\ Steps(v) = Steps(w) /\ Steps(w)[n].type = "export"
  BY DEF Current, Steps, LastExport
<1>3. CASE Current(w).format = "csv" \/ graph_store[w] = NoGraph
  BY <1>0, <1>3 DEF Rendered, WorkerInv, Positioned
<1>4. CASE Current(w).format # "csv" /\ graph_store[w] # NoGraph
  <2>1. graph_store[w].where # "none"
    BY <1>0, <1>4 DEF AutomationTypeOK, GraphStore, NoGraph
  <2>2. graph_store[w].where = "database" /\ GraphDone(w) # {}
    BY <1>0, <2>1 DEF WorkerInv, GraphFresh
  <2>3. GraphDone(w) = before("graph")
    BY <1>1 DEF GraphDone
  <2>4. \A k \in before("import") : \E g \in before("graph") : k < g
    BY <1>2, <1>4, <2>2, <2>3 DEF LastExport, UpToDate, Steps
  <2>5. before("graph") \subseteq GraphDone(v)
    BY <1>1, <1>2 DEF GraphDone
  <2>6. ImportsCovered(v)
    <3> SUFFICES ASSUME NEW k \in 1 .. Len(stages[v]) + 1, k <= Len(Steps(w)),
                        Steps(w)[k].type = "import"
                 PROVE  k \in before("import")
      BY <1>2, <2>4, <2>5 DEF ImportsCovered
    <3>1. k \notin n + 1 .. Len(Steps(w)) /\ k # n
      BY <1>2 DEF LastExport, Steps
    <3> QED
      BY <1>1, <3>1
  <2>7. own[v] \subseteq graph
    BY <1>0, <2>2, <2>3, <2>5, <2>6 DEF WorkerInv, GraphFresh
  <2> QED
    BY <1>4, <2>2, <2>7 DEF Rendered
<1> QED
  BY <1>3, <1>4

LEMMA ExportStepInv ==
  ASSUME AutomationInv, NEW w \in Worker, ExportStep(w)
  PROVE  AutomationInv'
<1> SUFFICES ASSUME NEW n, n = Len(stages[w]) + 1,
                    NEW status, status = (IF dry_run[w] THEN "DRY_RUN" ELSE "SUCCESS"),
                    NEW r, r = [status |-> status, stored |-> 0],
                    NEW shown, shown = Rendered(w, Current(w).format)
             PROVE  AutomationInv'
  OBVIOUS
<1>0. AutomationTypeOK /\ \A v \in Worker : WorkerInv(v)
  BY DEF AutomationInv
<1>1. /\ Running(w) /\ EndStage(w, status, 0) /\ Current(w).type = "export"
      /\ UNCHANGED <<importVars, job, dry_run, outcomes, graph_store, own, graph, history>>
      /\ IF dry_run[w] THEN destination' = destination
         ELSE destination' = [destination EXCEPT ![<<job[w], n>>] = shown]
  BY DEF ExportStep, Exporting, ExportPlace, AtStep
<1>2. UNCHANGED <<vars, to_store, deletion, file, pc, crashes>>
  BY <1>1 DEF importVars, import
<1>3. pc[w] = "idle" /\ outcomes[w] = <<>>
  BY <1>0, <1>1 DEF WorkerInv, Positioned, AtStep
<1>4. StageTrue(job[w], n, r)
  BY <1>1, FailedTrue DEF Current
<1>5. /\ job[w] \in Job /\ job[w] # NULL
      /\ Len(stages[w]) \in Nat /\ <<job[w], n>> \in StepPlace
  <2>1. job[w] \in Job /\ job[w] # NULL /\ Len(stages[w]) \in Nat /\ Len(StepsOf[job[w]]) \in Nat
    BY <1>0, <1>1, ResultsListed, StepTypes DEF AutomationTypeOK, Running
  <2>2. n \in 1 .. Len(StepsOf[job[w]])
    BY <1>1, <2>1 DEF Running
  <2> QED
    BY <2>1, <2>2, StepTypes
<1>6. shown \in SUBSET MemoryId
  <2>1. Stored \in SUBSET MemoryId
    BY DEF Stored
  <2>2. graph_store[w] \in GraphStore /\ graph \in SUBSET MemoryId
    BY <1>0 DEF AutomationTypeOK
  <2>3. graph_store[w] # NoGraph /\ graph_store[w].where # "database" =>
          graph_store[w].holds \in SUBSET MemoryId
    BY <2>2 DEF GraphStore, NoGraph
  <2> QED
    BY <2>1, <2>2, <2>3 DEF Rendered
<1>7. destination' \in [StepPlace -> {NULL} \cup SUBSET MemoryId]
  BY <1>0, <1>1, <1>5, <1>6 DEF AutomationTypeOK
<1>8. \A place \in StepPlace :
        destination'[place] = IF ~dry_run[w] /\ place = <<job[w], n>> THEN shown ELSE destination[place]
  BY <1>0, <1>1, <1>5 DEF AutomationTypeOK
<1>9. ASSUME NEW v \in Worker, v # w
      PROVE  ShownIn(destination', v)
  <2> SUFFICES ASSUME Writes(v), NEW i \in 1 .. Len(stages[v]),
                      stages[v][i].status = "SUCCESS", LastExport(job[v], i)
               PROVE  Shows(destination'[<<job[v], i>>], own[v])
    BY DEF ShownIn
  <2>1. Shows(destination[<<job[v], i>>], own[v])
    BY <1>0 DEF WorkerInv, ShownIn
  <2>2. <<job[v], i>> \in StepPlace
    <3>1. /\ job[v] \in Job /\ Len(stages[v]) \in Nat /\ Len(StepsOf[job[v]]) \in Nat
          /\ Len(stages[v]) <= Len(StepsOf[job[v]])
      BY <1>0, ResultsListed, StepTypes DEF AutomationTypeOK, Writes, WorkerInv, Positioned, Steps
    <3>2. i \in 1 .. Len(StepsOf[job[v]])
      BY <3>1
    <3> QED
      BY <3>1, <3>2, StepTypes
  <2>3. CASE ~dry_run[w] /\ <<job[v], i>> = <<job[w], n>>
    <3>1. job[v] = job[w] /\ i = n
      BY <2>3
    <3>2. own[v] \subseteq shown
      BY <1>1, <1>5, <2>3, <3>1, ExportCurrent DEF Writes
    <3> QED
      BY <1>8, <2>2, <2>3, <3>2 DEF Shows
  <2>4. CASE dry_run[w] \/ <<job[v], i>> # <<job[w], n>>
    BY <1>8, <2>1, <2>2, <2>4
  <2> QED
    BY <2>3, <2>4
<1>10. ASSUME Writes(w)
       PROVE  /\ \A i \in 1 .. Len(stages[w]) : destination'[<<job[w], i>>] = destination[<<job[w], i>>]
              /\ LastExport(job[w], n) => Shows(destination'[<<job[w], n>>], own[w])
  <2>1. ~dry_run[w]
    BY <1>10 DEF Writes
  <2>2. LastExport(job[w], n) => own[w] \subseteq shown
    BY <1>1, <1>10, ExportCurrent
  <2>3. ASSUME NEW i \in 1 .. Len(stages[w])
        PROVE  destination'[<<job[w], i>>] = destination[<<job[w], i>>]
    <3>1. i # n
      BY <1>5
    <3>2. <<job[w], i>> # <<job[w], n>>
      BY <3>1
    <3>3. i \in 1 .. Len(StepsOf[job[w]])
      BY <1>1, <1>5, StepTypes DEF Running
    <3> QED
      BY <1>5, <1>8, <3>2, <3>3, StepTypes
  <2>4. destination'[<<job[w], n>>] = shown
    BY <1>5, <1>8, <2>1
  <2> QED
    BY <2>2, <2>3, <2>4 DEF Shows
<1>11. Writes(w) =>
         /\ StageTrue(job[w], n, r)
         /\ Current(w).type # "graph" /\ graph_store'[w] = graph_store[w]
         /\ \A i \in 1 .. Len(stages[w]) : destination'[<<job[w], i>>] = destination[<<job[w], i>>]
         /\ status = "SUCCESS" /\ LastExport(job[w], n) => Shows(destination'[<<job[w], n>>], own[w])
  BY <1>1, <1>4, <1>10
<1>12. graph_store' \in [Worker -> GraphStore] /\ graph' \in SUBSET MemoryId
  BY <1>0, <1>1 DEF AutomationTypeOK
<1> QED
  BY <1>1, <1>2, <1>3, <1>7, <1>9, <1>11, <1>12, StageInv


\* A run that is over, or dies, leaves its worker where it was before.
LEMMA ResetInv ==
  ASSUME AutomationInv, NEW w \in Worker, Reset(w), StoresNothing,
         UNCHANGED <<file, dry_run, graph>>, crashes' \in Nat,
         destination' \in [StepPlace -> {NULL} \cup SUBSET MemoryId],
         \A v \in Worker \ {w} : ShownIn(destination', v),
         Grows => HistoryTrue', IsASeq(history')
  PROVE  AutomationInv'
<1>0. ImportTypeOK /\ BatchFromFile /\ AutomationTypeOK /\ \A v \in Worker : WorkerInv(v)
  BY DEF AutomationInv
<1>1. /\ UNCHANGED <<vars, to_store, deletion, file, graph>>
      /\ pc' = [pc EXCEPT ![w] = "idle"] /\ outcomes' = [outcomes EXCEPT ![w] = <<>>]
      /\ job' = [job EXCEPT ![w] = NULL] /\ stages' = [stages EXCEPT ![w] = <<>>]
      /\ graph_store' = [graph_store EXCEPT ![w] = NoGraph] /\ own' = [own EXCEPT ![w] = {}]
  BY DEF Reset, ClearStage, StoresNothing
<1>2. ImportTypeOK' /\ BatchFromFile' /\ Grows /\ OthersStay(w)
  BY <1>0, <1>1, NothingStored
<1>3. /\ job'[w] = NULL /\ stages'[w] = <<>> /\ outcomes'[w] = <<>>
      /\ graph_store'[w] = NoGraph /\ own'[w] = {} /\ pc'[w] = "idle"
  BY <1>0, <1>1 DEF AutomationTypeOK, ImportTypeOK
<1>4. \A v \in Worker \ {w} : Same(v)
  BY <1>0, <1>1, <1>2 DEF AutomationTypeOK, Same, OthersStay
<1>5. AutomationTypeOK'
  <2>1. graph_store' \in [Worker -> GraphStore]
    <3>1. NoGraph \in GraphStore
      BY DEF GraphStore, NoGraph
    <3> QED
      BY <1>0, <1>1, <3>1 DEF AutomationTypeOK
  <2>2. \A v \in Worker : IsASeq(outcomes'[v]) /\ IsASeq(stages'[v])
    BY <1>0, <1>3, <1>4, EmptyResults DEF AutomationTypeOK, Same
  <2> QED
    BY <1>0, <1>1, <2>1, <2>2 DEF AutomationTypeOK
<1>6. WorkerInv(w)'
  BY <1>3, RunOver
<1> QED
  BY <1>2, <1>4, <1>5, <1>6, StepKeeps DEF Goes

\* A file that stays, or is cut short, still shows what it has to.
LEMMA FilesKept ==
  ASSUME AutomationInv, NEW w \in Worker, destination' = destination \/ CutShort(w)
  PROVE  /\ destination' \in [StepPlace -> {NULL} \cup SUBSET MemoryId]
         /\ \A v \in Worker : ShownIn(destination', v)
<1>1. AutomationTypeOK /\ \A v \in Worker : WorkerInv(v)
  BY DEF AutomationInv
<1>2. PICK place : destination' \in {destination, [destination EXCEPT ![place] = NULL]}
  BY DEF CutShort
<1>3. /\ destination' \in [StepPlace -> {NULL} \cup SUBSET MemoryId]
      /\ \A p \in StepPlace : destination'[p] = destination[p] \/ destination'[p] = NULL
  <2>1. destination \in [StepPlace -> {NULL} \cup SUBSET MemoryId]
    BY <1>1 DEF AutomationTypeOK
  <2>2. CASE destination' = destination
    BY <2>1, <2>2
  <2>3. CASE destination' = [destination EXCEPT ![place] = NULL]
    BY <2>1, <2>3
  <2> QED
    BY <1>2, <2>2, <2>3
<1>4. ASSUME NEW v \in Worker, Writes(v), NEW i \in 1 .. Len(stages[v])
      PROVE  <<job[v], i>> \in StepPlace
  <2>1. /\ job[v] \in Job /\ Len(stages[v]) \in Nat /\ Len(StepsOf[job[v]]) \in Nat
        /\ Len(stages[v]) <= Len(StepsOf[job[v]])
    BY <1>1, <1>4, ResultsListed, StepTypes DEF AutomationTypeOK, Writes, WorkerInv, Positioned, Steps
  <2>2. i \in 1 .. Len(StepsOf[job[v]])
    BY <2>1
  <2> QED
    BY <2>1, <2>2, StepTypes
<1>5. ASSUME NEW v \in Worker
      PROVE  ShownIn(destination', v)
  <2> SUFFICES ASSUME Writes(v), NEW i \in 1 .. Len(stages[v]),
                      stages[v][i].status = "SUCCESS", LastExport(job[v], i)
               PROVE  Shows(destination'[<<job[v], i>>], own[v])
    BY DEF ShownIn
  <2>1. Shows(destination[<<job[v], i>>], own[v])
    BY <1>1 DEF WorkerInv, ShownIn
  <2>2. <<job[v], i>> \in StepPlace
    BY <1>4
  <2> QED
    BY <1>3, <2>1, <2>2 DEF Shows
<1> QED
  BY <1>3, <1>5

\* Undecodable, WriteFails and JobCrash record nothing.
LEMMA NothingRecordedInv ==
  ASSUME AutomationInv, NEW w \in Worker, Undecodable(w) \/ WriteFails(w) \/ JobCrash(w)
  PROVE  AutomationInv'
<1>1. /\ Reset(w) /\ StoresNothing /\ UNCHANGED <<file, dry_run, graph, history>>
      /\ crashes' = crashes \/ crashes' = crashes + 1
      /\ destination' = destination \/ CutShort(w)
  BY DEF Undecodable, WriteFails, JobCrash
<1>2. crashes' \in Nat /\ IsASeq(history')
  BY <1>1 DEF AutomationInv, ImportTypeOK, AutomationTypeOK
<1>3. Grows => HistoryTrue'
  BY <1>1, TruthLasts DEF AutomationInv, HistoryTrue
<1>4. /\ destination' \in [StepPlace -> {NULL} \cup SUBSET MemoryId]
      /\ \A v \in Worker : ShownIn(destination', v)
  BY <1>1, FilesKept
<1> QED
  BY <1>1, <1>2, <1>3, <1>4, ResetInv

LEMMA FinishJobInv ==
  ASSUME AutomationInv, NEW w \in Worker, FinishJob(w)
  PROVE  AutomationInv'
<1> SUFFICES ASSUME NEW r, r = [job |-> job[w], dry_run |-> dry_run[w],
                                status |-> JobStatus(stages[w], dry_run[w]), stages |-> stages[w]]
             PROVE  AutomationInv'
  OBVIOUS
<1>1. /\ job[w] # NULL /\ ~Running(w) /\ history' = Append(history, r)
      /\ Reset(w) /\ StoresNothing /\ UNCHANGED <<file, dry_run, graph, destination>>
      /\ crashes' \in Nat
  BY DEF FinishJob, AutomationInv, ImportTypeOK
<1>2. AutomationTypeOK /\ WorkerInv(w) /\ HistoryTrue
  BY DEF AutomationInv
<1>3. RunTrue(r)
  <2>1. r.job = job[w] /\ r.dry_run = dry_run[w] /\ r.stages = stages[w]
        /\ r.status = JobStatus(stages[w], dry_run[w])
    OBVIOUS
  <2> QED
    BY <1>1, <1>2, <2>1, RunRecorded
<1>4. /\ IsASeq(history') /\ Len(history) \in Nat /\ Len(history') = Len(history) + 1
      /\ history'[Len(history) + 1] = r
      /\ \A n \in 1 .. Len(history) : history'[n] = history[n]
  BY <1>1, <1>2, ResultAdded, ResultsListed DEF AutomationTypeOK
<1>5. ASSUME Grows
      PROVE  HistoryTrue'
  <2> SUFFICES ASSUME NEW n \in 1 .. Len(history'), NEW recorded, recorded = history'[n]
               PROVE  RunTrue(recorded)'
    BY DEF HistoryTrue
  <2>1. RunTrue(recorded)
    <3>1. n \in 1 .. Len(history) \/ n = Len(history) + 1
      BY <1>4
    <3> QED
      BY <1>2, <1>3, <1>4, <3>1 DEF HistoryTrue
  <2> QED
    BY <1>5, <2>1, TruthLasts
<1> QED
  BY <1>1, <1>4, <1>5, FilesKept, ResetInv

------------------------------------------------------------------------------
(* The invariant of the specification *)
LEMMA AutomationInitInv == AutomationInit => AutomationInv
<1> SUFFICES ASSUME AutomationInit
             PROVE  AutomationInv
  OBVIOUS
<1>1. ImportTypeOK /\ BatchFromFile
  BY ImportInitInv DEF AutomationInit, ImportInv
<1>2. AutomationTypeOK
  BY EmptyResults DEF AutomationInit, AutomationTypeOK, GraphStore, NoGraph
<1>3. ASSUME NEW w \in Worker
      PROVE  WorkerInv(w)
  <2>1. /\ job[w] = NULL /\ stages[w] = <<>> /\ graph_store[w] = NoGraph
        /\ own[w] = {} /\ outcomes[w] = <<>> /\ pc[w] = "idle"
    BY DEF AutomationInit, ImportInit
  <2>2. ~AtStep(w, "import") /\ ~Writes(w) /\ ~Writing(w)
    BY <2>1 DEF AtStep, Running, Writes, Writing
  <2>3. Positioned(w)
    BY <2>1, <2>2 DEF Positioned, Busy
  <2> QED
    BY <2>2, <2>3 DEF WorkerInv, GraphFresh, OutcomesTrue, StagesTrue, ShownIn
<1>4. HistoryTrue
  BY EmptyResults DEF AutomationInit, HistoryTrue
<1> QED
  BY <1>1, <1>2, <1>3, <1>4 DEF AutomationInv

LEMMA AutomationStutter ==
  ASSUME AutomationInv, UNCHANGED jobVars
  PROVE  AutomationInv'
<1>0. /\ ImportTypeOK /\ BatchFromFile /\ AutomationTypeOK /\ HistoryTrue
      /\ \A w \in Worker : WorkerInv(w)
  BY DEF AutomationInv
<1>1. /\ UNCHANGED <<vars, to_store, deletion, file, pc, crashes, graph, destination, history,
                     job, dry_run, outcomes, stages, graph_store, own>>
  BY DEF jobVars, importVars, import, context, world
<1>2. Grows /\ AutomationTypeOK'
  BY <1>0, <1>1 DEF Grows, vars, Stored, HashRegistered, AutomationTypeOK
<1>3. ImportTypeOK' /\ BatchFromFile'
  BY <1>0, <1>1 DEF ImportTypeOK, TypeOK, vars, deletion, BatchFromFile
<1>4. HistoryTrue'
  BY <1>0, <1>1, <1>2, TruthLasts DEF HistoryTrue
<1>5. ASSUME NEW w \in Worker
      PROVE  WorkerInv(w)'
  <2>1. Same(w) /\ ShownIn(destination', w)
    BY <1>0, <1>1 DEF Same, WorkerInv
  <2> QED
    BY <1>0, <1>2, <2>1, OthersKept
<1> QED
  BY <1>2, <1>3, <1>4, <1>5 DEF AutomationInv

LEMMA AutomationNextInv == AutomationInv /\ [AutomationNext]_jobVars => AutomationInv'
<1> SUFFICES ASSUME AutomationInv, [AutomationNext]_jobVars
             PROVE  AutomationInv'
  OBVIOUS
<1>1. ASSUME NEW w \in Worker, Proceed(w)
      PROVE  AutomationInv'
  <2>1. CASE Unreadable(w) \/ Preview(w) \/ ParseFails(w)
    BY <2>1, FileRefusedInv
  <2>2. CASE ReadFile(w)
    BY <2>2, ReadFileInv
  <2>3. CASE Persist(w)
    BY <2>3, PersistInv
  <2>4. CASE PersistRaises(w)
    BY <2>4, PersistRaisesInv
  <2>5. CASE EndImport(w)
    BY <2>5, EndImportInv
  <2>6. CASE GraphStep(w)
    BY <2>6, GraphStepInv
  <2>7. CASE IntelligenceStep(w) \/ UnknownStep(w)
    BY <2>7, OtherStageInv
  <2>8. CASE ExportStep(w)
    BY <2>8, ExportStepInv
  <2>9. CASE Undecodable(w) \/ WriteFails(w)
    BY <2>9, NothingRecordedInv
  <2>10. CASE FinishJob(w)
    BY <2>10, FinishJobInv
  <2> QED
    BY <1>1, <2>1, <2>2, <2>3, <2>4, <2>5, <2>6, <2>7, <2>8, <2>9, <2>10 DEF Proceed
<1>2. ASSUME NEW w \in Worker, NEW j \in Job, NEW dry \in BOOLEAN, StartJob(w, j, dry)
      PROVE  AutomationInv'
  BY <1>2, StartJobInv
<1>3. ASSUME NEW w \in Worker, JobCrash(w)
      PROVE  AutomationInv'
  BY <1>3, NothingRecordedInv
<1> QED
  BY <1>1, <1>2, <1>3, AutomationStutter DEF AutomationNext

LEMMA AutomationInvariant == AutomationSpec => []AutomationInv
<1> QED
  BY AutomationInitInv, AutomationNextInv, PTL DEF AutomationSpec

------------------------------------------------------------------------------
(* The theorems *)

\* Whatever runs concurrently and wherever a process dies: a recorded run that did
\* not fail went through all of its steps, the files of its import stages are in the
\* store as its stages claim, and a success left none out.
THEOREM HistoryHolds == AutomationSpec => []HistoryTruthful
<1>1. AutomationInv => HistoryTruthful
  <2> SUFFICES ASSUME AutomationInv, NEW n \in DOMAIN history,
                      NEW r, r = history[n], NEW steps, steps = StepsOf[r.job]
               PROVE  /\ r.status # "FAILURE" => Len(r.stages) = Len(steps)
                      /\ ~r.dry_run =>
                           \A i \in DOMAIN r.stages : steps[i].type = "import" =>
                             /\ ImportedAsReported(r.job, i, r.stages[i])
                             /\ r.status = "SUCCESS" =>
                                  \A f \in ToSet(steps[i].files) : HashRegistered(HashOf[f])
    BY DEF HistoryTruthful
  <2>1. RunTrue(r)
    <3>1. HistoryTrue /\ DOMAIN history = 1 .. Len(history)
      BY ResultsListed DEF AutomationInv, AutomationTypeOK
    <3> QED
      BY <3>1 DEF HistoryTrue
  <2>2. DOMAIN r.stages = 1 .. Len(r.stages)
    BY <2>1, ResultsListed DEF RunTrue
  <2>3. ASSUME ~r.dry_run, NEW i \in DOMAIN r.stages, steps[i].type = "import"
        PROVE  /\ ImportedAsReported(r.job, i, r.stages[i])
               /\ r.status = "SUCCESS" => r.stages[i].status = "SUCCESS"
    BY <2>1, <2>2, <2>3 DEF RunTrue, StageTrue
  <2>4. ASSUME NEW i, NEW f \in ToSet(steps[i].files), ImportedAsReported(r.job, i, r.stages[i]),
               r.stages[i].status = "SUCCESS"
        PROVE  HashRegistered(HashOf[f])
    BY <2>4 DEF ImportedAsReported
  <2> QED
    BY <2>1, <2>3, <2>4 DEF RunTrue
<1> QED
  BY <1>1, AutomationInvariant, PTL

\* The last export of a run shows every memory the run has stored, also when other
\* runs of the same or other jobs write to the database and to the same file.
THEOREM ExportsCover == AutomationSpec => []ExportCoversImport
<1>1. AutomationInv => ExportCoversImport
  <2> SUFFICES ASSUME AutomationInv, NEW w \in Worker, job[w] # NULL, ~dry_run[w],
                      NEW i \in DOMAIN stages[w], StepsOf[job[w]][i].type = "export",
                      stages[w][i].status = "SUCCESS", UpToDate(job[w], i),
                      {k \in i + 1 .. Len(StepsOf[job[w]]) : StepsOf[job[w]][k].type = "import"} = {}
               PROVE  Shows(destination[<<job[w], i>>], own[w])
    BY DEF ExportCoversImport, Shows
  <2>1. DOMAIN stages[w] = 1 .. Len(stages[w]) /\ ShownIn(destination, w)
    BY ResultsListed DEF AutomationInv, AutomationTypeOK, WorkerInv
  <2>2. Writes(w) /\ LastExport(job[w], i)
    BY DEF Writes, LastExport
  <2> QED
    BY <2>1, <2>2 DEF ShownIn
<1> QED
  BY <1>1, AutomationInvariant, PTL

\* While only dry runs are under way no step writes to a table or to a file.
THEOREM DryRunsHarmless == AutomationSpec => DryRunWritesNothing
<1>1. AutomationInv /\ [AutomationNext]_jobVars =>
        [(\A w \in Worker : job[w] # NULL => dry_run[w]) =>
           UNCHANGED <<tables, graph, destination>>]_jobVars
  <2> SUFFICES ASSUME AutomationInv, AutomationNext, \A w \in Worker : job[w] # NULL => dry_run[w]
               PROVE  UNCHANGED <<tables, graph, destination>>
    OBVIOUS
  <2>1. ASSUME NEW w \in Worker, Proceed(w)
        PROVE  UNCHANGED <<tables, graph, destination>>
    <3>1. job[w] # NULL /\ dry_run[w]
      BY <2>1 DEF Proceed, Unreadable, Undecodable, Preview, ReadFile, ParseFails, Persist,
         PersistRaises, EndImport, GraphStep, IntelligenceStep, ExportStep, WriteFails, UnknownStep,
         FinishJob, BetweenFiles, Exporting, AtStep, Running
    <3>2. ~ReadFile(w) /\ ~WriteFails(w)
      BY <3>1 DEF ReadFile, WriteFails
    <3>3. ~Persist(w)
      BY <3>1, PersistLeads DEF AutomationInv, WorkerInv, Positioned
    <3>4. GraphStep(w) \/ ExportStep(w) => UNCHANGED <<tables, graph, destination>>
      BY <3>1 DEF GraphStep, ExportStep, importVars, vars, tables
    <3>5. Unreadable(w) \/ Undecodable(w) \/ Preview(w) \/ ParseFails(w) \/ PersistRaises(w)
            \/ EndImport(w) \/ IntelligenceStep(w) \/ UnknownStep(w) \/ FinishJob(w)
          => UNCHANGED <<tables, graph, destination>>
      BY DEF Unreadable, Undecodable, Preview, ParseFails, PersistRaises, EndImport,
         IntelligenceStep, UnknownStep, FinishJob, StoresNothing, importVars, vars, tables, world
    <3> QED
      BY <2>1, <3>2, <3>3, <3>4, <3>5 DEF Proceed
  <2>2. ASSUME NEW w \in Worker, JobCrash(w) \/ \E j \in Job, dry \in BOOLEAN : StartJob(w, j, dry)
        PROVE  UNCHANGED <<tables, graph, destination>>
    <3>1. JobCrash(w) => dry_run[w]
      BY DEF JobCrash
    <3> QED
      BY <2>2, <3>1 DEF JobCrash, StartJob, StoresNothing, importVars, vars, tables
  <2> QED
    BY <2>1, <2>2 DEF AutomationNext
<1> QED
  BY <1>1, AutomationInvariant, PTL DEF AutomationSpec, DryRunWritesNothing

------------------------------------------------------------------------------
(* What results count *)
Counted(results) ==
  IsASeq(results) /\ \A i \in 1 .. Len(results) : results[i].stored \in Nat

StoredOf(results) == [i \in DOMAIN results |-> results[i].stored]

LEMMA CountedNumbers ==
  ASSUME NEW results, Counted(results)
  PROVE  /\ Len(results) \in Nat /\ NumberList(StoredOf(results), Len(results))
         /\ \A i \in 1 .. Len(results) : StoredOf(results)[i] = results[i].stored
         /\ StoredBy(results) = Total(StoredOf(results)) /\ StoredBy(results) \in Nat
<1>1. Len(results) \in Nat /\ DOMAIN results = 1 .. Len(results)
  BY ResultsListed DEF Counted
<1>2. NumberList(StoredOf(results), Len(results))
  BY <1>1 DEF Counted, StoredOf, NumberList
<1>3. StoredBy(results) = Total(StoredOf(results))
  BY DEF StoredBy, StoredOf
<1> QED
  BY <1>1, <1>2, <1>3, TotalNumber DEF StoredOf

LEMMA NothingCounted == Counted(<<>>) /\ StoredBy(<<>>) = 0
<1>1. Counted(<<>>)
  BY EmptyResults DEF Counted
<1> QED
  BY <1>1, CountedNumbers, EmptyResults, TotalEmpty

LEMMA OneMoreCounted ==
  ASSUME NEW results, Counted(results), NEW r, r.stored \in Nat
  PROVE  /\ Counted(Append(results, r))
         /\ StoredBy(Append(results, r)) = StoredBy(results) + r.stored
<1> DEFINE n == Len(results)
           more == Append(results, r)
<1>1. /\ n \in Nat /\ IsASeq(more) /\ Len(more) = n + 1 /\ more[n + 1] = r
      /\ \A i \in 1 .. n : more[i] = results[i]
  BY ResultsListed, ResultAdded DEF Counted
<1> HIDE DEF n, more
<1>2. \A i \in 1 .. n + 1 : i \in 1 .. n \/ i = n + 1
  BY <1>1
<1>3. Counted(more)
  BY <1>1, <1>2 DEF Counted, n
<1>4. NumberList(StoredOf(results), n) /\ NumberList(StoredOf(more), n + 1)
  BY <1>1, <1>3, CountedNumbers DEF n
<1>5. /\ \A i \in 1 .. n : StoredOf(more)[i] = StoredOf(results)[i]
      /\ StoredOf(more)[n + 1] = r.stored
  <2>1. /\ \A i \in 1 .. n : i \in 1 .. n + 1
        /\ n + 1 \in 1 .. n + 1
    BY <1>1
  <2>2. /\ \A i \in 1 .. n : StoredOf(results)[i] = results[i].stored
        /\ \A i \in 1 .. n + 1 : StoredOf(more)[i] = more[i].stored
    BY <1>1, <1>3, CountedNumbers DEF n
  <2> QED
    BY <1>1, <2>1, <2>2
<1>6. Total(StoredOf(more)) = Total(StoredOf(results)) + r.stored
  BY <1>1, <1>4, <1>5, TotalGrows
<1> QED
  BY <1>3, <1>6, CountedNumbers DEF more

LEMMA JoinedCounted ==
  ASSUME NEW one, NEW two, Counted(one), Counted(two)
  PROVE  StoredBy(one \o two) = StoredBy(one) + StoredBy(two)
<1> DEFINE m == Len(one)
           n == Len(two)
           both == one \o two
<1>1. PICK S, T : one \in Seq(S) /\ two \in Seq(T)
  BY DEF Counted, IsASeq
<1>2. one \in Seq(S \cup T) /\ two \in Seq(S \cup T)
  BY <1>1
<1>3. /\ m \in Nat /\ n \in Nat /\ both \in Seq(S \cup T) /\ Len(both) = m + n
      /\ \A i \in 1 .. m : both[i] = one[i]
      /\ \A i \in 1 .. n : both[m + i] = two[i]
  BY <1>2
<1> HIDE DEF m, n, both
<1>4. Counted(both)
  <2>1. ASSUME NEW i \in 1 .. m + n
        PROVE  both[i].stored \in Nat
    <3>1. CASE i \in 1 .. m
      BY <1>3, <3>1 DEF Counted, m
    <3>2. CASE i \notin 1 .. m
      <4>1. i - m \in 1 .. n /\ m + (i - m) = i
        BY <1>3, <3>2
      <4>2. both[m + (i - m)] = two[i - m]
        BY <1>3, <4>1
      <4> QED
        BY <4>1, <4>2 DEF Counted, n
    <3> QED
      BY <3>1, <3>2
  <2> QED
    BY <1>3, <2>1 DEF Counted, IsASeq
<1>5. /\ NumberList(StoredOf(one), m) /\ NumberList(StoredOf(two), n) /\ NumberList(StoredOf(both), m + n)
      /\ \A i \in 1 .. m : StoredOf(one)[i] = one[i].stored
      /\ \A i \in 1 .. n : StoredOf(two)[i] = two[i].stored
      /\ \A i \in 1 .. m + n : StoredOf(both)[i] = both[i].stored
  BY <1>3, <1>4, CountedNumbers DEF m, n
<1>6. /\ \A i \in 1 .. m : i \in 1 .. m + n
      /\ \A i \in 1 .. n : m + i \in 1 .. m + n
  BY <1>3
<1>7. /\ \A i \in 1 .. m : StoredOf(both)[i] = StoredOf(one)[i]
      /\ \A i \in 1 .. n : StoredOf(both)[m + i] = StoredOf(two)[i]
  BY <1>3, <1>5, <1>6
<1>8. Total(StoredOf(both)) = Total(StoredOf(one)) + Total(StoredOf(two))
  <2> SUFFICES ASSUME NEW s, s = StoredOf(one), NEW t, t = StoredOf(two), NEW st, st = StoredOf(both)
               PROVE  Total(st) = Total(s) + Total(t)
    OBVIOUS
  <2>1. NumbersJoined(s, m, t, n, st)
    BY <1>5, <1>7 DEF NumbersJoined
  <2> QED
    BY <1>3, <2>1, TotalJoined
<1> QED
  BY <1>3, <1>4, <1>8, CountedNumbers DEF both

------------------------------------------------------------------------------
(* What the workers report, each apart from the others *)
Heap(R) == UNION {{w} \X (1 .. R[w]) : w \in Worker}

LEMMA RowCounts ==
  ASSUME NEW w, NEW n \in Nat
  PROVE  IsFiniteSet({w} \X (1 .. n)) /\ Cardinality({w} \X (1 .. n)) = n
<1>1. IsFiniteSet({w}) /\ Cardinality({w}) = 1
  BY FS_Singleton
<1>2. IsFiniteSet(1 .. n) /\ Cardinality(1 .. n) = n
  BY FS_Interval
<1> DEFINE S == {w}
           T == 1 .. n
<1> HIDE DEF S, T
<1>3. IsFiniteSet(S \X T) /\ Cardinality(S \X T) = Cardinality(S) * Cardinality(T)
  <2>1. IsFiniteSet(S) /\ IsFiniteSet(T)
    BY <1>1, <1>2 DEF S, T
  <2> QED
    BY <2>1, FS_Product
<1>4. Cardinality(S) * Cardinality(T) = n
  <2>1. Cardinality(S) = 1 /\ Cardinality(T) = n
    BY <1>1, <1>2 DEF S, T
  <2> QED
    BY <2>1
<1> QED
  BY <1>3, <1>4 DEF S, T

LEMMA HeapFinite ==
  ASSUME NEW R \in [Worker -> Nat]
  PROVE  IsFiniteSet(Heap(R))
<1> DEFINE rows == {{w} \X (1 .. R[w]) : w \in Worker}
           row == [w \in Worker |-> {w} \X (1 .. R[w])]
<1>1. row \in Surjection(Worker, rows)
  BY DEF Surjection
<1>2. ASSUME NEW T \in rows
      PROVE  IsFiniteSet(T)
  <2>1. PICK w \in Worker : T = {w} \X (1 .. R[w])
    OBVIOUS
  <2>2. R[w] \in Nat
    OBVIOUS
  <2> QED
    BY <2>1, <2>2, RowCounts
<1> HIDE DEF row
<1>3. IsFiniteSet(rows)
  BY <1>1, JobAssumption, FS_Surjection
<1> HIDE DEF rows
<1>4. IsFiniteSet(UNION rows)
  BY <1>2, <1>3, FS_UNION
<1> QED
  BY <1>4 DEF rows, Heap

LEMMA HeapSplit ==
  ASSUME NEW R \in [Worker -> Nat], NEW w \in Worker, NEW rest, rest = Heap(R) \ ({w} \X Nat)
  PROVE  /\ IsFiniteSet(rest) /\ Cardinality(rest) \in Nat
         /\ Cardinality(Heap(R)) = Cardinality(rest) + R[w]
<1> DEFINE row == {w} \X (1 .. R[w])
<1>1. R[w] \in Nat /\ IsFiniteSet(row) /\ Cardinality(row) = R[w]
  BY RowCounts
<1>2. rest \subseteq Heap(R) /\ Heap(R) = rest \cup row /\ rest \cap row = {}
  BY DEF Heap
<1> HIDE DEF row
<1>3. IsFiniteSet(rest)
  BY <1>2, HeapFinite, FS_Subset
<1>4. Cardinality(rest) \in Nat
  BY <1>3, FS_CardinalityType
<1>5. Cardinality(rest \cup row) = Cardinality(rest) + Cardinality(row) - Cardinality(rest \cap row)
  BY <1>1, <1>3, FS_Union
<1>6. Cardinality(rest \cap row) = 0
  BY <1>2, FS_EmptySet
<1>7. Cardinality(Heap(R)) = Cardinality(rest \cup row)
  BY <1>2
<1>8. Cardinality(Heap(R)) = Cardinality(rest) + R[w]
  BY <1>1, <1>4, <1>5, <1>6, <1>7
<1> QED
  BY <1>3, <1>4, <1>8

\* Only one worker has more or less to report.
LEMMA HeapMoves ==
  ASSUME NEW R \in [Worker -> Nat], NEW T \in [Worker -> Nat], NEW w \in Worker,
         \A v \in Worker \ {w} : T[v] = R[v]
  PROVE  /\ Cardinality(Heap(R)) \in Nat /\ Cardinality(Heap(T)) \in Nat
         /\ Cardinality(Heap(T)) + R[w] = Cardinality(Heap(R)) + T[w]
<1>1. Heap(R) \ ({w} \X Nat) = Heap(T) \ ({w} \X Nat)
  BY DEF Heap
<1>2. PICK rest : rest = Heap(R) \ ({w} \X Nat)
  OBVIOUS
<1>3. Cardinality(rest) \in Nat /\ Cardinality(Heap(R)) = Cardinality(rest) + R[w]
  BY <1>2, HeapSplit
<1>4. Cardinality(Heap(T)) = Cardinality(rest) + T[w]
  BY <1>1, <1>2, HeapSplit
<1>5. R[w] \in Nat /\ T[w] \in Nat
  OBVIOUS
<1> QED
  BY <1>3, <1>4, <1>5

LEMMA HeapEmpty ==
  ASSUME NEW R, \A w \in Worker : R[w] = 0
  PROVE  Cardinality(Heap(R)) = 0
<1>1. Heap(R) = {}
  BY DEF Heap
<1> QED
  BY <1>1, FS_EmptySet

------------------------------------------------------------------------------
(* The inductive invariant: whatever is in the store has been counted *)
HistoryCounted(written) ==
  IsASeq(written) /\ \A n \in 1 .. Len(written) : Counted(written[n].stages)

WorkInv ==
  /\ \A w \in Worker : Counted(outcomes[w]) /\ Counted(stages[w])
  /\ HistoryCounted(history)
  /\ IsFiniteSet(Stored) /\ lost \in Nat
  /\ WorkAccounted

Worth(r) == IF r.dry_run THEN 0 ELSE StoredBy(r.stages)
Recorded(written) == [n \in DOMAIN written |-> Worth(written[n])]
Reports == [w \in Worker |-> Reported(w)]

LEMMA RecordedNumbers ==
  ASSUME NEW written, HistoryCounted(written)
  PROVE  /\ Len(written) \in Nat /\ NumberList(Recorded(written), Len(written))
         /\ \A n \in 1 .. Len(written) : Recorded(written)[n] = Worth(written[n])
         /\ Total(Recorded(written)) \in Nat
<1>1. Len(written) \in Nat /\ DOMAIN written = 1 .. Len(written)
  BY ResultsListed DEF HistoryCounted
<1>2. \A n \in 1 .. Len(written) : Worth(written[n]) \in Nat
  BY CountedNumbers DEF HistoryCounted, Worth
<1>3. NumberList(Recorded(written), Len(written))
  BY <1>1, <1>2 DEF Recorded, NumberList
<1> QED
  BY <1>1, <1>3, TotalNumber DEF Recorded

LEMMA ReportedNumbers ==
  /\ RecordedWork = Total(Recorded(history))
  /\ ReportedWork = Cardinality(Heap(Reports))
BY DEF RecordedWork, Recorded, Worth, ReportedWork, Heap, Reports

LEMMA CountedReports ==
  ASSUME NEW R, NEW dry, NEW out, NEW ended,
         R = [w \in Worker |-> IF dry[w] THEN 0 ELSE StoredBy(ended[w]) + StoredBy(out[w])],
         \A w \in Worker : Counted(out[w]) /\ Counted(ended[w])
  PROVE  R \in [Worker -> Nat]
<1>1. \A w \in Worker : StoredBy(ended[w]) \in Nat /\ StoredBy(out[w]) \in Nat
  BY CountedNumbers
<1> QED
  BY <1>1

Others(w) ==
  \A v \in Worker \ {w} :
    dry_run'[v] = dry_run[v] /\ outcomes'[v] = outcomes[v] /\ stages'[v] = stages[v]

\* A step of a worker keeps the books if what is stored, recorded, lost and
\* reported by this worker balances.
LEMMA WorkBalanced ==
  ASSUME WorkInv, NEW w \in Worker, Others(w), Counted(outcomes'[w]), Counted(stages'[w]),
         HistoryCounted(history'), IsFiniteSet(Stored'), lost' \in Nat,
         Cardinality(Stored') + (RecordedWork + lost + Reported(w))
           = Cardinality(Stored) + (RecordedWork' + lost' + Reported(w)')
  PROVE  WorkInv'
<1>1. (\A v \in Worker : Counted(outcomes[v]) /\ Counted(stages[v]))'
  BY DEF WorkInv, Others
<1>2. Reports \in [Worker -> Nat] /\ Reports[w] = Reported(w)
  <2>1. Reports \in [Worker -> Nat]
    BY CountedReports DEF WorkInv, Reports, Reported
  <2> QED
    BY <2>1 DEF Reports
<1>3. Reports' \in [Worker -> Nat] /\ Reports'[w] = Reported(w)'
  <2>1. Reports' \in [Worker -> Nat]
    BY <1>1, CountedReports DEF Reports, Reported
  <2> QED
    BY <2>1 DEF Reports
<1>4. \A v \in Worker \ {w} : Reports'[v] = Reports[v]
  BY DEF Others, Reports, Reported
<1>5. /\ ReportedWork \in Nat /\ ReportedWork' \in Nat
      /\ ReportedWork' + Reported(w) = ReportedWork + Reported(w)'
  <2>1. /\ Cardinality(Heap(Reports)) \in Nat /\ Cardinality(Heap(Reports')) \in Nat
        /\ Cardinality(Heap(Reports')) + Reports[w] = Cardinality(Heap(Reports)) + Reports'[w]
    BY <1>2, <1>3, <1>4, HeapMoves
  <2>2. /\ ReportedWork = Cardinality(Heap(Reports))
        /\ ReportedWork' = Cardinality(Heap(Reports'))
    BY DEF ReportedWork, Heap, Reports
  <2> QED
    BY <1>2, <1>3, <2>1, <2>2
<1>6. RecordedWork \in Nat /\ RecordedWork' \in Nat
  <2>1. RecordedWork = Total(Recorded(history)) /\ RecordedWork' = Total(Recorded(history'))
    BY DEF RecordedWork, Recorded, Worth
  <2> QED
    BY <2>1, RecordedNumbers DEF WorkInv
<1>7. Reported(w) \in Nat /\ Reported(w)' \in Nat
  BY <1>2, <1>3
<1>8. Cardinality(Stored) \in Nat /\ Cardinality(Stored') \in Nat
  BY FS_CardinalityType DEF WorkInv
<1>9. Cardinality(Stored) = RecordedWork + lost + ReportedWork /\ lost \in Nat
  BY DEF WorkInv, WorkAccounted
<1>10. Cardinality(Stored') = RecordedWork' + lost' + ReportedWork'
  BY <1>5, <1>6, <1>7, <1>8, <1>9
<1>11. WorkAccounted'
  BY <1>10 DEF WorkAccounted
<1> QED
  BY <1>1, <1>11 DEF WorkInv

------------------------------------------------------------------------------
(* One lemma per kind of step *)
LEMMA ReportedIs ==
  ASSUME WorkInv, NEW w \in Worker
  PROVE  /\ Counted(outcomes[w]) /\ Counted(stages[w])
         /\ StoredBy(outcomes[w]) \in Nat /\ StoredBy(stages[w]) \in Nat /\ Reported(w) \in Nat
         /\ RecordedWork \in Nat /\ lost \in Nat /\ Cardinality(Stored) \in Nat
         /\ HistoryCounted(history) /\ IsFiniteSet(Stored)
<1>1. Counted(outcomes[w]) /\ Counted(stages[w])
  BY DEF WorkInv
<1>2. StoredBy(outcomes[w]) \in Nat /\ StoredBy(stages[w]) \in Nat
  BY <1>1, CountedNumbers
<1>3. RecordedWork \in Nat
  BY ReportedNumbers, RecordedNumbers DEF WorkInv
<1>4. Cardinality(Stored) \in Nat
  BY FS_CardinalityType DEF WorkInv
<1> QED
  BY <1>1, <1>2, <1>3, <1>4 DEF WorkInv, Reported

\* Nothing is stored, recorded or lost.
LEMMA NothingMoves ==
  ASSUME WorkInv, NEW w \in Worker, Others(w), Counted(outcomes'[w]), Counted(stages'[w]),
         Stored' = Stored, UNCHANGED <<history, lost>>, Reported(w)' = Reported(w)
  PROVE  WorkInv'
<1>1. RecordedWork' = RecordedWork
  BY DEF RecordedWork
<1>2. /\ RecordedWork \in Nat /\ lost \in Nat /\ Reported(w) \in Nat /\ Cardinality(Stored) \in Nat
      /\ HistoryCounted(history) /\ IsFiniteSet(Stored)
  BY ReportedIs
<1>3. Cardinality(Stored') + (RecordedWork + lost + Reported(w))
        = Cardinality(Stored) + (RecordedWork' + lost' + Reported(w)')
  BY <1>1
<1> QED
  BY <1>2, <1>3, WorkBalanced

LEMMA OutcomeGoes ==
  ASSUME AutomationTypeOK, WorkInv, NEW w \in Worker, NEW status, NEW n \in Nat,
         AddOutcome(w, status, n), UNCHANGED <<stages, dry_run>>
  PROVE  /\ Others(w) /\ Counted(outcomes'[w]) /\ Counted(stages'[w])
         /\ Reported(w)' = IF dry_run[w] THEN 0 ELSE Reported(w) + n
<1>1. PICK r : r = [status |-> status, stored |-> n]
  OBVIOUS
<1>2. outcomes'[w] = Append(outcomes[w], r) /\ \A v \in Worker \ {w} : outcomes'[v] = outcomes[v]
  BY <1>1 DEF AddOutcome, AutomationTypeOK
<1>3. r.stored = n
  BY <1>1
<1>4. Counted(outcomes'[w]) /\ StoredBy(outcomes'[w]) = StoredBy(outcomes[w]) + n
  BY <1>2, <1>3, OneMoreCounted DEF WorkInv
<1>5. StoredBy(outcomes[w]) \in Nat /\ StoredBy(stages[w]) \in Nat /\ Counted(stages[w])
  BY ReportedIs
<1>6. Reported(w)' = IF dry_run[w] THEN 0 ELSE Reported(w) + n
  BY <1>4, <1>5 DEF Reported
<1> QED
  BY <1>2, <1>4, <1>5, <1>6 DEF Others

LEMMA StageGoes ==
  ASSUME AutomationTypeOK, WorkInv, NEW w \in Worker, NEW status, NEW n \in Nat,
         EndStage(w, status, n), UNCHANGED dry_run,
         outcomes'[w] = <<>>, \A v \in Worker \ {w} : outcomes'[v] = outcomes[v]
  PROVE  /\ Others(w) /\ Counted(outcomes'[w]) /\ Counted(stages'[w])
         /\ Reported(w)' = IF dry_run[w] THEN 0 ELSE StoredBy(stages[w]) + n
<1>1. PICK r : r = [status |-> status, stored |-> n]
  OBVIOUS
<1>2. stages'[w] = Append(stages[w], r) /\ \A v \in Worker \ {w} : stages'[v] = stages[v]
  BY <1>1 DEF EndStage, AutomationTypeOK
<1>3. r.stored = n
  BY <1>1
<1>4. Counted(stages'[w]) /\ StoredBy(stages'[w]) = StoredBy(stages[w]) + n
  BY <1>2, <1>3, OneMoreCounted DEF WorkInv
<1>5. StoredBy(stages[w]) \in Nat /\ Counted(outcomes'[w]) /\ StoredBy(outcomes'[w]) = 0
  BY ReportedIs, NothingCounted
<1>6. Reported(w)' = IF dry_run[w] THEN 0 ELSE StoredBy(stages[w]) + n
  BY <1>4, <1>5 DEF Reported
<1> QED
  BY <1>2, <1>4, <1>5, <1>6 DEF Others

LEMMA RunGoes ==
  ASSUME AutomationTypeOK, NEW w \in Worker, Reset(w), UNCHANGED dry_run
  PROVE  Others(w) /\ Counted(outcomes'[w]) /\ Counted(stages'[w]) /\ Reported(w)' = 0
<1>1. outcomes'[w] = <<>> /\ stages'[w] = <<>>
  BY DEF Reset, ClearStage, AutomationTypeOK
<1>2. \A v \in Worker \ {w} : outcomes'[v] = outcomes[v] /\ stages'[v] = stages[v]
  BY DEF Reset, ClearStage, AutomationTypeOK
<1> QED
  BY <1>1, <1>2, NothingCounted DEF Others, Reported

\* Outside an import step a worker has no outcomes.
LEMMA NoOutcomes ==
  ASSUME AutomationInv, NEW w \in Worker, ~AtStep(w, "import")
  PROVE  outcomes[w] = <<>>
BY DEF AutomationInv, WorkerInv, Positioned

LEMMA StartJobWork ==
  ASSUME AutomationInv, WorkInv, NEW w \in Worker, NEW j \in Job, NEW dry \in BOOLEAN, StartJob(w, j, dry)
  PROVE  WorkInv'
<1>1. job[w] = NULL /\ AutomationTypeOK /\ Positioned(w)
  BY DEF StartJob, AutomationInv, WorkerInv
<1>2. outcomes[w] = <<>> /\ stages[w] = <<>>
  BY <1>1 DEF Positioned, AtStep, Running
<1>3. /\ UNCHANGED <<outcomes, stages, history, lost, memories>>
      /\ dry_run' = [dry_run EXCEPT ![w] = dry]
  BY DEF StartJob, importVars, vars
<1>4. Reported(w)' = 0 /\ Reported(w) = 0
  BY <1>2, <1>3, NothingCounted DEF Reported
<1>5. Others(w) /\ Stored' = Stored
  BY <1>1, <1>3 DEF Others, AutomationTypeOK, Stored
<1> QED
  BY <1>2, <1>3, <1>4, <1>5, NothingCounted, NothingMoves

\* A file that is refused, or that a dry run previews.
LEMMA FileRefusedWork ==
  ASSUME AutomationInv, WorkInv, NEW w \in Worker, Unreadable(w) \/ Preview(w) \/ ParseFails(w)
  PROVE  WorkInv'
<1>1. AutomationTypeOK /\ UNCHANGED <<memories, stages, dry_run, history, lost>>
  BY DEF AutomationInv, Unreadable, Preview, ParseFails, importVars, vars, world
<1>2. \E status : \E n \in Nat : AddOutcome(w, status, n) /\ (n = 0 \/ dry_run[w])
  <2>1. CASE Preview(w)
    <3>1. NextFile(w) \in File
      <4>1. /\ AtStep(w, "import") /\ Len(outcomes[w]) < Len(Current(w).files)
            /\ NextFile(w) = Current(w).files[Len(outcomes[w]) + 1]
        BY <2>1 DEF Preview, BetweenFiles, FilesLeft, NextFile
      <4>2. Len(outcomes[w]) \in Nat
        BY <1>1, ResultsListed DEF AutomationTypeOK
      <4>3. Len(Current(w).files) \in Nat /\ \A n \in 1 .. Len(Current(w).files) : Current(w).files[n] \in File
        BY <1>1, <4>1, ImportFiles
      <4> QED
        BY <4>1, <4>2, <4>3
    <3>2. Len(Extracted[NextFile(w)]) \in Nat
      BY <3>1, FileTypes
    <3> QED
      BY <2>1, <3>2 DEF Preview
  <2>2. CASE Unreadable(w) \/ ParseFails(w)
    BY <2>2 DEF Unreadable, ParseFails
  <2> QED
    BY <2>1, <2>2
<1>3. PICK status : \E n \in Nat : AddOutcome(w, status, n) /\ (n = 0 \/ dry_run[w])
  BY <1>2
<1>4. PICK n \in Nat : AddOutcome(w, status, n) /\ (n = 0 \/ dry_run[w])
  BY <1>3
<1>5. /\ Others(w) /\ Counted(outcomes'[w]) /\ Counted(stages'[w])
      /\ Reported(w)' = IF dry_run[w] THEN 0 ELSE Reported(w) + n
  BY <1>1, <1>4, OutcomeGoes
<1>6. Reported(w)' = Reported(w)
  <2>1. CASE dry_run[w]
    BY <1>5, <2>1 DEF Reported
  <2>2. CASE ~dry_run[w]
    BY <1>4, <1>5, <2>2, ReportedIs
  <2> QED
    BY <2>1, <2>2
<1>7. Stored' = Stored
  BY <1>1 DEF Stored
<1> QED
  BY <1>1, <1>5, <1>6, <1>7, NothingMoves

\* What a batch adds to the store is what it holds.
LEMMA InsertedCounts ==
  ASSUME ImportTypeOK, BatchFromFile, IsFiniteSet(Stored), NEW w \in Worker,
         InsertAll(w), Insertable(SetToSeq(to_store[w]))
  PROVE  /\ IsFiniteSet(Stored') /\ Cardinality(to_store[w]) \in Nat
         /\ Cardinality(Stored') = Cardinality(Stored) + Cardinality(to_store[w])
<1> DEFINE batch == to_store[w]
           ids == IdsOf(batch)
           id == [r \in batch |-> r.memory_id]
<1>1. ids \subseteq MemoryId \ Stored /\ Stored' = Stored \cup ids
  BY InsertedAll
<1>2. IsFiniteSet(batch) /\ \A r, s \in batch : r.memory_id = s.memory_id => r = s
  BY BatchTypes
<1> HIDE DEF batch
<1>3. id \in [batch -> ids] /\ \A r \in batch : id[r] = r.memory_id
  BY DEF IdsOf
<1>4. \A x \in ids : \E r \in batch : id[r] = x
  BY <1>3 DEF IdsOf
<1> HIDE DEF id, ids
<1>5. id \in Bijection(batch, ids)
  BY <1>2, <1>3, <1>4 DEF Bijection, Injection, Surjection, IsInjective
<1>6. IsFiniteSet(ids) /\ Cardinality(ids) = Cardinality(batch)
  BY <1>2, <1>5, FS_Bijection DEF ExistsBijection
<1>7. Cardinality(batch) \in Nat /\ Cardinality(Stored) \in Nat
  BY <1>2, FS_CardinalityType
<1>8. /\ IsFiniteSet(Stored \cup ids)
      /\ Cardinality(Stored \cup ids) = Cardinality(Stored) + Cardinality(ids) - Cardinality(Stored \cap ids)
  BY <1>6, FS_Union
<1>9. Cardinality(Stored \cap ids) = 0
  <2>1. Stored \cap ids = {}
    BY <1>1
  <2> QED
    BY <2>1, FS_EmptySet
<1>10. IsFiniteSet(Stored') /\ Cardinality(Stored') = Cardinality(Stored) + Cardinality(batch)
  BY <1>1, <1>6, <1>7, <1>8, <1>9
<1> QED
  BY <1>7, <1>10 DEF batch

LEMMA PersistWork ==
  ASSUME AutomationInv, WorkInv, NEW w \in Worker, Persist(w)
  PROVE  WorkInv'
<1>1. /\ ImportTypeOK /\ BatchFromFile /\ AutomationTypeOK /\ Positioned(w)
      /\ UNCHANGED <<stages, dry_run, history, lost>>
  BY DEF AutomationInv, WorkerInv, Persist, world
<1>2. pc[w] \in Busy /\ pc \in [Worker -> Ended \cup Busy]
  BY <1>1, PersistLeads DEF ImportTypeOK
<1>3. ~dry_run[w]
  BY <1>1, <1>2 DEF Positioned
<1>4. ASSUME Stored' = Stored, outcomes' = outcomes
      PROVE  WorkInv'
  <2>1. Others(w) /\ Counted(outcomes'[w]) /\ Counted(stages'[w]) /\ Reported(w)' = Reported(w)
    BY <1>1, <1>4, ReportedIs DEF Others, Reported
  <2> QED
    BY <1>1, <1>4, <2>1, NothingMoves
<1>5. ASSUME Stored' = Stored, AddOutcome(w, "SKIPPED", 0)
      PROVE  WorkInv'
  <2>1. /\ Others(w) /\ Counted(outcomes'[w]) /\ Counted(stages'[w])
        /\ Reported(w)' = Reported(w) + 0
    BY <1>1, <1>3, <1>5, OutcomeGoes
  <2>2. Reported(w)' = Reported(w)
    BY <2>1, ReportedIs
  <2> QED
    BY <1>1, <1>5, <2>1, <2>2, NothingMoves
<1>6. ASSUME InsertAll(w), Insertable(SetToSeq(to_store[w])),
             AddOutcome(w, "SUCCESS", Cardinality(to_store[w]))
      PROVE  WorkInv'
  <2>1. /\ IsFiniteSet(Stored') /\ Cardinality(to_store[w]) \in Nat
        /\ Cardinality(Stored') = Cardinality(Stored) + Cardinality(to_store[w])
    BY <1>1, <1>6, InsertedCounts, ReportedIs
  <2>2. PICK n \in Nat : n = Cardinality(to_store[w])
    BY <2>1
  <2>3. /\ Others(w) /\ Counted(outcomes'[w]) /\ Counted(stages'[w])
        /\ Reported(w)' = Reported(w) + n
    BY <1>1, <1>3, <1>6, <2>2, OutcomeGoes
  <2>4. RecordedWork' = RecordedWork
    BY <1>1 DEF RecordedWork
  <2>5. /\ RecordedWork \in Nat /\ lost \in Nat /\ Reported(w) \in Nat /\ Cardinality(Stored) \in Nat
        /\ HistoryCounted(history)
    BY ReportedIs
  <2>6. Cardinality(Stored') + (RecordedWork + lost + Reported(w))
          = Cardinality(Stored) + (RecordedWork' + lost' + Reported(w)')
    BY <1>1, <2>1, <2>2, <2>3, <2>4, <2>5
  <2>7. HistoryCounted(history') /\ lost' \in Nat
    BY <1>1, <2>5
  <2> QED
    BY <2>1, <2>3, <2>6, <2>7, WorkBalanced
<1>7. \/ /\ FindHash(w) \/ CheckId(w) \/ CheckHash(w) \/ InsertMeeting(w) \/ FilterDuplicates(w)
         /\ pc'[w] # "imported"
      \/ InsertAll(w)
  <2>1. ASSUME NEW next \in Busy \cup {"duplicate"}, Goto(w, next)
        PROVE  pc'[w] # "imported"
    BY <1>2, <2>1 DEF Goto, Busy
  <2> QED
    BY <2>1 DEF Persist, FindHash, CheckId, CheckHash, InsertMeeting, FilterDuplicates, Busy
<1>8. FileOutcome(w)
  BY DEF Persist
<1>9. CASE /\ FindHash(w) \/ CheckId(w) \/ CheckHash(w) \/ InsertMeeting(w) \/ FilterDuplicates(w)
           /\ pc'[w] # "imported"
  <2>1. Stored' = Stored
    BY <1>9 DEF FindHash, CheckId, CheckHash, InsertMeeting, FilterDuplicates, ReadOnly, SaveMeeting,
       Answer, tables, vars, Stored
  <2> QED
    BY <1>4, <1>5, <1>8, <1>9, <2>1 DEF FileOutcome
<1>10. CASE InsertAll(w)
  <2>1. CASE Insertable(SetToSeq(to_store[w]))
    <3>1. pc'[w] = "imported"
      BY <1>1, <1>2, <1>10, <2>1, InsertedAll DEF Goto
    <3> QED
      BY <1>6, <1>8, <1>10, <2>1, <3>1 DEF FileOutcome
  <2>2. CASE ~Insertable(SetToSeq(to_store[w]))
    <3>1. Stored' = Stored /\ reply' = "StorageError"
      BY <1>10, <2>2, TablesUnchanged DEF InsertAll, SaveMany, Answer
    <3>2. pc'[w] = "StorageError"
      BY <1>2, <1>10, <3>1 DEF InsertAll, Goto
    <3> QED
      BY <1>4, <1>8, <3>1, <3>2 DEF FileOutcome
  <2> QED
    BY <2>1, <2>2
<1> QED
  BY <1>7, <1>9, <1>10

LEMMA ReadFileWork ==
  ASSUME AutomationInv, WorkInv, NEW w \in Worker, ReadFile(w)
  PROVE  WorkInv'
<1>1. UNCHANGED <<memories, outcomes, stages, dry_run, history, lost>>
  BY DEF ReadFile, Begin, vars, context, world
<1>2. Stored' = Stored /\ Reported(w)' = Reported(w) /\ Others(w)
  BY <1>1 DEF Stored, Reported, Others
<1> QED
  BY <1>1, <1>2, ReportedIs, NothingMoves

LEMMA PersistRaisesWork ==
  ASSUME AutomationInv, WorkInv, NEW w \in Worker, PersistRaises(w)
  PROVE  WorkInv'
<1>1. /\ AutomationTypeOK /\ UNCHANGED <<memories, dry_run, history>>
      /\ EndStage(w, "FAILURE", 0) /\ Discard(w, outcomes[w])
      /\ outcomes'[w] = <<>> /\ \A v \in Worker \ {w} : outcomes'[v] = outcomes[v]
  BY DEF AutomationInv, AutomationTypeOK, PersistRaises, StoresNothing, vars, ClearStage
<1>2. /\ Others(w) /\ Counted(outcomes'[w]) /\ Counted(stages'[w])
      /\ Reported(w)' = IF dry_run[w] THEN 0 ELSE StoredBy(stages[w]) + 0
  BY <1>1, StageGoes
<1>3. /\ RecordedWork \in Nat /\ lost \in Nat /\ Cardinality(Stored) \in Nat
      /\ StoredBy(outcomes[w]) \in Nat /\ StoredBy(stages[w]) \in Nat
      /\ HistoryCounted(history) /\ IsFiniteSet(Stored)
  BY ReportedIs
<1>4. RecordedWork' = RecordedWork /\ Stored' = Stored
  BY <1>1 DEF RecordedWork, Stored
<1>5. lost' + Reported(w)' = lost + Reported(w) /\ lost' \in Nat /\ Reported(w) \in Nat /\ Reported(w)' \in Nat
  BY <1>1, <1>2, <1>3 DEF Discard, Reported
<1>6. Cardinality(Stored') + (RecordedWork + lost + Reported(w))
        = Cardinality(Stored) + (RecordedWork' + lost' + Reported(w)')
  BY <1>3, <1>4, <1>5
<1> QED
  BY <1>1, <1>2, <1>3, <1>4, <1>5, <1>6, WorkBalanced

LEMMA EndImportWork ==
  ASSUME AutomationInv, WorkInv, NEW w \in Worker, EndImport(w)
  PROVE  WorkInv'
<1>1. PICK n : n = StoredBy(outcomes[w])
  OBVIOUS
<1>2. n \in Nat /\ StoredBy(stages[w]) \in Nat
  BY <1>1, ReportedIs
<1>3. /\ AutomationTypeOK /\ UNCHANGED <<memories, dry_run, history, lost>>
      /\ EndStage(w, ImportStatus(outcomes[w], dry_run[w]), n)
      /\ outcomes'[w] = <<>> /\ \A v \in Worker \ {w} : outcomes'[v] = outcomes[v]
  BY <1>1 DEF AutomationInv, AutomationTypeOK, EndImport, StoresNothing, vars, ClearStage, world
<1>4. /\ Others(w) /\ Counted(outcomes'[w]) /\ Counted(stages'[w])
      /\ Reported(w)' = IF dry_run[w] THEN 0 ELSE StoredBy(stages[w]) + n
  BY <1>2, <1>3, StageGoes
<1>5. Reported(w)' = Reported(w) /\ Stored' = Stored
  BY <1>1, <1>3, <1>4 DEF Reported, Stored
<1> QED
  BY <1>3, <1>4, <1>5, NothingMoves

LEMMA OtherStageWork ==
  ASSUME AutomationInv, WorkInv, NEW w \in Worker,
         GraphStep(w) \/ IntelligenceStep(w) \/ ExportStep(w) \/ UnknownStep(w)
  PROVE  WorkInv'
<1>1. /\ AutomationTypeOK /\ UNCHANGED <<memories, dry_run, outcomes, history, lost>>
      /\ \E status : EndStage(w, status, 0)
  BY DEF AutomationInv, GraphStep, IntelligenceStep, ExportStep, UnknownStep, importVars, vars, world
<1>2. PICK status : EndStage(w, status, 0)
  BY <1>1
<1>3. ~AtStep(w, "import")
  BY DEF GraphStep, IntelligenceStep, ExportStep, Exporting, UnknownStep, Unhandled, AtStep
<1>4. outcomes[w] = <<>>
  BY <1>3, NoOutcomes
<1>5. /\ Others(w) /\ Counted(outcomes'[w]) /\ Counted(stages'[w])
      /\ Reported(w)' = IF dry_run[w] THEN 0 ELSE StoredBy(stages[w]) + 0
  BY <1>1, <1>2, <1>4, StageGoes
<1>6. StoredBy(stages[w]) \in Nat /\ StoredBy(outcomes[w]) = 0
  BY <1>4, ReportedIs, NothingCounted
<1>7. Reported(w)' = Reported(w) /\ Stored' = Stored
  BY <1>1, <1>5, <1>6 DEF Reported, Stored
<1> QED
  BY <1>1, <1>5, <1>7, NothingMoves

LEMMA FinishJobWork ==
  ASSUME AutomationInv, WorkInv, NEW w \in Worker, FinishJob(w)
  PROVE  WorkInv'
<1>1. PICK r : r = [job |-> job[w], dry_run |-> dry_run[w],
                    status |-> JobStatus(stages[w], dry_run[w]), stages |-> stages[w]]
  OBVIOUS
<1>2. r.dry_run = dry_run[w] /\ r.stages = stages[w]
  BY <1>1
<1>3. /\ AutomationTypeOK /\ ~Running(w) /\ Reset(w) /\ history' = Append(history, r)
      /\ UNCHANGED <<memories, dry_run, lost>>
  BY <1>1 DEF AutomationInv, FinishJob, StoresNothing, vars
<1>4. outcomes[w] = <<>>
  BY <1>3, NoOutcomes DEF AtStep
<1>5. Others(w) /\ Counted(outcomes'[w]) /\ Counted(stages'[w]) /\ Reported(w)' = 0
  BY <1>3, RunGoes
<1>6. /\ RecordedWork \in Nat /\ lost \in Nat /\ Cardinality(Stored) \in Nat
      /\ StoredBy(stages[w]) \in Nat /\ StoredBy(outcomes[w]) = 0
      /\ Counted(stages[w]) /\ HistoryCounted(history) /\ IsFiniteSet(Stored)
  BY <1>4, ReportedIs, NothingCounted
<1> DEFINE n == Len(history)
<1>7. /\ n \in Nat /\ IsASeq(history') /\ Len(history') = n + 1 /\ history'[n + 1] = r
      /\ \A i \in 1 .. n : history'[i] = history[i]
  BY <1>3, <1>6, ResultsListed, ResultAdded DEF HistoryCounted
<1> HIDE DEF n
<1>8. HistoryCounted(history')
  <2>1. \A i \in 1 .. n + 1 : i \in 1 .. n \/ i = n + 1
    BY <1>7
  <2> QED
    BY <1>2, <1>6, <1>7, <2>1 DEF HistoryCounted, n
<1>9. Reported(w) = Worth(r)
  BY <1>2, <1>6 DEF Reported, Worth
<1>10. RecordedWork' = RecordedWork + Worth(r)
  <2>1. NumberList(Recorded(history), n) /\ NumberList(Recorded(history'), n + 1)
    BY <1>6, <1>7, <1>8, RecordedNumbers DEF n
  <2>2. \A i \in 1 .. n : Recorded(history')[i] = Recorded(history)[i]
    <3>1. \A i \in 1 .. n : i \in 1 .. n + 1
      BY <1>7
    <3>2. /\ \A i \in 1 .. n : Recorded(history)[i] = Worth(history[i])
          /\ \A i \in 1 .. n + 1 : Recorded(history')[i] = Worth(history'[i])
      BY <1>6, <1>7, <1>8, RecordedNumbers DEF n
    <3> QED
      BY <1>7, <3>1, <3>2
  <2>3. Recorded(history')[n + 1] = Worth(r)
    <3>1. n + 1 \in 1 .. n + 1
      BY <1>7
    <3> QED
      BY <1>7, <1>8, <3>1, RecordedNumbers
  <2>4. Total(Recorded(history')) = Total(Recorded(history)) + Recorded(history')[n + 1]
    BY <1>7, <2>1, <2>2, TotalGrows
  <2>5. RecordedWork = Total(Recorded(history)) /\ RecordedWork' = Total(Recorded(history'))
    BY DEF RecordedWork, Recorded, Worth
  <2> QED
    BY <2>3, <2>4, <2>5
<1>11. Worth(r) \in Nat
  BY <1>2, <1>6 DEF Worth
<1>12. Stored' = Stored
  BY <1>3 DEF Stored
<1>13. Cardinality(Stored') + (RecordedWork + lost + Reported(w))
         = Cardinality(Stored) + (RecordedWork' + lost' + Reported(w)')
  BY <1>3, <1>5, <1>6, <1>9, <1>10, <1>11, <1>12
<1> QED
  BY <1>3, <1>5, <1>6, <1>8, <1>12, <1>13, WorkBalanced

\* Undecodable, WriteFails and JobCrash: what the run has stored is lost to the history.
LEMMA NothingRecordedWork ==
  ASSUME AutomationInv, WorkInv, NEW w \in Worker,
         Undecodable(w) \/ WriteFails(w) \/ JobCrash(w)
  PROVE  WorkInv'
<1>1. /\ AutomationTypeOK /\ Reset(w) /\ Discard(w, outcomes[w] \o stages[w])
      /\ UNCHANGED <<memories, dry_run, history>>
  BY DEF AutomationInv, Undecodable, WriteFails, JobCrash, StoresNothing, vars
<1>2. Others(w) /\ Counted(outcomes'[w]) /\ Counted(stages'[w]) /\ Reported(w)' = 0
  BY <1>1, RunGoes
<1>3. /\ RecordedWork \in Nat /\ lost \in Nat /\ Cardinality(Stored) \in Nat
      /\ StoredBy(outcomes[w]) \in Nat /\ StoredBy(stages[w]) \in Nat
      /\ HistoryCounted(history) /\ IsFiniteSet(Stored)
      /\ Counted(outcomes[w]) /\ Counted(stages[w])
  BY ReportedIs
<1>4. StoredBy(outcomes[w] \o stages[w]) = StoredBy(outcomes[w]) + StoredBy(stages[w])
  BY <1>3, JoinedCounted
<1>5. RecordedWork' = RecordedWork /\ Stored' = Stored
  BY <1>1 DEF RecordedWork, Stored
<1>6. lost' = lost + Reported(w) /\ lost' \in Nat /\ Reported(w) \in Nat
  BY <1>1, <1>3, <1>4 DEF Discard, Reported
<1>7. Cardinality(Stored') + (RecordedWork + lost + Reported(w))
        = Cardinality(Stored) + (RecordedWork' + lost' + Reported(w)')
  BY <1>2, <1>3, <1>5, <1>6
<1> QED
  BY <1>1, <1>2, <1>3, <1>5, <1>6, <1>7, WorkBalanced

LEMMA WorkStutter ==
  ASSUME WorkInv, UNCHANGED jobVars
  PROVE  WorkInv'
<1>1. UNCHANGED <<memories, outcomes, stages, dry_run, history, lost>>
  BY DEF jobVars, importVars, vars, context, world
<1>2. Stored' = Stored /\ RecordedWork' = RecordedWork /\ ReportedWork' = ReportedWork
  BY <1>1 DEF Stored, RecordedWork, ReportedWork, Reported
<1> QED
  BY <1>1, <1>2 DEF WorkInv, WorkAccounted

LEMMA WorkInitInv == AutomationInit => WorkInv
<1> SUFFICES ASSUME AutomationInit
             PROVE  WorkInv
  OBVIOUS
<1>1. /\ \A w \in Worker : outcomes[w] = <<>> /\ stages[w] = <<>>
      /\ history = <<>> /\ lost = 0 /\ Stored = {}
  BY DEF AutomationInit, ImportInit, Init, Stored
<1>2. HistoryCounted(history) /\ Len(history) = 0
  BY <1>1, EmptyResults DEF HistoryCounted
<1>3. RecordedWork = 0
  BY <1>2, RecordedNumbers, ReportedNumbers, TotalEmpty
<1>4. ReportedWork = 0
  <2>1. \A w \in Worker : Reports[w] = 0
    BY <1>1, NothingCounted DEF Reports, Reported
  <2> QED
    BY <2>1, HeapEmpty, ReportedNumbers
<1>5. IsFiniteSet(Stored) /\ Cardinality(Stored) = 0
  BY <1>1, FS_EmptySet
<1>6. WorkAccounted
  BY <1>1, <1>3, <1>4, <1>5 DEF WorkAccounted
<1> QED
  BY <1>1, <1>2, <1>5, <1>6, NothingCounted DEF WorkInv

LEMMA WorkNextInv == AutomationInv /\ WorkInv /\ [AutomationNext]_jobVars => WorkInv'
<1> SUFFICES ASSUME AutomationInv, WorkInv, [AutomationNext]_jobVars
             PROVE  WorkInv'
  OBVIOUS
<1>1. ASSUME NEW w \in Worker, Proceed(w)
      PROVE  WorkInv'
  <2>1. CASE Unreadable(w) \/ Preview(w) \/ ParseFails(w)
    BY <2>1, FileRefusedWork
  <2>2. CASE ReadFile(w)
    BY <2>2, ReadFileWork
  <2>3. CASE Persist(w)
    BY <2>3, PersistWork
  <2>4. CASE PersistRaises(w)
    BY <2>4, PersistRaisesWork
  <2>5. CASE EndImport(w)
    BY <2>5, EndImportWork
  <2>6. CASE GraphStep(w) \/ IntelligenceStep(w) \/ ExportStep(w) \/ UnknownStep(w)
    BY <2>6, OtherStageWork
  <2>7. CASE Undecodable(w) \/ WriteFails(w)
    BY <2>7, NothingRecordedWork
  <2>8. CASE FinishJob(w)
    BY <2>8, FinishJobWork
  <2> QED
    BY <1>1, <2>1, <2>2, <2>3, <2>4, <2>5, <2>6, <2>7, <2>8 DEF Proceed
<1>2. ASSUME NEW w \in Worker, NEW j \in Job, NEW dry \in BOOLEAN, StartJob(w, j, dry)
      PROVE  WorkInv'
  BY <1>2, StartJobWork
<1>3. ASSUME NEW w \in Worker, JobCrash(w)
      PROVE  WorkInv'
  BY <1>3, NothingRecordedWork
<1> QED
  BY <1>1, <1>2, <1>3, WorkStutter DEF AutomationNext

\* Whatever processes run which jobs over the same files at once, and wherever they
\* die: every memory in the store is counted once, by a recorded run, by one under
\* way, or among those that an exception or a crash left unreported; what dry runs
\* preview is never counted.
THEOREM WorkAdds == AutomationSpec => []WorkAccounted
<1>1. AutomationInit => WorkInv
  BY WorkInitInv
<1>2. AutomationInv /\ WorkInv /\ [AutomationNext]_jobVars => WorkInv'
  BY WorkNextInv
<1>3. WorkInv => WorkAccounted
  BY DEF WorkInv
<1> QED
  BY <1>1, <1>2, <1>3, AutomationInvariant, PTL DEF AutomationSpec
================================================================================
