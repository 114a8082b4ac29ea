---------------------------- MODULE AutomationJobs ----------------------------
(***************************************************************************)
(* Automation jobs on a shared database: import, graph, intelligence and   *)
(* export steps run in order by AutomationEngine.run_job, several jobs at  *)
(* once.  An import step takes its files one by one through the statements *)
(* of MeetingImport; a worker here is the process that runs a job.         *)
(*                                                                         *)
(* Of a rendered export, and of the graph, only the memories in them are   *)
(* kept: what is asked of an export is which memories it shows.            *)
(***************************************************************************)
EXTENDS MeetingImport, Totals

CONSTANTS
  Job,           \* configured pipelines
  StepsOf,       \* Job -> sequence of steps
  FileKind,      \* File -> what reading and parsing the file comes to
  MaxRuns        \* bound: how many runs are started

StepConfig ==
  [type : {"import"}, files : Seq(File)] \cup
  [type : {"graph", "intelligence", "unknown"}] \cup
  [type : {"export"}, format : {"graph", "csv", "unsupported"}]

ASSUME JobAssumption ==
  /\ StepsOf \in [Job -> Seq(StepConfig)]
  /\ FileKind \in [File -> {"good", "malformed", "unreadable", "undecodable"}]
  /\ NULL \notin Job
  /\ MaxRuns \in Nat
  /\ IsFiniteSet(Worker)

VARIABLES
  job,           \* Worker -> the job it runs, or NULL
  dry_run,       \* Worker -> is the run a dry run?
  outcomes,      \* Worker -> per-file outcomes of the import step under way
  stages,        \* Worker -> results of the steps that have ended
  graph_store,   \* Worker -> the graph store of its context
  own,           \* Worker -> memories stored by its run
  graph,         \* memories in the graph tables of the database
  destination,   \* place of a step in a job -> memories shown by the file it exports
                 \* to, or NULL when the file was cut short
  history,       \* results recorded by JobHistory, in order
  lost,          \* memories stored by files whose outcomes were thrown away
  runs           \* how many runs have been started

context == <<job, dry_run, outcomes, stages, graph_store, own>>
world == <<graph, destination, history, lost, runs>>
jobVars == <<importVars, context, world>>

Status == {"SUCCESS", "PARTIAL", "SKIPPED", "FAILURE", "DRY_RUN"}

\* FileImportOutcome and StageResult alike; `stored` is 0 for other stages,
\* whose items are not memories stored.
Result == [status : Status, stored : Nat]

\* Each export step has a file of its own.
StepPlace == UNION {{j} \X DOMAIN StepsOf[j] : j \in Job}

\* A context has no graph store, one in the database or one of its own.
GraphStore == [where : {"none", "database"}] \cup [where : {"memory"}, holds : SUBSET MemoryId]
NoGraph == [where |-> "none"]

AutomationInit ==
  /\ ImportInit
  /\ job = [w \in Worker |-> NULL]
  /\ dry_run = [w \in Worker |-> FALSE]
  /\ outcomes = [w \in Worker |-> <<>>]
  /\ stages = [w \in Worker |-> <<>>]
  /\ graph_store = [w \in Worker |-> NoGraph]
  /\ own = [w \in Worker |-> {}]
  /\ graph = {}
  /\ destination = [place \in StepPlace |-> {}]
  /\ history = <<>>
  /\ lost = 0
  /\ runs = 0

------------------------------------------------------------------------------
(* What is under way *)
Failed(results) == \E i \in DOMAIN results : results[i].status = "FAILURE"

\* The executor goes on to the next step until one fails.
Running(w) ==
  /\ job[w] # NULL
  /\ Len(stages[w]) < Len(StepsOf[job[w]])
  /\ ~Failed(stages[w])

Current(w) == StepsOf[job[w]][Len(stages[w]) + 1]
AtStep(w, type) == Running(w) /\ Current(w).type = type

\* No handler for the step's type, or UnknownConnectorError for its format; an
\* import from a source without a connector ends the same way, and is of type
\* "unknown" here.
Unhandled(step) ==
  step.type = "unknown" \/ (step.type = "export" /\ step.format = "unsupported")

\* The import loop is between two files.
BetweenFiles(w) == AtStep(w, "import") /\ pc[w] \in Ended \ {"StorageError"}
FilesLeft(w) == Len(outcomes[w]) < Len(Current(w).files)
NextFile(w) == Current(w).files[Len(outcomes[w]) + 1]

StoredBy(results) == Total([i \in DOMAIN results |-> results[i].stored])

\* What the run has stored according to results that nobody will see.
Discard(w, results) ==
  lost' = IF dry_run[w] THEN lost ELSE lost + StoredBy(results)

EndStage(w, status, stored) ==
  stages' = [stages EXCEPT ![w] = Append(@, [status |-> status, stored |-> stored])]

AddOutcome(w, status, stored) ==
  outcomes' = [outcomes EXCEPT ![w] = Append(@, [status |-> status, stored |-> stored])]

\* The stage is over: what its outcomes say is not needed any more.
ClearStage(w) ==
  /\ outcomes' = [outcomes EXCEPT ![w] = <<>>]
  /\ pc' = [pc EXCEPT ![w] = "idle"]

Reset(w) ==
  /\ job' = [job EXCEPT ![w] = NULL]
  /\ stages' = [stages EXCEPT ![w] = <<>>]
  /\ graph_store' = [graph_store EXCEPT ![w] = NoGraph]
  /\ own' = [own EXCEPT ![w] = {}]
  /\ ClearStage(w)

StoresNothing == UNCHANGED <<vars, to_store, deletion>>

------------------------------------------------------------------------------
(* run_job: a fresh context for every run *)
StartJob(w, j, dry) ==
  /\ job[w] = NULL
  /\ runs < MaxRuns
  /\ runs' = runs + 1
  /\ job' = [job EXCEPT ![w] = j]
  /\ dry_run' = [dry_run EXCEPT ![w] = dry]
  /\ UNCHANGED <<importVars, outcomes, stages, graph_store, own,
                 graph, destination, history, lost>>

------------------------------------------------------------------------------
(***************************************************************************)
(* The import step: _process_file for one file after the other.            *)
(***************************************************************************)
\* read_text: an OSError is an outcome.
Unreadable(w) ==
  /\ BetweenFiles(w) /\ FilesLeft(w)
  /\ FileKind[NextFile(w)] = "unreadable"
  /\ AddOutcome(w, "FAILURE", 0)
  /\ UNCHANGED <<importVars, world, job, dry_run, stages, graph_store, own>>

\* A dry run has no store: every file that parses is a preview, duplicates
\* included, and counts what was extracted.
Preview(w) ==
  /\ BetweenFiles(w) /\ FilesLeft(w) /\ dry_run[w]
  /\ \/ /\ FileKind[NextFile(w)] = "good"
        /\ AddOutcome(w, "DRY_RUN", Len(Extracted[NextFile(w)]))
     \/ /\ FileKind[NextFile(w)] = "malformed"
        /\ AddOutcome(w, "FAILURE", 0)
  /\ UNCHANGED <<importVars, world, job, dry_run, stages, graph_store, own>>

ReadFile(w) ==
  /\ BetweenFiles(w) /\ FilesLeft(w) /\ ~dry_run[w]
  /\ FileKind[NextFile(w)] \in {"good", "malformed"}
  /\ Begin(w, NextFile(w))
  /\ UNCHANGED <<context, world>>

\* A file that is not there yet is parsed before it is stored.
ParseFails(w) ==
  /\ AtStep(w, "import") /\ At(w, "id exists")
  /\ FileKind[file[w]] = "malformed"
  /\ Goto(w, "idle")
  /\ AddOutcome(w, "FAILURE", 0)
  /\ UNCHANGED <<vars, deletion, file, to_store, crashes, world,
                 job, dry_run, stages, graph_store, own>>

\* Mutant of FileOutcome: counts what was extracted, as a preview does.
FileOutcome_Extracted(w) ==
  \/ pc'[w] = "duplicate" /\ AddOutcome(w, "SKIPPED", 0)
  \/ pc'[w] = "imported" /\ AddOutcome(w, "SUCCESS", Len(Extracted[file[w]]))
  \/ pc'[w] \notin {"duplicate", "imported"} /\ UNCHANGED outcomes

FileOutcome(w) ==
  \/ pc'[w] = "duplicate" /\ AddOutcome(w, "SKIPPED", 0)
  \/ pc'[w] = "imported" /\ AddOutcome(w, "SUCCESS", Cardinality(to_store[w]))
  \/ pc'[w] \notin {"duplicate", "imported"} /\ UNCHANGED outcomes

\* The hash lookup of _process_file, then persist_extraction.
Persist(w) ==
  /\ AtStep(w, "import")
  /\ \/ FindHash(w)
     \/ FileKind[file[w]] = "good" /\ CheckId(w)
     \/ CheckHash(w)
     \/ InsertMeeting(w)
     \/ FilterDuplicates(w)
     \/ InsertAll(w)
  /\ FileOutcome(w)
  /\ own' = [own EXCEPT ![w] = @ \cup (Stored' \ Stored)]
  /\ UNCHANGED <<world, job, dry_run, stages, graph_store>>

(***************************************************************************)
(* persist_extraction is called outside the try: DuplicateMeetingError and *)
(* StorageError leave the loop, the files after this one are not imported, *)
(* and the executor makes a failed stage of it, without the outcomes.      *)
(***************************************************************************)
PersistRaises(w) ==
  /\ AtStep(w, "import")
  /\ pc[w] \in {"get meeting", "StorageError"}
  /\ EndStage(w, "FAILURE", 0)
  /\ Discard(w, outcomes[w])
  /\ ClearStage(w)
  /\ StoresNothing
  /\ UNCHANGED <<file, crashes, job, dry_run, graph_store, own,
                 graph, destination, history, runs>>

\* UnicodeDecodeError is neither an OSError nor a MeetingMemoryError: it ends
\* the run, and nothing is recorded.
Undecodable(w) ==
  /\ BetweenFiles(w) /\ FilesLeft(w)
  /\ FileKind[NextFile(w)] = "undecodable"
  /\ Discard(w, outcomes[w] \o stages[w])
  /\ Reset(w)
  /\ StoresNothing
  /\ UNCHANGED <<file, crashes, dry_run, graph, destination, history, runs>>

\* Mutant of ImportStatus: one file that got through makes the batch a success.
ImportStatus_AnyGood(results, dry) ==
  IF results # <<>> /\ \A i \in DOMAIN results : results[i].status = "FAILURE"
  THEN "FAILURE"
  ELSE IF dry THEN "DRY_RUN" ELSE "SUCCESS"

\* _aggregate_status of the importers.
ImportStatus(results, dry) ==
  LET failures == {i \in DOMAIN results : results[i].status = "FAILURE"}
  IN  CASE results = <<>> -> "SUCCESS"
        [] failures # {} /\ failures # DOMAIN results -> "PARTIAL"
        [] failures # {} /\ failures = DOMAIN results -> "FAILURE"
        [] OTHER -> IF dry THEN "DRY_RUN" ELSE "SUCCESS"

EndImport(w) ==
  /\ BetweenFiles(w) /\ ~FilesLeft(w)
  /\ EndStage(w, ImportStatus(outcomes[w], dry_run[w]), StoredBy(outcomes[w]))
  /\ ClearStage(w)
  /\ StoresNothing
  /\ UNCHANGED <<file, crashes, job, dry_run, graph_store, own, world>>

------------------------------------------------------------------------------
(* The other steps *)
\* Mutant of GraphStep: a dry run builds the graph where every run does.
GraphStep_Always(w) ==
  /\ AtStep(w, "graph")
  /\ graph' = graph \cup Stored
  /\ graph_store' = [graph_store EXCEPT ![w] = [where |-> "database"]]
  /\ EndStage(w, "SUCCESS", 0)
  /\ UNCHANGED <<importVars, job, dry_run, outcomes, own, destination, history, lost, runs>>

\* Mutant of GraphStep: a graph store that is open already is taken as it is.
GraphStep_OnlyOnce(w) ==
  /\ AtStep(w, "graph")
  /\ IF graph_store[w] # NoGraph
     THEN UNCHANGED <<graph, graph_store>>
     ELSE IF dry_run[w]
     THEN /\ graph_store' = [graph_store EXCEPT ![w] = [where |-> "memory", holds |-> Stored]]
          /\ UNCHANGED graph
     ELSE /\ graph_store' = [graph_store EXCEPT ![w] = [where |-> "database"]]
          /\ graph' = graph \cup Stored
  /\ EndStage(w, "SUCCESS", 0)
  /\ UNCHANGED <<importVars, job, dry_run, outcomes, own, destination, history, lost, runs>>

\* build_graph only adds; GraphSync interleaves its statements with writers.
GraphStep(w) ==
  /\ AtStep(w, "graph")
  /\ IF dry_run[w]
     THEN /\ graph_store' = [graph_store EXCEPT ![w] = [where |-> "memory", holds |-> Stored]]
          /\ UNCHANGED graph
     ELSE /\ graph_store' = [graph_store EXCEPT ![w] = [where |-> "database"]]
          /\ graph' = graph \cup Stored
  /\ EndStage(w, "SUCCESS", 0)
  /\ UNCHANGED <<importVars, job, dry_run, outcomes, own, destination, history, lost, runs>>

\* The report of the intelligence step is built in a graph of its own and read
\* by no later step.
IntelligenceStep(w) ==
  /\ AtStep(w, "intelligence")
  /\ EndStage(w, "SUCCESS", 0)
  /\ UNCHANGED <<importVars, world, job, dry_run, outcomes, graph_store, own>>

\* _graph_data takes the graph store of the context or builds a fresh graph;
\* the other exporters read the memory store.
Rendered(w, format) ==
  IF format = "csv" \/ graph_store[w] = NoGraph THEN Stored
  ELSE IF graph_store[w].where = "database" THEN graph
  ELSE graph_store[w].holds

Exporting(w) == AtStep(w, "export") /\ ~Unhandled(Current(w))
ExportPlace(w) == <<job[w], Len(stages[w]) + 1>>

ExportStep(w) ==
  /\ Exporting(w)
  /\ IF dry_run[w]
     THEN EndStage(w, "DRY_RUN", 0) /\ UNCHANGED destination
     ELSE /\ EndStage(w, "SUCCESS", 0)
          /\ destination' = [destination EXCEPT
               ![ExportPlace(w)] = Rendered(w, Current(w).format)]
  /\ UNCHANGED <<importVars, job, dry_run, outcomes, graph_store, own,
                 graph, history, lost, runs>>

\* write_text opens the file, which empties it, and then writes: whoever is
\* stopped on the way leaves the old file or one that is cut short.
CutShort(w) ==
  destination' \in {destination, [destination EXCEPT ![ExportPlace(w)] = NULL]}

\* The disk is full, or the place is no file: an OSError is no
\* MeetingMemoryError, so it ends the run as a crash does (and is counted as one).
WriteFails(w) ==
  /\ Exporting(w) /\ ~dry_run[w]
  /\ crashes < MaxCrashes
  /\ crashes' = crashes + 1
  /\ CutShort(w)
  /\ Discard(w, outcomes[w] \o stages[w])
  /\ Reset(w)
  /\ StoresNothing
  /\ UNCHANGED <<file, dry_run, graph, history, runs>>

UnknownStep(w) ==
  /\ Running(w) /\ Unhandled(Current(w))
  /\ EndStage(w, "FAILURE", 0)
  /\ UNCHANGED <<importVars, world, job, dry_run, outcomes, graph_store, own>>

------------------------------------------------------------------------------
(* The end of a run *)
\* _aggregate_status of the stages.
JobStatus(results, dry) ==
  CASE Failed(results) -> "FAILURE"
    [] ~Failed(results) /\ (\E i \in DOMAIN results : results[i].status = "PARTIAL") -> "PARTIAL"
    [] OTHER -> IF dry THEN "DRY_RUN" ELSE "SUCCESS"

FinishJob(w) ==
  /\ job[w] # NULL /\ ~Running(w)
  /\ history' = Append(history,
       [job |-> job[w], dry_run |-> dry_run[w],
        status |-> JobStatus(stages[w], dry_run[w]), stages |-> stages[w]])
  /\ Reset(w)
  /\ StoresNothing
  /\ UNCHANGED <<file, crashes, dry_run, graph, destination, lost, runs>>

\* The process dies; what it committed stays, what it would have reported goes,
\* and so may the file it was writing.
JobCrash(w) ==
  /\ job[w] # NULL
  /\ crashes < MaxCrashes
  /\ crashes' = crashes + 1
  /\ IF Exporting(w) /\ ~dry_run[w] THEN CutShort(w) ELSE UNCHANGED destination
  /\ Discard(w, outcomes[w] \o stages[w])
  /\ Reset(w)
  /\ StoresNothing
  /\ UNCHANGED <<file, dry_run, graph, history, runs>>

Proceed(w) ==
  \/ Unreadable(w) \/ Undecodable(w) \/ Preview(w) \/ ReadFile(w)
  \/ ParseFails(w) \/ Persist(w) \/ PersistRaises(w) \/ EndImport(w)
  \/ GraphStep(w) \/ IntelligenceStep(w) \/ ExportStep(w) \/ WriteFails(w)
  \/ UnknownStep(w) \/ FinishJob(w)

AutomationNext ==
  \E w \in Worker :
    \/ \E j \in Job, dry \in BOOLEAN : StartJob(w, j, dry)
    \/ Proceed(w)
    \/ JobCrash(w)

AutomationSpec == AutomationInit /\ [][AutomationNext]_jobVars

------------------------------------------------------------------------------
Reported(w) == IF dry_run[w] THEN 0 ELSE StoredBy(stages[w]) + StoredBy(outcomes[w])
RecordedWork ==
  Total([n \in DOMAIN history |-> IF history[n].dry_run THEN 0 ELSE StoredBy(history[n].stages)])
ReportedWork == Cardinality(UNION {{w} \X (1 .. Reported(w)) : w \in Worker})

\* Every memory in the store is counted once: in the history, in a run under
\* way, or among those whose report an exception or a crash threw away.
\* Concurrent runs over the same files never count a memory twice, and a
\* preview counts nothing.
WorkAccounted ==
  Cardinality(Stored) = RecordedWork + lost + ReportedWork

\* The good files of an import stage that did not fail are registered, and so
\* are the bad ones of a success: somebody imported the same text from a file
\* of another kind.
ImportedAsReported(j, i, result) ==
  \A f \in ToSet(StepsOf[j][i].files) :
    result.status = "SUCCESS" \/ (result.status = "PARTIAL" /\ FileKind[f] = "good")
      => HashRegistered(HashOf[f])

\* A recorded run says what happened: unless it failed it went through all of
\* its steps; each import stage imported what it claims; and only a run whose
\* every file got through is a success.
HistoryTruthful ==
  \A n \in DOMAIN history :
    LET r == history[n]
        steps == StepsOf[r.job]
    IN  /\ r.status # "FAILURE" => Len(r.stages) = Len(steps)
        /\ ~r.dry_run =>
             \A i \in DOMAIN r.stages : steps[i].type = "import" =>
               /\ ImportedAsReported(r.job, i, r.stages[i])
               /\ r.status = "SUCCESS" =>
                    \A f \in ToSet(steps[i].files) : HashRegistered(HashOf[f])

\* An exported graph is as new as the last graph step before it: an import in
\* between is the pipeline's own doing.
UpToDate(j, i) ==
  LET steps == StepsOf[j]
      before(type) == {k \in 1 .. i - 1 : steps[k].type = type}
  IN  \/ steps[i].format = "csv"
      \/ before("graph") = {}
      \/ \A k \in before("import") : \E g \in before("graph") : k < g

\* What a run exports shows every memory the run has stored, also when other
\* runs import, build the graph and export at the same time, unless one of them
\* was stopped while writing the same file.
ExportCoversImport ==
  \A w \in Worker : job[w] # NULL /\ ~dry_run[w] =>
    \A i \in DOMAIN stages[w] :
      LET step == StepsOf[job[w]][i]
          later == {k \in i + 1 .. Len(StepsOf[job[w]]) : StepsOf[job[w]][k].type = "import"}
      IN  step.type = "export" /\ stages[w][i].status = "SUCCESS"
            /\ UpToDate(job[w], i) /\ later = {}
          => destination[<<job[w], i>>] = NULL \/ own[w] \subseteq destination[<<job[w], i>>]

\* "without writing": while only dry runs are under way, nothing is stored, no
\* graph table grows and no file is written.
DryRunWritesNothing ==
  [][(\A w \in Worker : job[w] # NULL => dry_run[w]) =>
       UNCHANGED <<tables, graph, destination>>]_jobVars

\* "a batch with one bad file aggregates to `partial` while still importing
\* the good files": a run that leaves an import step alive has registered
\* every good file of it.
GoodFilesImported ==
  [][\A w \in Worker :
       AtStep(w, "import") /\ ~dry_run[w] /\ crashes' = crashes
         /\ (Len(stages'[w]) # Len(stages[w]) \/ job'[w] # job[w]) =>
       \A f \in ToSet(Current(w).files) : FileKind[f] = "good" => HashRegistered(HashOf[f])]_jobVars
==============================================================================
