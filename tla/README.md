# Verification of the meeting memory system

TLA+ models of `src/src/meeting_memory/`, TLC configurations that check them on
small instances, and TLAPS proofs for every instance. Paths below are relative
to that package unless they start with `docs/` or `README`. Line numbers for
every definition are in `PROJECT.json` under `map`.

    tlc -workers 2 -config MeetingImport.cfg MCMeetingImport   # a run
    tlapm MemoryStoreProofs.tla                                # the proofs

1. [The system](#1-the-system)
2. [Modules](#2-modules)
3. [Runs](#3-runs)
4. [What the runs refute](#4-what-the-runs-refute)
5. [Proofs](#5-proofs)
6. [Abstractions, bounds and fairness](#6-abstractions-bounds-and-fairness)
7. [Not modelled](#7-not-modelled)
8. [Plan](#8-plan)

## 1. The system

Meeting transcripts go in, a searchable organizational memory comes out:

    file -> parser -> extraction -> memory store -> graph -> intelligence
                                     |     |                     |
                                 snapshots, retrieval, replay   exports
                                 backups

Everything persistent is one SQLite file: the store's tables, the graph's
tables and the schema version. There is no server that owns it. The CLI, the
HTTP API (a fresh connection per service call) and scheduled automation jobs
open the same file, so *processes interleave statement by statement*, and only
what the code puts into `with self._connection` is atomic. Beside the database
lie JSON Lines files (job history, logs) and, on demand, snapshots and backups.

| Component | State it keeps | Operations | Hard behaviour | What makes it correct |
| --- | --- | --- | --- | --- |
| Memory store (`storage/sqlite_store.py`, `base.py`) | tables `meetings`, `memories`, `evidence`, `metadata` | save, save_many, update, delete, save_meeting, delete_meeting, set_status and its five wrappers, reads | two foreign keys with different delete actions, a child table with none; batches that fail in the middle | no dangling row; children are exactly those owed; a transcript once; a pointer only on superseded memories |
| Import and persistence (`storage/importer.py`, `persistence.py`, `dedup.py`) | the caller's position, the candidates left after duplicate detection | import_meeting, persist_extraction, filter_duplicates | check-then-insert races, two transactions for one import, crashes, edited and renamed files | a meeting has all its memories or none, each point once; losses only by crashes |
| Schema migrations (`storage/migrations.py`) | `user_version`, the objects created | apply_migrations in every constructor | several processes opening an old file at once, death inside a script | `user_version` never claims what is not there; an open store is current |
| Snapshots (`recovery/snapshot.py`) | the file, its checksum | export_snapshot, import_snapshot | torn exports, damaged files, pointers that are foreign keys into the table being filled, an import of many transactions | round trip; nothing invented; fails only when disturbed: by a client that writes during the export, a death during an earlier import, or an unverified file |
| Knowledge graph (`graph/builder.py`, `store.py`, `linking.py`, `relationships.py`, `entities.py`) | tables `graph_nodes`, `graph_edges` | build_graph, add_nodes, add_edges | append-only rebuild from a store in motion, death between the two transactions | edges find their nodes; a rebuild covers the store; it is exact as long as history only grows at its end |
| Connector imports (`connectors/importers.py`) | outcomes of the batch so far | execute, dry_run of single files, directories, batches, archives | one bad file of many, duplicates, exceptions that leave the loop | the report says what was stored |
| Automation pipelines (`connectors/automation.py`, `base.py`, `exporters.py`) | stage results, the context's graph store, the history file | run_job: import, graph, intelligence and export steps | concurrent jobs, failure in the middle, dry runs, death before the history is written | history is truthful, exports are fresh, dry runs write nothing |
| Backup and restore (`recovery/database.py`) | the database file itself | backup, restore, validate_database | unlink-then-copy with crashes, and clients that hold the old file open or migrate the new one | a restore leaves the old database or the backup, whole |
| Graph queries (`graph/engine.py`, `lineage.py`) | none | neighbors, find_path, connected_components, lineage | cycles, limits, a rebuild while edges are read | the results of reference definitions |
| Scheduler (`connectors/scheduler.py`) | none | parse_cron, cron_next, next_run, simulate | calendar jumps | the next matching minute and no other |
| Retrieval (`retrieval/`) | none | plan, filter, rank, order, page, explain, context | three statements and a transcript read later; recency among few or missing dates | no ranking is upside down; each hit says why it is one |
| Replay (`replay/`) | a playhead | timeline; play, step, seek, run | reads meeting by meeting; the meetings' order is not the search's | tells what a search of the same range finds; counts each memory once |
| Parser and loader (`parser/`, `io/`) | turns so far | load, parse, validate | what a line is depends on the lines before it | nothing of a transcript is lost, moved or put into another mouth |
| Extraction (`extraction/`) | none | extract, deduplicate, filter, sort | merging across extractors and speakers, before the floor | each thing said is told once, by its best match |
| Intelligence (`intelligence/`) | none | analyze: context, insights, recommendations, metrics, scores | statements read apart, every part counted by code of its own | filters only narrow; the parts agree |
| Services (`services/`) and the front doors: HTTP API and dashboard (`api/`), SDK (`sdk/`), CLI (`cli.py`) | the request under way | every method, route, page, client call and command | one answer from several states of the store | pages miss nothing, counts cover each other, every failure has a cause |
| Structured logs and job history (`connectors/logging.py`, `automation.py`) | JSON Lines files | append, list | a last line cut off by a crash | a listing fails only for a broken line |
| Observability (`observability/`) | histograms shared by threads, `tracemalloc` | observe, snapshot, render; profile | fields read one by one without the observers' lock; one tracer per process | a snapshot's numbers fit together; tracing is left as it was found |

Interactions. `import_meeting` and the connectors call `persist_extraction`,
which calls the store twice. `build_graph` reads the store and writes the graph
tables of the same file. Snapshots read one store and write another through the
public store operations. A job holds one store and at most one graph store open
for all its steps and exports from them. Every constructor of a store runs the
migrations first. A front door calls one service method per request, or, in the
CLI, several; each call opens the database, runs its statements and closes it.
Search, replay and analysis read in several statements, each of which sees what
was committed until then.

## 2. Modules

| Module | Models | Uses |
| --- | --- | --- |
| `MemoryStore` | the store, one action per operation (each is one transaction) | |
| `MemoryRegistry` | what a store promises: registered meetings, whole records | refined by `MemoryStore` |
| `MeetingImport` | several importing processes and deleting clients, statement by statement | `MemoryStore` |
| `SchemaMigration` | several processes that open one database | |
| `SnapshotTransfer` | export from one store, damage, import into another | `MemoryStore` twice (the target by `INSTANCE`) |
| `MemoryGraph` | nodes and edges of a reading of the store, as operators | `MemoryStore` |
| `GraphSync` | the rebuild against a store in motion | `MemoryGraph` |
| `GraphQueries` | one question to the graph engine, round by round | |
| `Intelligence` | one analysis, statement by statement | `GraphSync` |
| `AutomationJobs` | concurrent automation jobs; their imports are the statements of `MeetingImport` | `MeetingImport` |
| `Transcripts` | one file loaded, parsed line by line and validated | |
| `Extraction` | the pipeline on the parsed meeting | `Transcripts` |
| `BackupRestore` | one call of the manager against clients of the same path | |
| `Scheduler` | one call of `simulate`, jump by jump, over any calendar | |
| `Services` | every service method as a program of statements | |
| `FrontDoors` | API, dashboard, SDK and CLI: the requests, and a client that pages | `Services` |
| `Observability` | a histogram and memory profiles under threads | |
| `Retrieval` | one search of a store that others change | |
| `Replay` | a replay of that store, and its playhead | `Retrieval` |
| `Ordering` | Python's `sorted`, as the sequence of a set's elements by an order | used by `GraphQueries`, `Observability`, `Retrieval` and `Services` |
| `Totals` | Python's `sum` | used by `AutomationJobs` and `Observability` |
| `OrderingProofs` | lemmas on numbers, orders, iteration and sums that several proofs cite | `Ordering`, `Totals` |
| `MemoryStoreProofs`, `MeetingImportProofs`, `SchemaMigrationProofs`, `AutomationJobsProofs` | theorems about the module of that name | that module; the store's theorems where its operations are used |
| `SnapshotTransferProofs` | theorems about `SnapshotTransfer` and `BackupRestore` | those modules |
| `GraphSyncProofs` | theorems about `GraphSync`, `Intelligence` and `GraphQueries` | those modules |
| `QueriesProofs` | theorems about `Scheduler`, `FrontDoors`, `Observability`, `Retrieval` and `Replay` | those modules |
| `MC...` | the values of the constants for TLC | one of the above, or several |

Four MC modules run components side by side: a behaviour belongs to one of them
and leaves the variables of the others alone. `MCSnapshotTransfer` holds
`SnapshotTransfer` and `BackupRestore`; `MCGraphSync` holds `GraphSync`,
`GraphQueries` and `Intelligence`; `MCAutomationJobs` holds `AutomationJobs` and
`Extraction`; `MCQueries` holds `Scheduler`, `FrontDoors`, `Observability` and
`Replay`.

**MemoryStore.** `meetings` maps a meeting id to the transcript hash of its row
or to `NULL`; `memories` maps a memory id to its row (meeting, content, status,
successor). `evidence` and `metadata` are sets of rows `<<owner, content>>`.
`content` stands for all columns and children that no operation looks at; a
child row remembers for which content it was written, so a stale child shows.
`Insertable` is what SQLite checks at each `INSERT` of a batch; `Without` is the
`memories` table after `ON DELETE SET NULL`; `OwnedBy` selects the children that
the code deletes by hand. An operation either commits as a whole or answers with
the exception it raises. `Update` and `SetStatus` let the driver's own
`IntegrityError` escape as the code does.

**MeetingImport.** A worker's `pc` names its next statement: the importer's hash
lookup, the two lookups of `save_meeting`, the `INSERT` of the meeting, the read
of existing memories, the batch of memories. The last two writes are separate
transactions. `HandleDuplicate` is the `except DuplicateMeetingError` of
`import_meeting`, which looks the meeting up by *id* even if the *hash*
collided. `delete_meeting` is two steps, because its `SELECT` runs before the
transaction. A file is a name (which decides the ids), a text (which decides the
hash) and the memories extracted from it.

**SchemaMigration.** `executescript` commits statement by statement, so a script
is a sequence of steps, each of which fails if the object exists. The version is
raised after the script. A process reads `user_version` once, when it opens.

**SnapshotTransfer.** The two `SELECT`s of the export are separate, other clients
write before and between them (any operation of `MemoryStore`), the file may
lose a record, change one or make one unreadable, and the import stops anywhere
and is tried again on what it left. `Verify` is all that precedes the first
write: the checksum, which `--no-verify` passes over (`forced` remembers that it
did not match), and the records, of which a malformed one refuses the file.

**MemoryGraph and GraphSync.** `GraphNodes` and `GraphEdges` build all edge kinds
of `relationships.py`, `linking.py` and the builder from a *reading*: a function
from listed meetings to the records found under each. `GraphSync` makes the
reading piecemeal while clients import, supersede, restore and delete; nodes and
edges are added in one transaction each, with `INSERT OR IGNORE`.

**AutomationJobs.** A worker runs a job: a sequence of steps. An import step takes
its files one at a time through `ReadFile` and the actions of `MeetingImport`
(`Persist`); a duplicate met by `save_meeting` is not handled here as in
`import_meeting` but raises out of the loop (`PersistRaises`). `GraphStep`
replaces the context's graph store, `Rendered` is what an exporter reads,
`FinishJob` appends to the history. `WriteFails` is the `OSError` of an export's
`write_text`, which the executor does not catch: it ends the run as a death of the
process does, `crashes` counts both, and either may leave the file cut short
(`CutShort`). A step that names an unknown type, source or format fails alike
(`UnknownStep`): `UnknownConnectorError` is caught where an unknown type is. `own` and `lost` are history variables: what
a run has stored, and how much was stored by files whose outcomes were thrown
away by an exception or a crash.

**Scheduler.** `cursor` is the moment `next_run` is asked about, `candidate` the
minute a search looks at. Each branch of `cron_next`'s loop is an action
(`SkipMonth`, `SkipDay`, `SkipHour`, `SkipMinute`, `Found`), `GiveUp` is the
horizon. The calendar is eight functions of a minute; the only thing assumed of
it is that a unit's field keeps its value until the next unit begins
(`CalendarAssumption`). A cron token is what its text denotes; `Wildcard` tells
`*` from `*/1` as the code does. Comparing a time with and without a timezone
ends the call (`TypeError`).

**GraphQueries.** The loops of `neighbors`, `related`, `find_path`,
`connected_components`, `_component` and `relationship_lineage`, one `SELECT` per
action: `selects` is the set of reads to come, `rows` what they returned. A
neighborhood's nodes are then looked up one by one (`FindNode`) and filtered at the
end (`FilterNodes`). The reads
of one round happen in the order of the code, those of a lineage's members in any
order, because the code iterates over a set. Between any
two, another process may add nodes and arcs (`NodesArrive`, `ArcsArrive`), in two
transactions as `add_nodes` and `add_edges` do; nothing is ever removed. `visited`,
`queue`, `came_from` and `used` are the code's variables; `first` is a ghost, the
graph at the time of the question.

**Intelligence.** `Rebuild`, `ListMemories` and `ListAllMeetings` are the
statements of `analyze`, between which clients delete meetings (`Interrupted`);
`BuildReport` computes the rest. `Context` filters memories and meetings apart,
as `build_context` does. Each family of insights, each metric and each score is
an operator of its own, with the thresholds of the code and its roundings, in
units of one ten-thousandth. A history that is a cycle has no start, and no
insight; histories that join share an id.

**BackupRestore.** `file` maps a path to the database there: missing, empty,
whole, damaged, or a file that is no database, which a backup is not written
over. `restore` is the code's sequence verify, unlink, create, copy;
a client's `at` says whether it is migrating, writing, or writing into a file
that has lost its name. SQLite's copy is one step, since it holds writers off.

**Transcripts and Extraction.** A line is a name, and `Look` says what the
parser's patterns see in it (a label, a timestamp, a fence, a bullet, nothing);
`ReadLine` takes the line the way the loop does, given the turns so far. A text
is a sequence of pieces, so that one can see where each came from. Extraction
gives each piece its cues and computes owners, confidences, question rules,
duplicates, the floor and the order as the pipeline does.

**Services and FrontDoors.** A program is a sequence of statements; `session`
holds what is left of it, what it has got and what is answered. A program that
throws is mapped to the answer of its door: a status, an exit code, or `raised`
when nobody handles the exception. Each route, page, client method and command
is the set of requests it can be sent. Graph builds and imports are taken as one
or two statements here; `GraphSync` and `MeetingImport` take them apart.

**Observability.** A thread keeps the histogram it was handed, as the callers
do; `scrape` reads one field per step; `observed` is a ghost, what must be seen.
For `profile_memory` only whether tracing is on matters.

**Retrieval and Replay.** Texts are sequences of words. `Lexicon` says what the
planner takes a word for; the plan, the filters, the five components of a score,
the orders, the page, the reasons and the quoted windows are operators, and the
reads between them actions. The transcript of a hit is read when the hit is
explained, and kept for later hits of the same meeting (`LinesOf`). `ImportMeeting`
and `ImportNotes` are the two transactions of an import. `Replay` builds its timeline meeting by meeting from
the same shelf, and moves the playhead.

## 3. Runs

States are distinct states; times are on two cores.

| Run | Module / cfg | Instance | States | Shows |
| --- | --- | --- | --- | --- |
| `store` | `MCMemoryStore` | 2 meetings, 3 memories, 2 contents, batches with repeated ids, forward, backward and self pointers | 34,834 (120 s) | foreign keys and child rows; every call is a step of `MemoryRegistry` or none |
| `import` | `MCMeetingImport` / `MeetingImport` | a transcript, its copy, its edit; 2 importers, 1 deleter, 1 crash | 2,250,524 (96 s) | nothing stored in part or twice; only a crash abandons a meeting |
| `import_unit` | / `ImportUnit` | 1 importer, 1 crash | refuted | see 4 |
| `migration` | `MCSchemaMigration` / `Migration` | the 12 and 10 statements of the two scripts, 3 processes, 2 crashes, from every version | 12,852 (6 s) | no false version, one upgrader, upgrades complete |
| `migration_crash` | / `MigrationCrash` | as above | refuted | see 4 |
| `snapshot` | `MCSnapshotTransfer` / `SnapshotTransfer` | 2 meetings, 2 memories, cycles and self-supersession; a live path and a backup, clients, a crash | 1,575,024 (29 s) | round trip, nothing invented, fails only if disturbed; restores exact |
| `restore_atomic` | `BackupRestore` / `RestoreAtomic` | one restore, one backup, one client | refuted | see 4 |
| `graph` | `MCGraphSync` / `GraphSync` | 3 dated meetings, 6 memories of four types, 2 people, 2 entities, 3 changes; all graphs of 4 nodes and up to 3 edges, 27 questions, one edge and one node added; 352 stores, 7 analyses | 1,875,424 (62 s) | edges attached, rebuild covers, exact while tidy; shortest paths, exact neighbourhoods and components, whole lineages; reports that agree |
| `graph_stale` | / `GraphStale` | imports only | refuted | see 4 |
| `automation` | `MCAutomationJobs` / `Automation` | 5 pipelines, 6 files of every kind, 2 workers, 2 runs, dry or wet, 1 crash; 2525 transcripts, 3 configurations | 185,165 (33 s) | work accounted, history truthful, exports fresh, dry runs pure; transcripts kept, things said told once |
| `automation_input` | / `AutomationInput` | one batch with a file that is not UTF-8 | refuted | see 4 |
| `queries` | `MCQueries` / `Queries` | 157 schedules from 3 moments on a calendar of 24 short days; every request of every door against an importer, pages of one meeting and offsets up to 2; a histogram of 3 changes, 2 threads; 21 errands on stores of 3 or 4 meetings and one change | 1,227,743 (111 s) | no run missed; pages and counts complete; snapshots and profiles explained; rankings, reasons and timelines right |

The properties, by the question they answer:

- *Store.* `ReferentialIntegrity`, `ChildrenExact` (nothing is left for a later
  memory of the same id to pick up), `PointerOnlyWhenSuperseded`, and the
  refinement `ImplementsRegistry`.
- *Import.* `ExclusiveWriter`: the checks race, but the `INSERT` lets one worker
  through, so between its two transactions a worker has its meeting to itself.
  Hence `MemoriesMatchTranscript` (all distinct points of one transcript or
  none) and `LossOnlyByCrash`. These suppose that no meeting has been deleted: a
  deletion between a worker's two transactions makes its batch fail.
  `EvidenceExact` holds with deletions too. `metadata` is not in it: it has no
  foreign key, and `delete_meeting` removes the rows of the memories it read
  before the transaction, so rows of a memory that arrived in between stay behind:
  no property rules these orphans out.
- *Migrations.* `VersionImpliesSchema`, `OpenMeansCurrent`, `OneUpgrader`, and the
  liveness property `UpgradeCompletes`.
- *Snapshots and backups.* `RoundTrip`, `NothingInvented`, `FailsOnlyIfDisturbed`.
  The first two speak of files that were verified, or match their checksum all the
  same. The third names the causes an import may fail for. One of them (`raced`) is a
  client that writes between the two `SELECT`s of the export: the snapshot is torn,
  and its own checksum certifies it. The property explains that failure and does not
  rule it out. `RestoreExact`: a restore that nobody disturbed leaves the database it
  found, or the backup, whole, and a verified one fails only before it unlinks. It
  says nothing of a restore that dies half-way, which `restore_atomic` is about, or
  of one that clients of the same path disturb.
- *Graph.* `EdgesAttached` (the builder never trips over its own foreign keys),
  `RebuildCovers` (after a rebuild no node or edge of the store is missing, even
  if an earlier build died or read a moving store), `ExactWhileTidy` (as long as
  history only grows at its end, building step by step gives what one build
  gives: the chain of repeated contents is extended, never cut).
- *Graph queries.* What is promised holds between the graph as it was when the
  question was asked and as it is when it is answered, and exactly if nothing was
  added. `PathShortest`: a path that exists, no longer than the shortest there was;
  none within `max_depth` is missed. `NeighborhoodExact`: the nodes within `depth`
  steps and the edges at those within one step less, after types and limit.
  `ComponentsExact`: components part the nodes into what is connected. The run checks
  these two as one, `SearchesExact`. `LineageWhole`:
  no node comes twice, even in a cycle, and of a history that is a chain all is
  returned that was within `max_depth` steps, whichever node is asked about, also if a
  rebuild appends to it.
- *Intelligence.* `FiltersNarrow`: what is said of one memory (overdue, aging,
  unresolved) is said with and without filters, and a filter by person leaves that
  person's load as it is. `ReportAgrees`: a metric that passes a threshold has its
  insight and no other has; what recurs shows in the scores.
- *Automation.* `WorkAccounted`: each stored memory is counted once, in the
  history, in a run under way, or in `lost`. `HistoryTruthful`: a recorded run
  that did not fail went through all its steps, its import stages registered
  every good file, and only a run whose every file got through is a success.
  `ExportCoversImport`: an export shows all that its own run stored, if the
  pipeline rebuilds the graph after importing or never builds it, unless a run was
  stopped while it wrote the file.
  `DryRunWritesNothing`.
- *From text to memories.* `TranscriptKept`: every line of an accepted body that is
  not blank is found, once and in order, in the utterance of the speaker named last
  before it; JSON items keep their places. `SaidOnce`: whatever a rule finds at or
  above the floor is told once, at least as sure, at the first utterance that says
  it so surely; with ids that differ, in order, with its own words.
- *Scheduler.* `RunsExact`: up to the latest run, the runs listed are all the due
  minutes, found by trying each minute; `ScheduleError` is raised only if there
  is none within the horizon. `RunsIncrease`.
- *Front doors.* `PagesComplete`: a client that pages until the reported total is
  reached has seen every meeting there was when it began. `StatsCover`: counts
  taken one after the other from a store that grows cover each other, and agree
  when nothing was written. `FailuresExplained`: an exception that no door handles
  comes from a source or a journal that cannot be read, whatever the timing. Outputs
  are taken to be writable there: an `OSError` of a file that a command or a job
  writes escapes the doors as well (`WriteFails` of `AutomationJobs`).
- *Observability.* `SnapshotsExact`: each number of a snapshot was true at some
  moment of it, buckets are cumulative and fit the count. `ProfilesExplained`.
- *Retrieval and replay.* `BestFirst`: of two hits the one at least as good in every
  respect and newer comes first. `HitsExplained`: each condition of the plan is
  among the reasons, and a quotation surrounds the memory's own words.
  `TimelinesAgree`: a replay of a range of dates plays what a search of it returns,
  if no two meetings have one date (the two order such meetings differently); the
  replay of a person or project leaves out no meeting in which a search finds them.

Every property of a passing run has a *mutant* in `PROJECT.json`: a change of one
definition, of the kind a bug in that code would be, under which the run fails.
Mutants stand in the modules next to what they change, marked as such.

## 4. What the runs refute

Each of these is a statement of the repository that the code does not keep; the
counterexample is the run's.

1. `import_unit`: a process that dies between `save_meeting` and `save_many`
   leaves a registered meeting without memories, and re-importing the file
   reports a duplicate. `storage/persistence.py:5` calls the two writes "a
   single logical unit".
2. `migration_crash`: a process that dies inside a script leaves objects that
   make every later open fail. `storage/migrations.py:4`: "opening an old
   database upgrades it in place".
3. `graph_stale`: a meeting imported later but dated between two others leaves
   the edge that linked those two as neighbours. `README.md:566-567`: the graph
   "always reflects the current data".
4. `automation_input`: a file that is not UTF-8 raises `UnicodeDecodeError`,
   which neither the import loop nor the executor catches; later files are not
   imported and the history gets no record. `docs/connectors.md:67-68`: "a batch
   with one bad file aggregates to `partial` while still importing the good
   files".
5. `restore_atomic`: `restore` unlinks the live database and then copies the backup
   into a new file; in between the path holds neither. `docs/backup.md:78-79`: "the
   target database is replaced atomically".

What follows was met while modelling. The models take the code as it is, so most of
it is part of them, but it has no run of its own and hardly any of it takes an
interleaving to see.

Reading and importing:

- an edited transcript keeps its meeting id, so re-importing it reports a
  duplicate and changes nothing. `docs/tutorials/import-meetings.md:62`: "Edit the
  transcript and re-import to update it.";
- every text posted to the service is stored as `upload` plus its suffix, so the
  second one that names no meeting collides with the first (409);
- the command `import` ends with a traceback for a missing or a binary file, where
  the connectors report an outcome;
- a line such as `12:75 Bob: ...` makes the whole transcript malformed; a JSON
  timestamp of `NaN` or `Infinity` escapes as `ValueError` or `OverflowError`;
- duplicates are merged across speakers: of two people who commit to the same
  thing in the same words one is kept.

Schedules and histories:

- a `once` schedule whose time has no timezone, as in `docs/connectors.md:165`,
  makes the CLI's `schedule` command raise `TypeError` unless `--after` is given:
  the default is the current time in UTC (`cli.py:1164`), and
  `connectors/scheduler.py:181` compares the two. The action is `AskOnce`;
- a `once` schedule without a time is due whenever it is asked about, so
  `simulate` lists the start `count` times; `docs/connectors.md:133` says
  "strictly after a moment". `RunsIncrease` excepts it;
- the horizon of five years (`connectors/scheduler.py:22-24`: "Feb 29 is the
  widest gap at 4 years") is shorter than the eight years around 2100: from March
  2096 on, `0 0 29 2 *` raises `ScheduleError`. `RunsExact` promises no more than
  the horizon;
- `GET /jobs` says "most recent first" (`api/routers/automation.py:42`) and lists
  in the order of the file; a limit of 0 lists all (`records[-0:]`,
  `connectors/automation.py:333`, `connectors/logging.py:222`);
- a broken line of a journal, an unreadable source and a bad archive are answered
  with a plain 500, where `docs/api.md:89` says "Every failure returns a structured
  body". `FailuresExplained` excepts exactly these.

Reading it back:

- two risks make a project a hotspot "linked to 4 risks": `project_metrics`
  (`intelligence/analysis.py:142`) counts edges, and each mention has two, `mentions`
  and `blocks`, also those of deleted risks and of risks the filters exclude.
  `intelligence/risk.py:37` says of the threshold of three: "Distinct risks on one
  project before it is a "hotspot"";
- decisions whose history is a cycle are never reported as superseded; a memory that
  supersedes two others has two histories, of which a lineage shows one, so that
  asked about the other memory it does not contain it;
- the context of a hit quotes the transcript as it is now, a bound on the confidence
  from above has no reason, and a name of several words is never recognised in a
  query;
- search and replay order meetings of one date differently, and a playhead's
  `position` counts the events it skipped;
- an unknown export format is refused after the graph has been built; `restore` in
  the CLI exits with 0 when the report says it is not valid; a backup or restore
  to its own path waits for itself for ever;
- a Prometheus page may show a count above its last bucket, and a reset that comes
  while a mean is taken makes it divide by zero. `SnapshotsExact` excepts both.

## 5. Proofs

`MemoryStoreProofs` proves for all sets of ids, hashes, contents and batches:
`TypeCorrect`, `IntegrityHolds`, `ChildrenHold`, `TranscriptsUnique`,
`PointersCoupled` and `StoreImplementsRegistry`. Assumed are
`BatchAssumption` (batches are sequences of records in which only a superseded
memory has a successor: the package builds records from extracted memories, with
no successor, or from records a store held before) and `NullAssumption` (`NULL`
is no id, hash, row or record).

- The inductive invariant is the conjunction of the five invariants. None but
  the type invariant is inductive alone: `PointerOnlyWhenSuperseded` needs
  `ReferentialIntegrity` for the pointers that a deletion clears, and
  `ChildrenExact` needs to know that a deleted meeting's memories are the ones
  whose children were deleted by hand.
- `WithoutRows` says what the `SET NULL` cascade leaves; `InsertedRows` what a
  batch adds; `RemovalStep`, `ReviseStep` and `RememberStep` match deletions,
  updates and batches with the registry's actions; `StepRefines` has one step
  per operation.

`SchemaMigrationProofs` proves for any number of processes, scripts, statements
and crashes: `MigrationTypeCorrect`, `SchemaBehindVersion`, `OpenStoreCurrent`,
`UpgraderExclusive` and the action property `VersionNeverBack`, from
`MigrationAssumption`.

- The inductive invariant adds to the checked invariants: `ScriptSoFar` (an
  upgrader has created what comes before its next statement), `VersionKeepsUp`
  (`user_version` is never behind the version before the one it applies) and
  `MidwayVersion` (exactly there once its script is midway). The argument: a
  process past the first statement of script *v* is in a database of version
  *v - 1*; whoever else were past the first statement would have to be in the
  same script, whose first statement it could not have executed, since it exists.

`QueriesProofs` proves for every calendar, schedule, start and count of `Scheduler`:
`SchedulerTypeCorrect`, `SearchIsExact` (`RunsExact`) and `RunsInOrder`
(`RunsIncrease`), from `CalendarAssumption` and `CallAssumption`.

- `RunsExact` speaks of runs that are listed. The inductive invariant adds what
  the search has passed: between `cursor` and `candidate` nothing is due
  (`NoneDue`, in `CronSearch` and `WeeklySearch`), and the candidate of a weekly
  search is a midnight. `JumpPassesNothing` is the heart: the minutes that a jump
  passes share with the candidate the field that did not match.
- `WithinCalendar` uses the bound `LastMinute`: a search begins only where its
  whole horizon has fields.

`MeetingImportProofs` proves for any number of importers and deleting clients, any
files and any number of crashes: `ImportTypeCorrect`, `EvidenceHolds`
(`EvidenceExact`), `WritersExclude` (`ExclusiveWriter`), `MemoriesMatch`
(`MemoriesMatchTranscript`), `NoImportFails` and `LossBounded` (`LossOnlyByCrash`).

- Assumed is `FileAssumption`: the memories extracted from a file belong to the
  meeting the file names, have different ids and no successor, and two files share a
  memory id only if they name the same meeting. The code builds a memory's id from
  its meeting's, and `EvidenceExact` rests on it: `delete_meeting` deletes the
  children of ids it has read before, and only because an id never moves to another
  meeting (`OwnersFixed`) are those children the deleted meeting's.
- The rest of the inductive invariant holds until a meeting is deleted
  (`Undisturbed`). `WriterPrepared`: between its two transactions a worker's meeting
  is registered with its hash and holds no memory, and what it is about to insert is
  every point of its transcript once. No second worker can be there, because the
  `INSERT` of the meeting would have failed. So its batch is insertable, and after it
  the meeting is `Complete`.
- `KeptWhole` says that the duplicate filter keeps each point of a transcript: of the
  places where a content occurs the first one is kept. There is always a first one
  (`LeastNatural` in `MemoryStoreProofs`, which the library's well-founded order of
  the naturals gives).
- `LossBounded` counts: `FewerAbandoned` and `CrashesCounted` show that a step
  abandons no meeting unless it is a crash, which abandons at most one.

`SnapshotTransferProofs` proves for any two stores, writers, damage and restarts:
`TargetHolds` (the target keeps the integrity of a store all along), `RoundTripHolds`,
`NothingInventedHolds` and `FailureExplained` (`FailsOnlyIfDisturbed`).

- The target is a second `MemoryStore`; what `MemoryStoreProofs` shows of the store's
  operations is used for it by `INSTANCE` (`TargetProofs`).
- The inductive invariant follows the transfer. `Reading`: until the file is written
  the target is empty. `Exported`: what the checksum stands for has unique transcripts
  and pointers to its own memories only, and, unless a writer came between the two
  reads (`raced`), a meeting for each memory. `Explained`: what is in the target was
  exported. `Progress`: what the target holds at each point of the import. That the
  file may be damaged is why the invariant speaks of the checksum and not of the file:
  `VerifyInv` shows they agree once it is accepted, or `forced` is set.
- `SourceInv` adds that a store holds finitely many memories (`FiniteStep`), without
  which its memories could not be listed in a batch.

It also proves of `BackupRestore`, for any clients, backups and releases: `FilesTyped` and
`RestoreHolds` (`RestoreExact`), from `BackupAssumption` (there is a release; the bound
on deaths is a number).

- The invariant `RestoreInv` tells what the live path holds at each stage of an
  undisturbed restore: what it held before until the unlink, the backup as it was
  examined from the copy on. `Attached` is needed beside it: a client that works on
  the live file has one, since the unlink detaches them all. So a write by a client
  after the unlink cannot be taken for the new file's.

`GraphSyncProofs` proves for every store, vocabulary, clients and builders:
`EdgesStayAttached` (`EdgesAttached`), `RebuildsCover` (`RebuildCovers`) and
`RebuildsExact` (`ExactWhileTidy`), from `GraphAssumption`, which says what a memory is
about and that an entity's kind is one of the six the detector knows: so the id of an
entity's node is never that of a memory, a meeting or a person.

- `GraphEdgesJoin`: the ends of all edges of a reading are nodes of that reading. With
  nodes added first, the edges always find theirs, whatever was read.
- `GraphExtended`: a reading that another one extends at its end gives a part of its
  graph. All edge kinds but one grow with the records they are made from;
  `ChainExtended` is about that one, which links neighbours among memories of the same
  content and stays only if nothing comes between them. This is what `tidy` means, and
  why `graph_stale` finds a counterexample without it.
- The inductive invariant: under a build that nothing disturbs, what was read is the
  store's (`ReadsWhole`); while history is tidy, the tables and what each builder is
  about to add are part of the store's graph (`Grown`). A node that is in the table
  already is the node of the store, since the id says what it is (`NodesDetermined`).

It also proves of `Intelligence`, for any stored memories, requests and deletions:
`FiltersOnlyNarrow` (`FiltersNarrow`), without an assumption on the constants.

- The statement is about one report, but not by construction: the two reports it
  compares filter memories and meetings apart. `ContextIsNarrower` shows that a memory
  that passes the filters has the same date in both, also when its meeting does not
  pass them or was deleted between the two reads; so its ages, its thresholds and its
  history are the same. The invariant adds only that a listing has one record to an id.

and of `GraphQueries`, for any graph, any question and any sequence of nodes and edges
that a rebuild adds meanwhile: `PathsAreShortest` (`PathShortest`),
`NeighborhoodsAreExact` (`NeighborhoodExact`), `ComponentsAreExact`
(`ComponentsExact`), the two together as `SearchesAreExact` (`SearchesExact`), and
`LineagesAreWhole` (`LineageWhole`), from `QueryAssumption`
(ids are numbers, finitely many; the unknown id is no node).

- What an answer is compared with is a recursive function, `Ball`: what so many steps
  reach. `GraphOK` says that the graph asked is part of the graph now, hence its balls
  too. The searches themselves are compared with it in *layers*: a family of sets that
  begins with the node asked and takes in the neighbours of each layer contains the
  balls, and one of which each layer has only neighbours of the last is contained in
  them. That needs induction on the number of steps, but on numbers only:
  `LeastNatural` gives the first step at which the two would part.
- `Reading` is what the invariants say between two `SELECT`s: each edge there was at a
  node of this round is read or its read is still to come, and what is read is there.
- `PathInv` has a breadth-first tree: distances `d` along `came_from` and a queue in
  which distances never fall and differ by at most one. Nodes not in the queue have all
  their old neighbours visited, at most one step further (`SearchedSoFar`), so when the
  queue has come to depth *k* nothing within *k* steps was missed.
- `NearInv` puts the visited nodes between two balls of the same radius, the one of the
  graph asked and the one of the graph now, and says the same of the edges followed
  (`Searched`). While the nodes are looked up (`Finding`) both graphs may grow: what is
  found and what is still to be found stay between them.
- `PartInv` (`Parts`): the components so far are disjoint, all but the last are closed
  under the edges read, and each is held together by edges that are there. That all
  that is connected lies within `Cardinality(Id)` steps is `LinkedConnected`: balls that
  grow at every step would soon have more nodes than there are.
- `LineInv`: the members gathered are held together by edges that were read (`Woven`),
  and those edges are met again when the outgoing ones are read for the second time
  (`Rereading`). If the history is a chain, a set of its nodes so held together is a
  stretch of it without gaps; its newest node is the only one nothing supersedes, and
  going down from it the chain runs through the whole stretch.
- Two slips of the model came to light: with a `max_depth` of 0 a lineage read both
  directions of the node itself, and `LineageWhole` had promised more than the code
  gives when `max_depth` ends the search; `LineageDepth` is 2 in the run so that
  it does.

`AutomationJobsProofs` proves for any processes, jobs, files and crashes:
`WorkAdds` (`WorkAccounted`), `HistoryHolds` (`HistoryTruthful`), `ExportsCover`
(`ExportCoversImport`) and the action property `DryRunsHarmless` (`DryRunWritesNothing`),
from `JobAssumption` (among others, that the processes are finitely many) and the
assumptions of `MeetingImport`.

- `Positioned` says where a worker can be: a file is under way only in an import step
  that is no dry run, and it is the next one of the step. Dry runs write nothing for
  that reason alone.
- Everything reported is true when it is reported and stays true: an outcome
  (`OutcomeTrue`), a stage (`StageTrue`) and a recorded run (`RunTrue`) only speak of
  registered texts, and while jobs run no text is taken back (`TruthLasts`). A text is
  registered between a worker's two transactions already (`PersistLeads`).
- `GraphFresh` relates an export to the imports before it: once a graph step has come
  after every import of the job so far, the graph of the database holds what the run
  has stored. Two runs of one job write the same file; `ExportCurrent` shows that
  whichever writes last shows what the other has stored as well, since both are past
  their imports and read the same database.
- `WorkInv` is the balance of `WorkAccounted` and that what is added up are numbers
  (`Counted`). One lemma for each action shows that what it adds to the stored memories
  it adds to one of the three sums: `InsertedCounts` that a batch stores as many as it
  reports, because its ids are distinct and none is stored yet; `HeapMoves` that a move
  of one worker changes its share only; `TotalGrows` and `TotalJoined`
  (`OrderingProofs`) that a stage or a run that is appended is added.

`QueriesProofs` also proves `PagesAreComplete` (`PagesComplete`) of `FrontDoors`, for any
callers, requests and meetings, any page size and any order of registrations, from
`NamesAssumption` (no two meetings have the same place in the order) and
`WalkAssumption` (the walker is a caller, pages are not empty):

- A listing by date is unique, and every meeting stands in it at its `Place`: the number
  of known meetings up to its date (`ListedByDate`, `EachAtItsPlace`). So what stands
  behind an offset is on the page read there or behind its end (`OnPageOrBehind`).
- Between page and page others register meetings. No statement of any service forgets
  one (`StoreKeeps`), so places only grow (`PlaceGrows`): what was not shown yet cannot
  slip to a place before the offset. That is `StillToCome`, the heart of the invariant.
- The total is read after the page. Whatever is still to come has a place up to the
  number of meetings then, and behind what the walk has reached: the walk goes on
  (`HasTotal`). With the two reads swapped this fails, and TLC finds the meeting missed.
- The rest follows the walker's request through its two statements (`Asking`, `HasPage`,
  `HasTotal`), which cannot fail, while any statement of the others leaves it as it is
  (`OthersMove`).

`FailuresAreExplained` (`FailuresExplained`) of the same module holds for any callers,
requests and order of statements, from `PathAssumption` (an import path yields finitely
many files) and `TypesAssumption` (memories are grouped by type, and each type has one
group):

- The invariant `FailuresInv` says that every session accounts for its failures
  (`Accounted`). A program is `Acceptable`: each of its statements is one that cannot
  fail, or one whose exception its door handles, or one that reads a source or a journal
  that was asked for; the steps of a job, which record their exceptions, are followed
  by the line that records the run. A reply is one of the door's, or excused.
- That every program of every service is acceptable is shown along its construction
  (`Composed`): concatenation, one group after the other, one file after the other.
  What the folds and sorts build is stated for any number of parts by induction on the
  number (`FlattensExists`).
- Timing decides which statement fails, and whether the answer is an exception of the
  door's own domain or none; it never makes another exception of it. Journals that are
  broken stay broken, so that an excuse never expires.

and `ProfilesHold` (`ProfilesExplained`) of `Observability`, for any number of threads,
of behaviours in which only memory profiles are taken (`ProfileSpec`). `StillTracing`:
who found tracing on, or has switched it on, keeps it until another call switches it off
under it. `SwitchedBack`: tracing that was on before is never switched off, and while it
is on although it was off before, a call that is going to switch it off is under way.

`SnapshotsAreExact` (`SnapshotsExact`) of the same module, of behaviours in which one
histogram is fed, looked up, reset and read (`MetricsSpec`), for any threads, samples and
bucket edges, from `MetricsAssumption` (edges and samples are numbers, and there are
finitely many edges):

- `Registered`: the histogram that has the name holds what the workers that were handed
  it since the last reset observed, in that order; all others feed one that nobody reads.
- A snapshot *recounts* the samples (`Recounts`): to each field read so far belongs a
  moment of its own, a beginning of the samples as they are now, which begins with the
  samples before the snapshot; a field that is read later has a later moment. So whether
  two fields fit together is a question of their order (`SnapshotRead`,
  `ExpositionRead`): buckets ascend, their total is read after them, the dividend of a
  mean before its divisor.
- What remains is about one sequence and a longer one that begins with it: every field
  but the least sample and the percentiles rises (`ReadRises`); a sum is at most the
  length times the greatest sample (`TotalBounded`); a percentile is one of the samples
  (`PercentileTaken`).

and of `Retrieval` and `Replay`, for any notes, meetings, lexicon, queries and writers
between the statements: `RankingIsSound` (`BestFirst`), `HitsAreExplained`
(`HitsExplained`) and `TimelinesTellTheSame` (`TimelinesAgree`), from
`RecordsAssumption` (dates, ids and positions are numbers, and there are finitely many
records) and `ErrandAssumption`.

- `SearchInv` follows the call: what is ranked are the notes listed, each once, in the
  order of `Precedes`; each of them passes every condition of the plan; each quotation
  is a window around the note's own line, taken from a transcript read for it or for an
  earlier hit (`LinesKnown`). The order is total and transitive because
  keys are compared place by place (`KeysLess`), and the last key is the id.
- Recency is the one component that depends on the other candidates: `Recency` falls
  with the number of later dates, so that a newer candidate has at least as much of it,
  whatever dates are missing.
- `StoryInv` adds what the replay has loaded: of each meeting already read its notes as
  they were, in the order of the listing. If nothing was written since the search began,
  both have read the same shelf; two sequences of the same notes in one strict order
  are equal (`OrderingProofs`), and the orders of the two engines are one where dates
  differ.

Of these, the type invariants, `TranscriptUnique`, `VersionMonotone`, `NoStorageError`
and the target's integrity are proved and not checked by a run; the others are checked
on a small instance as well.

Only model-checked:

- `StatsCover` of `FrontDoors` adds up over sets, `TranscriptKept` and `SaidOnce` fold a
  text line by line: what a fold computes for every input needs induction over data, which is out of
  the proof system's reach, unless each is restated on numbers as the sums of
  `WorkAccounted` were.
- `ReportAgrees` of `Intelligence` is not true of every store, and so no theorem: a
  metric is rounded to four places before it is reported, and the insight compares the
  rate that is not rounded. Of 20,001 commitments with 8,000 resolved the report shows
  0.4 and yet has the insight for less than 0.4. Within the bounds of `graph`, with at
  most six memories, no rate is that close to a threshold.
- `UpgradeCompletes`: liveness under fairness is beyond the proof system.

## 6. Abstractions, bounds and fairness

- *Text is data.* What a pattern finds in a line, what extraction finds in a file,
  and which entities a text mentions, are constants. `Transcripts` and `Extraction`
  compute what the code makes of what its patterns find. Two memories say the same
  if their content is equal; the code compares normalised texts.
- *A transaction is atomic and durable.* SQLite's own locking is taken for
  granted; waiting for a lock, and giving up after the driver's timeout
  (`database is locked`), are left out.
- *A read of one record* is one step, although the code assembles it from three
  `SELECT`s.
- `MaxCrashes` bounds how often processes die in a behaviour. One crash is
  enough to reach every half-finished state of an import, and `LossOnlyByCrash`
  counts them; migrations get two, so that a second process can die in the
  script that the first has left.
- `MaxChanges` bounds the writes of graph clients other than registering a
  meeting. Three are enough to import a meeting between two others, or to
  supersede, delete and import again; a build may lie between any two.
- `MaxRuns` is two in the automation run: two jobs at once, or one after the
  other. Each job meets each other job in all interleavings.
- The three files of the import runs are the ways two files can collide: same
  text and other name, same name and other text. One point is made twice in the
  draft, so that duplicate detection has something to drop.
- The transcripts of `automation` are all sequences of up to three of the kinds of
  line the parser tells apart, the same behind front matter, and JSON of up to two
  items. Three lines are enough to open a turn, continue it and open another.
- The stores of `graph` that are analysed have histories of every shape over four
  decisions (chains, forks, joins, cycles), commitments in every state of being late,
  and risks in every status, over three dates far enough apart to pass the
  thresholds of 30, 90 and 180 days.
- Errands of `queries` pair each kind of query with the replay it can be compared
  with, on stores with at least three of the four meetings; one change (`MaxWrites`)
  may come between any two statements of the search and the replay.
- `FrontDoors` has one reader, who asks one request or walks the pages, and one
  importer who goes on: every statement of the reader can see a larger store.
- `MaxChanges` of `Observability` is three observations, resets or clears, and
  `MaxObjects` two histograms: enough for a thread to feed one that has been replaced.
- `BackupRestore` has one crash (`MaxDeaths`) and backups of one meeting or none;
  a client can be migrating, writing or holding the file at every step of a restore.
- No symmetry is declared: the ids of one type play different parts.
- The runs that end for good say `CHECK_DEADLOCK FALSE`: after `MaxRuns` runs, or
  when a question is answered, a transcript searched, a report built or a replay
  played, nothing is left to do.
- Graphs have at most three edges in `graph` (`MaxEdges`): enough for paths of
  three hops, cycles of three and forks, and for every way two of them share a
  node. One of them may be added while a question is answered (`MaxGrowth`), and a
  fifth node (`Unknown`) stored. `LineageDepth` is two rounds instead of 256, so that
  it ends some searches and not others. Parallel edges and edge ids are left out: no answer depends on
  them but which of two parallel edges a path names.
- The calendar of `queries` has months of unequal length, so that a day of the
  month can be missing, and weeks that are no multiple of its months. Its horizon
  is ten days; `LastMinute` leaves room for one horizon after each run.
- *Fairness* is assumed once, in `SchemaMigration`: weak fairness of `Upgrade`
  per process. A constructor call is straight-line code that waits for nobody,
  so a process that has begun it goes on unless it dies (`Crash`). Opening a
  database is not fair: nobody need do it.

## 7. Not modelled

- The phrase patterns of extraction and of the parser, and entity detection: they
  are tables of patterns, best tested on texts. What the code does with what they
  find is modelled.
- Rendering (reports, HTML, CSV, Mermaid, the exporters' documents), marshalling,
  middleware, argument parsing and printing: no state of their own. The conversion of
  markdown and CSV files to transcripts.
- Of the store, the filters of reads, and `set_status` called with any status: nothing
  in the package calls it but its five wrappers, which are modelled. For the same reason
  no caller of `Services` changes a status while a count by status is taken, and `Stats`
  takes one statement for these counts, where the code has one to each status; of intelligence, the average age of resolved
  memories and the registration of providers; of observability, counters, gauges,
  health checks, CPU profiles and pipeline timers; of the journals, the filters of
  a listing and the other log sinks; of a replay session, delays and speed.
- Of the CLI, `backup`, `restore` and `schedule` are not requests of `FrontDoors`: what
  they do is in `BackupRestore`, `SnapshotTransfer` and `Scheduler`.
- Benchmarks: development tooling.
- In automation: the options that restrict extraction, and reading configurations.
  A graph step is one action there; `GraphSync` interleaves its statements. Which
  files a path yields is in `Services`.
- Hazards without a property are listed in `PROJECT.json` with the reason.

## 8. Plan

Every component but the benchmarks is modelled, at least in part. What is left, in
this order:

1. Proofs: the action property of `FrontDoors` behind `StatsCover`, that counts never
   fall while only imports run, which needs no sum; `UpgradeCompletes`, should the
   proof system come to reason about fairness.
2. `AutomationJobs` on `GraphSync` statement by statement, with two jobs that build
   at once.
