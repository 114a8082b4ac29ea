------------------------------ MODULE Services ------------------------------
(***************************************************************************)
(* The services every front door calls: each call opens the database, runs *)
(* a few statements and closes it again, so what one request reports is    *)
(* put together from several states of the store.  A call is a program, a  *)
(* sequence of statements; each statement is an action, and the statements *)
(* of other callers come in between.                                       *)
(*                                                                         *)
(* Saving a meeting, saving its memories and building the graph are one    *)
(* statement each: MeetingImport and GraphSync take them apart.            *)
(***************************************************************************)
EXTENDS Naturals, Sequences, FiniteSets, FiniteSetsExt, SequencesExt, Ordering

CONSTANTS
  Caller,
  Text,        \* transcripts, identified with their hashes
  Kind,        \* memory types
  Yields,      \* Text -> the types of the memories found in it
  NameIn,      \* Text -> the meeting id its metadata names, or None
  MeetingName, \* meeting ids, which file names can be
  PathRank,    \* MeetingName -> the place of the file of that name in a listing
  SomeMeeting, \* those callers ask for, one of which may be stored already
  DateRank     \* MeetingName -> its place in the order of meeting dates

None == "none"
NoLimit == 0
ASSUME NamesAssumption ==
  /\ Yields \in [Text -> SUBSET Kind]
  /\ NameIn \in [Text -> MeetingName \cup {None}]
  /\ DateRank \in [MeetingName -> Nat]
  /\ \A x, y \in MeetingName : DateRank[x] = DateRank[y] => x = y

VARIABLES
  db,       \* [meetings, memories, graph]: MeetingName -> Text or None; pairs of a meeting
            \* and a type; the graph's nodes, <<meeting>> or memory
  journals, \* {"jobs", "logs"} -> is every line of that JSON Lines file one record?
  session   \* Caller -> the request under way or answered last

serviceVars == <<db, journals, session>>

NoneYet == [page |-> <<>>, counts |-> <<>>, memories |-> {}, meetings |-> {}, outcomes |-> <<>>]
Idle == [door |-> None, program |-> <<>>, got |-> NoneYet, reply |-> "ready", alone |-> TRUE,
         asked |-> <<>>]

\* What earlier requests may have left: nothing, or one meeting with its
\* memories, in the graph or not; journals with a broken
\* line or without.
ServicesInit ==
  /\ \/ db = [meetings |-> [x \in MeetingName |-> None], memories |-> {}, graph |-> {}]
     \/ \E x \in SomeMeeting, t \in Text :
          LET found == {x} \X Yields[t]
          IN  /\ NameIn[t] \in {None, x}
              /\ \E graph \in {{}, {<<x>>} \cup found} :
                   db = [meetings |-> [y \in MeetingName |-> IF y = x THEN t ELSE None],
                         memories |-> found, graph |-> graph]
  /\ \E whole \in BOOLEAN : journals = [j \in {"jobs", "logs"} |-> whole]
  /\ session = [c \in Caller |-> Idle]

Known == {x \in MeetingName : db.meetings[x] # None}
HasText(t) == \E x \in Known : db.meetings[x] = t

------------------------------------------------------------------------------
(* Programs *)
Do(what, arg) == <<<<what, arg>>>>
Log(journal) == Do("append", journal)

\* MeetingService
ListMeetings(limit, offset) == Do("list meetings", [limit |-> limit, offset |-> offset])
CountMeetings == Do("count meetings", {})
GetMeeting(x) == Do("get meeting", x)
CountOf(part, kinds) == Do("count memories", [part |-> part, kinds |-> kinds])


CountByType(kinds) == FlattenSeq([i \in DOMAIN kinds |-> CountOf("by type", {kinds[i]})])

\* Mutant of Stats: the total is taken after the types.
Stats_TotalLater(kinds) ==
  CountMeetings \o CountByType(kinds) \o CountOf("total", Kind) \o CountOf("by status", Kind)

\* The meetings, all memories, those of each type in turn, those of each
\* status (imported memories are all active).
Stats(kinds) ==
  CountMeetings \o CountOf("total", Kind) \o CountByType(kinds) \o CountOf("by status", Kind)

\* One file of an import: its text is looked up, its meeting registered, its
\* memories saved.
ImportFile(source, how) ==
  LET arg == [source |-> source, how |-> how]
  IN  Do("process file", arg) \o Do("register", arg) \o Do("save memories", arg)

\* Files whose extension has a reader, in the order of their paths; those
\* below the top only when asked for.
Readable(path, recursive) ==
  LET files == {f \in path.files : f.supported /\ (f.nested => recursive)}
  IN  Arranged(files, {p \in files \X files : PathRank[p[1].stem] < PathRank[p[2].stem]})

\* A single file stands for itself, a directory for what is in it, an archive
\* for all its members.
SourcesAt(path, recursive) ==
  CASE path.connector = "directory" -> Readable(path, recursive)
    [] path.connector = "archive" -> Readable(path, TRUE)
    [] path.connector = "file" -> SetToSeq(path.files)
    [] OTHER -> <<>>

ImportPath(path, how, recursive) ==
  LET files == SourcesAt(path, recursive)
  IN  Do("resolve", path) \o FlattenSeq([i \in DOMAIN files |-> ImportFile(files[i], how)])

\* The text is written to a file called upload first.
ImportContent(text, how) ==
  ImportPath([connector |-> "file", opens |-> TRUE,
              files |-> {[text |-> text, stem |-> "upload", supported |-> TRUE, nested |-> FALSE]}],
             how, FALSE)

\* MemoryService
QueryMemories(kinds) == Do("query memories", kinds)
GetMemory(m) == Do("get memory", m)

\* RetrievalService
Search(kinds) == Do("all meetings", {}) \o QueryMemories(kinds)
Explain(m) == GetMemory(m) \o GetMeeting(m[1])

\* GraphService
OpenGraph == Do("build graph", {})
Summary == OpenGraph \o Do("read graph", {}) \o Do("read graph", {})
Neighbors(node) == OpenGraph \o Do("get node", node) \o Do("read graph", {})
PathBetween == OpenGraph \o Do("read graph", {})
GraphExport == OpenGraph \o Do("read graph", {}) \o Do("read graph", {})

\* IntelligenceService.
\* Lists the memories before their meetings.
Analyze == OpenGraph \o QueryMemories(Kind) \o Do("all meetings", {})

Insights == Analyze
Metrics == Analyze
Recommendations == Analyze
Render(format) == Do("check", IF format = "unknown" THEN "ValueError" ELSE None)

\* ExportService: the format is looked up when the graph has been built.
Export(format) ==
  OpenGraph \o Do("check", IF format = "unknown" THEN "UnknownConnectorError" ELSE None)
    \o QueryMemories(Kind) \o Do("all meetings", {})

\* AutomationService: an error of the package ends a stage and the run is
\* still logged and recorded; a job ends with its first failed stage.
RunJob(steps) ==
  FlattenSeq([i \in DOMAIN steps |-> steps[i] \o Log("logs") \o Do("stage", {})])
    \o Log("logs") \o Log("jobs")
RunConfig(problem, steps) == Do("check", IF problem THEN "PipelineConfigError" ELSE None) \o RunJob(steps)
RunFile(problem, steps) == RunConfig(problem, steps)
Jobs == Do("read journal", "jobs")
Logs == Do("read journal", "logs")

------------------------------------------------------------------------------
(* How a caller goes on *)
Now(c) == Head(session[c].program)
Argument(c) == Now(c)[2]
Serving(c, what) == session[c].program # <<>> /\ Now(c)[1] = what
Got(c) == session[c].got

\* On to the k-th statement from here; others are no longer alone when a
\* statement wrote to the store.
Onward(c, k, got, wrote) ==
  session' = [d \in Caller |->
    IF d = c
    THEN [session[c] EXCEPT !.program = SubSeq(@, k + 1, Len(@)), !.got = got]
    ELSE [session[d] EXCEPT !.alone = @ /\ ~wrote]]

\* The errors that derive from MeetingMemoryError.
Domain == {"MeetingNotFoundError", "MemoryNotFoundError", "NodeNotFoundError",
           "DuplicateMeetingError", "UnknownConnectorError", "PipelineConfigError",
           "TranscriptLoadError", "ParseError"}
InJob(c) == \E i \in DOMAIN session[c].program : session[c].program[i] = Log("jobs")[1]
Failed(c) == [Got(c) EXCEPT !.outcomes = <<"failure">>]

Throw(c, error) ==
  \/ /\ InJob(c) /\ error \in Domain
     /\ Onward(c, Len(session[c].program) - 2, Failed(c), FALSE)
  \/ /\ ~(InJob(c) /\ error \in Domain)
     /\ session' = [session EXCEPT ![c].program = <<>>, ![c].reply = error]

StoreOnly == UNCHANGED <<db, journals>>

------------------------------------------------------------------------------
(* Statements that read *)
ByDate(rows) == \A i, j \in DOMAIN rows : i < j => DateRank[rows[i]] < DateRank[rows[j]]
Chronological(xs) == CHOOSE rows \in [1 .. Cardinality(xs) -> xs] : ByDate(rows)

\* Order, then offset, then limit.
PageOf(rows, limit, offset) ==
  SubSeq(rows, offset + 1, IF limit = NoLimit THEN Len(rows) ELSE Min({Len(rows), offset + limit}))

ListMeetingRows(c) ==
  /\ Serving(c, "list meetings")
  /\ LET rows == PageOf(Chronological(Known), Argument(c).limit, Argument(c).offset)
     IN  Onward(c, 1, [Got(c) EXCEPT !.page = rows], FALSE)
  /\ StoreOnly

AllMeetingRows(c) ==
  /\ Serving(c, "all meetings")
  /\ Onward(c, 1, [Got(c) EXCEPT !.meetings = Known], FALSE)
  /\ StoreOnly

Counted(c, part, rows) ==
  [Got(c) EXCEPT !.counts = Append(@, <<part, Cardinality(rows)>>)]

CountRows(c) ==
  /\ \/ /\ Serving(c, "count meetings")
        /\ Onward(c, 1, Counted(c, "meetings", Known), FALSE)
     \/ /\ Serving(c, "count memories")
        /\ Onward(c, 1, Counted(c, Argument(c).part, {m \in db.memories : m[2] \in Argument(c).kinds}), FALSE)
  /\ StoreOnly

QueryRows(c) ==
  /\ Serving(c, "query memories")
  /\ Onward(c, 1, [Got(c) EXCEPT !.memories = {m \in db.memories : m[2] \in Argument(c)}], FALSE)
  /\ StoreOnly

\* One row by its key, or the error that it is not there.
FetchRow(c) ==
  /\ \/ /\ Serving(c, "get meeting")
        /\ \/ Argument(c) \in Known /\ Onward(c, 1, [Got(c) EXCEPT !.meetings = {Argument(c)}], FALSE)
           \/ Argument(c) \notin Known /\ Throw(c, "MeetingNotFoundError")
     \/ /\ Serving(c, "get memory")
        /\ \/ /\ Argument(c) \in db.memories
              /\ Onward(c, 1, [Got(c) EXCEPT !.memories = {Argument(c)}], FALSE)
           \/ Argument(c) \notin db.memories /\ Throw(c, "MemoryNotFoundError")
     \/ /\ Serving(c, "get node")
        /\ \/ Argument(c) \in db.graph /\ Onward(c, 1, Got(c), FALSE)
           \/ Argument(c) \notin db.graph /\ Throw(c, "NodeNotFoundError")
  /\ StoreOnly

ReadGraph(c) ==
  /\ Serving(c, "read graph")
  /\ Onward(c, 1, Got(c), FALSE)
  /\ StoreOnly

\* A journal that does not exist is an empty one; a line that is no JSON
\* document raises.
ReadJournal(c) ==
  /\ Serving(c, "read journal")
  /\ \/ /\ journals[Argument(c)]
        /\ Onward(c, 1, Got(c), FALSE)
     \/ ~journals[Argument(c)] /\ Throw(c, "JSONDecodeError")
  /\ StoreOnly

Check(c) ==
  /\ Serving(c, "check")
  /\ \/ Argument(c) = None /\ Onward(c, 1, Got(c), FALSE)
     \/ Argument(c) # None /\ Throw(c, Argument(c))
  /\ StoreOnly

------------------------------------------------------------------------------
(* Statements that write *)
\* INSERT OR IGNORE of whatever the store holds.
BuildGraph(c) ==
  /\ Serving(c, "build graph")
  /\ db' = [db EXCEPT !.graph = @ \cup {<<x>> : x \in Known} \cup db.memories]
  /\ Onward(c, 1, Got(c), FALSE)
  /\ UNCHANGED journals

\* A connector for the path, by its extension; an archive is opened here.
ResolveSource(c) ==
  /\ Serving(c, "resolve")
  /\ LET path == Argument(c)
     IN  \/ path.connector = None /\ Throw(c, "UnknownConnectorError")
         \/ path.connector = "archive" /\ ~path.opens /\ Throw(c, "BadZipFile")
         \/ path.connector # None /\ path.opens /\ Onward(c, 1, Got(c), FALSE)
  /\ StoreOnly

Outcome(c, status) == [Got(c) EXCEPT !.outcomes = Append(@, status)]
NameFor(source) == IF NameIn[source.text] = None THEN source.stem ELSE NameIn[source.text]

\* The file is read and hashed, its text looked up, then parsed.  What cannot
\* be read is an outcome for a connector and an exception for the command
\* `import`; what does not parse is an outcome or an error of the package; a
\* decoding error escapes both.
ProcessFile(c) ==
  /\ Serving(c, "process file")
  /\ LET text == Argument(c).source.text
         how == Argument(c).how
     IN  \/ text = "binary" /\ Throw(c, "UnicodeDecodeError")
         \/ text = "missing" /\ how = "command" /\ Throw(c, "FileNotFoundError")
         \/ text = "garbled" /\ how = "command" /\ Throw(c, "ParseError")
         \/ /\ text \in {"missing", "garbled"} /\ how # "command"
            /\ Onward(c, 3, Outcome(c, "failure"), FALSE)
         \/ /\ text \in Text /\ how = "dry run"
            /\ Onward(c, 3, Outcome(c, "dry_run"), FALSE)
         \/ /\ text \in Text /\ how # "dry run" /\ HasText(text)
            /\ Onward(c, 3, Outcome(c, "skipped"), FALSE)
         \/ /\ text \in Text /\ how # "dry run" /\ ~HasText(text)
            /\ Onward(c, 1, Got(c), FALSE)
  /\ StoreOnly

\* save_meeting refuses a known id or text; the command looks its own id up then.
Register(c) ==
  /\ Serving(c, "register")
  /\ LET source == Argument(c).source
         name == NameFor(source)
     IN  \/ /\ name \notin Known /\ ~HasText(source.text)
            /\ db' = [db EXCEPT !.meetings[name] = source.text]
            /\ Onward(c, 1, Got(c), TRUE)
         \/ /\ name \in Known \/ HasText(source.text)
            /\ IF Argument(c).how # "command" THEN Throw(c, "DuplicateMeetingError")
               ELSE IF name \in Known THEN Onward(c, 2, Outcome(c, "skipped"), FALSE)
               ELSE Throw(c, "MeetingNotFoundError")
            /\ UNCHANGED db
  /\ UNCHANGED journals

SaveMemories(c) ==
  /\ Serving(c, "save memories")
  /\ LET source == Argument(c).source
     IN  db' = [db EXCEPT !.memories = @ \cup ({NameFor(source)} \X Yields[source.text])]
  /\ Onward(c, 1, Outcome(c, "success"), TRUE)
  /\ UNCHANGED journals

\* The status of the stage that ends here.
EndStage(c) ==
  /\ Serving(c, "stage")
  /\ LET outcomes == ToSet(Got(c).outcomes)
     IN  \/ outcomes = {"failure"} /\ Onward(c, Len(session[c].program) - 2, Got(c), FALSE)
         \/ outcomes # {"failure"} /\ Onward(c, 1, [Got(c) EXCEPT !.outcomes = <<>>], FALSE)
  /\ StoreOnly

\* One line; a record may hold a character that splitlines breaks at.
AppendRecord(c) ==
  /\ Serving(c, "append")
  /\ \E whole \in BOOLEAN : journals' = [journals EXCEPT ![Argument(c)] = @ /\ whole]
  /\ Onward(c, 1, Got(c), FALSE)
  /\ UNCHANGED db

Statement(c) ==
  \/ ListMeetingRows(c) \/ AllMeetingRows(c) \/ CountRows(c) \/ QueryRows(c) \/ FetchRow(c)
  \/ ReadGraph(c) \/ ReadJournal(c) \/ Check(c)
  \/ BuildGraph(c) \/ ResolveSource(c) \/ ProcessFile(c) \/ Register(c) \/ SaveMemories(c)
  \/ EndStage(c) \/ AppendRecord(c)
==============================================================================
