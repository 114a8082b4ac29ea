----------------------------- MODULE FrontDoors -----------------------------
(***************************************************************************)
(* The HTTP API with its dashboard, the SDK client and the command line,   *)
(* each an entrance to Services.  An endpoint, page, client method or      *)
(* command is the set of requests it can be sent: a program, or a request  *)
(* its own validation turns away.  Callers of all doors are served at      *)
(* once: one asks anything, once, or walks the list of meetings page by    *)
(* page; the others import all the time.                                   *)
(***************************************************************************)
EXTENDS Services

CONSTANTS
  Path,        \* what an import can be pointed at: [connector, opens, files], the files
               \* of different names
  TypeOrder,   \* the members of MemoryType in order
  Walker,      \* the caller that walks the pages
  PageSize,    \* how many meetings to a page
  MaxOffset,   \* the largest offset asked for
  Writer       \* callers that import; the others ask anything, once
ASSUME PathAssumption == \A p \in Path : IsFiniteSet(p.files)
\* Every type once.
ASSUME TypesAssumption ==
  /\ TypeOrder \in Seq(Kind)
  /\ \A k \in Kind : \E i \in DOMAIN TypeOrder : TypeOrder[i] = k
  /\ \A i, j \in DOMAIN TypeOrder : TypeOrder[i] = TypeOrder[j] => i = j
ASSUME WalkAssumption == Walker \in Caller /\ PageSize \in Nat \ {0} /\ MaxOffset \in Nat

VARIABLES tour \* the walk: [stage, offset, seen, wanted]

frontVars == <<db, journals, session, tour>>

Request(door, program) == [door |-> door, program |-> program, valid |-> TRUE]
Invalid(door) == [door |-> door, program |-> <<>>, valid |-> FALSE]

------------------------------------------------------------------------------
(* HTTP: parameters outside their bounds are refused before a service is called *)
Http(programs) == {Request("http", p) : p \in programs}
Checked(programs) == Http(programs) \cup {Invalid("http")}

\* limit 1..500 and offset from 0, both optional.
Pagination == [limit : {NoLimit, PageSize}, offset : 0 .. MaxOffset]
SomeMemory == SomeMeeting \X Kind
How(dry) == IF dry THEN "dry run" ELSE "connector"
\* Pipelines, and a configuration that is refused.
RunRequests ==
  {RunConfig(FALSE, <<ImportPath(p, "connector", TRUE), OpenGraph, Search(Kind)>>) : p \in Path}
    \cup {RunConfig(TRUE, <<>>)}

ServerPaths ==
  {ImportPath(p, How(dry), recursive) : p \in Path, dry \in BOOLEAN, recursive \in BOOLEAN}
Uploads == {ImportContent(t, How(dry)) : t \in Text \cup {"garbled"}, dry \in BOOLEAN}

\* A body with neither path nor content is a 400.
ImportEndpoint ==
  Http(ServerPaths \cup Uploads) \cup Checked({Do("check", "HTTPException")})
\* Mutant of ListMeetingsEndpoint: the total is taken before the page.
ListMeetingsEndpoint_TotalFirst ==
  Checked({CountMeetings \o ListMeetings(page.limit, page.offset) : page \in Pagination})
ListMeetingsEndpoint ==
  Checked({ListMeetings(page.limit, page.offset) \o CountMeetings : page \in Pagination})
StatsEndpoint == Http({Stats(TypeOrder)})
GetMeetingEndpoint == Http({GetMeeting(x) : x \in SomeMeeting})
ListMemoriesEndpoint == Checked({QueryMemories(Kind) \o CountOf("total", Kind)})
GetMemoryEndpoint == Http({GetMemory(m) : m \in SomeMemory})
SearchEndpoint == Checked({Search(Kind)})
SummaryEndpoint == Checked({Summary})
NeighborsEndpoint == Checked({Neighbors(<<x>>) : x \in SomeMeeting})
PathEndpoint == Checked({PathBetween})
InsightsEndpoint == Checked({Insights})
MetricsEndpoint == Http({Metrics})
RecommendationsEndpoint == Checked({Recommendations})
\* Mutant of ReportsEndpoint: any format is passed on.
ReportsEndpoint_AnyFormat == Http({Analyze \o Render(f) : f \in {"markdown", "unknown"}})
ReportsEndpoint == Checked({Analyze \o Render("markdown")})
RunEndpoint == Http(RunRequests) \cup Checked({Do("check", "HTTPException")})
ListJobsEndpoint == Checked({Jobs})
ListLogsEndpoint == Checked({Logs})
HealthEndpoints == Http({<<>>})

\* The dashboard.
OverviewPage == Http({Stats(TypeOrder) \o Summary \o Metrics \o Jobs})
MeetingsPage == Checked({ListMeetings(PageSize, 0)})
SearchPage == Http({<<>>, Search(Kind)})
GraphPage == Checked({Summary})
InsightsPage == Http({Analyze})
ReportsPage == Http({Analyze \o Render("markdown")})
JobsPage == Http({Jobs \o Logs})

HttpRequests ==
  UNION {ImportEndpoint, ListMeetingsEndpoint, StatsEndpoint, GetMeetingEndpoint,
         ListMemoriesEndpoint, GetMemoryEndpoint, SearchEndpoint, SummaryEndpoint,
         NeighborsEndpoint, PathEndpoint, InsightsEndpoint, MetricsEndpoint,
         RecommendationsEndpoint, ReportsEndpoint, RunEndpoint, ListJobsEndpoint,
         ListLogsEndpoint, HealthEndpoints}
PageRequests ==
  UNION {OverviewPage, MeetingsPage, SearchPage, GraphPage, InsightsPage, ReportsPage, JobsPage}

------------------------------------------------------------------------------
(* The SDK: the same endpoints, in the caller's process or over a connection *)
Through(endpoint) == {[r EXCEPT !.door = "sdk"] : r \in endpoint}

\* The file is read by the client, before anything is sent.
ClientImportFile ==
  Through(Http({Do("check", "FileNotFoundError"), Do("check", "UnicodeDecodeError")})
            \cup {r \in ImportEndpoint : r.program \in Uploads})
ClientImportDirectory == Through({r \in ImportEndpoint : r.program \in ServerPaths})
ClientMeetings == Through(ListMeetingsEndpoint)
ClientGetMeeting == Through(GetMeetingEndpoint)
ClientStats == Through(StatsEndpoint)
ClientMemories == Through(ListMemoriesEndpoint)
ClientGetMemory == Through(GetMemoryEndpoint)
ClientSearch == Through(SearchEndpoint)
ClientGraph == Through(SummaryEndpoint)
ClientNeighbors == Through(NeighborsEndpoint)
ClientPath == Through(PathEndpoint)
ClientInsights == Through(InsightsEndpoint)
ClientMetrics == Through(MetricsEndpoint)
ClientRecommendations == Through(RecommendationsEndpoint)
ClientReport == Through(ReportsEndpoint)
ClientRunPipeline == Through(RunEndpoint)
ClientJobs == Through(ListJobsEndpoint)
ClientLogs == Through(ListLogsEndpoint)

SdkRequests ==
  UNION {ClientImportFile, ClientImportDirectory, ClientMeetings, ClientGetMeeting, ClientStats,
         ClientMemories, ClientGetMemory, ClientSearch, ClientGraph, ClientNeighbors, ClientPath,
         ClientInsights, ClientMetrics, ClientRecommendations, ClientReport, ClientRunPipeline,
         ClientJobs, ClientLogs}

------------------------------------------------------------------------------
(* The command line *)
Cli(programs) == {Request("cli", p) : p \in programs}

\* parse and extract load the file themselves and never touch the store.
HandleParse == Cli({Do("check", e) : e \in {None, "TranscriptLoadError", "ParseError"}})
HandleExtract == HandleParse
HandleImport ==
  Cli({ImportFile(SourcesAt(p, FALSE)[1], "command") : p \in {q \in Path : q.connector = "file"}})
HandleList == Cli({QueryMemories(Kind)})
HandleShow == Cli({GetMemory(m) : m \in SomeMemory})
HandleMeetings == Cli({ListMeetings(l, 0) : l \in {NoLimit, PageSize}})
HandleStats == Cli({Stats(TypeOrder)})
HandleSearch == Cli({Search(Kind)})
HandleTimeline == HandleSearch
HandleExplain == Cli({Explain(m) : m \in SomeMemory})
HandleGraph == Cli({Summary})
HandleNeighbors == Cli({Neighbors(<<x>>) : x \in SomeMeeting})
HandlePath == Cli({PathBetween})
HandleExportGraph == Cli({GraphExport})
HandleInsights == Cli({Analyze})
\* The Prometheus format adds the store's counts.
HandleMetrics == Cli({Analyze, Analyze \o Stats(TypeOrder)})
HandleRecommendations == Cli({Analyze})
HandleReport == Cli({Analyze \o Render("markdown")})
HandleImportDir == Cli({program \o Log("logs") : program \in ServerPaths})
HandleExport == Cli({Export("json") \o Log("logs")})
HandleAutomate == Cli(RunRequests)
HandleJobs == Cli({Jobs})
HandleLogs == Cli({Logs})
\* The memories of each meeting, read one meeting after the other, are read at once.
HandleReplay == Cli({Do("all meetings", {}) \o QueryMemories(Kind)})
HandleDemo ==
  Cli({ImportPath(p, "connector", TRUE) \o Stats(TypeOrder) \o Search(Kind) \o Summary \o Analyze
         \o Render("markdown") : p \in {q \in Path : q.connector = "directory"}})
\* Every profiled operation runs twice, for its time and for its memory.
HandleProfile == Cli({p \o p : p \in {Search(Kind), Summary, Analyze, Analyze \o Render("markdown")}})

CliRequests ==
  UNION {HandleParse, HandleExtract, HandleImport, HandleList, HandleShow, HandleMeetings,
         HandleStats, HandleSearch, HandleTimeline, HandleExplain, HandleGraph, HandleNeighbors,
         HandlePath, HandleExportGraph, HandleInsights, HandleMetrics, HandleRecommendations,
         HandleReport, HandleImportDir, HandleExport, HandleAutomate, HandleJobs, HandleLogs,
         HandleReplay, HandleDemo, HandleProfile, {Invalid("cli")}}

Requests == HttpRequests \cup PageRequests \cup SdkRequests \cup CliRequests
\* What the writers send.
Imports ==
  Http({ImportContent(t, "connector") : t \in Text}
         \cup {ImportPath(p, "connector", TRUE) : p \in {q \in Path : q.connector = "directory"}})

------------------------------------------------------------------------------
(* A request comes in, is answered, or its process dies *)
Answers == {"ready", "died", "ok", "error", "APIError", "raised", "exit 1", "exit 2"}
Start(c, request) ==
  session' = [session EXCEPT ![c] =
    [Idle EXCEPT !.door = request.door, !.program = request.program, !.asked = request.program,
                 !.reply = IF request.valid THEN "busy" ELSE "invalid"]]

Ask(c) ==
  /\ session[c].reply \in IF c \in Writer THEN Answers ELSE {"ready"}
  /\ c = Walker => tour.stage = "never"
  /\ \E r \in IF c \in Writer THEN Imports ELSE Requests : Start(c, r)
  /\ UNCHANGED <<db, journals, tour>>

Run(c) == session[c].reply = "busy" /\ Statement(c) /\ UNCHANGED tour

StatusFor(error) ==
  IF error \in {"MemoryNotFoundError", "MeetingNotFoundError", "NodeNotFoundError"} THEN 404
  ELSE IF error = "DuplicateMeetingError" THEN 409
  ELSE IF error \in Domain \cup {"HTTPException"} THEN 400
  ELSE IF error = "invalid" THEN 422 ELSE 500

\* `automate` exits with 1 when the job failed.
Succeeds(c) == ~(session[c].door = "cli" /\ Got(c).outcomes = <<"failure">>
                   /\ \E i \in DOMAIN session[c].asked : session[c].asked[i] = Log("jobs")[1])

\* What the caller may see: success, an error response, the exception APIError,
\* an exception that nobody handled (in the SDK's local mode; a remote one gets
\* the server's 500 as an APIError), an exit code.
Shown(c) ==
  LET door == session[c].door
      reply == session[c].reply
  IN  IF reply = "busy" THEN {IF Succeeds(c) THEN "ok" ELSE "exit 1"}
      ELSE IF reply = "invalid"
      THEN {CASE door = "cli" -> "exit 2" [] door = "sdk" -> "APIError" [] OTHER -> "error"}
      ELSE
        CASE door = "cli" -> {IF reply \in Domain THEN "exit 1" ELSE "raised"}
          [] door = "sdk" -> IF StatusFor(reply) = 500 THEN {"raised", "APIError"} ELSE {"APIError"}
          [] door = "http" -> {IF StatusFor(reply) = 500 THEN "raised" ELSE "error"}

Reply(c) ==
  /\ session[c].program = <<>> /\ session[c].reply \notin Answers
  /\ \E shown \in Shown(c) : session' = [session EXCEPT ![c].reply = shown]
  /\ UNCHANGED <<db, journals, tour>>

\* A process that dies while it appends leaves a line without its end.
DieAppending(c) ==
  /\ Serving(c, "append")
  /\ journals' = [journals EXCEPT ![Argument(c)] = FALSE]
  /\ session' = [session EXCEPT ![c].program = <<>>, ![c].reply = "died"]
  /\ UNCHANGED <<db, tour>>

------------------------------------------------------------------------------
(* A client that wants every meeting asks for one page after the other until
   the offset has reached the total. *)
PageRequest(offset) ==
  {r \in ListMeetingsEndpoint :
     \E i \in DOMAIN r.program : r.program[i] = ListMeetings(PageSize, offset)[1]}

NextPage ==
  /\ tour.stage \in {"new", "next"} /\ session[Walker].reply = "ready"
  /\ \E r \in PageRequest(tour.offset) : Start(Walker, r)
  /\ tour' = [tour EXCEPT !.stage = "asked", !.wanted = IF tour.stage = "new" THEN Known ELSE @]
  /\ UNCHANGED <<db, journals>>

TakePage ==
  /\ tour.stage = "asked" /\ session[Walker].reply = "ok"
  /\ LET next == tour.offset + Len(Got(Walker).page)
     IN  tour' = [tour EXCEPT !.seen = @ \cup ToSet(Got(Walker).page), !.offset = next,
                              !.stage = IF next >= Got(Walker).counts[1][2] THEN "over" ELSE "next"]
  /\ session' = [session EXCEPT ![Walker] = Idle]
  /\ UNCHANGED <<db, journals>>

FrontInit ==
  /\ ServicesInit
  /\ \E stage \in {"new", "never"} : tour = [stage |-> stage, offset |-> 0, seen |-> {}, wanted |-> {}]

FrontNext ==
  \/ \E c \in Caller : Ask(c) \/ Run(c) \/ Reply(c) \/ DieAppending(c)
  \/ NextPage \/ TakePage

FrontSpec == FrontInit /\ [][FrontNext]_frontVars

------------------------------------------------------------------------------
\* Paging by offset until the reported total is reached shows every meeting
\* that was there when the walk began, whatever is imported meanwhile.
PagesComplete == tour.stage = "over" => tour.wanted \subseteq tour.seen

Tally(c, part) ==
  FoldLeft(LAMBDA sum, x : IF x[1] = part THEN sum + x[2] ELSE sum, 0, Got(c).counts)

\* stats takes its counts one after the other from a store that grows: a
\* later one covers the memories of an earlier one, and they agree when
\* nothing was written in between.
StatsCover ==
  \A c \in Caller : session[c].asked = Stats(TypeOrder) /\ session[c].reply = "ok" =>
    /\ Tally(c, "total") <= Tally(c, "by type")
    /\ Tally(c, "by type") <= Tally(c, "by status")
    /\ session[c].alone => Tally(c, "total") = Tally(c, "by status")

\* An exception that no door handles comes from a source that cannot be read
\* or from a journal with a broken line, whatever the request and its timing.
FailuresExplained ==
  \A c \in Caller : session[c].reply = "raised" =>
    \/ \E j \in DOMAIN journals : ~journals[j]
    \/ \E i \in DOMAIN session[c].asked :
         LET s == session[c].asked[i]
         IN  \/ s[1] = "process file" /\ s[2].source.text \in {"binary", "missing"}
             \/ s[1] = "resolve" /\ ~s[2].opens
             \/ s \in {Do("check", e)[1] : e \in {"FileNotFoundError", "UnicodeDecodeError"}}
==============================================================================
