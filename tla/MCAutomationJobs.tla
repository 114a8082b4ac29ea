--------------------------- MODULE MCAutomationJobs ---------------------------
(***************************************************************************)
(* Five pipelines over six files: `draft`, its renamed copy and its edited *)
(* version as in MCMeetingImport, and one file that does not parse, one    *)
(* that cannot be read and one that is not UTF-8.  Or, apart from them,    *)
(* one transcript is read, parsed, and validated or searched for memories. *)
(***************************************************************************)
EXTENDS AutomationJobs, Extraction, TLC

CONSTANTS a, b, m1, m2, m3, m4, c1, c2, h1, h2, h3,
          draft, copy, edited, garbled, missing, binary,
          nightly, refresh, strange, odd, mixed

MCIdOf == [f \in File |-> IF f = copy THEN b ELSE a]
MCHashOf == [f \in File |->
  IF f \in {draft, copy} THEN h1 ELSE IF f = edited THEN h2 ELSE h3]
MCFileKind == [f \in File |->
  IF f = garbled THEN "malformed" ELSE IF f = missing THEN "unreadable"
  ELSE IF f = binary THEN "undecodable" ELSE "good"]

MCRecord(m, x, content) ==
  [memory_id |-> m,
   row |-> [meeting_id |-> x, content |-> content, status |-> "ACTIVE",
            superseded_by |-> NULL]]

MCExtracted ==
  [f \in File |->
     CASE f = draft -> <<MCRecord(m1, a, c1), MCRecord(m2, a, c1)>>
       [] f = copy -> <<MCRecord(m3, b, c1), MCRecord(m4, b, c1)>>
       [] f = edited -> <<MCRecord(m1, a, c2), MCRecord(m2, a, c1)>>
       [] OTHER -> <<>>]

MCBatch == {MCExtracted[f] : f \in File}

Import(files) == [type |-> "import", files |-> files]
Export(format) == [type |-> "export", format |-> format]
Build == [type |-> "graph"]

MCStepsOf == [j \in Job |->
  CASE j = nightly -> <<Import(<<draft, garbled>>), Build, Export("graph")>>
    [] j = refresh -> <<Build, Import(<<copy, edited>>), Build, [type |-> "intelligence"],
                        Export("graph"), Export("csv")>>
    [] j = strange -> <<Import(<<missing, edited>>), [type |-> "unknown"]>>
    [] j = odd -> <<Export("unsupported"), Build>>
    [] j = mixed -> <<Import(<<binary, draft>>)>>]

------------------------------------------------------------------------------
(* Lines: a field or a turn each, but for a fence, blanks, `note` and `: none` *)
Line == [fence |-> FALSE, blank |-> FALSE, colon |-> TRUE, key |-> "other", value |-> "",
         lead |-> "", delimiter |-> TRUE, label |-> "Ann", words |-> 1, trail |-> "", text |-> ""]
NoTurn == [Line EXCEPT !.colon = FALSE, !.delimiter = FALSE]
MCLook ==
  ("---" :> [NoTurn EXCEPT !.fence = TRUE])
  @@ ("" :> [NoTurn EXCEPT !.blank = TRUE])
  @@ ("note" :> NoTurn)
  @@ (": none" :> [Line EXCEPT !.key = "", !.value = "none", !.words = 0])
  @@ ("Date: today" :> [Line EXCEPT !.key = "date", !.value = "today", !.label = "Date", !.text = "today"])
  @@ ("Date: soon" :> [Line EXCEPT !.key = "date", !.value = "no date", !.label = "Date", !.text = "soon"])
  @@ ("the one thing we all fear is: risk" :> [Line EXCEPT !.words = 7, !.text = "risk"])
  @@ ("Ann: decided" :> [Line EXCEPT !.text = "decided"])
  @@ ("[0:10] Ann: I will by Friday" :> [Line EXCEPT !.lead = "0:10", !.text = "I will by Friday"])
  @@ ("** 0:10: I will by friday!" :>
        [Line EXCEPT !.label = "**", !.trail = "0:10", !.text = "I will by friday!"])
  @@ ("0:10 Bob (0:20):" :> [Line EXCEPT !.lead = "0:10", !.label = "Bob", !.trail = "0:20"])
  @@ ("12:75 Bob: 5 users?" :> [Line EXCEPT !.lead = "12:75", !.label = "Bob", !.text = "5 users?"])
  @@ ("Bob: maybe 5 users" :> [Line EXCEPT !.label = "Bob", !.text = "maybe 5 users"])
MCNameOf == [l \in {"Ann", "Bob", "Date", "**"} |-> IF l = "**" THEN "" ELSE l]
MCTimeOf == ("0:10" :> 20000) @@ ("0:20" :> 40000) @@ ("12:75" :> BadTime) @@ ("1.5" :> 3000)

NoCue == [rules |-> {}, asks |-> FALSE, hedged |-> FALSE, due |-> FALSE, figures |-> FALSE,
          me |-> FALSE, assignee |-> ""]
Rule(type, base, at) == [type |-> type, base |-> base, at |-> at]
Promise == [NoCue EXCEPT !.me = TRUE, !.due = TRUE,
                         !.rules = {Rule("commitment", 850, 1), Rule("commitment", 600, 2)}]
Users == [NoCue EXCEPT !.figures = TRUE, !.rules = {Rule("fact", 600, 1)}]
Pieces == DOMAIN MCLook \cup {MCLook[l].text : l \in DOMAIN MCLook}
MCCue ==
  [t \in Pieces |->
     CASE t = "decided" -> [NoCue EXCEPT !.rules = {Rule("decision", 950, 1)}]
       [] t \in {"I will by Friday", "I will by friday!"} -> Promise
       [] t = "5 users?" -> [Users EXCEPT !.asks = TRUE]
       [] t = "maybe 5 users" -> [Users EXCEPT !.hedged = TRUE]
       [] t = "note" -> [NoCue EXCEPT !.assignee = "Eve", !.rules = {Rule("commitment", 850, 1)}]
       [] t = "the one thing we all fear is: risk" -> [NoCue EXCEPT !.rules = {Rule("risk", 750, 3)}]
       [] OTHER -> NoCue]
MCPlainText == [t \in Pieces |-> IF t = "I will by friday!" THEN "I will by Friday" ELSE t]
Config(types, floor, unique) ==
  [enabled_types |-> types, min_confidence |-> floor, deduplicate |-> unique]
MCExtractionConfig ==
  {Config({}, 0, TRUE), Config({}, 0, FALSE), Config({"decision", "fact", "question"}, 500, TRUE)}

Upload ==
  [suffix |-> "txt", reads |-> "text", shape |-> "text", lines |-> <<>>, items |-> <<>>,
   utterances |-> "list", fields |-> <<>>, metadata |-> <<>>]
Text(ls) == [Upload EXCEPT !.lines = ls]
Json(shape, items) == [Upload EXCEPT !.suffix = "json", !.shape = shape, !.items = items]
Talk == DOMAIN MCLook
Item == [object |-> TRUE, speaker |-> "Ann", text |-> "decided", kind |-> "none", stamp |-> "", number |-> 0]
Number(n) == [Item EXCEPT !.kind = "number", !.number = n]
Items ==
  {Item, [Item EXCEPT !.object = FALSE], [Item EXCEPT !.speaker = "absent"], [Item EXCEPT !.text = "absent"],
   [Item EXCEPT !.text = ""], [Item EXCEPT !.kind = "boolean"], [Item EXCEPT !.kind = "NaN"],
   [Item EXCEPT !.kind = "text", !.stamp = "1.5"], [Item EXCEPT !.kind = "text", !.stamp = "12:75"],
   Number(-1), Number(3000), Number(3001), Number(3999)}
MCTranscript ==
  {Text(ls) : ls \in SeqOf(Talk, 3)}
    \cup {Text(<<"---", l>> \o ls) : l \in {"Date: today", "Date: soon", ": none", ""},
                                    ls \in {<<"---", k, n>> : k, n \in Talk}}
    \cup {Json("list", is) : is \in SeqOf(Items, 2)}
    \cup {[Json("object", <<Item>>) EXCEPT !.utterances = u, !.fields = f, !.metadata = g] :
             u \in {"list", "none"}, f, g \in {<<>>, "date" :> "today", "date" :> "no date"}}
    \cup {[Json("text", <<>>) EXCEPT !.lines = <<"Ann: decided">>], Json("no JSON", <<>>), Json("scalar", <<>>),
          [Upload EXCEPT !.suffix = ""], [Upload EXCEPT !.suffix = "csv"], [Upload EXCEPT !.reads = "missing"],
          [Upload EXCEPT !.reads = "binary"]}

------------------------------------------------------------------------------
NoReading ==
  transcript = Upload /\ parse = [Unread EXCEPT !.state = "none"] /\ extraction = [state |-> "none"]

MCInit ==
  \/ AutomationInit /\ NoReading
  \/ AutomationInit /\ file = [w \in Worker |-> draft] /\ ExtractionInit
MCNext ==
  \/ parse.state = "none" /\ AutomationNext /\ UNCHANGED extractionVars
  \/ parse.state # "none" /\ ExtractionNext /\ UNCHANGED jobVars
MCSpec == MCInit /\ [][MCNext]_<<jobVars, extractionVars>>
JobsOnly ==
  /\ AutomationInit /\ NoReading
  /\ [][AutomationNext /\ UNCHANGED extractionVars]_<<jobVars, extractionVars>>
==============================================================================
