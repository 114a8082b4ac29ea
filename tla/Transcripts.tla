----------------------------- MODULE Transcripts -----------------------------
(***************************************************************************)
(* TranscriptLoader, MeetingParser and validate_meeting: one file is       *)
(* loaded, its front matter and its lines (or its JSON items) are read one *)
(* by one into turns, the turns become a meeting, and the parse command    *)
(* may validate it.                                                        *)
(*                                                                         *)
(* A line is a name; Look says what the patterns of the parser see in it.  *)
(* A text is a sequence of pieces: the part of a line behind its           *)
(* delimiter, or a whole line that continues a turn.  Times are in halves  *)
(* of a millisecond.                                                       *)
(***************************************************************************)
EXTENDS Integers, Sequences, FiniteSets, SequencesExt

CONSTANTS
  Transcript, \* files: [suffix, reads, shape, lines, items, fields]
  Look,       \* line -> [fence, blank, colon, key, value, lead, delimiter, label, words, trail, text]
  NameOf,     \* label of a speaker, as written -> normalised, "" if nothing is left
  TimeOf      \* textual timestamp -> its time, or BadTime

NoTime == -1
BadTime == -2

VARIABLES
  transcript, \* the file
  parse       \* [state, at, fields, turns, error, meeting]

parseVars == <<transcript, parse>>

Unread == [state |-> "unread", at |-> 1, fields |-> <<>>, turns |-> <<>>, error |-> "", meeting |-> <<>>]

TranscriptsInit == transcript \in Transcript /\ parse = Unread

------------------------------------------------------------------------------
(* Loading *)
Stage(state) == parse.state = state /\ UNCHANGED transcript
Fail(error) == parse' = [parse EXCEPT !.state = "failed", !.error = error]
Malformed == Fail("MalformedTranscriptError")

Supported == {"txt", "json"}

LoadFails ==
  /\ Stage("unread")
  /\ \/ transcript.suffix \notin Supported /\ Fail("UnsupportedFormatError")
     \/ /\ transcript.suffix \in Supported
        /\ transcript.reads # "text" \/ transcript.shape = "no JSON"
        /\ Fail("TranscriptLoadError")

\* A JSON string is parsed as text, any other scalar refused.
Load ==
  /\ Stage("unread") /\ transcript.suffix \in Supported
  /\ transcript.reads = "text" /\ transcript.shape # "no JSON"
  /\ CASE transcript.shape = "text" -> parse' = [parse EXCEPT !.state = "opening"]
       [] transcript.shape \in {"list", "object"} -> parse' = [parse EXCEPT !.state = "items"]
       [] OTHER -> Malformed

------------------------------------------------------------------------------
(* Front matter: _extract_front_matter *)
Lines == transcript.lines
Seen == Look[Lines[parse.at]]
MoreLines == parse.at <= Len(Lines)

Fenced == Lines # <<>> /\ Look[Lines[1]].fence

NoFrontMatter ==
  /\ Stage("opening") /\ ~Fenced
  /\ parse' = [parse EXCEPT !.state = "metadata"]

OpenFrontMatter ==
  /\ Stage("opening") /\ Fenced
  /\ parse' = [parse EXCEPT !.state = "front", !.at = 2]

\* The fields are gathered, the last value of a key wins; a key may be empty.
FrontLine ==
  /\ Stage("front") /\ MoreLines /\ ~Seen.fence
  /\ IF Seen.blank THEN parse' = [parse EXCEPT !.at = @ + 1]
     ELSE /\ Seen.colon
          /\ parse' = [parse EXCEPT !.at = @ + 1, !.fields = (Seen.key :> Seen.value) @@ @]

CloseFrontMatter ==
  /\ Stage("front") /\ MoreLines /\ Seen.fence
  /\ parse' = [parse EXCEPT !.state = "metadata", !.at = @ + 1]

FrontMatterFails ==
  /\ Stage("front")
  /\ MoreLines => ~Seen.fence /\ ~Seen.blank /\ ~Seen.colon
  /\ Malformed

BadDate(fields) == "date" \in DOMAIN fields /\ fields["date"] = "no date"

\* _build_metadata
BuildMetadata ==
  /\ Stage("metadata")
  /\ IF BadDate(parse.fields) THEN Malformed ELSE parse' = [parse EXCEPT !.state = "body"]

------------------------------------------------------------------------------
(* Turns *)
MaxSpeakerWords == 6

\* _looks_like_speaker; the bound on characters is left to the data.
Words(look) == look.words + (IF look.lead # "" /\ look.trail # "" THEN 1 ELSE 0)
StartsTurn(look) == look.delimiter /\ Words(look) \in 1 .. MaxSpeakerWords

\* The timestamp in front, else the one behind the name; a second one stays
\* in the name.
Speaker(label, left) == [name |-> NameOf[label], left |-> left]
Spoken(text) == IF text = "" THEN <<>> ELSE <<text>>
Time(stamp) == IF stamp = "" THEN NoTime ELSE TimeOf[stamp]
TurnOf(look) ==
  LET both == look.lead # "" /\ look.trail # ""
      stamp == IF look.lead # "" THEN look.lead ELSE look.trail
  IN  [speaker |-> Speaker(look.label, IF both THEN look.trail ELSE ""),
       time |-> Time(stamp), text |-> Spoken(look.text)]

SkipBlank ==
  /\ Stage("body") /\ MoreLines /\ Seen.blank
  /\ parse' = [parse EXCEPT !.at = @ + 1]

StartTurn ==
  /\ Stage("body") /\ MoreLines /\ ~Seen.blank /\ StartsTurn(Seen)
  /\ parse' = [parse EXCEPT !.at = @ + 1, !.turns = Append(@, TurnOf(Seen))]

\* Mutant of Extended: a turn without a text of its own is not continued.
Extended_OnlySpoken(turn, line) ==
  IF turn.text = <<>> THEN turn ELSE [turn EXCEPT !.text = Append(@, line)]

Extended(turn, line) == [turn EXCEPT !.text = Append(@, line)]

\* Any other line belongs to the turn before it, a fence too.
ContinueTurn ==
  /\ Stage("body") /\ MoreLines /\ ~Seen.blank /\ ~StartsTurn(Seen) /\ parse.turns # <<>>
  /\ parse' = [parse EXCEPT !.at = @ + 1,
                            !.turns[Len(parse.turns)] = Extended(@, Lines[parse.at])]

NoSpeaker ==
  /\ Stage("body") /\ MoreLines /\ ~Seen.blank /\ ~StartsTurn(Seen) /\ parse.turns = <<>>
  /\ Malformed

EndBody ==
  /\ Stage("body") /\ ~MoreLines
  /\ parse' = [parse EXCEPT !.state = "turns"]

------------------------------------------------------------------------------
(* JSON *)
Second == 2000

\* The label of a number, parsed again: milliseconds are rounded to the even
\* neighbour, and a thousand of them are written ".1000", a tenth.
Millis(rest) ==
  LET down == rest \div 2
  IN  IF rest % 2 = 0 \/ down % 2 = 0 THEN down ELSE down + 1
Relabelled(number) ==
  LET millis == Millis(number % Second)
  IN  (number - (number % Second)) + (IF millis = 1000 THEN Second \div 10 ELSE millis * 2)

\* _json_turn; an item is [object, speaker, text, kind, stamp, number].
Refused(item) ==
  \/ ~item.object \/ item.speaker = "absent" \/ item.text = "absent"
  \/ item.kind = "boolean" \/ (item.kind = "number" /\ item.number < 0)
ItemTurn(item) ==
  [speaker |-> Speaker(item.speaker, ""), text |-> Spoken(item.text),
   time |-> CASE item.kind = "text" -> Time(item.stamp)
              [] item.kind = "number" -> Relabelled(item.number)
              [] OTHER -> NoTime]

\* What "metadata" says overrides the fields beside it.
Fields == transcript.metadata @@ transcript.fields
ItemsReadable == transcript.shape = "list" \/ (transcript.utterances = "list" /\ ~BadDate(Fields))

NoItems ==
  /\ Stage("items") /\ ~ItemsReadable
  /\ Malformed

\* The label of a number that is none is an integer that does not exist.
ReadItem ==
  /\ Stage("items") /\ ItemsReadable /\ parse.at <= Len(transcript.items)
  /\ LET item == transcript.items[parse.at]
     IN  IF Refused(item) THEN Malformed
         ELSE IF item.kind = "NaN" THEN Fail("ValueError")
         ELSE parse' = [parse EXCEPT !.at = @ + 1, !.turns = Append(@, ItemTurn(item))]

EndItems ==
  /\ Stage("items") /\ ItemsReadable /\ parse.at > Len(transcript.items)
  /\ parse' = [parse EXCEPT !.state = "turns",
                            !.fields = IF transcript.shape = "list" THEN <<>> ELSE Fields]

------------------------------------------------------------------------------
(* Meetings *)
\* _turns_to_meeting; one timestamp that is none refuses the whole transcript.
BuildMeeting ==
  /\ Stage("turns")
  /\ IF \E k \in DOMAIN parse.turns : parse.turns[k].time = BadTime THEN Malformed
     ELSE parse' = [parse EXCEPT !.state = "parsed", !.meeting = parse.turns]

\* validate_meeting, with its checks in their order.
Problem(meeting, unique) ==
  IF meeting = <<>> THEN "EmptyMeetingError"
  ELSE IF \E k \in DOMAIN meeting : meeting[k].speaker = [name |-> "", left |-> ""]
       THEN "InvalidSpeakerError"
  ELSE IF unique /\ \E k, l \in DOMAIN meeting :
                      k < l /\ meeting[k].time = meeting[l].time /\ meeting[k].time # NoTime
       THEN "DuplicateTimestampError"
  ELSE ""

\* --allow-duplicate-timestamps, or not
Validate ==
  /\ Stage("parsed")
  /\ \E unique \in BOOLEAN :
       LET problem == Problem(parse.meeting, unique)
       IN  IF problem # "" THEN Fail(problem) ELSE parse' = [parse EXCEPT !.state = "valid"]

TranscriptsNext ==
  \/ LoadFails \/ Load
  \/ NoFrontMatter \/ OpenFrontMatter \/ FrontLine \/ CloseFrontMatter \/ FrontMatterFails
  \/ BuildMetadata \/ SkipBlank \/ StartTurn \/ ContinueTurn \/ NoSpeaker \/ EndBody
  \/ NoItems \/ ReadItem \/ EndItems
  \/ BuildMeeting \/ Validate

------------------------------------------------------------------------------
(* Properties *)
Fences == {k \in DOMAIN Lines : Look[Lines[k]].fence}
BodyStart ==
  IF 1 \notin Fences THEN 1
  ELSE 1 + CHOOSE k \in Fences \ {1} : \A l \in Fences \ {1} : k <= l
Body == {k \in BodyStart .. Len(Lines) : ~Look[Lines[k]].blank}
\* The line that opened the turn a line belongs to, and the number of that turn.
Opener(k) == CHOOSE l \in Body : /\ l <= k /\ StartsTurn(Look[Lines[l]])
                                 /\ \A j \in Body : l < j /\ j <= k => ~StartsTurn(Look[Lines[j]])
TurnNumber(k) == Cardinality({l \in Body : l <= k /\ StartsTurn(Look[Lines[l]])})
Behind(k) == IF StartsTurn(Look[Lines[k]]) THEN Spoken(Look[Lines[k]].text) ELSE <<Lines[k]>>

\* Nothing of a transcript that was accepted is lost, repeated, moved or put into
\* another mouth: every line of the body that is not blank is found, in order, in
\* the utterance of the speaker named last before it, and every utterance has
\* such a line; every item of a JSON transcript is the utterance of its place.
TranscriptKept ==
  parse.state = "parsed" =>
    LET meeting == parse.meeting
    IN  IF transcript.shape = "text"
        THEN /\ FlattenSeq([n \in DOMAIN meeting |-> meeting[n].text])
                  = FlattenSeq([n \in 1 .. Len(Lines) |-> IF n \in Body THEN Behind(n) ELSE <<>>])
             /\ \A k \in Body : LET u == meeting[TurnNumber(k)]
                                IN  /\ u.speaker.name = NameOf[Look[Lines[Opener(k)]].label]
                                    /\ ToSet(Behind(k)) \subseteq ToSet(u.text)
             /\ {TurnNumber(k) : k \in Body} = DOMAIN meeting
        ELSE /\ Len(meeting) = Len(transcript.items)
             /\ \A n \in DOMAIN meeting :
                  /\ meeting[n].text = Spoken(transcript.items[n].text)
                  /\ meeting[n].speaker.name = NameOf[transcript.items[n].speaker]
==============================================================================
