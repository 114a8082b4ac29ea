------------------------------ MODULE Extraction ------------------------------
(***************************************************************************)
(* The extraction pipeline on a parsed meeting: every active extractor     *)
(* looks at every utterance, duplicates are merged, invalid memories       *)
(* dropped, weak ones filtered and the rest sorted.                        *)
(*                                                                         *)
(* A pattern is found in a text where it is found in one of its pieces;    *)
(* confidences are in thousandths.                                         *)
(***************************************************************************)
EXTENDS Transcripts

CONSTANTS
  Cue,          \* piece -> [rules, asks, hedged, due, figures, me, assignee]; a rule is
                \* [type, base, at]
  PlainText,    \* piece -> its text without case and punctuation
  ExtractionConfig \* what may be asked: [enabled_types, min_confidence, deduplicate]

VARIABLE extraction \* [state, config, at, candidates, winners, warnings, memories]

extractionVars == <<transcript, parse, extraction>>

Order == <<"decision", "commitment", "open_loop", "risk", "assumption", "question", "fact">>
TypeIndex(type) == CHOOSE k \in DOMAIN Order : Order[k] = type

ExtractionInit == TranscriptsInit /\ extraction = [state |-> "none"]

------------------------------------------------------------------------------
(* One utterance, one extractor *)
Some(text, cue) == \E k \in DOMAIN text : Cue[text[k]][cue]
Asks(text) == text # <<>> /\ Cue[text[Len(text)]].asks

\* The strongest rule that matches, then the one that matches first.
Found(type, text) ==
  UNION {{[base |-> r.base, at |-> <<k, r.at>>] : r \in {q \in Cue[text[k]].rules : q.type = type}} :
           k \in DOMAIN text}
Precedes(a, b) == a[1] < b[1] \/ (a[1] = b[1] /\ a[2] <= b[2])
BestMatch(found) ==
  CHOOSE m \in found : \A n \in found :
    n.base < m.base \/ (n.base = m.base /\ Precedes(m.at, n.at))

\* Who is assigned, else whoever says "I will".
Owner(speaker, text) ==
  LET assigned == {k \in DOMAIN text : Cue[text[k]].assignee # ""}
      first == CHOOSE k \in assigned : \A l \in assigned : k <= l
  IN  IF assigned # {} THEN Cue[text[first]].assignee
      ELSE IF Some(text, "me") THEN speaker.name ELSE ""

HedgePenalty == 200
Boost(type, speaker, text) ==
  CASE type = "commitment" /\ Owner(speaker, text) # "" /\ Some(text, "due") -> 100
    [] type = "fact" /\ Some(text, "figures") -> 150
    [] OTHER -> 0
Clamp(n) == IF n < 0 THEN 0 ELSE IF n > 1000 THEN 1000 ELSE n
Score(type, speaker, text, base) ==
  Clamp(base + Boost(type, speaker, text) - (IF Some(text, "hedged") THEN HedgePenalty ELSE 0))

\* An utterance that ends in a question mark is a question and no fact.
Extract(type, index) ==
  LET u == parse.meeting[index]
      found == Found(type, u.text)
      memory(confidence, at) ==
        <<[type |-> type, index |-> index, text |-> u.text, speaker |-> u.speaker,
           owner |-> IF type = "commitment" THEN Owner(u.speaker, u.text) ELSE "",
           confidence |-> confidence, at |-> at]>>
  IN  IF Asks(u.text) /\ type = "question" THEN memory(950, <<1, 1>>)
      ELSE IF (Asks(u.text) /\ type = "fact") \/ found = {} THEN <<>>
      ELSE LET best == BestMatch(found)
           IN  memory(Score(type, u.speaker, u.text, best.base), best.at)

------------------------------------------------------------------------------
(* The pipeline *)
Active(config) ==
  SelectSeq(Order, LAMBDA t : config.enabled_types = {} \/ t \in config.enabled_types)

StartExtraction ==
  /\ parse.state = "parsed" /\ extraction.state = "none"
  /\ \E config \in ExtractionConfig :
       extraction' = [state |-> "scanning", config |-> config, at |-> 1, candidates |-> <<>>]
  /\ UNCHANGED parseVars

ScanUtterance ==
  /\ extraction.state = "scanning" /\ extraction.at <= Len(parse.meeting)
  /\ LET types == Active(extraction.config)
         found == FlattenSeq([k \in DOMAIN types |-> Extract(types[k], extraction.at)])
     IN  extraction' = [extraction EXCEPT !.at = @ + 1, !.candidates = @ \o found]
  /\ UNCHANGED parseVars

\* normalize_text, by pieces
Plain(text) == [k \in DOMAIN text |-> PlainText[text[k]]]
Key(memory) == <<memory.type, Plain(memory.text)>>

\* Mutant of Beats: of equals the last is kept.
Beats_OrEqual(memory, current) == memory.confidence >= current.confidence

Beats(memory, current) == memory.confidence > current.confidence

\* The place of the winner of every key, in one pass.
Winners(memories) ==
  FoldLeftDomain(
    LAMBDA winners, k :
      LET key == Key(memories[k])
      IN  IF key \in DOMAIN winners /\ ~Beats(memories[k], memories[winners[key]]) THEN winners
          ELSE (key :> k) @@ winners,
    <<>>, memories)

Deduplicate ==
  /\ extraction.state = "scanning" /\ extraction.at > Len(parse.meeting)
  /\ LET all == extraction.candidates
         winners == Winners(all)
         places == {winners[key] : key \in DOMAIN winners}
         kept == [n \in 1 .. Cardinality(places) |-> all[SetToSortSeq(places, <)[n]]]
     IN  extraction' = [extraction EXCEPT !.state = "unique"] @@
                       [memories |-> IF extraction.config.deduplicate THEN kept ELSE all]
  /\ UNCHANGED parseVars

\* check_memory; what is left of it when ids, types and places come from the scan
Valid(memory) ==
  /\ memory.confidence \in 0 .. 1000 /\ memory.text # <<>>
  /\ memory.index \in DOMAIN parse.meeting

BySaying(m, n) ==
  m.index < n.index \/ (m.index = n.index /\ TypeIndex(m.type) < TypeIndex(n.type))

\* partition_valid, the floor, and the stable sort
FilterAndSort ==
  /\ extraction.state = "unique"
  /\ LET valid == SelectSeq(extraction.memories, Valid)
         floor == extraction.config.min_confidence
         strong == IF floor = 0 THEN valid ELSE SelectSeq(valid, LAMBDA m : m.confidence >= floor)
     IN  extraction' = [extraction EXCEPT !.state = "done", !.memories = SortSeq(strong, BySaying)]
  /\ UNCHANGED parseVars

ExtractionNext ==
  \/ extraction.state = "none" /\ TranscriptsNext /\ UNCHANGED extraction
  \/ StartExtraction \/ ScanUtterance \/ Deduplicate \/ FilterAndSort

------------------------------------------------------------------------------
(* Properties *)
\* Whatever a rule of an asked-for type finds in an utterance, at or above the
\* floor, is told once: by a memory of that type that is at least as sure, at the
\* first of the utterances that say the same with that confidence.  No two
\* memories have one id, and each stands at an utterance with its own words, in
\* the order they were said.
SaidOnce ==
  extraction.state = "done" =>
    LET told == extraction.memories
        config == extraction.config
        candidate(type, k) == Extract(type, k)
        same(m, n) == m.type = n.type /\ Plain(m.text) = Plain(n.text)
    IN  /\ \A k \in DOMAIN parse.meeting : \A type \in ToSet(Active(config)) :
             \A c \in ToSet(candidate(type, k)) :
               c.confidence >= config.min_confidence =>
                 \E m \in ToSet(told) :
                   /\ same(c, m) /\ m.confidence >= c.confidence
                   /\ IF config.deduplicate THEN m.confidence = c.confidence => m.index <= k
                      ELSE m = c
        /\ \A k, l \in DOMAIN told : k < l =>
             /\ <<told[k].type, told[k].index>> # <<told[l].type, told[l].index>>
             /\ told[k].index <= told[l].index
             /\ config.deduplicate => ~same(told[k], told[l])
        /\ \A m \in ToSet(told) :
             /\ m.text = parse.meeting[m.index].text
             /\ m.confidence >= config.min_confidence
             /\ ~(Asks(m.text) /\ m.type = "fact")
==============================================================================
