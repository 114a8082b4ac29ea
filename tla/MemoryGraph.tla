----------------------------- MODULE MemoryGraph -----------------------------
(***************************************************************************)
(* What build_graph makes of a reading of the memory store: the nodes and  *)
(* edges of the organizational graph.                                      *)
(*                                                                         *)
(* A node id is <<type, reference>>; an edge id is derived from endpoints, *)
(* relationship and discriminator, so an edge is those four.  Labels and   *)
(* times are left out; a memory node keeps the status it was made with.    *)
(* What the phrase rules and the vocabulary find in a text is a constant:  *)
(* the type, people and entities of each content.                          *)
(***************************************************************************)
EXTENDS MemoryStore

CONSTANTS
  Person,          \* people, by the slug of their name
  Entity,          \* node ids of projects, customers, technologies, ...
  About,           \* Content -> what a memory of that content says
  Participants,    \* MeetingId -> set of Person
  TitleMentions,   \* MeetingId -> entities in the meeting's title
  Date,            \* MeetingId -> date, 0 when there is none
  Chrono,          \* MemoryId -> rank in order of (meeting date, meeting, id)
  NameRank         \* Person -> rank in the order of names

MemoryType ==
  {"decision", "commitment", "risk", "question", "assumption", "fact", "open_loop"}

ASSUME GraphAssumption ==
  /\ About \in [Content -> [type : MemoryType, speaker : Person \cup {NULL},
                            owner : Person \cup {NULL}, mentions : SUBSET Entity]]
  /\ \A e \in Entity :
       e[1] \in {"project", "customer", "technology", "team", "vendor", "document"}
  /\ Participants \in [MeetingId -> SUBSET Person]
  /\ TitleMentions \in [MeetingId -> SUBSET Entity]
  /\ Date \in [MeetingId -> Nat]
  /\ Chrono \in [MemoryId -> Nat]
  /\ \A m, n \in MemoryId : Chrono[m] = Chrono[n] => m = n
  /\ NameRank \in [Person -> Nat]
  /\ \A p, q \in Person : NameRank[p] = NameRank[q] => p = q

(***************************************************************************)
(* A reading is what the builder has read: the meetings it listed, and the *)
(* records it found under each.                                            *)
(***************************************************************************)
About1(r) == About[r.row.content]
Type(r) == About1(r).type
Mentions(r) == About1(r).mentions
OfType(records, types) == {r \in records : Type(r) \in types}
OfKind(entities, kind) == {e \in entities : e[1] = kind}

MeetingNode(x) == <<"meeting", x>>
PersonNode(p) == <<"person", p>>
MemoryNode(r) == <<IF Type(r) = "open_loop" THEN "memory" ELSE Type(r), r.memory_id>>

Edge(source, relationship, target) == <<source, relationship, target, NULL>>
DiscriminatedEdge(source, relationship, target, by) == <<source, relationship, target, by>>

------------------------------------------------------------------------------
(* Nodes: an id, and the status for a memory *)
PeopleOf(r) == {About1(r).speaker, About1(r).owner} \ {NULL}

\* Mutant of CoreNodes: people who only own a commitment are forgotten.
CoreNodes_NoOwners(x, records) ==
  {[id |-> MeetingNode(x), status |-> NULL]}
    \cup {[id |-> PersonNode(p), status |-> NULL] :
            p \in Participants[x] \cup ({About1(r).speaker : r \in records} \ {NULL})}
    \cup {[id |-> MemoryNode(r), status |-> r.row.status] : r \in records}

CoreNodes(x, records) ==
  {[id |-> MeetingNode(x), status |-> NULL]}
    \cup {[id |-> PersonNode(p), status |-> NULL] :
            p \in Participants[x] \cup UNION {PeopleOf(r) : r \in records}}
    \cup {[id |-> MemoryNode(r), status |-> r.row.status] : r \in records}

MeetingMentions(x, records) == TitleMentions[x] \cup UNION {Mentions(r) : r \in records}

EntityNodes(x, records) ==
  {[id |-> e, status |-> NULL] : e \in MeetingMentions(x, records)}

------------------------------------------------------------------------------
(* Edges inside one meeting *)
MeetingEdges(x, records) ==
  {Edge(MeetingNode(x), "mentions", n) :
     n \in {PersonNode(p) : p \in Participants[x]} \cup MeetingMentions(x, records)}

\* A memory's place, its people and what it mentions.
MemoryEdges(x, r) ==
  LET from == MemoryNode(r)
      speaker == About1(r).speaker
      assignee == IF About1(r).owner # NULL THEN About1(r).owner ELSE speaker
      owned == IF speaker = NULL THEN {} ELSE {Edge(from, "owned_by", PersonNode(speaker))}
      assigned == IF Type(r) # "commitment" \/ assignee = NULL THEN {}
                  ELSE {Edge(from, "assigned_to", PersonNode(assignee))}
  IN  {Edge(from, "discussed_in", MeetingNode(x))} \cup owned \cup assigned
        \cup {Edge(from, "mentions", e) : e \in Mentions(r)}

\* What a type of memory says about a kind of entity.
TypedMention == {<<"decision", "project", "relates_to">>, <<"risk", "project", "blocks">>,
                 <<"fact", "customer", "references">>}

TypedEdges(r) ==
  UNION {{Edge(MemoryNode(r), t[3], e) : e \in OfKind(Mentions(r), t[2])} :
           t \in {s \in TypedMention : s[1] = Type(r)}}

DependencyEdges(r) ==
  {Edge(e, "depends_on", t) :
     e \in OfKind(Mentions(r), "project"), t \in OfKind(Mentions(r), "technology")}

SharedEntityLinks(records) ==
  LET links(type, relationship) ==
        {Edge(MemoryNode(pair[1]), relationship, MemoryNode(pair[2])) :
           pair \in {p \in OfType(records, {type}) \X OfType(records, {"decision"}) :
                       Mentions(p[1]) \cap Mentions(p[2]) # {}}}
  IN  links("question", "relates_to") \cup links("assumption", "supports")

MeetingRelationships(x, records) ==
  MeetingEdges(x, records)
    \cup (UNION {MemoryEdges(x, r) \cup TypedEdges(r) \cup DependencyEdges(r) : r \in records})
    \cup SharedEntityLinks(records)

------------------------------------------------------------------------------
(* Edges across meetings *)
Earlier(r, s) == Chrono[r.memory_id] < Chrono[s.memory_id]
Repeats(r, s) ==
  r.row.content = s.row.content /\ r.row.meeting_id # s.row.meeting_id

\* Mutant of RepeatedContent: each repetition is linked with the latest one.
RepeatedContent_Star(records) ==
  {DiscriminatedEdge(MemoryNode(pair[2]), "connected_to", MemoryNode(pair[1]), "repeated_content") :
     pair \in {p \in records \X records :
                 /\ Repeats(p[1], p[2]) /\ Earlier(p[1], p[2])
                 /\ ~\E s \in records :
                      /\ s.row.content = p[1].row.content
                      /\ Earlier(p[2], s)}}

\* Neighbours in the chronological chain of memories that say the same.
RepeatedContent(records) ==
  {DiscriminatedEdge(MemoryNode(pair[2]), "connected_to", MemoryNode(pair[1]), "repeated_content") :
     pair \in {p \in records \X records :
                 /\ Repeats(p[1], p[2]) /\ Earlier(p[1], p[2])
                 /\ ~\E s \in records :
                      /\ s.row.content = p[1].row.content
                      /\ Earlier(p[1], s) /\ Earlier(s, p[2])}}

\* A commitment resolves the issues of its date or before that share an entity.
Resolves(records) ==
  {Edge(MemoryNode(pair[1]), "resolves", MemoryNode(pair[2])) :
     pair \in {p \in OfType(records, {"commitment"}) \X OfType(records, {"risk", "open_loop"}) :
                 /\ Mentions(p[1]) \cap Mentions(p[2]) # {}
                 /\ Date[p[1].row.meeting_id] >= Date[p[2].row.meeting_id]}}

Collaboration(meetingIds) ==
  UNION {{DiscriminatedEdge(PersonNode(pair[1]), "connected_to", PersonNode(pair[2]), x) :
            pair \in {p \in Participants[x] \X Participants[x] :
                        NameRank[p[1]] < NameRank[p[2]]}} : x \in meetingIds}

\* A pointer to a memory that was not read makes no edge.
Supersedes(records) ==
  {Edge(MemoryNode(pair[1]), "supersedes", MemoryNode(pair[2])) :
     pair \in {p \in records \X records : p[2].row.superseded_by = p[1].memory_id}}

------------------------------------------------------------------------------
(* The whole graph of a reading: a function from the listed meetings to the *)
(* records found under each.                                                *)
RecordsRead(reading) == UNION {reading[x] : x \in DOMAIN reading}

GraphNodes(reading) ==
  UNION {CoreNodes(x, reading[x]) \cup EntityNodes(x, reading[x]) : x \in DOMAIN reading}

GraphEdges(reading) ==
  (UNION {MeetingRelationships(x, reading[x]) : x \in DOMAIN reading})
    \cup Supersedes(RecordsRead(reading))
    \cup RepeatedContent(RecordsRead(reading))
    \cup Resolves(RecordsRead(reading))
    \cup Collaboration(DOMAIN reading)

\* The reading of a store that nobody changes while it is read.
FindByMeeting(x) == {[memory_id |-> m, row |-> memories[m]] : m \in MemoriesOf(x)}
WholeStore == [x \in Registered |-> FindByMeeting(x)]
==============================================================================
