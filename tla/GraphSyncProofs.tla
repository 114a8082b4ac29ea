--------------------------- MODULE GraphSyncProofs ---------------------------
(***************************************************************************)
(* What the rebuilt graph is worth, for any store, vocabulary, builders    *)
(* and clients: its edges have both ends, it covers the store, and it is   *)
(* the store's graph for as long as history only appends.  What the        *)
(* reports drawn from the two are worth: their filters only narrow.  And   *)
(* what the answers to questions about the graph are worth, for any graph  *)
(* that a rebuild adds to while they are searched for.                     *)
(***************************************************************************)
EXTENDS GraphSync, MemoryStoreProofs, Intelligence, GraphQueries

------------------------------------------------------------------------------
(* The ends of the edges of a reading are nodes of the same reading. *)
LEMMA EdgeEnds ==
  /\ \A s, how, t : Edge(s, how, t)[1] = s /\ Edge(s, how, t)[3] = t
  /\ \A s, how, t, by : /\ DiscriminatedEdge(s, how, t, by)[1] = s
                        /\ DiscriminatedEdge(s, how, t, by)[3] = t
BY DEF Edge, DiscriminatedEdge

\* Both ends of each edge are among the ids.
Joins(es, ids) == \A e \in es : e[1] \in ids /\ e[3] \in ids

LEMMA JoinsBoth ==
  ASSUME NEW es, NEW fs, NEW ids, Joins(es, ids), Joins(fs, ids)
  PROVE  Joins(es \cup fs, ids)
BY DEF Joins

LEMMA NodesListed ==
  ASSUME NEW R, NEW x \in DOMAIN R, NEW ids, ids = NodeIds(GraphNodes(R))
  PROVE  /\ MeetingNode(x) \in ids
         /\ \A p \in Participants[x] : PersonNode(p) \in ids
         /\ MeetingMentions(x, R[x]) \subseteq ids
         /\ \A r \in R[x] : /\ MemoryNode(r) \in ids
                            /\ Mentions(r) \subseteq ids
                            /\ \A p \in PeopleOf(r) : PersonNode(p) \in ids
<1>1. \A n \in CoreNodes(x, R[x]) \cup EntityNodes(x, R[x]) : n.id \in ids
  BY DEF GraphNodes, NodeIds
<1>2. \A i, s : [id |-> i, status |-> s].id = i
  OBVIOUS
<1>3. MeetingNode(x) \in ids
  BY <1>1, <1>2 DEF CoreNodes
<1>4. \A p \in Participants[x] \cup UNION {PeopleOf(r) : r \in R[x]} : PersonNode(p) \in ids
  BY <1>1, <1>2 DEF CoreNodes
<1>5. ASSUME NEW r \in R[x]
      PROVE  MemoryNode(r) \in ids
  <2>1. [id |-> MemoryNode(r), status |-> r.row.status] \in CoreNodes(x, R[x])
    BY DEF CoreNodes
  <2> QED
    BY <1>1, <1>2, <2>1
<1>6. MeetingMentions(x, R[x]) \subseteq ids
  BY <1>1, <1>2 DEF EntityNodes
<1>7. \A r \in R[x] : Mentions(r) \subseteq MeetingMentions(x, R[x])
  BY DEF MeetingMentions
<1> QED
  BY <1>3, <1>4, <1>5, <1>6, <1>7

LEMMA MemoryEdgesJoin ==
  ASSUME NEW x, NEW r, NEW ids,
         MeetingNode(x) \in ids, MemoryNode(r) \in ids, Mentions(r) \subseteq ids,
         \A p \in PeopleOf(r) : PersonNode(p) \in ids
  PROVE  Joins(MemoryEdges(x, r) \cup TypedEdges(r) \cup DependencyEdges(r), ids)
<1>1. Joins(MemoryEdges(x, r), ids)
  <2> DEFINE speaker == About1(r).speaker
             owner == About1(r).owner
  <2>1. /\ speaker # NULL => PersonNode(speaker) \in ids
        /\ owner # NULL => PersonNode(owner) \in ids
    BY DEF PeopleOf
  <2> QED
    BY <2>1, EdgeEnds DEF MemoryEdges, Joins
<1>2. Joins(TypedEdges(r), ids)
  BY EdgeEnds DEF TypedEdges, OfKind, Joins
<1>3. Joins(DependencyEdges(r), ids)
  BY EdgeEnds DEF DependencyEdges, OfKind, Joins
<1> QED
  BY <1>1, <1>2, <1>3 DEF Joins

LEMMA MeetingEdgesJoin ==
  ASSUME NEW R, NEW x \in DOMAIN R, NEW ids, ids = NodeIds(GraphNodes(R))
  PROVE  Joins(MeetingRelationships(x, R[x]), ids)
<1> DEFINE Each == UNION {MemoryEdges(x, r) \cup TypedEdges(r) \cup DependencyEdges(r) : r \in R[x]}
<1>1. Joins(MeetingEdges(x, R[x]), ids)
  BY NodesListed, EdgeEnds DEF MeetingEdges, Joins
<1>2. \A r \in R[x] : Joins(MemoryEdges(x, r) \cup TypedEdges(r) \cup DependencyEdges(r), ids)
  BY NodesListed, MemoryEdgesJoin
<1>3. Joins(SharedEntityLinks(R[x]), ids)
  <2>1. \A r \in R[x] : MemoryNode(r) \in ids
    BY NodesListed
  <2> QED
    BY <2>1, EdgeEnds DEF SharedEntityLinks, OfType, Joins
<1>4. Joins(Each, ids)
  BY <1>2 DEF Joins
<1> HIDE DEF Each
<1> QED
  BY <1>1, <1>3, <1>4, JoinsBoth DEF MeetingRelationships, Each

LEMMA GraphEdgesJoin ==
  ASSUME NEW R, NEW ids, ids = NodeIds(GraphNodes(R))
  PROVE  Joins(GraphEdges(R), ids)
<1> DEFINE Inside == UNION {MeetingRelationships(x, R[x]) : x \in DOMAIN R}
<1>1. \A r \in RecordsRead(R) : MemoryNode(r) \in ids
  BY NodesListed DEF RecordsRead
<1>2. \A x \in DOMAIN R : Joins(MeetingRelationships(x, R[x]), ids)
  BY MeetingEdgesJoin
<1>3. Joins(Supersedes(RecordsRead(R)), ids)
  BY <1>1, EdgeEnds DEF Supersedes, Joins
<1>4. Joins(RepeatedContent(RecordsRead(R)), ids)
  BY <1>1, EdgeEnds DEF RepeatedContent, Joins
<1>5. Joins(Resolves(RecordsRead(R)), ids)
  BY <1>1, EdgeEnds DEF Resolves, OfType, Joins
<1>6. Joins(Collaboration(DOMAIN R), ids)
  BY NodesListed, EdgeEnds DEF Collaboration, Joins
<1>7. Joins(Inside, ids)
  BY <1>2 DEF Joins
<1> HIDE DEF Inside
<1> QED
  BY <1>3, <1>4, <1>5, <1>6, <1>7, JoinsBoth DEF GraphEdges, Inside

------------------------------------------------------------------------------
(* A reading that another one extends makes a part of its graph. *)

\* S lists what R lists, and finds under each meeting what R found, and maybe
\* more; what it finds in addition comes after everything in R.
Extends(S, R) ==
  /\ DOMAIN R \subseteq DOMAIN S
  /\ \A x \in DOMAIN R : R[x] \subseteq S[x]
  /\ \A r \in RecordsRead(S) : r.memory_id \in MemoryId
  /\ \A r \in RecordsRead(R), s \in RecordsRead(S) \ RecordsRead(R) : Earlier(r, s)

LEMMA RecordsExtended ==
  ASSUME NEW R, NEW S, Extends(S, R)
  PROVE  RecordsRead(R) \subseteq RecordsRead(S)
BY DEF Extends, RecordsRead

LEMMA MeetingExtended ==
  ASSUME NEW x, NEW A, NEW B, A \subseteq B
  PROVE  /\ MeetingRelationships(x, A) \subseteq MeetingRelationships(x, B)
         /\ CoreNodes(x, A) \cup EntityNodes(x, A) \subseteq CoreNodes(x, B) \cup EntityNodes(x, B)
<1>1. MeetingMentions(x, A) \subseteq MeetingMentions(x, B)
  BY DEF MeetingMentions
<1>2. MeetingEdges(x, A) \subseteq MeetingEdges(x, B)
  BY <1>1 DEF MeetingEdges
<1>3. SharedEntityLinks(A) \subseteq SharedEntityLinks(B)
  BY DEF SharedEntityLinks, OfType
<1>4. UNION {MemoryEdges(x, r) \cup TypedEdges(r) \cup DependencyEdges(r) : r \in A}
        \subseteq UNION {MemoryEdges(x, r) \cup TypedEdges(r) \cup DependencyEdges(r) : r \in B}
  OBVIOUS
<1>5. MeetingRelationships(x, A) \subseteq MeetingRelationships(x, B)
  BY <1>2, <1>3, <1>4 DEF MeetingRelationships
<1>6. EntityNodes(x, A) \subseteq EntityNodes(x, B)
  BY <1>1 DEF EntityNodes
<1>7. CoreNodes(x, A) \subseteq CoreNodes(x, B)
  BY DEF CoreNodes
<1> QED
  BY <1>5, <1>6, <1>7

\* Between two neighbours of a chain that only grows at its end nothing comes.
LEMMA ChainExtended ==
  ASSUME NEW R, NEW S, Extends(S, R)
  PROVE  RepeatedContent(RecordsRead(R)) \subseteq RepeatedContent(RecordsRead(S))
<1> DEFINE old == RecordsRead(R)
           new == RecordsRead(S)
<1>1. old \subseteq new /\ \A r \in new : Chrono[r.memory_id] \in Nat
  BY RecordsExtended, GraphAssumption DEF Extends
<1>2. ASSUME NEW r \in old, NEW s \in old,
             ~\E t \in old : t.row.content = r.row.content /\ Earlier(r, t) /\ Earlier(t, s)
      PROVE  ~\E t \in new : t.row.content = r.row.content /\ Earlier(r, t) /\ Earlier(t, s)
  <2>1. \A t \in new \ old : Earlier(s, t)
    BY DEF Extends
  <2> QED
    BY <1>1, <1>2, <2>1 DEF Earlier
<1> DEFINE Linked(rs) ==
             {p \in rs \X rs :
                /\ Repeats(p[1], p[2]) /\ Earlier(p[1], p[2])
                /\ ~\E s \in rs : /\ s.row.content = p[1].row.content
                                      /\ Earlier(p[1], s) /\ Earlier(s, p[2])}
<1>3. Linked(old) \subseteq Linked(new)
  BY <1>1, <1>2
<1>4. \A rs : RepeatedContent(rs) =
        {DiscriminatedEdge(MemoryNode(p[2]), "connected_to", MemoryNode(p[1]), "repeated_content") :
           p \in Linked(rs)}
  BY DEF RepeatedContent
<1> HIDE DEF Linked
<1> QED
  BY <1>3, <1>4

LEMMA GraphExtended ==
  ASSUME NEW R, NEW S, Extends(S, R)
  PROVE  /\ GraphNodes(R) \subseteq GraphNodes(S)
         /\ GraphEdges(R) \subseteq GraphEdges(S)
<1>1. \A x \in DOMAIN R :
        /\ x \in DOMAIN S
        /\ MeetingRelationships(x, R[x]) \subseteq MeetingRelationships(x, S[x])
        /\ CoreNodes(x, R[x]) \cup EntityNodes(x, R[x]) \subseteq CoreNodes(x, S[x]) \cup EntityNodes(x, S[x])
  BY MeetingExtended DEF Extends
<1>2. GraphNodes(R) \subseteq GraphNodes(S)
  BY <1>1 DEF GraphNodes
<1>3. UNION {MeetingRelationships(x, R[x]) : x \in DOMAIN R}
        \subseteq UNION {MeetingRelationships(x, S[x]) : x \in DOMAIN S}
  BY <1>1
<1>4. Supersedes(RecordsRead(R)) \subseteq Supersedes(RecordsRead(S))
  BY RecordsExtended DEF Supersedes
<1>5. Resolves(RecordsRead(R)) \subseteq Resolves(RecordsRead(S))
  BY RecordsExtended DEF Resolves, OfType
<1>6. Collaboration(DOMAIN R) \subseteq Collaboration(DOMAIN S)
  BY DEF Collaboration, Extends
<1> QED
  BY <1>2, <1>3, <1>4, <1>5, <1>6, ChainExtended DEF GraphEdges

------------------------------------------------------------------------------
(* The reading of the whole store. *)
Record(m) == [memory_id |-> m, row |-> memories[m]]

LEMMA WholeRecords ==
  TypeOK /\ ReferentialIntegrity => RecordsRead(WholeStore) = {Record(m) : m \in Stored}
<1> SUFFICES ASSUME TypeOK, ReferentialIntegrity
             PROVE  RecordsRead(WholeStore) = {Record(m) : m \in Stored}
  OBVIOUS
<1>1. DOMAIN WholeStore = Registered
      /\ \A x \in Registered : WholeStore[x] = {Record(m) : m \in MemoriesOf(x)}
  BY DEF WholeStore, FindByMeeting, Record
<1>2. \A m \in Stored : memories[m].meeting_id \in Registered /\ m \in MemoriesOf(memories[m].meeting_id)
  BY DEF ReferentialIntegrity, MemoriesOf
<1>3. \A x \in Registered : MemoriesOf(x) \subseteq Stored
  BY DEF MemoriesOf
<1> QED
  BY <1>1, <1>2, <1>3 DEF RecordsRead

LEMMA WholeRecordsNext ==
  (TypeOK /\ ReferentialIntegrity)' => RecordsRead(WholeStore)' = {Record(m)' : m \in Stored'}
<1>1. (TypeOK /\ ReferentialIntegrity)' => (RecordsRead(WholeStore) = {Record(m) : m \in Stored})'
  BY WholeRecords, PTL
<1> QED
  BY <1>1

\* What an append does to the store.
Grows ==
  /\ Registered \subseteq Registered'
  /\ Stored \subseteq Stored'
  /\ \A m \in Stored : memories'[m] = memories[m]
  /\ \A m \in Stored, n \in Stored' \ Stored : Chrono[m] < Chrono[n]

LEMMA StoreExtended ==
  ASSUME IInv, IInv', Grows
  PROVE  Extends(WholeStore', WholeStore)
<1>1. /\ DOMAIN WholeStore = Registered /\ DOMAIN WholeStore' = Registered'
      /\ \A x \in Registered : WholeStore[x] = {Record(m) : m \in MemoriesOf(x)}
      /\ \A x \in Registered' : WholeStore'[x] = {Record(m)' : m \in MemoriesOf(x)'}
  BY DEF WholeStore, FindByMeeting, Record
<1>2. \A m \in Stored : Record(m)' = Record(m) /\ m \in MemoryId
  BY DEF Grows, Record, Stored
<1>3. \A x : MemoriesOf(x) \subseteq MemoriesOf(x)' /\ MemoriesOf(x) \subseteq Stored
  BY DEF Grows, MemoriesOf
<1>4. \A x \in Registered : x \in Registered' /\ WholeStore[x] \subseteq WholeStore'[x]
  BY <1>1, <1>2, <1>3 DEF Grows
<1>5. /\ RecordsRead(WholeStore) = {Record(m) : m \in Stored}
      /\ RecordsRead(WholeStore') = {Record(m)' : m \in Stored'}
  BY WholeRecords, WholeRecordsNext DEF IInv
<1>6. /\ \A m : Record(m).memory_id = m /\ Record(m)'.memory_id = m
      /\ Stored' \subseteq MemoryId
  BY DEF Record, Stored
<1>7. \A r \in RecordsRead(WholeStore') : r.memory_id \in MemoryId
  BY <1>5, <1>6
<1>8. ASSUME NEW r \in RecordsRead(WholeStore), NEW s \in RecordsRead(WholeStore') \ RecordsRead(WholeStore)
      PROVE  Earlier(r, s)
  <2>1. PICK m \in Stored : r = Record(m)
    BY <1>5
  <2>2. PICK n \in Stored' : s = Record(n)'
    BY <1>5
  <2>3. n \notin Stored
    BY <1>2, <1>5, <2>2
  <2>4. Chrono[m] < Chrono[n]
    BY <2>3 DEF Grows
  <2> QED
    BY <1>6, <2>1, <2>2, <2>4 DEF Earlier
<1> QED
  BY <1>1, <1>4, <1>7, <1>8 DEF Extends

LEMMA StoreKept ==
  ASSUME UNCHANGED vars
  PROVE  /\ Registered' = Registered /\ WholeStore' = WholeStore
         /\ \A x : FindByMeeting(x)' = FindByMeeting(x)
BY DEF vars, Registered, WholeStore, FindByMeeting, MemoriesOf, Stored

LEMMA InvKept ==
  ASSUME IInv, UNCHANGED vars
  PROVE  IInv'
BY NextInv

\* A node id says what the node is.
LEMMA NodesDetermined ==
  ASSUME IInv, NEW n \in GraphNodes(WholeStore), NEW k \in GraphNodes(WholeStore), n.id = k.id
  PROVE  n = k
<1> DEFINE Kind == {"decision", "commitment", "risk", "question", "assumption", "fact", "memory"}
<1>1. \A a, b : <<a, b>>[1] = a /\ <<a, b>>[2] = b
  OBVIOUS
<1>2. \A m \in Stored : memories[m] \in MemoryRow
  BY DEF IInv, TypeOK, Stored
<1>3. ASSUME NEW m \in Stored
      PROVE  /\ MemoryNode(Record(m))[1] \in Kind /\ MemoryNode(Record(m))[2] = m
             /\ Record(m).row.status = memories[m].status
             /\ Mentions(Record(m)) \subseteq Entity
  <2>1. About[memories[m].content] \in [type : MemoryType, speaker : Person \cup {NULL},
                                        owner : Person \cup {NULL}, mentions : SUBSET Entity]
    BY <1>2, GraphAssumption DEF MemoryRow
  <2>2. Type(Record(m)) \in MemoryType /\ Mentions(Record(m)) \subseteq Entity
    BY <2>1 DEF Type, Mentions, About1, Record
  <2> QED
    BY <1>1, <2>2 DEF MemoryNode, MemoryType, Record
<1> DEFINE Memory(i) == \E m \in Stored : i.id = MemoryNode(Record(m)) /\ i.status = memories[m].status
           Other(i) == i.id[1] \notin Kind /\ i.status = NULL
<1>4. ASSUME NEW i \in GraphNodes(WholeStore)
      PROVE  i = [id |-> i.id, status |-> i.status] /\ (Memory(i) \/ Other(i))
  <2>1. PICK x \in Registered : i \in CoreNodes(x, WholeStore[x]) \cup EntityNodes(x, WholeStore[x])
    BY <1>4 DEF GraphNodes, WholeStore
  <2>2. WholeStore[x] = {Record(m) : m \in MemoriesOf(x)} /\ MemoriesOf(x) \subseteq Stored
    BY DEF WholeStore, FindByMeeting, Record, MemoriesOf
  <2>3. TitleMentions[x] \subseteq Entity
    BY GraphAssumption DEF Registered
  <2>4. CASE i \in EntityNodes(x, WholeStore[x])
    <3>1. PICK e \in MeetingMentions(x, WholeStore[x]) : i = [id |-> e, status |-> NULL]
      BY <2>4 DEF EntityNodes
    <3>2. e \in Entity
      BY <1>3, <2>2, <2>3 DEF MeetingMentions
    <3> QED
      BY <3>1, <3>2, GraphAssumption
  <2>5. CASE i = [id |-> MeetingNode(x), status |-> NULL]
    BY <2>5, <1>1 DEF MeetingNode
  <2>6. CASE \E p : i = [id |-> PersonNode(p), status |-> NULL]
    BY <2>6, <1>1 DEF PersonNode
  <2>7. CASE \E r \in WholeStore[x] : i = [id |-> MemoryNode(r), status |-> r.row.status]
    BY <2>7, <2>2, <1>3
  <2> QED
    BY <2>1, <2>4, <2>5, <2>6, <2>7 DEF CoreNodes
<1>5. Memory(n) /\ Memory(k) => n = k
  <2> SUFFICES ASSUME Memory(n), Memory(k)
               PROVE  n = k
    OBVIOUS
  <2>1. PICK m \in Stored : n.id = MemoryNode(Record(m)) /\ n.status = memories[m].status
    OBVIOUS
  <2>2. PICK l \in Stored : k.id = MemoryNode(Record(l)) /\ k.status = memories[l].status
    OBVIOUS
  <2>3. MemoryNode(Record(m))[2] = m /\ MemoryNode(Record(l))[2] = l
    BY <1>3
  <2>4. m = l
    BY <2>1, <2>2, <2>3
  <2> QED
    BY <1>4, <2>1, <2>2, <2>4
<1>6. Other(n) /\ Other(k) => n = k
  BY <1>4
<1>7. ~(Memory(n) /\ Other(k)) /\ ~(Other(n) /\ Memory(k))
  BY <1>3
<1>8. (Memory(n) \/ Other(n)) /\ (Memory(k) \/ Other(k))
  BY <1>4
<1> HIDE DEF Memory, Other
<1> QED
  BY <1>5, <1>6, <1>7, <1>8

------------------------------------------------------------------------------
(***************************************************************************)
(* The inductive invariant.  While the store stands still under a build,   *)
(* what was read is the store's, and what was added covers it.  As long as *)
(* history is tidy, the tables hold a part of the store's graph, and what  *)
(* a builder is about to add is a part of it too.                          *)
(***************************************************************************)
SyncTypeOK ==
  /\ pc \in [Builder -> {"idle", "read", "edges"}]
  /\ todo \in [Builder -> SUBSET MeetingId]
  /\ DOMAIN reading = Builder
  /\ quiet \in [Builder -> BOOLEAN]
  /\ tidy \in BOOLEAN

NodesCovered == NodeIds(GraphNodes(WholeStore)) \subseteq NodeIds(nodes)

ReadsWhole(b) ==
  quiet[b] =>
    /\ pc[b] = "read" => /\ todo[b] \subseteq Registered
                         /\ reading[b] = [x \in Registered \ todo[b] |-> FindByMeeting(x)]
    /\ pc[b] = "edges" => reading[b] = WholeStore /\ NodesCovered
    /\ pc[b] = "idle" => NodesCovered /\ GraphEdges(WholeStore) \subseteq edges

Grown ==
  tidy =>
    /\ nodes \subseteq GraphNodes(WholeStore)
    /\ edges \subseteq GraphEdges(WholeStore)
    /\ \A b \in Builder :
         /\ pc[b] = "read" => quiet[b]
         /\ pc[b] = "edges" => GraphEdges(reading[b]) \subseteq GraphEdges(WholeStore)

SyncInv ==
  /\ IInv /\ SyncTypeOK
  /\ EdgesAttached
  /\ \A b \in Builder : ReadsWhole(b)
  /\ Grown

LEMMA SyncInitInv ==
  ASSUME SyncInit
  PROVE  SyncInv
<1>1. IInv
  BY DEF SyncInit, Init, IInv, TypeOK, Reply, ReferentialIntegrity, ChildrenExact,
     TranscriptUnique, PointerOnlyWhenSuperseded, Stored, Registered
<1>2. SyncTypeOK /\ EdgesAttached /\ \A b \in Builder : ReadsWhole(b)
  BY DEF SyncInit, Unbuilt, SyncTypeOK, EdgesAttached, Attached, ReadsWhole
<1>3. Grown
  BY DEF SyncInit, Unbuilt, Grown
<1> QED
  BY <1>1, <1>2, <1>3 DEF SyncInv

\* What a client does to the store, seen by the builders.
LEMMA NoticedInv ==
  ASSUME SyncInv, IInv', NEW appended \in BOOLEAN, Noticed(appended), appended => Grows
  PROVE  SyncInv'
<1>1. SyncTypeOK'
  BY DEF SyncInv, SyncTypeOK, Noticed
<1>2. EdgesAttached'
  BY DEF SyncInv, EdgesAttached, Attached, Noticed, graph
<1>3. \A b \in Builder : ReadsWhole(b)'
  BY DEF Noticed, ReadsWhole
<1>4. Grown'
  <2> SUFFICES ASSUME tidy'
               PROVE  Grown'
    BY DEF Grown
  <2>1. tidy /\ appended /\ \A b \in Builder : pc[b] # "read"
    BY DEF Noticed, SyncInv, SyncTypeOK
  <2>2. /\ GraphNodes(WholeStore) \subseteq GraphNodes(WholeStore')
        /\ GraphEdges(WholeStore) \subseteq GraphEdges(WholeStore')
    BY <2>1, StoreExtended, GraphExtended DEF SyncInv
  <2> QED
    BY <2>1, <2>2 DEF SyncInv, Grown, Noticed, graph
<1> QED
  BY <1>1, <1>2, <1>3, <1>4 DEF SyncInv

LEMMA ClientInv ==
  ASSUME SyncInv, ClientImports \/ ClientEdits \/ ClientDeletes
  PROVE  SyncInv'
<1>1. ASSUME NEW x \in MeetingId, SaveMeeting(x, HashOf[x]), Noticed(TRUE)
      PROVE  SyncInv'
  <2>1. HashOf[x] \in Hash
    BY SyncAssumption
  <2>2. IInv'
    BY <1>1, <2>1, SaveMeetingInv DEF SyncInv
  <2>3. Grows
    BY <1>1, <2>1, NullAssumption DEF SaveMeeting, Answer, tables, Grows, Registered, Stored,
       SyncInv, IInv, TypeOK
  <2> QED
    BY <1>1, <2>2, <2>3, NoticedInv
<1>2. ASSUME NEW batch \in Batch, SaveMany(batch), Noticed(Appends(batch))
      PROVE  SyncInv'
  <2>1. IInv'
    BY <1>2, NextInv DEF Next, SyncInv
  <2>2. batch \in Seq(StoredMemory) /\ Appends(batch) \in BOOLEAN
    BY BatchType DEF Appends
  <2>3. ASSUME Appends(batch)
        PROVE  Grows
    <3>1. CASE UNCHANGED tables
      BY <3>1 DEF Grows, tables, Registered, Stored
    <3>2. CASE Insertable(batch) /\ InsertMemories(batch) /\ UNCHANGED meetings
      <4>1. /\ Ids(batch) \subseteq MemoryId \ Stored
            /\ \A m \in MemoryId \ Ids(batch) : memories'[m] = memories[m]
            /\ Stored' = Stored \cup Ids(batch)
        BY <2>2, <3>2, InsertedRows
      <4>2. \A m \in Stored, n \in Ids(batch) : Chrono[m] < Chrono[n]
        BY <2>3 DEF Appends, Ids
      <4> QED
        BY <3>2, <4>1, <4>2 DEF Grows, Registered, Stored
    <3> QED
      BY <1>2, <3>1, <3>2 DEF SaveMany, Answer
  <2> QED
    BY <1>2, <2>1, <2>2, <2>3, NoticedInv
<1>3. ASSUME Next, Noticed(FALSE)
      PROVE  SyncInv'
  BY <1>3, NextInv, NoticedInv DEF SyncInv
<1>4. ASSUME NEW c \in Corrections, Supersede(c[1], c[2])
      PROVE  Next
  BY <1>4, SyncAssumption DEF Next, Lifecycle
<1>5. ASSUME NEW id \in MemoryId, Delete(id) \/ Restore(id)
      PROVE  Next
  BY <1>5 DEF Next, Lifecycle
<1>6. CASE ClientImports
  BY <1>1, <1>2, <1>6 DEF ClientImports, Changed
<1>7. CASE ClientEdits
  BY <1>3, <1>4, <1>5, <1>7 DEF ClientEdits, Changed
<1>8. CASE ClientDeletes
  BY <1>3, <1>8 DEF ClientDeletes, Changed, Next
<1> QED
  BY <1>6, <1>7, <1>8

------------------------------------------------------------------------------
(* The steps of a build leave the store alone. *)
LEMMA ListMeetingsInv ==
  ASSUME SyncInv, NEW b \in Builder, ListMeetings(b)
  PROVE  SyncInv'
<1>1. UNCHANGED vars /\ IInv' /\ WholeStore' = WholeStore /\ Registered' = Registered
      /\ \A x : FindByMeeting(x)' = FindByMeeting(x)
  BY StoreKept, InvKept DEF ListMeetings, SyncInv
<1>2. /\ UNCHANGED <<nodes, edges, tidy>>
      /\ pc' = [pc EXCEPT ![b] = "read"] /\ quiet' = [quiet EXCEPT ![b] = TRUE]
      /\ todo' = [todo EXCEPT ![b] = Registered] /\ reading' = [reading EXCEPT ![b] = Nothing]
  BY DEF ListMeetings, graph
<1>3. SyncTypeOK'
  BY <1>2 DEF SyncInv, SyncTypeOK, Registered
<1>4. EdgesAttached'
  BY <1>2 DEF SyncInv, SyncTypeOK, EdgesAttached, Attached
<1>5. ASSUME NEW c \in Builder
      PROVE  ReadsWhole(c)'
  <2>1. CASE c # b
    BY <1>1, <1>2, <2>1 DEF SyncInv, SyncTypeOK, ReadsWhole, NodesCovered
  <2>2. CASE c = b
    <3>1. pc'[b] = "read" /\ todo'[b] = Registered' /\ reading'[b] = Nothing
      BY <1>1, <1>2 DEF SyncInv, SyncTypeOK
    <3>2. Nothing = [x \in Registered' \ todo'[b] |-> FindByMeeting(x)']
      BY <3>1 DEF Nothing
    <3> QED
      BY <2>2, <3>1, <3>2 DEF ReadsWhole
  <2> QED
    BY <2>1, <2>2
<1>6. Grown'
  BY <1>1, <1>2 DEF SyncInv, SyncTypeOK, Grown
<1> QED
  BY <1>1, <1>3, <1>4, <1>5, <1>6 DEF SyncInv

LEMMA ReadMeetingInv ==
  ASSUME SyncInv, NEW b \in Builder, ReadMeeting(b)
  PROVE  SyncInv'
<1>1. UNCHANGED vars /\ IInv' /\ WholeStore' = WholeStore /\ Registered' = Registered
      /\ \A x : FindByMeeting(x)' = FindByMeeting(x)
  BY StoreKept, InvKept DEF ReadMeeting, SyncInv
<1>2. PICK x \in todo[b] :
        /\ UNCHANGED <<nodes, edges, tidy, pc, quiet>> /\ pc[b] = "read"
        /\ todo' = [todo EXCEPT ![b] = todo[b] \ {x}]
        /\ reading' = [reading EXCEPT ![b] =
             [y \in DOMAIN reading[b] \cup {x} |-> IF y = x THEN FindByMeeting(x) ELSE reading[b][y]]]
  BY DEF ReadMeeting, graph, SyncInv, SyncTypeOK
<1>3. SyncTypeOK'
  BY <1>2 DEF SyncInv, SyncTypeOK
<1>4. EdgesAttached'
  BY <1>2 DEF SyncInv, SyncTypeOK, EdgesAttached, Attached
<1>5. ASSUME NEW c \in Builder
      PROVE  ReadsWhole(c)'
  <2>1. CASE c # b
    BY <1>1, <1>2, <2>1 DEF SyncInv, SyncTypeOK, ReadsWhole, NodesCovered
  <2>2. CASE c = b
    <3> SUFFICES ASSUME quiet[b]
                 PROVE  /\ todo'[b] \subseteq Registered
                        /\ reading'[b] = [y \in Registered \ todo'[b] |-> FindByMeeting(y)]
      BY <1>1, <1>2, <2>2 DEF ReadsWhole
    <3>1. /\ todo[b] \subseteq Registered
          /\ reading[b] = [y \in Registered \ todo[b] |-> FindByMeeting(y)]
      BY <1>2 DEF SyncInv, ReadsWhole
    <3>2. todo'[b] = todo[b] \ {x} /\ Registered \ todo'[b] = (Registered \ todo[b]) \cup {x}
      BY <1>2, <3>1 DEF SyncInv, SyncTypeOK
    <3>3. reading'[b] = [y \in (Registered \ todo[b]) \cup {x} |->
                           IF y = x THEN FindByMeeting(x) ELSE reading[b][y]]
      BY <1>2, <3>1 DEF SyncInv, SyncTypeOK
    <3> QED
      BY <3>1, <3>2, <3>3
  <2> QED
    BY <2>1, <2>2
<1>6. Grown'
  BY <1>1, <1>2 DEF SyncInv, SyncTypeOK, Grown
<1> QED
  BY <1>1, <1>3, <1>4, <1>5, <1>6 DEF SyncInv

LEMMA AddNodesInv ==
  ASSUME SyncInv, NEW b \in Builder, AddNodes(b)
  PROVE  SyncInv'
<1>1. UNCHANGED vars /\ IInv' /\ WholeStore' = WholeStore /\ Registered' = Registered
      /\ \A x : FindByMeeting(x)' = FindByMeeting(x)
  BY StoreKept, InvKept DEF AddNodes, SyncInv
<1>2. /\ pc[b] = "read" /\ todo[b] = {} /\ pc' = [pc EXCEPT ![b] = "edges"]
      /\ UNCHANGED <<edges, todo, reading, quiet, tidy>>
      /\ nodes' = nodes \cup {n \in GraphNodes(reading[b]) : n.id \notin NodeIds(nodes)}
  BY DEF AddNodes
<1>3. SyncTypeOK'
  BY <1>2 DEF SyncInv, SyncTypeOK
<1>4. NodeIds(nodes') = NodeIds(nodes) \cup NodeIds(GraphNodes(reading[b]))
  BY <1>2 DEF NodeIds
<1>5. EdgesAttached'
  <2>1. Joins(GraphEdges(reading[b]), NodeIds(nodes'))
    BY <1>4, GraphEdgesJoin DEF Joins
  <2>2. /\ Joins(edges, NodeIds(nodes'))
        /\ \A c \in Builder : pc[c] = "edges" => Joins(GraphEdges(reading[c]), NodeIds(nodes'))
    BY <1>4 DEF SyncInv, EdgesAttached, Attached, Joins
  <2> QED
    BY <1>2, <2>1, <2>2 DEF SyncInv, SyncTypeOK, EdgesAttached, Attached, Joins
<1>6. quiet[b] => reading[b] = WholeStore
  BY <1>2 DEF SyncInv, ReadsWhole, WholeStore
<1>7. ASSUME NEW c \in Builder
      PROVE  ReadsWhole(c)'
  <2>1. NodesCovered => NodesCovered'
    BY <1>1, <1>4 DEF NodesCovered
  <2>2. CASE c # b
    BY <1>1, <1>2, <2>1, <2>2 DEF SyncInv, SyncTypeOK, ReadsWhole
  <2>3. CASE c = b
    BY <1>1, <1>2, <1>4, <1>6, <2>3 DEF SyncInv, SyncTypeOK, ReadsWhole, NodesCovered
  <2> QED
    BY <2>2, <2>3
<1>8. Grown'
  BY <1>1, <1>2, <1>6 DEF SyncInv, SyncTypeOK, Grown
<1> QED
  BY <1>1, <1>3, <1>5, <1>7, <1>8 DEF SyncInv

LEMMA AddEdgesInv ==
  ASSUME SyncInv, NEW b \in Builder, AddEdges(b)
  PROVE  SyncInv'
<1>1. UNCHANGED vars /\ IInv' /\ WholeStore' = WholeStore /\ Registered' = Registered
      /\ \A x : FindByMeeting(x)' = FindByMeeting(x)
  BY StoreKept, InvKept DEF AddEdges, SyncInv
<1>2. /\ pc[b] = "edges" /\ pc' = [pc EXCEPT ![b] = "idle"]
      /\ Attached(GraphEdges(reading[b]))
      /\ UNCHANGED <<nodes, todo, quiet, tidy>>
      /\ edges' = edges \cup GraphEdges(reading[b])
      /\ reading' = [reading EXCEPT ![b] = Nothing]
  BY DEF AddEdges
<1>3. SyncTypeOK'
  BY <1>2 DEF SyncInv, SyncTypeOK
<1>4. EdgesAttached'
  BY <1>2 DEF SyncInv, SyncTypeOK, EdgesAttached, Attached
<1>5. ASSUME NEW c \in Builder
      PROVE  ReadsWhole(c)'
  <2>1. CASE c # b
    BY <1>1, <1>2, <2>1 DEF SyncInv, SyncTypeOK, ReadsWhole, NodesCovered
  <2>2. CASE c = b
    BY <1>1, <1>2, <2>2 DEF SyncInv, SyncTypeOK, ReadsWhole, NodesCovered
  <2> QED
    BY <2>1, <2>2
<1>6. Grown'
  BY <1>1, <1>2 DEF SyncInv, SyncTypeOK, Grown
<1> QED
  BY <1>1, <1>3, <1>4, <1>5, <1>6 DEF SyncInv

LEMMA QuitInv ==
  ASSUME SyncInv, NEW b \in Builder, Quit(b)
  PROVE  SyncInv'
<1>1. UNCHANGED vars /\ IInv' /\ WholeStore' = WholeStore /\ Registered' = Registered
      /\ \A x : FindByMeeting(x)' = FindByMeeting(x)
  BY StoreKept, InvKept DEF Quit, SyncInv
<1>2. /\ pc' = [pc EXCEPT ![b] = "idle"] /\ quiet' = [quiet EXCEPT ![b] = FALSE]
      /\ UNCHANGED <<nodes, edges, tidy>>
      /\ todo' = [todo EXCEPT ![b] = {}] /\ reading' = [reading EXCEPT ![b] = Nothing]
  BY DEF Quit, graph
<1>3. SyncTypeOK'
  BY <1>2 DEF SyncInv, SyncTypeOK
<1>4. EdgesAttached'
  BY <1>2 DEF SyncInv, SyncTypeOK, EdgesAttached, Attached
<1>5. ASSUME NEW c \in Builder
      PROVE  ReadsWhole(c)'
  <2>1. CASE c # b
    BY <1>1, <1>2, <2>1 DEF SyncInv, SyncTypeOK, ReadsWhole, NodesCovered
  <2>2. CASE c = b
    BY <1>2, <2>2 DEF SyncInv, SyncTypeOK, ReadsWhole
  <2> QED
    BY <2>1, <2>2
<1>6. Grown'
  BY <1>1, <1>2 DEF SyncInv, SyncTypeOK, Grown
<1> QED
  BY <1>1, <1>3, <1>4, <1>5, <1>6 DEF SyncInv

LEMMA SyncNextInv ==
  ASSUME SyncInv, [SyncNext]_syncVars
  PROVE  SyncInv'
<1>1. CASE UNCHANGED syncVars
  <2>1. UNCHANGED vars /\ IInv' /\ WholeStore' = WholeStore /\ Registered' = Registered
        /\ \A x : FindByMeeting(x)' = FindByMeeting(x)
    BY <1>1, StoreKept, InvKept DEF syncVars, SyncInv
  <2> QED
    BY <1>1, <2>1 DEF syncVars, graph, builders, SyncInv, SyncTypeOK, EdgesAttached, Attached,
       ReadsWhole, NodesCovered, Grown
<1>2. CASE SyncNext
  BY <1>2, ClientInv, ListMeetingsInv, ReadMeetingInv, AddNodesInv, AddEdgesInv, QuitInv DEF SyncNext
<1> QED
  BY <1>1, <1>2

LEMMA SyncInvariant == SyncSpec => []SyncInv
BY SyncInitInv, SyncNextInv, PTL DEF SyncSpec

------------------------------------------------------------------------------
\* add_edges never meets an edge without its nodes, whatever is written to the
\* store while the builder reads and whatever earlier builds left.
THEOREM EdgesStayAttached == SyncSpec => []EdgesAttached
BY SyncInvariant, PTL DEF SyncInv

\* A rebuild that nobody disturbed covers the store, whatever was there.
THEOREM RebuildsCover == SyncSpec => []RebuildCovers
<1>1. SyncInv => RebuildCovers
  BY DEF SyncInv, ReadsWhole, NodesCovered, RebuildCovers, Rebuilt
<1> QED
  BY <1>1, SyncInvariant, PTL

\* As long as the store only grows at its end and stands still while it is
\* read, step-by-step building gives the graph that one build would give.
THEOREM RebuildsExact == SyncSpec => []ExactWhileTidy
<1>1. ASSUME SyncInv, NEW b \in Builder, Rebuilt(b), tidy
      PROVE  Reflects
  <2>1. /\ nodes \subseteq GraphNodes(WholeStore) /\ edges \subseteq GraphEdges(WholeStore)
        /\ NodesCovered /\ GraphEdges(WholeStore) \subseteq edges /\ IInv
    BY <1>1 DEF SyncInv, Grown, ReadsWhole, Rebuilt
  <2>2. GraphNodes(WholeStore) \subseteq nodes
    <3> SUFFICES ASSUME NEW n \in GraphNodes(WholeStore)
                 PROVE  n \in nodes
      OBVIOUS
    <3>1. PICK k \in nodes : k.id = n.id
      BY <2>1 DEF NodesCovered, NodeIds
    <3> QED
      BY <2>1, <3>1, NodesDetermined
  <2> QED
    BY <2>1, <2>2 DEF Reflects
<1>2. SyncInv => ExactWhileTidy
  BY <1>1 DEF ExactWhileTidy
<1> QED
  BY <1>2, SyncInvariant, PTL

------------------------------------------------------------------------------
(* Intelligence: what the insights of a context are about *)
\* Each analysis writes insights of its own types.
OfTypes(insights, types) == \A i \in insights : i.type \in types

LEMMA CommitmentTypes ==
  ASSUME NEW c
  PROVE  /\ OfTypes(OverloadInsights(c), {"open_commitment_overload"})
         /\ OfTypes(OverdueInsights(c), {"overdue_commitment"})
         /\ OfTypes(AgingInsights(c), {"aging_commitment"})
         /\ OfTypes(ResolutionInsight(c), {"low_commitment_resolution"})
<1>1. OfTypes(OverloadInsights(c), {"open_commitment_overload"})
  BY DEF Insight, OfTypes, OverloadInsights
<1>2. OfTypes(OverdueInsights(c), {"overdue_commitment"})
  BY DEF Insight, OfTypes, OverdueInsights
<1>3. OfTypes(AgingInsights(c), {"aging_commitment"})
  BY DEF Insight, OfTypes, AgingInsights
<1>4. OfTypes(ResolutionInsight(c), {"low_commitment_resolution"})
  BY DEF Insight, OfTypes, ResolutionInsight
<1> QED
  BY <1>1, <1>2, <1>3, <1>4

LEMMA DecisionTypes ==
  ASSUME NEW c
  PROVE  /\ OfTypes(SupersededInsights(c), {"repeatedly_superseded_decision", "long_running_decision"})
         /\ OfTypes(RevisitedInsights(c), {"revisited_decision"})
         /\ OfTypes(UnstableInsight(c), {"unstable_decisions"})
<1>1. OfTypes(SupersededInsights(c), {"repeatedly_superseded_decision", "long_running_decision"})
  <2> DEFINE chain(ids) == {r \in c.memories : \E i \in DOMAIN ids : ids[i] = r.memory_id}
             longest(ids) == {Insight("repeatedly_superseded_decision", "decision", ids[Len(ids)],
                                      ScaleSeverity(n, 2, 3, 5), n, chain(ids)) : n \in {Len(ids) - 1} \ {1}}
             oldest(ids) == {Insight("long_running_decision", "decision", ids[Len(ids)],
                                     ScaleSeverity(d, 30, 90, 180), d, chain(ids)) :
                               d \in {ChainSpan(c, chain(ids))} \ (0 .. 29)}
             chains == SupersessionChains(ByType(c, "decision"), c.memories)
  <2>1. SupersededInsights(c) = UNION {longest(ids) \cup oldest(ids) : ids \in chains}
    <3> HIDE DEF chains
    <3> QED
      BY ZenonT(30) DEF SupersededInsights, chains
  <2>2. \A ids : \A i \in longest(ids) : i.type = "repeatedly_superseded_decision"
    BY DEF Insight
  <2>3. ASSUME NEW ids, NEW i \in oldest(ids)
        PROVE  i.type = "long_running_decision"
    <3>1. \E d, all : i = Insight("long_running_decision", "decision", ids[Len(ids)],
                                 ScaleSeverity(d, 30, 90, 180), d, all)
      BY <2>3
    <3> QED
      BY <3>1 DEF Insight
  <2> HIDE DEF longest, oldest
  <2> QED
    BY <2>1, <2>2, <2>3 DEF OfTypes
<1>2. OfTypes(RevisitedInsights(c), {"revisited_decision"})
  BY DEF Insight, OfTypes, RevisitedInsights, RecurringInsight
<1>3. OfTypes(UnstableInsight(c), {"unstable_decisions"})
  BY DEF Insight, OfTypes, UnstableInsight
<1> QED
  BY <1>1, <1>2, <1>3

LEMMA RiskTypes ==
  ASSUME NEW c
  PROVE  /\ OfTypes(RecurringRiskInsights(c), {"recurring_risk", "long_lived_risk"})
         /\ OfTypes(UnresolvedInsights(c), {"unresolved_risk"})
         /\ OfTypes(HotspotInsights(c), {"risk_hotspot", "project_blocker"})
<1>1. OfTypes(RecurringRiskInsights(c), {"recurring_risk", "long_lived_risk"})
  BY DEF Insight, OfTypes, RecurringRiskInsights, RecurringInsight
<1>2. OfTypes(UnresolvedInsights(c), {"unresolved_risk"})
  BY DEF Insight, OfTypes, UnresolvedInsights
<1>3. OfTypes(HotspotInsights(c), {"risk_hotspot", "project_blocker"})
  BY DEF Insight, OfTypes, HotspotInsights
<1> QED
  BY <1>1, <1>2, <1>3

\* Hence those of some types are what these analyses wrote.
LEMMA InsightsOfTypes ==
  ASSUME NEW c
  PROVE  /\ {i \in Insights(c) : i.type \in Single} =
              OverdueInsights(c) \cup AgingInsights(c) \cup UnresolvedInsights(c)
         /\ {i \in Insights(c) : i.type \in {"open_commitment_overload"}} = OverloadInsights(c)
BY CommitmentTypes, DecisionTypes, RiskTypes DEF OfTypes, Insights, Single

------------------------------------------------------------------------------
(* Intelligence: what a filter leaves out *)
\* The context without filters of a listing, at the date of another one.
Wider(found, reference) ==
  [memories |-> {r \in found.records : r.row.status # "DELETED" /\ r.row.meeting_id \in found.meetings},
   meetings |-> found.meetings, graph |-> FALSE, reference |-> reference]
OneToAnId(R) == \A r, s \in R : r.memory_id = s.memory_id => r = s

LEMMA ContextIsNarrower ==
  ASSUME NEW call, NEW found
  PROVE  LET c == Context(call, found)
             u == Wider(found, c.reference)
         IN  /\ c.memories \subseteq u.memories /\ u.memories \subseteq found.records
             /\ c.reference = u.reference
             /\ \A r \in c.memories : MemoryDate(c, r) = MemoryDate(u, r)
<1> DEFINE chosen == IF call.meetings = {} THEN found.meetings ELSE found.meetings \cap call.meetings
           c == Context(call, found)
           u == Wider(found, c.reference)
<1>1. /\ c.memories = {r \in found.records : Selected(call, chosen, r)}
      /\ c.meetings = chosen
  BY DEF Context
<1>2. /\ u.memories = {r \in found.records : r.row.status # "DELETED" /\ r.row.meeting_id \in found.meetings}
      /\ u.meetings = found.meetings /\ u.reference = c.reference
  BY DEF Wider
<1>3. chosen \subseteq found.meetings
  OBVIOUS
<1>4. \A r \in c.memories : r \in found.records /\ r.row.status # "DELETED" /\ r.row.meeting_id \in chosen
  BY <1>1 DEF Selected
<1> HIDE DEF c, u, chosen
<1>5. \A r \in c.memories : MemoryDate(c, r) = MemoryDate(u, r)
  BY <1>1, <1>2, <1>3, <1>4 DEF MemoryDate
<1>6. c.memories \subseteq u.memories /\ u.memories \subseteq found.records
  BY <1>2, <1>3, <1>4
<1> QED
  BY <1>2, <1>5, <1>6 DEF c, u

\* What is said of single memories is said of each by itself: fewer memories,
\* fewer of these insights, and no other change.
Narrows(c, u) ==
  /\ c.memories \subseteq u.memories /\ OneToAnId(u.memories)
  /\ c.reference = u.reference
  /\ \A r \in c.memories : MemoryDate(c, r) = MemoryDate(u, r)
Passing(insights, c) == {i \in insights : i.evidence \subseteq {r.memory_id : r \in c.memories}}

LEMMA OverdueNarrows ==
  ASSUME NEW c, NEW u, Narrows(c, u)
  PROVE  OverdueInsights(c) = Passing(OverdueInsights(u), c)
<1> DEFINE about(x, r) == Insight("overdue_commitment", "commitment", r.memory_id,
                                  ScaleSeverity(OverdueDays(x, r), 1, 14, 45), OverdueDays(x, r), {r})
           in(x) == {r \in {q \in x.memories : Type(q) \in {"commitment"}} : OverdueDays(x, r) > 0}
<1>1. \A r \in c.memories : OverdueDays(c, r) = OverdueDays(u, r)
  BY DEF Narrows, OverdueDays
<1>2. \A x : OverdueInsights(x) = {about(x, r) : r \in in(x)}
  BY Zenon DEF OverdueInsights, Open, Having, ByType, OfType
<1>3. \A x : \A r \in in(x) : about(x, r).evidence = {r.memory_id} /\ r \in x.memories
  BY DEF Insight
<1>4. \A r \in c.memories : (r \in in(c) <=> r \in in(u)) /\ about(c, r) = about(u, r)
  BY <1>1 DEF Narrows
<1> HIDE DEF about, in
<1>5. \A r \in in(u) : r \in c.memories <=> {r.memory_id} \subseteq {s.memory_id : s \in c.memories}
  BY <1>3 DEF Narrows, OneToAnId
<1>6. ASSUME NEW i \in OverdueInsights(c)
      PROVE  i \in Passing(OverdueInsights(u), c)
  <2>1. PICK r \in in(c) : i = about(c, r)
    BY <1>2
  <2>2. r \in in(u) /\ i = about(u, r)
    BY <1>3, <1>4, <2>1
  <2> QED
    BY <1>2, <1>3, <1>5, <2>1, <2>2 DEF Passing
<1>7. ASSUME NEW i \in Passing(OverdueInsights(u), c)
      PROVE  i \in OverdueInsights(c)
  <2>1. PICK r \in in(u) : i = about(u, r)
    BY <1>2 DEF Passing
  <2>2. r \in c.memories
    BY <1>3, <1>5, <2>1 DEF Passing
  <2> QED
    BY <1>2, <1>4, <2>1, <2>2
<1> QED
  BY <1>6, <1>7

LEMMA AgingNarrows ==
  ASSUME NEW c, NEW u, Narrows(c, u)
  PROVE  AgingInsights(c) = Passing(AgingInsights(u), c)
<1> DEFINE about(x, r) == Insight("aging_commitment", "commitment", r.memory_id,
                                  ScaleSeverity(Age(x, r), 30, 90, 180), Age(x, r), {r})
           in(x) == {r \in {q \in {p \in x.memories : Type(p) \in {"commitment"}} : q.row.status \in {"ACTIVE"}} :
                      Age(x, r) >= 30 /\ OverdueDays(x, r) = 0}
<1>1. \A r \in c.memories : OverdueDays(c, r) = OverdueDays(u, r) /\ Age(c, r) = Age(u, r)
  BY DEF Narrows, OverdueDays, Age
<1>2. \A x : AgingInsights(x) = {about(x, r) : r \in in(x)}
  BY Zenon DEF AgingInsights, Open, Having, ByType, OfType
<1>3. \A x : \A r \in in(x) : about(x, r).evidence = {r.memory_id} /\ r \in x.memories
  BY DEF Insight
<1>4. \A r \in c.memories : (r \in in(c) <=> r \in in(u)) /\ about(c, r) = about(u, r)
  BY <1>1 DEF Narrows
<1> HIDE DEF about, in
<1>5. \A r \in in(u) : r \in c.memories <=> {r.memory_id} \subseteq {s.memory_id : s \in c.memories}
  BY <1>3 DEF Narrows, OneToAnId
<1>6. ASSUME NEW i \in AgingInsights(c)
      PROVE  i \in Passing(AgingInsights(u), c)
  <2>1. PICK r \in in(c) : i = about(c, r)
    BY <1>2
  <2>2. r \in in(u) /\ i = about(u, r)
    BY <1>3, <1>4, <2>1
  <2> QED
    BY <1>2, <1>3, <1>5, <2>1, <2>2 DEF Passing
<1>7. ASSUME NEW i \in Passing(AgingInsights(u), c)
      PROVE  i \in AgingInsights(c)
  <2>1. PICK r \in in(u) : i = about(u, r)
    BY <1>2 DEF Passing
  <2>2. r \in c.memories
    BY <1>3, <1>5, <2>1 DEF Passing
  <2> QED
    BY <1>2, <1>4, <2>1, <2>2
<1> QED
  BY <1>6, <1>7

LEMMA UnresolvedNarrows ==
  ASSUME NEW c, NEW u, Narrows(c, u)
  PROVE  UnresolvedInsights(c) = Passing(UnresolvedInsights(u), c)
<1> DEFINE about(x, r) == Insight("unresolved_risk", "risk", r.memory_id,
                                  ScaleSeverity(Age(x, r), 30, 90, 180), Age(x, r), {r})
           in(x) == {r \in {q \in {p \in x.memories : Type(p) \in {"risk"}} : q.row.status \in {"ACTIVE"}} : Age(x, r) >= 30}
<1>1. \A r \in c.memories : Age(c, r) = Age(u, r)
  BY DEF Narrows, Age
<1>2. \A x : UnresolvedInsights(x) = {about(x, r) : r \in in(x)}
  BY Zenon DEF UnresolvedInsights, Open, Having, ByType, OfType
<1>3. \A x : \A r \in in(x) : about(x, r).evidence = {r.memory_id} /\ r \in x.memories
  BY DEF Insight
<1>4. \A r \in c.memories : (r \in in(c) <=> r \in in(u)) /\ about(c, r) = about(u, r)
  BY <1>1 DEF Narrows
<1> HIDE DEF about, in
<1>5. \A r \in in(u) : r \in c.memories <=> {r.memory_id} \subseteq {s.memory_id : s \in c.memories}
  BY <1>3 DEF Narrows, OneToAnId
<1>6. ASSUME NEW i \in UnresolvedInsights(c)
      PROVE  i \in Passing(UnresolvedInsights(u), c)
  <2>1. PICK r \in in(c) : i = about(c, r)
    BY <1>2
  <2>2. r \in in(u) /\ i = about(u, r)
    BY <1>3, <1>4, <2>1
  <2> QED
    BY <1>2, <1>3, <1>5, <2>1, <2>2 DEF Passing
<1>7. ASSUME NEW i \in Passing(UnresolvedInsights(u), c)
      PROVE  i \in UnresolvedInsights(c)
  <2>1. PICK r \in in(u) : i = about(u, r)
    BY <1>2 DEF Passing
  <2>2. r \in c.memories
    BY <1>3, <1>5, <2>1 DEF Passing
  <2> QED
    BY <1>2, <1>4, <2>1, <2>2
<1> QED
  BY <1>6, <1>7
\* A person's load is that person's alone.
OwnedOnly(c, u, person) == \A r : r \in c.memories <=> r \in u.memories /\ OwnerOf(r) = person
OfSubject(insights, person) == {i \in insights : i.subject = person}
LEMMA LoadOfOne ==
  ASSUME NEW c, NEW u, NEW person, OwnedOnly(c, u, person)
  PROVE  OverloadInsights(c) = OfSubject(OverloadInsights(u), person)
<1> DEFINE load(x, p) == OwnedByPerson(Open(ByType(x, "commitment")), p)
           about(x, p) == Insight("open_commitment_overload", "person", p,
                                  ScaleSeverity(Cardinality(load(x, p)), 3, 5, 8),
                                  Cardinality(load(x, p)), load(x, p))
           loaded(x) == {p \in Person : Cardinality(load(x, p)) >= 3}
<1>1. \A x : OverloadInsights(x) = {about(x, p) : p \in loaded(x)}
  BY Zenon DEF OverloadInsights
<1>2. load(c, person) = load(u, person)
  BY DEF OwnedOnly, OwnedByPerson, Open, Having, ByType, OfType
<1>3. ASSUME NEW p, p # person
      PROVE  load(c, p) = {}
  BY <1>3 DEF OwnedOnly, OwnedByPerson, Open, Having, ByType, OfType
<1>4. \A x, p : about(x, p).subject = p
  BY DEF Insight
<1> HIDE DEF load
<1>5. about(c, person) = about(u, person) /\ (person \in loaded(c) <=> person \in loaded(u))
  BY <1>2
<1>6. \A p \in loaded(c) : p = person
  BY <1>3, FS_EmptySet
<1> HIDE DEF about, loaded
<1> QED
  BY <1>1, <1>4, <1>5, <1>6 DEF OfSubject

------------------------------------------------------------------------------
(* Intelligence: the call *)
\* What was listed has one record to an id.
ListedOnce ==
  /\ stage \in {"list meetings", "report", "done"} => OneToAnId(listed.records)
  /\ stage \in {"rebuild", "list memories", "list meetings"} => DOMAIN listed = {"records", "meetings"}

AnalyzeInv == ListedOnce /\ FiltersNarrow

LEMMA ReportNarrows ==
  ASSUME ListedOnce, BuildReport
  PROVE  FiltersNarrow'
<1> DEFINE c == Context(request, listed)
           u == Wider(listed, c.reference)
<1>1. /\ report' = Report(c) /\ stage = "report" /\ request' = request /\ listed' = listed
  BY DEF BuildReport
<1>2. /\ report'.insights = Insights(c) /\ report'.reference = c.reference
      /\ report'.memories = {r.memory_id : r \in c.memories}
  BY <1>1, Zenon DEF Report
<1>3. OneToAnId(listed.records)
  BY <1>1 DEF ListedOnce
<1>4. /\ c.memories \subseteq u.memories /\ u.memories \subseteq listed.records
      /\ c.reference = u.reference
      /\ \A r \in c.memories : MemoryDate(c, r) = MemoryDate(u, r)
  BY ContextIsNarrower
<1>5. u = Unfiltered'
  BY <1>1, <1>2 DEF Unfiltered, Wider
<1> HIDE DEF u
<1>6. Narrows(c, u)
  BY <1>3, <1>4 DEF Narrows, OneToAnId
<1>7. /\ Reported(Single)' = {i \in Insights(c) : i.type \in Single}
      /\ Reported({"open_commitment_overload"})' = {i \in Insights(c) : i.type \in {"open_commitment_overload"}}
  BY <1>2 DEF Reported
<1>8. Reported(Single)' =
        {i \in OverdueInsights(u) \cup AgingInsights(u) \cup UnresolvedInsights(u) :
           i.evidence \subseteq report'.memories}
  <2>1. /\ OverdueInsights(c) = Passing(OverdueInsights(u), c)
        /\ AgingInsights(c) = Passing(AgingInsights(u), c)
        /\ UnresolvedInsights(c) = Passing(UnresolvedInsights(u), c)
    BY <1>6, OverdueNarrows, AgingNarrows, UnresolvedNarrows
  <2>2. Reported(Single)' = OverdueInsights(c) \cup AgingInsights(c) \cup UnresolvedInsights(c)
    BY <1>7, InsightsOfTypes
  <2> HIDE DEF c
  <2> QED
    BY <1>2, <2>1, <2>2 DEF Passing
<1>9. ASSUME request.person # NULL, request.meetings = {}, request.types = {}, request.project = NULL
      PROVE  Reported({"open_commitment_overload"})' =
               {i \in OverloadInsights(u) : i.subject = request.person}
  <2>1. c.memories = {r \in listed.records : Selected(request, listed.meetings, r)}
    BY <1>9 DEF Context
  <2>2. \A r : Selected(request, listed.meetings, r) <=>
               /\ r.row.status # "DELETED" /\ r.row.meeting_id \in listed.meetings
               /\ OwnerOf(r) = request.person
    BY <1>9 DEF Selected
  <2>3. u.memories = {r \in listed.records : r.row.status # "DELETED" /\ r.row.meeting_id \in listed.meetings}
    BY DEF u, Wider
  <2> HIDE DEF c
  <2>4. OwnedOnly(c, u, request.person)
    BY <2>1, <2>2, <2>3 DEF OwnedOnly
  <2>5. OverloadInsights(c) = OfSubject(OverloadInsights(u), request.person)
    BY <2>4, LoadOfOne
  <2>6. {i \in Insights(c) : i.type \in {"open_commitment_overload"}} = OverloadInsights(c)
    BY InsightsOfTypes
  <2> QED
    BY <1>7, <2>5, <2>6 DEF OfSubject
<1> QED
  BY <1>1, <1>5, <1>8, <1>9 DEF FiltersNarrow

LEMMA AnalyzeInvStep == AnalyzeInv /\ [AnalyzeNext]_intelligenceVars => AnalyzeInv'
<1> SUFFICES ASSUME AnalyzeInv, [AnalyzeNext]_intelligenceVars  PROVE AnalyzeInv'
  OBVIOUS
<1>1. CASE Rebuild
  BY <1>1 DEF Rebuild, AnalyzeInv, ListedOnce, FiltersNarrow
<1>2. CASE ListMemories
  <2> DEFINE found == {[memory_id |-> m, row |-> memories[m]] : m \in Stored}
  <2>1. listed' = [listed EXCEPT !.records = found] /\ stage = "list memories" /\ stage' = "list meetings"
    BY <1>2 DEF ListMemories
  <2>2. OneToAnId(found)
    BY DEF OneToAnId
  <2> HIDE DEF found
  <2>3. DOMAIN listed' = {"records", "meetings"} /\ listed'.records = found
    BY <2>1 DEF AnalyzeInv, ListedOnce
  <2> QED
    BY <2>1, <2>2, <2>3 DEF AnalyzeInv, ListedOnce, FiltersNarrow
<1>3. CASE ListAllMeetings
  <2>1. /\ listed' = [listed EXCEPT !.meetings = Registered]
        /\ stage = "list meetings" /\ stage' = "report"
    BY <1>3 DEF ListAllMeetings
  <2>2. listed'.records = listed.records
    BY <2>1 DEF AnalyzeInv, ListedOnce
  <2> QED
    BY <2>1, <2>2 DEF AnalyzeInv, ListedOnce, FiltersNarrow
<1>4. CASE BuildReport
  <2>1. FiltersNarrow'
    BY <1>4, ReportNarrows DEF AnalyzeInv
  <2>2. ListedOnce'
    BY <1>4 DEF BuildReport, AnalyzeInv, ListedOnce
  <2> QED
    BY <2>1, <2>2 DEF AnalyzeInv
<1>5. CASE Interrupted
  BY <1>5 DEF Interrupted, AnalyzeInv, ListedOnce, FiltersNarrow
<1>6. CASE UNCHANGED intelligenceVars
  BY <1>6 DEF intelligenceVars, AnalyzeInv, ListedOnce, FiltersNarrow, Reported, Unfiltered
<1> QED
  BY <1>1, <1>2, <1>3, <1>4, <1>5, <1>6 DEF AnalyzeNext

\* FiltersNarrow: whatever is stored, asked and deleted meanwhile, a filter takes
\* insights away and changes none (context.py, build_context, and the modules
\* commitment and risk).
THEOREM FiltersOnlyNarrow == AnalyzeSpec => []FiltersNarrow
<1>1. IntelligenceInit => AnalyzeInv
  BY DEF IntelligenceInit, NothingRead, AnalyzeInv, ListedOnce, FiltersNarrow
<1>2. AnalyzeInv => FiltersNarrow
  BY DEF AnalyzeInv
<1> QED
  BY <1>1, <1>2, AnalyzeInvStep, PTL DEF AnalyzeSpec

------------------------------------------------------------------------------
(* Questions: what some steps reach *)
Beyond(net, direction, inner) ==
  inner \cup {n \in net.known : \E m \in inner : Follows(net, m, n, direction)}

LEMMA BallSteps ==
  ASSUME NEW net, NEW from, NEW direction
  PROVE  /\ Ball(net, from, direction)[0] = {from}
         /\ \A k \in Nat : Ball(net, from, direction)[k + 1]
                             = Beyond(net, direction, Ball(net, from, direction)[k])
<1> DEFINE start == {from}
           S == SUBSET (net.known \cup {from})
           F == [inner \in S |-> Beyond(net, direction, inner)]
           Def(b) == [k \in Nat |->
                        IF k = 0 THEN {from}
                        ELSE LET inner == b[k - 1]
                             IN  inner \cup {n \in net.known :
                                               \E m \in inner : Follows(net, m, n, direction)}]
<1>1. F \in [S -> S]
  BY DEF Beyond
<1>2. start \in S
  OBVIOUS
<1> HIDE DEF S, F, start, Def
<1>3. PICK b \in [Nat -> S] : Iterates(b, F, start)
  BY <1>1, <1>2, IterationExists
<1> USE DEF Iterates, Def
<1>4. b = Def(b)
  <2>1. ASSUME NEW k \in Nat
        PROVE  b[k] = Def(b)[k]
    <3>1. CASE k = 0
      BY <3>1, <1>3 DEF start
    <3>2. CASE k # 0
      <4>1. k - 1 \in Nat /\ (k - 1) + 1 = k
        BY <3>2
      <4>2. b[k] = F[b[k - 1]] /\ b[k - 1] \in S
        BY <4>1, <1>3
      <4> QED
        BY <4>1, <4>2, <3>2 DEF F, Beyond
    <3> QED
      BY <3>1, <3>2
  <2>2. DOMAIN Def(b) = Nat /\ Def(b) = [k \in Nat |-> Def(b)[k]]
    OBVIOUS
  <2>3. b = [k \in Nat |-> b[k]]
    BY <1>3
  <2> HIDE DEF Def
  <2> QED
    BY <2>1, <2>2, <2>3
<1>5. Ball(net, from, direction) = CHOOSE c : c = Def(c)
  BY DEF Ball
<1> DEFINE ball == Ball(net, from, direction)
<1>6. ball = Def(ball)
  <2> HIDE DEF Def
  <2> QED
    BY <1>4, <1>5
<1> HIDE DEF ball
<1>7. ball[0] = {from}
  BY <1>6
<1>8. ASSUME NEW k \in Nat
      PROVE  ball[k + 1] = Beyond(net, direction, ball[k])
  <2>1. k + 1 \in Nat /\ k + 1 # 0 /\ (k + 1) - 1 = k
    OBVIOUS
  <2> QED
    BY <2>1, <1>6 DEF Beyond
<1> QED
  BY <1>7, <1>8 DEF ball

\* Whatever holds at the start and spreads with every step holds of what is
\* reached: X[k] may depend on the number of steps.
LEMMA BallInside ==
  ASSUME NEW net, NEW from, NEW direction, NEW last \in Nat, NEW X,
         from \in X[0],
         \A k \in Nat : k < last =>
           /\ \A n \in X[k] : n \in X[k + 1]
           /\ \A m \in X[k] : \A n \in net.known :
                Follows(net, m, n, direction) => n \in X[k + 1]
  PROVE  \A k \in Nat : k <= last => \A n \in Ball(net, from, direction)[k] : n \in X[k]
<1> DEFINE ball == Ball(net, from, direction)
           bad == {k \in Nat : k <= last /\ ~(\A n \in ball[k] : n \in X[k])}
<1>1. /\ ball[0] = {from}
      /\ \A k \in Nat : ball[k + 1] = Beyond(net, direction, ball[k])
  BY BallSteps
<1> HIDE DEF ball
<1>2. ASSUME bad # {}
      PROVE  FALSE
  <2>1. PICK k \in bad : \A l \in bad : k <= l
    BY <1>2, LeastNatural
  <2>2. k # 0
    BY <2>1, <1>1
  <2>3. k - 1 \in Nat /\ k - 1 < last /\ k - 1 <= last /\ (k - 1) + 1 = k /\ ~(k <= k - 1)
    BY <2>1, <2>2
  <2>4. \A n \in ball[k - 1] : n \in X[k - 1]
    BY <2>1, <2>3
  <2>5. ball[k] = Beyond(net, direction, ball[k - 1])
    BY <1>1, <2>3
  <2>6. ASSUME NEW n \in ball[k]
        PROVE  n \in X[k]
    <3>1. n \in ball[k - 1] \/ (n \in net.known /\ \E m \in ball[k - 1] : Follows(net, m, n, direction))
      BY <2>5, <2>6 DEF Beyond
    <3>2. /\ \A i \in X[k - 1] : i \in X[k]
          /\ \A m \in X[k - 1] : \A i \in net.known : Follows(net, m, i, direction) => i \in X[k]
      BY <2>3
    <3> QED
      BY <3>1, <3>2, <2>4
  <2> QED
    BY <2>1, <2>6
<1> QED
  BY <1>2 DEF ball

LEMMA BallStarts ==
  ASSUME NEW net, NEW from, NEW direction, NEW k \in Nat
  PROVE  /\ from \in Ball(net, from, direction)[k]
         /\ \A n \in Ball(net, from, direction)[k] : n = from \/ n \in net.known
<1> DEFINE ball == Ball(net, from, direction)
           bad == {l \in Nat : ~(from \in ball[l] /\ \A n \in ball[l] : n = from \/ n \in net.known)}
<1>1. /\ ball[0] = {from}
      /\ \A l \in Nat : ball[l + 1] = Beyond(net, direction, ball[l])
  BY BallSteps
<1> HIDE DEF ball
<1>2. ASSUME bad # {}
      PROVE  FALSE
  <2>1. PICK l \in bad : \A m \in bad : l <= m
    BY <1>2, LeastNatural
  <2>2. l # 0
    BY <2>1, <1>1
  <2>3. l - 1 \in Nat /\ (l - 1) + 1 = l /\ ~(l <= l - 1)
    BY <2>1, <2>2
  <2>4. from \in ball[l - 1] /\ \A n \in ball[l - 1] : n = from \/ n \in net.known
    BY <2>1, <2>3
  <2>5. ball[l] = Beyond(net, direction, ball[l - 1])
    BY <1>1, <2>3
  <2> QED
    BY <2>1, <2>4, <2>5 DEF Beyond
<1> QED
  BY <1>2 DEF ball

\* More steps reach more, and so does a graph with more in it.
LEMMA BallGrows ==
  ASSUME NEW net, NEW from, NEW direction, NEW k \in Nat
  PROVE  /\ \A n \in Ball(net, from, direction)[k] : n \in Ball(net, from, direction)[k + 1]
         /\ \A m \in Ball(net, from, direction)[k] : \A n \in net.known :
              Follows(net, m, n, direction) => n \in Ball(net, from, direction)[k + 1]
BY BallSteps DEF Beyond

Widened(old, new) ==
  /\ \A n \in old.known : n \in new.known
  /\ \A e \in old.arcs : e \in new.arcs

LEMMA BallWider ==
  ASSUME NEW old, NEW new, Widened(old, new), NEW from, NEW direction, NEW k \in Nat
  PROVE  \A n \in Ball(old, from, direction)[k] : n \in Ball(new, from, direction)[k]
<1> DEFINE X == Ball(new, from, direction)
<1>1. from \in X[0]
  BY BallStarts
<1>2. ASSUME NEW l \in Nat
      PROVE  /\ \A n \in X[l] : n \in X[l + 1]
             /\ \A m \in X[l] : \A n \in old.known :
                  Follows(old, m, n, direction) => n \in X[l + 1]
  <2>1. /\ \A n \in X[l] : n \in X[l + 1]
        /\ \A m \in X[l] : \A n \in new.known :
             Follows(new, m, n, direction) => n \in X[l + 1]
    BY BallGrows
  <2>2. \A m, n : Follows(old, m, n, direction) => Follows(new, m, n, direction)
    BY DEF Widened, Follows
  <2> QED
    BY <2>1, <2>2 DEF Widened
<1> HIDE DEF X
<1>3. k <= k
  OBVIOUS
<1>4. \A l \in Nat : l <= k => \A n \in Ball(old, from, direction)[l] : n \in X[l]
  BY <1>1, <1>2, BallInside
<1> QED
  BY <1>3, <1>4 DEF X

------------------------------------------------------------------------------
(* Questions: the way back *)
\* The nodes found, with the number of steps to each.
Tree(D, found, d) ==
  /\ query.from \in D /\ d[query.from] = 0
  /\ \A n \in D : d[n] \in Nat
  /\ \A n \in D : n # query.from =>
       found[n] \in D /\ d[n] = d[found[n]] + 1 /\ Follows(Now, found[n], n, "both")

\* The end of a path, as _reconstruct has it before it is done.
EndOfPath(s, target, D, d) ==
  /\ s \in Seq(D) /\ Len(s) > 0 /\ s[Len(s)] = target
  /\ \A i \in 1 .. Len(s) - 1 : Follows(Now, s[i], s[i + 1], "both")
  /\ d[s[1]] + Len(s) = d[target] + 1

LEMMA Prepended ==
  ASSUME NEW D, NEW x \in D, NEW s \in Seq(D), Len(s) > 0
  PROVE  /\ <<x>> \o s \in Seq(D) /\ Len(<<x>> \o s) = Len(s) + 1
         /\ (<<x>> \o s)[1] = x
         /\ \A i \in 1 .. Len(s) : (<<x>> \o s)[i + 1] = s[i]
OBVIOUS

LEMMA OneStepBack ==
  ASSUME NEW D, NEW found, NEW d, Tree(D, found, d), NEW target \in D,
         NEW s, EndOfPath(s, target, D, d), s[1] # query.from
  PROVE  /\ EndOfPath(<<found[s[1]]>> \o s, target, D, d)
         /\ Len(<<found[s[1]]>> \o s) = Len(s) + 1
<1>1. /\ s \in Seq(D) /\ Len(s) \in Nat /\ Len(s) > 0 /\ s[1] \in D
  BY DEF EndOfPath
<1> DEFINE x == found[s[1]]
           t == <<found[s[1]]>> \o s
<1>2. /\ x \in D /\ d[s[1]] = d[x] + 1 /\ Follows(Now, x, s[1], "both")
      /\ d[x] \in Nat /\ d[s[1]] \in Nat /\ d[target] \in Nat
  BY <1>1 DEF Tree
<1>3. /\ t \in Seq(D) /\ Len(t) = Len(s) + 1 /\ t[1] = x
      /\ \A i \in 1 .. Len(s) : t[i + 1] = s[i]
  BY <1>1, <1>2, Prepended
<1> HIDE DEF t, x
<1>4. t[Len(t)] = target
  <2>1. Len(s) \in 1 .. Len(s)
    BY <1>1
  <2> QED
    BY <1>3, <2>1 DEF EndOfPath
<1>5. ASSUME NEW i \in 1 .. Len(t) - 1
      PROVE  Follows(Now, t[i], t[i + 1], "both")
  <2>1. i \in 1 .. Len(s)
    BY <1>1, <1>3
  <2>2. t[i + 1] = s[i]
    BY <1>3, <2>1
  <2>3. CASE i = 1
    BY <1>2, <1>3, <2>2, <2>3
  <2>4. CASE i # 1
    <3>1. i - 1 \in 1 .. Len(s) - 1 /\ i - 1 \in 1 .. Len(s) /\ (i - 1) + 1 = i
      BY <1>1, <2>1, <2>4
    <3>2. t[i] = s[i - 1]
      BY <1>3, <3>1
    <3>3. Follows(Now, s[i - 1], s[(i - 1) + 1], "both")
      BY <3>1 DEF EndOfPath
    <3> QED
      BY <2>2, <3>1, <3>2, <3>3
  <2> QED
    BY <2>3, <2>4
<1>6. d[s[1]] + Len(s) = d[target] + 1
  BY DEF EndOfPath
<1>7. d[t[1]] + Len(t) = d[target] + 1
  BY <1>1, <1>2, <1>3, <1>6
<1> QED
  BY <1>1, <1>3, <1>4, <1>5, <1>7 DEF EndOfPath, t

StepsBack(p, target, found) ==
  /\ p[0] = <<target>> /\ PathTo(target, found) = p[query.depth]
  /\ \A k \in Nat : p[k + 1] = IF Head(p[k]) = query.from THEN p[k]
                               ELSE <<found[Head(p[k])]>> \o p[k]

LEMMA PathSteps ==
  ASSUME NEW D, NEW found, NEW d, Tree(D, found, d), NEW target \in D, query.depth \in Nat
  PROVE  \E p \in [Nat -> Seq(D) \ {<<>>}] : StepsBack(p, target, found)
<1> DEFINE S == Seq(D) \ {<<>>}
           start == <<target>>
           F == [s \in S |-> IF Head(s) = query.from THEN s ELSE <<found[Head(s)]>> \o s]
           Def(p) == [k \in Nat |->
                        IF k = 0 THEN <<target>>
                        ELSE LET rest == p[k - 1]
                             IN  IF Head(rest) = query.from THEN rest
                                 ELSE <<found[Head(rest)]>> \o rest]
<1>1. F \in [S -> S]
  <2>1. ASSUME NEW s \in S
        PROVE  (IF Head(s) = query.from THEN s ELSE <<found[Head(s)]>> \o s) \in S
    <3>1. s \in Seq(D) /\ Len(s) > 0 /\ Head(s) \in D
      OBVIOUS
    <3>2. CASE Head(s) # query.from
      <4>1. found[Head(s)] \in D
        BY <3>1, <3>2 DEF Tree
      <4> QED
        BY <3>1, <3>2, <4>1
    <3> QED
      BY <3>2
  <2> QED
    BY <2>1
<1>2. start \in S
  OBVIOUS
<1> HIDE DEF S, F, start, Def
<1>3. PICK b \in [Nat -> S] : Iterates(b, F, start)
  BY <1>1, <1>2, IterationExists
<1> USE DEF Iterates, Def
<1>4. b = Def(b)
  <2>1. ASSUME NEW k \in Nat
        PROVE  b[k] = Def(b)[k]
    <3>1. CASE k = 0
      BY <3>1, <1>3 DEF start
    <3>2. CASE k # 0
      <4>1. k - 1 \in Nat /\ (k - 1) + 1 = k
        BY <3>2
      <4>2. b[k] = F[b[k - 1]] /\ b[k - 1] \in S
        BY <4>1, <1>3
      <4> QED
        BY <4>1, <4>2, <3>2 DEF F
    <3> QED
      BY <3>1, <3>2
  <2>2. DOMAIN Def(b) = Nat /\ Def(b) = [k \in Nat |-> Def(b)[k]]
    OBVIOUS
  <2>3. b = [k \in Nat |-> b[k]]
    BY <1>3
  <2> HIDE DEF Def
  <2> QED
    BY <2>1, <2>2, <2>3
<1> DEFINE path == CHOOSE c : c = Def(c)
<1>5. PathTo(target, found) = path[query.depth]
  BY DEF PathTo
<1>6. path = Def(path)
  <2> HIDE DEF Def
  <2> QED
    BY <1>4
<1> HIDE DEF path
<1>7. path[0] = start
  BY <1>6 DEF start
<1>8. ASSUME NEW k \in Nat
      PROVE  path[k + 1] = IF Head(path[k]) = query.from THEN path[k]
                           ELSE <<found[Head(path[k])]>> \o path[k]
  <2>1. k + 1 \in Nat /\ k + 1 # 0 /\ (k + 1) - 1 = k
    OBVIOUS
  <2> QED
    BY <2>1, <1>6
<1> DEFINE bad == {k \in Nat : path[k] \notin S}
<1>9. ASSUME bad # {}
      PROVE  FALSE
  <2>1. PICK k \in bad : \A l \in bad : k <= l
    BY <1>9, LeastNatural
  <2>2. k # 0
    BY <2>1, <1>2, <1>7
  <2>3. k - 1 \in Nat /\ (k - 1) + 1 = k /\ ~(k <= k - 1)
    BY <2>1, <2>2
  <2>4. path[k - 1] \in S
    BY <2>1, <2>3
  <2>5. path[k] = F[path[k - 1]]
    BY <1>8, <2>3, <2>4 DEF F
  <2> QED
    BY <2>1, <2>4, <2>5, <1>1
<1>10. path \in [Nat -> S]
  <2>1. path = [k \in Nat |-> path[k]]
    BY <1>6
  <2> QED
    BY <1>9, <2>1
<1> QED
  BY <1>5, <1>7, <1>8, <1>10 DEF start, S, StepsBack

\* The path is found: it begins where the search began.
LEMMA PathBack ==
  ASSUME NEW D, NEW found, NEW d, Tree(D, found, d), NEW target \in D, query.depth \in Nat,
         d[target] <= query.depth
  PROVE  /\ EndOfPath(PathTo(target, found), target, D, d)
         /\ PathTo(target, found)[1] = query.from
<1>1. PICK p \in [Nat -> Seq(D) \ {<<>>}] : StepsBack(p, target, found)
  BY PathSteps
<1> USE DEF StepsBack
<1>2. \A n \in D : d[n] \in Nat
  BY DEF Tree
<1> DEFINE Good(s, k) == /\ EndOfPath(s, target, D, d)
                         /\ s[1] = query.from \/ Len(s) = k + 1
           bad == {k \in Nat : ~Good(p[k], k)}
<1>3. ASSUME bad # {}
      PROVE  FALSE
  <2>1. PICK k \in bad : \A l \in bad : k <= l
    BY <1>3, LeastNatural
  <2>2. Good(p[0], 0)
    BY <1>1, <1>2 DEF EndOfPath
  <2>3. k # 0
    BY <2>1, <2>2
  <2>4. k - 1 \in Nat /\ (k - 1) + 1 = k /\ ~(k <= k - 1)
    BY <2>1, <2>3
  <2> DEFINE s == p[k - 1]
  <2>5. EndOfPath(s, target, D, d) /\ (s[1] = query.from \/ Len(s) = (k - 1) + 1)
    BY <2>1, <2>4
  <2>6. s \in Seq(D) /\ s # <<>> /\ Head(s) = s[1]
    BY <1>1, <2>4
  <2>7. p[k] = IF s[1] = query.from THEN s ELSE <<found[s[1]]>> \o s
    BY <1>1, <2>4, <2>6
  <2> HIDE DEF s
  <2>8. CASE s[1] = query.from
    BY <2>1, <2>5, <2>7, <2>8
  <2>9. CASE s[1] # query.from
    <3>1. /\ EndOfPath(<<found[s[1]]>> \o s, target, D, d)
          /\ Len(<<found[s[1]]>> \o s) = Len(s) + 1
      BY <2>5, <2>9, OneStepBack
    <3>2. Len(s) = k
      BY <2>4, <2>5, <2>9
    <3>3. Good(p[k], k)
      BY <2>7, <2>9, <3>1, <3>2
    <3> QED
      BY <2>1, <3>3
  <2> QED
    BY <2>8, <2>9
<1> DEFINE t == p[query.depth]
<1>4. EndOfPath(t, target, D, d) /\ (t[1] = query.from \/ Len(t) = query.depth + 1)
  BY <1>3
<1> HIDE DEF t
<1>5. CASE t[1] # query.from
  <2>1. t \in Seq(D) /\ Len(t) > 0
    BY <1>4 DEF EndOfPath
  <2>1a. t[1] \in D /\ d[t[1]] + Len(t) = d[target] + 1 /\ Len(t) = query.depth + 1
    BY <1>4, <1>5, <2>1 DEF EndOfPath
  <2>2. found[t[1]] \in D /\ d[t[1]] = d[found[t[1]]] + 1
    BY <1>5, <2>1a DEF Tree
  <2>3. d[found[t[1]]] \in Nat /\ d[target] \in Nat
    BY <1>2, <2>2
  <2> DEFINE a == d[target]
             b == d[t[1]]
             c == d[found[t[1]]]
             e == query.depth
  <2>4. a \in Nat /\ c \in Nat /\ e \in Nat /\ a <= e /\ b + (e + 1) = a + 1 /\ b = c + 1
    BY <2>1a, <2>2, <2>3
  <2> HIDE DEF a, b, c, e
  <2>5. FALSE
    BY <2>4
  <2> QED
    BY <2>5
<1> QED
  BY <1>1, <1>4, <1>5 DEF t

------------------------------------------------------------------------------
(* Questions: reading arcs while a rebuild adds to them *)
GraphOK ==
  /\ query \in Query
  /\ \A n \in known : n \in Id
  /\ \A e \in arcs : e \in known \X known
  /\ \A e \in first.arcs : e \in first.known \X first.known
  /\ Widened(first, Now)

Directions == {"out", "in", "both"}
Touches(e, r) == e[IF r[2] = "out" THEN 1 ELSE 2] = r[1]

\* The arcs there were are read or still to be read; those read are there.
Reading(reads) ==
  /\ \A r \in selects : r \in reads
  /\ \A e \in rows : e \in arcs /\ \E r \in reads : Touches(e, r)
  /\ \A r \in reads : \A e \in first.arcs : Touches(e, r) => e \in rows \/ r \in selects

LEMMA ReadingStarts ==
  ASSUME NEW reads, rows = {}, selects = reads
  PROVE  Reading(reads)
BY DEF Reading

LEMMA ReadOnReads ==
  ASSUME NEW reads, Reading(reads), GraphOK, ReadOn, UNCHANGED graphVars
  PROVE  Reading(reads)'
<1>1. PICK r \in selects : rows' = rows \cup ArcsAt(r) /\ selects' = selects \ {r}
  BY DEF ReadOn
<1>2. arcs' = arcs /\ first' = first
  BY DEF graphVars
<1>3. ArcsAt(r) = {e \in arcs : Touches(e, r)}
  BY DEF ArcsAt, Touches
<1>4. \A e \in first.arcs : e \in arcs
  BY DEF GraphOK, Widened, Now
<1> QED
  BY <1>1, <1>2, <1>3, <1>4 DEF Reading

LEMMA ReadingGoesOn ==
  ASSUME NEW reads, Reading(reads), \A e \in arcs : e \in arcs', first' = first,
         rows' = rows, selects' = selects
  PROVE  Reading(reads)'
BY DEF Reading

LEMMA SeenExact ==
  ASSUME NEW reads, Reading(reads), GraphOK
  PROVE  /\ \A e \in Seen : e \in arcs /\ \E r \in reads : Touches(e, r)
         /\ \A r \in reads : \A e \in first.arcs : Touches(e, r) => e \in Seen
<1>1. \A r : ArcsAt(r) = {e \in arcs : Touches(e, r)}
  BY DEF ArcsAt, Touches
<1>2. \A e \in first.arcs : e \in arcs
  BY DEF GraphOK, Widened, Now
<1> QED
  BY <1>1, <1>2 DEF Reading, Seen

LEMMA ReadsOf ==
  ASSUME NEW ids, NEW direction \in Directions
  PROVE  /\ \A m \in ids : direction # "in" => <<m, "out">> \in Reads(ids, direction)
         /\ \A m \in ids : direction # "out" => <<m, "in">> \in Reads(ids, direction)
         /\ \A r \in Reads(ids, direction) :
              /\ r[1] \in ids
              /\ (r[2] = "out" /\ direction # "in") \/ (r[2] = "in" /\ direction # "out")
<1> DEFINE asked == {d \in {"out", "in"} : direction \in {d, "both"}}
<1>1. direction = "out" \/ direction = "in" \/ direction = "both"
  BY DEF Directions
<1>2. "out" \in asked <=> direction # "in"
  BY <1>1
<1>3. "in" \in asked <=> direction # "out"
  BY <1>1
<1>4. \A d \in asked : d = "out" \/ d = "in"
  OBVIOUS
<1>5. Reads(ids, direction) = ids \X asked
  BY DEF Reads
<1> HIDE DEF asked
<1> QED
  BY <1>2, <1>3, <1>4, <1>5

\* What a round finds is next to what was read, and nothing is missed.
LEMMA FarEndsExact ==
  ASSUME NEW ids, NEW direction \in Directions, Reading(Reads(ids, direction)), GraphOK
  PROVE  /\ \A m \in ids : \A n : Follows(first, m, n, direction) => n \in FarEnds(Seen, direction)
         /\ \A n \in FarEnds(Seen, direction) :
              n \in ids \/ \E m \in ids : Follows(Now, m, n, direction)
<1>1. /\ \A e \in Seen : e \in arcs /\ \E r \in Reads(ids, direction) : Touches(e, r)
      /\ \A r \in Reads(ids, direction) : \A e \in first.arcs : Touches(e, r) => e \in Seen
  BY SeenExact
<1>2. ASSUME NEW m \in ids, NEW n, Follows(first, m, n, direction)
      PROVE  n \in FarEnds(Seen, direction)
  <2>1. CASE direction # "in" /\ <<m, n>> \in first.arcs
    <3>1. <<m, "out">> \in Reads(ids, direction) /\ Touches(<<m, n>>, <<m, "out">>)
      BY <2>1, ReadsOf DEF Touches
    <3>2. <<m, n>> \in Seen
      BY <1>1, <2>1, <3>1
    <3> QED
      BY <2>1, <3>2 DEF FarEnds
  <2>2. CASE direction # "out" /\ <<n, m>> \in first.arcs
    <3>1. <<m, "in">> \in Reads(ids, direction) /\ Touches(<<n, m>>, <<m, "in">>)
      BY <2>2, ReadsOf DEF Touches
    <3>2. <<n, m>> \in Seen
      BY <1>1, <2>2, <3>1
    <3> QED
      BY <2>2, <3>2 DEF FarEnds
  <2> QED
    BY <1>2, <2>1, <2>2 DEF Follows
<1>3. ASSUME NEW e \in Seen
      PROVE  /\ e = <<e[1], e[2]>> /\ e \in arcs
             /\ \/ e[1] \in ids /\ direction # "in"
                \/ e[2] \in ids /\ direction # "out"
  <2>1. e \in arcs /\ e = <<e[1], e[2]>>
    BY <1>1 DEF GraphOK
  <2>2. PICK r \in Reads(ids, direction) : Touches(e, r)
    BY <1>1
  <2>3. /\ r[1] \in ids
        /\ (r[2] = "out" /\ direction # "in") \/ (r[2] = "in" /\ direction # "out")
    BY ReadsOf
  <2> QED
    BY <2>1, <2>2, <2>3 DEF Touches
<1>4. ASSUME NEW n \in FarEnds(Seen, direction)
      PROVE  n \in ids \/ \E m \in ids : Follows(Now, m, n, direction)
  <2>1. PICK e \in Seen : (e[2] = n /\ direction # "in") \/ (e[1] = n /\ direction # "out")
    BY DEF FarEnds
  <2>2. /\ e = <<e[1], e[2]>> /\ e \in Now.arcs
        /\ \/ e[1] \in ids /\ direction # "in"
           \/ e[2] \in ids /\ direction # "out"
    BY <1>3 DEF Now
  <2>3. CASE e[1] \in ids /\ direction # "in"
    <3>1. Follows(Now, e[1], e[2], direction)
      BY <2>2, <2>3 DEF Follows
    <3> QED
      BY <2>1, <2>3, <3>1
  <2>4. CASE e[2] \in ids /\ direction # "out"
    <3>1. Follows(Now, e[2], e[1], direction)
      BY <2>2, <2>4 DEF Follows
    <3> QED
      BY <2>1, <2>4, <3>1
  <2> QED
    BY <2>2, <2>3, <2>4
<1> QED
  BY <1>2, <1>4

------------------------------------------------------------------------------
(* Questions: find_path *)
LEMMA QueryTypes ==
  ASSUME query \in Query
  PROVE  /\ query.from \in Id
         /\ query.kind = "path" => query.to \in Id /\ query.depth \in Nat
         /\ query.kind \in {"neighbors", "related"} =>
              /\ query.direction \in Directions /\ query.depth \in Nat
              /\ query.limit \in Nat \cup {Unlimited}
         /\ query.kind \in {"path", "neighbors", "related", "lineage", "components"}
<1> DEFINE Paths == [kind : {"path"}, from : Id, to : Id, depth : Nat]
           Near == [kind : {"neighbors", "related"}, from : Id, direction : {"out", "in", "both"},
                    depth : Nat, types : SUBSET Range(TypeOf), limit : Nat \cup {Unlimited}]
           Chains == [kind : {"lineage"}, from : Id]
           Parts == [kind : {"components"}, from : {Unknown}]
<1>1. query \in Paths \/ query \in Near \/ query \in Chains \/ query \in Parts
  BY QueryAssumption
<1>2. CASE query \in Paths
  BY <1>2
<1>3. CASE query \in Near
  BY <1>3 DEF Directions
<1>4. CASE query \in Chains
  BY <1>4
<1>5. CASE query \in Parts
  BY <1>5 DEF Id
<1> QED
  BY <1>1, <1>2, <1>3, <1>4, <1>5

\* The nodes found so far, d[n] steps away by the way they were found.
PathTree(d) ==
  /\ Tree(visited, came_from, d)
  /\ query.to \notin visited
  /\ \A n \in visited : /\ n \in Id /\ d[n] <= query.depth
                        /\ n # query.from => n \in DOMAIN came_from

Queued(n) == \E i \in 1 .. Len(queue) : queue[i][1] = n

\* Those yet to be expanded wait in the order of their distance.
PathQueue(d) ==
  /\ queue \in Seq(Id \X Nat)
  /\ \A i \in 1 .. Len(queue) : queue[i][1] \in visited /\ queue[i][2] = d[queue[i][1]]
  /\ \A i, j \in 1 .. Len(queue) : i <= j => /\ queue[i][2] <= queue[j][2]
                                             /\ queue[j][2] <= queue[i][2] + 1
  /\ \A i \in 1 .. Len(queue) : \A n \in visited : d[n] <= queue[i][2] + 1
  /\ \A n \in visited :
       \/ Queued(n) \/ d[n] >= query.depth
       \/ \A m : Follows(first, n, m, "both") => m \in visited /\ d[m] <= d[n] + 1

PathInv ==
  query.kind = "path" =>
    /\ progress \in {"start", "target", "next", "expand", "done", "none"}
    /\ progress \in {"start", "target", "next"} => rows = {}
    /\ progress = "target" => query.from \in known
    /\ progress \in {"next", "expand"} => \E d : PathTree(d) /\ PathQueue(d)
    /\ progress = "expand" => /\ Len(queue) > 0 /\ queue[1][2] < query.depth
                              /\ Reading(Reads({queue[1][1]}, "both"))
    /\ PathShortest

\* As far as the queue has got, nothing within reach was missed.
LEMMA SearchedSoFar ==
  ASSUME NEW d, PathTree(d), PathQueue(d), query.depth \in Nat,
         NEW last \in Nat, last <= query.depth, \A i \in 1 .. Len(queue) : last <= queue[i][2]
  PROVE  \A k \in Nat : k <= last => query.to \notin Within(first, query.from, "both", k)
<1> DEFINE X == [k \in Nat |-> {n \in visited : d[n] <= k}]
<1>1. query.from \in visited /\ d[query.from] = 0 /\ \A n \in visited : d[n] \in Nat
  BY DEF PathTree, Tree
<1>2. query.from \in X[0]
  BY <1>1
<1>3. ASSUME NEW k \in Nat, k < last
      PROVE  /\ \A n \in X[k] : n \in X[k + 1]
             /\ \A m \in X[k] : \A n \in first.known :
                  Follows(first, m, n, "both") => n \in X[k + 1]
  <2>1. \A n \in X[k] : n \in X[k + 1]
    BY <1>1
  <2>2. ASSUME NEW m \in X[k], NEW n, Follows(first, m, n, "both")
        PROVE  n \in X[k + 1]
    <3>1. m \in visited /\ d[m] \in Nat /\ d[m] <= k
      BY <1>1
    <3>2. ~Queued(m)
      BY <1>3, <3>1 DEF Queued, PathQueue
    <3>3. ~(d[m] >= query.depth)
      BY <1>3, <3>1
    <3>4. n \in visited /\ d[n] <= d[m] + 1
      BY <2>2, <3>1, <3>2, <3>3 DEF PathQueue
    <3>5. d[n] <= k + 1
      BY <1>1, <3>1, <3>4
    <3> QED
      BY <3>4, <3>5
  <2> QED
    BY <2>1, <2>2
<1> HIDE DEF X
<1>4. \A k \in Nat : k <= last => \A n \in Ball(first, query.from, "both")[k] : n \in X[k]
  BY <1>2, <1>3, BallInside
<1>5. \A k \in Nat : query.to \notin X[k]
  BY DEF X, PathTree
<1> QED
  BY <1>4, <1>5 DEF Within

LEMMA PathStarts ==
  ASSUME GraphOK, PathInv, CheckSource \/ CheckTarget, UNCHANGED <<graphVars, query>>
  PROVE  PathInv'
<1>1. /\ query' = query /\ known' = known /\ first' = first /\ query.kind = "path"
      /\ query.from \in Id /\ query.to \in Id /\ query.depth \in Nat
      /\ UNCHANGED <<round, used, came_from>>
  BY QueryTypes DEF graphVars, CheckSource, CheckTarget, Goes, GraphOK, Conclude
<1>2. rows = {} /\ (progress = "target" => query.from \in known)
  BY <1>1 DEF PathInv, CheckSource, CheckTarget, Goes
<1>3. \A n \in first.known : n \in known
  BY DEF GraphOK, Widened, Now
<1>4. CASE CheckSource /\ query.from \in known
  BY <1>1, <1>4 DEF CheckSource, Conclude, PathInv, PathShortest
<1>5. CASE CheckSource /\ query.from \notin known
  BY <1>1, <1>3, <1>5 DEF CheckSource, Conclude, PathInv, PathShortest
<1>6. CASE CheckTarget /\ query.to \notin known
  <2>1. progress' = "none" /\ rows' = {}
    BY <1>6 DEF CheckTarget, Conclude
  <2>2. \A k : query.to \notin Within(first, query.from, "both", k)
    BY <1>3, <1>6 DEF Within
  <2> QED
    BY <1>1, <2>1, <2>2 DEF PathInv, PathShortest
<1>7. CASE CheckTarget /\ query.to \in known /\ query.to = query.from
  <2>1. progress' = "done" /\ answer' = <<query.from>>
    BY <1>7 DEF CheckTarget, Conclude
  <2>2. /\ Head(answer') = query.from /\ answer'[Len(answer')] = query.to
        /\ Len(answer') = 1
    BY <1>7, <2>1
  <2>3. PathShortest'
    BY <1>1, <2>1, <2>2 DEF PathShortest, Last
  <2> QED
    BY <1>1, <2>1, <2>3 DEF PathInv
<1>8. CASE CheckTarget /\ query.to \in known /\ query.to # query.from
  <2>1. /\ progress' = "next" /\ visited' = {query.from} /\ queue' = <<<<query.from, 0>>>>
        /\ rows' = {}
    BY <1>2, <1>8 DEF CheckTarget
  <2> DEFINE d == [n \in Id |-> 0]
  <2>2. PathTree(d)'
    BY <1>1, <1>8, <2>1 DEF PathTree, Tree
  <2>3. Len(queue') = 1 /\ queue'[1] = <<query.from, 0>> /\ queue' \in Seq(Id \X Nat)
    BY <1>1, <2>1
  <2>4. PathQueue(d)'
    BY <1>1, <2>1, <2>3 DEF PathQueue, Queued
  <2>5. PathShortest'
    BY <2>1 DEF PathShortest
  <2> QED
    BY <1>1, <2>1, <2>2, <2>4, <2>5 DEF PathInv
<1> QED
  BY <1>4, <1>5, <1>6, <1>7, <1>8 DEF CheckTarget, Conclude

\* A step that leaves the search alone.
LEMMA PathWaits ==
  ASSUME NEW d, PathTree(d), PathQueue(d), UNCHANGED <<query, first, visited, queue, came_from>>,
         \A e \in arcs : e \in arcs'
  PROVE  PathTree(d)' /\ PathQueue(d)'
<1>1. \A m, n : Follows(Now, m, n, "both") => Follows(Now, m, n, "both")'
  BY DEF Follows, Now
<1>2. PathTree(d)'
  BY <1>1 DEF PathTree, Tree
<1>3. PathQueue(d)'
  BY DEF PathQueue, Queued
<1> QED
  BY <1>2, <1>3

LEMMA PathReads ==
  ASSUME GraphOK, PathInv, ReadOn, UNCHANGED <<graphVars, query>>
  PROVE  PathInv'
<1> SUFFICES ASSUME query.kind = "path"
             PROVE  PathInv'
  BY DEF PathInv
<1>1. /\ progress = "expand" /\ UNCHANGED <<progress, visited, queue, came_from, query, first, arcs>>
  BY DEF ReadOn, PathInv, graphVars
<1>2. PICK d : PathTree(d) /\ PathQueue(d)
  BY <1>1 DEF PathInv
<1>3. PathTree(d)' /\ PathQueue(d)'
  BY <1>1, <1>2, PathWaits
<1> DEFINE reads == Reads({queue[1][1]}, "both")
<1>4. Reading(reads)'
  <2>1. Reading(reads)
    BY <1>1 DEF PathInv
  <2> HIDE DEF reads
  <2>2. PICK r : r = reads
    OBVIOUS
  <2>3. Reading(r)'
    BY <2>1, <2>2, ReadOnReads
  <2>4. reads' = reads
    BY <1>1 DEF reads, Reads
  <2> QED
    BY <2>2, <2>3, <2>4
<1>5. PathShortest'
  BY <1>1 DEF PathShortest
<1> QED
  BY <1>1, <1>3, <1>4, <1>5 DEF PathInv

LEMMA TailEntries ==
  ASSUME NEW T, NEW q \in Seq(T), Len(q) > 0
  PROVE  /\ Head(q) = q[1] /\ q[1] \in T
         /\ Tail(q) \in Seq(T) /\ Len(Tail(q)) = Len(q) - 1
         /\ \A i \in 1 .. Len(q) - 1 : Tail(q)[i] = q[i + 1]
OBVIOUS

\* The first element is gone and s is added.
Requeued(new, old, s) ==
  /\ Len(new) = (Len(old) - 1) + Len(s)
  /\ \A i \in 1 .. Len(old) - 1 : new[i] = old[i + 1]
  /\ \A i \in 1 .. Len(s) : new[(Len(old) - 1) + i] = s[i]

LEMMA Dequeued ==
  ASSUME NEW T, NEW q \in Seq(T), Len(q) > 0, NEW s \in Seq(T)
  PROVE  Tail(q) \o s \in Seq(T) /\ Requeued(Tail(q) \o s, q, s)
<1> DEFINE t == Tail(q)
<1>1. t \in Seq(T)
  BY TailEntries
<1>2. Len(t) = Len(q) - 1 /\ \A i \in 1 .. Len(q) - 1 : t[i] = q[i + 1]
  BY TailEntries
<1> HIDE DEF t
<1>3. t \o s \in Seq(T) /\ Len(t \o s) = Len(t) + Len(s)
  BY <1>1
<1>4. \A i \in 1 .. Len(t) : (t \o s)[i] = t[i]
  BY <1>1
<1>5. \A i \in 1 .. Len(s) : (t \o s)[Len(t) + i] = s[i]
  BY <1>1
<1> QED
  BY <1>2, <1>3, <1>4, <1>5 DEF t, Requeued

LEMMA PathTakes ==
  ASSUME GraphOK, PathInv, TakeNext, UNCHANGED <<graphVars, query>>
  PROVE  PathInv'
<1>1. /\ query' = query /\ first' = first /\ arcs' = arcs /\ known' = known
      /\ query.kind = "path" /\ progress = "next" /\ rows = {}
      /\ query.depth \in Nat
  BY QueryTypes DEF graphVars, TakeNext, Goes, GraphOK, PathInv
<1>2. PICK d : PathTree(d) /\ PathQueue(d)
  BY <1>1 DEF PathInv
<1>3. queue \in Seq(Id \X Nat) /\ Len(queue) \in Nat
  BY <1>2 DEF PathQueue
<1>4. CASE queue = <<>>
  <2>1. progress' = "none" /\ rows' = {}
    BY <1>4 DEF TakeNext, Conclude
  <2>2. query.to \notin Within(first, query.from, "both", query.depth)
    BY <1>1, <1>2, <1>4, SearchedSoFar
  <2> QED
    BY <1>1, <2>1, <2>2 DEF PathInv, PathShortest
<1>5. CASE queue # <<>>
  <2>1. Len(queue) > 0
    BY <1>3, <1>5
  <2>2. /\ Head(queue) = queue[1] /\ queue[1] \in Id \X Nat
        /\ Tail(queue) \in Seq(Id \X Nat) /\ Len(Tail(queue)) = Len(queue) - 1
        /\ \A i \in 1 .. Len(queue) - 1 : Tail(queue)[i] = queue[i + 1]
    BY <1>3, <2>1, TailEntries
  <2>3. PathShortest'
    BY <1>1, <1>5 DEF TakeNext, PathShortest
  <2>4. CASE ~Expandable(Head(queue)[2])
    <3>1. /\ queue' = Tail(queue) /\ progress' = progress /\ rows' = rows
          /\ UNCHANGED <<visited, came_from>>
      BY <1>5, <2>4 DEF TakeNext
    <3>2. PathTree(d)'
      BY <1>1, <1>2, <3>1 DEF PathTree, Tree, Now
    <3>3. Len(queue') = Len(queue) - 1 /\ \A i \in 1 .. Len(queue') : i + 1 \in 1 .. Len(queue) /\ queue'[i] = queue[i + 1]
      BY <1>3, <2>1, <2>2, <3>1
    <3>4. queue' \in Seq(Id \X Nat)
      BY <2>2, <3>1
    <3>5. \A i \in 1 .. Len(queue') : queue'[i][1] \in visited /\ queue'[i][2] = d[queue'[i][1]]
      BY <1>2, <3>3 DEF PathQueue
    <3>6. ASSUME NEW i \in 1 .. Len(queue'), NEW j \in 1 .. Len(queue'), i <= j
          PROVE  queue'[i][2] <= queue'[j][2] /\ queue'[j][2] <= queue'[i][2] + 1
      <4>1. i + 1 <= j + 1
        BY <3>6
      <4> QED
        BY <1>2, <3>3, <4>1 DEF PathQueue
    <3>6a. \A i \in 1 .. Len(queue') : \A n \in visited : d[n] <= queue'[i][2] + 1
      BY <1>2, <3>3 DEF PathQueue
    <3>7. ASSUME NEW n \in visited, Queued(n), ~(d[n] >= query.depth)
          PROVE  Queued(n)'
      <4>1. PICK i \in 1 .. Len(queue) : queue[i][1] = n
        BY <3>7 DEF Queued
      <4>2. queue[1][2] = d[queue[1][1]] /\ ~(queue[1][2] < query.depth) /\ queue[1][2] \in Nat
        BY <1>2, <2>1, <2>2, <2>4 DEF PathQueue, Expandable
      <4>3. i # 1
        BY <1>1, <3>7, <4>1, <4>2
      <4>4. i - 1 \in 1 .. Len(queue') /\ (i - 1) + 1 = i
        BY <1>3, <3>3, <4>3
      <4>5. queue'[i - 1] = queue[i]
        BY <3>3, <4>4
      <4> QED
        BY <4>1, <4>4, <4>5 DEF Queued
    <3>8. PathQueue(d)'
      BY <1>1, <1>2, <3>1, <3>4, <3>5, <3>6, <3>6a, <3>7 DEF PathQueue
    <3> QED
      BY <1>1, <2>3, <3>1, <3>2, <3>8 DEF PathInv
  <2>5. CASE Expandable(Head(queue)[2])
    <3>1. /\ progress' = "expand" /\ selects' = Reads({queue[1][1]}, "both")
          /\ rows' = rows /\ UNCHANGED <<visited, queue, came_from>>
      BY <1>5, <2>2, <2>5 DEF TakeNext, Expandable
    <3>2. PathTree(d)' /\ PathQueue(d)'
      BY <1>1, <1>2, <3>1, PathWaits
    <3>3. Reading(Reads({queue[1][1]}, "both"))'
      BY <1>1, <3>1 DEF Reading, Reads
    <3>4. queue[1][2] < query.depth
      BY <2>2, <2>5 DEF Expandable
    <3> QED
      BY <1>1, <2>1, <2>3, <3>1, <3>2, <3>3, <3>4 DEF PathInv
  <2> QED
    BY <2>4, <2>5
<1> QED
  BY <1>4, <1>5

New == FarEnds(Seen, "both") \ visited
FoundWith(new, node) ==
  [n \in DOMAIN came_from \cup new |-> IF n \in new THEN node ELSE came_from[n]]
StepsWith(d, new, h) == [n \in Id |-> IF n \in new THEN h + 1 ELSE d[n]]

\* What the first node in the queue adds to the tree.
LEMMA TreeGrows ==
  ASSUME GraphOK, query.depth \in Nat, NEW d, PathTree(d), PathQueue(d), Len(queue) > 0,
         queue[1][2] < query.depth, Reading(Reads({queue[1][1]}, "both"))
  PROVE  /\ \A m : Follows(first, queue[1][1], m, "both") => m \in New \/ m \in visited
         /\ \A n \in New : n \in Id /\ Follows(Now, queue[1][1], n, "both")
         /\ Tree(visited \cup New, FoundWith(New, queue[1][1]), StepsWith(d, New, queue[1][2]))
         /\ \A n \in visited : StepsWith(d, New, queue[1][2])[n] = d[n]
<1> DEFINE node == queue[1][1]
           h == queue[1][2]
           D == visited \cup New
           found == FoundWith(New, node)
           e == StepsWith(d, New, h)
<1>1. /\ queue[1] \in Id \X Nat /\ node \in visited /\ h = d[node]
  BY DEF PathQueue
<1>2. h \in Nat /\ node \in Id
  BY <1>1
<1>3. /\ \A m \in {node} : \A n : Follows(first, m, n, "both") => n \in FarEnds(Seen, "both")
      /\ \A n \in FarEnds(Seen, "both") :
           n \in {node} \/ \E m \in {node} : Follows(Now, m, n, "both")
  <2>1. "both" \in Directions
    BY DEF Directions
  <2> QED
    BY <2>1, FarEndsExact
<1>4. ASSUME NEW n \in New
      PROVE  n \in Id /\ Follows(Now, node, n, "both") /\ n \notin visited
  <2>1. n \notin visited /\ Follows(Now, node, n, "both")
    BY <1>1, <1>3 DEF New
  <2>2. <<node, n>> \in arcs \/ <<n, node>> \in arcs
    BY <2>1 DEF Follows, Now
  <2>3. n \in known
    BY <2>2 DEF GraphOK
  <2> QED
    BY <2>1, <2>3 DEF GraphOK
<1>5. \A m : Follows(first, node, m, "both") => m \in New \/ m \in visited
  BY <1>3 DEF New
<1>6. /\ query.from \in visited /\ d[query.from] = 0
      /\ \A n \in visited : d[n] \in Nat /\ n \in Id
      /\ \A n \in visited : n # query.from =>
           /\ came_from[n] \in visited /\ d[n] = d[came_from[n]] + 1
           /\ Follows(Now, came_from[n], n, "both") /\ n \in DOMAIN came_from
  BY DEF PathTree, Tree
<1>7. ASSUME NEW n \in visited
      PROVE  e[n] = d[n] /\ (n # query.from => found[n] = came_from[n])
  BY <1>4, <1>6 DEF StepsWith, FoundWith
<1>8. ASSUME NEW n \in New
      PROVE  e[n] = h + 1 /\ found[n] = node
  BY <1>4 DEF StepsWith, FoundWith
<1> HIDE DEF found, e, node, h
<1>9. ASSUME NEW n \in D
      PROVE  /\ e[n] \in Nat
             /\ n # query.from => /\ found[n] \in D /\ e[n] = e[found[n]] + 1
                                  /\ Follows(Now, found[n], n, "both")
  <2>1. CASE n \in visited
    BY <1>6, <1>7, <2>1
  <2>2. CASE n \in New
    BY <1>1, <1>2, <1>4, <1>7, <1>8, <2>2 DEF h, node
  <2> QED
    BY <2>1, <2>2
<1>10. Tree(D, found, e)
  BY <1>6, <1>7, <1>9 DEF Tree
<1> QED
  BY <1>4, <1>5, <1>7, <1>10 DEF found, e, node, h

\* The queue after its first node was expanded and found the new ones.
ExpandedTo(q, d, new) ==
  /\ q \in Seq(Id \X Nat)
  /\ \A i \in 1 .. Len(q) : \/ q[i][1] \in visited /\ q[i][2] = d[q[i][1]]
                            \/ q[i][1] \in new /\ q[i][2] = queue[1][2] + 1
  /\ \A i, j \in 1 .. Len(q) : i <= j => q[i][2] <= q[j][2] /\ q[j][2] <= q[i][2] + 1
  /\ \A i \in 1 .. Len(q) : q[i][2] \in Nat /\ queue[1][2] <= q[i][2]
  /\ \A n \in visited : Queued(n) => n = queue[1][1] \/ \E i \in 1 .. Len(q) : q[i][1] = n
  /\ \A n \in new : \E i \in 1 .. Len(q) : q[i][1] = n

LEMMA QueueGrows ==
  ASSUME NEW d, PathTree(d), PathQueue(d), Len(queue) > 0, NEW new, NEW s, Enumerates(s, new),
         \A n \in new : n \in Id
  PROVE  ExpandedTo(Tail(queue) \o [i \in DOMAIN s |-> <<s[i], queue[1][2] + 1>>], d, new)
<1> DEFINE h == queue[1][2]
           T == Id \X Nat
           t == [i \in DOMAIN s |-> <<s[i], h + 1>>]
           q == Tail(queue) \o t
           Old(i) == i + 1 \in 1 .. Len(queue) /\ q[i] = queue[i + 1]
           Newer(i) == i > Len(queue) - 1 /\ q[i][1] \in new /\ q[i][2] = h + 1
<1>1. /\ queue \in Seq(T) /\ queue[1] \in T /\ Len(queue) \in Nat
      /\ \A i \in 1 .. Len(queue) : queue[i] \in T
  BY DEF PathQueue
<1>2. h \in Nat
  BY <1>1
<1>3. s \in Seq(new)
  BY DEF Enumerates
<1>4. Len(s) \in Nat /\ DOMAIN s = 1 .. Len(s) /\ \A i \in 1 .. Len(s) : s[i] \in new
  BY <1>3
<1>5. t = [i \in 1 .. Len(s) |-> <<s[i], h + 1>>]
  BY <1>4
<1>6. \A i \in 1 .. Len(s) : <<s[i], h + 1>> \in T
  BY <1>2, <1>4
<1> HIDE DEF T, h
<1>7. \A i \in 1 .. Len(s) : t[i] = <<s[i], h + 1>>
  BY <1>5
<1> HIDE DEF t
<1>8. t \in Seq(T) /\ Len(t) = Len(s)
  BY <1>4, <1>5, <1>6
<1>10. /\ q \in Seq(T)
       /\ Len(q) = (Len(queue) - 1) + Len(s)
       /\ \A i \in 1 .. Len(queue) - 1 : q[i] = queue[i + 1]
       /\ \A i \in 1 .. Len(s) : q[(Len(queue) - 1) + i] = t[i]
  <2>1. Tail(queue) \o t \in Seq(T) /\ Requeued(Tail(queue) \o t, queue, t)
    BY <1>1, <1>8, Dequeued
  <2> QED
    BY <1>8, <2>1 DEF Requeued
<1> HIDE DEF q
<1>11. ASSUME NEW i \in 1 .. Len(q)
       PROVE  Old(i) \/ Newer(i)
  <2>1. CASE i <= Len(queue) - 1
    BY <1>1, <1>10, <2>1
  <2>2. CASE ~(i <= Len(queue) - 1)
    <3> DEFINE k == i - (Len(queue) - 1)
    <3>1. k \in 1 .. Len(s) /\ (Len(queue) - 1) + k = i /\ i > Len(queue) - 1
      BY <1>1, <1>4, <1>10, <2>2
    <3> HIDE DEF k
    <3>2. q[i] = <<s[k], h + 1>>
      BY <1>7, <1>10, <3>1
    <3> QED
      BY <1>4, <3>1, <3>2
  <2> QED
    BY <2>1, <2>2
<1>12. \A i \in 1 .. Len(queue) : queue[i][1] \in visited /\ queue[i][2] = d[queue[i][1]]
  BY DEF PathQueue
<1>13. \A i \in 1 .. Len(q) : \/ q[i][1] \in visited /\ q[i][2] = d[q[i][1]]
                              \/ q[i][1] \in new /\ q[i][2] = h + 1
  BY <1>11, <1>12
<1>14. ASSUME NEW k \in 1 .. Len(queue)
       PROVE  queue[k][2] \in Nat /\ h <= queue[k][2] /\ queue[k][2] <= h + 1
  <2>1. 1 \in 1 .. Len(queue) /\ 1 <= k
    BY <1>1
  <2>2. queue[k] \in Id \X Nat
    BY <1>1 DEF T
  <2> QED
    BY <2>1, <2>2 DEF PathQueue, h
<1>15. ASSUME NEW i \in 1 .. Len(q), NEW j \in 1 .. Len(q), i <= j
       PROVE  q[i][2] <= q[j][2] /\ q[j][2] <= q[i][2] + 1
  <2>1. Old(i) \/ Newer(i)
    BY <1>11
  <2>2. Old(j) \/ Newer(j)
    BY <1>11
  <2>3. CASE Old(i) /\ Old(j)
    <3>1. i + 1 \in 1 .. Len(queue) /\ j + 1 \in 1 .. Len(queue) /\ i + 1 <= j + 1
      BY <1>15, <2>3
    <3>2. queue[i + 1][2] <= queue[j + 1][2] /\ queue[j + 1][2] <= queue[i + 1][2] + 1
      BY <3>1 DEF PathQueue
    <3> QED
      BY <2>3, <3>2
  <2>4. CASE Old(i) /\ Newer(j)
    <3>1. q[i][2] \in Nat /\ h <= q[i][2] /\ q[i][2] <= h + 1
      BY <1>14, <2>4
    <3> DEFINE x == q[i][2]
               y == q[j][2]
    <3>2. x \in Nat /\ h <= x /\ x <= h + 1 /\ y = h + 1
      BY <2>4, <3>1
    <3> HIDE DEF x, y
    <3>3. x <= y /\ y <= x + 1
      BY <1>2, <3>2
    <3> QED
      BY <3>3 DEF x, y
  <2>5. CASE Newer(i) /\ Newer(j)
    <3> DEFINE x == q[i][2]
               y == q[j][2]
    <3>1. x = h + 1 /\ y = h + 1
      BY <2>5
    <3> HIDE DEF x, y
    <3>2. x <= y /\ y <= x + 1
      BY <1>2, <3>1
    <3> QED
      BY <3>2 DEF x, y
  <2>6. ~(Newer(i) /\ Old(j))
    BY <1>1, <1>15
  <2> QED
    BY <2>1, <2>2, <2>3, <2>4, <2>5, <2>6
<1>15a. ASSUME NEW i \in 1 .. Len(q)
        PROVE  q[i][2] \in Nat /\ h <= q[i][2]
  <2>1. CASE Old(i)
    BY <1>14, <2>1
  <2>2. CASE Newer(i)
    BY <1>2, <2>2
  <2> QED
    BY <1>11, <2>1, <2>2
<1>16. ASSUME NEW n \in visited, Queued(n), n # queue[1][1]
       PROVE  \E i \in 1 .. Len(q) : q[i][1] = n
  <2>1. PICK k \in 1 .. Len(queue) : queue[k][1] = n
    BY <1>16 DEF Queued
  <2>2. k # 1
    BY <1>16, <2>1
  <2>3. k - 1 \in 1 .. Len(queue) - 1 /\ k - 1 \in 1 .. Len(q) /\ (k - 1) + 1 = k
    BY <1>1, <1>4, <1>10, <2>2
  <2>4. q[k - 1] = queue[k]
    BY <1>10, <2>3
  <2> QED
    BY <2>1, <2>3, <2>4
<1>17. ASSUME NEW n \in new
       PROVE  \E i \in 1 .. Len(q) : q[i][1] = n
  <2>1. PICK k \in 1 .. Len(s) : s[k] = n
    BY DEF Enumerates
  <2> DEFINE i == (Len(queue) - 1) + k
  <2>2. i \in 1 .. Len(q)
    BY <1>1, <1>4, <1>10
  <2>3. q[i] = <<n, h + 1>>
    BY <1>7, <1>10, <2>1
  <2> HIDE DEF i
  <2>4. q[i][1] = n
    BY <2>3
  <2> QED
    BY <2>2, <2>4
<1> QED
  BY <1>10, <1>13, <1>15, <1>15a, <1>16, <1>17 DEF ExpandedTo, q, t, h, T

\* The target is among what the first node has next to it.
LEMMA PathIsFound ==
  ASSUME GraphOK, query.depth \in Nat, NEW d, PathTree(d), PathQueue(d), Len(queue) > 0,
         queue[1][2] < query.depth, Reading(Reads({queue[1][1]}, "both")), query.to \in New,
         NEW path, path = PathTo(query.to, FoundWith(New, queue[1][1]))
  PROVE  /\ Head(path) = query.from /\ Last(path) = query.to
         /\ \A i \in 1 .. Len(path) - 1 : Follows(Now, path[i], path[i + 1], "both")
         /\ Len(path) - 1 <= query.depth
         /\ \A k \in 0 .. Len(path) - 2 : query.to \notin Within(first, query.from, "both", k)
<1> DEFINE h == queue[1][2]
           D == visited \cup New
           found == FoundWith(New, queue[1][1])
           e == StepsWith(d, New, h)
<1>1. Tree(D, found, e) /\ \A n \in New : n \in Id
  BY TreeGrows
<1>2. 1 \in 1 .. Len(queue) /\ queue[1] \in Id \X Nat /\ h \in Nat
  BY DEF PathQueue
<1>3. e[query.to] = h + 1 /\ query.to \in D
  BY <1>1 DEF StepsWith
<1>4. e[query.from] = 0
  BY <1>1 DEF Tree
<1>5. h + 1 <= query.depth
  BY <1>2
<1> HIDE DEF D, found, e
<1>6. e[query.to] <= query.depth
  BY <1>3, <1>5
<1>7. /\ EndOfPath(PathTo(query.to, found), query.to, D, e)
      /\ PathTo(query.to, found)[1] = query.from
  BY <1>1, <1>3, <1>6, PathBack
<1>8. EndOfPath(path, query.to, D, e) /\ path[1] = query.from
  BY <1>7 DEF found
<1>9. /\ path \in Seq(D) /\ Len(path) \in Nat /\ Len(path) > 0 /\ path[Len(path)] = query.to
      /\ \A i \in 1 .. Len(path) - 1 : Follows(Now, path[i], path[i + 1], "both")
      /\ e[path[1]] + Len(path) = e[query.to] + 1
  BY <1>8 DEF EndOfPath
<1>10. Len(path) = h + 2
  BY <1>2, <1>3, <1>4, <1>8, <1>9
<1>11. \A i \in 1 .. Len(queue) : h <= queue[i][2]
  BY <1>2 DEF PathQueue
<1>12. \A k \in Nat : k <= h => query.to \notin Within(first, query.from, "both", k)
  BY <1>2, <1>11, SearchedSoFar
<1>13. Head(path) = query.from /\ Last(path) = query.to
  BY <1>8, <1>9 DEF Last
<1> HIDE DEF h
<1>14. Len(path) - 1 <= query.depth /\ \A k \in 0 .. Len(path) - 2 : k \in Nat /\ k <= h
  BY <1>2, <1>5, <1>10
<1> QED
  BY <1>9, <1>12, <1>13, <1>14

\* The target is not: the nodes found are in the queue, the first is done with.
LEMMA SearchGoesOn ==
  ASSUME GraphOK, query.depth \in Nat, NEW d, PathTree(d), PathQueue(d), Len(queue) > 0,
         queue[1][2] < query.depth, Reading(Reads({queue[1][1]}, "both")), query.to \notin New,
         visited' = visited \cup New, came_from' = FoundWith(New, queue[1][1]),
         NEW s, Enumerates(s, New),
         queue' = Tail(queue) \o [i \in DOMAIN s |-> <<s[i], queue[1][2] + 1>>],
         UNCHANGED <<known, arcs, first, query>>
  PROVE  \E e : (PathTree(e) /\ PathQueue(e))'
<1> DEFINE h == queue[1][2]
           node == queue[1][1]
           e == StepsWith(d, New, h)
<1>1. /\ \A m : Follows(first, node, m, "both") => m \in New \/ m \in visited
      /\ \A n \in New : n \in Id /\ Follows(Now, node, n, "both")
      /\ Tree(visited \cup New, FoundWith(New, node), e)
      /\ \A n \in visited : e[n] = d[n]
  BY TreeGrows
<1>2. queue[1] \in Id \X Nat /\ h \in Nat /\ node \in visited /\ d[node] = h
  <2>1. /\ queue \in Seq(Id \X Nat)
        /\ \A i \in 1 .. Len(queue) : queue[i][1] \in visited /\ queue[i][2] = d[queue[i][1]]
    BY DEF PathQueue
  <2>2. Len(queue) \in Nat /\ 1 \in 1 .. Len(queue)
    BY <2>1
  <2>3. queue[1] \in Id \X Nat
    BY <2>1, <2>2
  <2>4. node \in visited /\ d[node] = h
    BY <2>1, <2>2
  <2> QED
    BY <2>3, <2>4
<1>3. \A n \in New : e[n] = h + 1
  BY <1>1 DEF StepsWith
<1> DEFINE q == Tail(queue) \o [i \in DOMAIN s |-> <<s[i], h + 1>>]
<1>4. ExpandedTo(q, d, New)
  BY <1>1, QueueGrows
<1>5. queue' = q
  OBVIOUS
<1> HIDE DEF q, h, node
<1>6. PICK c : c = e
  OBVIOUS
<1> HIDE DEF e
<1>7. \A n \in visited : n \in Id /\ d[n] \in Nat /\ d[n] <= query.depth /\ (n # query.from => n \in DOMAIN came_from)
  BY DEF PathTree, Tree
<1>8. /\ \A n \in New : c[n] = h + 1
      /\ \A n \in visited : c[n] = d[n]
  BY <1>1, <1>3, <1>6
<1>9. PathTree(c)'
  <2>1. Tree(visited \cup New, FoundWith(New, node), c)
    BY <1>1, <1>6
  <2> DEFINE D == visited \cup New
             found == FoundWith(New, node)
  <2>2. PICK D0, found0 : D0 = D /\ found0 = found
    OBVIOUS
  <2>3. visited' = D0 /\ came_from' = found0
    BY <2>2 DEF node
  <2>4. Tree(D0, found0, c)
    BY <2>1, <2>2
  <2> HIDE DEF D, found
  <2>5. Tree(D0, found0, c)'
    BY <2>4 DEF Tree, Now
  <2>6. query.to \notin D
    BY DEF PathTree, D
  <2>7. ASSUME NEW n \in D
        PROVE  n \in Id /\ c[n] <= query.depth /\ (n # query.from => n \in DOMAIN found)
    <3>1. CASE n \in New
      <4>1. h + 1 <= query.depth
        BY <1>2 DEF h
      <4> QED
        BY <1>1, <1>8, <3>1, <4>1 DEF found, FoundWith
    <3>2. CASE n \in visited
      BY <1>7, <1>8, <3>2 DEF found, FoundWith
    <3> QED
      BY <3>1, <3>2 DEF D
  <2> QED
    BY <2>2, <2>3, <2>5, <2>6, <2>7 DEF PathTree
<1>10. /\ q \in Seq(Id \X Nat)
       /\ \A i \in 1 .. Len(q) : \/ q[i][1] \in visited /\ q[i][2] = d[q[i][1]]
                                 \/ q[i][1] \in New /\ q[i][2] = h + 1
       /\ \A i, j \in 1 .. Len(q) : i <= j => q[i][2] <= q[j][2] /\ q[j][2] <= q[i][2] + 1
       /\ \A i \in 1 .. Len(q) : q[i][2] \in Nat /\ h <= q[i][2]
       /\ \A n \in visited : Queued(n) => n = node \/ \E i \in 1 .. Len(q) : q[i][1] = n
       /\ \A n \in New : \E i \in 1 .. Len(q) : q[i][1] = n
  BY <1>4 DEF ExpandedTo, h, node
<1>11. \A n \in visited : d[n] <= h + 1
  <2>1. Len(queue) \in Nat /\ 1 \in 1 .. Len(queue)
    BY DEF PathQueue
  <2>2. \A i \in 1 .. Len(queue) : \A n \in visited : d[n] <= queue[i][2] + 1
    BY DEF PathQueue
  <2> QED
    BY <2>1, <2>2 DEF h
<1>12. \A i \in 1 .. Len(q) : q[i][1] \in visited \cup New /\ q[i][2] = c[q[i][1]]
  BY <1>8, <1>10
<1>13. ASSUME NEW n \in visited \cup New
       PROVE  \/ \E i \in 1 .. Len(q) : q[i][1] = n
              \/ c[n] >= query.depth
              \/ \A m : Follows(first, n, m, "both") => m \in visited \cup New /\ c[m] <= c[n] + 1
  <2>1. CASE n \in New
    BY <1>10, <2>1
  <2>2. CASE n = node
    <3>1. ASSUME NEW m, Follows(first, n, m, "both")
          PROVE  m \in visited \cup New /\ c[m] <= c[n] + 1
      <4>1. c[n] = h /\ m \in visited \cup New
        BY <1>1, <1>2, <1>8, <2>2, <3>1
      <4>2. c[m] <= h + 1
        BY <1>2, <1>8, <1>11, <4>1
      <4> QED
        BY <4>1, <4>2
    <3> QED
      BY <3>1
  <2>3. CASE n \in visited /\ n # node /\ ~Queued(n)
    <3>1. \/ d[n] >= query.depth
          \/ \A m : Follows(first, n, m, "both") => m \in visited /\ d[m] <= d[n] + 1
      BY <2>3 DEF PathQueue
    <3> QED
      BY <1>8, <2>3, <3>1
  <2> QED
    BY <1>10, <2>1, <2>2, <2>3
<1>14. \A i \in 1 .. Len(q) : \A n \in visited \cup New : c[n] <= q[i][2] + 1
  <2>1. \A n \in visited \cup New : c[n] \in Nat /\ c[n] <= h + 1
    <3>1. ASSUME NEW n \in New
          PROVE  c[n] \in Nat /\ c[n] <= h + 1
      BY <1>2, <1>8
    <3>2. ASSUME NEW n \in visited
          PROVE  c[n] \in Nat /\ c[n] <= h + 1
      BY <1>7, <1>8, <1>11
    <3> QED
      BY <3>1, <3>2
  <2> QED
    BY <1>2, <1>10, <2>1
<1>15. \A n : Queued(n)' <=> \E i \in 1 .. Len(q) : q[i][1] = n
  BY <1>5 DEF Queued
<1>16. PathQueue(c)'
  <2>1. PICK q0 : q0 = q
    OBVIOUS
  <2>2. queue' = q0 /\ visited' = visited \cup New /\ first' = first /\ query' = query
    BY <1>5, <2>1
  <2>3. /\ queue' \in Seq(Id \X Nat)
        /\ \A i \in 1 .. Len(queue') : queue'[i][1] \in visited' /\ queue'[i][2] = c[queue'[i][1]]
        /\ \A i, j \in 1 .. Len(queue') : i <= j => /\ queue'[i][2] <= queue'[j][2]
                                                    /\ queue'[j][2] <= queue'[i][2] + 1
        /\ \A i \in 1 .. Len(queue') : \A n \in visited' : c[n] <= queue'[i][2] + 1
    BY <1>10, <1>12, <1>14, <2>1, <2>2
  <2>4. \A n \in visited' :
          \/ Queued(n)' \/ c[n] >= query'.depth
          \/ \A m : Follows(first', n, m, "both") => m \in visited' /\ c[m] <= c[n] + 1
    BY <1>13, <1>15, <2>2
  <2>5. \A n, m : Follows(first, n, m, "both")' <=> Follows(first', n, m, "both")
    BY DEF Follows
  <2> QED
    BY <2>3, <2>4, <2>5 DEF PathQueue
<1> QED
  BY <1>9, <1>16

LEMMA PathExpands ==
  ASSUME GraphOK, PathInv, Expand, UNCHANGED <<graphVars, query>>
  PROVE  PathInv'
<1>1. /\ query' = query /\ first' = first /\ arcs' = arcs /\ known' = known
      /\ query.kind = "path" /\ progress = "expand" /\ query.depth \in Nat
  BY QueryTypes DEF graphVars, Expand, LastRead, Goes, GraphOK
<1>2. /\ Len(queue) > 0 /\ queue[1][2] < query.depth
      /\ Reading(Reads({queue[1][1]}, "both"))
  BY <1>1 DEF PathInv
<1>3. PICK d : PathTree(d) /\ PathQueue(d)
  BY <1>1 DEF PathInv
<1>4. Head(queue) = queue[1] /\ queue \in Seq(Id \X Nat)
  BY <1>2, <1>3 DEF PathQueue
<1> DEFINE node == queue[1][1]
           found == FoundWith(New, node)
           s == Ascending(New)
<1>5. Enumerates(s, New)
  <2>1. \A n \in New : n \in Id
    BY <1>1, <1>2, <1>3, TreeGrows
  <2>2. New \in SUBSET Id /\ \A n \in New : n \in Nat
    BY <2>1, QueryAssumption
  <2>3. IsFiniteSet(New)
    BY <2>2, QueryAssumption, FS_Subset
  <2> QED
    BY <2>2, <2>3, AscendingEnumerates
<1>6. CASE query.to \in New
  <2>1. progress' = "done" /\ answer' = PathTo(query.to, found)
    BY <1>4, <1>6 DEF Expand, Conclude, New, FoundWith
  <2> DEFINE path == PathTo(query.to, found)
  <2>2. /\ Head(path) = query.from /\ Last(path) = query.to
        /\ \A i \in 1 .. Len(path) - 1 : Follows(Now, path[i], path[i + 1], "both")
        /\ Len(path) - 1 <= query.depth
        /\ \A k \in 0 .. Len(path) - 2 : query.to \notin Within(first, query.from, "both", k)
    BY <1>1, <1>2, <1>3, <1>6, PathIsFound
  <2>3. PICK p : p = path
    OBVIOUS
  <2>4. answer' = p
    BY <2>1, <2>3
  <2> HIDE DEF path
  <2>5. PathShortest'
    BY <1>1, <2>1, <2>2, <2>3, <2>4 DEF PathShortest, Now
  <2> QED
    BY <1>1, <2>1, <2>5 DEF PathInv
<1>7. CASE query.to \notin New
  <2>1. /\ visited' = visited \cup New /\ came_from' = found
        /\ queue' = Tail(queue) \o [i \in DOMAIN s |-> <<s[i], queue[1][2] + 1>>]
        /\ progress' = "next" /\ rows' = {}
    BY <1>4, <1>7 DEF Expand, New, FoundWith
  <2> HIDE DEF s
  <2>2. \E e : (PathTree(e) /\ PathQueue(e))'
    BY <1>1, <1>2, <1>3, <1>5, <1>7, <2>1, SearchGoesOn
  <2>3. PathShortest'
    BY <2>1 DEF PathShortest
  <2> QED
    BY <1>1, <2>1, <2>2, <2>3 DEF PathInv
<1> QED
  BY <1>6, <1>7

\* A rebuild in another process.
LEMMA GraphGrows ==
  ASSUME GraphOK, NodesArrive \/ ArcsArrive
  PROVE  /\ GraphOK' /\ \A e \in arcs : e \in arcs'
         /\ \A n \in known : n \in known'
         /\ UNCHANGED <<first, query, searchVars>> /\ Asking
<1>1. CASE NodesArrive
  <2>1. known' = Id /\ UNCHANGED <<arcs, first, query, searchVars>> /\ Asking
    BY <1>1 DEF NodesArrive
  <2> QED
    BY <2>1 DEF GraphOK, Widened, Now
<1>2. CASE ArcsArrive
  <2>1. /\ known' = known /\ UNCHANGED <<first, query, searchVars>> /\ Asking
        /\ \E e \in known \X known : arcs' = arcs \cup {e}
    BY <1>2 DEF ArcsArrive
  <2> QED
    BY <2>1 DEF GraphOK, Widened, Now
<1> QED
  BY <1>1, <1>2

LEMMA PathGrows ==
  ASSUME GraphOK, PathInv, NodesArrive \/ ArcsArrive
  PROVE  PathInv'
<1> SUFFICES ASSUME query.kind = "path"
             PROVE  PathInv'
  BY GraphGrows DEF PathInv
<1>1. /\ \A e \in arcs : e \in arcs'
      /\ \A n \in known : n \in known'
      /\ UNCHANGED <<first, query>> /\ Asking
      /\ UNCHANGED <<progress, selects, rows, visited, queue, came_from>>
  BY GraphGrows DEF searchVars
<1>2. PathShortest'
  BY <1>1 DEF PathShortest, Asking
<1>3. ASSUME NEW d, PathTree(d), PathQueue(d)
      PROVE  (PathTree(d) /\ PathQueue(d))'
  BY <1>1, <1>3, PathWaits
<1>4. ASSUME NEW reads, Reading(reads)
      PROVE  Reading(reads)'
  BY <1>1, <1>4, ReadingGoesOn
<1>5. Reads({queue[1][1]}, "both")' = Reads({queue[1][1]}, "both")
  BY <1>1 DEF Reads
<1>6. progress = "expand" => Reading(Reads({queue[1][1]}, "both"))'
  <2>1. PICK reads : reads = Reads({queue[1][1]}, "both")
    OBVIOUS
  <2>2. progress = "expand" => Reading(reads)
    BY <2>1 DEF PathInv
  <2>3. progress = "expand" => Reading(reads)'
    BY <2>2, <1>4
  <2>4. Reads({queue[1][1]}, "both")' = reads
    BY <1>5, <2>1
  <2> QED
    BY <2>3, <2>4
<1> QED
  BY <1>1, <1>2, <1>3, <1>6 DEF PathInv

LEMMA PathInvStep ==
  ASSUME GraphOK, PathInv, [QueryNext]_queryVars
  PROVE  PathInv'
<1>1. CASE UNCHANGED queryVars
  <2>1. UNCHANGED <<progress, rows, selects, visited, queue, came_from, query, first, known, arcs, answer>>
    BY <1>1 DEF queryVars, graphVars, searchVars
  <2>2. PathShortest' = PathShortest
    BY <2>1 DEF PathShortest, Within, Ball, Follows, Now
  <2>3. ASSUME NEW d, PathTree(d), PathQueue(d)
        PROVE  (PathTree(d) /\ PathQueue(d))'
    BY <2>1, <2>3, PathWaits
  <2>4. Reading(Reads({queue[1][1]}, "both"))' = Reading(Reads({queue[1][1]}, "both"))
    BY <2>1 DEF Reading, Reads, Touches
  <2> QED
    BY <2>1, <2>2, <2>3, <2>4 DEF PathInv
<1>2. CASE NodesArrive \/ ArcsArrive
  BY <1>2, PathGrows
<1>3. CASE /\ ReadOn \/ StartNeighbors \/ Explore \/ FindNode \/ FilterNodes
                \/ CheckSource \/ CheckTarget \/ TakeNext \/ Expand
                \/ ListEdges \/ ListNodes \/ Flood \/ StartLineage \/ Gather \/ Order
           /\ UNCHANGED <<graphVars, query>>
  <2>1. CASE ReadOn
    BY <1>3, <2>1, PathReads
  <2>2. CASE CheckSource \/ CheckTarget
    BY <1>3, <2>2, PathStarts
  <2>3. CASE TakeNext
    BY <1>3, <2>3, PathTakes
  <2>4. CASE Expand
    BY <1>3, <2>4, PathExpands
  <2>5. CASE \/ StartNeighbors \/ Explore \/ FindNode \/ FilterNodes
             \/ ListEdges \/ ListNodes \/ Flood \/ StartLineage \/ Gather \/ Order
    <3>1. query.kind # "path"
      BY <2>5 DEF StartNeighbors, Explore, FindNode, FilterNodes, ListEdges, ListNodes, Flood,
                  StartLineage, Gather, Order, LastRead, Goes
    <3> QED
      BY <1>3, <3>1 DEF PathInv
  <2> QED
    BY <1>3, <2>1, <2>2, <2>3, <2>4, <2>5
<1> QED
  BY <1>1, <1>2, <1>3 DEF QueryNext

LEMMA GraphInit == QueryInit => GraphOK
<1> SUFFICES ASSUME QueryInit
             PROVE  GraphOK
  OBVIOUS
<1>1. /\ known = Node /\ query \in Query
      /\ arcs \in UNION {kSubset(k, Arc) : k \in 0 .. MaxEdges}
      /\ first = [known |-> known, arcs |-> arcs]
  BY DEF QueryInit
<1>2. \A e \in arcs : e \in Arc
  BY <1>1 DEF kSubset
<1>3. first.known = known /\ first.arcs = arcs
  BY <1>1
<1> QED
  BY <1>1, <1>2, <1>3 DEF GraphOK, Arc, Id, Widened, Now

LEMMA GraphStep == GraphOK /\ [QueryNext]_queryVars => GraphOK'
<1> SUFFICES ASSUME GraphOK, [QueryNext]_queryVars
             PROVE  GraphOK'
  OBVIOUS
<1>1. CASE NodesArrive \/ ArcsArrive
  BY <1>1, GraphGrows
<1>2. CASE UNCHANGED <<graphVars, query>>
  BY <1>2 DEF graphVars, GraphOK, Widened, Now
<1> QED
  BY <1>1, <1>2 DEF QueryNext, queryVars

\* PathShortest: find_path answers with a path from end to end that is no longer
\* than the shortest there was when it was asked, and finds none only if there was
\* none within max_depth, for any graph, whatever a rebuild adds meanwhile.
THEOREM PathsAreShortest == QuerySpec => []PathShortest
<1> DEFINE Inv == GraphOK /\ PathInv
<1>1. QueryInit => Inv
  <2>1. QueryInit => PathInv
    BY DEF QueryInit, PathInv, PathShortest
  <2> QED
    BY <2>1, GraphInit
<1>2. Inv /\ [QueryNext]_queryVars => Inv'
  BY GraphStep, PathInvStep
<1>3. Inv => PathShortest
  BY DEF PathInv, PathShortest
<1> QED
  BY <1>1, <1>2, <1>3, PTL DEF QuerySpec

------------------------------------------------------------------------------
(* Questions: neighbors and related *)
LEMMA LesserOf ==
  ASSUME NEW m \in Nat, NEW n \in Nat
  PROVE  Min({m, n}) \in {m, n} /\ Min({m, n}) <= m /\ Min({m, n}) <= n
<1> DEFINE both == {m, n}
<1>1. \E x \in both : \A y \in both : x <= y
  <2>1. CASE m <= n
    BY <2>1
  <2>2. CASE n <= m
    BY <2>2
  <2> QED
    BY <2>1, <2>2
<1>2. m \in both /\ n \in both
  OBVIOUS
<1> HIDE DEF both
<1>3. Min(both) \in both /\ \A y \in both : Min(both) <= y
  BY <1>1, Zenon DEF Min
<1> QED
  BY <1>2, <1>3 DEF both

LEMMA MinOf ==
  ASSUME NEW S, S # {}, \A n \in S : n \in Nat
  PROVE  Min(S) \in S /\ Min(S) \in Nat
<1>1. S \in SUBSET Nat
  OBVIOUS
<1>2. \E x \in S : \A y \in S : x <= y
  BY <1>1, LeastNatural
<1>3. Min(S) \in S
  BY <1>2, Zenon DEF Min
<1> QED
  BY <1>3

LEMMA FirstOnes ==
  ASSUME NEW S, NEW s \in Seq(S), NEW last \in Nat, last <= Len(s)
  PROVE  /\ DOMAIN SubSeq(s, 1, last) = 1 .. last /\ Len(SubSeq(s, 1, last)) = last
         /\ \A i \in 1 .. last : SubSeq(s, 1, last)[i] = s[i] /\ i \in 1 .. Len(s)
<1>1. Len(s) \in Nat
  OBVIOUS
<1>2. \A i \in 1 .. last : i \in 1 .. Len(s)
  BY <1>1
<1> QED
  BY <1>1, <1>2

\* The smallest of S, at most so many.
Smallest(t, S, limit) ==
  /\ \A i, j \in DOMAIN t : i < j => t[i] < t[j]
  /\ \A i \in DOMAIN t : t[i] \in S
  /\ \A n \in S : n \in Range(t) \/ (Len(t) = limit /\ \A i \in DOMAIN t : t[i] < n)

LEMMA LimitedSmallest ==
  ASSUME NEW S, \A n \in S : n \in Nat, NEW s, Enumerates(s, S),
         NEW limit \in Nat \cup {Unlimited}
  PROVE  Smallest(Limited(s, limit), S, limit)
<1>1. /\ s \in Seq(S) /\ Len(s) \in Nat /\ DOMAIN s = 1 .. Len(s)
      /\ \A k, l \in 1 .. Len(s) : k < l => s[k] < s[l]
      /\ \A k \in 1 .. Len(s) : s[k] \in S
      /\ \A n \in S : \E k \in 1 .. Len(s) : s[k] = n
  <2>1. s \in Seq(S)
    BY DEF Enumerates
  <2>2. Len(s) \in Nat /\ DOMAIN s = 1 .. Len(s)
    BY <2>1
  <2>3. ASSUME NEW k \in 1 .. Len(s)
        PROVE  s[k] \in S
    BY <2>1, <2>3, SMTT(30)
  <2> QED
    BY <2>1, <2>2, <2>3, Zenon DEF Enumerates
<1>2. CASE limit = Unlimited
  <2>1. Limited(s, limit) = s
    BY <1>2 DEF Limited
  <2> QED
    BY <1>1, <2>1 DEF Smallest, Range
<1>3. CASE limit # Unlimited
  <2> DEFINE last == Min({limit, Len(s)})
             t == SubSeq(s, 1, last)
  <2>1. /\ limit \in Nat /\ last \in Nat /\ last <= limit /\ last <= Len(s)
        /\ (last = limit \/ last = Len(s))
    <3>1. limit \in Nat /\ Len(s) \in Nat
      BY <1>1, <1>3
    <3>2. last \in {limit, Len(s)} /\ last <= limit /\ last <= Len(s)
      BY <3>1, LesserOf
    <3> HIDE DEF last
    <3> QED
      BY <3>1, <3>2
  <2>2. Limited(s, limit) = t
    BY <1>3 DEF Limited
  <2> HIDE DEF last, t
  <2>3. /\ DOMAIN t = 1 .. last /\ Len(t) = last
        /\ \A i \in 1 .. last : t[i] = s[i] /\ i \in 1 .. Len(s)
    <3>1. s \in Seq(S) /\ last \in Nat /\ last <= Len(s)
      BY <1>1, <2>1
    <3> QED
      BY <3>1, FirstOnes DEF t
  <2>4. \A i, j \in DOMAIN t : i < j => t[i] < t[j]
    BY <1>1, <2>3
  <2>5. \A i \in DOMAIN t : t[i] \in S
    BY <1>1, <2>3
  <2>6. ASSUME NEW n \in S
        PROVE  n \in Range(t) \/ (Len(t) = limit /\ \A i \in DOMAIN t : t[i] < n)
    <3>1. PICK k \in 1 .. Len(s) : s[k] = n
      BY <1>1
    <3>2. CASE k <= last
      <4>1. k \in 1 .. last /\ t[k] = n
        BY <2>1, <2>3, <3>1, <3>2
      <4> QED
        BY <2>3, <4>1 DEF Range
    <3>3. CASE ~(k <= last)
      <4>1. last = limit
        <5>1. k <= Len(s)
          BY <1>1, <3>1
        <5>2. last # Len(s)
          BY <3>3, <5>1
        <5> QED
          BY <2>1, <5>2
      <4>2. \A i \in 1 .. last : i < k
        BY <2>1, <3>3
      <4> QED
        BY <1>1, <2>3, <3>1, <4>1, <4>2
    <3> QED
      BY <3>2, <3>3
  <2> QED
    BY <2>2, <2>4, <2>5, <2>6 DEF Smallest
<1> QED
  BY <1>2, <1>3

\* Among the nodes n, those that were asked for.
AskedFor(n) ==
  /\ TypeOf[n] \in query.types
  /\ query.kind = "related" => n # query.from

LEMMA FoundAmong ==
  ASSUME GraphOK, NEW found, \A n \in found : n \in known, query.kind \in {"neighbors", "related"}
  PROVE  Smallest(NodesFound(found), {n \in found : AskedFor(n)}, query.limit)
<1> DEFINE ofTypes == {n \in found : TypeOf[n] \in query.types}
           wanted == IF query.kind = "related" THEN ofTypes \ {query.from} ELSE ofTypes
           S == {n \in found : AskedFor(n)}
<1>1. wanted = S
  BY DEF AskedFor
<1>2. NodesFound(found) = Limited(Ascending(wanted), query.limit)
  BY DEF NodesFound
<1>3. S \in SUBSET Id /\ \A n \in S : n \in Nat
  BY QueryAssumption DEF GraphOK
<1>4. query.limit \in Nat \cup {Unlimited}
  BY QueryTypes DEF GraphOK
<1> HIDE DEF wanted, S
<1>5. Enumerates(Ascending(S), S)
  <2>1. IsFiniteSet(S)
    BY <1>3, QueryAssumption, FS_Subset
  <2> QED
    BY <1>3, <2>1, AscendingEnumerates
<1>6. Smallest(Limited(Ascending(S), query.limit), S, query.limit)
  BY <1>3, <1>4, <1>5, LimitedSmallest
<1> QED
  BY <1>1, <1>2, <1>6 DEF S

\* The arc is one of those that are followed from m.
AtNode(e, m) ==
  (query.direction # "in" /\ e[1] = m) \/ (query.direction # "out" /\ e[2] = m)

Reach(net) == Ball(net, query.from, query.direction)

\* The arcs followed are at nodes that those steps reach.
UsedWithin(es, ids, k) ==
  \A e \in es : /\ e \in arcs /\ e[1] \in ids /\ e[2] \in ids
                /\ \E m \in Reach(Now)[k] : AtNode(e, m)

\* Every arc there was at the node has been followed.
Followed(m, es) == \A e \in first.arcs : AtNode(e, m) => e \in es

\* What a search that is over has seen and followed.
Searched(V, U) ==
  /\ \A n \in Reach(first)[query.depth] : n \in V
  /\ \A n \in V : n \in Reach(Now)[query.depth]
  /\ query.depth = 0 => U = {}
  /\ query.depth > 0 => UsedWithin(U, V, query.depth - 1)
  /\ query.depth > 0 => \A m \in Reach(first)[query.depth - 1] : Followed(m, U)

\* Of the nodes V that were seen, those in R were found to be stored, and those
\* in S are still to be looked up.
Finding(S, R, V) ==
  /\ \A n \in S : n \in V
  /\ \A n \in R : n \in V /\ n \in known
  /\ \A n \in V : n \in first.known => n \in S \/ n \in R

NearInv ==
  query.kind \in {"neighbors", "related"} =>
    /\ progress \in {"start", "round", "found", "done"}
    /\ progress = "start" => rows = {} /\ used = {} /\ round = 0
    /\ progress = "round" =>
         /\ round \in Nat /\ round < query.depth
         /\ \A n \in Reach(first)[round] : n \in visited
         /\ \A n \in visited : n \in Reach(Now)[round]
         /\ \A e \in used : round > 0
         /\ round > 0 => UsedWithin(used, visited, round - 1)
         /\ \E frontier : /\ Reading(Reads(frontier, query.direction))
                          /\ \A m \in frontier : m \in visited
                          /\ \A m \in visited : m \in frontier \/ Followed(m, used)
    /\ progress = "found" => Searched(visited, used) /\ Finding(selects, rows, visited)
    /\ progress = "done" => NeighborhoodExact

\* What a search that has seen V, found R of them and followed U may answer.
LEMMA NearConcludes ==
  ASSUME GraphOK, query.kind \in {"neighbors", "related"}, NEW V, NEW U, NEW R,
         Searched(V, U), Finding({}, R, V),
         UNCHANGED <<graphVars, query>>,
         visited' = V, used' = U, answer' = NodesFound(R)
  PROVE  NeighborhoodExact'
<1> DEFINE S == {n \in R : AskedFor(n)}
<1>0. /\ \A n \in Reach(first)[query.depth] : n \in V
      /\ \A n \in V : n \in Reach(Now)[query.depth]
      /\ query.depth = 0 => U = {}
      /\ query.depth > 0 => UsedWithin(U, V, query.depth - 1)
      /\ query.depth > 0 => \A m \in Reach(first)[query.depth - 1] : Followed(m, U)
      /\ \A n \in R : n \in V /\ n \in known
      /\ \A n \in V : n \in first.known => n \in R
  BY DEF Searched, Finding
<1>1. /\ query' = query /\ known' = known /\ arcs' = arcs /\ first' = first
      /\ query.depth \in Nat /\ query.direction \in Directions
      /\ \A n \in first.known : n \in known
      /\ \A e \in arcs : e[1] \in known /\ e[2] \in known
      /\ \A e \in first.arcs : e[1] \in first.known /\ e[2] \in first.known
  BY QueryTypes DEF graphVars, GraphOK, Widened, Now
<1>2. Smallest(answer', S, query.limit)
  BY <1>0, FoundAmong
<1>3. PICK a : a = answer'
  OBVIOUS
<1>4. /\ \A i, j \in DOMAIN a : i < j => a[i] < a[j]
      /\ \A i \in DOMAIN a : a[i] \in S
      /\ \A n \in S : n \in Range(a) \/ (Len(a) = query.limit /\ \A i \in DOMAIN a : a[i] < n)
  BY <1>2, <1>3 DEF Smallest
<1>5. \A n \in Range(a) : n \in S
  BY <1>4 DEF Range
<1>6. \A n : n \in Within(Now, query.from, query.direction, query.depth)
               <=> n \in Reach(Now)[query.depth] /\ n \in known
  BY DEF Within, Reach, Now
<1>7. \A n : n \in Within(first, query.from, query.direction, query.depth)
               <=> n \in Reach(first)[query.depth] /\ n \in first.known
  BY DEF Within, Reach
<1>8. ASSUME NEW n \in Range(a)
      PROVE  n \in Within(Now, query.from, query.direction, query.depth) /\ AskedFor(n)
  BY <1>0, <1>5, <1>6
<1>9. ASSUME NEW n \in Within(first, query.from, query.direction, query.depth), AskedFor(n),
             n \notin Range(a)
      PROVE  Len(a) = query.limit /\ \A m \in Range(a) : m < n
  <2>1. n \in S
    BY <1>0, <1>1, <1>7, <1>9
  <2> QED
    BY <1>4, <1>9, <2>1 DEF Range
<1>10. ASSUME query.depth # 0
       PROVE  /\ \A e \in U : /\ e \in Now.arcs
                              /\ \/ /\ query.direction # "in"
                                    /\ e[1] \in Within(Now, query.from, query.direction, query.depth - 1)
                                 \/ /\ query.direction # "out"
                                    /\ e[2] \in Within(Now, query.from, query.direction, query.depth - 1)
              /\ \A e \in first.arcs :
                   \/ query.direction # "in" /\ e[1] \in Within(first, query.from, query.direction, query.depth - 1)
                   \/ query.direction # "out" /\ e[2] \in Within(first, query.from, query.direction, query.depth - 1)
                   => e \in U
              /\ \A e \in U : e[1] \in V /\ e[2] \in V
  <2>1. query.depth > 0
    BY <1>1, <1>10
  <2>2. \A n : n \in Within(Now, query.from, query.direction, query.depth - 1)
                 <=> n \in Reach(Now)[query.depth - 1] /\ n \in known
    BY DEF Within, Reach, Now
  <2>3. \A n : n \in Within(first, query.from, query.direction, query.depth - 1)
                 => n \in Reach(first)[query.depth - 1]
    BY DEF Within, Reach
  <2>4. UsedWithin(U, V, query.depth - 1) /\ \A m \in Reach(first)[query.depth - 1] : Followed(m, U)
    BY <1>0, <2>1
  <2>5. \A e \in U : /\ e \in arcs /\ e[1] \in V /\ e[2] \in V
                     /\ \E m \in Reach(Now)[query.depth - 1] : AtNode(e, m)
    BY <2>4 DEF UsedWithin
  <2>6. \A m \in Reach(first)[query.depth - 1] : \A e \in first.arcs : AtNode(e, m) => e \in U
    BY <2>4 DEF Followed
  <2>7. Now.arcs = arcs
    BY DEF Now
  <2>8. ASSUME NEW e \in U
        PROVE  \/ /\ query.direction # "in"
                  /\ e[1] \in Within(Now, query.from, query.direction, query.depth - 1)
               \/ /\ query.direction # "out"
                  /\ e[2] \in Within(Now, query.from, query.direction, query.depth - 1)
    BY <1>1, <2>2, <2>5 DEF AtNode
  <2>9. ASSUME NEW e \in first.arcs,
               \/ query.direction # "in" /\ e[1] \in Within(first, query.from, query.direction, query.depth - 1)
               \/ query.direction # "out" /\ e[2] \in Within(first, query.from, query.direction, query.depth - 1)
        PROVE  e \in U
    BY <2>3, <2>6, <2>9 DEF AtNode
  <2> QED
    BY <2>5, <2>7, <2>8, <2>9
<1>11. Now' = Now
  BY <1>1 DEF Now
<1> HIDE DEF S
<1> QED
  BY <1>0, <1>1, <1>3, <1>4, <1>8, <1>9, <1>10, <1>11 DEF NeighborhoodExact, AskedFor

LEMMA BallLonger ==
  ASSUME NEW net, NEW from, NEW direction, NEW k \in Nat, NEW last \in Nat, k <= last
  PROVE  \A n \in Ball(net, from, direction)[k] : n \in Ball(net, from, direction)[last]
<1> DEFINE ball == Ball(net, from, direction)
           bad == {l \in Nat : k <= l /\ ~(\A n \in ball[k] : n \in ball[l])}
<1>1. \A l \in Nat : \A n \in ball[l] : n \in ball[l + 1]
  BY BallGrows
<1> HIDE DEF ball
<1>2. ASSUME bad # {}
      PROVE  FALSE
  <2>1. PICK l \in bad : \A m \in bad : l <= m
    BY <1>2, LeastNatural
  <2>2. l # k
    BY <2>1
  <2>3. l - 1 \in Nat /\ k <= l - 1 /\ (l - 1) + 1 = l /\ ~(l <= l - 1)
    BY <2>1, <2>2
  <2>4. \A n \in ball[k] : n \in ball[l - 1]
    BY <2>1, <2>3
  <2>5. \A n \in ball[l - 1] : n \in ball[l]
    BY <1>1, <2>3
  <2> QED
    BY <2>1, <2>4, <2>5
<1>3. last \notin bad
  BY <1>2
<1> QED
  BY <1>3 DEF ball

\* What was seen and found stays so when the graph is unchanged or grows.
LEMMA FindingGoesOn ==
  ASSUME GraphOK, query.kind \in {"neighbors", "related"}, NEW V, NEW U, NEW S, NEW R,
         Searched(V, U), Finding(S, R, V),
         \A e \in arcs : e \in arcs', \A n \in known : n \in known', UNCHANGED <<first, query>>,
         visited' = V, used' = U, selects' = S, rows' = R
  PROVE  (Searched(visited, used) /\ Finding(selects, rows, visited))'
<1>1. /\ first' = first /\ query' = query
      /\ visited' = V /\ used' = U /\ selects' = S /\ rows' = R
      /\ query.depth \in Nat
  BY QueryTypes DEF GraphOK
<1>2. Reach(first)' = Reach(first)
  BY <1>1 DEF Reach, Ball, Follows
<1>3. PICK old : old = Now
  OBVIOUS
<1>4. PICK new : new = Now'
  OBVIOUS
<1>5. Widened(old, new)
  BY <1>3, <1>4 DEF Widened, Now
<1>6. ASSUME NEW k \in Nat, NEW n \in Reach(Now)[k]
      PROVE  n \in Reach(Now)'[k]
  <2>1. n \in Ball(old, query.from, query.direction)[k]
    BY <1>3, <1>6 DEF Reach
  <2>2. n \in Ball(new, query.from, query.direction)[k]
    BY <1>5, <2>1, BallWider
  <2>3. Ball(Now, query.from, query.direction)' = Ball(new, query.from, query.direction)
    BY <1>1, <1>4 DEF Ball, Follows
  <2> QED
    BY <2>2, <2>3 DEF Reach
<1>7. query.depth > 0 => UsedWithin(used, visited, query.depth - 1)'
  <2>1. SUFFICES ASSUME query.depth > 0
                 PROVE  UsedWithin(used, visited, query.depth - 1)'
    OBVIOUS
  <2>2. query.depth - 1 \in Nat
    BY <1>1, <2>1
  <2>3. UsedWithin(U, V, query.depth - 1)
    BY <2>1 DEF Searched
  <2> QED
    BY <1>1, <1>6, <2>2, <2>3 DEF UsedWithin, AtNode
<1>8. \A m : Followed(m, used)' <=> Followed(m, U)
  BY <1>1 DEF Followed, AtNode
<1>9. \A n \in V : n \in Reach(Now)'[query.depth]
  BY <1>1, <1>6 DEF Searched
<1>10. /\ \A n \in Reach(first)[query.depth] : n \in V
       /\ query.depth = 0 => U = {}
       /\ query.depth > 0 => \A m \in Reach(first)[query.depth - 1] : Followed(m, U)
  BY DEF Searched
<1>11. Searched(visited, used)'
  BY <1>1, <1>2, <1>7, <1>8, <1>9, <1>10 DEF Searched
<1>12. Finding(selects, rows, visited)'
  BY <1>1 DEF Finding
<1> QED
  BY <1>11, <1>12

LEMMA NearStarts ==
  ASSUME GraphOK, NearInv, StartNeighbors, UNCHANGED <<graphVars, query>>
  PROVE  NearInv'
<1>1. /\ query' = query /\ known' = known /\ arcs' = arcs /\ first' = first
      /\ query.kind \in {"neighbors", "related"} /\ progress = "start"
      /\ query.depth \in Nat /\ query.direction \in Directions
      /\ rows = {} /\ used = {} /\ round = 0
      /\ rows' = rows /\ used' = used /\ round' = round /\ visited' = {query.from}
  BY QueryTypes DEF graphVars, GraphOK, StartNeighbors, Goes, NearInv
<1>2. Reach(first)[0] = {query.from} /\ Reach(Now)[0] = {query.from}
  BY BallSteps DEF Reach
<1>3. CASE RoundsLeft(0, query.depth)
  <2>1. progress' = "round" /\ selects' = Reads({query.from}, query.direction) /\ 0 < query.depth
    BY <1>3 DEF StartNeighbors, RoundsLeft
  <2> DEFINE frontier == {query.from}
  <2>2. Reading(Reads(frontier, query.direction))'
    BY <1>1, <2>1 DEF Reading, Reads
  <2>3. Reach(first)' = Reach(first) /\ Reach(Now)' = Reach(Now)
    BY <1>1 DEF Reach, Ball, Follows, Now
  <2>4. \E f : (/\ Reading(Reads(f, query.direction))
                /\ \A m \in f : m \in visited
                /\ \A m \in visited : m \in f \/ Followed(m, used))'
    BY <1>1, <2>2
  <2> QED
    BY <1>1, <1>2, <2>1, <2>3, <2>4 DEF NearInv
<1>4. CASE ~RoundsLeft(0, query.depth)
  <2>1. progress' = "found" /\ selects' = {query.from} /\ query.depth = 0
    BY <1>1, <1>4 DEF StartNeighbors, RoundsLeft
  <2>2. PICK V : V = {query.from}
    OBVIOUS
  <2>3. Searched(V, {}) /\ Finding(V, {}, V)
    BY <1>2, <2>1, <2>2 DEF Searched, Finding
  <2>4. visited' = V /\ used' = {} /\ selects' = V /\ rows' = {}
    BY <1>1, <2>1, <2>2
  <2>5. (Searched(visited, used) /\ Finding(selects, rows, visited))'
    BY <1>1, <2>3, <2>4, FindingGoesOn
  <2> QED
    BY <1>1, <2>1, <2>5 DEF NearInv
<1> QED
  BY <1>3, <1>4

LEMMA NearReads ==
  ASSUME GraphOK, NearInv, ReadOn, UNCHANGED <<graphVars, query>>
  PROVE  NearInv'
<1> SUFFICES ASSUME query.kind \in {"neighbors", "related"}
             PROVE  NearInv'
  BY DEF NearInv
<1>1. /\ UNCHANGED <<query, known, arcs, first, progress, round, visited, used>>
      /\ progress \in {"round", "expand", "older"}
  BY DEF ReadOn, graphVars
<1>2. progress = "round" /\ round \in Nat /\ round < query.depth
  BY <1>1 DEF NearInv
<1>3. PICK f : /\ Reading(Reads(f, query.direction))
               /\ \A m \in f : m \in visited
               /\ \A m \in visited : m \in f \/ Followed(m, used)
  BY <1>2 DEF NearInv
<1>4. Reading(Reads(f, query.direction))'
  <2>1. PICK reads : reads = Reads(f, query.direction)
    OBVIOUS
  <2>2. Reading(reads)'
    BY <1>3, <2>1, ReadOnReads DEF graphVars
  <2>3. Reads(f, query.direction)' = reads
    BY <1>1, <2>1 DEF Reads
  <2> QED
    BY <2>2, <2>3
<1>5. Reach(first)' = Reach(first) /\ Reach(Now)' = Reach(Now)
  BY <1>1 DEF Reach, Ball, Follows, Now
<1>6. UsedWithin(used, visited, round - 1)' <=> UsedWithin(used, visited, round - 1)
  BY <1>1, <1>5 DEF UsedWithin, AtNode
<1>7. \A m : Followed(m, used)' <=> Followed(m, used)
  BY <1>1 DEF Followed, AtNode
<1>8. \E g : (/\ Reading(Reads(g, query.direction))
              /\ \A m \in g : m \in visited
              /\ \A m \in visited : m \in g \/ Followed(m, used))'
  BY <1>1, <1>3, <1>4, <1>7
<1>9. /\ \A n \in Reach(first)[round] : n \in visited
      /\ \A n \in visited : n \in Reach(Now)[round]
      /\ \A e \in used : round > 0
      /\ round > 0 => UsedWithin(used, visited, round - 1)
  BY <1>2 DEF NearInv
<1> QED
  BY <1>1, <1>2, <1>5, <1>6, <1>8, <1>9 DEF NearInv

LEMMA NearGrows ==
  ASSUME GraphOK, NearInv, NodesArrive \/ ArcsArrive
  PROVE  NearInv'
<1> SUFFICES ASSUME query.kind \in {"neighbors", "related"}
             PROVE  NearInv'
  BY GraphGrows DEF NearInv
<1>1. /\ \A e \in arcs : e \in arcs'
      /\ \A n \in known : n \in known'
      /\ UNCHANGED <<first, query>> /\ Asking
      /\ UNCHANGED <<progress, selects, rows, visited, round, used>>
  BY GraphGrows DEF searchVars
<1>2. CASE progress = "start"
  BY <1>1, <1>2 DEF NearInv
<1>3. CASE progress = "round"
  <2>1. /\ round \in Nat /\ round < query.depth
        /\ \A n \in Reach(first)[round] : n \in visited
        /\ \A n \in visited : n \in Reach(Now)[round]
        /\ \A e \in used : round > 0
        /\ round > 0 => UsedWithin(used, visited, round - 1)
    BY <1>3 DEF NearInv
  <2>2. PICK f : /\ Reading(Reads(f, query.direction))
                 /\ \A m \in f : m \in visited
                 /\ \A m \in visited : m \in f \/ Followed(m, used)
    BY <1>3 DEF NearInv
  <2>3. Reading(Reads(f, query.direction))'
    <3>1. PICK reads : reads = Reads(f, query.direction)
      OBVIOUS
    <3>2. Reading(reads)'
      BY <1>1, <2>2, <3>1, ReadingGoesOn
    <3>3. Reads(f, query.direction)' = reads
      BY <1>1, <3>1 DEF Reads
    <3> QED
      BY <3>2, <3>3
  <2>4. PICK old : old = Now
    OBVIOUS
  <2>5. PICK new : new = Now'
    OBVIOUS
  <2>6. Widened(old, new)
    BY <1>1, <2>4, <2>5 DEF Widened, Now
  <2>7. ASSUME NEW k \in Nat, NEW n \in Reach(Now)[k]
        PROVE  n \in Reach(Now)'[k]
    <3>1. n \in Ball(old, query.from, query.direction)[k]
      BY <2>4, <2>7 DEF Reach
    <3>2. n \in Ball(new, query.from, query.direction)[k]
      BY <2>6, <3>1, BallWider
    <3>3. Ball(Now, query.from, query.direction)' = Ball(new, query.from, query.direction)
      BY <1>1, <2>5 DEF Ball, Follows
    <3> QED
      BY <3>2, <3>3 DEF Reach
  <2>8. Reach(first)' = Reach(first)
    BY <1>1 DEF Reach, Ball, Follows
  <2>9. round > 0 => UsedWithin(used, visited, round - 1)'
    <3>1. SUFFICES ASSUME round > 0
                   PROVE  UsedWithin(used, visited, round - 1)'
      OBVIOUS
    <3>2. round - 1 \in Nat
      BY <2>1, <3>1
    <3>3. UsedWithin(used, visited, round - 1)
      BY <2>1, <3>1
    <3> QED
      BY <1>1, <2>7, <3>2, <3>3 DEF UsedWithin, AtNode
  <2>10. \A m : Followed(m, used)' <=> Followed(m, used)
    BY <1>1 DEF Followed, AtNode
  <2>11. \E g : (/\ Reading(Reads(g, query.direction))
                 /\ \A m \in g : m \in visited
                 /\ \A m \in visited : m \in g \/ Followed(m, used))'
    BY <1>1, <2>2, <2>3, <2>10
  <2>12. \A n \in visited : n \in Reach(Now)'[round]
    BY <2>1, <2>7
  <2> QED
    BY <1>1, <1>3, <2>1, <2>8, <2>9, <2>11, <2>12 DEF NearInv
<1>4. CASE progress = "found"
  <2>1. PICK V : V = visited
    OBVIOUS
  <2>2. PICK U : U = used
    OBVIOUS
  <2>3. PICK S : S = selects
    OBVIOUS
  <2>4. PICK R : R = rows
    OBVIOUS
  <2>5. Searched(V, U) /\ Finding(S, R, V)
    BY <1>4, <2>1, <2>2, <2>3, <2>4 DEF NearInv
  <2>6. visited' = V /\ used' = U /\ selects' = S /\ rows' = R
    BY <1>1, <2>1, <2>2, <2>3, <2>4
  <2>7. (Searched(visited, used) /\ Finding(selects, rows, visited))'
    BY <1>1, <2>5, <2>6, FindingGoesOn
  <2> QED
    BY <1>1, <1>4, <2>7 DEF NearInv
<1>5. progress # "done"
  BY <1>1 DEF Asking
<1> QED
  BY <1>2, <1>3, <1>4, <1>5 DEF NearInv

\* What a round makes of a frontier: V the nodes seen with it, U the arcs.
RoundExact(V, U, k) ==
  /\ \A n \in Reach(first)[k + 1] : n \in V
  /\ \A n \in V : n \in Reach(Now)[k + 1]
  /\ UsedWithin(U, V, k)
  /\ \A m \in visited : Followed(m, U)

LEMMA RoundFinds ==
  ASSUME GraphOK, NEW dir, dir = query.direction, dir \in Directions, NEW k \in Nat, k = round,
         NEW f, Reading(Reads(f, dir)),
         \A m \in f : m \in visited,
         \A m \in visited : m \in f \/ Followed(m, used),
         \A n \in Reach(first)[k] : n \in visited,
         \A n \in visited : n \in Reach(Now)[k],
         \A e \in used : k > 0,
         k > 0 => UsedWithin(used, visited, k - 1)
  PROVE  RoundExact(visited \cup FarEnds(Seen, dir), used \cup Seen, k)
<1> DEFINE far == FarEnds(Seen, dir)
           V == visited \cup far
           U == used \cup Seen
           net == Now
<1>1. /\ \A m \in f : \A n : Follows(first, m, n, dir) => n \in far
      /\ \A n \in far : n \in f \/ \E m \in f : Follows(net, m, n, dir)
  BY FarEndsExact
<1>2. /\ \A e \in Seen : e \in arcs /\ \E r \in Reads(f, dir) : Touches(e, r)
      /\ \A r \in Reads(f, dir) : \A e \in first.arcs : Touches(e, r) => e \in Seen
  BY SeenExact
<1>3. /\ \A m \in f : dir # "in" => <<m, "out">> \in Reads(f, dir)
      /\ \A m \in f : dir # "out" => <<m, "in">> \in Reads(f, dir)
      /\ \A r \in Reads(f, dir) :
              /\ r[1] \in f
              /\ (r[2] = "out" /\ dir # "in") \/ (r[2] = "in" /\ dir # "out")
  BY ReadsOf
<1>4. net.arcs = arcs /\ net.known = known
  BY DEF Now
<1>5. /\ \A e \in arcs : e = <<e[1], e[2]>> /\ e[1] \in known /\ e[2] \in known
      /\ \A e \in first.arcs : e = <<e[1], e[2]>> /\ e[1] \in first.known /\ e[2] \in first.known
  BY DEF GraphOK
<1>6. /\ \A n \in Reach(net)[k] : n \in Reach(net)[k + 1]
      /\ \A m \in Reach(net)[k] : \A n \in net.known :
           Follows(net, m, n, dir) => n \in Reach(net)[k + 1]
      /\ k > 0 => \A n \in Reach(net)[k - 1] : n \in Reach(net)[k]
  <2>1. /\ \A n \in Reach(net)[k] : n \in Reach(net)[k + 1]
        /\ \A m \in Reach(net)[k] : \A n \in net.known :
             Follows(net, m, n, dir) => n \in Reach(net)[k + 1]
    BY BallGrows DEF Reach
  <2>2. ASSUME k > 0
        PROVE  \A n \in Reach(net)[k - 1] : n \in Reach(net)[k]
    <3>1. k - 1 \in Nat /\ (k - 1) + 1 = k
      BY <2>2
    <3>2. \A n \in Reach(net)[k - 1] : n \in Reach(net)[(k - 1) + 1]
      BY <3>1, BallGrows DEF Reach
    <3> QED
      BY <3>1, <3>2
  <2> QED
    BY <2>1, <2>2
<1>7. Reach(first)[k + 1] = Beyond(first, dir, Reach(first)[k])
  <2> DEFINE start == query.from
  <2>1. Reach(first) = Ball(first, start, dir)
    BY DEF Reach
  <2> HIDE DEF start
  <2>2. Ball(first, start, dir)[k + 1] = Beyond(first, dir, Ball(first, start, dir)[k])
    BY BallSteps
  <2> QED
    BY <2>1, <2>2
\* what is followed from the frontier is among the arcs read
<1>8. ASSUME NEW m \in f, NEW e \in first.arcs, AtNode(e, m)
      PROVE  e \in Seen
  <2>1. CASE dir # "in" /\ e[1] = m
    <3>1. <<m, "out">> \in Reads(f, dir) /\ Touches(e, <<m, "out">>)
      BY <1>3, <2>1 DEF Touches
    <3> QED
      BY <1>2, <3>1
  <2>2. CASE dir # "out" /\ e[2] = m
    <3>1. <<m, "in">> \in Reads(f, dir) /\ Touches(e, <<m, "in">>)
      BY <1>3, <2>2 DEF Touches
    <3> QED
      BY <1>2, <3>1
  <2> QED
    BY <1>8, <2>1, <2>2 DEF AtNode
<1>9. ASSUME NEW e \in Seen
      PROVE  \E m \in f : AtNode(e, m)
  <2>1. PICK r \in Reads(f, dir) : Touches(e, r)
    BY <1>2
  <2>2. /\ r[1] \in f
        /\ (r[2] = "out" /\ dir # "in") \/ (r[2] = "in" /\ dir # "out")
    BY <1>3
  <2> QED
    BY <2>1, <2>2 DEF Touches, AtNode
<1>10. \A m \in visited : Followed(m, U)
  BY <1>8 DEF Followed
<1>11. \A e \in Seen : e[1] \in V /\ e[2] \in V
  <2>1. SUFFICES ASSUME NEW e \in Seen
                 PROVE  e[1] \in V /\ e[2] \in V
    OBVIOUS
  <2>2. /\ dir # "in" => e[2] \in far
        /\ dir # "out" => e[1] \in far
    BY DEF FarEnds
  <2>3. PICK m \in f : AtNode(e, m)
    BY <1>9
  <2> QED
    BY <2>2, <2>3 DEF AtNode, Directions
<1>12. k > 0 => \A e \in used : /\ e \in arcs /\ e[1] \in V /\ e[2] \in V
                                /\ \E m \in Reach(net)[k] : AtNode(e, m)
  BY <1>6 DEF UsedWithin
<1>13. UsedWithin(U, V, k)
  BY <1>2, <1>9, <1>11, <1>12 DEF UsedWithin
<1>14. \A n \in V : n \in Reach(net)[k + 1]
  <2>1. SUFFICES ASSUME NEW n \in far
                 PROVE  n \in Reach(net)[k + 1]
    BY <1>6
  <2>2. CASE n \in f
    BY <1>6, <2>2
  <2>3. CASE \E m \in f : Follows(net, m, n, dir)
    <3>1. PICK m \in f : Follows(net, m, n, dir)
      BY <2>3
    <3>2. n \in net.known
      BY <1>4, <1>5, <3>1 DEF Follows
    <3> QED
      BY <1>6, <3>1, <3>2
  <2> QED
    BY <1>1, <2>2, <2>3
<1>15. \A n \in Reach(first)[k + 1] : n \in V
  <2>1. SUFFICES ASSUME NEW n \in Reach(first)[k + 1]
                 PROVE  n \in V
    OBVIOUS
  <2>2. CASE n \in Reach(first)[k]
    BY <2>2
  <2>3. CASE \E m \in Reach(first)[k] : Follows(first, m, n, dir)
    <3>1. PICK m \in visited : Follows(first, m, n, dir)
      BY <2>3
    <3>2. CASE m \in f
      BY <1>1, <3>1, <3>2
    <3>3. CASE Followed(m, used)
      <4>1. PICK e \in first.arcs : AtNode(e, m) /\ (n = e[1] \/ n = e[2])
        <5>1. CASE dir # "in" /\ <<m, n>> \in first.arcs
          BY <5>1 DEF AtNode
        <5>2. CASE dir # "out" /\ <<n, m>> \in first.arcs
          BY <5>2 DEF AtNode
        <5> QED
          BY <3>1, <5>1, <5>2 DEF Follows
      <4>2. e \in used
        BY <3>3, <4>1 DEF Followed
      <4> QED
        BY <4>1, <4>2 DEF UsedWithin
    <3> QED
      BY <3>2, <3>3
  <2> QED
    BY <1>7, <2>2, <2>3 DEF Beyond
<1> QED
  BY <1>10, <1>13, <1>14, <1>15 DEF RoundExact

\* The arcs of a frontier are read again when its round is over.
LEMMA NearExplores ==
  ASSUME GraphOK, NearInv, Explore, UNCHANGED <<graphVars, query>>
  PROVE  NearInv'
<1>1. /\ query' = query /\ known' = known /\ arcs' = arcs /\ first' = first
      /\ query.kind \in {"neighbors", "related"} /\ progress = "round"
      /\ query.depth \in Nat /\ query.direction \in Directions
      /\ round \in Nat /\ round < query.depth
  BY QueryTypes DEF graphVars, GraphOK, Explore, LastRead, Goes, NearInv
<1>2. PICK f : /\ Reading(Reads(f, query.direction))
               /\ \A m \in f : m \in visited
               /\ \A m \in visited : m \in f \/ Followed(m, used)
  BY <1>1 DEF NearInv
<1> DEFINE far == FarEnds(Seen, query.direction)
           found == far \ visited
           V == visited \cup far
           U == used \cup Seen
<1>3. RoundExact(V, U, round)
  BY <1>1, <1>2, RoundFinds DEF NearInv
<1>4. V = visited \cup found
  OBVIOUS
<1>5. /\ used' = U /\ visited' = V /\ round' = round + 1 /\ rows' = {}
      /\ \/ /\ found # {} /\ RoundsLeft(round + 1, query.depth)
            /\ selects' = Reads(found, query.direction) /\ progress' = progress
         \/ /\ found = {} \/ ~RoundsLeft(round + 1, query.depth)
            /\ progress' = "found" /\ selects' = visited'
  BY <1>4 DEF Explore
<1> HIDE DEF far, V, U
<1>6. /\ \A n \in Reach(first)[round + 1] : n \in V
      /\ \A n \in V : n \in Reach(Now)[round + 1]
      /\ UsedWithin(U, V, round)
      /\ \A m \in visited : Followed(m, U)
  BY <1>3 DEF RoundExact
<1>7. CASE found # {} /\ RoundsLeft(round + 1, query.depth)
  <2>1. /\ progress' = "round" /\ selects' = Reads(found, query.direction)
        /\ round + 1 < query.depth /\ round + 1 \in Nat
    BY <1>1, <1>5, <1>7 DEF RoundsLeft
  <2>2. PICK g : g = found
    OBVIOUS
  <2>3. Reading(Reads(g, query.direction))'
    BY <1>1, <1>5, <2>1, <2>2 DEF Reading, Reads
  <2>4. /\ \A m \in g : m \in V
        /\ \A m \in V : m \in g \/ Followed(m, U)
    BY <1>4, <1>6, <2>2
  <2>5. \A m : Followed(m, used)' <=> Followed(m, U)
    BY <1>1, <1>5 DEF Followed, AtNode
  <2>6. Reach(first)' = Reach(first) /\ Reach(Now)' = Reach(Now)
    BY <1>1 DEF Reach, Ball, Follows, Now
  <2>7. UsedWithin(used, visited, round - 1)' <=> UsedWithin(U, V, round)
    <3>1. round' - 1 = round
      BY <1>1, <1>5
    <3> QED
      BY <1>1, <1>5, <2>6, <3>1 DEF UsedWithin, AtNode
  <2>8. \E h : (/\ Reading(Reads(h, query.direction))
                /\ \A m \in h : m \in visited
                /\ \A m \in visited : m \in h \/ Followed(m, used))'
    BY <1>1, <1>5, <2>3, <2>4, <2>5
  <2>9. round' > 0
    BY <1>1, <1>5
  <2> QED
    BY <1>1, <1>5, <1>6, <2>1, <2>6, <2>7, <2>8, <2>9 DEF NearInv
<1>8. CASE found = {} \/ ~RoundsLeft(round + 1, query.depth)
  <2>1. progress' = "found" /\ selects' = V
    BY <1>5, <1>8
  <2>2. query.depth > 0 /\ query.depth - 1 \in Nat /\ round <= query.depth - 1
        /\ round + 1 \in Nat /\ round + 1 <= query.depth
    BY <1>1
  <2>3. \A k \in Nat : found = {} => \A n \in Reach(first)[k] : n \in visited
    <3> SUFFICES ASSUME found = {}, NEW k \in Nat
                 PROVE  \A n \in Reach(first)[k] : n \in visited
      OBVIOUS
    <3> DEFINE X == [l \in Nat |-> visited]
    <3>1. \A n \in Reach(first)[0] : n \in visited
      <4>1. Reach(first)[0] = {query.from}
        BY BallSteps DEF Reach
      <4>2. query.from \in Reach(first)[round]
        BY <1>1, BallStarts DEF Reach
      <4> QED
        BY <1>1, <4>1, <4>2 DEF NearInv
    <3>2. query.from \in visited
      BY <3>1, BallSteps DEF Reach
    <3>3. ASSUME NEW m \in visited, NEW n, Follows(first, m, n, query.direction)
          PROVE  n \in visited
      <4>1. PICK e \in first.arcs : AtNode(e, m) /\ (n = e[1] \/ n = e[2])
        <5>1. CASE query.direction # "in" /\ <<m, n>> \in first.arcs
          BY <5>1 DEF AtNode
        <5>2. CASE query.direction # "out" /\ <<n, m>> \in first.arcs
          BY <5>2 DEF AtNode
        <5> QED
          BY <3>3, <5>1, <5>2 DEF Follows
      <4>2. e \in U
        BY <1>6, <4>1 DEF Followed
      <4> QED
        BY <1>4, <1>6, <4>1, <4>2 DEF UsedWithin
    <3>4. /\ query.from \in X[0]
          /\ \A l \in Nat : l < k =>
               /\ \A n \in X[l] : n \in X[l + 1]
               /\ \A m \in X[l] : \A n \in first.known :
                    Follows(first, m, n, query.direction) => n \in X[l + 1]
      BY <3>2, <3>3
    <3>5. \A l \in Nat : X[l] = visited
      OBVIOUS
    <3> HIDE DEF X
    <3>6. \A l \in Nat : l <= k =>
            \A n \in Ball(first, query.from, query.direction)[l] : n \in X[l]
      BY <3>4, BallInside
    <3>7. k <= k
      OBVIOUS
    <3> QED
      BY <3>5, <3>6, <3>7 DEF Reach
  <2>4. found = {} \/ round + 1 = query.depth
    BY <1>1, <1>8 DEF RoundsLeft
  <2>5. \A n \in Reach(first)[query.depth] : n \in V
    BY <1>1, <1>4, <1>6, <2>3, <2>4
  <2>6. \A m \in Reach(first)[query.depth - 1] : Followed(m, U)
    <3>1. CASE found = {}
      BY <1>6, <2>2, <2>3, <3>1
    <3>2. CASE round + 1 = query.depth
      <4>1. query.depth - 1 = round
        BY <1>1, <3>2
      <4> QED
        BY <1>1, <1>6, <4>1 DEF NearInv
    <3> QED
      BY <2>4, <3>1, <3>2
  <2>7. \A n \in V : n \in Reach(Now)[query.depth]
    BY <1>1, <1>6, <2>2, BallLonger DEF Reach
  <2>8. UsedWithin(U, V, query.depth - 1)
    <3>1. \A n \in Reach(Now)[round] : n \in Reach(Now)[query.depth - 1]
      BY <1>1, <2>2, BallLonger DEF Reach
    <3> QED
      BY <1>6, <3>1 DEF UsedWithin
  <2>9. Searched(V, U) /\ Finding(V, {}, V)
    BY <2>2, <2>5, <2>6, <2>7, <2>8 DEF Searched, Finding
  <2>10. (Searched(visited, used) /\ Finding(selects, rows, visited))'
    BY <1>1, <1>5, <2>1, <2>9, FindingGoesOn
  <2> QED
    BY <1>1, <2>1, <2>10 DEF NearInv
<1> QED
  BY <1>5, <1>7, <1>8

\* Whatever is within reach is an id.
LEMMA ReachIds ==
  ASSUME GraphOK, NEW k \in Nat
  PROVE  \A n \in Reach(Now)[k] : n \in Id
<1>1. query.from \in Id
  BY QueryTypes DEF GraphOK
<1>2. \A n \in Reach(Now)[k] : n = query.from \/ n \in known
  BY BallStarts DEF Reach, Now
<1> QED
  BY <1>1, <1>2 DEF GraphOK

LEMMA NearFinds ==
  ASSUME GraphOK, NearInv, FindNode, UNCHANGED <<graphVars, query>>
  PROVE  NearInv'
<1>1. /\ query' = query /\ known' = known /\ arcs' = arcs /\ first' = first
      /\ query.kind \in {"neighbors", "related"} /\ progress = "found" /\ progress' = progress
      /\ visited' = visited /\ used' = used /\ query.depth \in Nat
      /\ selects # {}
      /\ selects' = selects \ {Min(selects)} /\ rows' = rows \cup ({Min(selects)} \cap known)
  BY QueryTypes DEF graphVars, GraphOK, FindNode, Goes
<1>2. Searched(visited, used) /\ Finding(selects, rows, visited)
  BY <1>1 DEF NearInv
<1>3. \A n \in selects : n \in Nat
  <2>1. \A n \in selects : n \in Reach(Now)[query.depth]
    BY <1>2 DEF Searched, Finding
  <2> QED
    BY <1>1, <2>1, ReachIds, QueryAssumption
<1>4. Min(selects) \in selects
  BY <1>1, <1>3, MinOf
<1>5. PICK n : n = Min(selects)
  OBVIOUS
<1>6. PICK S : S = selects \ {n}
  OBVIOUS
<1>7. PICK R : R = rows \cup ({n} \cap known)
  OBVIOUS
<1>8. PICK V : V = visited
  OBVIOUS
<1>9. PICK U : U = used
  OBVIOUS
<1>10. \A m \in first.known : m \in known
  BY DEF GraphOK, Widened, Now
<1>11. Searched(V, U) /\ Finding(S, R, V)
  BY <1>2, <1>4, <1>5, <1>6, <1>7, <1>8, <1>9, <1>10 DEF Finding
<1>12. (Searched(visited, used) /\ Finding(selects, rows, visited))'
  BY <1>1, <1>5, <1>6, <1>7, <1>8, <1>9, <1>11, FindingGoesOn
<1> QED
  BY <1>1, <1>12 DEF NearInv

LEMMA NearFilters ==
  ASSUME GraphOK, NearInv, FilterNodes, UNCHANGED <<graphVars, query>>
  PROVE  NearInv'
<1>1. /\ query' = query /\ query.kind \in {"neighbors", "related"} /\ progress = "found"
      /\ selects = {} /\ visited' = visited /\ used' = used
      /\ progress' = "done" /\ answer' = NodesFound(rows)
  BY DEF FilterNodes, Conclude, Goes
<1>2. PICK V : V = visited
  OBVIOUS
<1>3. PICK U : U = used
  OBVIOUS
<1>4. PICK R : R = rows
  OBVIOUS
<1>5. Searched(V, U) /\ Finding({}, R, V)
  BY <1>1, <1>2, <1>3, <1>4 DEF NearInv
<1>6. visited' = V /\ used' = U /\ answer' = NodesFound(R)
  BY <1>1, <1>2, <1>3, <1>4
<1>7. NeighborhoodExact'
  BY <1>1, <1>5, <1>6, NearConcludes
<1> QED
  BY <1>1, <1>7 DEF NearInv

LEMMA NearInvStep ==
  ASSUME GraphOK, NearInv, [QueryNext]_queryVars
  PROVE  NearInv'
<1>1. CASE UNCHANGED queryVars
  <2>1. UNCHANGED <<progress, rows, selects, round, visited, used, query, first, known, arcs, answer>>
    BY <1>1 DEF queryVars, graphVars, searchVars
  <2>2. NeighborhoodExact' = NeighborhoodExact
    BY <2>1 DEF NeighborhoodExact, Within, Ball, Follows, Now
  <2>3. Reach(first)' = Reach(first) /\ Reach(Now)' = Reach(Now)
    BY <2>1 DEF Reach, Ball, Follows, Now
  <2>4. UsedWithin(used, visited, round - 1)' <=> UsedWithin(used, visited, round - 1)
    BY <2>1, <2>3 DEF UsedWithin, AtNode
  <2>5. \A m : Followed(m, used)' <=> Followed(m, used)
    BY <2>1 DEF Followed, AtNode
  <2>6. \A f : Reading(Reads(f, query.direction))' <=> Reading(Reads(f, query.direction))
    BY <2>1 DEF Reading, Reads, Touches
  <2>7. Searched(visited, used)' <=> Searched(visited, used)
    BY <2>1, <2>3, <2>5 DEF Searched, UsedWithin, AtNode
  <2>8. Finding(selects, rows, visited)' <=> Finding(selects, rows, visited)
    BY <2>1 DEF Finding
  <2> QED
    BY <2>1, <2>2, <2>3, <2>4, <2>5, <2>6, <2>7, <2>8 DEF NearInv
<1>2. CASE NodesArrive \/ ArcsArrive
  BY <1>2, NearGrows
<1>3. CASE /\ ReadOn \/ StartNeighbors \/ Explore \/ FindNode \/ FilterNodes
                \/ CheckSource \/ CheckTarget \/ TakeNext \/ Expand
                \/ ListEdges \/ ListNodes \/ Flood \/ StartLineage \/ Gather \/ Order
           /\ UNCHANGED <<graphVars, query>>
  <2>1. CASE ReadOn
    BY <1>3, <2>1, NearReads
  <2>2. CASE StartNeighbors
    BY <1>3, <2>2, NearStarts
  <2>3. CASE Explore
    BY <1>3, <2>3, NearExplores
  <2>4. CASE FindNode
    BY <1>3, <2>4, NearFinds
  <2>5. CASE FilterNodes
    BY <1>3, <2>5, NearFilters
  <2>6. CASE \/ CheckSource \/ CheckTarget \/ TakeNext \/ Expand
             \/ ListEdges \/ ListNodes \/ Flood \/ StartLineage \/ Gather \/ Order
    <3>1. query.kind \notin {"neighbors", "related"}
      BY <2>6 DEF CheckSource, CheckTarget, TakeNext, Expand, ListEdges, ListNodes, Flood,
                  StartLineage, Gather, Order, LastRead, Goes
    <3> QED
      BY <1>3, <3>1 DEF NearInv
  <2> QED
    BY <1>3, <2>1, <2>2, <2>3, <2>4, <2>5, <2>6
<1> QED
  BY <1>1, <1>2, <1>3 DEF QueryNext

\* NeighborhoodExact: what neighbors and related return is what lies within
\* reach, of any graph that any rebuild adds to: nothing that was there when the
\* question was asked is missing, nothing is returned that is not there, and of
\* more nodes than the limit it is the first.
THEOREM NeighborhoodsAreExact == QuerySpec => []NeighborhoodExact
<1> DEFINE Inv == GraphOK /\ NearInv
<1>1. QueryInit => Inv
  <2>1. QueryInit => NearInv
    BY DEF QueryInit, NearInv
  <2> QED
    BY <2>1, GraphInit
<1>2. Inv /\ [QueryNext]_queryVars => Inv'
  BY GraphStep, NearInvStep
<1>3. Inv => NeighborhoodExact
  BY DEF NearInv, NeighborhoodExact
<1> QED
  BY <1>1, <1>2, <1>3, PTL DEF QuerySpec

------------------------------------------------------------------------------
(* Questions: what is connected *)
Linked(net, m, n) == \E k \in Nat : n \in Ball(net, m, "both")[k]

WellFormed(net) ==
  /\ \A n \in net.known : n \in Id
  /\ \A e \in net.arcs : /\ e[1] \in net.known /\ e[2] \in net.known

LEMMA LinkedSteps ==
  ASSUME NEW net, NEW m
  PROVE  /\ Linked(net, m, m)
         /\ \A n \in net.known : Follows(net, m, n, "both") => Linked(net, m, n)
<1>1. Ball(net, m, "both")[0] = {m} /\ Ball(net, m, "both")[0 + 1] = Beyond(net, "both", Ball(net, m, "both")[0])
  BY BallSteps
<1>2. 0 \in Nat /\ 1 \in Nat /\ 0 + 1 = 1
  OBVIOUS
<1>3. Linked(net, m, m)
  BY <1>1, <1>2 DEF Linked
<1>4. ASSUME NEW n \in net.known, Follows(net, m, n, "both")
      PROVE  Linked(net, m, n)
  <2>1. n \in Ball(net, m, "both")[0 + 1]
    BY <1>1, <1>4 DEF Beyond
  <2> QED
    BY <1>2, <2>1 DEF Linked
<1> QED
  BY <1>3, <1>4

\* What holds at a node and spreads along the arcs holds of all linked with it.
LEMMA LinkedInside ==
  ASSUME NEW net, NEW S, NEW from \in S,
         \A m \in S : \A n \in net.known : Follows(net, m, n, "both") => n \in S
  PROVE  \A n : Linked(net, from, n) => n \in S
<1> SUFFICES ASSUME NEW n, NEW k \in Nat, n \in Ball(net, from, "both")[k]
             PROVE  n \in S
  BY DEF Linked
<1> DEFINE X == [l \in Nat |-> S]
<1>1. \A l \in Nat : X[l] = S
  OBVIOUS
<1>2. /\ from \in X[0]
      /\ \A l \in Nat : l < k =>
           /\ \A i \in X[l] : i \in X[l + 1]
           /\ \A m \in X[l] : \A i \in net.known : Follows(net, m, i, "both") => i \in X[l + 1]
  BY <1>1
<1> HIDE DEF X
<1>3. \A l \in Nat : l <= k => \A i \in Ball(net, from, "both")[l] : i \in X[l]
  BY <1>2, BallInside
<1>4. k <= k
  OBVIOUS
<1> QED
  BY <1>1, <1>3, <1>4

LEMMA LinkedThrough ==
  ASSUME NEW net, NEW a, NEW b, NEW c, Linked(net, a, b), Linked(net, b, c)
  PROVE  Linked(net, a, c)
<1> DEFINE S == {n \in net.known \cup {a, b} : Linked(net, a, n)}
<1>1. b \in S
  OBVIOUS
<1>2. ASSUME NEW m \in S, NEW n \in net.known, Follows(net, m, n, "both")
      PROVE  n \in S
  <2>1. PICK k \in Nat : m \in Ball(net, a, "both")[k]
    BY DEF Linked
  <2>2. n \in Ball(net, a, "both")[k + 1] /\ k + 1 \in Nat
    BY <1>2, <2>1, BallGrows
  <2> QED
    BY <2>2 DEF Linked
<1>3. \A n \in S : Linked(net, a, n)
  OBVIOUS
<1> HIDE DEF S
<1> QED
  BY <1>1, <1>2, <1>3, LinkedInside

LEMMA LinkedBack ==
  ASSUME NEW net, WellFormed(net), NEW a, NEW b, Linked(net, a, b)
  PROVE  Linked(net, b, a)
<1> DEFINE S == {n \in net.known \cup {a} : Linked(net, n, a)}
<1>1. a \in S
  BY LinkedSteps
<1>2. ASSUME NEW m \in S, NEW n \in net.known, Follows(net, m, n, "both")
      PROVE  n \in S
  <2>1. Follows(net, n, m, "both") /\ m \in net.known
    <3>1. <<m, n>> \in net.arcs \/ <<n, m>> \in net.arcs
      BY <1>2 DEF Follows
    <3>2. m \in net.known
      BY <3>1 DEF WellFormed
    <3>3. Follows(net, n, m, "both")
      BY <3>1 DEF Follows
    <3> QED
      BY <3>2, <3>3
  <2>2. Linked(net, n, m)
    BY <2>1, LinkedSteps
  <2> QED
    BY <2>2, LinkedThrough
<1>3. \A n \in S : Linked(net, n, a)
  OBVIOUS
<1> HIDE DEF S
<1> QED
  BY <1>1, <1>2, <1>3, LinkedInside

LEMMA LinkedWider ==
  ASSUME NEW old, NEW new, Widened(old, new), NEW m, NEW n, Linked(old, m, n)
  PROVE  Linked(new, m, n)
BY BallWider DEF Linked

\* A set that grows with every step until it stops has as many elements.
LEMMA BallCounts ==
  ASSUME NEW net, WellFormed(net), NEW from \in Id, NEW k \in Nat
  PROVE  LET inner == Ball(net, from, "both")[k]
         IN  \/ k + 1 <= Cardinality(inner)
             \/ Beyond(net, "both", inner) = inner
<1> DEFINE ball == Ball(net, from, "both")
           Stops(S) == Beyond(net, "both", S) = S
           bad == {l \in Nat : ~(l + 1 <= Cardinality(ball[l]) \/ Stops(ball[l]))}
<1>1. /\ ball[0] = {from}
      /\ \A l \in Nat : ball[l + 1] = Beyond(net, "both", ball[l])
  BY BallSteps
<1>2. \A l \in Nat : \A n \in ball[l] : n \in Id
  BY BallStarts DEF WellFormed
<1>3. \A l \in Nat : \A n \in ball[l] : n \in ball[l + 1]
  BY BallGrows
<1> HIDE DEF ball
<1>4. ASSUME NEW l \in Nat
      PROVE  IsFiniteSet(ball[l]) /\ Cardinality(ball[l]) \in Nat
  <2>1. ball[l] \in SUBSET Id
    BY <1>2
  <2>2. IsFiniteSet(ball[l])
    BY <2>1, QueryAssumption, FS_Subset
  <2> QED
    BY <2>2, FS_CardinalityType
<1> HIDE DEF Stops
<1>5. ASSUME bad # {}
      PROVE  FALSE
  <2>1. PICK l \in bad : \A m \in bad : l <= m
    BY <1>5, LeastNatural
  <2>2. l # 0
    <3>1. Cardinality(ball[0]) = 1
      BY <1>1, FS_Singleton
    <3> QED
      BY <2>1, <3>1
  <2>3. l - 1 \in Nat /\ (l - 1) + 1 = l /\ ~(l <= l - 1)
    BY <2>1, <2>2
  <2>4. l <= Cardinality(ball[l - 1]) \/ Stops(ball[l - 1])
    BY <2>1, <2>3
  <2>5. ball[l] = Beyond(net, "both", ball[l - 1])
    BY <1>1, <2>3
  <2>6. CASE Stops(ball[l - 1])
    <3>1. ball[l] = ball[l - 1]
      BY <2>5, <2>6 DEF Stops
    <3> QED
      BY <2>1, <2>6, <3>1
  <2>7. CASE ~Stops(ball[l - 1])
    <3>1. l <= Cardinality(ball[l - 1]) /\ ball[l] # ball[l - 1]
      BY <2>4, <2>5, <2>7 DEF Stops
    <3>2. ball[l - 1] \in SUBSET ball[l]
      BY <1>3, <2>3
    <3>3. /\ IsFiniteSet(ball[l]) /\ Cardinality(ball[l]) \in Nat
          /\ Cardinality(ball[l - 1]) \in Nat
      BY <1>4, <2>1, <2>3
    <3>4. /\ Cardinality(ball[l - 1]) <= Cardinality(ball[l])
          /\ Cardinality(ball[l - 1]) # Cardinality(ball[l])
      BY <3>1, <3>2, <3>3, FS_Subset
    <3>5. l + 1 <= Cardinality(ball[l])
      BY <2>1, <3>1, <3>3, <3>4
    <3> QED
      BY <2>1, <3>5
  <2> QED
    BY <2>6, <2>7
<1>6. k \notin bad
  BY <1>5
<1> QED
  BY <1>6 DEF ball, Stops

\* After as many steps as there are ids everything linked is reached.
LEMMA LinkedConnected ==
  ASSUME NEW net, WellFormed(net), NEW from \in Id, NEW n
  PROVE  n \in Connected(net, from) <=> Linked(net, from, n) /\ n \in net.known
<1> DEFINE c == Cardinality(Id)
           inner == Ball(net, from, "both")[c]
<1>1. c \in Nat
  BY QueryAssumption, FS_CardinalityType
<1>2. Connected(net, from) = inner \cap net.known
  BY DEF Connected, Within
<1> HIDE DEF c
<1>3. inner \in SUBSET Id /\ from \in inner
  BY <1>1, BallStarts DEF WellFormed
<1>4. Cardinality(inner) \in Nat /\ Cardinality(inner) <= c
  <2>1. IsFiniteSet(inner) /\ Cardinality(inner) <= Cardinality(Id)
    BY <1>3, QueryAssumption, FS_Subset
  <2>2. Cardinality(inner) \in Nat
    BY <2>1, FS_CardinalityType
  <2> QED
    BY <2>1, <2>2 DEF c
<1>5. Beyond(net, "both", inner) = inner
  <2>1. c + 1 <= Cardinality(inner) \/ Beyond(net, "both", inner) = inner
    BY <1>1, BallCounts
  <2> QED
    BY <1>1, <1>4, <2>1
<1>6. inner = Ball(net, from, "both")[c]
  OBVIOUS
<1> HIDE DEF inner
<1>7. \A m \in inner : \A i \in net.known : Follows(net, m, i, "both") => i \in inner
  BY <1>5 DEF Beyond
<1>8. Linked(net, from, n) => n \in inner
  BY <1>3, <1>7, LinkedInside
<1>9. n \in inner => Linked(net, from, n)
  BY <1>1, <1>6 DEF Linked
<1> QED
  BY <1>2, <1>8, <1>9

------------------------------------------------------------------------------
(* Questions: connected_components *)
Closed(S) == \A e \in rows : e[1] \in S <=> e[2] \in S

\* The parts found so far: all but the last are complete.
Parts(a, V) ==
  /\ a \in Seq(SUBSET Id)
  /\ \A i \in 1 .. Len(a) : a[i] # {}
  /\ \A i, j \in 1 .. Len(a) : \A n \in a[i] : n \in a[j] => i = j
  /\ \A n \in V : n \in known /\ \E i \in 1 .. Len(a) : n \in a[i]
  /\ \A i \in 1 .. Len(a) : \A n \in a[i] : n \in V
  /\ \A i \in 1 .. Len(a) : i < Len(a) => Closed(a[i])
  /\ \A i \in 1 .. Len(a) : \A m, n \in a[i] : Linked(Now, m, n)

\* The nodes there were that are in no part yet are still to be taken.
Waiting(q, V) ==
  /\ q \in Seq(Id \X Nat)
  /\ \A i \in 1 .. Len(q) : q[i][1] \in known
  /\ \A n \in first.known : n \in V \/ \E i \in 1 .. Len(q) : q[i][1] = n

PartInv ==
  query.kind = "components" =>
    /\ progress \in {"start", "nodes", "component", "done"}
    /\ progress \in {"start", "nodes"} => visited = {} /\ answer = <<>>
    /\ progress \in {"nodes", "component"} =>
         /\ \A e \in first.arcs : e \in rows
         /\ \A e \in rows : e \in arcs
    /\ progress = "component" => Parts(answer, visited) /\ Waiting(queue, visited)
    /\ progress = "done" => ComponentsExact

LEMMA TouchingExact ==
  ASSUME NEW S
  PROVE  \A n : n \in Touching(S) <=> \E e \in rows : (e[1] \in S /\ n = e[2]) \/ (e[2] \in S /\ n = e[1])
BY DEF Touching

\* A part that touches nothing new is complete: what it touches is in no other.
LEMMA PartCloses ==
  ASSUME NEW a, NEW V, Parts(a, V), Len(a) > 0, \A n \in Touching(a[Len(a)]) : n \in V
  PROVE  \A i \in 1 .. Len(a) : Closed(a[i])
<1>1. Len(a) \in Nat /\ Len(a) \in 1 .. Len(a)
  BY DEF Parts
<1>2. ASSUME NEW m \in a[Len(a)], NEW n \in Touching(a[Len(a)]),
             \E e \in rows : (e[1] = m /\ e[2] = n) \/ (e[1] = n /\ e[2] = m)
      PROVE  n \in a[Len(a)]
  <2>1. PICK i \in 1 .. Len(a) : n \in a[i]
    BY DEF Parts
  <2>2. CASE i = Len(a)
    BY <2>1, <2>2
  <2>3. CASE i # Len(a)
    <3>1. i < Len(a)
      BY <1>1, <2>3
    <3>2. Closed(a[i])
      BY <3>1 DEF Parts
    <3>3. m \in a[i]
      BY <1>2, <2>1, <3>2 DEF Closed
    <3> QED
      BY <1>1, <2>3, <3>3 DEF Parts
  <2> QED
    BY <2>2, <2>3
<1>3. Closed(a[Len(a)])
  <2>1. SUFFICES ASSUME NEW e \in rows
                 PROVE  e[1] \in a[Len(a)] <=> e[2] \in a[Len(a)]
    BY DEF Closed
  <2>2. /\ e[1] \in a[Len(a)] => e[2] \in Touching(a[Len(a)])
        /\ e[2] \in a[Len(a)] => e[1] \in Touching(a[Len(a)])
    BY TouchingExact
  <2> QED
    BY <1>2, <2>2
<1> QED
  BY <1>1, <1>3 DEF Parts

\* Replacing the last element.
LEMMA LastReplaced ==
  ASSUME NEW T, NEW a \in Seq(T), Len(a) > 0, NEW x \in T
  PROVE  /\ Append(Front(a), x) \in Seq(T) /\ Len(Append(Front(a), x)) = Len(a)
         /\ \A i \in 1 .. Len(a) : Append(Front(a), x)[i] = IF i = Len(a) THEN x ELSE a[i]
<1> DEFINE f == Front(a)
<1>1. Len(a) \in Nat /\ Len(a) - 1 \in Nat /\ Len(a) - 1 <= Len(a)
  OBVIOUS
<1>2. Len(f) = Len(a) - 1 /\ \A i \in 1 .. Len(a) - 1 : f[i] = a[i] /\ i \in 1 .. Len(a)
  BY <1>1, FirstOnes DEF Front
<1>3. f \in Seq(T)
  BY <1>1 DEF Front
<1> HIDE DEF f
<1>4. Append(f, x) \in Seq(T) /\ Len(Append(f, x)) = Len(a)
  BY <1>1, <1>2, <1>3
<1>5. ASSUME NEW i \in 1 .. Len(a)
      PROVE  Append(f, x)[i] = IF i = Len(a) THEN x ELSE a[i]
  <2>1. CASE i = Len(a)
    BY <1>1, <1>2, <1>3, <2>1
  <2>2. CASE i # Len(a)
    <3>1. i \in 1 .. Len(f)
      BY <1>1, <1>2, <2>2
    <3>2. Append(f, x)[i] = f[i]
      BY <1>3, <3>1
    <3> QED
      BY <1>2, <2>2, <3>1, <3>2
  <2> QED
    BY <2>1, <2>2
<1> QED
  BY <1>4, <1>5 DEF f

\* The last part grows by what it touches.
LEMMA PartGrows ==
  ASSUME GraphOK, \A e \in rows : e \in arcs, Parts(answer, visited), Len(answer) > 0,
         NEW new, new = Touching(answer[Len(answer)]) \ visited
  PROVE  Parts(Append(Front(answer), answer[Len(answer)] \cup new), visited \cup new)
<1> DEFINE l == Len(answer)
           members == answer[l]
           x == members \cup new
           b == Append(Front(answer), x)
           net == Now
<1>1. /\ answer \in Seq(SUBSET Id) /\ l \in Nat /\ l \in 1 .. l
      /\ \A i \in 1 .. l : answer[i] # {}
      /\ \A i, j \in 1 .. l : \A n \in answer[i] : n \in answer[j] => i = j
      /\ \A n \in visited : n \in known /\ \E i \in 1 .. l : n \in answer[i]
      /\ \A i \in 1 .. l : \A n \in answer[i] : n \in visited
      /\ \A i \in 1 .. l : i < l => Closed(answer[i])
      /\ \A i \in 1 .. l : \A m, n \in answer[i] : Linked(net, m, n)
  BY DEF Parts
<1>2. WellFormed(net) /\ net.known = known /\ net.arcs = arcs
  BY DEF GraphOK, WellFormed, Now
<1>3. ASSUME NEW n \in new
      PROVE  /\ n \in known /\ n \in Id /\ n \notin visited
             /\ \E m \in members : Linked(net, m, n)
  <2>1. PICK e \in rows : (e[1] \in members /\ n = e[2]) \/ (e[2] \in members /\ n = e[1])
    BY TouchingExact
  <2>2. e \in net.arcs /\ e = <<e[1], e[2]>> /\ e[1] \in net.known /\ e[2] \in net.known
    BY <1>2 DEF GraphOK
  <2>3. \E m \in members : Follows(net, m, n, "both")
    <3>1. <<e[1], e[2]>> \in net.arcs
      BY <2>2
    <3>2. CASE e[1] \in members /\ n = e[2]
      BY <3>1, <3>2 DEF Follows
    <3>3. CASE e[2] \in members /\ n = e[1]
      BY <3>1, <3>3 DEF Follows
    <3> QED
      BY <2>1, <3>2, <3>3
  <2>4. n \in net.known
    BY <2>1, <2>2
  <2> QED
    BY <1>2, <2>3, <2>4, LinkedSteps DEF WellFormed
<1>4. x \in SUBSET Id
  BY <1>1, <1>3
<1> HIDE DEF x
<1>5. /\ b \in Seq(SUBSET Id) /\ Len(b) = l
      /\ \A i \in 1 .. l : b[i] = IF i = l THEN x ELSE answer[i]
  BY <1>1, <1>4, LastReplaced
<1> HIDE DEF b
<1>6. \A n : n \in x <=> n \in members \/ n \in new
  BY DEF x
<1>7. \A i \in 1 .. l : b[i] # {}
  BY <1>1, <1>5, <1>6
<1>8. ASSUME NEW i \in 1 .. l, NEW j \in 1 .. l, NEW n \in b[i], n \in b[j]
      PROVE  i = j
  <2>1. CASE n \in new
    BY <1>1, <1>3, <1>5, <1>8, <2>1
  <2>2. CASE n \notin new
    <3>1. n \in answer[i] /\ n \in answer[j]
      BY <1>5, <1>6, <1>8, <2>2
    <3> QED
      BY <1>1, <3>1
  <2> QED
    BY <2>1, <2>2
<1>9. \A n \in visited \cup new : n \in known /\ \E i \in 1 .. l : n \in b[i]
  BY <1>1, <1>3, <1>5, <1>6
<1>10. \A i \in 1 .. l : \A n \in b[i] : n \in visited \cup new
  BY <1>1, <1>5, <1>6
<1>11. \A i \in 1 .. l : i < l => Closed(b[i])
  BY <1>1, <1>5
<1>12. ASSUME NEW m \in x, NEW n \in x
       PROVE  Linked(net, m, n)
  <2>1. PICK r : r \in members
    BY <1>1
  <2>2. ASSUME NEW o \in x
        PROVE  Linked(net, r, o)
    <3>1. CASE o \in members
      BY <1>1, <2>1, <3>1
    <3>2. CASE o \in new
      <4>1. PICK p \in members : Linked(net, p, o)
        BY <1>3, <3>2
      <4>2. Linked(net, r, p)
        BY <1>1, <2>1, <4>1
      <4> QED
        BY <4>1, <4>2, LinkedThrough
    <3> QED
      BY <1>6, <3>1, <3>2
  <2>3. Linked(net, m, r) /\ Linked(net, r, n)
    BY <1>2, <2>2, LinkedBack
  <2> QED
    BY <2>3, LinkedThrough
<1>13. \A i \in 1 .. l : \A m, n \in b[i] : Linked(net, m, n)
  BY <1>1, <1>5, <1>12
<1>14. Parts(b, visited \cup new)
  BY <1>5, <1>7, <1>8, <1>9, <1>10, <1>11, <1>13 DEF Parts
<1> QED
  BY <1>14 DEF b, x

\* Another part begins.
LEMMA PartBegins ==
  ASSUME GraphOK, Parts(answer, visited), \A i \in 1 .. Len(answer) : Closed(answer[i]),
         NEW start \in known, start \notin visited
  PROVE  Parts(Append(answer, {start}), visited \cup {start})
<1> DEFINE l == Len(answer)
           b == Append(answer, {start})
           net == Now
<1>1. /\ answer \in Seq(SUBSET Id) /\ l \in Nat
      /\ \A i \in 1 .. l : answer[i] # {}
      /\ \A i, j \in 1 .. l : \A n \in answer[i] : n \in answer[j] => i = j
      /\ \A n \in visited : n \in known /\ \E i \in 1 .. l : n \in answer[i]
      /\ \A i \in 1 .. l : \A n \in answer[i] : n \in visited
      /\ \A i \in 1 .. l : \A m, n \in answer[i] : Linked(net, m, n)
  BY DEF Parts
<1>2. {start} \in SUBSET Id /\ Linked(net, start, start)
  BY LinkedSteps DEF GraphOK
<1>3. /\ b \in Seq(SUBSET Id) /\ Len(b) = l + 1
      /\ b[l + 1] = {start} /\ \A i \in 1 .. l : b[i] = answer[i]
  BY <1>1, <1>2
<1>4. /\ \A i \in 1 .. l + 1 : i = l + 1 \/ (i \in 1 .. l /\ i < l + 1)
      /\ \A i \in 1 .. l : i \in 1 .. l + 1 /\ i < l + 1
      /\ l + 1 \in 1 .. l + 1
  BY <1>1
<1> HIDE DEF b, net, l
<1>5. \A i \in 1 .. l + 1 : b[i] # {}
  BY <1>1, <1>3, <1>4
<1>6. \A i, j \in 1 .. l + 1 : \A n \in b[i] : n \in b[j] => i = j
  BY <1>1, <1>3, <1>4
<1>7. \A n \in visited \cup {start} : n \in known /\ \E i \in 1 .. l + 1 : n \in b[i]
  BY <1>1, <1>3, <1>4
<1>8. \A i \in 1 .. l + 1 : \A n \in b[i] : n \in visited \cup {start}
  BY <1>1, <1>3, <1>4
<1>9. \A i \in 1 .. l + 1 : i < l + 1 => Closed(b[i])
  BY <1>1, <1>3, <1>4 DEF l
<1>10. \A i \in 1 .. l + 1 : \A m, n \in b[i] : Linked(net, m, n)
  BY <1>1, <1>2, <1>3, <1>4
<1>11. Parts(b, visited \cup {start})
  BY <1>3, <1>5, <1>6, <1>7, <1>8, <1>9, <1>10 DEF Parts, net
<1> QED
  BY <1>11 DEF b

\* The complete parts in order are the components.
LEMMA PartsAreComponents ==
  ASSUME GraphOK, query.kind = "components", NEW V, Parts(answer, V),
         \A i \in 1 .. Len(answer) : Closed(answer[i]),
         \A e \in first.arcs : e \in rows,
         \A n \in first.known : n \in V,
         UNCHANGED <<graphVars, query>>,
         NEW found, found = Range(answer),
         answer' = Arranged(found, {p \in found \X found : Min(p[1]) < Min(p[2])})
  PROVE  ComponentsExact'
<1> DEFINE before == {p \in found \X found : Min(p[1]) < Min(p[2])}
           net == Now
           l == Len(answer)
<1>1. /\ query' = query /\ known' = known /\ arcs' = arcs /\ first' = first
      /\ WellFormed(first) /\ WellFormed(net) /\ net.known = known
      /\ \A n \in first.known : n \in known
  BY DEF graphVars, GraphOK, WellFormed, Widened, Now
<1>2. /\ answer \in Seq(SUBSET Id) /\ l \in Nat
      /\ \A i \in 1 .. l : answer[i] # {}
      /\ \A i, j \in 1 .. l : \A n \in answer[i] : n \in answer[j] => i = j
      /\ \A n \in V : n \in known /\ \E i \in 1 .. l : n \in answer[i]
      /\ \A i \in 1 .. l : \A n \in answer[i] : n \in V
      /\ \A i \in 1 .. l : \A m, n \in answer[i] : Linked(net, m, n)
  <2>1. answer \in Seq(SUBSET Id)
    BY DEF Parts
  <2>2. l \in Nat
    BY <2>1
  <2> HIDE DEF before, l
  <2>3. /\ \A i \in 1 .. l : answer[i] # {}
        /\ \A i, j \in 1 .. l : \A n \in answer[i] : n \in answer[j] => i = j
        /\ \A n \in V : n \in known /\ \E i \in 1 .. l : n \in answer[i]
    BY DEF Parts, l
  <2>4. /\ \A i \in 1 .. l : \A n \in answer[i] : n \in V
        /\ \A i \in 1 .. l : \A m, n \in answer[i] : Linked(net, m, n)
    BY DEF Parts, l
  <2> QED
    BY <2>1, <2>2, <2>3, <2>4
<1>3. /\ \A i \in 1 .. l : answer[i] \in found
      /\ \A c \in found : \E i \in 1 .. l : c = answer[i]
  <2>1. DOMAIN answer = 1 .. l
    BY <1>2
  <2> QED
    BY <2>1 DEF Range
<1> HIDE DEF net, l
<1>4. /\ \A c \in found : c \in SUBSET Id /\ c # {}
      /\ \A c, d \in found : \A n \in c : n \in d => c = d
      /\ \A n \in V : n \in known /\ \E c \in found : n \in c
      /\ \A c \in found : \A n \in c : n \in V
      /\ \A c \in found : \A m, n \in c : Linked(net, m, n)
      /\ \A c \in found : Closed(c)
  <2>1. \A i \in 1 .. l : answer[i] \in SUBSET Id /\ Closed(answer[i])
    BY <1>2 DEF l
  <2>2. \A c \in found : c \in SUBSET Id /\ c # {} /\ Closed(c)
    BY <1>2, <1>3, <2>1
  <2>3. ASSUME NEW c \in found, NEW d \in found, NEW n \in c, n \in d
        PROVE  c = d
    <3>1. PICK i \in 1 .. l : c = answer[i]
      BY <1>3
    <3>2. PICK j \in 1 .. l : d = answer[j]
      BY <1>3
    <3> QED
      BY <1>2, <2>3, <3>1, <3>2
  <2>4. \A n \in V : n \in known /\ \E c \in found : n \in c
    BY <1>2, <1>3
  <2>5. \A c \in found : \A n \in c : n \in V
    BY <1>2, <1>3
  <2>6. \A c \in found : \A m, n \in c : Linked(net, m, n)
    BY <1>2, <1>3
  <2> QED
    BY <2>2, <2>3, <2>4, <2>5, <2>6
<1>5. \A c \in found : Min(c) \in c /\ Min(c) \in Nat
  <2>1. SUFFICES ASSUME NEW c \in found
                 PROVE  Min(c) \in c /\ Min(c) \in Nat
    OBVIOUS
  <2>2. c # {} /\ \A n \in c : n \in Nat
    BY <1>4, QueryAssumption
  <2> QED
    BY <2>2, MinOf
<1>6. \A c, d \in found : <<c, d>> \in before <=> Min(c) < Min(d)
  OBVIOUS
<1>7. IsFiniteSet(found)
  <2>1. IsFiniteSet(SUBSET Id)
    BY QueryAssumption, FS_SUBSET
  <2>2. found \in SUBSET (SUBSET Id)
    BY <1>4
  <2> QED
    BY <2>1, <2>2, FS_Subset
<1> HIDE DEF before
<1>8. StrictOrder(found, before)
  <2>1. \A c \in found : <<c, c>> \notin before
    BY <1>5, <1>6
  <2>2. \A c, d \in found : c # d => <<c, d>> \in before \/ <<d, c>> \in before
    <3> SUFFICES ASSUME NEW c \in found, NEW d \in found, c # d
                 PROVE  Min(c) < Min(d) \/ Min(d) < Min(c)
      BY <1>6
    <3>1. Min(c) # Min(d)
      BY <1>4, <1>5
    <3> QED
      BY <1>5, <3>1
  <2>3. \A i, j, k \in found : <<i, j>> \in before /\ <<j, k>> \in before => <<i, k>> \in before
    BY <1>5, <1>6
  <2> QED
    BY <2>1, <2>2, <2>3 DEF StrictOrder
<1>9. PICK a : a = answer'
  OBVIOUS
<1>10. a = Arranged(found, before)
  BY <1>9 DEF before
<1> DEFINE size == Cardinality(found)
<1>11. /\ size \in Nat /\ a \in [1 .. size -> found]
       /\ \A i, j \in 1 .. size : i < j => <<a[i], a[j]>> \in before
       /\ \A c \in found : \E i \in 1 .. size : a[i] = c
  BY <1>7, <1>8, <1>10, ArrangedInOrder
<1> HIDE DEF size
<1>12. /\ DOMAIN a = 1 .. size /\ \A i \in 1 .. size : a[i] \in found
       /\ \A c : c \in Range(a) <=> c \in found
  BY <1>11 DEF Range
<1>13. ASSUME NEW i \in DOMAIN a, NEW j \in DOMAIN a, i < j
       PROVE  a[i] \cap a[j] = {} /\ Min(a[i]) < Min(a[j])
  <2>1. Min(a[i]) < Min(a[j]) /\ a[i] \in found /\ a[j] \in found
    BY <1>6, <1>11, <1>12, <1>13
  <2>2. a[i] # a[j]
    BY <1>5, <2>1
  <2> QED
    BY <1>4, <2>1, <2>2
<1>14. /\ \A n \in first.known : n \in UNION Range(a)
       /\ \A n \in UNION Range(a) : n \in known
  BY <1>4, <1>12
<1>15. ASSUME NEW i \in DOMAIN a, NEW n \in a[i]
       PROVE  /\ \A m \in Connected(first, n) : m \in a[i]
              /\ \A m \in a[i] : m \in Connected(net, n)
  <2>1. a[i] \in found /\ n \in Id
    BY <1>4, <1>12
  <2>2. ASSUME NEW m \in Connected(first, n)
        PROVE  m \in a[i]
    <3>1. Linked(first, n, m)
      BY <1>1, <2>1, <2>2, LinkedConnected
    <3>2. \A o \in a[i] : \A p \in first.known : Follows(first, o, p, "both") => p \in a[i]
      <4>1. SUFFICES ASSUME NEW o \in a[i], NEW p, Follows(first, o, p, "both")
                     PROVE  p \in a[i]
        OBVIOUS
      <4>2. <<o, p>> \in rows \/ <<p, o>> \in rows
        BY <4>1 DEF Follows
      <4>3. Closed(a[i])
        BY <1>4, <2>1
      <4> QED
        BY <4>2, <4>3 DEF Closed
    <3> QED
      BY <3>1, <3>2, LinkedInside
  <2>3. ASSUME NEW m \in a[i]
        PROVE  m \in Connected(net, n)
    <3>1. Linked(net, n, m) /\ m \in net.known
      BY <1>1, <1>4, <2>1
    <3> QED
      BY <1>1, <2>1, <3>1, LinkedConnected
  <2> QED
    BY <2>2, <2>3
<1>16. \A n : Connected(Now, n)' = Connected(net, n) /\ Connected(first, n)' = Connected(first, n)
  BY <1>1 DEF Connected, Within, Ball, Follows, Now, net
<1> QED
  BY <1>1, <1>9, <1>13, <1>14, <1>15, <1>16 DEF ComponentsExact

LEMMA PartsStart ==
  ASSUME GraphOK, PartInv, ListEdges \/ ListNodes, UNCHANGED <<graphVars, query>>
  PROVE  PartInv'
<1>1. /\ query' = query /\ known' = known /\ arcs' = arcs /\ first' = first
      /\ query.kind = "components" /\ visited = {} /\ answer = <<>>
      /\ visited' = visited /\ answer' = answer
  BY DEF graphVars, ListEdges, ListNodes, Goes, PartInv
<1>2. CASE ListEdges
  <2>1. rows' = arcs /\ progress' = "nodes"
    BY <1>2 DEF ListEdges
  <2>2. \A e \in first.arcs : e \in arcs
    BY DEF GraphOK, Widened, Now
  <2> QED
    BY <1>1, <2>1, <2>2 DEF PartInv
<1>3. CASE ListNodes
  <2> DEFINE s == Ascending(known)
             q == [i \in DOMAIN s |-> <<s[i], 0>>]
  <2>1. queue' = q /\ progress' = "component" /\ rows' = rows /\ progress = "nodes"
    BY <1>3 DEF ListNodes, Goes
  <2>2. Enumerates(s, known)
    <3>1. known \in SUBSET Id /\ \A n \in known : n \in Nat
      BY QueryAssumption DEF GraphOK
    <3>2. IsFiniteSet(known)
      BY <3>1, QueryAssumption, FS_Subset
    <3> QED
      BY <3>1, <3>2, AscendingEnumerates
  <2> HIDE DEF s
  <2>3. /\ s \in Seq(known) /\ Len(s) \in Nat /\ DOMAIN s = 1 .. Len(s)
        /\ \A n \in known : \E i \in 1 .. Len(s) : s[i] = n
        /\ \A i \in 1 .. Len(s) : s[i] \in known /\ s[i] \in Id
    BY <2>2 DEF Enumerates, GraphOK
  <2>4. /\ q \in Seq(Id \X Nat) /\ Len(q) = Len(s)
        /\ \A i \in 1 .. Len(s) : q[i] = <<s[i], 0>>
    BY <2>3
  <2> HIDE DEF q
  <2>5. \A i \in 1 .. Len(s) : q[i][1] = s[i]
    BY <2>4
  <2>6. \A n \in first.known : n \in known
    BY DEF GraphOK, Widened, Now
  <2>7. Waiting(q, {})
    BY <2>3, <2>4, <2>5, <2>6 DEF Waiting
  <2>8. Parts(<<>>, {})
    BY DEF Parts
  <2>9. Waiting(queue, visited)'
    BY <1>1, <2>1, <2>7 DEF Waiting
  <2>10. Parts(answer, visited)'
    BY <1>1 DEF Parts
  <2> QED
    BY <1>1, <2>1, <2>9, <2>10 DEF PartInv
<1> QED
  BY <1>2, <1>3

\* What was found stays true while the graph grows.
LEMMA PartsWait ==
  ASSUME NEW a, NEW V, Parts(a, V), rows' = rows,
         \A n \in known : n \in known', \A e \in arcs : e \in arcs'
  PROVE  Parts(a, V)'
<1>1. PICK old : old = Now
  OBVIOUS
<1>2. PICK new : new = Now'
  OBVIOUS
<1>3. Widened(old, new)
  BY <1>1, <1>2 DEF Widened, Now
<1>4. ASSUME NEW m, NEW n, Linked(Now, m, n)
      PROVE  Linked(Now, m, n)'
  <2>1. Linked(old, m, n)
    BY <1>1, <1>4
  <2>2. Linked(new, m, n)
    BY <1>3, <2>1, LinkedWider
  <2>3. Linked(Now, m, n)' <=> Linked(new, m, n)
    BY <1>2 DEF Linked, Ball, Follows
  <2> QED
    BY <2>2, <2>3
<1>5. \A S : Closed(S)' <=> Closed(S)
  BY DEF Closed
<1> QED
  BY <1>4, <1>5 DEF Parts

LEMMA PartsFlood ==
  ASSUME GraphOK, PartInv, Flood, UNCHANGED <<graphVars, query>>
  PROVE  PartInv'
<1> DEFINE members == IF answer = <<>> THEN {} ELSE Last(answer)
           new == Touching(members) \ visited
           found == Range(answer)
           l == Len(answer)
<1>1. /\ query' = query /\ known' = known /\ arcs' = arcs /\ first' = first /\ rows' = rows
      /\ query.kind = "components" /\ progress = "component"
      /\ \A e \in first.arcs : e \in rows
      /\ \A e \in rows : e \in arcs
      /\ Parts(answer, visited) /\ Waiting(queue, visited)
  BY DEF graphVars, Flood, Goes, PartInv
<1>2. answer \in Seq(SUBSET Id) /\ l \in Nat /\ (answer = <<>> <=> l = 0)
  BY <1>1 DEF Parts
<1>3. l > 0 => members = answer[l]
  BY <1>2 DEF Last
<1>4. l = 0 => new = {}
  BY <1>2 DEF Touching
<1>5. \/ /\ new # {} /\ answer' = Append(Front(answer), members \cup new)
         /\ visited' = visited \cup new /\ progress' = progress /\ queue' = queue
      \/ /\ new = {} /\ queue # <<>> /\ queue' = Tail(queue) /\ progress' = progress
         /\ \/ Head(queue)[1] \in visited /\ answer' = answer /\ visited' = visited
            \/ /\ Head(queue)[1] \notin visited
               /\ answer' = Append(answer, {Head(queue)[1]})
               /\ visited' = visited \cup {Head(queue)[1]}
      \/ /\ new = {} /\ queue = <<>>
         /\ answer' = Arranged(found, {p \in found \X found : Min(p[1]) < Min(p[2])})
         /\ progress' = "done" /\ visited' = visited /\ queue' = queue
  BY DEF Flood
<1>6. /\ queue \in Seq(Id \X Nat) /\ Len(queue) \in Nat
      /\ \A i \in 1 .. Len(queue) : queue[i][1] \in known
      /\ \A n \in first.known : n \in visited \/ \E i \in 1 .. Len(queue) : queue[i][1] = n
  BY <1>1 DEF Waiting
<1>7. CASE new # {}
  <2>1. l > 0 /\ members = answer[l]
    BY <1>2, <1>3, <1>4, <1>7
  <2>2. PICK n : n = new
    OBVIOUS
  <2> HIDE DEF new, members
  <2>3. n = Touching(answer[Len(answer)]) \ visited
    BY <2>1, <2>2 DEF new
  <2>4. Parts(Append(Front(answer), answer[l] \cup n), visited \cup n)
    BY <1>1, <2>1, <2>3, PartGrows
  <2>5. /\ answer' = Append(Front(answer), answer[l] \cup n)
        /\ visited' = visited \cup n /\ progress' = "component" /\ queue' = queue
    BY <1>1, <1>5, <1>7, <2>1, <2>2
  <2>6. PICK a : a = answer'
    OBVIOUS
  <2>7. PICK V : V = visited'
    OBVIOUS
  <2>8. Parts(a, V)
    BY <2>4, <2>5, <2>6, <2>7
  <2>9. Parts(a, V)'
    BY <1>1, <2>8, PartsWait
  <2>10. Parts(answer, visited)'
    BY <2>6, <2>7, <2>9 DEF Parts
  <2>11. Waiting(queue, visited)'
    BY <1>1, <1>6, <2>5 DEF Waiting
  <2> QED
    BY <1>1, <2>5, <2>10, <2>11 DEF PartInv
<1>8. CASE new = {}
  <2>1. \A i \in 1 .. l : Closed(answer[i])
    <3>1. CASE l = 0
      BY <3>1
    <3>2. CASE l > 0
      <4>1. \A n \in Touching(answer[Len(answer)]) : n \in visited
        BY <1>3, <1>8, <3>2
      <4> QED
        BY <1>1, <3>2, <4>1, PartCloses
    <3> QED
      BY <1>2, <3>1, <3>2
  <2> HIDE DEF new, members
  <2>2. CASE queue = <<>>
    <3>1. /\ answer' = Arranged(found, {p \in found \X found : Min(p[1]) < Min(p[2])})
          /\ progress' = "done"
      BY <1>5, <1>8, <2>2
    <3>2. \A n \in first.known : n \in visited
      BY <1>6, <2>2
    <3>3. PICK f : f = found
      OBVIOUS
    <3>4. answer' = Arranged(f, {p \in f \X f : Min(p[1]) < Min(p[2])})
      BY <3>1, <3>3
    <3>5. ComponentsExact'
      BY <1>1, <2>1, <3>2, <3>3, <3>4, PartsAreComponents
    <3> QED
      BY <1>1, <3>1, <3>5 DEF PartInv
  <2>3. CASE queue # <<>>
    <3>1. Len(queue) > 0
      BY <1>6, <2>3
    <3>2. /\ Head(queue) = queue[1]
          /\ Tail(queue) \in Seq(Id \X Nat) /\ Len(Tail(queue)) = Len(queue) - 1
          /\ \A i \in 1 .. Len(queue) - 1 : Tail(queue)[i] = queue[i + 1]
      BY <1>6, <3>1, TailEntries
    <3> DEFINE start == queue[1][1]
               t == Tail(queue)
    <3>3. /\ queue' = t /\ progress' = "component"
          /\ \/ start \in visited /\ answer' = answer /\ visited' = visited
             \/ /\ start \notin visited
                /\ answer' = Append(answer, {start}) /\ visited' = visited \cup {start}
      BY <1>1, <1>5, <1>8, <2>3, <3>2
    <3>4. start \in known
      BY <1>6, <3>1
    <3> HIDE DEF t
    <3>5. PICK V : V = visited'
      OBVIOUS
    <3>6. PICK a : a = answer'
      OBVIOUS
    <3>7. \A n : n \in V <=> n \in visited \/ n = start
      BY <3>3, <3>5
    <3>8. Waiting(t, V)
      <4>1. \A i \in 1 .. Len(t) : i + 1 \in 1 .. Len(queue) /\ t[i] = queue[i + 1]
        BY <1>6, <3>1, <3>2 DEF t
      <4>2. \A i \in 1 .. Len(queue) : i = 1 \/ (i - 1 \in 1 .. Len(t) /\ t[i - 1] = queue[i])
        <5>1. SUFFICES ASSUME NEW i \in 1 .. Len(queue), i # 1
                       PROVE  i - 1 \in 1 .. Len(t) /\ t[i - 1] = queue[i]
          OBVIOUS
        <5>2. i - 1 \in 1 .. Len(t) /\ (i - 1) + 1 = i
          BY <1>6, <3>2, <5>1 DEF t
        <5> QED
          BY <4>1, <5>2
      <4>3. t \in Seq(Id \X Nat)
        BY <3>2 DEF t
      <4>4. \A i \in 1 .. Len(t) : t[i][1] \in known
        BY <1>6, <4>1
      <4>5. ASSUME NEW n \in first.known, n \notin V
            PROVE  \E i \in 1 .. Len(t) : t[i][1] = n
        <5>1. n \notin visited /\ n # start
          BY <3>7, <4>5
        <5>2. PICK i \in 1 .. Len(queue) : queue[i][1] = n
          BY <1>6, <5>1
        <5>3. i # 1
          BY <5>1, <5>2
        <5> QED
          BY <4>2, <5>2, <5>3
      <4> QED
        BY <4>3, <4>4, <4>5 DEF Waiting
    <3>9. Parts(a, V)
      <4>1. CASE start \in visited
        BY <1>1, <3>3, <3>5, <3>6, <4>1
      <4>2. CASE start \notin visited
        <5>1. PICK s : s = start
          OBVIOUS
        <5>2. Parts(Append(answer, {s}), visited \cup {s})
          BY <1>1, <2>1, <3>4, <4>2, <5>1, PartBegins
        <5> QED
          BY <3>3, <3>5, <3>6, <4>2, <5>1, <5>2
      <4> QED
        BY <4>1, <4>2
    <3>10. Parts(a, V)'
      BY <1>1, <3>9, PartsWait
    <3>11. Parts(answer, visited)'
      BY <3>5, <3>6, <3>10 DEF Parts
    <3>12. Waiting(queue, visited)'
      BY <1>1, <3>3, <3>5, <3>8 DEF Waiting
    <3> QED
      BY <1>1, <3>3, <3>11, <3>12 DEF PartInv
  <2> QED
    BY <2>2, <2>3
<1> QED
  BY <1>7, <1>8

LEMMA PartsStay ==
  ASSUME GraphOK, PartInv, NodesArrive \/ ArcsArrive
  PROVE  PartInv'
<1> SUFFICES ASSUME query.kind = "components"
             PROVE  PartInv'
  BY GraphGrows DEF PartInv
<1>1. /\ \A e \in arcs : e \in arcs'
      /\ \A n \in known : n \in known'
      /\ UNCHANGED <<first, query>> /\ progress # "done"
      /\ UNCHANGED <<progress, rows, visited, queue, answer>>
  BY GraphGrows DEF searchVars, Asking
<1>2. PICK a : a = answer
  OBVIOUS
<1>3. PICK V : V = visited
  OBVIOUS
<1>4. progress = "component" => Parts(a, V)'
  BY <1>1, <1>2, <1>3, PartsWait DEF PartInv
<1>5. progress = "component" => Parts(answer, visited)'
  BY <1>1, <1>2, <1>3, <1>4 DEF Parts
<1>6. progress = "component" => Waiting(queue, visited)'
  BY <1>1 DEF PartInv, Waiting
<1> QED
  BY <1>1, <1>5, <1>6 DEF PartInv

LEMMA PartInvStep ==
  ASSUME GraphOK, PartInv, [QueryNext]_queryVars
  PROVE  PartInv'
<1>1. CASE UNCHANGED queryVars
  <2>1. UNCHANGED <<progress, rows, visited, queue, query, first, known, arcs, answer>>
    BY <1>1 DEF queryVars, graphVars, searchVars
  <2>2. ComponentsExact' = ComponentsExact
    BY <2>1 DEF ComponentsExact, Connected, Within, Ball, Follows, Now
  <2>3. PICK a : a = answer
    OBVIOUS
  <2>4. PICK V : V = visited
    OBVIOUS
  <2>5. query.kind = "components" /\ progress = "component" => Parts(a, V)
    BY <2>3, <2>4 DEF PartInv
  <2>a. Parts(a, V) => Parts(a, V)'
    <3>1. /\ rows' = rows /\ \A n \in known : n \in known'
          /\ \A e \in arcs : e \in arcs'
      BY <2>1
    <3> QED
      BY <3>1, PartsWait
  <2>6. query.kind = "components" /\ progress = "component" => Parts(answer, visited)'
    BY <2>1, <2>3, <2>4, <2>5, <2>a DEF Parts
  <2>7. Waiting(queue, visited)' <=> Waiting(queue, visited)
    BY <2>1 DEF Waiting
  <2> QED
    BY <2>1, <2>2, <2>6, <2>7 DEF PartInv
<1>2. CASE NodesArrive \/ ArcsArrive
  BY <1>2, PartsStay
<1>3. CASE /\ ReadOn \/ StartNeighbors \/ Explore \/ FindNode \/ FilterNodes
                \/ CheckSource \/ CheckTarget \/ TakeNext \/ Expand
                \/ ListEdges \/ ListNodes \/ Flood \/ StartLineage \/ Gather \/ Order
           /\ UNCHANGED <<graphVars, query>>
  <2>1. CASE ReadOn
    <3>1. progress \in {"round", "expand", "older"}
      BY <2>1 DEF ReadOn
    <3>2. query.kind # "components"
      BY <3>1 DEF PartInv
    <3> QED
      BY <1>3, <3>2 DEF PartInv
  <2>2. CASE ListEdges \/ ListNodes
    BY <1>3, <2>2, PartsStart
  <2>3. CASE Flood
    BY <1>3, <2>3, PartsFlood
  <2>4. CASE \/ StartNeighbors \/ Explore \/ FindNode \/ FilterNodes
             \/ CheckSource \/ CheckTarget \/ TakeNext \/ Expand
             \/ StartLineage \/ Gather \/ Order
    <3>1. query.kind # "components"
      BY <2>4 DEF StartNeighbors, Explore, FindNode, FilterNodes, CheckSource, CheckTarget, TakeNext, Expand,
                  StartLineage, Gather, Order, LastRead, Goes
    <3> QED
      BY <1>3, <3>1 DEF PartInv
  <2> QED
    BY <1>3, <2>1, <2>2, <2>3, <2>4
<1> QED
  BY <1>1, <1>2, <1>3 DEF QueryNext

\* ComponentsExact: connected_components parts the nodes into what is connected,
\* each once, in order, whatever a rebuild adds between its two reads.
THEOREM ComponentsAreExact == QuerySpec => []ComponentsExact
<1> DEFINE Inv == GraphOK /\ PartInv
<1>1. QueryInit => Inv
  <2>1. QueryInit => PartInv
    BY DEF QueryInit, PartInv
  <2> QED
    BY <2>1, GraphInit
<1>2. Inv /\ [QueryNext]_queryVars => Inv'
  BY GraphStep, PartInvStep
<1>3. Inv => ComponentsExact
  BY DEF PartInv, ComponentsExact
<1> QED
  BY <1>1, <1>2, <1>3, PTL DEF QuerySpec

\* SearchesExact: the two searches that answer with sets of nodes (engine.py) answer
\* with what is near and with what is connected.
THEOREM SearchesAreExact == QuerySpec => []SearchesExact
<1>1. NeighborhoodExact /\ ComponentsExact => SearchesExact
  BY DEF SearchesExact
<1> QED
  BY <1>1, NeighborhoodsAreExact, ComponentsAreExact, PTL

------------------------------------------------------------------------------
(* Questions: relationship_lineage *)
NextOlder(es, s) == OlderThan(s[1], es) \ Range(s)

ChainSteps(p, start, es) ==
  /\ p[0] = <<start>> /\ LineageChain(start, es) = p[Cardinality(Id)]
  /\ \A k \in Nat : p[k + 1] = IF NextOlder(es, p[k]) = {} THEN p[k]
                               ELSE <<Min(NextOlder(es, p[k]))>> \o p[k]

LEMMA LineageSteps ==
  ASSUME NEW T \in SUBSET Id, NEW es, \A e \in es : e[2] \in T, NEW start \in T
  PROVE  \E p \in [Nat -> Seq(T) \ {<<>>}] : ChainSteps(p, start, es)
<1> DEFINE S == Seq(T) \ {<<>>}
           base == <<start>>
           Put(s) == IF NextOlder(es, s) = {} THEN s ELSE <<Min(NextOlder(es, s))>> \o s
           F == [s \in S |-> Put(s)]
           Def(p) == [k \in Nat |->
                        IF k = 0 THEN <<start>>
                        ELSE LET newer == p[k - 1]
                                 next == OlderThan(newer[1], es) \ Range(newer)
                             IN  IF next = {} THEN newer ELSE <<Min(next)>> \o newer]
<1>1. F \in [S -> S]
  <2>1. ASSUME NEW s \in S
        PROVE  Put(s) \in S
    <3>1. CASE NextOlder(es, s) # {}
      <4>1. \A n \in NextOlder(es, s) : n \in T /\ n \in Nat
        BY QueryAssumption DEF NextOlder, OlderThan
      <4>2. Min(NextOlder(es, s)) \in T
        BY <3>1, <4>1, MinOf
      <4> QED
        BY <3>1, <4>2
    <3> QED
      BY <3>1
  <2> QED
    BY <2>1
<1>2. base \in S
  OBVIOUS
<1>3. \A p, k : Def(p) = [l \in Nat |-> IF l = 0 THEN base ELSE Put(p[l - 1])]
  BY DEF NextOlder
<1> HIDE DEF S, F, base, Def, Put
<1>4. PICK b \in [Nat -> S] : Iterates(b, F, base)
  BY <1>1, <1>2, IterationExists
<1>5. b = Def(b)
  <2>1. ASSUME NEW k \in Nat
        PROVE  b[k] = IF k = 0 THEN base ELSE Put(b[k - 1])
    <3>1. CASE k = 0
      BY <3>1, <1>4 DEF Iterates
    <3>2. CASE k # 0
      <4>1. k - 1 \in Nat /\ (k - 1) + 1 = k
        BY <3>2
      <4>2. b[k] = F[b[k - 1]] /\ b[k - 1] \in S
        BY <4>1, <1>4 DEF Iterates
      <4> QED
        BY <4>2, <3>2 DEF F
    <3> QED
      BY <3>1, <3>2
  <2>2. b = [k \in Nat |-> b[k]]
    BY <1>4
  <2>3. b = [k \in Nat |-> IF k = 0 THEN base ELSE Put(b[k - 1])]
    BY <2>1, <2>2
  <2> QED
    BY <1>3, <2>3
<1> DEFINE chain == CHOOSE c : c = Def(c)
<1>6. LineageChain(start, es) = chain[Cardinality(Id)]
  BY DEF LineageChain, Def
<1>7. chain = Def(chain)
  BY <1>5
<1> HIDE DEF chain
<1>8. chain = [k \in Nat |-> IF k = 0 THEN base ELSE Put(chain[k - 1])]
  BY <1>3, <1>7
<1>9. chain[0] = base
  BY <1>8
<1>10. ASSUME NEW k \in Nat
       PROVE  chain[k + 1] = Put(chain[k])
  <2>1. k + 1 \in Nat /\ k + 1 # 0 /\ (k + 1) - 1 = k
    OBVIOUS
  <2> QED
    BY <2>1, <1>8
<1> DEFINE bad == {k \in Nat : chain[k] \notin S}
<1>11. ASSUME bad # {}
       PROVE  FALSE
  <2>1. PICK k \in bad : \A l \in bad : k <= l
    BY <1>11, LeastNatural
  <2>2. k # 0
    BY <2>1, <1>2, <1>9
  <2>3. k - 1 \in Nat /\ (k - 1) + 1 = k /\ ~(k <= k - 1)
    BY <2>1, <2>2
  <2>4. chain[k - 1] \in S
    BY <2>1, <2>3
  <2>5. chain[k] = F[chain[k - 1]]
    BY <1>10, <2>3, <2>4 DEF F
  <2> QED
    BY <2>1, <2>4, <2>5, <1>1
<1>12. chain \in [Nat -> S]
  <2>1. chain = [k \in Nat |-> chain[k]]
    BY <1>8
  <2> QED
    BY <1>11, <2>1
<1> QED
  BY <1>6, <1>9, <1>10, <1>12 DEF base, S, Put, ChainSteps

\* A chain as far as it has got: oldest first, no node twice.
ChainTo(s, start, es, T) ==
  /\ s \in Seq(T) /\ Len(s) > 0 /\ s[Len(s)] = start
  /\ \A i \in 1 .. Len(s) - 1 : <<s[i + 1], s[i]>> \in es
  /\ \A i, j \in 1 .. Len(s) : s[i] = s[j] => i = j

LEMMA ChainLonger ==
  ASSUME NEW T, NEW es, \A e \in es : e = <<e[1], e[2]>>, NEW start,
         NEW s, ChainTo(s, start, es, T), NEW x \in NextOlder(es, s), x \in T
  PROVE  /\ ChainTo(<<x>> \o s, start, es, T)
         /\ Range(<<x>> \o s) = Range(s) \cup {x} /\ x \notin Range(s)
<1> DEFINE t == <<x>> \o s
<1>1. /\ s \in Seq(T) /\ Len(s) \in Nat /\ Len(s) > 0 /\ s[Len(s)] = start
      /\ \A i \in 1 .. Len(s) - 1 : <<s[i + 1], s[i]>> \in es
      /\ \A i, j \in 1 .. Len(s) : s[i] = s[j] => i = j
  BY DEF ChainTo
<1>2. x \notin Range(s) /\ <<s[1], x>> \in es
  BY DEF NextOlder, OlderThan
<1>3. /\ t \in Seq(T) /\ Len(t) = Len(s) + 1 /\ t[1] = x
      /\ \A i \in 1 .. Len(s) : t[i + 1] = s[i]
  BY <1>1, Prepended
<1> HIDE DEF t
<1>4. \A i \in 1 .. Len(t) : i = 1 \/ (i - 1 \in 1 .. Len(s) /\ t[i] = s[i - 1])
  <2>1. SUFFICES ASSUME NEW i \in 1 .. Len(t), i # 1
                 PROVE  i - 1 \in 1 .. Len(s) /\ t[i] = s[i - 1]
    OBVIOUS
  <2>2. i - 1 \in 1 .. Len(s) /\ (i - 1) + 1 = i
    BY <1>1, <1>3, <2>1
  <2> QED
    BY <1>3, <2>2
<1>5. \A i \in 1 .. Len(s) : s[i] # x
  BY <1>1, <1>2 DEF Range
<1>6. t[Len(t)] = start
  <2>1. Len(s) \in 1 .. Len(s)
    BY <1>1
  <2> QED
    BY <1>1, <1>3, <2>1
<1>7. ASSUME NEW i \in 1 .. Len(t) - 1
      PROVE  <<t[i + 1], t[i]>> \in es
  <2>1. i \in 1 .. Len(s) /\ i \in 1 .. Len(t)
    BY <1>1, <1>3
  <2>2. t[i + 1] = s[i]
    BY <1>3, <2>1
  <2>3. CASE i = 1
    BY <1>2, <1>3, <2>2, <2>3
  <2>4. CASE i # 1
    <3>1. i - 1 \in 1 .. Len(s) - 1 /\ (i - 1) + 1 = i
      BY <1>1, <2>1, <2>4
    <3>2. t[i] = s[i - 1]
      BY <1>4, <2>1, <2>4
    <3>3. <<s[(i - 1) + 1], s[i - 1]>> \in es
      BY <1>1, <3>1
    <3> QED
      BY <2>2, <3>1, <3>2, <3>3
  <2> QED
    BY <2>3, <2>4
<1>8. ASSUME NEW i \in 1 .. Len(t), NEW j \in 1 .. Len(t), t[i] = t[j]
      PROVE  i = j
  <2>1. CASE i = 1 /\ j = 1
    BY <2>1
  <2>2. CASE i = 1 /\ j # 1
    BY <1>3, <1>4, <1>5, <1>8, <2>2
  <2>3. CASE i # 1 /\ j = 1
    BY <1>3, <1>4, <1>5, <1>8, <2>3
  <2>4. CASE i # 1 /\ j # 1
    <3>1. i - 1 \in 1 .. Len(s) /\ j - 1 \in 1 .. Len(s) /\ s[i - 1] = s[j - 1]
      BY <1>4, <1>8, <2>4
    <3>2. i - 1 = j - 1
      BY <1>1, <3>1
    <3> QED
      BY <1>1, <1>3, <3>2
  <2> QED
    BY <2>1, <2>2, <2>3, <2>4
<1>9. Range(t) = Range(s) \cup {x}
  <2>1. DOMAIN t = 1 .. Len(t) /\ DOMAIN s = 1 .. Len(s)
    BY <1>1, <1>3
  <2>2. \A i \in 1 .. Len(s) : i + 1 \in 1 .. Len(t)
    BY <1>1, <1>3
  <2>3. 1 \in 1 .. Len(t)
    BY <1>1, <1>3
  <2>4. ASSUME NEW n \in Range(t)
        PROVE  n \in Range(s) \cup {x}
    <3>1. PICK i \in 1 .. Len(t) : n = t[i]
      BY <2>1 DEF Range
    <3> QED
      BY <1>3, <1>4, <2>1, <3>1 DEF Range
  <2>5. ASSUME NEW n \in Range(s)
        PROVE  n \in Range(t)
    <3>1. PICK i \in 1 .. Len(s) : n = s[i]
      BY <2>1 DEF Range
    <3> QED
      BY <1>3, <2>1, <2>2, <3>1 DEF Range
  <2>6. x \in Range(t)
    BY <1>3, <2>1, <2>3 DEF Range
  <2> QED
    BY <2>4, <2>5, <2>6
<1> QED
  BY <1>1, <1>2, <1>3, <1>6, <1>7, <1>8, <1>9 DEF ChainTo, t

\* The chain ends only where there is no older node left.
LEMMA ChainEnds ==
  ASSUME NEW T \in SUBSET Id, NEW es, \A e \in es : e = <<e[1], e[2]>> /\ e[2] \in T,
         NEW start \in T
  PROVE  /\ ChainTo(LineageChain(start, es), start, es, T)
         /\ NextOlder(es, LineageChain(start, es)) = {}
<1>1. PICK p \in [Nat -> Seq(T) \ {<<>>}] : ChainSteps(p, start, es)
  BY LineageSteps
<1> DEFINE Size(s) == Cardinality(Range(s))
           Ends(s) == NextOlder(es, s) = {}
           Good(s, k) == ChainTo(s, start, es, T) /\ (k + 1 <= Size(s) \/ Ends(s))
           bad == {k \in Nat : ~Good(p[k], k)}
<1>2. ASSUME NEW s, ChainTo(s, start, es, T)
      PROVE  IsFiniteSet(Range(s)) /\ Range(s) \in SUBSET Id /\ Size(s) \in Nat
  <2>1. Range(s) \in SUBSET Id
    BY <1>2 DEF ChainTo, Range
  <2>2. IsFiniteSet(Range(s))
    BY <2>1, QueryAssumption, FS_Subset
  <2>3. Size(s) \in Nat
    BY <2>2, FS_CardinalityType
  <2> QED
    BY <2>1, <2>2, <2>3
<1>3. /\ p[0] = <<start>> /\ LineageChain(start, es) = p[Cardinality(Id)]
      /\ \A k \in Nat : p[k + 1] = IF NextOlder(es, p[k]) = {} THEN p[k]
                                   ELSE <<Min(NextOlder(es, p[k]))>> \o p[k]
  BY <1>1 DEF ChainSteps
<1>4. Good(p[0], 0)
  <2>1. ChainTo(<<start>>, start, es, T)
    BY DEF ChainTo
  <2>2. Range(<<start>>) = {start}
    BY DEF Range
  <2>3. Size(<<start>>) = 1
    BY <2>2, FS_Singleton
  <2> QED
    BY <1>3, <2>1, <2>3
<1> HIDE DEF Ends
<1>5. ASSUME bad # {}
      PROVE  FALSE
  <2>1. PICK k \in bad : \A l \in bad : k <= l
    BY <1>5, LeastNatural
  <2>2. k # 0 /\ k \in Nat
    BY <1>4, <2>1
  <2>3. k - 1 \in Nat /\ (k - 1) + 1 = k /\ ~(k <= k - 1)
    <3> HIDE DEF bad
    <3> QED
      BY <2>2
  <2>4. Good(p[k - 1], k - 1)
    BY <2>1, <2>3
  <2>5. PICK s : s = p[k - 1]
    OBVIOUS
  <2>6. ChainTo(s, start, es, T) /\ (k <= Size(s) \/ Ends(s))
    BY <2>3, <2>4, <2>5
  <2>7. p[k] = IF NextOlder(es, s) = {} THEN s ELSE <<Min(NextOlder(es, s))>> \o s
    BY <1>3, <2>3, <2>5
  <2>8. CASE Ends(s)
    <3>1. p[k] = s
      BY <2>7, <2>8 DEF Ends
    <3> QED
      BY <2>1, <2>6, <2>8, <3>1
  <2>9. CASE ~Ends(s)
    <3> DEFINE x == Min(NextOlder(es, s))
    <3>1. x \in NextOlder(es, s)
      <4>1. \A n \in NextOlder(es, s) : n \in Nat
        BY QueryAssumption DEF NextOlder, OlderThan
      <4> QED
        BY <2>9, <4>1, MinOf DEF Ends
    <3>2. x \in T
      BY <3>1 DEF NextOlder, OlderThan
    <3>3. p[k] = <<x>> \o s
      BY <2>7, <2>9 DEF Ends
    <3> HIDE DEF x
    <3>4. /\ ChainTo(<<x>> \o s, start, es, T)
          /\ Range(<<x>> \o s) = Range(s) \cup {x} /\ x \notin Range(s)
      BY <2>6, <3>1, <3>2, ChainLonger
    <3>5. Size(<<x>> \o s) = Size(s) + 1
      BY <1>2, <2>6, <3>4, FS_AddElement
    <3>6. k <= Size(s) /\ Size(s) \in Nat
      BY <1>2, <2>6, <2>9
    <3> HIDE DEF Size
    <3>7. k + 1 <= Size(<<x>> \o s)
      BY <2>1, <3>5, <3>6
    <3> QED
      BY <2>1, <3>3, <3>4, <3>7
  <2> QED
    BY <2>8, <2>9
<1>6. Cardinality(Id) \in Nat
  BY QueryAssumption, FS_CardinalityType
<1> DEFINE c == Cardinality(Id)
           last == p[c]
<1>7. ChainTo(last, start, es, T) /\ (c + 1 <= Size(last) \/ Ends(last))
  BY <1>5, <1>6
<1>8. Size(last) \in Nat /\ Size(last) <= c
  BY <1>2, <1>7, QueryAssumption, FS_Subset
<1> HIDE DEF Size, c, last
<1>9. Ends(last)
  <2>1. c \in Nat
    BY <1>6 DEF c
  <2> QED
    BY <1>7, <1>8, <2>1
<1> QED
  BY <1>3, <1>7, <1>9 DEF Ends, c, last

\* No part of V is cut off from the rest.
Woven(V, es) ==
  \A S \in SUBSET V : S # {} /\ S # V =>
    \E e \in es : (e[1] \in S /\ e[2] \in V /\ e[2] \notin S) \/ (e[2] \in S /\ e[1] \in V /\ e[1] \notin S)

LEMMA StartsAmong ==
  ASSUME NEW V, V # {}, \A n \in V : n \in Nat, NEW es
  PROVE  /\ LineageStart(V, es) \in V
         /\ Newest(V, es) # {} => LineageStart(V, es) \in Newest(V, es)
<1>1. \A n \in Newest(V, es) : n \in V
  BY DEF Newest
<1>2. Min(V) \in V
  BY MinOf
<1>3. Newest(V, es) # {} => Min(Newest(V, es)) \in Newest(V, es)
  BY <1>1, MinOf
<1> QED
  BY <1>1, <1>2, <1>3 DEF LineageStart

\* f numbers the nodes of H so that each supersedes the one before it.
Numbered(H, es, f) ==
  /\ \A n \in H : f[n] \in Nat
  /\ \A m, n \in H : f[m] = f[n] => m = n
  /\ \A m, n \in H : <<m, n>> \in es => f[m] = f[n] + 1

LEMMA SomeNewest ==
  ASSUME NEW H, NEW es, NEW f, Numbered(H, es, f), NEW top \in Nat, \A n \in H : f[n] <= top,
         NEW V, V # {}, \A n \in V : n \in H,
         \A e \in es : e = <<e[1], e[2]>> /\ e[1] \in V
  PROVE  Newest(V, es) # {}
<1> DEFINE below == {k \in Nat : \E n \in V : f[n] + k = top}
<1>1. below # {}
  <2>1. PICK n \in V : TRUE
    OBVIOUS
  <2>2. f[n] \in Nat /\ f[n] <= top
    BY DEF Numbered
  <2> DEFINE x == f[n]
  <2>3. top - x \in Nat /\ x + (top - x) = top
    <3> HIDE DEF x
    <3>1. x \in Nat /\ x <= top
      BY <2>2 DEF x
    <3> QED
      BY <3>1
  <2> QED
    BY <2>3
<1>2. PICK k \in below : \A l \in below : k <= l
  BY <1>1, LeastNatural
<1>3. PICK n \in V : f[n] + k = top
  BY <1>2
<1>4. \A d \in es : d[2] # n
  <2>1. SUFFICES ASSUME NEW d \in es, d[2] = n
                 PROVE  FALSE
    OBVIOUS
  <2>2. <<d[1], n>> \in es /\ d[1] \in V
    BY <2>1
  <2>3. f[d[1]] = f[n] + 1 /\ f[d[1]] \in Nat /\ f[n] \in Nat /\ f[d[1]] <= top
    BY <2>2 DEF Numbered
  <2> DEFINE x == f[n]
             y == f[d[1]]
  <2>4. x \in Nat /\ y \in Nat /\ y = x + 1 /\ y <= top /\ x + k = top /\ k \in Nat
    BY <1>2, <1>3, <2>3
  <2>5. \A l \in Nat : y + l = top => k <= l
    BY <1>2, <2>2
  <2> HIDE DEF x, y
  <2>6. k # 0
    BY <2>4
  <2>7. k - 1 \in Nat /\ y + (k - 1) = top /\ ~(k <= k - 1)
    BY <2>4, <2>6
  <2> QED
    BY <2>5, <2>7
<1> QED
  BY <1>4 DEF Newest

LEMMA ChainCovers ==
  ASSUME NEW H \in SUBSET Id, NEW es, NEW f, Numbered(H, es, f),
         NEW top \in Nat, \A n \in H : f[n] <= top,
         NEW V, V # {}, \A n \in V : n \in H, Woven(V, es),
         \A e \in es : e = <<e[1], e[2]>> /\ e[1] \in V /\ e[2] \in H
  PROVE  \A n \in V : n \in Range(LineageChain(LineageStart(V, es), es))
<1> DEFINE start == LineageStart(V, es)
           c == LineageChain(start, es)
           S == {n \in V : n \in Range(c)}
<1>1. start \in V /\ start \in H /\ \A d \in es : d[2] # start
  <2>1. Newest(V, es) # {}
    BY SomeNewest
  <2>2. \A n \in V : n \in Nat
    BY QueryAssumption
  <2>3. start \in V /\ start \in Newest(V, es)
    BY <2>1, <2>2, StartsAmong
  <2> QED
    BY <2>3 DEF Newest
<1> HIDE DEF start
<1>2. ChainTo(c, start, es, H) /\ NextOlder(es, c) = {}
  BY <1>1, ChainEnds
<1> HIDE DEF c
<1>3. /\ c \in Seq(H) /\ Len(c) \in Nat /\ Len(c) > 0 /\ c[Len(c)] = start
      /\ DOMAIN c = 1 .. Len(c)
      /\ \A i \in 1 .. Len(c) - 1 : <<c[i + 1], c[i]>> \in es
      /\ \A i \in 1 .. Len(c) : c[i] \in H
  BY <1>2 DEF ChainTo
<1>4. /\ \A i \in 1 .. Len(c) : c[i] \in Range(c)
      /\ \A n \in Range(c) : \E i \in 1 .. Len(c) : c[i] = n
  BY <1>3 DEF Range
<1>5. S # {}
  <2>1. Len(c) \in 1 .. Len(c)
    BY <1>3
  <2> QED
    BY <1>1, <1>3, <1>4, <2>1
<1>6. ASSUME S # V
      PROVE  FALSE
  <2>1. PICK e \in es : \/ e[1] \in S /\ e[2] \in V /\ e[2] \notin S
                        \/ e[2] \in S /\ e[1] \in V /\ e[1] \notin S
    <3>1. S \in SUBSET V
      OBVIOUS
    <3> HIDE DEF S
    <3> QED
      BY <1>5, <1>6, <3>1 DEF Woven
  <2> DEFINE a == e[1]
             b == e[2]
  <2>2. <<a, b>> \in es /\ a \in H /\ b \in H
    BY <2>1
  <2> HIDE DEF a, b
  <2>3. CASE a \in Range(c) /\ b \notin Range(c)
    <3>1. PICK i \in 1 .. Len(c) : c[i] = a
      BY <1>4, <2>3
    <3>2. CASE i = 1
      <4>1. b \in NextOlder(es, c)
        BY <2>2, <2>3, <3>1, <3>2 DEF NextOlder, OlderThan
      <4> QED
        BY <1>2, <4>1
    <3>3. CASE i # 1
      <4>1. i - 1 \in 1 .. Len(c) - 1 /\ i - 1 \in 1 .. Len(c) /\ (i - 1) + 1 = i
        BY <1>3, <3>3
      <4>2. <<a, c[i - 1]>> \in es /\ c[i - 1] \in H /\ c[i - 1] \in Range(c)
        BY <1>3, <1>4, <3>1, <4>1
      <4>3. f[a] = f[c[i - 1]] + 1 /\ f[a] = f[b] + 1 /\ f[b] \in Nat /\ f[c[i - 1]] \in Nat
        BY <2>2, <4>2 DEF Numbered
      <4>4. f[b] = f[c[i - 1]]
        BY <4>3
      <4>5. b = c[i - 1]
        BY <2>2, <4>2, <4>4 DEF Numbered
      <4> QED
        BY <2>3, <4>2, <4>5
    <3> QED
      BY <3>2, <3>3
  <2>4. CASE b \in Range(c) /\ a \notin Range(c)
    <3>1. PICK i \in 1 .. Len(c) : c[i] = b
      BY <1>4, <2>4
    <3>2. CASE i = Len(c)
      <4>1. b = start
        BY <1>3, <3>1, <3>2
      <4> QED
        BY <1>1, <2>2, <4>1
    <3>3. CASE i # Len(c)
      <4>1. i \in 1 .. Len(c) - 1 /\ i + 1 \in 1 .. Len(c)
        BY <1>3, <3>3
      <4>2. <<c[i + 1], b>> \in es /\ c[i + 1] \in H /\ c[i + 1] \in Range(c)
        BY <1>3, <1>4, <3>1, <4>1
      <4>3. f[c[i + 1]] = f[b] + 1 /\ f[a] = f[b] + 1
        BY <2>2, <4>2 DEF Numbered
      <4>4. a = c[i + 1]
        BY <2>2, <4>2, <4>3 DEF Numbered
      <4> QED
        BY <2>4, <4>2, <4>4
    <3> QED
      BY <3>2, <3>3
  <2> QED
    BY <2>1, <2>3, <2>4 DEF a, b
<1>7. \A n \in V : n \in Range(c)
  BY <1>6
<1> QED
  BY <1>7 DEF c, start

\* A set that is woven stays so when nodes are added along arcs.
LEMMA WovenOn ==
  ASSUME NEW V, NEW es, Woven(V, es), NEW new,
         \A n \in new : \E m \in V : <<m, n>> \in es \/ <<n, m>> \in es
  PROVE  Woven(V \cup new, es)
<1> SUFFICES ASSUME NEW S \in SUBSET (V \cup new), S # {}, S # V \cup new
             PROVE  \E e \in es : \/ e[1] \in S /\ e[2] \in V \cup new /\ e[2] \notin S
                                  \/ e[2] \in S /\ e[1] \in V \cup new /\ e[1] \notin S
  BY DEF Woven
<1> DEFINE R == S \cap V
<1>1. CASE R # {} /\ R # V
  <2>1. R \in SUBSET V
    OBVIOUS
  <2>2. PICK e \in es : \/ e[1] \in R /\ e[2] \in V /\ e[2] \notin R
                        \/ e[2] \in R /\ e[1] \in V /\ e[1] \notin R
    <3> HIDE DEF R
    <3> QED
      BY <1>1, <2>1 DEF Woven
  <2> QED
    BY <2>2
<1>2. CASE R = {}
  <2>1. PICK n \in S : n \in new
    BY <1>2
  <2>2. PICK m \in V : <<m, n>> \in es \/ <<n, m>> \in es
    BY <2>1
  <2>3. m \notin S
    BY <1>2
  <2>4. CASE <<m, n>> \in es
    BY <2>3, <2>4
  <2>5. CASE <<n, m>> \in es
    BY <2>3, <2>5
  <2> QED
    BY <2>2, <2>4, <2>5
<1>3. CASE R = V
  <2>1. PICK n \in new : n \notin S
    BY <1>3
  <2>2. PICK m \in V : <<m, n>> \in es \/ <<n, m>> \in es
    BY <2>1
  <2>3. m \in S
    BY <1>3
  <2>4. CASE <<m, n>> \in es
    BY <2>1, <2>3, <2>4
  <2>5. CASE <<n, m>> \in es
    BY <2>1, <2>3, <2>5
  <2> QED
    BY <2>2, <2>4, <2>5
<1> QED
  BY <1>1, <1>2, <1>3

LEMMA WovenWider ==
  ASSUME NEW V, NEW es, Woven(V, es), NEW fs, \A e \in es : e \in fs
  PROVE  Woven(V, fs)
BY DEF Woven

\* The members gathered: they hang together, and with the node asked about.
Gathered(V) ==
  /\ query.from \in V
  /\ \A n \in V : n \in known /\ Linked(Now, query.from, n)
  /\ Woven(V, arcs)

Spread(m, V) == \A n : Follows(first, m, n, "both") => n \in V

\* The frontier of the members is being read.
Gathering(f) ==
  /\ Reading(Reads(f, "both"))
  /\ \A m \in f : m \in visited
  /\ \A m \in visited : m \in f \/ Spread(m, visited)

\* Arcs that hold the members together are read or still to be read.
Rereading(es) ==
  /\ Woven(visited, es)
  /\ \A e \in es : e \in arcs /\ e[1] \in visited /\ (e \in rows \/ <<e[1], "out">> \in selects)

LineInv ==
  query.kind = "lineage" =>
    /\ progress \in {"start", "round", "older", "done", "none"}
    /\ progress = "start" => rows = {} /\ round = 0
    /\ progress = "round" =>
         /\ round \in Nat /\ round < LineageDepth
         /\ Gathered(visited)
         /\ \A n \in Ball(first, query.from, "both")[round] : n \in visited
         /\ \E f : Gathering(f)
    /\ progress = "older" =>
         /\ Gathered(visited)
         /\ \A n \in Ball(first, query.from, "both")[LineageDepth] : n \in visited
         /\ \A r \in selects : r[1] \in visited /\ r[2] = "out"
         /\ \A e \in rows : e \in arcs /\ e[1] \in visited
         /\ \E es : Rereading(es)
    /\ progress = "done" => LineageWhole

LEMMA OutReads ==
  ASSUME NEW V
  PROVE  /\ \A r \in Reads(V, "out") : r[1] \in V /\ r[2] = "out"
         /\ \A m \in V : <<m, "out">> \in Reads(V, "out")
<1>1. "out" \in Directions
  BY DEF Directions
<1>2. \A r \in Reads(V, "out") : /\ r[1] \in V
                                 /\ (r[2] = "out" /\ "out" # "in") \/ (r[2] = "in" /\ "out" # "out")
  BY <1>1, ReadsOf
<1>3. \A m \in V : "out" # "in" => <<m, "out">> \in Reads(V, "out")
  BY <1>1, ReadsOf
<1> QED
  BY <1>2, <1>3

\* Now the arcs between the members are read.
LEMMA RereadingStarts ==
  ASSUME NEW V, Woven(V, arcs), visited' = V, arcs' = arcs, selects' = Reads(V, "out"), rows' = {}
  PROVE  /\ (\E es : Rereading(es))'
         /\ (\A r \in selects : r[1] \in visited /\ r[2] = "out")'
<1> DEFINE es == {e \in arcs : e[1] \in V}
<1>1. Woven(V, es)
  BY DEF Woven
<1>2. \A e \in es : <<e[1], "out">> \in Reads(V, "out") /\ e \in arcs /\ e[1] \in V
  BY OutReads
<1>3. PICK fs : fs = es
  OBVIOUS
<1> HIDE DEF es
<1>4. Rereading(fs)'
  BY <1>1, <1>2, <1>3 DEF Rereading, Woven
<1> QED
  BY <1>4, OutReads

\* Each round reaches one step further, and what it finds is tied to the rest.
LEMMA GatherFinds ==
  ASSUME GraphOK, NEW k \in Nat, NEW f, Gathering(f), Gathered(visited),
         \A n \in Ball(first, query.from, "both")[k] : n \in visited
  PROVE  /\ Gathered(visited \cup FarEnds(Seen, "both"))
         /\ \A n \in Ball(first, query.from, "both")[k + 1] : n \in visited \cup FarEnds(Seen, "both")
         /\ \A m \in visited : Spread(m, visited \cup FarEnds(Seen, "both"))
<1> DEFINE far == FarEnds(Seen, "both")
           V == visited \cup far
           net == Now
           new == {n \in far : n \notin visited}
<1>1. /\ Reading(Reads(f, "both"))
      /\ \A m \in f : m \in visited
      /\ \A m \in visited : m \in f \/ Spread(m, visited)
  BY DEF Gathering
<1>2. "both" \in Directions
  BY DEF Directions
<1>3. /\ \A m \in f : \A n : Follows(first, m, n, "both") => n \in far
      /\ \A n \in far : n \in f \/ \E m \in f : Follows(net, m, n, "both")
  BY <1>1, <1>2, FarEndsExact
<1>4. /\ query.from \in visited
      /\ \A n \in visited : n \in known /\ Linked(net, query.from, n)
      /\ Woven(visited, arcs)
  BY DEF Gathered
<1>5. net.arcs = arcs /\ net.known = known /\ \A e \in arcs : e[1] \in known /\ e[2] \in known
  BY DEF Now, GraphOK
<1>6. \A m \in visited : Spread(m, V)
  BY <1>1, <1>3 DEF Spread
<1> HIDE DEF far
<1>7. ASSUME NEW n \in new
      PROVE  /\ n \in known /\ Linked(net, query.from, n)
             /\ \E m \in visited : <<m, n>> \in arcs \/ <<n, m>> \in arcs
  <2>1. PICK m \in visited : Follows(net, m, n, "both")
    BY <1>1, <1>3
  <2>2. <<m, n>> \in arcs \/ <<n, m>> \in arcs
    BY <1>5, <2>1 DEF Follows
  <2>3. n \in net.known
    BY <1>5, <2>2
  <2>4. Linked(net, m, n)
    BY <2>1, <2>3, LinkedSteps
  <2>5. Linked(net, query.from, n)
    BY <1>4, <2>4, LinkedThrough
  <2> QED
    BY <1>5, <2>2, <2>3, <2>5
<1>8. V = visited \cup new
  OBVIOUS
<1> HIDE DEF new, V
<1>9. Woven(visited \cup new, arcs)
  BY <1>4, <1>7, WovenOn
<1>10. Gathered(V)
  BY <1>4, <1>7, <1>8, <1>9 DEF Gathered
<1>11. ASSUME NEW n \in Ball(first, query.from, "both")[k + 1]
       PROVE  n \in V
  <2>1. \/ n \in Ball(first, query.from, "both")[k]
        \/ \E m \in Ball(first, query.from, "both")[k] : Follows(first, m, n, "both")
    BY <1>11, BallSteps DEF Beyond
  <2> QED
    BY <1>6, <1>8, <2>1 DEF Spread
<1> QED
  BY <1>6, <1>10, <1>11 DEF V, far

\* Members stay members while the graph grows.
LEMMA GatheredOn ==
  ASSUME NEW V, Gathered(V), query' = query,
         \A n \in known : n \in known', \A e \in arcs : e \in arcs'
  PROVE  Gathered(V)'
<1>1. PICK old : old = Now
  OBVIOUS
<1>2. PICK new : new = Now'
  OBVIOUS
<1>3. Widened(old, new)
  BY <1>1, <1>2 DEF Widened, Now
<1>4. ASSUME NEW m, NEW n, Linked(Now, m, n)
      PROVE  Linked(Now, m, n)'
  <2>1. Linked(old, m, n)
    BY <1>1, <1>4
  <2>2. Linked(new, m, n)
    BY <1>3, <2>1, LinkedWider
  <2>3. Linked(Now, m, n)' <=> Linked(new, m, n)
    BY <1>2 DEF Linked, Ball, Follows
  <2> QED
    BY <2>2, <2>3
<1>5. PICK a : a = query.from
  OBVIOUS
<1>6. /\ a \in V /\ \A n \in V : n \in known /\ Linked(Now, a, n)
      /\ Woven(V, arcs)
  BY <1>5 DEF Gathered
<1>7. \A n \in V : n \in known' /\ Linked(Now, a, n)'
  BY <1>4, <1>6
<1>8. PICK es : es = arcs'
  OBVIOUS
<1>9. Woven(V, es)
  BY <1>6, <1>8, WovenWider
<1>10. Woven(V, arcs)'
  BY <1>8, <1>9 DEF Woven
<1>11. query.from' = a
  BY <1>5
<1> QED
  BY <1>6, <1>7, <1>10, <1>11 DEF Gathered, Linked

LEMMA LineStarts ==
  ASSUME GraphOK, LineInv, StartLineage, UNCHANGED <<graphVars, query>>
  PROVE  LineInv'
<1>1. /\ query' = query /\ known' = known /\ arcs' = arcs /\ first' = first
      /\ query.kind = "lineage" /\ rows = {} /\ round = 0 /\ rows' = rows
  BY DEF graphVars, StartLineage, Goes, LineInv, Conclude
<1>2. CASE query.from \notin known
  BY <1>1, <1>2 DEF StartLineage, Conclude, LineInv
<1>3. CASE query.from \in known
  <2> DEFINE V == {query.from}
  <2>1. /\ visited' = V /\ round' = round
        /\ \/ RoundsLeft(0, LineageDepth) /\ progress' = "round" /\ selects' = Reads(V, "both")
           \/ ~RoundsLeft(0, LineageDepth) /\ progress' = "older" /\ selects' = Reads(V, "out")
    BY <1>3 DEF StartLineage
  <2>2. Ball(first, query.from, "both")[0] = V
    BY BallSteps
  <2>3. Gathered(V)
    <3>1. Woven(V, arcs)
      BY DEF Woven
    <3>2. Linked(Now, query.from, query.from)
      BY LinkedSteps
    <3> QED
      BY <1>3, <3>1, <3>2 DEF Gathered
  <2>4. Gathered(visited)'
    <3>1. PICK W : W = V
      OBVIOUS
    <3>2. Gathered(W)'
      BY <1>1, <2>3, <3>1, GatheredOn
    <3> QED
      BY <2>1, <3>1, <3>2 DEF Gathered
  <2>5. Ball(first, query.from, "both")' = Ball(first, query.from, "both")
    BY <1>1 DEF Ball, Follows
  <2> HIDE DEF V
  <2>6. CASE RoundsLeft(0, LineageDepth)
    <3>1. progress' = "round" /\ selects' = Reads(V, "both") /\ 0 < LineageDepth
      BY <2>1, <2>6 DEF RoundsLeft
    <3>2. PICK f : f = V
      OBVIOUS
    <3>3. Gathering(f)'
      BY <1>1, <2>1, <3>1, <3>2 DEF Gathering, Reading, Reads
    <3> QED
      BY <1>1, <2>1, <2>2, <2>4, <2>5, <3>1, <3>3 DEF LineInv
  <2>7. CASE ~RoundsLeft(0, LineageDepth)
    <3>1. progress' = "older" /\ selects' = Reads(V, "out") /\ LineageDepth = 0
      BY <2>1, <2>7, QueryAssumption DEF RoundsLeft
    <3>2. /\ (\E es : Rereading(es))'
          /\ (\A r \in selects : r[1] \in visited /\ r[2] = "out")'
      BY <1>1, <2>1, <2>3, <3>1, RereadingStarts DEF Gathered
    <3> QED
      BY <1>1, <2>1, <2>2, <2>4, <2>5, <3>1, <3>2 DEF LineInv
  <2> QED
    BY <2>6, <2>7
<1> QED
  BY <1>2, <1>3

LEMMA LineGathers ==
  ASSUME GraphOK, LineInv, Gather, UNCHANGED <<graphVars, query>>
  PROVE  LineInv'
<1>1. /\ query' = query /\ known' = known /\ arcs' = arcs /\ first' = first
      /\ query.kind = "lineage" /\ progress = "round"
      /\ round \in Nat /\ round < LineageDepth /\ LineageDepth \in Nat
      /\ Gathered(visited)
      /\ \A n \in Ball(first, query.from, "both")[round] : n \in visited
  BY QueryAssumption DEF graphVars, Gather, LastRead, Goes, LineInv
<1>2. PICK f : Gathering(f)
  BY <1>1 DEF LineInv
<1> DEFINE far == FarEnds(Seen, "both")
           found == far \ visited
           V == visited \cup far
<1>3. /\ Gathered(V)
      /\ \A n \in Ball(first, query.from, "both")[round + 1] : n \in V
      /\ \A m \in visited : Spread(m, V)
  BY <1>1, <1>2, GatherFinds
<1>4. V = visited \cup found
  OBVIOUS
<1>5. /\ visited' = V /\ round' = round + 1 /\ rows' = {}
      /\ \/ /\ found # {} /\ RoundsLeft(round + 1, LineageDepth)
            /\ selects' = Reads(found, "both") /\ progress' = "round"
         \/ /\ found = {} \/ ~RoundsLeft(round + 1, LineageDepth)
            /\ progress' = "older" /\ selects' = Reads(V, "out")
  BY <1>1, <1>4 DEF Gather
<1> HIDE DEF far, V
<1>6. Gathered(visited)'
  <2>1. PICK W : W = V
    OBVIOUS
  <2>2. Gathered(W)'
    BY <1>1, <1>3, <2>1, GatheredOn
  <2> QED
    BY <1>5, <2>1, <2>2 DEF Gathered
<1>7. Ball(first, query.from, "both")' = Ball(first, query.from, "both")
  BY <1>1 DEF Ball, Follows
<1>8. CASE found # {} /\ RoundsLeft(round + 1, LineageDepth)
  <2>1. progress' = "round" /\ selects' = Reads(found, "both")
        /\ round + 1 < LineageDepth /\ round + 1 \in Nat
    BY <1>1, <1>5, <1>8 DEF RoundsLeft
  <2>2. PICK g : g = found
    OBVIOUS
  <2>3. \A m : Spread(m, visited)' <=> Spread(m, V)
    BY <1>1, <1>5 DEF Spread, Follows
  <2>4. /\ \A m \in g : m \in V
        /\ \A m \in V : m \in g \/ Spread(m, V)
    BY <1>3, <1>4, <2>2
  <2>5. Reading(Reads(g, "both"))'
    BY <1>1, <1>5, <2>1, <2>2 DEF Reading, Reads
  <2>6. Gathering(g)'
    BY <1>5, <2>3, <2>4, <2>5 DEF Gathering
  <2> QED
    BY <1>1, <1>3, <1>5, <1>6, <1>7, <2>1, <2>6 DEF LineInv
<1>9. CASE found = {} \/ ~RoundsLeft(round + 1, LineageDepth)
  <2>1. progress' = "older" /\ selects' = Reads(V, "out")
    BY <1>5, <1>9
  <2>2. \A n \in Ball(first, query.from, "both")[LineageDepth] : n \in V
    <3>1. CASE found = {}
      <4>1. V = visited
        BY <1>4, <3>1
      <4>2. \A m \in V : \A n \in first.known : Follows(first, m, n, "both") => n \in V
        BY <1>3, <4>1 DEF Spread
      <4>3. query.from \in V
        BY <1>3 DEF Gathered
      <4>4. \A n : Linked(first, query.from, n) => n \in V
        BY <4>2, <4>3, LinkedInside
      <4> QED
        BY <1>1, <4>4 DEF Linked
    <3>2. CASE ~RoundsLeft(round + 1, LineageDepth)
      <4>1. round + 1 = LineageDepth
        BY <1>1, <3>2 DEF RoundsLeft
      <4> QED
        BY <1>3, <4>1
    <3> QED
      BY <1>9, <3>1, <3>2
  <2>3. Woven(V, arcs)
    BY <1>3 DEF Gathered
  <2>4. /\ (\E es : Rereading(es))'
        /\ (\A r \in selects : r[1] \in visited /\ r[2] = "out")'
    BY <1>1, <1>5, <2>1, <2>3, RereadingStarts
  <2> QED
    BY <1>1, <1>5, <1>6, <1>7, <2>1, <2>2, <2>4 DEF LineInv
<1> QED
  BY <1>5, <1>8, <1>9

\* The chain through members that hang together is the lineage.
LEMMA ChainIsLineage ==
  ASSUME GraphOK, query.kind = "lineage", Gathered(visited), NEW es, Rereading(es),
         NEW seen, \A e \in seen : e \in arcs /\ e[1] \in visited, \A e \in es : e \in seen,
         \A n \in Ball(first, query.from, "both")[LineageDepth] : n \in visited,
         UNCHANGED <<graphVars, query>>,
         answer' = LineageChain(LineageStart(visited, seen), seen)
  PROVE  LineageWhole'
<1> DEFINE net == Now
           T == {n \in known : Linked(net, query.from, n)}
           start == LineageStart(visited, seen)
           c == LineageChain(start, seen)
<1>1. /\ query' = query /\ known' = known /\ arcs' = arcs /\ first' = first
      /\ WellFormed(net) /\ net.known = known /\ net.arcs = arcs
      /\ \A e \in arcs : e = <<e[1], e[2]>> /\ e[1] \in known /\ e[2] \in known
      /\ known \in SUBSET Id
  BY DEF graphVars, GraphOK, WellFormed, Now
<1>2. /\ query.from \in visited
      /\ \A n \in visited : n \in known /\ Linked(net, query.from, n)
  BY DEF Gathered
<1>3. query.from \in Id /\ \A n \in visited : n \in Nat /\ n \in T
  BY <1>1, <1>2, QueryAssumption
<1> HIDE DEF net
<1>4. \A n : n \in Connected(net, query.from) <=> n \in T
  BY <1>1, <1>3, LinkedConnected
<1>5. \A e \in seen : e = <<e[1], e[2]>> /\ e[1] \in visited /\ e[2] \in T
  <2>1. SUFFICES ASSUME NEW e \in seen
                 PROVE  e = <<e[1], e[2]>> /\ e[1] \in visited /\ e[2] \in T
    OBVIOUS
  <2>2. e \in net.arcs /\ e = <<e[1], e[2]>> /\ e[1] \in visited /\ e[2] \in net.known
    BY <1>1
  <2>3. Follows(net, e[1], e[2], "both")
    BY <2>2 DEF Follows
  <2>4. Linked(net, e[1], e[2])
    BY <2>2, <2>3, LinkedSteps
  <2>5. Linked(net, query.from, e[2])
    BY <1>2, <2>2, <2>4, LinkedThrough
  <2> QED
    BY <1>1, <2>2, <2>5
<1>6. T \in SUBSET Id
  BY <1>1
<1>7. start \in visited /\ start \in T
  BY <1>2, <1>3, StartsAmong
<1>8. PICK H : H = T
  OBVIOUS
<1> HIDE DEF T, start
<1>9. ChainTo(c, start, seen, H)
  BY <1>5, <1>6, <1>7, <1>8, ChainEnds
<1>10. PICK a : a = answer'
  OBVIOUS
<1>11. a = c
  BY <1>10 DEF start
<1> HIDE DEF c
<1>12. /\ a \in Seq(H) /\ Len(a) \in Nat /\ DOMAIN a = 1 .. Len(a)
       /\ \A i \in 1 .. Len(a) - 1 : <<a[i + 1], a[i]>> \in seen
       /\ \A i, j \in 1 .. Len(a) : a[i] = a[j] => i = j
  BY <1>9, <1>11 DEF ChainTo
<1>13. \A i \in 1 .. Len(a) - 1 : <<a[i + 1], a[i]>> \in arcs
  BY <1>12
<1>14. \A n \in Range(a) : n \in Connected(net, query.from)
  <2>1. \A i \in 1 .. Len(a) : a[i] \in H
    BY <1>12
  <2> QED
    BY <1>4, <1>8, <1>12, <2>1 DEF Range
<1>15. ASSUME ChainOf(Connected(net, query.from), arcs)
       PROVE  \A n \in Within(first, query.from, "both", LineageDepth) : n \in Range(a)
  <2>1. H = Connected(net, query.from)
    BY <1>4, <1>8 DEF Connected, Within
  <2>2. PICK f \in [H -> 1 .. Cardinality(H)] :
          /\ \A m, n \in H : f[m] = f[n] => m = n
          /\ \A m, n \in H : <<m, n>> \in arcs <=> f[m] = f[n] + 1
    BY <1>15, <2>1 DEF ChainOf
  <2> DEFINE top == Cardinality(H)
  <2>3. top \in Nat
    <3>1. IsFiniteSet(H)
      BY <1>6, <1>8, QueryAssumption, FS_Subset
    <3> QED
      BY <3>1, FS_CardinalityType
  <2> HIDE DEF top
  <2>4. \A n \in H : f[n] \in 1 .. top
    BY <2>2 DEF top
  <2>5. \A n \in H : f[n] \in Nat /\ f[n] <= top
    BY <2>3, <2>4
  <2>6. Numbered(H, seen, f)
    BY <2>2, <2>5 DEF Numbered
  <2>7. Woven(visited, seen)
    BY WovenWider DEF Rereading
  <2>8. \A n \in visited : n \in H
    BY <1>3, <1>8
  <2>9. H \in SUBSET Id /\ visited # {}
    BY <1>2, <1>6, <1>8
  <2>10. \A e \in seen : e = <<e[1], e[2]>> /\ e[1] \in visited /\ e[2] \in H
    BY <1>5, <1>8
  <2>11. PICK V : V = visited
    OBVIOUS
  <2>12. \A n \in V : n \in Range(LineageChain(LineageStart(V, seen), seen))
    BY <2>3, <2>5, <2>6, <2>7, <2>8, <2>9, <2>10, <2>11, ChainCovers
  <2>13. \A n \in visited : n \in Range(a)
    BY <1>11, <2>11, <2>12 DEF c, start
  <2> QED
    BY <2>13 DEF Within
<1>16. Connected(Now, query.from)' = Connected(net, query.from)
  BY <1>1 DEF Connected, Within, Ball, Follows, Now, net
<1>17. Within(first, query.from, "both", LineageDepth)' = Within(first, query.from, "both", LineageDepth)
  BY <1>1 DEF Within, Ball, Follows
<1>18. ChainOf(Connected(net, query.from), arcs)' <=> ChainOf(Connected(net, query.from), arcs)
  BY <1>1 DEF ChainOf, Connected, Within, Ball, Follows, Now, net
<1>19. ChainOf(Connected(Now, query.from), arcs)' => ChainOf(Connected(net, query.from), arcs)
  BY <1>1, <1>16 DEF ChainOf
<1> QED
  BY <1>1, <1>10, <1>12, <1>13, <1>14, <1>15, <1>16, <1>17, <1>19 DEF LineageWhole

LEMMA LineOrders ==
  ASSUME GraphOK, LineInv, Order, UNCHANGED <<graphVars, query>>
  PROVE  LineInv'
<1>1. /\ query' = query /\ query.kind = "lineage" /\ progress = "older"
      /\ Gathered(visited)
      /\ \A n \in Ball(first, query.from, "both")[LineageDepth] : n \in visited
      /\ \A r \in selects : r[1] \in visited /\ r[2] = "out"
      /\ \A e \in rows : e \in arcs /\ e[1] \in visited
  BY DEF Order, LastRead, Goes, LineInv
<1>2. PICK es : Rereading(es)
  BY <1>1 DEF LineInv
<1>3. /\ progress' = "done"
      /\ answer' = LineageChain(LineageStart(visited, Seen), Seen)
  BY DEF Order, Conclude
<1>4. \A e \in Seen : e \in arcs /\ e[1] \in visited
  BY <1>1 DEF Seen, ArcsAt
<1>5. \A e \in es : e \in Seen
  <2>1. SUFFICES ASSUME NEW e \in es, <<e[1], "out">> \in selects
                 PROVE  e \in Seen
    BY <1>2 DEF Rereading, Seen
  <2>2. e \in arcs
    BY <1>2 DEF Rereading
  <2>3. e \in ArcsAt(<<e[1], "out">>)
    BY <2>2 DEF ArcsAt
  <2> QED
    BY <2>1, <2>3 DEF Seen
<1>6. PICK seen : seen = Seen
  OBVIOUS
<1>7. /\ answer' = LineageChain(LineageStart(visited, seen), seen)
      /\ \A e \in seen : e \in arcs /\ e[1] \in visited
      /\ \A e \in es : e \in seen
  BY <1>3, <1>4, <1>5, <1>6
<1>8. LineageWhole'
  BY <1>1, <1>2, <1>7, ChainIsLineage
<1> QED
  BY <1>1, <1>3, <1>8 DEF LineInv

LEMMA LineReads ==
  ASSUME GraphOK, LineInv, ReadOn, UNCHANGED <<graphVars, query>>
  PROVE  LineInv'
<1> SUFFICES ASSUME query.kind = "lineage"
             PROVE  LineInv'
  BY DEF LineInv
<1>1. /\ UNCHANGED <<query, known, arcs, first, progress, round, visited>>
      /\ progress \in {"round", "older"}
  BY DEF ReadOn, graphVars, LineInv
<1>2. Gathered(visited) => Gathered(visited)'
  <2>1. PICK V : V = visited
    OBVIOUS
  <2>2. Gathered(V) => Gathered(V)'
    <3>1. \A n \in known : n \in known'
      BY <1>1
    <3>2. \A e \in arcs : e \in arcs'
      BY <1>1
    <3> QED
      BY <1>1, <3>1, <3>2, GatheredOn
  <2> QED
    BY <1>1, <2>1, <2>2 DEF Gathered
<1>3. Ball(first, query.from, "both")' = Ball(first, query.from, "both")
  BY <1>1 DEF Ball, Follows
<1>4. CASE progress = "round"
  <2>1. PICK f : Gathering(f)
    BY <1>4 DEF LineInv
  <2>2. Reading(Reads(f, "both"))'
    BY <2>1, ReadOnReads DEF Gathering
  <2>3. \A m : Spread(m, visited)' <=> Spread(m, visited)
    BY <1>1 DEF Spread, Follows
  <2>4. Gathering(f)'
    BY <1>1, <2>1, <2>2, <2>3 DEF Gathering
  <2> QED
    BY <1>1, <1>2, <1>3, <1>4, <2>4 DEF LineInv
<1>5. CASE progress = "older"
  <2>1. PICK r \in selects : rows' = rows \cup ArcsAt(r) /\ selects' = selects \ {r}
    BY DEF ReadOn
  <2>2. /\ \A s \in selects : s[1] \in visited /\ s[2] = "out"
        /\ \A e \in rows : e \in arcs /\ e[1] \in visited
    BY <1>5 DEF LineInv
  <2>3. \A e : e \in ArcsAt(r) <=> e \in arcs /\ e[1] = r[1]
    BY <2>2 DEF ArcsAt
  <2>4. PICK es : Rereading(es)
    BY <1>5 DEF LineInv
  <2>5. Woven(visited, es)'
    BY <1>1, <2>4 DEF Rereading, Woven
  <2>6. ASSUME NEW e \in es
        PROVE  e \in arcs /\ e[1] \in visited /\ (e \in rows' \/ <<e[1], "out">> \in selects')
    <3>1. e \in arcs /\ e[1] \in visited /\ (e \in rows \/ <<e[1], "out">> \in selects)
      BY <2>4 DEF Rereading
    <3>2. CASE <<e[1], "out">> = r
      <4>1. e[1] = r[1]
        BY <3>2
      <4> QED
        BY <2>1, <2>3, <3>1, <4>1
    <3>3. CASE <<e[1], "out">> # r
      BY <2>1, <3>1, <3>3
    <3> QED
      BY <3>2, <3>3
  <2>7. Rereading(es)'
    BY <1>1, <2>5, <2>6 DEF Rereading
  <2>8. /\ \A s \in selects' : s[1] \in visited /\ s[2] = "out"
        /\ \A e \in rows' : e \in arcs /\ e[1] \in visited
    BY <2>1, <2>2, <2>3
  <2> QED
    BY <1>1, <1>2, <1>3, <1>5, <2>7, <2>8 DEF LineInv
<1> QED
  BY <1>1, <1>4, <1>5

LEMMA LineGrows ==
  ASSUME GraphOK, LineInv, NodesArrive \/ ArcsArrive
  PROVE  LineInv'
<1> SUFFICES ASSUME query.kind = "lineage"
             PROVE  LineInv'
  BY GraphGrows DEF LineInv
<1>1. /\ \A e \in arcs : e \in arcs'
      /\ \A n \in known : n \in known'
      /\ UNCHANGED <<first, query>> /\ progress # "done"
      /\ UNCHANGED <<progress, selects, rows, visited, round>>
  BY GraphGrows DEF searchVars, Asking
<1>2. Gathered(visited) => Gathered(visited)'
  <2>1. PICK V : V = visited
    OBVIOUS
  <2>2. Gathered(V) => Gathered(V)'
    BY <1>1, GatheredOn
  <2> QED
    BY <1>1, <2>1, <2>2 DEF Gathered
<1>3. Ball(first, query.from, "both")' = Ball(first, query.from, "both")
  BY <1>1 DEF Ball, Follows
<1>4. ASSUME NEW f, Gathering(f)
      PROVE  Gathering(f)'
  <2>1. PICK reads : reads = Reads(f, "both")
    OBVIOUS
  <2>2. Reading(reads)
    BY <1>4, <2>1 DEF Gathering
  <2>3. Reading(reads)'
    BY <1>1, <2>2, ReadingGoesOn
  <2>4. Reads(f, "both")' = reads
    BY <2>1
  <2>5. \A m : Spread(m, visited)' <=> Spread(m, visited)
    BY <1>1 DEF Spread, Follows
  <2> QED
    BY <1>1, <1>4, <2>3, <2>4, <2>5 DEF Gathering
<1>5. ASSUME NEW es, Rereading(es)
      PROVE  Rereading(es)'
  BY <1>1, <1>5 DEF Rereading, Woven
<1> QED
  BY <1>1, <1>2, <1>3, <1>4, <1>5 DEF LineInv

LEMMA LineInvStep ==
  ASSUME GraphOK, LineInv, [QueryNext]_queryVars
  PROVE  LineInv'
<1>1. CASE UNCHANGED queryVars
  <2>1. UNCHANGED <<progress, selects, rows, round, visited, queue, query, first, known, arcs, answer>>
    BY <1>1 DEF queryVars, graphVars, searchVars
  <2>2. LineageWhole' = LineageWhole
    BY <2>1 DEF LineageWhole, ChainOf, Connected, Within, Ball, Follows, Now
  <2>3. Gathered(visited)' <=> Gathered(visited)
    BY <2>1 DEF Gathered, Linked, Ball, Follows, Now, Woven
  <2>4. Ball(first, query.from, "both")' = Ball(first, query.from, "both")
    BY <2>1 DEF Ball, Follows
  <2>5. \A f : Gathering(f)' <=> Gathering(f)
    BY <2>1 DEF Gathering, Reading, Reads, Touches, Spread, Follows
  <2>6. \A es : Rereading(es)' <=> Rereading(es)
    BY <2>1 DEF Rereading, Woven
  <2> QED
    BY <2>1, <2>2, <2>3, <2>4, <2>5, <2>6 DEF LineInv
<1>2. CASE NodesArrive \/ ArcsArrive
  BY <1>2, LineGrows
<1>3. CASE /\ ReadOn \/ StartNeighbors \/ Explore \/ FindNode \/ FilterNodes
                \/ CheckSource \/ CheckTarget \/ TakeNext \/ Expand
                \/ ListEdges \/ ListNodes \/ Flood \/ StartLineage \/ Gather \/ Order
           /\ UNCHANGED <<graphVars, query>>
  <2>1. CASE ReadOn
    BY <1>3, <2>1, LineReads
  <2>2. CASE StartLineage
    BY <1>3, <2>2, LineStarts
  <2>3. CASE Gather
    BY <1>3, <2>3, LineGathers
  <2>4. CASE Order
    BY <1>3, <2>4, LineOrders
  <2>5. CASE \/ StartNeighbors \/ Explore \/ FindNode \/ FilterNodes
             \/ CheckSource \/ CheckTarget \/ TakeNext \/ Expand
             \/ ListEdges \/ ListNodes \/ Flood
    <3>1. query.kind # "lineage"
      BY <2>5 DEF StartNeighbors, Explore, FindNode, FilterNodes, CheckSource, CheckTarget, TakeNext, Expand,
                  ListEdges, ListNodes, Flood, LastRead, Goes
    <3> QED
      BY <1>3, <3>1 DEF LineInv
  <2> QED
    BY <1>3, <2>1, <2>2, <2>3, <2>4, <2>5
<1> QED
  BY <1>1, <1>2, <1>3 DEF QueryNext

\* LineageWhole: relationship_lineage returns a chain of nodes each superseding
\* the one before, none twice, and where history is a chain the whole of what
\* there was within max_depth, for any graph, any node of it and any max_depth.
THEOREM LineagesAreWhole == QuerySpec => []LineageWhole
<1> DEFINE Inv == GraphOK /\ LineInv
<1>1. QueryInit => Inv
  <2>1. QueryInit => LineInv
    BY DEF QueryInit, LineInv
  <2> QED
    BY <2>1, GraphInit
<1>2. Inv /\ [QueryNext]_queryVars => Inv'
  BY GraphStep, LineInvStep
<1>3. Inv => LineageWhole
  BY DEF LineInv, LineageWhole
<1> QED
  BY <1>1, <1>2, <1>3, PTL DEF QuerySpec
=============================================================================
