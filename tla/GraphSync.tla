------------------------------- MODULE GraphSync -------------------------------
(***************************************************************************)
(* The organizational graph as a table that commands bring up to date: a   *)
(* builder lists the meetings, reads each one's memories, and then adds    *)
(* the nodes and the edges, in one transaction each, with INSERT OR IGNORE *)
(* and never a DELETE.  Meanwhile clients write to the store.              *)
(***************************************************************************)
EXTENDS MemoryGraph

CONSTANTS
  Builder,       \* processes that build the graph
  MaxChanges,    \* bound: how often clients change the store, registrations aside
  Corrections,   \* pairs <<id, by>> of memories that clients may supersede
  HashOf,        \* MeetingId -> hash of its transcript, which the graph never uses
  OnlyImports    \* TRUE: clients import; FALSE: they also use the lifecycle API

ASSUME SyncAssumption ==
  /\ MaxChanges \in Nat /\ OnlyImports \in BOOLEAN
  /\ HashOf \in [MeetingId -> Hash]
  /\ Corrections \subseteq MemoryId \X MemoryId

VARIABLES
  nodes, edges,   \* the tables graph_nodes and graph_edges
  pc,             \* Builder -> "idle", "read" or "edges"
  todo,           \* Builder -> meetings listed and not yet read
  reading,        \* Builder -> what has been read so far
  quiet,          \* Builder -> has the store stood still since its build began?
  tidy,           \* has history only ever appended, with no build under way?
  changes         \* how often the store has changed, registrations aside

graph == <<nodes, edges>>
builders == <<pc, todo, reading, quiet>>
syncVars == <<vars, graph, builders, tidy, changes>>

NodeIds(ns) == {n.id : n \in ns}
Nothing == [x \in {} |-> {}]

Unbuilt ==
  /\ nodes = {} /\ edges = {}
  /\ pc = [b \in Builder |-> "idle"]
  /\ todo = [b \in Builder |-> {}]
  /\ reading = [b \in Builder |-> Nothing]
  /\ quiet = [b \in Builder |-> FALSE]
  /\ tidy = TRUE
  /\ changes = 0

SyncInit == Init /\ Unbuilt

------------------------------------------------------------------------------
(* Clients of the store.  A call that changes nothing is left out.  An     *)
(* append is the registration of a meeting, or memories that come after    *)
(* all there are.                                                          *)
Appends(batch) ==
  \A i \in DOMAIN batch : \A m \in Stored : Chrono[m] < Chrono[batch[i].memory_id]

Noticed(appended) ==
  /\ reply' = "ok"
  /\ quiet' = [b \in Builder |-> FALSE]
  /\ tidy' = (tidy /\ appended /\ \A b \in Builder : pc[b] # "read")
  /\ UNCHANGED <<graph, pc, todo, reading>>

Changed(appended) ==
  /\ changes < MaxChanges
  /\ changes' = changes + 1
  /\ Noticed(appended)

ClientImports ==
  \/ \E x \in MeetingId : SaveMeeting(x, HashOf[x]) /\ Noticed(TRUE) /\ UNCHANGED changes
  \/ \E batch \in Batch : SaveMany(batch) /\ Changed(Appends(batch))

ClientEdits ==
  /\ ~OnlyImports
  /\ \/ \E id \in MemoryId : Delete(id) \/ Restore(id)
     \/ \E c \in Corrections : Supersede(c[1], c[2])
  /\ Changed(FALSE)

ClientDeletes ==
  /\ ~OnlyImports
  /\ \E x \in MeetingId : DeleteMeeting(x)
  /\ Changed(FALSE)

------------------------------------------------------------------------------
(* build_graph *)
\* Mutant of ListMeetings: meetings that have a node are not read again.
ListMeetings_OnlyNew(b) ==
  /\ pc[b] = "idle"
  /\ pc' = [pc EXCEPT ![b] = "read"]
  /\ todo' = [todo EXCEPT ![b] = {x \in Registered : MeetingNode(x) \notin NodeIds(nodes)}]
  /\ reading' = [reading EXCEPT ![b] = Nothing]
  /\ quiet' = [quiet EXCEPT ![b] = TRUE]
  /\ UNCHANGED <<vars, graph, tidy, changes>>

ListMeetings(b) ==
  /\ pc[b] = "idle"
  /\ pc' = [pc EXCEPT ![b] = "read"]
  /\ todo' = [todo EXCEPT ![b] = Registered]
  /\ reading' = [reading EXCEPT ![b] = Nothing]
  /\ quiet' = [quiet EXCEPT ![b] = TRUE]
  /\ UNCHANGED <<vars, graph, tidy, changes>>

\* list_meetings: by date, those without one last.
NoLater(x, y) == Date[y] = 0 \/ (Date[x] # 0 /\ Date[x] <= Date[y])

\* find_by_meeting, in the order of the list.
ReadMeeting(b) ==
  /\ pc[b] = "read"
  /\ \E x \in todo[b] :
       /\ \A y \in todo[b] : NoLater(x, y)
       /\ todo' = [todo EXCEPT ![b] = @ \ {x}]
       /\ reading' = [reading EXCEPT ![b] =
            [y \in DOMAIN @ \cup {x} |-> IF y = x THEN FindByMeeting(x) ELSE @[y]]]
  /\ UNCHANGED <<vars, graph, pc, quiet, tidy, changes>>

\* A node id that is taken keeps its row.
AddNodes(b) ==
  /\ pc[b] = "read" /\ todo[b] = {}
  /\ LET taken == NodeIds(nodes)
     IN  nodes' = nodes \cup {n \in GraphNodes(reading[b]) : n.id \notin taken}
  /\ pc' = [pc EXCEPT ![b] = "edges"]
  /\ UNCHANGED <<vars, edges, todo, reading, quiet, tidy, changes>>

\* Both ends of an edge are foreign keys: INSERT OR IGNORE does not excuse them.
Attached(es) == UNION {{e[1], e[3]} : e \in es} \subseteq NodeIds(nodes)

AddEdges(b) ==
  /\ pc[b] = "edges"
  /\ Attached(GraphEdges(reading[b]))
  /\ edges' = edges \cup GraphEdges(reading[b])
  /\ pc' = [pc EXCEPT ![b] = "idle"]
  /\ reading' = [reading EXCEPT ![b] = Nothing]
  /\ UNCHANGED <<vars, nodes, todo, quiet, tidy, changes>>

\* The process dies between two transactions; the next command begins anew.
Quit(b) ==
  /\ pc[b] \in {"read", "edges"}
  /\ pc' = [pc EXCEPT ![b] = "idle"]
  /\ todo' = [todo EXCEPT ![b] = {}]
  /\ reading' = [reading EXCEPT ![b] = Nothing]
  /\ quiet' = [quiet EXCEPT ![b] = FALSE]
  /\ UNCHANGED <<vars, graph, tidy, changes>>

SyncNext ==
  \/ ClientImports
  \/ ClientEdits
  \/ ClientDeletes
  \/ \E b \in Builder :
       ListMeetings(b) \/ ReadMeeting(b) \/ AddNodes(b) \/ AddEdges(b) \/ Quit(b)

SyncSpec == SyncInit /\ [][SyncNext]_syncVars

------------------------------------------------------------------------------
\* add_edges never meets a missing node, whatever was deleted, added or changed
\* while the builder read: nodes and edges come from one reading.
EdgesAttached ==
  /\ Attached(edges)
  /\ \A b \in Builder : pc[b] = "edges" => Attached(GraphEdges(reading[b]))

\* A command that has just rebuilt the graph.
Rebuilt(b) == pc[b] = "idle" /\ quiet[b]

\* After a rebuild nothing of the store is missing in the graph, even where an
\* earlier build died halfway or read a store in motion.
RebuildCovers ==
  \A b \in Builder :
    Rebuilt(b) =>
      /\ NodeIds(GraphNodes(WholeStore)) \subseteq NodeIds(nodes)
      /\ GraphEdges(WholeStore) \subseteq edges

Reflects == nodes = GraphNodes(WholeStore) /\ edges = GraphEdges(WholeStore)

\* As long as the store only grows in chronological order, and not under a
\* builder's eyes, building step by step gives what one build at the end gives.
ExactWhileTidy == \A b \in Builder : Rebuilt(b) /\ tidy => Reflects

\* "rebuild it idempotently first, so it always reflects the current data".
ReflectsCurrentData == \A b \in Builder : Rebuilt(b) => Reflects
==============================================================================
