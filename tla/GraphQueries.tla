----------------------------- MODULE GraphQueries -----------------------------
(***************************************************************************)
(* graph/engine.py and graph/lineage.py: the searches that answer a        *)
(* question about the stored graph.  Each SELECT is an action, and another *)
(* process may rebuild the graph in between: nodes and edges are added, in *)
(* two transactions, and never removed.                                    *)
(*                                                                         *)
(* Nodes are numbers in the order of their ids.  The arcs are those of     *)
(* the relationships the query asks for, as <<source, target>>: parallel   *)
(* arcs answer every question alike.  A lineage follows one relationship,  *)
(* whose arcs point from the newer node to the older.                      *)
(***************************************************************************)
EXTENDS Naturals, Sequences, SequencesExt, FiniteSetsExt, Ordering

CONSTANTS
  Node,           \* ids of nodes stored from the start
  Unknown,        \* an id that is not, before all others
  TypeOf,         \* Id -> the type of the node
  Query,          \* the questions asked
  Unlimited,      \* no limit
  MaxEdges,       \* bound: arcs of the graph
  MaxGrowth,      \* bound: arcs added while a question is answered
  LineageDepth    \* _component's max_depth

Id == Node \cup {Unknown}
Arc == Node \X Node

ASSUME QueryAssumption ==
  /\ Id \subseteq Nat /\ IsFiniteSet(Id)
  /\ Unknown \notin Node
  /\ LineageDepth \in Nat
  /\ Query \subseteq
       [kind : {"path"}, from : Id, to : Id, depth : Nat]
         \cup [kind : {"neighbors", "related"}, from : Id, direction : {"out", "in", "both"},
               depth : Nat, types : SUBSET Range(TypeOf), limit : Nat \cup {Unlimited}]
         \cup [kind : {"lineage"}, from : Id]
         \cup [kind : {"components"}, from : {Unknown}]

VARIABLES
  known, arcs,    \* the graph: ids of the nodes stored, and the arcs
  first,          \* ghost: both as they were when the question was asked
  query,
  progress,       \* the statement or the loop that comes next, "done" or "none"
  selects, rows,  \* <<node, direction>> whose arcs are still to be selected, those selected;
                  \* _nodes_for: the same of nodes
  round,          \* rounds done by neighbors or _component
  visited,        \* nodes seen
  queue,          \* <<node, hops>> yet to be expanded
  came_from,      \* find_path: node -> the node it was found from
  used,           \* neighbors: the arcs followed
  answer          \* the nodes in order; of components, sets of them

graphVars == <<known, arcs, first>>
searchVars == <<progress, selects, rows, round, visited, queue, came_from, used, answer>>
queryVars == <<graphVars, query, searchVars>>

Goes(kinds, at) == query.kind \in kinds /\ progress = at

------------------------------------------------------------------------------
(* Reading the arcs at some nodes *)
\* The selects of _adjacency, node by node, outgoing before incoming.
Reads(nodes, direction) == nodes \X {d \in {"out", "in"} : direction \in {d, "both"}}
ReadBefore(r, s) == r[1] < s[1] \/ (r[1] = s[1] /\ r[2] = "out")

ArcsAt(read) == {e \in arcs : e[IF read[2] = "out" THEN 1 ELSE 2] = read[1]}
Seen == rows \cup UNION {ArcsAt(r) : r \in selects}

\* The other ends of arcs read at nodes that were visited before.
FarEnds(es, direction) ==
  {e[2] : e \in {d \in es : direction # "in"}} \cup {e[1] : e \in {d \in es : direction # "out"}}

\* The members of a lineage are a set: they are read in any order.
ReadOn ==
  /\ progress \in {"round", "expand", "older"}
  /\ Cardinality(selects) > 1
  /\ \E r \in selects :
       /\ progress = "older" \/ \A s \in selects \ {r} : ReadBefore(r, s)
       /\ rows' = rows \cup ArcsAt(r) /\ selects' = selects \ {r}
  /\ UNCHANGED <<progress, round, visited, queue, came_from, used, answer>>

LastRead(kinds, at) == Goes(kinds, at) /\ Cardinality(selects) = 1

QueryInit ==
  /\ known = Node
  /\ arcs \in UNION {kSubset(k, Arc) : k \in 0 .. MaxEdges}
  /\ first = [known |-> known, arcs |-> arcs]
  /\ query \in Query
  /\ progress = "start"
  /\ selects = {} /\ rows = {} /\ round = 0
  /\ visited = {} /\ queue = <<>> /\ came_from = <<>> /\ used = {} /\ answer = <<>>

Conclude(path, outcome) ==
  /\ answer' = path /\ progress' = outcome
  /\ selects' = {} /\ rows' = {}
  /\ UNCHANGED <<round, visited, queue, came_from, used>>

------------------------------------------------------------------------------
(* neighbors and related *)
\* Mutant of RoundsLeft: the loop over the depth has one turn more.
RoundsLeft_OneMore(done, depth) == done <= depth

RoundsLeft(done, depth) == done < depth

\* The next round reads at what the last one discovered.
NextRound(discovered, direction) ==
  /\ selects' = Reads(discovered, direction) /\ rows' = {}

Limited(ids, limit) == IF limit = Unlimited THEN ids ELSE SubSeq(ids, 1, Min({limit, Len(ids)}))

\* Of the nodes that are stored, those asked for; no filter is one with all the
\* types.  related leaves the node itself out before it limits.
NodesFound(found) ==
  LET nodes == {n \in found : TypeOf[n] \in query.types}
      wanted == IF query.kind = "related" THEN nodes \ {query.from} ELSE nodes
  IN  Limited(Ascending(wanted), query.limit)

StartNeighbors ==
  /\ Goes({"neighbors", "related"}, "start")
  /\ visited' = {query.from}
  /\ \/ /\ RoundsLeft(0, query.depth)
        /\ progress' = "round" /\ selects' = Reads({query.from}, query.direction)
     \/ /\ ~RoundsLeft(0, query.depth)
        /\ progress' = "found" /\ selects' = {query.from}
  /\ UNCHANGED <<rows, round, queue, came_from, used, answer>>

\* The last read of a round, and what the round makes of its rows.
Explore ==
  /\ LastRead({"neighbors", "related"}, "round")
  /\ LET discovered == FarEnds(Seen, query.direction) \ visited
     IN  /\ used' = used \cup Seen
         /\ visited' = visited \cup discovered
         /\ round' = round + 1
         /\ rows' = {}
         /\ \/ /\ discovered # {} /\ RoundsLeft(round + 1, query.depth)
               /\ selects' = Reads(discovered, query.direction)
               /\ UNCHANGED progress
            \/ /\ discovered = {} \/ ~RoundsLeft(round + 1, query.depth)
               /\ progress' = "found" /\ selects' = visited'
  /\ UNCHANGED <<queue, came_from, answer>>

\* _nodes_for: has_node and get_node for one node seen after the other; nodes
\* are never removed.
FindNode ==
  /\ Goes({"neighbors", "related"}, "found") /\ selects # {}
  /\ LET n == Min(selects)
     IN  selects' = selects \ {n} /\ rows' = rows \cup ({n} \cap known)
  /\ UNCHANGED <<progress, round, visited, queue, came_from, used, answer>>

FilterNodes ==
  /\ Goes({"neighbors", "related"}, "found") /\ selects = {}
  /\ Conclude(NodesFound(rows), "done")

------------------------------------------------------------------------------
(* find_path *)
CheckSource ==
  /\ Goes({"path"}, "start")
  /\ IF query.from \in known THEN Conclude(<<>>, "target") ELSE Conclude(<<>>, "none")

CheckTarget ==
  /\ Goes({"path"}, "target")
  /\ \/ query.to \notin known /\ Conclude(<<>>, "none")
     \/ query.to = query.from /\ query.to \in known /\ Conclude(<<query.from>>, "done")
     \/ /\ query.to # query.from /\ query.to \in known
        /\ progress' = "next"
        /\ visited' = {query.from} /\ queue' = <<<<query.from, 0>>>>
        /\ UNCHANGED <<selects, rows, round, came_from, used, answer>>

\* _reconstruct: back from the target, one step in each turn of the loop.  No
\* node that was found is further away than max_depth.
PathTo(target, found) ==
  LET path[k \in Nat] ==
        IF k = 0 THEN <<target>>
        ELSE LET rest == path[k - 1]
             IN  IF Head(rest) = query.from THEN rest ELSE <<found[Head(rest)]>> \o rest
  IN  path[query.depth]

\* Mutant of Expandable: the nodes at max_depth are expanded as well.
Expandable_TooDeep(hops) == hops <= query.depth

Expandable(hops) == hops < query.depth

\* `while queue`: a node at max_depth is dropped, any other one is read.
TakeNext ==
  /\ Goes({"path"}, "next")
  /\ \/ queue = <<>> /\ Conclude(<<>>, "none")
     \/ /\ queue # <<>> /\ ~Expandable(Head(queue)[2])
        /\ queue' = Tail(queue)
        /\ UNCHANGED <<progress, selects, rows, round, visited, came_from, used, answer>>
     \/ /\ queue # <<>> /\ Expandable(Head(queue)[2])
        /\ progress' = "expand" /\ selects' = Reads({Head(queue)[1]}, "both")
        /\ UNCHANGED <<rows, round, visited, queue, came_from, used, answer>>

Expand ==
  /\ LastRead({"path"}, "expand")
  /\ LET current == Head(queue)[1]
         new == FarEnds(Seen, "both") \ visited
         ordered == Ascending(new)
         found == [n \in DOMAIN came_from \cup new |-> IF n \in new THEN current ELSE came_from[n]]
     IN  \/ query.to \in new /\ Conclude(PathTo(query.to, found), "done")
         \/ /\ query.to \notin new
            /\ visited' = visited \cup new
            /\ came_from' = found
            /\ queue' = Tail(queue) \o [i \in DOMAIN ordered |-> <<ordered[i], Head(queue)[2] + 1>>]
            /\ progress' = "next" /\ selects' = {} /\ rows' = {}
            /\ UNCHANGED <<round, used, answer>>

------------------------------------------------------------------------------
(* connected_components *)
ListEdges ==
  /\ Goes({"components"}, "start")
  /\ rows' = arcs /\ progress' = "nodes"
  /\ UNCHANGED <<selects, round, visited, queue, came_from, used, answer>>

\* The nodes to start from, in order of their ids.
ListNodes ==
  /\ Goes({"components"}, "nodes")
  /\ LET ordered == Ascending(known)
     IN  queue' = [i \in DOMAIN ordered |-> <<ordered[i], 0>>]
  /\ progress' = "component"
  /\ UNCHANGED <<selects, rows, round, visited, came_from, used, answer>>

Touching(nodes) ==
  {e[2] : e \in {d \in rows : d[1] \in nodes}} \cup {e[1] : e \in {d \in rows : d[2] \in nodes}}

\* Lets the last component grow by what its members touch, or starts another at
\* the next node not visited.
Flood ==
  /\ Goes({"components"}, "component")
  /\ LET members == IF answer = <<>> THEN {} ELSE Last(answer)
         new == Touching(members) \ visited
         start == Head(queue)[1]
         found == Range(answer)
     IN  \/ /\ new # {}
            /\ answer' = Append(Front(answer), members \cup new) /\ visited' = visited \cup new
            /\ UNCHANGED <<progress, queue>>
         \/ /\ new = {} /\ queue # <<>>
            /\ queue' = Tail(queue)
            /\ \/ start \in visited /\ UNCHANGED <<answer, visited>>
               \/ /\ start \notin visited
                  /\ answer' = Append(answer, {start}) /\ visited' = visited \cup {start}
            /\ UNCHANGED progress
         \/ /\ new = {} /\ queue = <<>>
            /\ answer' = Arranged(found, {p \in found \X found : Min(p[1]) < Min(p[2])})
            /\ progress' = "done"
            /\ UNCHANGED <<visited, queue>>
  /\ UNCHANGED <<selects, rows, round, came_from, used>>

------------------------------------------------------------------------------
(* relationship_lineage *)
StartLineage ==
  /\ Goes({"lineage"}, "start")
  /\ \/ query.from \notin known /\ Conclude(<<>>, "none")
     \/ /\ query.from \in known
        /\ visited' = {query.from}
        /\ \/ /\ RoundsLeft(0, LineageDepth)
              /\ progress' = "round" /\ selects' = Reads({query.from}, "both")
           \/ /\ ~RoundsLeft(0, LineageDepth)
              /\ progress' = "older" /\ selects' = Reads({query.from}, "out")
        /\ UNCHANGED <<rows, round, queue, came_from, used, answer>>

\* _component: everything connected with the node, up to max_depth rounds.
\* Then the outgoing arcs of the members are read again.
Gather ==
  /\ LastRead({"lineage"}, "round")
  /\ LET discovered == FarEnds(Seen, "both") \ visited
     IN  /\ visited' = visited \cup discovered
         /\ round' = round + 1
         /\ rows' = {}
         /\ \/ /\ discovered # {} /\ RoundsLeft(round + 1, LineageDepth)
               /\ selects' = Reads(discovered, "both")
               /\ UNCHANGED progress
            \/ /\ discovered = {} \/ ~RoundsLeft(round + 1, LineageDepth)
               /\ progress' = "older"
               /\ selects' = Reads(visited', "out")
  /\ UNCHANGED <<queue, came_from, used, answer>>

OlderThan(n, es) == {e[2] : e \in {d \in es : d[1] = n}}
Newest(members, es) == {n \in members : \A d \in es : d[2] # n}

\* Mutant of LineageStart: the chain begins with the node asked about.
LineageStart_Asked(members, es) == query.from

\* The first of the nodes that nothing supersedes, or of them all.
LineageStart(members, es) ==
  Min(IF Newest(members, es) # {} THEN Newest(members, es) ELSE members)

\* The chain: the next older node is put before the others.  It may be no
\* member, if its arc was added after the members were gathered.
LineageChain(start, es) ==
  LET chain[k \in Nat] ==
        IF k = 0 THEN <<start>>
        ELSE LET newer == chain[k - 1]
                 next == OlderThan(newer[1], es) \ Range(newer)
             IN  IF next = {} THEN newer ELSE <<Min(next)>> \o newer
  IN  chain[Cardinality(Id)]

Order ==
  /\ LastRead({"lineage"}, "older")
  /\ Conclude(LineageChain(LineageStart(visited, Seen), Seen), "done")

------------------------------------------------------------------------------
\* A rebuild in another process: add_nodes, then add_edges.
Asking == progress \notin {"done", "none"}
NodesArrive ==
  /\ Asking /\ known # Id
  /\ known' = Id
  /\ UNCHANGED <<arcs, first, query, searchVars>>
ArcsArrive ==
  /\ Asking /\ Cardinality(arcs) < MaxEdges /\ Cardinality(arcs \ first.arcs) < MaxGrowth
  /\ \E e \in (known \X known) \ arcs : arcs' = arcs \cup {e}
  /\ UNCHANGED <<known, first, query, searchVars>>

QueryNext ==
  \/ /\ \/ ReadOn \/ StartNeighbors \/ Explore \/ FindNode \/ FilterNodes
        \/ CheckSource \/ CheckTarget \/ TakeNext \/ Expand
        \/ ListEdges \/ ListNodes \/ Flood
        \/ StartLineage \/ Gather \/ Order
     /\ UNCHANGED <<graphVars, query>>
  \/ NodesArrive \/ ArcsArrive

QuerySpec == QueryInit /\ [][QueryNext]_queryVars

------------------------------------------------------------------------------
(* What the answers mean: the graph as it was, and as it is now *)
Now == [known |-> known, arcs |-> arcs]
Follows(graph, m, n, direction) ==
  \/ direction # "in" /\ <<m, n>> \in graph.arcs
  \/ direction # "out" /\ <<n, m>> \in graph.arcs

\* What some steps reach from a node, and the stored nodes among it.
Ball(graph, from, direction) ==
  LET ball[k \in Nat] ==
        IF k = 0 THEN {from}
        ELSE LET inner == ball[k - 1]
             IN  inner \cup {n \in graph.known : \E m \in inner : Follows(graph, m, n, direction)}
  IN  ball
Within(graph, from, direction, steps) == Ball(graph, from, direction)[steps] \cap graph.known
Connected(graph, n) == Within(graph, n, "both", Cardinality(Id))

\* find_path returns a path of the graph from end to end, no longer than the
\* shortest there was when it was asked, and misses none there was within
\* max_depth, whatever a rebuild adds while it searches.
PathShortest ==
  query.kind = "path" =>
    /\ progress = "done" =>
         /\ Head(answer) = query.from /\ Last(answer) = query.to
         /\ \A i \in 1 .. Len(answer) - 1 : Follows(Now, answer[i], answer[i + 1], "both")
         /\ Len(answer) - 1 <= query.depth
         /\ \A k \in 0 .. Len(answer) - 2 : query.to \notin Within(first, query.from, "both", k)
    /\ progress = "none" /\ query.from \in first.known =>
         query.to \notin Within(first, query.from, "both", query.depth)

\* neighbors and related return, of the nodes within `depth` steps, those asked
\* for, the smallest first: none that was there is missing unless the limit cuts
\* it off, and none is returned that is not there now.  The edges are those at the
\* nodes within one step less, and both their ends are nodes that were found.
NeighborhoodExact ==
  query.kind \in {"neighbors", "related"} /\ progress = "done" =>
    LET within(graph, d) == Within(graph, query.from, query.direction, d)
        wanted(graph) ==
          {n \in within(graph, query.depth) : /\ TypeOf[n] \in query.types
                                              /\ query.kind = "related" => n # query.from}
        at(graph) == IF query.depth = 0 THEN {}
                     ELSE {e \in graph.arcs :
                             \/ query.direction # "in" /\ e[1] \in within(graph, query.depth - 1)
                             \/ query.direction # "out" /\ e[2] \in within(graph, query.depth - 1)}
    IN  /\ \A i, j \in DOMAIN answer : i < j => answer[i] < answer[j]
        /\ Range(answer) \subseteq wanted(Now)
        /\ \A n \in wanted(first) \ Range(answer) :
             Len(answer) = query.limit /\ \A m \in Range(answer) : m < n
        /\ at(first) \subseteq used /\ used \subseteq at(Now)
        /\ \A e \in used : {e[1], e[2]} \subseteq visited

\* connected_components parts the nodes into what is connected, each once, the
\* component with the smallest node first.
ComponentsExact ==
  query.kind = "components" /\ progress = "done" =>
    /\ first.known \subseteq UNION Range(answer) /\ UNION Range(answer) \subseteq known
    /\ \A i, j \in DOMAIN answer : i < j => /\ answer[i] \cap answer[j] = {}
                                          /\ Min(answer[i]) < Min(answer[j])
    /\ \A i \in DOMAIN answer : \A n \in answer[i] :
         Connected(first, n) \subseteq answer[i] /\ answer[i] \subseteq Connected(Now, n)

\* The searches without an order of their own: what is near, and what is connected
\* (engine.py, neighbors, related and connected_components).
SearchesExact == NeighborhoodExact /\ ComponentsExact

\* A lineage is a chain in which each node supersedes the one before, and no
\* node comes twice even if supersession is circular.  If the history of the
\* node is a chain, the lineage has all of it that was there within max_depth
\* steps, whichever node was asked about, also if a rebuild makes the chain
\* longer meanwhile.
ChainOf(nodes, es) ==
  \E f \in [nodes -> 1 .. Cardinality(nodes)] :
    /\ \A m, n \in nodes : f[m] = f[n] => m = n
    /\ \A m, n \in nodes : <<m, n>> \in es <=> f[m] = f[n] + 1

LineageWhole ==
  query.kind = "lineage" /\ progress = "done" =>
    /\ \A i \in 1 .. Len(answer) - 1 : <<answer[i + 1], answer[i]>> \in arcs
    /\ \A i, j \in DOMAIN answer : answer[i] = answer[j] => i = j
    /\ LET history == Connected(Now, query.from)
       IN  /\ Range(answer) \subseteq history
           /\ ChainOf(history, arcs) =>
                Within(first, query.from, "both", LineageDepth) \subseteq Range(answer)
==============================================================================
