----------------------------- MODULE MCGraphSync -----------------------------
(***************************************************************************)
(* The knowledge graph: a behaviour synchronises it with the store, asks   *)
(* one question about some graph of four nodes, or analyses some store.    *)
(*                                                                         *)
(* Three meetings in order of date.  The same risk comes up in each; the   *)
(* second also yields a commitment that mentions the risk's project, the   *)
(* third a decision and a question about it.                               *)
(***************************************************************************)
EXTENDS Intelligence, GraphQueries, TLC

CONSTANTS a, b, c, m1, m2, m3, m4, m5, m6, risk, promise, choice, doubt, threat, vow, pledge,
          p, q, h1, h2, h3

MCProject == <<"project", "atlas">>
MCTechnology == <<"technology", "sqlite">>
MCEntity == {MCProject, MCTechnology}

MCAbout ==
  (risk :> [type |-> "risk", speaker |-> p, owner |-> NULL, mentions |-> {MCProject}])
  @@ (promise :> [type |-> "commitment", speaker |-> NULL, owner |-> q,
                  mentions |-> {MCProject, MCTechnology}])
  @@ (choice :> [type |-> "decision", speaker |-> p, owner |-> NULL, mentions |-> {MCProject}])
  @@ (doubt :> [type |-> "question", speaker |-> NULL, owner |-> NULL, mentions |-> {MCProject}])
  @@ (threat :> [type |-> "risk", speaker |-> q, owner |-> NULL, mentions |-> {MCProject}])
  @@ (vow :> [type |-> "commitment", speaker |-> p, owner |-> NULL, mentions |-> {}])
  @@ (pledge :> [type |-> "commitment", speaker |-> q, owner |-> p, mentions |-> {}])
MCDue == (vow :> 95) @@ (pledge :> 40) @@ [x \in Content |-> 0]

MCParticipants == (a :> {p}) @@ (b :> {}) @@ (c :> {p, q})
MCTitleMentions == [x \in MeetingId |-> IF x = a THEN {MCTechnology} ELSE {}]
MCCorrections == {<<m1, m2>>, <<m4, m1>>, <<m2, m2>>}
MCHashOf == (a :> h1) @@ (b :> h2) @@ (c :> h3)
MCDate == (a :> 0) @@ (b :> 1) @@ (c :> 101)
MCChrono == (m1 :> 1) @@ (m2 :> 2) @@ (m3 :> 3) @@ (m4 :> 4) @@ (m5 :> 5) @@ (m6 :> 6)
MCNameRank == (p :> 1) @@ (q :> 2)

MCRecord(m, x, content) ==
  [memory_id |-> m,
   row |-> [meeting_id |-> x, content |-> content, status |-> "ACTIVE", superseded_by |-> NULL]]

MCBatch ==
  {<<MCRecord(m1, a, risk)>>,
   <<MCRecord(m2, b, risk), MCRecord(m3, b, promise)>>,
   <<MCRecord(m4, c, risk), MCRecord(m5, c, choice), MCRecord(m6, c, doubt)>>}

AllTypes == {"person", "meeting"}

\* Every graph is asked about, so one node, and one not stored yet, are enough
\* to ask from.
Wide == [kind |-> "neighbors", from |-> 2, direction |-> "both", depth |-> 2,
         types |-> AllTypes, limit |-> Unlimited]
MCQuery ==
  [kind : {"path"}, from : {2}, to : Id, depth : {1, 6}]
    \cup {[kind |-> "path", from |-> Unknown, to |-> 2, depth |-> 6], [Wide EXCEPT !.from = Unknown]}
    \cup [kind : {"neighbors"}, from : {2}, direction : {"out", "in", "both"}, depth : {0, 2},
          types : {AllTypes}, limit : {Unlimited}]
    \cup {[Wide EXCEPT !.types = {"person"}, !.limit = 1], [Wide EXCEPT !.kind = "related", !.limit = 2],
          [Wide EXCEPT !.kind = "related", !.types = {"meeting"}], [Wide EXCEPT !.types = {}, !.depth = 0]}
    \cup [kind : {"lineage"}, from : Id]
    \cup [kind : {"components"}, from : {Unknown}]
MCTypeOf == [n \in Id |-> IF n \in {1, 3} THEN "person" ELSE "meeting"]

NoQuery ==
  /\ known = {} /\ arcs = {} /\ first = [known |-> {}, arcs |-> {}]
  /\ query = [kind |-> "none", from |-> Unknown]
  /\ progress = "none" /\ selects = {} /\ rows = {} /\ round = 0
  /\ visited = {} /\ queue = <<>> /\ came_from = <<>> /\ used = {} /\ answer = <<>>

(***************************************************************************)
(* The stores that are analysed: four decisions with histories of every    *)
(* shape, commitments, or risks, in every status.                          *)
(***************************************************************************)
Row(x, content, status, by) ==
  [meeting_id |-> x, content |-> content, status |-> status, superseded_by |-> by]
Rows(x, contents, statuses) == {Row(x, k, s, NULL) : k \in contents, s \in statuses}
Histories(x, status, successors) ==
  {Row(x, choice, status, NULL)} \cup {Row(x, choice, "SUPERSEDED", by) : by \in successors}
Store(r1, r2, r3, r4, r5, r6) ==
  {(m1 :> s1) @@ (m2 :> s2) @@ (m3 :> s3) @@ (m4 :> s4) @@ (m5 :> s5) @@ (m6 :> s6) :
     s1 \in r1, s2 \in r2, s3 \in r3, s4 \in r4, s5 \in r5, s6 \in r6}
MCShelf ==
  Store(Histories(a, "ARCHIVED", {m2, m4, m6}), Histories(b, "ACTIVE", {m1, m4, m5}),
        Rows(b, {promise}, {"ACTIVE"}), Histories(c, "ACTIVE", {m2, m5}),
        Histories(c, "ACTIVE", {m4, m6}), Rows(c, {doubt}, {"ACTIVE"}))
  \cup
  Store(Rows(a, {vow}, {"ACTIVE", "DELETED"}), Rows(b, {vow, pledge}, {"ACTIVE", "RESOLVED"}),
        Rows(b, {promise, pledge}, {"ACTIVE", "RESOLVED"}), Rows(c, {vow, promise}, {"ACTIVE"}),
        Rows(c, {pledge}, {"ACTIVE", "RESOLVED"}), Rows(c, {choice}, {"ACTIVE"}))
  \cup
  Store(Rows(a, {risk}, {"ACTIVE", "RESOLVED"}), Rows(b, {risk, threat}, {"ACTIVE", "ARCHIVED"}),
        {NULL} \cup Rows(b, {threat}, {"ACTIVE"}), {NULL} \cup Rows(c, {risk, threat}, {"ACTIVE", "DELETED"}),
        {NULL}, Rows(c, {vow}, {"ACTIVE"}))

Ask == [person |-> NULL, meetings |-> {}, types |-> {}, project |-> NULL, graph |-> TRUE, reference |-> 0]
MCRequest ==
  {Ask, [Ask EXCEPT !.person = p], [Ask EXCEPT !.person = q],
   [Ask EXCEPT !.types = {"commitment", "risk"}], [Ask EXCEPT !.meetings = {a, b}],
   [Ask EXCEPT !.project = MCProject], [Ask EXCEPT !.project = MCProject, !.graph = FALSE, !.reference = 45]}

Unasked == request = Ask /\ stage = "none" /\ listed = NothingRead /\ report = NoReport

MCInit ==
  \/ SyncInit /\ Unasked /\ (NoQuery \/ QueryInit)
  \/ IntelligenceInit /\ NoQuery
MCNext ==
  \/ query.kind = "none" /\ stage = "none" /\ SyncNext /\ UNCHANGED <<queryVars, request, stage, listed, report>>
  \/ QueryNext /\ UNCHANGED intelligenceVars
  \/ stage # "none" /\ AnalyzeNext /\ UNCHANGED queryVars
MCSpec == MCInit /\ [][MCNext]_<<intelligenceVars, queryVars>>
SyncOnly ==
  /\ SyncInit /\ NoQuery /\ Unasked
  /\ [][SyncNext /\ UNCHANGED <<queryVars, request, stage, listed, report>>]_<<intelligenceVars, queryVars>>
==============================================================================
