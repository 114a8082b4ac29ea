------------------------------ MODULE Intelligence ------------------------------
(***************************************************************************)
(* intelligence/: one call of IntelligenceEngine.analyze.  It rebuilds the *)
(* graph, lists memories and meetings in two statements, and makes of them *)
(* a context, insights, recommendations, metrics and scores, while clients *)
(* delete meetings.                                                        *)
(*                                                                         *)
(* Dates are days, 0 for none.  Rates are ten-thousandths, rounded.  Order *)
(* of the lists, wording, and the ages of resolved memories are left out.  *)
(***************************************************************************)
EXTENDS GraphSync, FiniteSetsExt

CONSTANTS
  Due,       \* Content -> day a commitment is due, 0 when none or unparsable
  Shelf,     \* the tables of memories that are analysed
  Request    \* the calls

ASSUME AnalysisAssumption ==
  /\ Due \in [Content -> Nat]
  /\ Request \subseteq
       [person : Person \cup {NULL}, meetings : SUBSET MeetingId, types : SUBSET MemoryType,
        project : Entity \cup {NULL}, graph : BOOLEAN, reference : Nat]

VARIABLES
  request,   \* the filters and options of the call
  stage,     \* the statement that comes next, or "done"
  listed,    \* the records and the meetings read so far
  report     \* the result

intelligenceVars == <<syncVars, request, stage, listed, report>>

------------------------------------------------------------------------------
(* The context *)
OwnerOf(r) == IF About1(r).owner # NULL THEN About1(r).owner ELSE About1(r).speaker

ProjectMemoryIds(project) == {e[1][2] : e \in {f \in edges : f[3] = project /\ f[1][1] # "meeting"}}

\* Mutant of Selected: memories of meetings that were filtered out stay.
Selected_AnyMeeting(call, chosen, r) ==
  /\ r.row.status # "DELETED"
  /\ call.types = {} \/ Type(r) \in call.types
  /\ call.person = NULL \/ OwnerOf(r) = call.person
  /\ \/ call.project = NULL \/ ~call.graph
     \/ r.memory_id \in ProjectMemoryIds(call.project)

Selected(call, chosen, r) ==
  /\ r.row.status # "DELETED"
  /\ r.row.meeting_id \in chosen
  /\ call.types = {} \/ Type(r) \in call.types
  /\ call.person = NULL \/ OwnerOf(r) = call.person
  /\ \/ call.project = NULL \/ ~call.graph
     \/ r.memory_id \in ProjectMemoryIds(call.project)

Context(call, found) ==
  LET chosen == IF call.meetings = {} THEN found.meetings ELSE found.meetings \cap call.meetings
      dates == {Date[x] : x \in chosen}
  IN  [memories |-> {r \in found.records : Selected(call, chosen, r)},
       meetings |-> chosen, graph |-> call.graph,
       reference |-> IF call.reference # 0 THEN call.reference ELSE Max(dates \cup {0})]

ByType(c, type) == OfType(c.memories, {type})
MemoryDate(c, r) == IF r.row.meeting_id \in c.meetings THEN Date[r.row.meeting_id] ELSE 0

------------------------------------------------------------------------------
(* Shared by the analyses *)
DaysBetween(start, end) == IF start = 0 \/ end = 0 THEN 0 ELSE end - start
SpanDays(dates) == IF dates \ {0} = {} THEN 0 ELSE Max(dates \ {0}) - Min(dates \ {0})
ChainSpan(c, records) == SpanDays({MemoryDate(c, r) : r \in records})

Having(records, statuses) == {r \in records : r.row.status \in statuses}
Open(records) == Having(records, {"ACTIVE"})
OwnedByPerson(records, p) == {r \in records : OwnerOf(r) = p}
MeetingsOf(records) == {r.row.meeting_id : r \in records}

ContentGroups(records) ==
  {{r \in records : r.row.content = content} : content \in {r.row.content : r \in records}}
RecurringGroups(records) == {g \in ContentGroups(records) : Cardinality(MeetingsOf(g)) > 1}

\* From the decisions that supersede no decision along their pointers, as
\* far as these stay in the context and reach nothing twice.
SupersessionChains(decisions, index) ==
  LET ids == {r.memory_id : r \in index}
      superseded == {r \in decisions : r.row.superseded_by # NULL}
      targets == {r.row.superseded_by : r \in superseded}
      next(chain) == {r.row.superseded_by : r \in {s \in superseded : s.memory_id = chain[Len(chain)]}}
      walk[n \in 0 .. Cardinality(index), start \in ids] ==
        IF n = 0 THEN <<start>>
        ELSE LET chain == walk[n - 1, start]
                 more == (next(chain) \cap ids) \ {chain[i] : i \in DOMAIN chain}
             IN  IF more = {} THEN chain ELSE Append(chain, CHOOSE m \in more : TRUE)
      starts == {r.memory_id : r \in superseded} \ targets
  IN  {chain \in {walk[Cardinality(index), m] : m \in starts} : Len(chain) > 1}

ScaleSeverity(value, medium, high, critical) ==
  CASE value >= critical -> "critical"
    [] value >= high /\ value < critical -> "high"
    [] value >= medium /\ value < high -> "medium"
    [] OTHER -> "low"

Rate(n, d) == (20000 * n + d) \div (2 * d)
RateOf(part, all) == IF all = {} THEN 0 ELSE Rate(Cardinality(part), Cardinality(all))

Insight(type, category, subject, severity, value, records) ==
  [type |-> type, category |-> category, subject |-> subject, severity |-> severity,
   value |-> value, evidence |-> {r.memory_id : r \in records}]

------------------------------------------------------------------------------
(* Commitments *)
OverdueDays(c, r) ==
  IF r.row.status = "ACTIVE" THEN Max({0, DaysBetween(Due[r.row.content], c.reference)}) ELSE 0
Age(c, r) == DaysBetween(MemoryDate(c, r), c.reference)

OverloadInsights(c) ==
  {LET items == OwnedByPerson(Open(ByType(c, "commitment")), p)
   IN  Insight("open_commitment_overload", "person", p,
               ScaleSeverity(Cardinality(items), 3, 5, 8), Cardinality(items), items) :
     p \in {q \in Person : Cardinality(OwnedByPerson(Open(ByType(c, "commitment")), q)) >= 3}}

OverdueInsights(c) ==
  {Insight("overdue_commitment", "commitment", r.memory_id,
           ScaleSeverity(OverdueDays(c, r), 1, 14, 45), OverdueDays(c, r), {r}) :
     r \in {s \in ByType(c, "commitment") : OverdueDays(c, s) > 0}}

AgingInsights(c) ==
  {Insight("aging_commitment", "commitment", r.memory_id,
           ScaleSeverity(Age(c, r), 30, 90, 180), Age(c, r), {r}) :
     r \in {s \in Open(ByType(c, "commitment")) : Age(c, s) >= 30 /\ OverdueDays(c, s) = 0}}

ResolutionInsight(c) ==
  LET all == ByType(c, "commitment")
      total == Cardinality(all)
      resolved == Cardinality(Having(all, {"RESOLVED"}))
  IN  IF total < 4 \/ 10 * resolved >= 4 * total THEN {}
      ELSE {Insight("low_commitment_resolution", "commitment", NULL,
                    IF 10 * resolved < 2 * total THEN "high" ELSE "medium", Rate(resolved, total), all)}

\* The key with the highest count, the first by name if there are several.
TopCounter(count, keys) ==
  LET top == {p \in keys : \A q \in keys : count[q] <= count[p]}
  IN  IF keys = {} THEN NULL ELSE CHOOSE p \in top : \A q \in top : NameRank[p] <= NameRank[q]

CommitmentMetrics(c) ==
  LET all == ByType(c, "commitment")
      open == Open(all)
      owned == [p \in Person |-> Cardinality(OwnedByPerson(open, p))]
      owner == TopCounter(owned, {p \in Person : owned[p] > 0})
  IN  [total |-> Cardinality(all), open |-> Cardinality(open),
       resolved |-> Cardinality(Having(all, {"RESOLVED"})),
       overdue |-> Cardinality({r \in open : OverdueDays(c, r) > 0}),
       rate |-> RateOf(Having(all, {"RESOLVED"}), all),
       owner |-> owner, owned |-> IF owner = NULL THEN 0 ELSE owned[owner]]

------------------------------------------------------------------------------
(* Decisions *)
SupersededInsights(c) ==
  UNION {LET chain == {r \in c.memories : \E i \in DOMAIN ids : ids[i] = r.memory_id}
             span == ChainSpan(c, chain)
             latest == ids[Len(ids)]
         IN  {Insight("repeatedly_superseded_decision", "decision", latest,
                      ScaleSeverity(n, 2, 3, 5), n, chain) : n \in {Len(ids) - 1} \ {1}}
             \cup {Insight("long_running_decision", "decision", latest,
                           ScaleSeverity(d, 30, 90, 180), d, chain) : d \in {span} \ (0 .. 29)} :
           ids \in SupersessionChains(ByType(c, "decision"), c.memories)}

RecurringInsight(type, category, g) ==
  LET n == Cardinality(MeetingsOf(g))
  IN  Insight(type, category, (CHOOSE r \in g : TRUE).row.content, ScaleSeverity(n, 2, 4, 6), n, g)

RevisitedInsights(c) ==
  {RecurringInsight("revisited_decision", "decision", g) : g \in RecurringGroups(ByType(c, "decision"))}

UnstableInsight(c) ==
  LET all == ByType(c, "decision")
      total == Cardinality(all)
      active == Cardinality(Open(all))
  IN  IF total < 4 \/ 2 * active >= total THEN {}
      ELSE {Insight("unstable_decisions", "decision", NULL, "medium", Rate(active, total), all)}

DecisionMetrics(c) ==
  LET all == ByType(c, "decision")
      spoken == [p \in Person |-> Cardinality({r \in all : About1(r).speaker = p})]
      owners == {p \in Person : spoken[p] > 0}
      weeksTimes7 == Max({7, SpanDays({Date[x] : x \in c.meetings})})
  IN  [total |-> Cardinality(all), active |-> Cardinality(Open(all)),
       superseded |-> Cardinality(Having(all, {"SUPERSEDED"})),
       revisited |-> Cardinality(UNION RecurringGroups(all)),
       stability |-> RateOf(Open(all), all),
       density |-> Rate(Cardinality(all), Max({1, Cardinality(c.meetings)})),
       velocity |-> Rate(7 * Cardinality(all), weeksTimes7),
       owners |-> Cardinality(owners), owner |-> TopCounter(spoken, owners)]

------------------------------------------------------------------------------
(* Risks and projects.  Edges are counted, of the whole graph. *)
ProjectRow(project) ==
  LET into == {e \in edges : e[3] = project}
      from(type) == Cardinality({e \in into : e[1][1] = type})
  IN  [project |-> project, risks |-> from("risk"), decisions |-> from("decision"),
       meetings |-> from("meeting"), blockers |-> Cardinality({e \in into : e[2] = "blocks"})]
ProjectMetrics(c) == IF c.graph THEN {ProjectRow(e) : e \in OfKind(NodeIds(nodes), "project")} ELSE {}

RecurringRiskInsights(c) ==
  UNION {LET span == ChainSpan(c, g)
         IN  {RecurringInsight("recurring_risk", "risk", g)}
             \cup {Insight("long_lived_risk", "risk", (CHOOSE r \in g : TRUE).row.content,
                           ScaleSeverity(d, 60, 120, 240), d, g) : d \in {span} \ (0 .. 59)} :
           g \in RecurringGroups(ByType(c, "risk"))}

UnresolvedInsights(c) ==
  {Insight("unresolved_risk", "risk", r.memory_id, ScaleSeverity(Age(c, r), 30, 90, 180), Age(c, r), {r}) :
     r \in {s \in Open(ByType(c, "risk")) : Age(c, s) >= 30}}

HotspotInsights(c) ==
  LET rows == IF ByType(c, "risk") = {} THEN {} ELSE ProjectMetrics(c)
  IN  {Insight("risk_hotspot", "project", row.project, ScaleSeverity(row.risks, 3, 5, 8), row.risks, {}) :
         row \in {w \in rows : w.risks >= 3}}
      \cup {Insight("project_blocker", "project", row.project,
                    ScaleSeverity(row.blockers, 2, 4, 6), row.blockers, {}) :
              row \in {w \in rows : w.blockers >= 2}}

\* Of several projects with the most risks the code names the first.
RiskMetrics(c) ==
  LET all == ByType(c, "risk")
      resolved == Having(all, {"RESOLVED", "ARCHIVED"})
      groups == RecurringGroups(all)
      rows == IF all = {} THEN {} ELSE ProjectMetrics(c)
  IN  [total |-> Cardinality(all), open |-> Cardinality(Open(all)), resolved |-> Cardinality(resolved),
       rate |-> RateOf(resolved, all), recurring |-> Cardinality(groups),
       most |-> Max({0} \cup {Cardinality(MeetingsOf(g)) : g \in groups}),
       density |-> Rate(Cardinality(all), Max({1, Cardinality(c.meetings)})),
       hotspots |-> {w.project : w \in {v \in rows : v.risks > 0 /\ \A u \in rows : u.risks <= v.risks}}]

------------------------------------------------------------------------------
(* People, meetings, scores *)
\* Mutant of PersonMetrics: who speaks of a commitment is taken to own it.
PersonMetrics_Speaker(c) ==
  LET mine(p, type) == {r \in ByType(c, type) : About1(r).speaker = p}
  IN  [p \in Person |->
         [open |-> Cardinality(Open(mine(p, "commitment"))), total |-> Cardinality(mine(p, "commitment")),
          decisions |-> Cardinality(mine(p, "decision")),
          attended |-> Cardinality({x \in c.meetings : p \in Participants[x]})]]

\* Of the people with nothing to count there is no row in the report.
PersonMetrics(c) ==
  LET mine(p) == OwnedByPerson(ByType(c, "commitment"), p)
  IN  [p \in Person |->
         [open |-> Cardinality(Open(mine(p))), total |-> Cardinality(mine(p)),
          decisions |-> Cardinality({r \in ByType(c, "decision") : About1(r).speaker = p}),
          attended |-> Cardinality({x \in c.meetings : p \in Participants[x]})]]

MeetingMetrics(c) ==
  LET produced == ByType(c, "decision") \cup ByType(c, "commitment")
      total == Cardinality(c.meetings)
      per(records) == IF total = 0 THEN 0 ELSE Rate(Cardinality(records), total)
  IN  [total |-> total, memories |-> Cardinality(c.memories), productivity |-> per(produced),
       perMeeting |-> per(c.memories),
       repeated |-> IF total = 0 THEN 0
                    ELSE RateOf(RecurringGroups(c.memories), ContentGroups(c.memories))]

KnowledgeReuse(c) == RateOf(UNION RecurringGroups(c.memories), c.memories)

CollaborationScore(c) ==
  LET present(least) == UNION {Participants[x] : x \in {y \in c.meetings : Cardinality(Participants[y]) >= least}}
  IN  RateOf(present(2), present(1))

ComposeScores(c) ==
  [stability |-> DecisionMetrics(c).stability, completion |-> CommitmentMetrics(c).rate,
   resolution |-> RiskMetrics(c).rate,
   productivity |-> Min({10000, Rate(MeetingMetrics(c).productivity, 30000)}),
   reuse |-> KnowledgeReuse(c), collaboration |-> CollaborationScore(c)]

\* Six times their mean, which the code rounds.
Overall(s) == s.stability + s.completion + s.resolution + s.productivity + s.reuse + s.collaboration

------------------------------------------------------------------------------
(* The report *)
Insights(c) ==
  OverloadInsights(c) \cup OverdueInsights(c) \cup AgingInsights(c) \cup ResolutionInsight(c)
    \cup SupersededInsights(c) \cup RevisitedInsights(c) \cup UnstableInsight(c)
    \cup RecurringRiskInsights(c) \cup UnresolvedInsights(c) \cup HotspotInsights(c)

Priority == [critical |-> "urgent", high |-> "high", medium |-> "medium", low |-> "low"]

RecommendationsFrom(insights) ==
  {[because |-> i.type, about |-> i.subject, category |-> i.category, severity |-> i.severity,
    priority |-> Priority[i.severity], related |-> i.evidence] : i \in insights}

CadenceRecommendation(c) ==
  IF MeetingMetrics(c).total < 3 \/ MeetingMetrics(c).productivity >= 5000 THEN {}
  ELSE {[because |-> "cadence", about |-> NULL, category |-> "meeting", severity |-> "medium",
         priority |-> "medium", related |-> {}]}

Report(c) ==
  LET found == Insights(c)
      scores == ComposeScores(c)
  IN  [memories |-> {r.memory_id : r \in c.memories}, reference |-> c.reference,
       insights |-> found, recommendations |-> RecommendationsFrom(found) \cup CadenceRecommendation(c),
       projects |-> ProjectMetrics(c), people |-> PersonMetrics(c),
       decision |-> DecisionMetrics(c), commitment |-> CommitmentMetrics(c),
       risk |-> RiskMetrics(c), meeting |-> MeetingMetrics(c),
       scores |-> scores, overall |-> Overall(scores)]

NothingRead == [records |-> {}, meetings |-> {}]
NoReport == [insights |-> {}]

------------------------------------------------------------------------------
(* The call *)
Rebuild ==
  /\ stage = "rebuild"
  /\ LET taken == NodeIds(nodes)
     IN  nodes' = IF request.graph THEN nodes \cup {n \in GraphNodes(WholeStore) : n.id \notin taken}
                  ELSE nodes
  /\ edges' = IF request.graph THEN edges \cup GraphEdges(WholeStore) ELSE edges
  /\ stage' = "list memories"
  /\ UNCHANGED <<vars, builders, tidy, changes, request, listed, report>>

ListMemories ==
  /\ stage = "list memories"
  /\ listed' = [listed EXCEPT !.records = {[memory_id |-> m, row |-> memories[m]] : m \in Stored}]
  /\ stage' = "list meetings"
  /\ UNCHANGED <<syncVars, request, report>>

ListAllMeetings ==
  /\ stage = "list meetings"
  /\ listed' = [listed EXCEPT !.meetings = Registered]
  /\ stage' = "report"
  /\ UNCHANGED <<syncVars, request, report>>

BuildReport ==
  /\ stage = "report"
  /\ report' = Report(Context(request, listed))
  /\ stage' = "done"
  /\ UNCHANGED <<syncVars, request, listed>>

\* A deletion before the call makes another store, one after it has read is
\* not seen; graph and context can differ by what is deleted in between.
Interrupted ==
  /\ stage \in {"list memories", "list meetings"}
  /\ changes = 0
  /\ ClientDeletes
  /\ UNCHANGED <<request, stage, listed, report>>

AnalyzeNext ==
  \/ Rebuild \/ ListMemories \/ ListAllMeetings \/ BuildReport \/ Interrupted

IntelligenceInit ==
  /\ memories \in Shelf
  /\ meetings = HashOf
  /\ evidence = {<<m, memories[m].content>> : m \in Stored}
  /\ metadata = evidence
  /\ reply = "ok"
  /\ Unbuilt
  /\ request \in Request
  /\ stage = "rebuild"
  /\ listed = NothingRead
  /\ report = NoReport

AnalyzeSpec == IntelligenceInit /\ [][AnalyzeNext]_intelligenceVars

------------------------------------------------------------------------------
(* Properties *)
Reported(types) == {i \in report.insights : i.type \in types}
Single == {"overdue_commitment", "aging_commitment", "unresolved_risk"}

\* What the same call would find without its filters, at the same date.
Unfiltered ==
  [memories |-> {r \in listed.records : r.row.status # "DELETED" /\ r.row.meeting_id \in listed.meetings},
   meetings |-> listed.meetings, graph |-> FALSE, reference |-> report.reference]

\* A filter only narrows: what is said of one memory is said with and without
\* it, as long as the memory passes; and a filter by person leaves that person's
\* load as it is.  This is about the filters that build_context applies to
\* memories and to meetings one after the other, and the dates it looks up later.
FiltersNarrow ==
  stage = "done" =>
    /\ Reported(Single) =
         {i \in OverdueInsights(Unfiltered) \cup AgingInsights(Unfiltered) \cup UnresolvedInsights(Unfiltered) :
            i.evidence \subseteq report.memories}
    /\ (request.person # NULL /\ request.meetings = {} /\ request.types = {} /\ request.project = NULL) =>
         Reported({"open_commitment_overload"}) =
           {i \in OverloadInsights(Unfiltered) : i.subject = request.person}

Says(type) == Reported({type}) # {}
Values(type) == {i.value : i \in Reported({type})}

\* The parts of a report are computed apart and agree: a metric or a row that
\* passes a threshold has its insight and no other has, and an insight that
\* something recurs shows in the scores.  This is about the modules commitment,
\* decision, risk, health and analysis, each of which counts for itself.
ReportAgrees ==
  stage = "done" =>
    LET commitment == report.commitment
        decision == report.decision
        risks == report.risk
    IN  /\ commitment.overdue = Cardinality(Reported({"overdue_commitment"}))
        /\ Says("open_commitment_overload") <=> commitment.owned >= 3
        /\ {i.subject : i \in Reported({"open_commitment_overload"})}
             = {p \in Person : report.people[p].open >= 3}
        /\ Says("low_commitment_resolution") <=> (commitment.total >= 4 /\ report.scores.completion < 4000)
        /\ Says("unstable_decisions") <=> (decision.total >= 4 /\ report.scores.stability < 5000)
        /\ Says("revisited_decision") <=> decision.revisited > 0
        /\ risks.recurring = Cardinality(Reported({"recurring_risk"}))
        /\ risks.most = Max({0} \cup Values("recurring_risk"))
        /\ (Says("recurring_risk") \/ Says("revisited_decision")) =>
             report.scores.reuse > 0 /\ report.meeting.repeated > 0
        /\ Says("repeatedly_superseded_decision") => decision.superseded >= 2
        /\ report.overall \in 0 .. 60000
==============================================================================
