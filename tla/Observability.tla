---------------------------- MODULE Observability ----------------------------
(***************************************************************************)
(* One named histogram of a MetricsCollector, which several threads look   *)
(* up and feed while another takes snapshots or renders it for Prometheus; *)
(* and profile_memory, called by several threads of one process.           *)
(*                                                                         *)
(* The collector's lock guards the table of names: a thread keeps the      *)
(* histogram it was handed, appends to it without the lock, and a snapshot *)
(* reads it field by field meanwhile.  Appending, and len, sum, min, max   *)
(* and sorted of a list, are single steps of the interpreter.              *)
(***************************************************************************)
EXTENDS Naturals, Sequences, FiniteSets, FiniteSetsExt, Functions, SequencesExt, Ordering, Totals

CONSTANTS
  Worker,
  Edge,        \* upper edges of the buckets, natural numbers
  Sample,      \* what is observed, natural numbers
  MaxObjects,  \* histograms ever created
  MaxChanges   \* observations, resets and clears in a behaviour
ASSUME MetricsAssumption ==
  /\ IsFiniteSet(Edge) /\ Edge \cup Sample \subseteq Nat
  /\ MaxObjects \in Nat

VARIABLES
  registry,  \* the histogram that has the name, 0 if none
  samples,   \* 1..MaxObjects -> what was appended to it
  held,      \* Worker -> the histogram it was handed, 0 if none
  current,   \* workers handed theirs since the last reset
  observed,  \* ghost: what current workers observed since the last reset
  changes,   \* how many observations, resets and clears were made
  scrape,    \* the snapshot under way or taken last
  outer,     \* was tracemalloc tracing before the first call?
  tracing,   \* tracemalloc.is_tracing()
  profile    \* Worker -> its call of profile_memory

metricsVars == <<registry, samples, held, current, observed, changes, scrape>>
profileVars == <<outer, tracing, profile>>
observabilityVars == <<registry, samples, held, current, observed, changes, scrape, outer, tracing, profile>>

NoScrape == [state |-> "idle", form |-> "snapshot", todo |-> <<>>, got |-> <<>>, before |-> <<>>,
             after |-> <<>>, cleared |-> FALSE]
NotProfiled == [state |-> "idle", already |-> FALSE, cut |-> FALSE]

MetricsInit ==
  /\ registry = 0 /\ samples = [o \in 1 .. MaxObjects |-> <<>>]
  /\ held = [w \in Worker |-> 0] /\ current = {} /\ observed = <<>>
  /\ changes = 0 /\ scrape = NoScrape
  /\ outer = FALSE /\ tracing = FALSE /\ profile = [w \in Worker |-> [NotProfiled EXCEPT !.state = "none"]]

ProfileInit ==
  /\ registry = 0 /\ samples = [o \in 1 .. MaxObjects |-> <<>>]
  /\ held = [w \in Worker |-> 0] /\ current = {} /\ observed = <<>>
  /\ changes = 0 /\ scrape = [NoScrape EXCEPT !.state = "none"]
  /\ outer \in BOOLEAN /\ tracing = outer /\ profile = [w \in Worker |-> NotProfiled]

------------------------------------------------------------------------------
(* Names and observations *)
LockFree == scrape.state # "reading"
Unused == {o \in 1 .. MaxObjects : samples[o] = <<>> /\ o # registry /\ \A w \in Worker : held[w] # o}

\* Mutant of Handed: a histogram of its own for everyone who asks.
Handed_Fresh == Unused

\* The histogram to hand out: the one with the name, or a new one.
Handed == IF registry # 0 THEN {registry} ELSE Unused

\* histogram(name), or the one inside timer(name)
Fetch(w) ==
  /\ LockFree
  /\ \E o \in Handed :
       /\ registry' = o
       /\ held' = [held EXCEPT ![w] = o]
  /\ current' = current \cup {w}
  /\ UNCHANGED <<samples, observed, changes, scrape>>

Change == changes < MaxChanges /\ changes' = changes + 1

\* observe, or record; a worker whose histogram was reset away feeds it still.
Observe(w, v) ==
  /\ held[w] # 0 /\ Change
  /\ samples' = [samples EXCEPT ![held[w]] = Append(@, v)]
  /\ observed' = IF w \in current THEN Append(observed, v) ELSE observed
  /\ UNCHANGED <<registry, held, current, scrape>>

\* MetricsCollector.reset
ResetAll ==
  /\ LockFree /\ registry # 0 /\ Change
  /\ registry' = 0 /\ current' = {} /\ observed' = <<>>
  /\ UNCHANGED <<samples, held, scrape>>

\* Histogram.reset, which takes no lock
Clear(w) ==
  /\ held[w] # 0 /\ Change
  /\ samples' = [samples EXCEPT ![held[w]] = <<>>]
  /\ observed' = IF w \in current THEN <<>> ELSE observed
  /\ scrape' = [scrape EXCEPT !.cleared = TRUE]
  /\ UNCHANGED <<registry, held, current>>

------------------------------------------------------------------------------
(* Snapshots *)
AtMost(edge, s) == Cardinality({i \in DOMAIN s : s[i] <= edge})

\* Nearest rank, of a hundred; round() goes to the even neighbour of a half.
Rounded(n) ==
  LET half == n % 100 = 50
      down == n \div 100
  IN  IF n % 100 < 50 \/ (half /\ down % 2 = 0) THEN down ELSE down + 1
Percentile(q, s) ==
  IF s = <<>> THEN 0
  ELSE LET rank == Max({1, Rounded(q * Len(s))})
       IN  Min({v \in ToSet(s) : AtMost(v, s) >= Min({rank, Len(s)})})

\* The property mean tests for emptiness, adds up and divides by a length read
\* after the sum.
Statistics ==
  <<<<"count", 0>>, <<"sum", 0>>, <<"min", 0>>, <<"max", 0>>,
    <<"nonempty", 0>>, <<"dividend", 0>>, <<"divisor", 0>>,
    <<"percentile", 50>>, <<"percentile", 95>>, <<"percentile", 99>>>>
BucketCounts == [i \in 1 .. Cardinality(Edge) |-> <<"bucket", Ascending(Edge)[i]>>]
All == <<<<"+Inf", 0>>>>

\* Mutant of Fields: the number of all samples is read before the buckets.
Fields_TotalFirst(form) ==
  IF form = "snapshot" THEN Statistics \o All \o BucketCounts
  ELSE All \o BucketCounts \o <<<<"sum", 0>>, <<"count", 0>>>>

\* snapshot reads the statistics, then the buckets; the rendering for
\* Prometheus reads the buckets first.
Fields(form) ==
  IF form = "snapshot" THEN Statistics \o BucketCounts \o All
  ELSE BucketCounts \o All \o <<<<"sum", 0>>, <<"count", 0>>>>

Read(field, s) ==
  LET kind == field[1]
  IN  CASE kind \in {"sum", "dividend"} -> Total(s)
        [] kind \in {"count", "nonempty", "divisor", "+Inf"} -> Len(s)
        [] kind = "bucket" -> AtMost(field[2], s)
        [] kind = "percentile" -> Percentile(field[2], s)
        [] kind = "min" -> IF s = <<>> THEN 0 ELSE Min(ToSet(s))
        [] kind = "max" -> IF s = <<>> THEN 0 ELSE Max(ToSet(s))

\* The lock is taken, and kept until the last field is read.
StartScrape(form) ==
  /\ scrape.state = "idle"
  /\ scrape' = [state |-> IF registry = 0 THEN "done" ELSE "reading", form |-> form,
                todo |-> IF registry = 0 THEN <<>> ELSE Fields(form), got |-> <<>>,
                before |-> observed, after |-> observed, cleared |-> FALSE]
  /\ UNCHANGED <<registry, samples, held, current, observed, changes>>

With(got, field, value) ==
  [f \in DOMAIN got \cup {field} |-> IF f = field THEN value ELSE got[f]]

\* Dividing by the length of a list cleared since it was found nonempty raises.
ReadField ==
  /\ scrape.state = "reading"
  /\ LET field == Head(scrape.todo)
         value == Read(field, samples[registry])
     IN  scrape' = IF field[1] = "divisor" /\ value = 0 /\ scrape.got[<<"nonempty", 0>>] # 0
                   THEN [scrape EXCEPT !.state = "raised", !.todo = <<>>]
                   ELSE [scrape EXCEPT !.got = With(@, field, value), !.todo = Tail(@),
                                       !.after = observed,
                                       !.state = IF Len(scrape.todo) = 1 THEN "done" ELSE @]
  /\ UNCHANGED <<registry, samples, held, current, observed, changes>>

------------------------------------------------------------------------------
(* profile_memory *)
SetProfile(w, from, to) ==
  /\ profile[w].state = from
  /\ profile' = [profile EXCEPT ![w].state = to]

CheckTracing(w) ==
  /\ profile[w].state = "idle"
  /\ profile' = [profile EXCEPT ![w] = [state |-> "checked", already |-> tracing, cut |-> FALSE]]
  /\ UNCHANGED <<outer, tracing, metricsVars>>

\* tracemalloc.start does nothing when tracing is on.
StartTracing(w) ==
  /\ SetProfile(w, "checked", "running")
  /\ tracing' = (tracing \/ ~profile[w].already)
  /\ UNCHANGED <<outer, metricsVars>>

\* take_snapshot raises when tracing is off; so may the function itself.
TakeSnapshot(w) ==
  /\ \/ SetProfile(w, "running", IF tracing THEN "measured" ELSE "no tracing")
     \/ SetProfile(w, "running", "failed")
  /\ UNCHANGED <<outer, tracing, metricsVars>>

\* Mutant of Stops: whoever profiled switches tracing off.
Stops_Always(w) == TRUE

\* Who found tracing off switches it off again.
Stops(w) == ~profile[w].already

\* finally: whatever happened to the function.  The ghost `cut` marks the
\* calls of other threads that were running then.
StopTracing(w) ==
  /\ profile[w].state \in {"measured", "failed", "no tracing"}
  /\ tracing' = (tracing /\ ~Stops(w))
  /\ profile' =
       [v \in Worker |->
          IF v = w THEN [profile[w] EXCEPT !.state = IF @ = "no tracing" THEN "raised" ELSE "done"]
          ELSE [profile[v] EXCEPT !.cut = @ \/ (Stops(w) /\ profile[v].state \in {"checked", "running"})]]
  /\ UNCHANGED <<outer, metricsVars>>

------------------------------------------------------------------------------
MetricsNext ==
  /\ scrape.state \in {"idle", "reading"}
  /\ \/ \E w \in Worker : Fetch(w) \/ Clear(w) \/ \E v \in Sample : Observe(w, v)
     \/ ResetAll
     \/ \E form \in {"snapshot", "exposition"} : StartScrape(form)
     \/ ReadField
  /\ UNCHANGED profileVars

ProfileNext ==
  \E w \in Worker : CheckTracing(w) \/ StartTracing(w) \/ TakeSnapshot(w) \/ StopTracing(w)

MetricsSpec == MetricsInit /\ [][MetricsNext]_observabilityVars

ObservabilityNext == MetricsNext \/ ProfileNext

ProfileSpec == ProfileInit /\ [][ProfileNext]_observabilityVars

------------------------------------------------------------------------------
(* Properties *)
FieldWithin(field) ==
  LET value == scrape.got[field]
      kind == field[1]
      seen == ToSet(scrape.after)
  IN  CASE kind = "min" -> /\ value \in seen \cup {0}
                           /\ \A v \in ToSet(scrape.before) : value <= v
        [] kind = "percentile" -> value \in seen \cup {0}
        [] OTHER -> Read(field, scrape.before) <= value /\ value <= Read(field, scrape.after)

\* Buckets are cumulative; the count read before them is no larger than the
\* last of them, the one read after them no smaller; no mean exceeds what was
\* observed.
FieldsAgree ==
  LET got(kind, arg) == scrape.got[<<kind, arg>>]
  IN  /\ \A d, e \in Edge : d <= e => got("bucket", d) <= got("bucket", e)
      /\ \A e \in Edge : got("bucket", e) <= got("+Inf", 0)
      /\ IF scrape.form = "snapshot"
         THEN /\ got("count", 0) <= got("+Inf", 0)
              /\ got("dividend", 0) <= got("divisor", 0) * Max(ToSet(scrape.after) \cup {0})
         ELSE got("+Inf", 0) <= got("count", 0)

\* The numbers of one snapshot, taken while other threads observe, fit together
\* and each was true at some moment of it: nothing observed before, by whoever
\* asked for the histogram since the last reset, is missing.  A snapshot fails
\* only if the histogram was cleared under it.
SnapshotsExact ==
  /\ scrape.state = "done" /\ ~scrape.cleared =>
       IF scrape.got = <<>> THEN scrape.before = <<>>
       ELSE FieldsAgree /\ \A field \in DOMAIN scrape.got : FieldWithin(field)
  /\ scrape.state = "raised" => scrape.cleared

\* A memory profile finds tracing off only when another thread that had switched
\* it on finished meanwhile; when no call is under way, tracing is as it was
\* before the first.
ProfilesExplained ==
  /\ \A w \in Worker : profile[w].state \in {"no tracing", "raised"} => profile[w].cut
  /\ (\A w \in Worker : profile[w].state \in {"idle", "done", "raised"}) => tracing = outer
==============================================================================
