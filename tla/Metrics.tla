------------------------------ MODULE Metrics ------------------------------
(***************************************************************************)
(* internal/metrics: a Registry of counters, gauges and histograms.  Each  *)
(* collector keeps a table from label sets to value cells; an update finds *)
(* or creates its cell under the collector's lock and changes it after the *)
(* lock was released, with an atomic Add (counter), a compare-and-swap     *)
(* loop (gauge) or under the cell's mutex (histogram).  A scrape walks the *)
(* collectors under the registry's lock.                                   *)
(***************************************************************************)
EXTENDS Integers, Sequences, FiniteSets, SequencesExt, Tables, TLC

CONSTANTS Registering,     \* collectors [name, kind, labels], in the order they are
                           \* registered; labels is a sequence of ranks
          Bounds,          \* histogram bounds, a sequence
          Updates,         \* [of, op, v, values]: each is done once
          MetricThreads,
          PerMilli,        \* amounts are integers: PerMilli of them are 0.001
          MaxUpdates, MaxScrapes   \* bounds

Collectors == Range(Registering)

ASSUME MetricsAssumption ==
    /\ Registering \in Seq(Collectors) /\ Bounds \in Seq(Int)
    /\ \A c \in Collectors : c.kind \in {"counter", "gauge", "histogram"}
    /\ \A u \in Updates : u.of \in Collectors /\ u.op \in {"add", "set"} /\ u.v \in Int
    /\ PerMilli \in Nat \ {0} /\ {MaxUpdates, MaxScrapes} \subseteq Nat

VARIABLES unregistered, \* collectors still to be registered
          registered,   \* r.metrics in the order of r.order
          values,       \* collector -> (label set -> index of a cell)
          cells,        \* the cells: [val, count, counts, labels]
          metricAt,     \* of each thread: [at, update, cell, old]
          begun, done,  \* updates that were called, that returned
          scrape,       \* [at, before, todo, keys, page] of the scrape under way
          scrapes

metricVars == <<unregistered, registered, values, cells, metricAt, begun, done, scrape, scrapes>>

Idle == [at |-> "out"]
NoScrape == [at |-> "out", before |-> {}, todo |-> <<>>, keys |-> {}, page |-> {}]

MetricsInit ==
    /\ unregistered = Registering /\ registered = <<>>
    /\ values = [c \in Collectors |-> [k \in {} |-> 0]]
    /\ cells = <<>>
    /\ metricAt = [t \in MetricThreads |-> Idle]
    /\ begun = {} /\ done = {}
    /\ scrape = NoScrape /\ scrapes = 0

-----------------------------------------------------------------------------
(* Labels.  A label value is a sequence of characters; a missing one is    *)
(* empty.  The key joins name=value pairs with commas and escapes nothing. *)

makeLabels(c, vals) ==
    [i \in DOMAIN c.labels |->
        [name |-> c.labels[i], value |-> IF i \in DOMAIN vals THEN vals[i] ELSE <<>>]]

MakeLabelSet(labels) ==
    LET sorted == SortSeq(labels, LAMBDA l, m : l.name < m.name)
    IN  FlattenSeq([i \in DOMAIN sorted |->
            (IF i > 1 THEN <<",">> ELSE <<>>)
              \o <<ToString(sorted[i].name), "=">> \o sorted[i].value])

KeyOf(u) == MakeLabelSet(makeLabels(u.of, u.values))

-----------------------------------------------------------------------------
(* Register: a name that is taken is refused. *)
Register ==
    /\ unregistered # <<>>
    /\ scrape.at = "out"                              \* r.mu
    /\ LET c == Head(unregistered)
           taken == c.name \in {registered[i].name : i \in DOMAIN registered}
       IN  registered' = IF taken THEN registered ELSE Append(registered, c)
    /\ unregistered' = Tail(unregistered)
    /\ UNCHANGED <<values, cells, metricAt, begun, done, scrape, scrapes>>

Locked(c) == scrape.at = "collect" /\ Head(scrape.todo) = c   \* Collect holds c.mu.RLock

\* getOrCreate, the lookup under the read lock.  A negative Add of a counter
\* returns at once.
Lookup(t, u) ==
    /\ metricAt[t] = Idle /\ u \notin begun /\ Cardinality(begun) < MaxUpdates
    /\ begun' = begun \cup {u}
    /\ LET c == u.of  key == KeyOf(u)
       IN  IF c.kind = "counter" /\ u.v < 0
           THEN done' = done \cup {u} /\ UNCHANGED metricAt
           ELSE /\ metricAt' = [metricAt EXCEPT ![t] =
                     IF key \in DOMAIN values[c]
                     THEN [at |-> "cell", update |-> u, cell |-> values[c][key]]
                     ELSE [at |-> "create", update |-> u]]
                /\ UNCHANGED done
    /\ UNCHANGED <<unregistered, registered, values, cells, scrape, scrapes>>

NewCell(u) == [val |-> 0, count |-> 0, counts |-> [i \in 1..Len(Bounds) + 1 |-> 0],
               labels |-> makeLabels(u.of, u.values)]

\* mutant: no second lookup under the write lock
CreateUnchecked(t) ==
    /\ metricAt[t].at = "create"
    /\ LET u == metricAt[t].update  c == u.of  key == KeyOf(u)
       IN  /\ ~Locked(c)
           /\ cells' = Append(cells, NewCell(u))
           /\ values' = [values EXCEPT ![c] = WithEntry(@, key, Len(cells) + 1)]
           /\ metricAt' = [metricAt EXCEPT ![t] =
                [at |-> "cell", update |-> u, cell |-> Len(cells) + 1]]
    /\ UNCHANGED <<unregistered, registered, begun, done, scrape, scrapes>>

\* getOrCreate under the write lock: looked up again, then created.
Create(t) ==
    /\ metricAt[t].at = "create"
    /\ LET u == metricAt[t].update  c == u.of  key == KeyOf(u)
           old == key \in DOMAIN values[c]
           cell == IF old THEN values[c][key] ELSE Len(cells) + 1
       IN  /\ ~Locked(c)
           /\ cells' = IF old THEN cells ELSE Append(cells, NewCell(u))
           /\ values' = [values EXCEPT ![c] = WithEntry(@, key, cell)]
           /\ metricAt' = [metricAt EXCEPT ![t] = [at |-> "cell", update |-> u, cell |-> cell]]
    /\ UNCHANGED <<unregistered, registered, begun, done, scrape, scrapes>>

Returned(t) == metricAt' = [metricAt EXCEPT ![t] = Idle] /\ done' = done \cup {metricAt[t].update}

\* Counter.Add keeps thousandths; Observe fills every bucket from v's on;
\* Gauge.Set stores.
Observed(cell, v) ==
    [cell EXCEPT !.val = @ + v, !.count = @ + 1,
                 !.counts = [i \in DOMAIN @ |->
                     IF i > Len(Bounds) \/ v <= Bounds[i] THEN @[i] + 1 ELSE @[i]]]

Apply(t) ==
    /\ metricAt[t].at = "cell"
    /\ LET u == metricAt[t].update
           cell == cells[metricAt[t].cell]
       IN  /\ u.of.kind # "gauge" \/ u.op = "set"
           /\ cells' = [cells EXCEPT ![metricAt[t].cell] =
                CASE u.of.kind = "counter" -> [cell EXCEPT !.val = @ + u.v \div PerMilli]
                  [] u.of.kind = "histogram" -> Observed(cell, u.v)
                  [] u.of.kind = "gauge" -> [cell EXCEPT !.val = u.v]]
    /\ Returned(t)
    /\ UNCHANGED <<unregistered, registered, values, begun, scrape, scrapes>>

\* Gauge.Add: load, then compare and swap, again from the load when it fails.
GaugeLoad(t) ==
    /\ metricAt[t].at = "cell"
    /\ metricAt[t].update.of.kind = "gauge" /\ metricAt[t].update.op = "add"
    /\ metricAt' = [metricAt EXCEPT ![t] =
         [at |-> "swap", update |-> @.update, cell |-> @.cell, old |-> cells[@.cell].val]]
    /\ UNCHANGED <<unregistered, registered, values, cells, begun, done, scrape, scrapes>>

GaugeSwap(t) ==
    /\ metricAt[t].at = "swap"
    /\ LET m == metricAt[t]
       IN  IF cells[m.cell].val = m.old
           THEN cells' = [cells EXCEPT ![m.cell].val = m.old + m.update.v] /\ Returned(t)
           ELSE /\ metricAt' = [metricAt EXCEPT ![t] =
                     [at |-> "cell", update |-> m.update, cell |-> m.cell]]
                /\ UNCHANGED <<cells, done>>
    /\ UNCHANGED <<unregistered, registered, values, begun, scrape, scrapes>>

-----------------------------------------------------------------------------
(* WriteMetrics: one collector after the other, one cell after the other.  *)
(* A collector without cells writes a zero; a failed write ends it all.    *)

ScrapeBegin ==
    /\ scrape.at = "out" /\ scrapes < MaxScrapes
    /\ scrape' = [NoScrape EXCEPT !.at = "next", !.before = done, !.todo = registered]
    /\ scrapes' = scrapes + 1
    /\ UNCHANGED <<unregistered, registered, values, cells, metricAt, begun, done>>

CollectBegin ==
    /\ scrape.at = "next" /\ scrape.todo # <<>>
    /\ LET keys == DOMAIN values[Head(scrape.todo)]
       IN  scrape' = [scrape EXCEPT !.at = "collect", !.keys = keys]
    /\ UNCHANGED <<unregistered, registered, values, cells, metricAt, begun, done, scrapes>>

CollectOne(key) ==
    /\ scrape.at = "collect" /\ key \in scrape.keys
    /\ LET c == Head(scrape.todo)  cell == cells[values[c][key]]
       IN  scrape' = [scrape EXCEPT !.keys = @ \ {key},
                          !.page = @ \cup {[of |-> c, key |-> key, cell |-> cell]}]
    /\ UNCHANGED <<unregistered, registered, values, cells, metricAt, begun, done, scrapes>>

CollectEnd ==
    /\ scrape.at = "collect" /\ scrape.keys = {}
    /\ scrape' = [scrape EXCEPT !.at = "next", !.todo = Tail(@)]
    /\ UNCHANGED <<unregistered, registered, values, cells, metricAt, begun, done, scrapes>>

ScrapeEnd ==
    /\ scrape.at = "next"      \* the last collector is done, or a write failed
    /\ scrape' = NoScrape
    /\ UNCHANGED <<unregistered, registered, values, cells, metricAt, begun, done, scrapes>>

MetricsNext ==
    \/ Register
    \/ \E t \in MetricThreads :
          \/ \E u \in Updates : Lookup(t, u)
          \/ Create(t) \/ Apply(t) \/ GaugeLoad(t) \/ GaugeSwap(t)
    \/ ScrapeBegin \/ CollectBegin \/ CollectEnd \/ ScrapeEnd
    \/ \E key \in scrape.keys : CollectOne(key)

MetricsSpec == MetricsInit /\ [][MetricsNext]_metricVars

-----------------------------------------------------------------------------
\* Of the updates in a set, those that reach the cell of a collector and key.
Reaching(us, c, key) ==
    {u \in us : u.of = c /\ KeyOf(u) = key /\ ~(c.kind = "counter" /\ u.v < 0)}

Amount(c, u) == IF c.kind = "counter" THEN u.v \div PerMilli ELSE u.v
Amounts(us, c) == Balance([u \in us |-> Amount(c, u)])

\* No update is lost, whichever threads meet on a label set that is new, on a
\* gauge or on a cell: a cell holds exactly the updates that have returned (a
\* gauge whose Set was called is only as good as the last store), and every
\* label set that was updated has one; a bucket of a histogram counts the values
\* up to its bound, in whichever order the bounds are given.  A scrape under way
\* shows every update that had returned when it began, in histograms that agree
\* with themselves: a bucket has what a bucket with a lower bound has, and the
\* last one has the count.
MetricsLoseNothing ==
    /\ \A c \in Collectors : \A key \in DOMAIN values[c] :
          LET cell == cells[values[c][key]]
              us == Reaching(done, c, key)
          IN  /\ (\A u \in Reaching(begun, c, key) : u.op = "add") => cell.val = Amounts(us, c)
              /\ c.kind = "histogram" =>
                    /\ cell.count = Cardinality(us)
                    /\ \A i \in DOMAIN Bounds :
                          cell.counts[i] = Cardinality({u \in us : u.v <= Bounds[i]})
    /\ \A u \in done : Reaching({u}, u.of, KeyOf(u)) # {} => KeyOf(u) \in DOMAIN values[u.of]
    /\ \A c \in Range(registered) \ Range(scrape.todo) :
          scrape.at # "out" => \A u \in scrape.before : u.of = c /\ Reaching({u}, c, KeyOf(u)) # {} =>
             \E line \in scrape.page : line.of = c /\ line.key = KeyOf(u)
    /\ \A line \in scrape.page :
          /\ line.of.kind = "counter" => line.cell.val >= Amounts(Reaching(scrape.before, line.of, line.key), line.of)
          /\ line.of.kind = "histogram" =>
                /\ line.cell.count >= Cardinality(Reaching(scrape.before, line.of, line.key))
                /\ line.cell.counts[Len(Bounds) + 1] = line.cell.count
                /\ \A i \in DOMAIN Bounds :
                      /\ line.cell.counts[i] <= line.cell.count
                      /\ \A j \in DOMAIN Bounds : Bounds[i] <= Bounds[j] =>
                            line.cell.counts[i] <= line.cell.counts[j]

=============================================================================
