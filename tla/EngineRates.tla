----------------------------- MODULE EngineRates -----------------------------
(***************************************************************************)
(* What the dashboard makes of an engine's cumulative counters: the warmup  *)
(* tracker (src/src/engines/warmup.rs), the rates (common.rs), the latency  *)
(* figures read off a histogram (histogram.rs) and what get_metrics of      *)
(* vLLM, SGLang and llama.cpp report of them.                               *)
(*                                                                         *)
(* Two counters stand for them all: served, the requests that had their     *)
(* first token (with llama.cpp: that finished), and tokens, the generated   *)
(* ones.  llama-server counts a request's tokens when it finishes; until    *)
(* then /slots says how far it got; its prompt is counted before.  The      *)
(* histogram is that of the latencies of the requests served.  A rate is    *)
(* the difference of two readings: its divisor, the seconds between them,   *)
(* is left out.  The prompt tokens of vLLM and SGLang are metered like the  *)
(* generated ones.  An Option is a set of at most one value.                *)
(***************************************************************************)
EXTENDS Integers, Sequences, FiniteSetsExt

CONSTANTS
    SkipRequests,   \* SPARK_WARMUP_SKIP_REQUESTS
    Kinds,          \* which engines: "Vllm", "Sglang", "LlamaCpp"
    Latency,        \* the latency of each request a life serves
    Bounds,         \* the finite bounds of the histogram's buckets
    MaxServed,      \* requests one life of the engine may serve
    MaxTokens,      \* tokens one life of the engine may generate
    MaxLives        \* how many times the engine may be started

ASSUME RatesAssumption ==
    /\ SkipRequests \in Nat
    /\ Kinds \subseteq {"Vllm", "Sglang", "LlamaCpp"}
    /\ MaxServed \in Nat
    /\ Latency \in [1 .. MaxServed -> Nat \ {0}]
    /\ Bounds \in Seq(Nat \ {0}) /\ Bounds # <<>>
    /\ \A i, j \in DOMAIN Bounds : i < j => Bounds[i] < Bounds[j]
    /\ MaxTokens \in Nat
    /\ MaxLives \in Nat \ {0}

VARIABLES
    engine,     \* its counters, zero at the start of every life, and the
                \* tokens of a llama-server's request in flight, 0 without one
    scraped,    \* whether this life was scraped, and served when it first was
    misread,    \* whether an error page passed for its having served nothing
    tracker,    \* the WarmupTracker
    rates,      \* the CounterRate of generated tokens
    prev_spec,  \* the counters of the last scrape, for the acceptance rate and
                \* llama.cpp's rate of prompts
    generated,  \* the live count last fed to the rate (llama.cpp)
    reading,    \* a scrape that waits for /slots (llama.cpp)
    shown       \* what the last scrape reported

vars == <<engine, scraped, misread, tracker, rates, prev_spec, generated, reading, shown>>

Option(S) == {{}} \cup {{x} : x \in S}
Counts == [served : 0 .. MaxServed, tokens : 0 .. MaxTokens, prompts : 0 .. MaxServed + 1]
Engine == [kind : Kinds, life : 1 .. MaxLives, served : 0 .. MaxServed,
           tokens : 0 .. MaxTokens, flight : 0 .. MaxTokens]
Generated == 0 .. 2 * MaxTokens

(* The groups of figures of an engine.                                      *)
MetricGroup ==
    {"Throughput", "BatchSize", "ActiveRequests", "RequestTotal", "Preemptions", "QueueTime",
     "KvCache", "PrefixCache", "SpeculativeDecoding", "TtftMean", "TtftPercentiles", "E2eMean",
     "E2ePercentiles", "ItlMean", "ItlPercentiles", "TpotMean", "TpotPercentiles"}
Figures == MetricGroup \X {"standing", "measured"}
Shown ==
    [warming : {TRUE}, rate : {{}}, sum : {0}, share : {{}}, prompt : {{}},
     life : 0 .. MaxLives, figures : SUBSET Figures]
    \cup [warming : {FALSE}, rate : SUBSET Int, sum : Nat, share : SUBSET (Int \X Int),
          prompt : SUBSET Int, life : 0 .. MaxLives, figures : SUBSET Figures]

TypeOK ==
    /\ engine \in Engine
    /\ scraped \in Option(0 .. MaxServed)
    /\ misread \in BOOLEAN
    /\ tracker \in [mode : {"Warming"}, cursor : Option(0 .. MaxServed + MaxTokens)]
                   \cup [mode : {"Active"}, base : Engine]
    /\ rates \in [prev : Option(Generated), sum : Nat]
    /\ prev_spec \in Option(Counts)
    /\ generated \in Option(Generated)
    /\ reading \in Option([warming : BOOLEAN, counted : Counts, life : 1 .. MaxLives])
    /\ shown \in Shown

-----------------------------------------------------------------------------
(* The engine.                                                              *)

LlamaCpp == engine.kind = "LlamaCpp"
Lazy == engine.kind = "Sglang"
Adapter == <<tracker, rates, prev_spec, generated, reading, shown>>

(* A restarted engine is taken to be scraped before it is busy again: one   *)
(* that passed its old counters within a second would look unrestarted.     *)
(* SGLang has no series before its first request.                           *)
MayServe == scraped # {} \/ (Lazy /\ engine.served = 0)
Underway == engine.tokens + engine.flight

(* llama-server counts a prompt when it is through it: before the first     *)
(* token of its request.                                                    *)
Prompts(e) == e.served + (IF e.flight = 0 THEN 0 ELSE 1)

(* A request's first token, which the trigger counts.                       *)
Serve ==
    /\ ~LlamaCpp /\ MayServe
    /\ engine.served < MaxServed
    /\ engine.tokens < MaxTokens
    /\ engine' = [engine EXCEPT !.served = @ + 1, !.tokens = @ + 1]
    /\ UNCHANGED <<scraped, misread, Adapter>>

Generate ==
    /\ ~LlamaCpp /\ engine.served > 0 /\ scraped # {}
    /\ engine.tokens < MaxTokens
    /\ engine' = [engine EXCEPT !.tokens = @ + 1]
    /\ UNCHANGED <<scraped, misread, Adapter>>

(* llama-server: a request in flight, counted only when it has finished.    *)
Decode ==
    /\ LlamaCpp /\ MayServe
    /\ Underway < MaxTokens
    /\ engine' = [engine EXCEPT !.flight = @ + 1]
    /\ UNCHANGED <<scraped, misread, Adapter>>

Finish ==
    /\ LlamaCpp /\ engine.flight # 0
    /\ engine.served < MaxServed
    /\ engine' = [engine EXCEPT !.served = @ + 1, !.tokens = Underway, !.flight = 0]
    /\ UNCHANGED <<scraped, misread, Adapter>>

RestartEngine ==
    /\ engine.life < MaxLives
    /\ engine' = [engine EXCEPT !.life = @ + 1, !.served = 0, !.tokens = 0, !.flight = 0]
    /\ scraped' = {} /\ misread' = FALSE
    /\ UNCHANGED Adapter

-----------------------------------------------------------------------------
(* CounterRate.observe, and the fields get_metrics fills from it.           *)

NoReading == [prev |-> {}, sum |-> 0]

(* A bug: carries the rate state over the end of warmup.                    *)
MeterWithoutReset(just_transitioned) == rates

(* The rate state is forgotten when warmup ends.                            *)
Meter(just_transitioned) == IF just_transitioned THEN NoReading ELSE rates

(* Tokens drafted, and of them those accepted, as far as they are told      *)
(* apart here: the first token of a request has no draft.                   *)
Accepted(c) == c.tokens - c.served
Scraped == [served |-> engine.served, tokens |-> engine.tokens, prompts |-> Prompts(engine)]

(* spec_live_acceptance_rate: accepted over drafted since the last reading, *)
(* unless a counter went backwards.                                         *)
AcceptanceRate(prev, now) ==
    { <<Accepted(now) - Accepted(p), now.tokens - p.tokens>> :
        p \in {p \in prev : /\ Accepted(now) >= Accepted(p)
                            /\ now.tokens > p.tokens} }

(* llama.cpp's rate of prompts: of the raw counter, whatever the baseline.   *)
PromptRate(prev, now) == {now.prompts - p.prompts : p \in prev}

(* The groups a kind of engine has series for.                              *)
MetricGroups ==
    CASE engine.kind = "Vllm"     -> MetricGroup
      [] engine.kind = "Sglang"   -> MetricGroup \ {"TpotMean", "TpotPercentiles", "BatchSize", "Preemptions"}
      [] engine.kind = "LlamaCpp" -> {"Throughput", "ActiveRequests", "SpeculativeDecoding", "ItlMean"}

(* Gauges and lifetime totals stand whatever the baseline.                  *)
Standing == {"Throughput", "ActiveRequests", "RequestTotal", "Preemptions", "KvCache",
             "PrefixCache", "SpeculativeDecoding"}

(* Rates, means and percentiles are of what was measured since it; SGLang   *)
(* has no live acceptance rate.                                             *)
Measured == (MetricGroup \ Standing) \cup {"Throughput"}
            \cup (IF Lazy THEN {} ELSE {"SpeculativeDecoding"})

(* What is shown are the figures of groups the adapter reports.             *)
ReportedOnly(figures) == {f \in figures : f[1] \in MetricGroups}

(* What an adapter fills, blank where a baseline is needed and there is none. *)
EngineMetrics(warming_up) ==
    ReportedOnly((Standing \X {"standing"})
                 \cup (IF warming_up THEN {} ELSE Measured \X {"measured"}))

(* The mean is of the rates that were positive; its divisor is left out.    *)
(* SGLang's acceptance rate is a gauge of its own.                          *)
Report(warming_up, just_transitioned, tokens, counted, life) ==
    LET meter == Meter(just_transitioned)
        rate  == {tokens - p : p \in meter.prev}
        sum   == meter.sum + Max({0} \cup rate)
        prev  == IF just_transitioned THEN {} ELSE prev_spec
    IN  /\ rates' = [prev |-> {tokens}, sum |-> sum]
        /\ prev_spec' = IF Lazy THEN {} ELSE {counted}
        /\ shown' = [warming |-> warming_up,
                     rate    |-> IF warming_up THEN {} ELSE rate,
                     sum     |-> IF warming_up THEN 0 ELSE sum,
                     share   |-> IF Lazy \/ warming_up THEN {} ELSE AcceptanceRate(prev, counted),
                     prompt  |-> IF ~LlamaCpp \/ warming_up THEN {} ELSE PromptRate(prev, counted),
                     life    |-> life,
                     figures |-> EngineMetrics(warming_up)]

FirstScrape == scraped' = IF scraped = {} THEN {engine.served} ELSE scraped

-----------------------------------------------------------------------------
(* live_generated of llama.cpp, and the tick that may wait for /slots.      *)

(* A bug: the count falls when a request finishes behind the scrape.        *)
LiveGeneratedBare(counted, in_flight, prev) == counted + in_flight

(* A bug: what was generated before is added once more.                     *)
LiveGeneratedSummed(counted, in_flight, prev) == counted + in_flight + SumSet(prev)

LiveGenerated(counted, in_flight, prev) == Max({counted + in_flight} \cup prev)

(* A bug: the count before a restart stands.                                *)
PreviousKept(just_transitioned) == generated

Previous(just_transitioned) == IF just_transitioned THEN {} ELSE generated

(* What get_metrics does with a scrape.  llama.cpp's state is forgotten     *)
(* when warmup ends, before /slots is asked; the rate is taken from the raw *)
(* count.                                                                   *)
Observe(warming_up, just_transitioned, tokens) ==
    \/ /\ ~LlamaCpp
       /\ Report(warming_up, just_transitioned, tokens, Scraped, engine.life)
       /\ UNCHANGED <<generated, reading>>
    \/ /\ LlamaCpp /\ engine.flight = 0
       /\ LET now == LiveGenerated(engine.tokens, 0, Previous(just_transitioned))
          IN  generated' = {now} /\ Report(warming_up, just_transitioned, now, Scraped, engine.life)
       /\ UNCHANGED reading
    \/ /\ LlamaCpp /\ engine.flight # 0
       /\ reading' = {[warming |-> warming_up, counted |-> Scraped, life |-> engine.life]}
       /\ generated' = Previous(just_transitioned)
       /\ rates' = Meter(just_transitioned)
       /\ prev_spec' = (IF just_transitioned THEN {} ELSE prev_spec)
       /\ UNCHANGED shown

(* /slots answers what is in flight now, or not at all.                     *)
ReadSlots ==
    /\ \E r \in reading, in_flight \in {0, engine.flight} :
          LET now == LiveGenerated(r.counted.tokens, in_flight, generated)
          IN  generated' = {now} /\ Report(r.warming, FALSE, now, r.counted, r.life)
    /\ reading' = {}
    /\ UNCHANGED <<engine, scraped, misread, tracker>>

-----------------------------------------------------------------------------
(* WarmupTracker.observe.                                                   *)

Warming(cursor) == [mode |-> "Warming", cursor |-> cursor]
Active(base)    == [mode |-> "Active", base |-> base]

(* llama-server counts no requests: its baseline is the first scrape.       *)
Trigger == IF LlamaCpp THEN engine.tokens ELSE engine.served
Skip    == IF LlamaCpp THEN 0 ELSE SkipRequests

(* A scrape with no series of the engine's is no data to SGLang and         *)
(* llama.cpp, and changes nothing; what it is to vLLM, see ReadErrorPage.   *)
Readable == reading = {} /\ (Lazy => engine.served > 0)

(* A bug: counts the warmup from the latest poll, not from the first.       *)
CursorAlwaysNow == {Trigger}

(* The first poll is the cursor; a count below it is a restart.             *)
Cursor ==
    IF tracker.cursor = {} \/ \E i \in tracker.cursor : Trigger < i
    THEN {Trigger} ELSE tracker.cursor

(* A bug: one request too early.                                            *)
WarmedUpEarly == \A i \in Cursor : Trigger - i >= Skip - 1

(* A poll that finds the count below the cursor only moves the cursor.      *)
WarmedUp ==
    /\ \A i \in tracker.cursor : Trigger >= i
    /\ \A i \in Cursor : Trigger - i >= Skip

KeepWarming ==
    /\ tracker.mode = "Warming"
    /\ Readable
    /\ ~WarmedUp
    /\ tracker' = Warming(Cursor)
    /\ Observe(TRUE, FALSE, engine.tokens)
    /\ FirstScrape /\ UNCHANGED <<engine, misread>>

(* What the counters say of a request in flight is that it has a prompt.    *)
Baseline == [engine EXCEPT !.flight = IF @ = 0 THEN 0 ELSE 1]

(* The baseline is this poll, so its own deltas are all zero.               *)
EndWarmup ==
    /\ tracker.mode = "Warming"
    /\ Readable
    /\ WarmedUp
    /\ tracker' = Active(Baseline)
    /\ Observe(FALSE, TRUE, 0)
    /\ FirstScrape /\ UNCHANGED <<engine, misread>>

(* A bug: a restart goes unnoticed.                                         *)
NeverRegressed == FALSE

(* counter_regression, which compares every counter of the baseline.        *)
Regressed ==
    \/ ~LlamaCpp /\ engine.served < tracker.base.served
    \/ LlamaCpp /\ Prompts(engine) < Prompts(tracker.base)
    \/ engine.tokens < tracker.base.tokens

NoticeRestart ==
    /\ tracker.mode = "Active"
    /\ Readable
    /\ Regressed
    /\ tracker' = Warming({Trigger})
    /\ Observe(TRUE, FALSE, engine.tokens)
    /\ FirstScrape /\ UNCHANGED <<engine, misread>>

Measure ==
    /\ tracker.mode = "Active"
    /\ Readable
    /\ ~Regressed
    /\ Observe(FALSE, FALSE, Max({0, engine.tokens - tracker.base.tokens}))
    /\ FirstScrape /\ UNCHANGED <<engine, misread, tracker>>

Scrape ==
    \/ KeepWarming
    \/ EndWarmup
    \/ NoticeRestart
    \/ Measure
    \/ ReadSlots

(* vLLM's scrape is read whatever its status and without looking for a      *)
(* series.  Of an error page, the trigger's count is zero; no counter is    *)
(* there to have fallen below the baseline, or to be metered, and of the    *)
(* figures only the running mean is left.                                   *)
ShowBlank(warming_up) ==
    shown' = [shown EXCEPT
        !.warming = warming_up, !.rate = {}, !.share = {}, !.prompt = {},
        !.sum     = IF warming_up THEN 0 ELSE rates'.sum,
        !.figures = IF warming_up \/ rates'.sum = 0 THEN {} ELSE {<<"Throughput", "measured">>}]

(* Without a threshold, an error page may be the baseline.                  *)
BlankBaseline == SkipRequests = 0 /\ tracker.cursor \subseteq {0}

ReadErrorPage ==
    /\ engine.kind = "Vllm"
    /\ tracker' = IF tracker.mode = "Active" THEN tracker
                  ELSE IF BlankBaseline THEN Active([engine EXCEPT !.served = 0, !.tokens = 0])
                  ELSE Warming({0})
    /\ misread' = (misread \/ (tracker'.mode = "Warming" /\ engine.served # 0))
    /\ rates' = Meter(tracker'.mode # tracker.mode)
    /\ prev_spec' = {}
    /\ ShowBlank(tracker'.mode = "Warming")
    /\ UNCHANGED <<engine, scraped, generated, reading>>

-----------------------------------------------------------------------------
(* The latency histogram: how many requests took no longer than each bound, *)
(* the last count being that of all (+Inf).                                 *)

Buckets == 1 .. Len(Bounds) + 1
Finite  == DOMAIN Bounds
Histogram(served) ==
    [i \in Buckets |-> Cardinality({n \in 1 .. served : i \in Finite => Latency[n] <= Bounds[i]})]

(* A bug: the warmup requests stay in.                                      *)
SubtractNothing(h, base) == h

SubtractBaseline(h, base) == [i \in Buckets |-> Max({0, h[i] - base[i]})]

Total(h) == h[Len(Bounds) + 1]
Lower(h, i) == IF i = 1 THEN [le |-> 0, cum |-> 0] ELSE [le |-> Bounds[i - 1], cum |-> h[i - 1]]

(* percentile: the fraction q, interpolated in the first bucket that holds  *)
(* it; beyond the last bound, that bound.  Figures are fractions.           *)
Percentile(h, q) ==
    LET i     == Min({i \in Buckets : h[i] * q[2] >= Total(h) * q[1]})
        low   == Lower(h, i)
        count == h[i] - low.cum
    IN  CASE i \notin Finite -> <<Bounds[Len(Bounds)], 1>>
          [] i \in Finite /\ count = 0 -> <<Bounds[i], 1>>
          [] OTHER -> << low.le * count * q[2]
                           + (Total(h) * q[1] - low.cum * q[2]) * (Bounds[i] - low.le),
                         count * q[2] >>

(* fraction_le: the requests within a threshold, interpolated likewise; any *)
(* beyond the last bound missed it.                                         *)
CountLe(h, threshold) ==
    LET over == {i \in Finite : Bounds[i] >= threshold}
        i    == Min(over)
        low  == Lower(h, i)
    IN  IF over = {} THEN <<h[Len(Bounds)], 1>>
        ELSE << low.cum * (Bounds[i] - low.le) + (threshold - low.le) * (h[i] - low.cum),
                Bounds[i] - low.le >>

-----------------------------------------------------------------------------

(* The engine may have been running long before the dashboard starts.       *)
Init ==
    /\ engine \in [kind : Kinds, life : {1}, served : 0 .. MaxServed,
                   tokens : 0 .. MaxTokens, flight : {0}]
    /\ engine.served <= engine.tokens
    /\ engine.served = 0 => engine.tokens = 0
    /\ scraped = {} /\ misread = FALSE
    /\ tracker = Warming({})
    /\ rates = NoReading
    /\ prev_spec = {} /\ generated = {} /\ reading = {}
    /\ shown = [warming |-> TRUE, rate |-> {}, sum |-> 0, share |-> {}, prompt |-> {},
                life |-> 0, figures |-> {}]

Next == Serve \/ Generate \/ Decode \/ Finish \/ RestartEngine \/ Scrape \/ ReadErrorPage

Spec == Init /\ [][Next]_vars

(* The poll loop scrapes a running engine every second; not every answer    *)
(* is an error page.                                                        *)
LiveSpec == Spec /\ WF_vars(Scrape)

-----------------------------------------------------------------------------
(* Properties *)

(* Whatever restarts or finishes, the readings a figure is taken from are   *)
(* of the same baseline (the reset of CounterRate, the regression check,    *)
(* live_generated): no rate falls below zero, the running mean covers what  *)
(* was generated since the baseline and nothing else, and the share of      *)
(* accepted tokens is a share.  llama.cpp's rate of prompts, which is of    *)
(* the raw counter, falls below zero in one case only: the server was       *)
(* restarted over a baseline of zero, which watches nothing.                *)
Unwatched == tracker.base.tokens = 0 /\ Prompts(tracker.base) = 0
RatesAreSound ==
    /\ \A r \in shown.rate : r >= 0
    /\ \A r \in shown.prompt :
          r >= 0 \/ (tracker.mode = "Active" /\ tracker.base.life < shown.life /\ Unwatched)
    /\ ~shown.warming /\ ~LlamaCpp => rates.prev = {rates.sum}
    /\ \A s \in shown.share : 0 <= s[1] /\ s[1] <= s[2]

(* llama.cpp's live count never exceeds what the server has generated since *)
(* it was started, though /slots is read after the counters and a request   *)
(* may finish in between (live_generated).                                  *)
LiveCountIsHonest ==
    tracker.mode = "Active" /\ tracker.base.life = engine.life =>
        \A g \in generated : g <= Underway

(* "Subtracting a baseline snapshot [...] from every subsequent poll removes *)
(* the warmup observations from the computed metrics" (warmup.rs:8): what   *)
(* is shown as measured leaves out the first SkipRequests requests that the *)
(* engine served, and those since the dashboard first saw it after its      *)
(* start, unless an error page of a vLLM that had served was read for a     *)
(* count of zero; until then nothing is shown as measured.                  *)
WarmupIsExcluded ==
    /\ shown.warming => shown.figures \cap (MetricGroup \X {"measured"}) = {}
    /\ ~LlamaCpp /\ ~shown.warming /\ shown.life = engine.life =>
          /\ tracker.base.life = engine.life
          /\ tracker.base.served >= SkipRequests
          /\ misread \/ \A n \in scraped : tracker.base.served >= n + SkipRequests

(* The percentiles and the goodput an active tracker's scrape yields are    *)
(* those of the requests since its baseline: a percentile lies in the       *)
(* bucket its request is in, and a goodput between the counts of the bounds *)
(* about its threshold (histogram.rs over subtract_baseline).               *)
Quantiles == {<<1, 2>>, <<19, 20>>, <<99, 100>>}
LatenciesAreMeasured ==
    ~LlamaCpp /\ tracker.mode = "Active" /\ Readable /\ ~Regressed
      /\ engine.served > tracker.base.served =>
        LET measured == tracker.base.served + 1 .. engine.served
            h == SubtractBaseline(Histogram(engine.served), Histogram(tracker.base.served))
            Within(x) == Cardinality({n \in measured : Latency[n] <= x})
            True(q) == Min({Latency[n] : n \in {n \in measured :
                               Within(Latency[n]) * q[2] >= Cardinality(measured) * q[1]}})
        IN  /\ \A q \in Quantiles : \A i \in Buckets :
                 LET p == Percentile(h, q) IN
                 IF i \in Finite
                   THEN Lower(h, i).le < True(q) /\ True(q) <= Bounds[i]
                          => Lower(h, i).le * p[2] < p[1] /\ p[1] <= Bounds[i] * p[2]
                   ELSE Bounds[Len(Bounds)] < True(q) => p[1] = Bounds[Len(Bounds)] * p[2]
            /\ \A t \in 1 .. Bounds[Len(Bounds)] + 1 :
                 LET c     == CountLe(h, t)
                     below == {0} \cup {Within(Bounds[i]) : i \in {i \in Finite : Bounds[i] <= t}}
                     above == {Within(Bounds[Len(Bounds)])}
                              \cup {Within(Bounds[i]) : i \in {i \in Finite : Bounds[i] >= t}}
                 IN  Max(below) * c[2] <= c[1] /\ c[1] <= Min(above) * c[2]

(* Once it has served enough, an engine that is not restarted is shown as   *)
(* measured.                                                                *)
WarmupEnds ==
    \A l \in 1 .. MaxLives :
        (/\ engine.life = l
         /\ Readable
         /\ \E s \in scraped : engine.served >= s + Skip)
        ~> (engine.life # l \/ (shown.life = l /\ ~shown.warming))

(* "The counter the warmup baseline watches for a restart [...] a counter   *)
(* that drops below it re-baselines" (llamacpp.rs:62): once a restarted     *)
(* llama-server has been scraped, the live count is of its tokens.          *)
RestartIsNoticed ==
    ~shown.warming /\ shown.life = engine.life /\ reading = {} =>
        \A g \in generated : g <= Underway
=============================================================================
