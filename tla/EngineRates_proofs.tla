-------------------------- MODULE EngineRates_proofs --------------------------
(* Proofs about EngineRates, for any threshold, kinds of engine, histogram, *)
(* and any number of requests, tokens and lives.                            *)
EXTENDS EngineRates, FiniteSetTheorems, WellFoundedInduction, TLAPS

-----------------------------------------------------------------------------
(* The inductive invariant.                                                 *)

(* What the counters say of the engine's life: nothing is served before the *)
(* life's first scrape, but by an engine never scraped, and SGLang's first  *)
(* request.                                                                 *)
Never == engine.life = 1 /\ scraped = {}
Early == IF Lazy THEN 1 ELSE 0
LifeInv ==
    /\ Underway <= MaxTokens
    /\ \A n \in scraped : n <= engine.served
    /\ scraped = {} \/ ~LlamaCpp => engine.flight = 0
    /\ scraped = {} /\ ~Never => engine.tokens = engine.served /\ engine.served <= Early

(* What is kept of earlier readings is not ahead of the engine, or it is of *)
(* an earlier life and this one was not scraped.                            *)
UpTo(p, c) == p.served <= c.served /\ p.tokens <= c.tokens /\ p.prompts <= c.prompts
ReadingsInv ==
    /\ Never => prev_spec = {} /\ reading = {}
    /\ Lazy => prev_spec = {}
    /\ ~LlamaCpp => reading = {} /\ generated = {}
    /\ scraped # {} => /\ \A p \in prev_spec : UpTo(p, Scraped)
                       /\ \A r \in reading : UpTo(r.counted, Scraped)
    /\ \A p \in prev_spec, r \in reading : UpTo(p, r.counted)
    /\ \A s \in shown.share : 0 <= s[1] /\ s[1] <= s[2]

(* llama.cpp's live count: the rate is of it, and with a baseline of this   *)
(* life it is not ahead of the server.                                      *)
LiveInv ==
    LlamaCpp =>
        /\ rates.prev = generated
        /\ \A x \in shown.rate : x >= 0
        /\ tracker.mode = "Active" =>
              /\ tracker.base.life <= engine.life
              /\ tracker.base.life = engine.life =>
                    scraped # {} /\ \A g \in generated : g <= Underway

(* A restart over a baseline of zero is never noticed.                      *)
PromptInv ==
    \A x \in shown.prompt :
        /\ LlamaCpp
        /\ x >= 0 \/ (tracker.mode = "Active" /\ tracker.base.life < shown.life /\ Unwatched)

BaseInv == TypeOK /\ LifeInv /\ ReadingsInv /\ LiveInv /\ PromptInv

(* With a threshold, the baseline of vLLM and SGLang is above what a        *)
(* restarted engine can have served before it is scraped: a restart cannot  *)
(* pass for a slow engine.                                                  *)
WarmingInv ==
    tracker.mode = "Warming" =>
        \A i \in tracker.cursor :
            /\ Early <= i
            /\ misread \/ \A n \in scraped : n <= i
            /\ Never => ~Lazy /\ (misread \/ engine.served = 0)
ActiveInv ==
    tracker.mode = "Active" =>
        /\ ~Never
        /\ SkipRequests + Early <= tracker.base.served
        /\ rates.prev = {rates.sum}
        /\ scraped # {} =>
              /\ tracker.base.life = engine.life
              /\ tracker.base.served <= engine.served
              /\ rates.sum + tracker.base.tokens <= engine.tokens
              /\ misread \/ \A n \in scraped : n + SkipRequests <= tracker.base.served
ShownInv ==
    /\ shown.warming <=> tracker.mode = "Warming"
    /\ shown.life <= engine.life
    /\ shown.life = engine.life => scraped # {}
    /\ \A x \in shown.rate : x >= 0
MeasuredInv == ~LlamaCpp => WarmingInv /\ ActiveInv /\ ShownInv

FiguresInv == shown.warming => shown.figures \cap (MetricGroup \X {"measured"}) = {}
IInv == BaseInv /\ MeasuredInv /\ FiguresInv

-----------------------------------------------------------------------------
(* Limits, options and maxima.                                              *)

LEMMA Limits ==
    /\ SkipRequests \in Nat /\ MaxServed \in Nat /\ MaxTokens \in Nat /\ MaxLives \in Nat \ {0}
    /\ Kinds \subseteq {"Vllm", "Sglang", "LlamaCpp"}
BY RatesAssumption

LEMMA OptionCases ==
    ASSUME NEW S, NEW o \in Option(S)
    PROVE  o \subseteq S /\ (o = {} \/ \E x \in S : o = {x})
BY DEF Option

LEMMA MaxIs ==
    ASSUME NEW T \in SUBSET Int, NEW m \in T, \A y \in T : y <= m
    PROVE  Max(T) = m
<1>1. \A x \in T : (\A y \in T : x >= y) => x = m
    OBVIOUS
<1>2. \A y \in T : m >= y
    OBVIOUS
<1> QED
    BY <1>1, <1>2 DEF Max

(* A rate below zero adds nothing to the sum.                               *)
LEMMA MaxOfRate ==
    ASSUME NEW tokens \in Nat, NEW before \in SUBSET Nat,
           before = {} \/ \E p \in Nat : before = {p}
    PROVE  LET m == Max({0} \cup {tokens - p : p \in before}) IN
           /\ m \in Nat
           /\ before = {} => m = 0
           /\ \A p \in before : m = IF p <= tokens THEN tokens - p ELSE 0
<1> DEFINE T == {0} \cup {tokens - p : p \in before}
<1>1. CASE before = {}
  <2>1. T = {0}
    BY <1>1
  <2>2. T \in SUBSET Int /\ 0 \in T /\ \A y \in T : y <= 0
    BY <2>1
  <2> HIDE DEF T
  <2>3. Max(T) = 0
    BY <2>2, MaxIs
  <2> QED
    BY <1>1, <2>3 DEF T
<1>2. ASSUME NEW q \in Nat, before = {q}
      PROVE  Max(T) = IF q <= tokens THEN tokens - q ELSE 0
  <2> DEFINE m == IF q <= tokens THEN tokens - q ELSE 0
  <2>1. T = {0, tokens - q}
    BY <1>2
  <2>2. T \in SUBSET Int /\ m \in T /\ \A y \in T : y <= m
    BY <2>1
  <2> HIDE DEF T, m
  <2> QED
    BY <2>2, MaxIs DEF m
<1>3. \A q \in Nat : before = {q} => Max(T) = IF q <= tokens THEN tokens - q ELSE 0
    BY <1>2
<1> HIDE DEF T
<1>4. ASSUME NEW q \in Nat, before = {q}
      PROVE  /\ Max(T) \in Nat
             /\ \A p \in before : Max(T) = IF p <= tokens THEN tokens - p ELSE 0
    BY <1>3, <1>4
<1>5. /\ Max(T) \in Nat
      /\ before = {} => Max(T) = 0
      /\ \A p \in before : Max(T) = IF p <= tokens THEN tokens - p ELSE 0
  <2>1. CASE before = {}
    <3>1. Max(T) = 0
      BY <1>1, <2>1 DEF T
    <3> QED
      BY <2>1, <3>1
  <2>2. CASE before # {}
    BY <1>4, <2>2
  <2> QED
    BY <2>1, <2>2
<1> QED
    BY <1>5 DEF T

(* The live count is that of the server, or an earlier one it falls behind  *)
(* (live_generated).                                                        *)
LEMMA LiveGeneratedIs ==
    ASSUME NEW counted \in Nat, NEW in_flight \in Nat, NEW prev \in SUBSET Nat,
           prev = {} \/ \E p \in Nat : prev = {p}
    PROVE  LET now == LiveGenerated(counted, in_flight, prev) IN
           /\ now = counted + in_flight \/ now \in prev
           /\ counted + in_flight <= now /\ \A g \in prev : g <= now
<1> DEFINE c == counted + in_flight
           T == {c} \cup prev
<1>1. LiveGenerated(counted, in_flight, prev) = Max(T)
    BY DEF LiveGenerated
<1>2. c \in Nat
    OBVIOUS
<1> HIDE DEF c
<1>3. T \in SUBSET Int /\ \E m \in T : \A y \in T : y <= m
  <2>1. T \in SUBSET Int
    BY <1>2
  <2>2. CASE prev = {}
    BY <1>2, <2>2
  <2>3. ASSUME NEW p \in Nat, prev = {p} PROVE \E m \in T : \A y \in T : y <= m
    <3>1. CASE p <= c
      BY <1>2, <2>3, <3>1
    <3>2. CASE ~(p <= c)
      BY <1>2, <2>3, <3>2
    <3> QED
      BY <3>1, <3>2
  <2> QED
    BY <2>1, <2>2, <2>3
<1>4. Max(T) \in T /\ \A y \in T : y <= Max(T)
  <2> HIDE DEF T
  <2> QED
    BY <1>3, MaxIs
<1> QED
    BY <1>1, <1>4 DEF c

-----------------------------------------------------------------------------
(* The engine's steps.                                                      *)

LEMMA Counters ==
    ASSUME TypeOK
    PROVE  /\ engine.served \in 0 .. MaxServed /\ engine.tokens \in 0 .. MaxTokens
           /\ engine.flight \in 0 .. MaxTokens /\ engine.life \in 1 .. MaxLives
           /\ engine.kind \in Kinds /\ engine.kind \in {"Vllm", "Sglang", "LlamaCpp"}
           /\ engine.served \in Nat /\ engine.tokens \in Nat /\ engine.flight \in Nat
           /\ engine.life \in Nat /\ Early \in {0, 1}
<1>1. /\ engine.served \in 0 .. MaxServed /\ engine.tokens \in 0 .. MaxTokens
      /\ engine.flight \in 0 .. MaxTokens /\ engine.life \in 1 .. MaxLives
      /\ engine.kind \in Kinds
    BY DEF TypeOK, Engine
<1>2. engine.kind \in {"Vllm", "Sglang", "LlamaCpp"}
    BY <1>1, Limits
<1>3. Early \in {0, 1}
    BY DEF Early
<1>4. \A n, m \in Nat : \A k \in n .. m : k \in Nat
    OBVIOUS
<1>5. 0 \in Nat /\ 1 \in Nat
    OBVIOUS
<1>6. /\ engine.served \in Nat /\ engine.tokens \in Nat /\ engine.flight \in Nat
      /\ engine.life \in Nat
    BY <1>1, <1>4, <1>5, Limits
<1> QED
    BY <1>1, <1>2, <1>3, <1>6

LEMMA CountersAre ==
    ASSUME TypeOK, NEW served \in 0 .. MaxServed, NEW tokens \in 0 .. MaxTokens,
           NEW flight \in 0 .. MaxTokens, NEW life \in 1 .. MaxLives,
           engine' = [engine EXCEPT !.served = served, !.tokens = tokens, !.flight = flight,
                                    !.life = life]
    PROVE  /\ engine' \in Engine /\ engine'.kind = engine.kind /\ engine'.life = life
           /\ engine'.served = served /\ engine'.tokens = tokens /\ engine'.flight = flight
BY DEF TypeOK, Engine

(* While a life is not scraped, only SGLang serves, and only one request.   *)
LEMMA EngineServes ==
    ASSUME TypeOK, LifeInv, Serve \/ Generate \/ Decode \/ Finish
    PROVE  /\ UNCHANGED <<scraped, misread, tracker, rates, prev_spec, generated, reading, shown>>
           /\ engine' \in Engine /\ engine'.kind = engine.kind /\ engine'.life = engine.life
           /\ engine.served <= engine'.served /\ engine.tokens <= engine'.tokens
           /\ Underway <= Underway' /\ Underway' <= MaxTokens
           /\ Prompts(engine) <= Prompts(engine')
           /\ scraped # {} \/ Lazy
           /\ scraped = {} \/ ~LlamaCpp => engine'.flight = 0
           /\ scraped = {} /\ ~Never => engine'.tokens = engine'.served /\ engine'.served <= Early
<1>1. UNCHANGED <<scraped, misread, tracker, rates, prev_spec, generated, reading, shown>>
    BY DEF Serve, Generate, Decode, Finish, Adapter
<1>2. engine \in Engine
    BY DEF TypeOK
<1> DEFINE s == engine.served
           t == engine.tokens
           f == engine.flight
           l == engine.life
<1>3. /\ s \in 0 .. MaxServed /\ t \in 0 .. MaxTokens /\ f \in 0 .. MaxTokens /\ l \in 1 .. MaxLives
      /\ t + f <= MaxTokens /\ MaxServed \in Nat /\ MaxTokens \in Nat
      /\ scraped = {} \/ ~LlamaCpp => f = 0
      /\ scraped = {} /\ ~Never => t = s /\ s <= Early
    BY Counters, Limits DEF LifeInv, Underway
<1>4. CASE Serve
  <2> DEFINE served == s + 1
            tokens == t + 1
  <2>1. /\ s < MaxServed /\ t < MaxTokens /\ ~LlamaCpp
        /\ engine' = [engine EXCEPT !.served = served, !.tokens = tokens]
        /\ scraped # {} \/ (Early = 1 /\ s = 0)
    BY <1>4 DEF Serve, MayServe, Lazy, Early
  <2>2. engine' = [engine EXCEPT !.served = served, !.tokens = tokens, !.flight = f,
                                 !.life = l]
    BY <1>2, <2>1 DEF Engine
  <2>3. served \in 0 .. MaxServed /\ tokens \in 0 .. MaxTokens
    BY <1>3, <2>1
  <2> HIDE DEF s, t, f, l, served, tokens
  <2>4. /\ engine' \in Engine /\ engine'.kind = engine.kind /\ engine'.life = l
        /\ engine'.served = served /\ engine'.tokens = tokens /\ engine'.flight = f
    BY <1>3, <2>2, <2>3, CountersAre
  <2> USE DEF s, t, f, l, served, tokens
  <2> QED
    BY <1>1, <1>3, <2>1, <2>4 DEF Underway, Prompts, LlamaCpp, Lazy, Early
<1>5. CASE Generate
  <2> DEFINE tokens == t + 1
  <2>1. /\ t < MaxTokens /\ ~LlamaCpp /\ scraped # {}
        /\ engine' = [engine EXCEPT !.tokens = tokens]
    BY <1>5 DEF Generate
  <2>2. engine' = [engine EXCEPT !.served = s, !.tokens = tokens, !.flight = f,
                                 !.life = l]
    BY <1>2, <2>1 DEF Engine
  <2>3. tokens \in 0 .. MaxTokens
    BY <1>3, <2>1
  <2> HIDE DEF s, t, f, l, tokens
  <2>4. /\ engine' \in Engine /\ engine'.kind = engine.kind /\ engine'.life = l
        /\ engine'.served = s /\ engine'.tokens = tokens /\ engine'.flight = f
    BY <1>3, <2>2, <2>3, CountersAre
  <2> USE DEF s, t, f, l, tokens
  <2> QED
    BY <1>1, <1>3, <2>1, <2>4 DEF Underway, Prompts, LlamaCpp, Lazy, Early
<1>6. CASE Decode
  <2> DEFINE flight == f + 1
  <2>1. /\ t + f < MaxTokens /\ LlamaCpp /\ scraped # {}
        /\ engine' = [engine EXCEPT !.flight = flight]
    BY <1>6 DEF Decode, MayServe, Lazy, LlamaCpp, Underway
  <2>2. engine' = [engine EXCEPT !.served = s, !.tokens = t, !.flight = flight,
                                 !.life = l]
    BY <1>2, <2>1 DEF Engine
  <2>3. flight \in 0 .. MaxTokens
    BY <1>3, <2>1
  <2> HIDE DEF s, t, f, l, flight
  <2>4. /\ engine' \in Engine /\ engine'.kind = engine.kind /\ engine'.life = l
        /\ engine'.served = s /\ engine'.tokens = t /\ engine'.flight = flight
    BY <1>3, <2>2, <2>3, CountersAre
  <2> USE DEF s, t, f, l, flight
  <2> QED
    BY <1>1, <1>3, <2>1, <2>4 DEF Underway, Prompts, LlamaCpp, Lazy, Early
<1>7. CASE Finish
  <2> DEFINE served == s + 1
            tokens == t + f
            flight == 0
  <2>1. /\ s < MaxServed /\ LlamaCpp /\ f # 0
        /\ engine' = [engine EXCEPT !.served = served, !.tokens = tokens, !.flight = flight]
    BY <1>7 DEF Finish, Underway
  <2>2. engine' = [engine EXCEPT !.served = served, !.tokens = tokens, !.flight = flight,
                                 !.life = l]
    BY <1>2, <2>1 DEF Engine
  <2>3. served \in 0 .. MaxServed /\ tokens \in 0 .. MaxTokens /\ flight \in 0 .. MaxTokens
    BY <1>3, <2>1
  <2> HIDE DEF s, t, f, l, served, tokens, flight
  <2>4. /\ engine' \in Engine /\ engine'.kind = engine.kind /\ engine'.life = l
        /\ engine'.served = served /\ engine'.tokens = tokens /\ engine'.flight = flight
    BY <1>3, <2>2, <2>3, CountersAre
  <2> USE DEF s, t, f, l, served, tokens, flight
  <2> QED
    BY <1>1, <1>3, <2>1, <2>4 DEF Underway, Prompts, LlamaCpp, Lazy, Early
<1> QED
    BY <1>4, <1>5, <1>6, <1>7

LEMMA EngineRestarts ==
    ASSUME TypeOK, RestartEngine
    PROVE  /\ UNCHANGED <<tracker, rates, prev_spec, generated, reading, shown>>
           /\ scraped' = {} /\ misread' = FALSE
           /\ engine' \in Engine /\ engine'.kind = engine.kind /\ engine'.life = engine.life + 1
           /\ engine'.served = 0 /\ engine'.tokens = 0 /\ engine'.flight = 0
<1>1. engine.life + 1 \in 1 .. MaxLives
    BY Counters, Limits DEF RestartEngine
<1>2. 0 \in 0 .. MaxServed /\ 0 \in 0 .. MaxTokens
    BY Limits
<1> DEFINE z == 0
<1>3. engine' = [engine EXCEPT !.served = z, !.tokens = z, !.flight = z, !.life = engine.life + 1]
    BY DEF RestartEngine, TypeOK, Engine
<1> HIDE DEF z
<1>4. /\ engine' \in Engine /\ engine'.kind = engine.kind /\ engine'.life = engine.life + 1
      /\ engine'.served = z /\ engine'.tokens = z /\ engine'.flight = z
    BY <1>1, <1>2, <1>3, CountersAre DEF z
<1> QED
    BY <1>4 DEF RestartEngine, Adapter, z
-----------------------------------------------------------------------------
(* What a scrape leaves: CounterRate.observe and the fields of get_metrics. *)

LEMMA MeterIs ==
    ASSUME TypeOK, NEW just_transitioned \in BOOLEAN
    PROVE  /\ Meter(just_transitioned).prev \in Option(Generated)
           /\ Meter(just_transitioned).sum \in Nat
           /\ just_transitioned =>
                 Meter(just_transitioned).prev = {} /\ Meter(just_transitioned).sum = 0
           /\ ~just_transitioned => Meter(just_transitioned) = rates
<1>1. rates.prev \in Option(Generated) /\ rates.sum \in Nat
    BY DEF TypeOK
<1>2. {} \in Option(Generated) /\ 0 \in Nat
    BY DEF Option
<1> QED
    BY <1>1, <1>2 DEF Meter, NoReading

(* The sum grows by what was generated since the last reading; a rate that  *)
(* is shown is the difference to it.                                        *)
LEMMA ReportsRate ==
    ASSUME TypeOK, NEW w \in BOOLEAN, NEW jt \in BOOLEAN, NEW tokens \in Generated,
           NEW counted, NEW life, Report(w, jt, tokens, counted, life)
    PROVE  /\ rates' \in [prev : Option(Generated), sum : Nat] /\ rates'.prev = {tokens}
           /\ jt => rates'.sum = 0
           /\ ~jt => \A p \in rates.prev :
                        rates'.sum = rates.sum + (IF p <= tokens THEN tokens - p ELSE 0)
           /\ shown'.rate \in SUBSET Int /\ shown'.sum \in Nat
           /\ w => shown'.rate = {} /\ shown'.sum = 0
           /\ \A x \in shown'.rate : ~w /\ ~jt /\ \E p \in rates.prev : x = tokens - p
<1> DEFINE before == Meter(jt).prev
           had    == Meter(jt).sum
           rate   == {tokens - p : p \in before}
           more   == Max({0} \cup rate)
           sum    == had + more
<1>1. /\ rates' = [prev |-> {tokens}, sum |-> sum]
      /\ shown'.rate = (IF w THEN {} ELSE rate)
      /\ shown'.sum = (IF w THEN 0 ELSE sum)
    BY DEF Report
<1>2. before \in Option(Generated) /\ had \in Nat
    BY MeterIs
<1>3. Generated \subseteq Nat /\ tokens \in Nat /\ {tokens} \in Option(Generated)
    BY Limits DEF Generated, Option
<1>4. before \in SUBSET Nat /\ (before = {} \/ \E p \in Nat : before = {p})
  <2>1. before \subseteq Generated /\ (before = {} \/ \E p \in Generated : before = {p})
    <3> HIDE DEF before
    <3> QED
      BY <1>2, OptionCases
  <2> QED
    BY <1>3, <2>1
<1>5. /\ more \in Nat
      /\ before = {} => more = 0
      /\ \A p \in before : more = IF p <= tokens THEN tokens - p ELSE 0
    BY <1>3, <1>4, MaxOfRate
<1>6. rate \in SUBSET Int
    BY <1>3, <1>4
<1>7. jt => before = {} /\ had = 0
    BY MeterIs
<1>8. ~jt => before = rates.prev /\ had = rates.sum
    BY MeterIs
<1>9. \A x \in rate : \E p \in before : x = tokens - p
    OBVIOUS
<1>10. jt => rate = {}
    BY <1>7
<1> HIDE DEF before, had, rate, more
<1>11. sum \in Nat /\ (jt => sum = 0)
    BY <1>2, <1>5, <1>7
<1>12. ~jt => \A p \in rates.prev : sum = rates.sum + (IF p <= tokens THEN tokens - p ELSE 0)
    BY <1>5, <1>8
<1> HIDE DEF sum
<1>13. rates' \in [prev : Option(Generated), sum : Nat] /\ rates'.prev = {tokens} /\ rates'.sum = sum
    BY <1>1, <1>3, <1>11
<1>14. /\ shown'.rate \in SUBSET Int /\ shown'.sum \in Nat
       /\ w => shown'.rate = {} /\ shown'.sum = 0
    BY <1>1, <1>6, <1>11
<1>15. \A x \in shown'.rate : ~w /\ ~jt /\ \E p \in rates.prev : x = tokens - p
    BY <1>1, <1>8, <1>9, <1>10
<1> QED
    BY <1>11, <1>12, <1>13, <1>14, <1>15

(* A share that is shown is a share, if the last reading is not ahead of    *)
(* this one or nothing was generated.                                       *)
LEMMA ReportsShare ==
    ASSUME TypeOK, NEW w \in BOOLEAN, NEW jt \in BOOLEAN, NEW tokens, NEW counted \in Counts,
           NEW life, Report(w, jt, tokens, counted, life),
           \A p \in prev_spec : UpTo(p, counted) \/ counted.tokens = 0
    PROVE  /\ prev_spec' = (IF Lazy THEN {} ELSE {counted}) /\ prev_spec' \in Option(Counts)
           /\ shown'.share \in SUBSET (Int \X Int)
           /\ w => shown'.share = {}
           /\ \A s \in shown'.share : 0 <= s[1] /\ s[1] <= s[2]
<1> DEFINE prev == IF jt THEN {} ELSE prev_spec
<1>1. /\ prev_spec' = (IF Lazy THEN {} ELSE {counted})
      /\ shown'.share = (IF Lazy \/ w THEN {} ELSE AcceptanceRate(prev, counted))
    BY DEF Report
<1>2. prev_spec \subseteq Counts
    BY OptionCases DEF TypeOK
<1>3. \A c \in Counts : c.served \in Nat /\ c.tokens \in Nat
    BY Limits DEF Counts
<1>4. ASSUME NEW s \in AcceptanceRate(prev, counted)
      PROVE  s \in Int \X Int /\ 0 <= s[1] /\ s[1] <= s[2]
  <2>1. PICK p \in prev_spec :
            /\ s = <<Accepted(counted) - Accepted(p), counted.tokens - p.tokens>>
            /\ Accepted(counted) >= Accepted(p) /\ counted.tokens > p.tokens
    BY <1>4 DEF AcceptanceRate
  <2>2. /\ p.served \in Nat /\ p.tokens \in Nat
        /\ counted.served \in Nat /\ counted.tokens \in Nat
    BY <1>2, <1>3
  <2>3. p.served <= counted.served
    BY <2>1, <2>2 DEF UpTo
  <2> QED
    BY <2>1, <2>2, <2>3 DEF Accepted
<1>5. prev_spec' \in Option(Counts)
    BY <1>1 DEF Option
<1> HIDE DEF prev
<1> QED
    BY <1>1, <1>4, <1>5

(* The whole of it.                                                         *)
LEMMA Reports ==
    ASSUME TypeOK, NEW w \in BOOLEAN, NEW jt \in BOOLEAN, NEW tokens \in Generated,
           NEW counted \in Counts, NEW life \in 1 .. MaxLives,
           Report(w, jt, tokens, counted, life),
           \A p \in prev_spec : UpTo(p, counted) \/ counted.tokens = 0
    PROVE  /\ shown' \in Shown
           /\ shown'.warming = w /\ shown'.life = life
           /\ ~LlamaCpp \/ w \/ jt => shown'.prompt = {}
           /\ \A x \in shown'.prompt :
                  \E p \in prev_spec : x = counted.prompts - p.prompts
           /\ FiguresInv'
<1>1. /\ shown'.rate \in SUBSET Int /\ shown'.sum \in Nat
      /\ w => shown'.rate = {} /\ shown'.sum = 0
    BY ReportsRate
<1>2. /\ shown'.share \in SUBSET (Int \X Int)
      /\ w => shown'.share = {}
    BY ReportsShare
<1>3. /\ shown'.warming = w /\ shown'.life = life
      /\ shown'.figures = EngineMetrics(w)
    BY DEF Report
<1>4. Standing \subseteq MetricGroup /\ Measured \subseteq MetricGroup
    BY DEF Standing, Measured, MetricGroup
<1>5. /\ EngineMetrics(w) \subseteq Figures
      /\ w => EngineMetrics(w) \cap (MetricGroup \X {"measured"}) = {}
  <2>1. EngineMetrics(w) \subseteq
            (Standing \X {"standing"}) \cup (IF w THEN {} ELSE Measured \X {"measured"})
    BY DEF EngineMetrics, ReportedOnly
  <2> QED
    BY <1>4, <2>1 DEF Figures
<1>6. shown' = [warming |-> shown'.warming, rate |-> shown'.rate, sum |-> shown'.sum,
                share |-> shown'.share, prompt |-> shown'.prompt, life |-> shown'.life,
                figures |-> shown'.figures]
    BY DEF Report
<1>7. life \in 0 .. MaxLives
    BY Limits
<1>8. /\ ~LlamaCpp \/ w \/ jt => shown'.prompt = {}
      /\ \A x \in shown'.prompt : \E p \in prev_spec : x = counted.prompts - p.prompts
    BY DEF Report, PromptRate
<1>9. shown'.prompt \in SUBSET Int
  <2>1. prev_spec \subseteq Counts
    BY OptionCases DEF TypeOK
  <2>2. \A c \in Counts : c.prompts \in Int
    BY Limits DEF Counts
  <2>3. \A x \in shown'.prompt : x \in Int
    BY <1>8, <2>1, <2>2
  <2> QED
    BY <2>3
<1>10. FiguresInv'
    BY <1>3, <1>5 DEF FiguresInv
<1>11. CASE w = TRUE
  <2>1. shown' = [warming |-> TRUE, rate |-> {}, sum |-> 0, share |-> {}, prompt |-> {},
                  life |-> life, figures |-> EngineMetrics(w)]
    BY <1>1, <1>2, <1>3, <1>6, <1>8, <1>11
  <2>2. shown' \in Shown
    BY <1>5, <1>7, <2>1 DEF Shown
  <2> QED
    BY <1>3, <1>8, <1>10, <2>2
<1>12. CASE w = FALSE
  <2>1. shown' = [warming |-> FALSE, rate |-> shown'.rate, sum |-> shown'.sum,
                  share |-> shown'.share, prompt |-> shown'.prompt, life |-> life,
                  figures |-> EngineMetrics(w)]
    BY <1>3, <1>6, <1>12
  <2>2. ASSUME NEW r \in SUBSET Int, NEW n \in Nat, NEW h \in SUBSET (Int \X Int),
                NEW p \in SUBSET Int, NEW l \in 0 .. MaxLives, NEW f \in SUBSET Figures
         PROVE  [warming |-> FALSE, rate |-> r, sum |-> n, share |-> h, prompt |-> p,
                 life |-> l, figures |-> f] \in Shown
    BY DEF Shown
  <2>3. EngineMetrics(w) \in SUBSET Figures
    BY <1>5
  <2>4. shown' \in Shown
    BY <1>1, <1>2, <1>7, <1>9, <2>1, <2>2, <2>3
  <2> QED
    BY <1>3, <1>8, <1>10, <2>4
<1> QED
    BY <1>11, <1>12

-----------------------------------------------------------------------------
(* A scrape.                                                                *)

(* The acceptance rate is taken from a reading that is not ahead, or there  *)
(* is nothing to take it from.                                              *)
LEMMA ScrapedIs ==
    ASSUME TypeOK, LifeInv, ReadingsInv
    PROVE  /\ Scraped \in Counts
           /\ Scraped.served = engine.served /\ Scraped.tokens = engine.tokens
           /\ Scraped.prompts = Prompts(engine)
           /\ UpTo(Scraped, Scraped)
           /\ \A p \in prev_spec : UpTo(p, Scraped) \/ Scraped.tokens = 0
<1>1. /\ Scraped \in Counts
      /\ Scraped.served = engine.served /\ Scraped.tokens = engine.tokens
      /\ Scraped.prompts = Prompts(engine)
      /\ UpTo(Scraped, Scraped)
  <2>1. Prompts(engine) \in 0 .. MaxServed + 1
    BY Counters, Limits DEF Prompts
  <2> QED
    BY <2>1, Counters, Limits DEF Scraped, Counts, UpTo
<1>2. CASE scraped # {}
    BY <1>1, <1>2 DEF ReadingsInv
<1>3. CASE scraped = {}
  <2>1. CASE Never \/ Lazy
    BY <1>1, <2>1 DEF ReadingsInv
  <2>2. CASE ~Never /\ ~Lazy
    BY <1>1, <1>3, <2>2, Counters DEF LifeInv, Early
  <2> QED
    BY <2>1, <2>2
<1> QED
    BY <1>1, <1>2, <1>3

LEMMA CursorIs ==
    ASSUME TypeOK, tracker.mode = "Warming"
    PROVE  /\ Trigger \in 0 .. MaxServed + MaxTokens /\ Trigger \in Nat
           /\ tracker.cursor \in Option(0 .. MaxServed + MaxTokens)
           /\ Cursor \in Option(0 .. MaxServed + MaxTokens) /\ Cursor # {}
           /\ \/ Cursor = {Trigger}
              \/ Cursor = tracker.cursor /\ \A i \in tracker.cursor : i <= Trigger
<1>1. Trigger \in 0 .. MaxServed + MaxTokens /\ Trigger \in Nat
    BY Counters, Limits DEF Trigger
<1>2. tracker.cursor \in Option(0 .. MaxServed + MaxTokens)
    BY DEF TypeOK
<1>3. tracker.cursor \subseteq Nat
    BY <1>2, OptionCases, Limits
<1>4. {Trigger} \in Option(0 .. MaxServed + MaxTokens)
    BY <1>1 DEF Option
<1>5. CASE tracker.cursor = {} \/ \E i \in tracker.cursor : Trigger < i
  <2>1. Cursor = {Trigger}
    BY <1>5 DEF Cursor
  <2> QED
    BY <1>1, <1>2, <1>4, <2>1
<1>6. CASE ~(tracker.cursor = {} \/ \E i \in tracker.cursor : Trigger < i)
  <2>1. Cursor = tracker.cursor
    BY <1>6 DEF Cursor
  <2>2. \A i \in tracker.cursor : i <= Trigger
    BY <1>1, <1>3, <1>6
  <2> QED
    BY <1>1, <1>2, <1>6, <2>1, <2>2
<1> QED
    BY <1>5, <1>6

LEMMA TrackerIs ==
    ASSUME TypeOK
    PROVE  /\ \/ tracker.mode = "Warming"
                 /\ tracker \in [mode : {"Warming"}, cursor : Option(0 .. MaxServed + MaxTokens)]
              \/ tracker.mode = "Active" /\ tracker \in [mode : {"Active"}, base : Engine]
           /\ tracker.mode = "Active" =>
                 /\ tracker.base \in Engine
                 /\ tracker.base.served \in Nat /\ tracker.base.tokens \in 0 .. MaxTokens
                 /\ tracker.base.tokens \in Nat /\ tracker.base.life \in Nat
                 /\ tracker.base.flight \in Nat
<1>1. \/ tracker.mode = "Warming"
         /\ tracker \in [mode : {"Warming"}, cursor : Option(0 .. MaxServed + MaxTokens)]
      \/ tracker.mode = "Active" /\ tracker \in [mode : {"Active"}, base : Engine]
    BY DEF TypeOK
<1>2. ASSUME tracker.mode = "Active"
      PROVE  /\ tracker.base \in Engine
             /\ tracker.base.served \in 0 .. MaxServed /\ tracker.base.tokens \in 0 .. MaxTokens
             /\ tracker.base.life \in 1 .. MaxLives /\ tracker.base.flight \in 0 .. MaxTokens
  <2>1. tracker.base \in Engine
    BY <1>1, <1>2
  <2> QED
    BY <2>1 DEF Engine
<1> QED
    BY <1>1, <1>2, Limits

(* The four kinds of scrape, as the state they leave behind in tracker and  *)
(* what they observe.                                                       *)
Tick(warming_up, just_transitioned, tokens) ==
    /\ Readable /\ FirstScrape /\ UNCHANGED <<engine, misread>>
    /\ Observe(warming_up, just_transitioned, tokens)
    /\ tokens \in 0 .. MaxTokens
    /\ warming_up => ~just_transitioned
    /\ warming_up \/ just_transitioned \/ Measure

LEMMA KeepWarmingIs ==
    ASSUME TypeOK, KeepWarming
    PROVE  /\ Tick(TRUE, FALSE, engine.tokens)
           /\ tracker' \in [mode : {"Warming"}, cursor : Option(0 .. MaxServed + MaxTokens)]
           /\ tracker.mode = "Warming" /\ tracker' = Warming(Cursor)
<1>1. tracker.mode = "Warming" /\ tracker' = Warming(Cursor)
    BY DEF KeepWarming
<1>2. Cursor \in Option(0 .. MaxServed + MaxTokens)
    BY <1>1, CursorIs
<1>3. Tick(TRUE, FALSE, engine.tokens)
    BY Counters DEF KeepWarming, Tick
<1>4. Warming(Cursor) \in [mode : {"Warming"}, cursor : Option(0 .. MaxServed + MaxTokens)]
    BY <1>2 DEF Warming
<1> QED
    BY <1>1, <1>3, <1>4

LEMMA NoticeRestartIs ==
    ASSUME TypeOK, NoticeRestart
    PROVE  /\ Tick(TRUE, FALSE, engine.tokens)
           /\ tracker' \in [mode : {"Warming"}, cursor : Option(0 .. MaxServed + MaxTokens)]
           /\ tracker.mode = "Active" /\ tracker' = Warming({Trigger}) /\ Regressed
<1>1. tracker.mode = "Active" /\ tracker' = Warming({Trigger}) /\ Regressed
    BY DEF NoticeRestart
<1>2. Trigger \in 0 .. MaxServed + MaxTokens
    BY Counters, Limits DEF Trigger
<1>3. {Trigger} \in Option(0 .. MaxServed + MaxTokens)
    BY <1>2 DEF Option
<1>4. Tick(TRUE, FALSE, engine.tokens)
    BY Counters DEF NoticeRestart, Tick
<1>5. Warming({Trigger}) \in [mode : {"Warming"}, cursor : Option(0 .. MaxServed + MaxTokens)]
    BY <1>3 DEF Warming
<1> QED
    BY <1>1, <1>4, <1>5

LEMMA EndWarmupIs ==
    ASSUME TypeOK, EndWarmup
    PROVE  /\ Tick(FALSE, TRUE, 0)
           /\ tracker' \in [mode : {"Active"}, base : Engine]
           /\ tracker.mode = "Warming" /\ tracker'.mode = "Active"
           /\ tracker'.base.life = engine.life /\ tracker'.base.served = engine.served
           /\ tracker'.base.tokens = engine.tokens
<1>1. tracker.mode = "Warming" /\ tracker' = Active(Baseline)
    BY DEF EndWarmup
<1> DEFINE flight == IF engine.flight = 0 THEN 0 ELSE 1
<1>2. 0 \in 0 .. MaxTokens /\ flight \in 0 .. MaxTokens
    BY Counters, Limits
<1>3. engine \in Engine /\ Baseline = [engine EXCEPT !.flight = flight]
    BY DEF TypeOK, Baseline
<1> HIDE DEF flight
<1>4. /\ Baseline \in Engine
      /\ Baseline.life = engine.life
      /\ Baseline.served = engine.served
      /\ Baseline.tokens = engine.tokens
    BY <1>2, <1>3 DEF Engine
<1>5. tracker'.mode = "Active"
    BY <1>1 DEF Active
<1>6. Tick(FALSE, TRUE, 0)
    BY <1>2 DEF EndWarmup, Tick
<1>7. tracker'.base = Baseline /\ tracker' \in [mode : {"Active"}, base : Engine]
    BY <1>1, <1>4 DEF Active
<1> QED
    BY <1>1, <1>4, <1>5, <1>6, <1>7

(* The baseline's tokens are subtracted, or the count is that of llama.cpp, *)
(* which takes its own.                                                     *)
LEMMA MeasureIs ==
    ASSUME TypeOK, Measure
    PROVE  /\ Tick(FALSE, FALSE, engine.tokens - tracker.base.tokens)
           /\ tracker' = tracker /\ tracker.mode = "Active" /\ ~Regressed
<1>1. tracker' = tracker /\ tracker.mode = "Active" /\ ~Regressed
    BY DEF Measure
<1>2. tracker.base.tokens \in Nat /\ engine.tokens \in 0 .. MaxTokens
    BY <1>1, Counters, TrackerIs
<1>3. tracker.base.tokens <= engine.tokens
    BY <1>1, <1>2, Limits DEF Regressed
<1> DEFINE d == engine.tokens - tracker.base.tokens
<1>4. d \in 0 .. MaxTokens /\ d \in Nat
    BY <1>2, <1>3, Limits
<1>5. Max({0, d}) = d
  <2>1. {0, d} \in SUBSET Int /\ d \in {0, d} /\ \A y \in {0, d} : y <= d
    BY <1>4
  <2> HIDE DEF d
  <2> QED
    BY <2>1, MaxIs
<1> QED
    BY <1>1, <1>2, <1>4, <1>5 DEF Measure, Tick

(* What a scrape leaves: readings that are not ahead of the engine, and a   *)
(* live count that is the server's or an earlier one.                       *)
Overlooked ==
    tracker.mode = "Active" /\ tracker' = tracker /\ tracker.base.life < engine.life /\ Unwatched
LeavesReadings(just_transitioned) ==
    /\ rates' \in [prev : Option(Generated), sum : Nat]
    /\ prev_spec' \in Option(Counts)
    /\ generated' \in Option(Generated)
    /\ reading' \in Option([warming : BOOLEAN, counted : Counts, life : 1 .. MaxLives])
    /\ shown' \in Shown
    /\ \A p \in prev_spec' : UpTo(p, Scraped)
    /\ Lazy => prev_spec' = {}
    /\ \A r \in reading' : r.counted = Scraped
    /\ \/ LlamaCpp /\ shown' = shown
       \/ shown'.life = engine.life /\ \A x \in shown'.prompt : LlamaCpp /\ (x >= 0 \/ Overlooked)
    /\ ~LlamaCpp => reading' = {} /\ generated' = {}
    /\ \A s \in shown'.share : 0 <= s[1] /\ s[1] <= s[2]
    /\ LlamaCpp => rates'.prev = generated' /\ \A x \in shown'.rate : x >= 0
    /\ \A g \in generated' : g <= engine.tokens \/ (~just_transitioned /\ g \in generated)
    /\ FiguresInv => FiguresInv'

LEMMA TickOfVllmOrSglang ==
    ASSUME BaseInv, NEW w \in BOOLEAN, NEW jt \in BOOLEAN, NEW tokens,
           Tick(w, jt, tokens), ~LlamaCpp
    PROVE  LeavesReadings(jt) /\ Report(w, jt, tokens, Scraped, engine.life)
<1>1. /\ Report(w, jt, tokens, Scraped, engine.life)
      /\ generated' = generated /\ reading' = reading
    BY DEF Tick, Observe
<1>2. TypeOK /\ generated = {} /\ reading = {}
    BY DEF BaseInv, ReadingsInv
<1>3. /\ Scraped \in Counts
      /\ Scraped.served = engine.served /\ Scraped.tokens = engine.tokens
      /\ \A p \in prev_spec : UpTo(p, Scraped) \/ Scraped.tokens = 0
    BY ScrapedIs DEF BaseInv
<1>4. tokens \in Generated /\ engine.life \in 1 .. MaxLives
    BY <1>2, Counters, Limits DEF Tick, Generated
<1>5. /\ rates' \in [prev : Option(Generated), sum : Nat]
      /\ prev_spec' = (IF Lazy THEN {} ELSE {Scraped}) /\ prev_spec' \in Option(Counts)
      /\ \A s \in shown'.share : 0 <= s[1] /\ s[1] <= s[2]
      /\ FiguresInv'
  <2>1. rates' \in [prev : Option(Generated), sum : Nat]
    BY <1>1, <1>2, <1>4, ReportsRate
  <2>2. /\ prev_spec' = (IF Lazy THEN {} ELSE {Scraped}) /\ prev_spec' \in Option(Counts)
        /\ \A s \in shown'.share : 0 <= s[1] /\ s[1] <= s[2]
    BY <1>1, <1>2, <1>3, ReportsShare
  <2>3. FiguresInv'
    BY <1>1, <1>2, <1>3, <1>4, Reports
  <2> QED
    BY <2>1, <2>2, <2>3
<1>6. \A p \in prev_spec' : UpTo(p, Scraped)
    BY <1>5, ScrapedIs DEF BaseInv
<1>7. shown' \in Shown /\ shown'.prompt = {} /\ shown'.life = engine.life
    BY <1>1, <1>2, <1>3, <1>4, Reports
<1>8. {} \in Option(Generated)
      /\ {} \in Option([warming : BOOLEAN, counted : Counts, life : 1 .. MaxLives])
    BY DEF Option
<1> QED
    BY <1>1, <1>2, <1>5, <1>6, <1>7, <1>8 DEF LeavesReadings

(* llama.cpp with nothing in flight: the live count is taken at once.       *)
LEMMA TickOfIdleServer ==
    ASSUME BaseInv, NEW w \in BOOLEAN, NEW jt \in BOOLEAN, NEW tokens,
           Tick(w, jt, tokens), LlamaCpp, engine.flight = 0
    PROVE  LeavesReadings(jt)
<1> DEFINE before == Previous(jt)
           now    == LiveGenerated(engine.tokens, 0, before)
<1>1. /\ Report(w, jt, now, Scraped, engine.life)
      /\ generated' = {now} /\ reading' = {}
    BY DEF Tick, Observe, Readable
<1>2. TypeOK /\ generated \in Option(Generated) /\ rates.prev = generated
    BY DEF BaseInv, TypeOK, LiveInv
<1>3. /\ Scraped \in Counts
      /\ Scraped.served = engine.served /\ Scraped.tokens = engine.tokens
      /\ \A p \in prev_spec : UpTo(p, Scraped) \/ Scraped.tokens = 0
    BY ScrapedIs DEF BaseInv
<1>4. /\ before = {} \/ (~jt /\ before = generated)
      /\ ~jt => before = generated
    BY DEF Previous
<1>5. Generated \subseteq Nat /\ engine.tokens \in Nat /\ engine.tokens \in Generated
    BY <1>2, Counters, Limits DEF Generated
<1>6. before \subseteq Generated /\ (before = {} \/ \E p \in Generated : before = {p})
  <2>1. generated \subseteq Generated /\ (generated = {} \/ \E p \in Generated : generated = {p})
    BY <1>2, OptionCases
  <2> HIDE DEF before
  <2> QED
    BY <1>4, <2>1
<1>7. before \in SUBSET Nat /\ (before = {} \/ \E p \in Nat : before = {p})
  <2> HIDE DEF before
  <2> QED
    BY <1>5, <1>6
<1>8. /\ now = engine.tokens + 0 \/ now \in before
      /\ \A g \in before : g <= now
  <2> HIDE DEF before
  <2>1. 0 \in Nat
    OBVIOUS
  <2> QED
    BY <1>5, <1>7, <2>1, LiveGeneratedIs
<1> HIDE DEF before, now
<1>9. now \in Generated /\ (now <= engine.tokens \/ (~jt /\ now \in generated))
  <2>1. engine.tokens + 0 = engine.tokens /\ engine.tokens <= engine.tokens
    BY <1>5
  <2>2. CASE now = engine.tokens
    BY <1>5, <2>1, <2>2
  <2>3. CASE now \in before
    BY <1>4, <1>6, <2>3
  <2> QED
    BY <1>8, <2>1, <2>2, <2>3
<1>10. engine.life \in 1 .. MaxLives
    BY <1>2, Counters
<1>11. /\ rates' \in [prev : Option(Generated), sum : Nat] /\ rates'.prev = {now}
       /\ \A x \in shown'.rate : ~jt /\ \E p \in rates.prev : x = now - p
    BY <1>1, <1>2, <1>9, ReportsRate
<1>12. \A x \in shown'.rate : x >= 0
  <2> TAKE x \in shown'.rate
  <2>1. PICK p \in generated : x = now - p /\ ~jt
    BY <1>2, <1>11
  <2>2. p <= now /\ p \in Nat /\ now \in Nat
    BY <1>4, <1>5, <1>6, <1>8, <1>9, <2>1
  <2> QED
    BY <2>1, <2>2
<1>13. /\ prev_spec' = (IF Lazy THEN {} ELSE {Scraped}) /\ prev_spec' \in Option(Counts)
       /\ \A s \in shown'.share : 0 <= s[1] /\ s[1] <= s[2]
    BY <1>1, <1>2, <1>3, ReportsShare
<1>14. \A p \in prev_spec' : UpTo(p, Scraped)
    BY <1>13, ScrapedIs DEF BaseInv
<1>15. /\ FiguresInv'
       /\ shown' \in Shown /\ shown'.life = engine.life
       /\ w \/ jt => shown'.prompt = {}
       /\ \A x \in shown'.prompt : \E p \in prev_spec : x = Scraped.prompts - p.prompts
    BY <1>1, <1>2, <1>3, <1>9, <1>10, Reports
<1>16. {now} \in Option(Generated)
       /\ {} \in Option([warming : BOOLEAN, counted : Counts, life : 1 .. MaxLives])
    BY <1>9 DEF Option
<1>17. ASSUME NEW x \in shown'.prompt PROVE x >= 0 \/ Overlooked
  <2>1. ~w /\ ~jt
    BY <1>15, <1>17
  <2>2. PICK p \in prev_spec : x = Scraped.prompts - p.prompts
    BY <1>15, <1>17
  <2>3. p \in Counts /\ p.prompts \in Nat /\ Scraped.prompts \in Nat
    <3>1. prev_spec \subseteq Counts
      BY <1>2, OptionCases DEF TypeOK
    <3> QED
      BY <1>3, <2>2, <3>1, Limits DEF Counts
  <2>4. CASE scraped # {}
    <3>1. p.prompts <= Scraped.prompts
      BY <2>2, <2>4 DEF BaseInv, ReadingsInv, UpTo
    <3> QED
      BY <2>2, <2>3, <3>1
  <2>5. CASE scraped = {}
    <3>1. Measure
      BY <2>1 DEF Tick
    <3>2. tracker.mode = "Active" /\ tracker' = tracker /\ ~Regressed
      BY <1>2, <3>1, MeasureIs
    <3>3. tracker.base.life < engine.life
      BY <1>2, <2>5, <3>2, TrackerIs, Counters DEF BaseInv, LiveInv
    <3>4. ~Never
      BY <2>2 DEF BaseInv, ReadingsInv
    <3>5. engine.tokens = 0 /\ engine.served = 0
      BY <1>2, <2>5, <3>4, Counters DEF BaseInv, LifeInv, Early, Lazy, LlamaCpp
    <3>6. Prompts(engine) = 0
      BY <3>5 DEF Prompts
    <3>7. tracker.base.tokens \in Nat /\ Prompts(tracker.base) \in Nat
      BY <1>2, <3>2, TrackerIs DEF Prompts
    <3>8. Unwatched
      BY <3>2, <3>5, <3>6, <3>7 DEF Regressed, Unwatched
    <3> QED
      BY <3>2, <3>3, <3>8 DEF Overlooked
  <2> QED
    BY <2>4, <2>5
<1> QED
    BY <1>1, <1>9, <1>11, <1>12, <1>13, <1>14, <1>15, <1>16, <1>17 DEF LeavesReadings

(* llama.cpp with a request in flight: /slots is asked first, and the state *)
(* is forgotten before it answers if warmup has ended.                      *)
LEMMA TickOfBusyServer ==
    ASSUME BaseInv, NEW w \in BOOLEAN, NEW jt \in BOOLEAN, NEW tokens,
           Tick(w, jt, tokens), LlamaCpp, engine.flight # 0
    PROVE  LeavesReadings(jt)
<1>1. /\ reading' = {[warming |-> w, counted |-> Scraped, life |-> engine.life]}
      /\ generated' = Previous(jt) /\ rates' = Meter(jt)
      /\ prev_spec' = (IF jt THEN {} ELSE prev_spec) /\ shown' = shown
    BY DEF Tick, Observe
<1>2. /\ TypeOK /\ rates.prev = generated /\ \A x \in shown.rate : x >= 0
      /\ generated \in Option(Generated) /\ prev_spec \in Option(Counts)
    BY DEF BaseInv, TypeOK, LiveInv
<1>3. Scraped \in Counts /\ engine.life \in 1 .. MaxLives
    BY <1>2, ScrapedIs, Counters DEF BaseInv
<1>4. \A p \in prev_spec : UpTo(p, Scraped)
    BY DEF BaseInv, LifeInv, ReadingsInv
<1>5. {} \in Option(Generated) /\ {} \in Option(Counts)
    BY DEF Option
<1>6. /\ Meter(jt).prev = Previous(jt) /\ Meter(jt) \in [prev : Option(Generated), sum : Nat]
      /\ Previous(jt) \in Option(Generated)
  <2>1. CASE jt
    BY <1>5, <2>1 DEF Meter, Previous, NoReading
  <2>2. CASE ~jt
    BY <1>2, <2>2 DEF Meter, Previous, TypeOK
  <2> QED
    BY <2>1, <2>2
<1>7. \A g \in generated' : ~jt /\ g \in generated
    BY <1>1 DEF Previous
<1>8. reading' \in Option([warming : BOOLEAN, counted : Counts, life : 1 .. MaxLives])
    BY <1>1, <1>3 DEF Option
<1>9. /\ prev_spec' \in Option(Counts) /\ \A p \in prev_spec' : UpTo(p, Scraped)
      /\ Lazy => prev_spec' = {}
    BY <1>1, <1>2, <1>4, <1>5 DEF BaseInv, ReadingsInv
<1>10. FiguresInv => FiguresInv'
    BY <1>1 DEF FiguresInv
<1>11. shown \in Shown
    BY <1>2 DEF TypeOK
<1>12. \A s \in shown.share : 0 <= s[1] /\ s[1] <= s[2]
    BY DEF BaseInv, ReadingsInv
<1>13. \A r \in reading' : r.counted = Scraped
    BY <1>1
<1> QED
    BY <1>1, <1>2, <1>6, <1>7, <1>8, <1>9, <1>10, <1>11, <1>12, <1>13 DEF LeavesReadings

LEMMA TickLeaves ==
    ASSUME BaseInv, NEW w \in BOOLEAN, NEW jt \in BOOLEAN, NEW tokens, Tick(w, jt, tokens)
    PROVE  /\ LeavesReadings(jt)
           /\ engine' = engine /\ misread' = misread
           /\ scraped' \in Option(0 .. MaxServed) /\ scraped' # {}
           /\ scraped = {} => scraped' = {engine.served}
           /\ scraped # {} => scraped' = scraped
           /\ \A n \in scraped' : n <= engine.served
<1>1. LeavesReadings(jt)
    BY TickOfVllmOrSglang, TickOfIdleServer, TickOfBusyServer
<1>2. engine' = engine /\ misread' = misread
      /\ scraped' = (IF scraped = {} THEN {engine.served} ELSE scraped)
    BY DEF Tick, FirstScrape
<1>3. /\ engine.served \in 0 .. MaxServed /\ engine.served \in Nat
      /\ scraped \in Option(0 .. MaxServed)
    BY Counters DEF BaseInv, TypeOK
<1>4. {engine.served} \in Option(0 .. MaxServed)
    BY <1>3 DEF Option
<1>5. \A n \in scraped : n <= engine.served
    BY DEF BaseInv, LifeInv
<1>6. /\ scraped' \in Option(0 .. MaxServed) /\ scraped' # {}
      /\ \A n \in scraped' : n <= engine.served
    BY <1>2, <1>3, <1>4, <1>5, SMTT(30)
<1> QED
    BY <1>1, <1>2, <1>6

LEMMA ScrapePreservesBase ==
    ASSUME BaseInv, KeepWarming \/ EndWarmup \/ NoticeRestart \/ Measure
    PROVE  BaseInv'
<1>1. ASSUME NEW w \in BOOLEAN, NEW jt \in BOOLEAN, NEW tokens, Tick(w, jt, tokens),
             tracker' \in [mode : {"Warming"}, cursor : Option(0 .. MaxServed + MaxTokens)]
                   \cup [mode : {"Active"}, base : Engine],
             tracker'.mode = "Active" =>
                \/ jt /\ tracker'.base.life = engine.life
                \/ ~jt /\ tracker' = tracker,
             tracker.mode = "Active" => Regressed \/ tracker' = tracker
      PROVE  BaseInv'
  <2>1. /\ LeavesReadings(jt)
        /\ engine' = engine /\ misread' = misread
        /\ scraped' \in Option(0 .. MaxServed) /\ scraped' # {}
        /\ scraped = {} => scraped' = {engine.served}
        /\ scraped # {} => scraped' = scraped
        /\ \A n \in scraped' : n <= engine.served
    BY <1>1, TickLeaves
  <2>2. /\ LlamaCpp' = LlamaCpp /\ Lazy' = Lazy /\ Underway' = Underway /\ ~Never'
        /\ Scraped' = Scraped
    BY <2>1 DEF LlamaCpp, Lazy, Underway, Never, Scraped
  <2>3. TypeOK'
    BY <1>1, <2>1 DEF LeavesReadings, BaseInv, TypeOK
  <2>4. LifeInv'
    BY <2>1, <2>2 DEF BaseInv, LifeInv
  <2>5. ReadingsInv'
    <3>1. \A r \in reading' : UpTo(r.counted, Scraped)
      BY <2>1, ScrapedIs DEF BaseInv, LeavesReadings
    <3>2. \A p \in prev_spec', r \in reading' : UpTo(p, r.counted)
      BY <2>1 DEF LeavesReadings
    <3> QED
      BY <1>1, <2>1, <2>2, <3>1, <3>2 DEF ReadingsInv, LeavesReadings
  <2>6. LiveInv'
    <3> SUFFICES ASSUME LlamaCpp PROVE LiveInv'
      BY <2>2 DEF LiveInv
    <3>1. /\ rates'.prev = generated' /\ \A x \in shown'.rate : x >= 0
          /\ \A g \in generated' : g <= engine.tokens \/ (~jt /\ g \in generated)
      BY <2>1 DEF LeavesReadings
    <3>2. engine.tokens <= Underway /\ engine.tokens \in Nat /\ Underway \in Nat
          /\ engine.life \in Nat
      BY Counters DEF BaseInv, Underway
    <3>3. generated' \subseteq Nat
      BY <2>1, OptionCases, Limits DEF LeavesReadings, Generated
    <3>4. ASSUME tracker'.mode = "Active"
          PROVE  /\ tracker'.base.life <= engine.life
                 /\ tracker'.base.life = engine.life => \A g \in generated' : g <= Underway
      <4>1. CASE jt /\ tracker'.base.life = engine.life
        BY <3>1, <3>2, <3>3, <4>1
      <4>2. CASE ~jt /\ tracker' = tracker
        <5>1. /\ tracker.base.life <= engine.life
              /\ tracker.base.life = engine.life => \A g \in generated : g <= Underway
          BY <3>4, <4>2 DEF BaseInv, LiveInv
        <5> QED
          BY <3>1, <3>2, <3>3, <4>2, <5>1
      <4> QED
        BY <1>1, <3>4, <4>1, <4>2
    <3> QED
      BY <2>1, <2>2, <3>1, <3>4 DEF LiveInv
  <2>7. PromptInv'
    <3> SUFFICES ASSUME NEW x \in shown'.prompt
                 PROVE  /\ LlamaCpp
                        /\ \/ x >= 0
                           \/ tracker'.mode = "Active" /\ tracker'.base.life < shown'.life /\ Unwatched'
      BY <2>2 DEF PromptInv
    <3>1. CASE LlamaCpp /\ shown' = shown
      <4>1. x >= 0 \/ (tracker.mode = "Active" /\ tracker.base.life < shown.life /\ Unwatched)
        BY <3>1 DEF BaseInv, PromptInv
      <4>2. Unwatched /\ tracker.mode = "Active" => ~Regressed
        BY <3>1, TrackerIs, Counters DEF BaseInv, Unwatched, Regressed, Prompts
      <4> QED
        BY <1>1, <3>1, <4>1, <4>2 DEF Unwatched
    <3>2. CASE shown'.life = engine.life /\ LlamaCpp /\ (x >= 0 \/ Overlooked)
      BY <3>2 DEF Overlooked, Unwatched
    <3> QED
      BY <2>1, <3>1, <3>2 DEF LeavesReadings
  <2> QED
    BY <2>3, <2>4, <2>5, <2>6, <2>7 DEF BaseInv
<1>2. TypeOK
    BY DEF BaseInv
<1>3. CASE KeepWarming
  <2>1. tracker'.mode = "Warming"
    BY <1>2, <1>3, KeepWarmingIs DEF Warming
  <2> QED
    BY <1>1, <1>2, <1>3, <2>1, KeepWarmingIs
<1>4. CASE NoticeRestart
  <2>1. tracker'.mode = "Warming"
    BY <1>2, <1>4, NoticeRestartIs DEF Warming
  <2> QED
    BY <1>1, <1>2, <1>4, <2>1, NoticeRestartIs
<1>5. CASE EndWarmup
    BY <1>1, <1>2, <1>5, EndWarmupIs
<1>6. CASE Measure
  <2>1. tracker' = tracker /\ tracker \in [mode : {"Warming"}, cursor : Option(0 .. MaxServed + MaxTokens)]
                   \cup [mode : {"Active"}, base : Engine]
    BY <1>2, <1>6, MeasureIs DEF TypeOK
  <2> QED
    BY <1>1, <1>2, <1>6, <2>1, MeasureIs
<1> QED
    BY <1>3, <1>4, <1>5, <1>6

(* /slots answers with what is in flight by then, or not at all.            *)
LEMMA ReadSlotsLeaves ==
    ASSUME BaseInv, ReadSlots
    PROVE  /\ BaseInv' /\ FiguresInv' /\ LlamaCpp /\ UNCHANGED engine
<1>1. PICK r \in reading, in_flight \in {0, engine.flight} :
          /\ generated' = {LiveGenerated(r.counted.tokens, in_flight, generated)}
          /\ Report(r.warming, FALSE, LiveGenerated(r.counted.tokens, in_flight, generated),
                    r.counted, r.life)
    BY DEF ReadSlots
<1>2. reading' = {} /\ UNCHANGED <<engine, scraped, misread, tracker>>
    BY DEF ReadSlots
<1>3. TypeOK /\ LlamaCpp /\ ~Never
    BY <1>1 DEF BaseInv, ReadingsInv
<1>4. /\ r \in [warming : BOOLEAN, counted : Counts, life : 1 .. MaxLives]
      /\ generated \in Option(Generated) /\ rates.prev = generated
  <2>1. reading \in Option([warming : BOOLEAN, counted : Counts, life : 1 .. MaxLives])
    BY <1>3 DEF TypeOK
  <2>2. r \in [warming : BOOLEAN, counted : Counts, life : 1 .. MaxLives]
    BY <1>1, <2>1, OptionCases
  <2> QED
    BY <1>3, <2>2 DEF TypeOK, BaseInv, LiveInv
<1> DEFINE c   == r.counted.tokens
           now == LiveGenerated(c, in_flight, generated)
<1>5. /\ r.warming \in BOOLEAN /\ r.counted \in Counts /\ r.life \in 1 .. MaxLives
      /\ r.counted.served \in Nat /\ c \in 0 .. MaxTokens /\ c \in Nat
    BY <1>4, Limits DEF Counts
<1>6. in_flight \in 0 .. MaxTokens /\ in_flight \in Nat /\ in_flight <= engine.flight
    BY <1>3, Counters, Limits
<1>7. generated \subseteq Generated /\ (generated = {} \/ \E p \in Generated : generated = {p})
    BY <1>4, OptionCases
<1>8. Generated \subseteq Nat /\ c + in_flight \in Generated
    BY <1>5, <1>6, Limits DEF Generated
<1>9. /\ now = c + in_flight \/ now \in generated
      /\ \A g \in generated : g <= now
  <2>1. generated \in SUBSET Nat /\ (generated = {} \/ \E p \in Nat : generated = {p})
    BY <1>7, <1>8
  <2> HIDE DEF c
  <2> QED
    BY <1>5, <1>6, <2>1, LiveGeneratedIs
<1>10. generated' = {now} /\ Report(r.warming, FALSE, now, r.counted, r.life)
    BY <1>1
<1> HIDE DEF now
<1>11. now \in Generated /\ now \in Nat
    BY <1>7, <1>8, <1>9
<1>12. \A p \in prev_spec : UpTo(p, r.counted)
    BY <1>1 DEF BaseInv, ReadingsInv
<1>13. /\ rates' \in [prev : Option(Generated), sum : Nat] /\ rates'.prev = {now}
       /\ \A x \in shown'.rate : \E p \in rates.prev : x = now - p
  <2>1. FALSE \in BOOLEAN
    OBVIOUS
  <2> QED
    BY <1>3, <1>5, <1>10, <1>11, <2>1, ReportsRate, ZenonT(30)
<1>14. /\ prev_spec' = {r.counted} /\ prev_spec' \in Option(Counts)
       /\ \A s \in shown'.share : 0 <= s[1] /\ s[1] <= s[2]
  <2>1. ~Lazy /\ FALSE \in BOOLEAN
    BY <1>3 DEF Lazy, LlamaCpp
  <2> QED
    BY <1>3, <1>5, <1>10, <1>12, <2>1, ReportsShare
<1>15. /\ FiguresInv'
       /\ shown' \in Shown
       /\ \A x \in shown'.prompt : \E p \in prev_spec : x = r.counted.prompts - p.prompts
  <2>1. FALSE \in BOOLEAN /\ \A p \in prev_spec : UpTo(p, r.counted) \/ r.counted.tokens = 0
    BY <1>12
  <2> DEFINE counted == r.counted
             w       == r.warming
             life    == r.life
  <2>2. /\ counted \in Counts /\ w \in BOOLEAN /\ life \in 1 .. MaxLives
        /\ Report(w, FALSE, now, counted, life)
        /\ \A p \in prev_spec : UpTo(p, counted) \/ counted.tokens = 0
    BY <1>5, <1>10, <2>1
  <2> HIDE DEF counted, w, life
  <2>3. /\ FiguresInv' /\ shown' \in Shown
        /\ \A x \in shown'.prompt : \E p \in prev_spec : x = counted.prompts - p.prompts
    BY <1>3, <1>11, <2>1, <2>2, Reports
  <2> QED
    BY <2>3 DEF counted
<1>16. \A x \in shown'.rate : x >= 0
  <2> TAKE x \in shown'.rate
  <2>1. PICK p \in generated : x = now - p
    BY <1>4, <1>13
  <2> QED
    BY <1>7, <1>8, <1>9, <1>11, <2>1
<1>17. /\ LlamaCpp' /\ ~Lazy' /\ Underway' = Underway /\ Never' = Never /\ Early' = Early
       /\ Scraped' = Scraped
    BY <1>2, <1>3 DEF LlamaCpp, Lazy, Underway, Never, Early, Scraped
<1>18. TypeOK'
  <2>1. {now} \in Option(Generated)
        /\ {} \in Option([warming : BOOLEAN, counted : Counts, life : 1 .. MaxLives])
    BY <1>11 DEF Option
  <2> QED
    BY <1>2, <1>3, <1>10, <1>13, <1>14, <1>15, <2>1 DEF TypeOK
<1>19. LifeInv'
    BY <1>2, <1>17 DEF BaseInv, LifeInv, LlamaCpp
<1>20. ReadingsInv'
  <2>1. scraped # {} => UpTo(r.counted, Scraped)
    BY <1>1 DEF BaseInv, ReadingsInv
  <2> QED
    BY <1>2, <1>3, <1>14, <1>17, <2>1 DEF ReadingsInv
<1>21. LiveInv'
  <2>1. ASSUME tracker.mode = "Active", tracker.base.life = engine.life
        PROVE  now <= Underway
    <3>1. scraped # {} /\ \A g \in generated : g <= Underway
      BY <1>3, <2>1 DEF BaseInv, LiveInv
    <3>2. c <= engine.tokens
      BY <1>1, <3>1 DEF BaseInv, ReadingsInv, UpTo, Scraped
    <3>3. c + in_flight <= Underway
      BY <1>3, <1>5, <1>6, <3>2, Counters DEF Underway
    <3> QED
      BY <1>9, <3>1, <3>3
  <2> QED
    BY <1>2, <1>3, <1>10, <1>13, <1>16, <1>17, <2>1 DEF BaseInv, LiveInv
<1>22. PromptInv'
  <2> SUFFICES ASSUME NEW x \in shown'.prompt PROVE x >= 0
    BY <1>17 DEF PromptInv
  <2>1. PICK p \in prev_spec : x = r.counted.prompts - p.prompts
    BY <1>15
  <2>2. prev_spec \subseteq Counts
    BY <1>3, OptionCases DEF TypeOK
  <2>3. p.prompts \in Nat /\ r.counted.prompts \in Nat
    BY <1>5, <2>1, <2>2, Limits DEF Counts
  <2>4. p.prompts <= r.counted.prompts
    BY <1>12, <2>1 DEF UpTo
  <2> QED
    BY <2>1, <2>3, <2>4
<1> QED
    BY <1>2, <1>3, <1>15, <1>18, <1>19, <1>20, <1>21, <1>22 DEF BaseInv

LEMMA EnginePreservesBase ==
    ASSUME BaseInv, Serve \/ Generate \/ Decode \/ Finish
    PROVE  BaseInv'
<1>1. /\ UNCHANGED <<scraped, misread, tracker, rates, prev_spec, generated, reading, shown>>
      /\ engine' \in Engine /\ engine'.kind = engine.kind /\ engine'.life = engine.life
      /\ engine.served <= engine'.served /\ engine.tokens <= engine'.tokens
      /\ Underway <= Underway' /\ Underway' <= MaxTokens
      /\ Prompts(engine) <= Prompts(engine')
      /\ scraped = {} \/ ~LlamaCpp => engine'.flight = 0
      /\ scraped = {} /\ ~Never => engine'.tokens = engine'.served /\ engine'.served <= Early
    BY EngineServes DEF BaseInv
<1>2. LlamaCpp' = LlamaCpp /\ Lazy' = Lazy /\ Early' = Early /\ Never' = Never
    BY <1>1 DEF LlamaCpp, Lazy, Early, Never
<1>3. TypeOK'
    BY <1>1 DEF BaseInv, TypeOK
<1>4. /\ engine'.served \in Nat /\ engine'.tokens \in Nat /\ Underway' \in Nat
      /\ engine.served \in Nat /\ engine.tokens \in Nat /\ Underway \in Nat
  <2>1. engine'.served \in 0 .. MaxServed /\ engine'.tokens \in 0 .. MaxTokens
        /\ engine'.flight \in 0 .. MaxTokens
    BY <1>1 DEF Engine
  <2> QED
    BY <2>1, Counters, Limits DEF BaseInv, Underway
<1>5. LifeInv'
  <2>1. \A n \in scraped : n \in Nat /\ n <= engine.served
    BY OptionCases, Limits DEF BaseInv, TypeOK, LifeInv
  <2> QED
    BY <1>1, <1>2, <1>4, <2>1 DEF LifeInv
<1>6. ReadingsInv'
  <2>1. ASSUME NEW c \in Counts, UpTo(c, Scraped) PROVE UpTo(c, Scraped')
    <3>1. c.served \in Nat /\ c.tokens \in Nat /\ c.prompts \in Nat
      BY <2>1, Limits DEF Counts
    <3>2. Prompts(engine) \in Nat /\ Prompts(engine') \in Nat
      BY <1>4 DEF Prompts
    <3>3. /\ Scraped.served = engine.served /\ Scraped.tokens = engine.tokens
          /\ Scraped.prompts = Prompts(engine)
          /\ Scraped'.served = engine'.served /\ Scraped'.tokens = engine'.tokens
          /\ Scraped'.prompts = Prompts(engine')
      BY DEF Scraped
    <3> QED
      BY <1>1, <1>4, <2>1, <3>1, <3>2, <3>3 DEF UpTo
  <2>2. prev_spec \subseteq Counts /\ \A r \in reading : r.counted \in Counts
    <3>1. /\ prev_spec \in Option(Counts)
          /\ reading \in Option([warming : BOOLEAN, counted : Counts, life : 1 .. MaxLives])
      BY DEF BaseInv, TypeOK
    <3>2. prev_spec \subseteq Counts
          /\ reading \subseteq [warming : BOOLEAN, counted : Counts, life : 1 .. MaxLives]
      BY <3>1, OptionCases
    <3> QED
      BY <3>2
  <2> QED
    BY <1>1, <1>2, <2>1, <2>2 DEF BaseInv, ReadingsInv
<1>7. LiveInv'
  <2>1. generated \subseteq Nat
    BY OptionCases, Limits DEF BaseInv, TypeOK, Generated
  <2> QED
    BY <1>1, <1>2, <1>4, <2>1 DEF BaseInv, LiveInv
<1>8. PromptInv'
    BY <1>1, <1>2 DEF BaseInv, PromptInv, Unwatched
<1> QED
    BY <1>3, <1>5, <1>6, <1>7, <1>8 DEF BaseInv

LEMMA RestartPreservesBase ==
    ASSUME BaseInv, RestartEngine
    PROVE  BaseInv'
<1>1. /\ UNCHANGED <<tracker, rates, prev_spec, generated, reading, shown>>
      /\ scraped' = {} /\ misread' = FALSE
      /\ engine' \in Engine /\ engine'.kind = engine.kind /\ engine'.life = engine.life + 1
      /\ engine'.served = 0 /\ engine'.tokens = 0 /\ engine'.flight = 0
    BY EngineRestarts DEF BaseInv
<1>2. LlamaCpp' = LlamaCpp /\ Lazy' = Lazy /\ Early' = Early /\ ~Never'
    BY <1>1, Counters DEF BaseInv, LlamaCpp, Lazy, Early, Never
<1>3. TypeOK'
  <2>1. {} \in Option(0 .. MaxServed)
    BY DEF Option
  <2> QED
    BY <1>1, <2>1 DEF BaseInv, TypeOK
<1>4. LifeInv'
    BY <1>1, <1>2, Limits DEF LifeInv, Underway, Early
<1>5. ReadingsInv'
    BY <1>1, <1>2 DEF BaseInv, ReadingsInv
<1>6. LiveInv'
  <2>1. /\ engine.life \in Nat
        /\ tracker.mode = "Active" => tracker.base.life \in Nat
    BY Counters, TrackerIs DEF BaseInv
  <2> QED
    BY <1>1, <1>2, <2>1 DEF BaseInv, LiveInv
<1>7. PromptInv'
    BY <1>1, <1>2 DEF BaseInv, PromptInv, Unwatched
<1> QED
    BY <1>3, <1>4, <1>5, <1>6, <1>7 DEF BaseInv

(* What an error page makes of the tracker.                                 *)
LEMMA ErrorPageIs ==
    ASSUME TypeOK, ReadErrorPage
    PROVE  \/ /\ tracker' = Warming({0}) /\ rates' = rates /\ ShowBlank(TRUE)
              /\ misread' = (misread \/ engine.served # 0)
           \/ /\ tracker' = Active([engine EXCEPT !.served = 0, !.tokens = 0])
              /\ rates' = NoReading /\ ShowBlank(FALSE) /\ misread' = misread
              /\ SkipRequests = 0
           \/ /\ tracker.mode = "Active" /\ tracker' = tracker /\ misread' = misread
              /\ rates' = rates /\ ShowBlank(FALSE)
<1> DEFINE blank == Active([engine EXCEPT !.served = 0, !.tokens = 0])
<1>1. /\ tracker.mode = "Warming" \/ tracker.mode = "Active"
      /\ Warming({0}).mode = "Warming" /\ blank.mode = "Active"
      /\ misread \in BOOLEAN
    BY TrackerIs DEF Warming, Active, TypeOK
<1>2. /\ tracker' = IF tracker.mode = "Active" THEN tracker
                    ELSE IF BlankBaseline THEN blank ELSE Warming({0})
      /\ misread' = (misread \/ (tracker'.mode = "Warming" /\ engine.served # 0))
      /\ rates' = Meter(tracker'.mode # tracker.mode)
      /\ ShowBlank(tracker'.mode = "Warming")
    BY DEF ReadErrorPage
<1> HIDE DEF blank
<1>3. CASE tracker.mode = "Active"
  <2>1. tracker' = tracker /\ (tracker'.mode = "Warming") = FALSE
        /\ (tracker'.mode # tracker.mode) = FALSE
    BY <1>2, <1>3
  <2>2. misread' = misread /\ rates' = rates
    BY <1>1, <1>2, <2>1 DEF Meter
  <2> QED
    BY <1>2, <1>3, <2>1, <2>2
<1>4. CASE tracker.mode = "Warming" /\ BlankBaseline
  <2>1. tracker' = blank /\ (tracker'.mode = "Warming") = FALSE
        /\ (tracker'.mode # tracker.mode) = TRUE /\ SkipRequests = 0
    BY <1>1, <1>2, <1>4 DEF BlankBaseline
  <2>2. misread' = misread /\ rates' = NoReading
    BY <1>1, <1>2, <2>1 DEF Meter
  <2> QED
    BY <1>2, <2>1, <2>2 DEF blank
<1>5. CASE tracker.mode = "Warming" /\ ~BlankBaseline
  <2>1. tracker' = Warming({0}) /\ (tracker'.mode = "Warming") = TRUE
        /\ (tracker'.mode # tracker.mode) = FALSE
    BY <1>1, <1>2, <1>5
  <2>2. rates' = rates
    BY <1>2, <2>1 DEF Meter
  <2> QED
    BY <1>2, <2>1, <2>2
<1> QED
    BY <1>1, <1>3, <1>4, <1>5

(* An error page of vLLM: it is no scrape of the life, and leaves no counts *)
(* to compare the next ones with.                                           *)
LEMMA ErrorPageLeaves ==
    ASSUME TypeOK, ReadErrorPage
    PROVE  /\ UNCHANGED <<engine, scraped, generated, reading>>
           /\ engine.kind = "Vllm" /\ ~LlamaCpp /\ ~Lazy /\ prev_spec' = {}
           /\ tracker' \in [mode : {"Warming"}, cursor : Option(0 .. MaxServed + MaxTokens)]
                   \cup [mode : {"Active"}, base : Engine]
           /\ misread' \in BOOLEAN
           /\ rates' \in [prev : Option(Generated), sum : Nat]
           /\ shown' \in Shown /\ shown'.life = shown.life
           /\ shown'.rate = {} /\ shown'.share = {} /\ shown'.prompt = {}
           /\ shown'.warming = TRUE \/ shown'.warming = FALSE
           /\ shown'.warming <=> tracker'.mode = "Warming"
           /\ FiguresInv'
<1>1. /\ UNCHANGED <<engine, scraped, generated, reading>>
      /\ engine.kind = "Vllm" /\ prev_spec' = {}
    BY DEF ReadErrorPage
<1>2. ~LlamaCpp /\ ~Lazy
    BY <1>1 DEF LlamaCpp, Lazy
<1>3. ASSUME NEW w \in BOOLEAN, ShowBlank(w), rates' \in [prev : Option(Generated), sum : Nat]
      PROVE  /\ shown' \in Shown /\ shown'.life = shown.life /\ shown'.warming = w
             /\ shown'.rate = {} /\ shown'.share = {} /\ shown'.prompt = {}
             /\ FiguresInv'
  <2> DEFINE sum     == IF w THEN 0 ELSE rates'.sum
             figures == IF w \/ rates'.sum = 0 THEN {} ELSE {<<"Throughput", "measured">>}
  <2>1. shown' = [shown EXCEPT !.warming = w, !.rate = {}, !.share = {}, !.prompt = {},
                               !.sum = sum, !.figures = figures]
    BY <1>3 DEF ShowBlank
  <2>2. /\ sum \in Nat /\ (w => sum = 0)
        /\ figures \in SUBSET Figures /\ (w => figures = {})
    BY <1>3 DEF Figures, MetricGroup
  <2> HIDE DEF sum, figures
  <2>3. shown.life \in 0 .. MaxLives /\ shown \in Shown
    BY DEF TypeOK, Shown
  <2>4. shown' = [warming |-> w, rate |-> {}, sum |-> sum, share |-> {}, prompt |-> {},
                  life |-> shown.life, figures |-> figures]
    BY <2>1, <2>3 DEF Shown
  <2> QED
    BY <2>2, <2>3, <2>4 DEF Shown, FiguresInv
<1>4. rates \in [prev : Option(Generated), sum : Nat] /\ misread \in BOOLEAN
      /\ NoReading \in [prev : Option(Generated), sum : Nat]
    BY DEF TypeOK, NoReading, Option
<1>5. CASE /\ tracker' = Warming({0}) /\ rates' = rates /\ ShowBlank(TRUE)
           /\ misread' = (misread \/ engine.served # 0)
  <2>1. {0} \in Option(0 .. MaxServed + MaxTokens)
    BY Limits DEF Option
  <2>2. misread' \in BOOLEAN
    BY <1>4, <1>5
  <2>3. /\ tracker'.mode = "Warming"
        /\ tracker' \in [mode : {"Warming"}, cursor : Option(0 .. MaxServed + MaxTokens)]
    BY <1>5, <2>1 DEF Warming
  <2>4. /\ shown' \in Shown /\ shown'.life = shown.life /\ shown'.warming = TRUE
        /\ shown'.rate = {} /\ shown'.share = {} /\ shown'.prompt = {}
        /\ FiguresInv'
    BY <1>3, <1>4, <1>5
  <2> QED
    BY <1>1, <1>2, <1>4, <1>5, <2>2, <2>3, <2>4
<1>6. CASE /\ tracker' = Active([engine EXCEPT !.served = 0, !.tokens = 0])
           /\ rates' = NoReading /\ ShowBlank(FALSE) /\ misread' = misread
  <2> DEFINE z == 0
  <2>1. [engine EXCEPT !.served = z, !.tokens = z] \in Engine
    <3>1. z \in 0 .. MaxServed /\ z \in 0 .. MaxTokens /\ engine \in Engine
      BY Limits DEF TypeOK
    <3> HIDE DEF z
    <3> QED
      BY <3>1 DEF Engine
  <2> QED
    BY <1>1, <1>2, <1>3, <1>4, <1>6, <2>1 DEF Active
<1>7. CASE /\ tracker.mode = "Active" /\ tracker' = tracker /\ misread' = misread
           /\ rates' = rates /\ ShowBlank(FALSE)
    BY <1>1, <1>2, <1>3, <1>4, <1>7 DEF TypeOK
<1> QED
    BY <1>5, <1>6, <1>7, ErrorPageIs

LEMMA ErrorPagePreservesBase ==
    ASSUME BaseInv, ReadErrorPage
    PROVE  BaseInv'
<1>1. /\ UNCHANGED <<engine, scraped, generated, reading>>
      /\ ~LlamaCpp /\ ~Lazy /\ prev_spec' = {}
      /\ shown'.share = {} /\ shown'.prompt = {}
    BY ErrorPageLeaves DEF BaseInv
<1>2. /\ LlamaCpp' = LlamaCpp /\ Lazy' = Lazy /\ Early' = Early /\ Never' = Never
      /\ Underway' = Underway /\ Scraped' = Scraped
    BY <1>1 DEF LlamaCpp, Lazy, Early, Never, Underway, Scraped
<1>3. TypeOK'
  <2>1. {} \in Option(Counts)
    BY DEF Option
  <2> QED
    BY <1>1, <2>1, ErrorPageLeaves DEF BaseInv, TypeOK
<1>4. LifeInv'
    BY <1>1, <1>2 DEF BaseInv, LifeInv
<1>5. ReadingsInv'
    BY <1>1, <1>2 DEF BaseInv, ReadingsInv
<1>6. LiveInv' /\ PromptInv'
    BY <1>1, <1>2 DEF LiveInv, PromptInv
<1> QED
    BY <1>3, <1>4, <1>5, <1>6 DEF BaseInv

LEMMA StutterPreservesBase == BaseInv /\ UNCHANGED vars => BaseInv'
BY DEF vars, BaseInv, TypeOK, LifeInv, ReadingsInv, LiveInv, PromptInv, Never, Early, Lazy,
       LlamaCpp, Underway, UpTo, Scraped, Unwatched

LEMMA BaseHoldsInitially == Init => BaseInv
<1> SUFFICES ASSUME Init PROVE BaseInv
    OBVIOUS
<1>1. 0 \in 0 .. MaxLives /\ 1 \in 1 .. MaxLives /\ 0 \in 0 .. MaxTokens
    BY Limits
<1>2. \A S : {} \in Option(S)
    BY DEF Option
<1>3. engine \in Engine /\ engine.flight = 0
    BY <1>1 DEF Init, Engine
<1>4. Warming({}) \in [mode : {"Warming"}, cursor : Option(0 .. MaxServed + MaxTokens)]
    BY <1>2 DEF Warming
<1>5. TypeOK
    BY <1>1, <1>2, <1>3, <1>4 DEF Init, TypeOK, NoReading, Shown
<1>6. Never
    BY DEF Init, Never
<1>7. tracker.mode # "Active"
    BY DEF Init, Warming
<1>8. LifeInv
    BY <1>3, <1>5, <1>6, Counters DEF Init, LifeInv, Underway
<1>9. ReadingsInv
    BY DEF Init, ReadingsInv
<1>10. LiveInv
    BY <1>7 DEF Init, LiveInv, NoReading
<1>11. PromptInv
    BY DEF Init, PromptInv
<1> QED
    BY <1>5, <1>8, <1>9, <1>10, <1>11 DEF BaseInv

LEMMA BasePreserved == BaseInv /\ [Next]_vars => BaseInv'
BY ScrapePreservesBase, ReadSlotsLeaves, EnginePreservesBase, RestartPreservesBase,
   ErrorPagePreservesBase, StutterPreservesBase DEF Next, Scrape

LEMMA BaseInvariance == Spec => []BaseInv
BY BaseHoldsInitially, BasePreserved, PTL DEF Spec

(* Every state of the dashboard and the engine is of its type.              *)
THEOREM TypeCorrect == Spec => []TypeOK
<1>1. BaseInv => TypeOK
    BY DEF BaseInv
<1> QED
    BY <1>1, BaseInvariance, PTL

(* llama.cpp's live count never exceeds what the server has generated since *)
(* it was started (live_generated, ReadSlots), whatever the threshold.      *)
THEOREM LiveCountHonest == Spec => []LiveCountIsHonest
<1>1. BaseInv => LiveCountIsHonest
    BY DEF BaseInv, LiveInv, ReadingsInv, LiveCountIsHonest
<1> QED
    BY <1>1, BaseInvariance, PTL

-----------------------------------------------------------------------------
(* vLLM and SGLang, with a threshold.                                       *)

LEMMA ScrapedIsNat ==
    ASSUME TypeOK
    PROVE  scraped \subseteq Nat
<1>1. scraped \in Option(0 .. MaxServed)
    BY DEF TypeOK
<1>2. scraped \subseteq 0 .. MaxServed
    BY <1>1, OptionCases
<1> QED
    BY <1>2, Limits

(* The request count the warmup is counted from is not below what the life  *)
(* had served when it was first scraped.                                    *)
LEMMA CursorIsNotBelowTheFirstScrape ==
    ASSUME BaseInv, WarmingInv, ~LlamaCpp, tracker.mode = "Warming", Readable,
           FirstScrape
    PROVE  \A i \in Cursor : /\ i \in Nat /\ Early <= i
                             /\ misread \/ \A n \in scraped' : n <= i
<1>1. /\ TypeOK /\ Trigger = engine.served /\ engine.served \in Nat
      /\ tracker.cursor \subseteq Nat /\ Early \in {0, 1} /\ Cursor # {}
      /\ \/ Cursor = {Trigger}
         \/ Cursor = tracker.cursor /\ \A i \in tracker.cursor : i <= Trigger
  <2>1. TypeOK /\ Trigger = engine.served
    BY DEF BaseInv, Trigger
  <2>2. tracker.cursor \in Option(0 .. MaxServed + MaxTokens)
    BY <2>1, CursorIs
  <2>3. tracker.cursor \subseteq Nat
    BY <2>2, OptionCases, Limits
  <2> QED
    BY <2>1, <2>3, Counters, CursorIs
<1>2. Early <= engine.served
    BY <1>1 DEF Readable, Early
<1>3. scraped \subseteq Nat /\ \A n \in scraped : n <= engine.served
    BY <1>1, ScrapedIsNat DEF BaseInv, LifeInv
<1>4. scraped' = IF scraped = {} THEN {engine.served} ELSE scraped
    BY DEF FirstScrape
<1>5. CASE Cursor = {Trigger}
  <2>1. CASE scraped = {}
    <3>1. scraped' = {engine.served} /\ engine.served <= engine.served
      BY <1>1, <1>4, <2>1
    <3> QED
      BY <1>1, <1>2, <1>5, <3>1
  <2>2. CASE scraped # {}
    BY <1>1, <1>2, <1>3, <1>4, <1>5, <2>2
  <2> QED
    BY <2>1, <2>2
<1>6. CASE Cursor = tracker.cursor
  <2>1. \A i \in Cursor : /\ i \in Nat /\ Early <= i
                          /\ misread \/ \A n \in scraped : n <= i
    BY <1>1, <1>6 DEF WarmingInv
  <2>2. CASE scraped # {}
    BY <1>4, <2>1, <2>2
  <2>3. CASE scraped = {} /\ ~Never
    <3>1. engine.served <= Early
      BY <2>3 DEF BaseInv, LifeInv
    <3>2. \A i \in Cursor : engine.served <= i
      BY <1>1, <2>1, <3>1
    <3> QED
      BY <1>4, <2>1, <2>3, <3>2
  <2>4. CASE scraped = {} /\ Never
    <3>1. misread \/ \A i \in Cursor : engine.served <= i
      BY <1>1, <1>6, <2>4 DEF WarmingInv
    <3> QED
      BY <1>4, <2>1, <2>4, <3>1
  <2> QED
    BY <2>2, <2>3, <2>4
<1> QED
    BY <1>1, <1>5, <1>6

(* A scrape of vLLM or SGLang reports what it observed of this life.        *)
LEMMA ScrapeIsShown ==
    ASSUME BaseInv, ~LlamaCpp, NEW w \in BOOLEAN, NEW jt \in BOOLEAN, NEW tokens,
           Tick(w, jt, tokens)
    PROVE  /\ shown'.warming = w /\ shown'.life = engine.life
           /\ scraped' # {} /\ engine' = engine /\ misread' = misread /\ ~Never'
           /\ rates'.prev = {tokens} /\ tokens \in Nat
           /\ jt => rates'.sum = 0
           /\ ~jt => \A p \in rates.prev :
                        rates'.sum = rates.sum + (IF p <= tokens THEN tokens - p ELSE 0)
           /\ \A x \in shown'.rate : ~w /\ ~jt /\ \E p \in rates.prev : x = tokens - p
<1>1. /\ Report(w, jt, tokens, Scraped, engine.life) /\ scraped' # {}
      /\ engine' = engine /\ misread' = misread
    BY TickOfVllmOrSglang, TickLeaves
<1>2. TypeOK /\ tokens \in Generated /\ tokens \in Nat
    BY Limits DEF BaseInv, Tick, Generated
<1>3. shown'.warming = w /\ shown'.life = engine.life
    BY <1>1 DEF Report
<1> QED
    BY <1>1, <1>2, <1>3, ReportsRate DEF Never

LEMMA ScrapePreservesMeasured ==
    ASSUME SkipRequests # 0, BaseInv, MeasuredInv, ~LlamaCpp,
           KeepWarming \/ EndWarmup \/ NoticeRestart \/ Measure
    PROVE  WarmingInv' /\ ActiveInv' /\ ShownInv'
<1>1. TypeOK /\ WarmingInv /\ ActiveInv /\ ShownInv
    BY DEF BaseInv, MeasuredInv
<1>2. /\ engine.served \in Nat /\ engine.tokens \in Nat /\ engine.life \in Nat
      /\ Early \in {0, 1} /\ Trigger = engine.served /\ SkipRequests \in Nat
    BY <1>1, Counters, Limits DEF Trigger
<1>3. ASSUME NEW w \in BOOLEAN, NEW jt \in BOOLEAN, NEW tokens, Tick(w, jt, tokens),
             w <=> tracker'.mode = "Warming",
             \A x \in shown'.rate : x >= 0
      PROVE  ShownInv'
  <2>1. /\ shown'.warming = w /\ shown'.life = engine.life
        /\ scraped' # {} /\ engine' = engine
    BY <1>3, ScrapeIsShown
  <2> QED
    BY <1>2, <1>3, <2>1 DEF ShownInv
<1>4. CASE KeepWarming
  <2>1. /\ Tick(TRUE, FALSE, engine.tokens) /\ tracker.mode = "Warming"
        /\ tracker' = Warming(Cursor)
    BY <1>1, <1>4, KeepWarmingIs
  <2>2. /\ engine' = engine /\ misread' = misread /\ ~Never'
        /\ \A x \in shown'.rate : x >= 0
    BY <2>1, ScrapeIsShown
  <2>3. Early' = Early /\ tracker'.mode = "Warming" /\ tracker'.cursor = Cursor
    BY <2>1, <2>2 DEF Early, Lazy, Warming
  <2>4. \A i \in Cursor : /\ i \in Nat /\ Early <= i
                          /\ misread \/ \A n \in scraped' : n <= i
    BY <1>1, <2>1, CursorIsNotBelowTheFirstScrape DEF Tick
  <2> QED
    BY <1>3, <2>1, <2>2, <2>3, <2>4 DEF WarmingInv, ActiveInv
<1>5. CASE NoticeRestart
  <2>1. /\ Tick(TRUE, FALSE, engine.tokens) /\ tracker' = Warming({Trigger})
    BY <1>1, <1>5, NoticeRestartIs
  <2>2. /\ engine' = engine /\ ~Never' /\ \A x \in shown'.rate : x >= 0
        /\ \A n \in scraped' : n <= engine.served
    BY <2>1, ScrapeIsShown, TickLeaves
  <2>3. Early' = Early /\ tracker'.mode = "Warming" /\ tracker'.cursor = {engine.served}
    BY <1>2, <2>1, <2>2 DEF Early, Lazy, Warming
  <2>4. Early <= engine.served
    BY <1>2, <2>1 DEF Tick, Readable, Early
  <2> QED
    BY <1>3, <2>1, <2>2, <2>3, <2>4 DEF WarmingInv, ActiveInv
<1>6. CASE EndWarmup
  <2>1. /\ Tick(FALSE, TRUE, 0) /\ tracker.mode = "Warming" /\ tracker'.mode = "Active"
        /\ tracker'.base.life = engine.life /\ tracker'.base.served = engine.served
        /\ tracker'.base.tokens = engine.tokens
    BY <1>1, <1>6, EndWarmupIs
  <2>2. /\ engine' = engine /\ misread' = misread /\ ~Never'
        /\ \A x \in shown'.rate : x >= 0
        /\ rates'.prev = {0} /\ rates'.sum = 0
    BY <2>1, ScrapeIsShown
  <2>3. Early' = Early
    BY <2>2 DEF Early, Lazy
  <2>4. PICK i \in Cursor : i \in Nat /\ Early <= i /\ (misread \/ \A n \in scraped' : n <= i)
    BY <1>1, <2>1, CursorIsNotBelowTheFirstScrape, CursorIs DEF Tick
  <2>5. engine.served - i >= SkipRequests
    BY <1>2, <1>6 DEF EndWarmup, WarmedUp, Skip
  <2>6. \A n \in scraped' : n \in Nat
    BY <1>1, <1>2, <2>1, TickLeaves, ScrapedIsNat
  <2>7. /\ SkipRequests + Early <= engine.served
        /\ misread \/ \A n \in scraped' : n + SkipRequests <= engine.served
    BY <1>2, <2>4, <2>5, <2>6
  <2>8. ActiveInv'
    BY <1>2, <2>1, <2>2, <2>3, <2>7 DEF ActiveInv
  <2> QED
    BY <1>3, <2>1, <2>2, <2>8 DEF WarmingInv
<1>7. CASE Measure
  <2> DEFINE measured == engine.tokens - tracker.base.tokens
  <2>1. /\ Tick(FALSE, FALSE, measured) /\ tracker' = tracker
        /\ tracker.mode = "Active" /\ ~Regressed /\ ~Never
    BY <1>1, <1>7, MeasureIs DEF ActiveInv
  <2>2. /\ tracker.base.served \in Nat /\ tracker.base.tokens \in Nat
        /\ rates.sum \in Nat
    BY <1>1, <2>1, TrackerIs DEF TypeOK
  <2>3. scraped # {}
    <3> SUFFICES ASSUME scraped = {} PROVE FALSE
      OBVIOUS
    <3>1. engine.served <= Early
      BY <2>1 DEF BaseInv, LifeInv
    <3>2. SkipRequests + Early <= tracker.base.served
      BY <1>1, <2>1 DEF ActiveInv
    <3>3. tracker.base.served <= engine.served
      BY <1>2, <2>1, <2>2 DEF Regressed
    <3> QED
      BY <1>2, <2>2, <3>1, <3>2, <3>3
  <2>4. /\ rates.prev = {rates.sum} /\ rates.sum + tracker.base.tokens <= engine.tokens
        /\ SkipRequests + Early <= tracker.base.served
        /\ tracker.base.life = engine.life /\ tracker.base.served <= engine.served
        /\ misread \/ \A n \in scraped : n + SkipRequests <= tracker.base.served
    BY <1>1, <2>1, <2>3 DEF ActiveInv
  <2>5. rates.sum <= measured /\ measured \in Nat /\ measured + tracker.base.tokens = engine.tokens
    BY <1>2, <2>2, <2>4
  <2> HIDE DEF measured
  <2>6. /\ engine' = engine /\ misread' = misread /\ ~Never' /\ rates'.prev = {measured}
        /\ rates'.sum = rates.sum + (measured - rates.sum)
        /\ \A x \in shown'.rate : x = measured - rates.sum
    BY <2>1, <2>4, <2>5, ScrapeIsShown
  <2>7. rates'.sum = measured /\ \A x \in shown'.rate : x >= 0
    BY <2>2, <2>5, <2>6
  <2>8. Early' = Early /\ scraped' = scraped
    BY <2>1, <2>3, <2>6 DEF Early, Lazy, Tick, FirstScrape
  <2>9. ActiveInv'
    BY <1>2, <2>1, <2>2, <2>4, <2>5, <2>6, <2>7, <2>8 DEF ActiveInv
  <2>10. tracker'.mode # "Warming"
    BY <2>1
  <2> QED
    BY <1>3, <2>1, <2>7, <2>9, <2>10 DEF WarmingInv
<1> QED
    BY <1>4, <1>5, <1>6, <1>7

(* An error page is no baseline with a threshold; as a cursor it is not     *)
(* below what a restarted engine has served.                                *)
LEMMA ErrorPagePreservesMeasured ==
    ASSUME SkipRequests # 0, BaseInv, MeasuredInv, ReadErrorPage
    PROVE  MeasuredInv'
<1>1. /\ UNCHANGED <<engine, scraped>> /\ ~LlamaCpp /\ ~Lazy
      /\ shown'.life = shown.life /\ shown'.rate = {}
      /\ shown'.warming <=> tracker'.mode = "Warming"
      /\ WarmingInv /\ ActiveInv /\ ShownInv /\ TypeOK
    BY ErrorPageLeaves DEF BaseInv, MeasuredInv
<1>2. Early' = Early /\ Early = 0 /\ Never' = Never /\ Lazy' = Lazy
    BY <1>1 DEF Early, Lazy, Never
<1>3. ShownInv'
    BY <1>1 DEF ShownInv
<1>4. CASE tracker' = Warming({0}) /\ misread' = (misread \/ engine.served # 0)
  <2>1. tracker'.mode = "Warming" /\ tracker'.cursor = {0}
    BY <1>4 DEF Warming
  <2>2. scraped \subseteq Nat /\ engine.served \in Nat /\ \A n \in scraped : n <= engine.served
    BY <1>1, ScrapedIsNat, Counters DEF BaseInv, LifeInv
  <2>3. misread' \/ engine.served = 0
    BY <1>4
  <2>4. misread' \/ \A n \in scraped : n <= 0
    BY <2>2, <2>3
  <2>5. WarmingInv'
    BY <1>1, <1>2, <2>1, <2>3, <2>4 DEF WarmingInv
  <2>6. ActiveInv'
    BY <2>1 DEF ActiveInv
  <2> QED
    BY <1>3, <2>5, <2>6 DEF MeasuredInv
<1>5. CASE UNCHANGED <<tracker, misread, rates>>
    BY <1>1, <1>2, <1>3, <1>5 DEF MeasuredInv, WarmingInv, ActiveInv
<1> QED
    BY <1>1, <1>4, <1>5, ErrorPageIs

LEMMA MeasuredPreserved ==
    ASSUME SkipRequests # 0, BaseInv, MeasuredInv, [Next]_vars
    PROVE  MeasuredInv'
<1>1. TypeOK
    BY DEF BaseInv
<1>2. CASE KeepWarming \/ EndWarmup \/ NoticeRestart \/ Measure
  <2>1. LlamaCpp' = LlamaCpp
    BY <1>2 DEF KeepWarming, EndWarmup, NoticeRestart, Measure, LlamaCpp
  <2> QED
    BY <1>2, <2>1, ScrapePreservesMeasured DEF MeasuredInv
<1>3. CASE ReadSlots
    BY <1>3, ReadSlotsLeaves DEF MeasuredInv, LlamaCpp
<1>4. CASE Serve \/ Generate \/ Decode \/ Finish
  <2>1. /\ UNCHANGED <<scraped, misread, tracker, rates, prev_spec, generated, reading, shown>>
        /\ engine' \in Engine /\ engine'.kind = engine.kind /\ engine'.life = engine.life
        /\ engine.served <= engine'.served /\ engine.tokens <= engine'.tokens
        /\ scraped # {} \/ Lazy
    BY <1>4, EngineServes DEF BaseInv
  <2>2. LlamaCpp' = LlamaCpp /\ Early' = Early /\ Never' = Never /\ Lazy' = Lazy
    BY <2>1 DEF LlamaCpp, Lazy, Early, Never
  <2>3. /\ engine'.served \in Nat /\ engine'.tokens \in Nat
        /\ engine.served \in Nat /\ engine.tokens \in Nat
    <3>1. engine'.served \in 0 .. MaxServed /\ engine'.tokens \in 0 .. MaxTokens
      BY <2>1 DEF Engine
    <3> QED
      BY <1>1, <3>1, Counters, Limits
  <2>4. /\ rates.sum \in Nat
        /\ tracker.mode = "Active" => tracker.base.served \in Nat /\ tracker.base.tokens \in Nat
    BY <1>1, TrackerIs DEF TypeOK
  <2>5. ASSUME ~LlamaCpp PROVE WarmingInv' /\ ActiveInv' /\ ShownInv'
    <3>1. WarmingInv /\ ActiveInv /\ ShownInv
      BY <2>5 DEF MeasuredInv
    <3>2. WarmingInv'
      BY <2>1, <2>2, <3>1 DEF WarmingInv, Never
    <3>3. ActiveInv'
      BY <2>1, <2>2, <2>3, <2>4, <3>1 DEF ActiveInv
    <3>4. ShownInv'
      BY <2>1, <3>1 DEF ShownInv
    <3> QED
      BY <3>2, <3>3, <3>4
  <2> QED
    BY <2>2, <2>5 DEF MeasuredInv
<1>5. CASE RestartEngine
  <2>1. /\ UNCHANGED <<tracker, rates, prev_spec, generated, reading, shown>>
        /\ scraped' = {} /\ misread' = FALSE
        /\ engine'.kind = engine.kind /\ engine'.life = engine.life + 1
    BY <1>1, <1>5, EngineRestarts
  <2>2. LlamaCpp' = LlamaCpp /\ Early' = Early /\ ~Never'
    BY <1>1, <2>1, Counters DEF LlamaCpp, Lazy, Early, Never
  <2>3. engine.life \in Nat /\ shown.life \in Nat
    <3>1. shown.life \in 0 .. MaxLives
      BY <1>1 DEF TypeOK, Shown
    <3> QED
      BY <1>1, <3>1, Counters, Limits
  <2>4. ASSUME ~LlamaCpp PROVE WarmingInv' /\ ActiveInv' /\ ShownInv'
    BY <2>1, <2>2, <2>3, <2>4 DEF MeasuredInv, WarmingInv, ActiveInv, ShownInv
  <2> QED
    BY <2>2, <2>4 DEF MeasuredInv
<1>6. CASE UNCHANGED vars
    BY <1>6 DEF vars, MeasuredInv, WarmingInv, ActiveInv, ShownInv, Early, Lazy, LlamaCpp, Never
<1> QED
    BY <1>2, <1>3, <1>4, <1>5, <1>6, ErrorPagePreservesMeasured DEF Next, Scrape

(* Nothing measured is shown while the engine warms up, with any threshold. *)
LEMMA FiguresPreserved ==
    ASSUME BaseInv, FiguresInv, [Next]_vars
    PROVE  FiguresInv'
<1>1. TypeOK
    BY DEF BaseInv
<1>2. ASSUME NEW w \in BOOLEAN, NEW jt \in BOOLEAN, NEW tokens, Tick(w, jt, tokens)
      PROVE  FiguresInv'
    BY <1>2, TickLeaves DEF LeavesReadings
<1>3. CASE KeepWarming \/ EndWarmup \/ NoticeRestart \/ Measure
    BY <1>1, <1>2, <1>3, KeepWarmingIs, EndWarmupIs, NoticeRestartIs, MeasureIs
<1>4. CASE ReadSlots
    BY <1>4, ReadSlotsLeaves
<1>5. CASE Serve \/ Generate \/ Decode \/ Finish
    BY <1>5, EngineServes DEF BaseInv, FiguresInv
<1>6. CASE RestartEngine
    BY <1>1, <1>6, EngineRestarts DEF FiguresInv
<1>7. CASE ReadErrorPage
    BY <1>1, <1>7, ErrorPageLeaves
<1>8. CASE UNCHANGED vars
    BY <1>8 DEF vars, FiguresInv
<1> QED
    BY <1>3, <1>4, <1>5, <1>6, <1>7, <1>8 DEF Next, Scrape

LEMMA MeasuredHoldsInitially == Init => MeasuredInv /\ FiguresInv
<1> SUFFICES ASSUME Init PROVE MeasuredInv /\ FiguresInv
    OBVIOUS
<1>1. tracker.mode = "Warming" /\ tracker.cursor = {} /\ "Warming" # "Active"
    BY DEF Init, Warming
<1>2. engine.life = 1 /\ shown.life = 0 /\ shown.warming = TRUE /\ shown.rate = {} /\ shown.figures = {}
    BY DEF Init
<1>3. WarmingInv /\ ActiveInv /\ ShownInv
    BY <1>1, <1>2 DEF WarmingInv, ActiveInv, ShownInv
<1> QED
    BY <1>2, <1>3 DEF MeasuredInv, FiguresInv

LEMMA Invariance == SkipRequests # 0 => (Spec => []IInv)
<1>1. Init => IInv
    BY BaseHoldsInitially, MeasuredHoldsInitially DEF IInv
<1>2. SkipRequests # 0 /\ IInv /\ [Next]_vars => IInv'
    BY BasePreserved, MeasuredPreserved, FiguresPreserved DEF IInv
<1>3. CASE SkipRequests # 0
  <2>1. IInv /\ [Next]_vars => IInv'
    BY <1>2, <1>3
  <2> QED
    BY <1>1, <2>1, PTL DEF Spec
<1> QED
    BY <1>3

(* With a threshold, which the default of one request is: whatever restarts *)
(* or finishes, no rate falls below zero, the running mean covers what was  *)
(* generated since the baseline, and the share of accepted tokens is one;   *)
(* llama.cpp's rate of prompts is below zero only when the server was       *)
(* restarted over a baseline of zero.                                       *)
THEOREM RatesSound == SkipRequests # 0 => (Spec => []RatesAreSound)
<1>1. IInv => RatesAreSound
  <2> SUFFICES ASSUME IInv PROVE RatesAreSound
    OBVIOUS
  <2>1. \A x \in shown.rate : x >= 0
    BY DEF IInv, BaseInv, LiveInv, MeasuredInv, ShownInv
  <2>2. \A s \in shown.share : 0 <= s[1] /\ s[1] <= s[2]
    BY DEF IInv, BaseInv, ReadingsInv
  <2>3. ASSUME ~shown.warming, ~LlamaCpp PROVE rates.prev = {rates.sum}
    <3>1. tracker.mode = "Active"
      BY <2>3, TrackerIs DEF IInv, BaseInv, MeasuredInv, ShownInv
    <3> QED
      BY <2>3, <3>1 DEF IInv, MeasuredInv, ActiveInv
  <2>4. \A x \in shown.prompt :
            x >= 0 \/ (tracker.mode = "Active" /\ tracker.base.life < shown.life /\ Unwatched)
    BY DEF IInv, BaseInv, PromptInv
  <2> QED
    BY <2>1, <2>2, <2>3, <2>4 DEF RatesAreSound
<1> QED
    BY <1>1, Invariance, PTL

(* With a threshold, what is shown as measured leaves out the engine's      *)
(* first SkipRequests requests, and those since the dashboard first saw it  *)
(* after its start but where an error page was read for a count of zero     *)
(* (WarmupTracker.observe), though a restart is only seen as counters that  *)
(* went backwards.                                                          *)
THEOREM WarmupExcluded == SkipRequests # 0 => (Spec => []WarmupIsExcluded)
<1>1. IInv => WarmupIsExcluded
  <2> SUFFICES ASSUME IInv PROVE WarmupIsExcluded
    OBVIOUS
  <2>1. ASSUME ~LlamaCpp, ~shown.warming, shown.life = engine.life
        PROVE  /\ tracker.base.life = engine.life
               /\ tracker.base.served >= SkipRequests
               /\ misread \/ \A n \in scraped : tracker.base.served >= n + SkipRequests
    <3>1. tracker.mode = "Active" /\ scraped # {} /\ ActiveInv
      BY <2>1, TrackerIs DEF IInv, BaseInv, MeasuredInv, ShownInv
    <3>2. /\ SkipRequests + Early <= tracker.base.served
          /\ misread \/ \A n \in scraped : n + SkipRequests <= tracker.base.served
      BY <3>1 DEF ActiveInv
    <3>3. /\ Early \in Nat
          /\ \A n \in scraped : n \in Nat
          /\ tracker.base.served \in Nat /\ SkipRequests \in Nat
      BY <3>1, TrackerIs, ScrapedIsNat, Limits DEF IInv, BaseInv, Early
    <3> QED
      BY <3>1, <3>2, <3>3 DEF ActiveInv
  <2>2. FiguresInv
    BY DEF IInv
  <2> QED
    BY <2>1, <2>2 DEF WarmupIsExcluded, FiguresInv
<1> QED
    BY <1>1, Invariance, PTL

-----------------------------------------------------------------------------
(* The smallest and the largest of a set of numbers.                        *)

(* By the well-foundedness of finite sets: of the intervals 0 .. k.         *)
LEMMA SmallestNumber ==
    ASSUME NEW S \in SUBSET Nat, S # {}
    PROVE  \E m \in S : \A k \in S : m <= k
<1> DEFINE R == StrictSubsetOrdering(Nat)
           T == {0 .. k : k \in S}
<1>1. T \subseteq FiniteSubsetsOf(Nat) /\ T # {}
  <2>1. ASSUME NEW k \in S PROVE IsFiniteSet(0 .. k) /\ 0 .. k \in SUBSET Nat
    <3>1. k \in Int /\ 0 \in Int
      OBVIOUS
    <3> QED
      BY <3>1, FS_Interval
  <2> QED
    BY <2>1 DEF FiniteSubsetsOf
<1>2. IsWellFoundedOn(R, FiniteSubsetsOf(Nat))
    BY FS_StrictSubsetOrderingWellFounded
<1>3. \E x \in T : \A y \in T : ~(<<y, x>> \in R)
  <2> HIDE DEF T, R
  <2> QED
    BY <1>1, <1>2, WFMin
<1>4. PICK m \in S : \A y \in T : ~(<<y, 0 .. m>> \in R)
    BY <1>3
<1>5. ASSUME NEW k \in S PROVE m <= k
  <2> SUFFICES ASSUME k < m PROVE FALSE
    OBVIOUS
  <2>1. 0 .. k \subseteq 0 .. m /\ m \in 0 .. m /\ m \notin 0 .. k
    OBVIOUS
  <2>2. 0 .. k \in SUBSET Nat /\ 0 .. m \in SUBSET Nat
    OBVIOUS
  <2>3. <<0 .. k, 0 .. m>> \in R
    BY <2>1, <2>2 DEF StrictSubsetOrdering
  <2> QED
    BY <1>4, <2>3
<1> QED
    BY <1>5

LEMMA LargestNumber ==
    ASSUME NEW N \in Nat, NEW S \in SUBSET (0 .. N), S # {}
    PROVE  \E m \in S : \A k \in S : k <= m
<1> DEFINE T == {k \in 0 .. N : N - k \in S}
<1>1. T \in SUBSET Nat /\ T # {}
  <2>1. PICK p \in S : TRUE
    OBVIOUS
  <2>2. p \in 0 .. N /\ N - p \in 0 .. N /\ N - (N - p) = p
    BY <2>1
  <2> QED
    BY <2>1, <2>2
<1>2. PICK m \in T : \A k \in T : m <= k
    BY <1>1, SmallestNumber
<1>3. N - m \in S /\ m \in 0 .. N
    BY <1>2
<1>4. ASSUME NEW p \in S PROVE p <= N - m
  <2>1. p \in 0 .. N /\ N - p \in 0 .. N /\ N - (N - p) = p
    BY <1>4
  <2>2. m <= N - p
    BY <1>2, <1>4, <2>1
  <2> QED
    BY <1>3, <2>1, <2>2
<1> QED
    BY <1>3, <1>4

LEMMA MinIs ==
    ASSUME NEW T \in SUBSET Int, NEW m \in T, \A y \in T : m <= y
    PROVE  Min(T) = m
<1>1. \A x \in T : (\A y \in T : x <= y) => x = m
    OBVIOUS
<1> QED
    BY <1>1 DEF Min

LEMMA MinIsIn ==
    ASSUME NEW S \in SUBSET Nat, S # {}
    PROVE  Min(S) \in S /\ \A k \in S : Min(S) <= k
<1>1. PICK m \in S : \A k \in S : m <= k
    BY SmallestNumber
<1>2. S \in SUBSET Int
    OBVIOUS
<1>3. Min(S) = m
    BY <1>1, <1>2, MinIs
<1> QED
    BY <1>1, <1>3

LEMMA MaxIsIn ==
    ASSUME NEW N \in Nat, NEW S \in SUBSET (0 .. N), S # {}
    PROVE  Max(S) \in S /\ \A k \in S : k <= Max(S)
<1>1. PICK m \in S : \A k \in S : k <= m
    BY LargestNumber
<1>2. S \in SUBSET Int
    OBVIOUS
<1>3. Max(S) = m
    BY <1>1, <1>2, MaxIs
<1> QED
    BY <1>1, <1>3

-----------------------------------------------------------------------------
(* Latencies: how many requests of a baseline's took no longer than x, and  *)
(* the fraction q of them.                                                  *)

Within(b, s, x) == Cardinality({n \in b + 1 .. s : Latency[n] <= x})
Quantile(b, s, q) ==
    Min({Latency[n] : n \in {n \in b + 1 .. s :
             Within(b, s, Latency[n]) * q[2] >= Cardinality(b + 1 .. s) * q[1]}})

LEMMA LatenciesAre ==
    ASSUME NEW b \in Nat, NEW s \in 0 .. MaxServed, b < s
    PROVE  /\ \A n \in b + 1 .. s : Latency[n] \in Nat /\ Latency[n] > 0
           /\ IsFiniteSet(b + 1 .. s) /\ Cardinality(b + 1 .. s) = s - b
           /\ s - b \in Nat /\ s - b > 0 /\ s \in b + 1 .. s
<1>1. Latency \in [1 .. MaxServed -> Nat \ {0}] /\ MaxServed \in Nat
    BY RatesAssumption
<1>2. s \in Nat /\ s <= MaxServed /\ s \in b + 1 .. s
    BY <1>1
<1>3. \A n \in b + 1 .. s : n \in 1 .. MaxServed
    BY <1>1, <1>2
<1>4. \A n \in b + 1 .. s : Latency[n] \in Nat /\ Latency[n] > 0
    BY <1>1, <1>3
<1> DEFINE a == b + 1
<1>5. a \in Int /\ s \in Int /\ ~(a > s) /\ s - a + 1 = s - b
    BY <1>2
<1>6. IsFiniteSet(a .. s) /\ Cardinality(a .. s) = s - b
  <2> HIDE DEF a
  <2> QED
    BY <1>5, FS_Interval
<1> QED
    BY <1>2, <1>4, <1>6

LEMMA WithinIs ==
    ASSUME NEW b \in Nat, NEW s \in 0 .. MaxServed, b < s, NEW x \in Nat
    PROVE  /\ Within(b, s, x) \in Nat /\ Within(b, s, x) <= s - b
           /\ \A y \in Nat : x <= y => Within(b, s, x) <= Within(b, s, y)
<1> DEFINE M == b + 1 .. s
           Quick(y) == {n \in M : Latency[n] <= y}
<1>1. IsFiniteSet(M) /\ Cardinality(M) = s - b /\ \A n \in M : Latency[n] \in Nat
    BY LatenciesAre
<1> HIDE DEF M
<1>2. \A y : Quick(y) \in SUBSET M
    OBVIOUS
<1>3. \A y : IsFiniteSet(Quick(y)) /\ Cardinality(Quick(y)) <= Cardinality(M)
  <2> HIDE DEF Quick
  <2> QED
    BY <1>1, <1>2, FS_Subset
<1>4. Cardinality(Quick(x)) \in Nat
  <2> HIDE DEF Quick
  <2> QED
    BY <1>3, FS_CardinalityType
<1>5. ASSUME NEW y \in Nat, x <= y PROVE Cardinality(Quick(x)) <= Cardinality(Quick(y))
  <2>1. Quick(x) \in SUBSET Quick(y)
    BY <1>1, <1>5
  <2> HIDE DEF Quick
  <2> QED
    BY <1>3, <2>1, FS_Subset
<1> QED
    BY <1>1, <1>3, <1>4, <1>5 DEF Within, M

(* The slowest took no longer than itself, and everyone else neither.       *)
LEMMA Slowest ==
    ASSUME NEW b \in Nat, NEW s \in 0 .. MaxServed, b < s
    PROVE  \E n \in b + 1 .. s : Within(b, s, Latency[n]) = s - b
<1> DEFINE M == b + 1 .. s
           T == s - b
           Quick(y) == {n \in M : Latency[n] <= y}
           W(y) == Within(b, s, y)
<1>1. /\ \A n \in M : Latency[n] \in Nat
      /\ IsFiniteSet(M) /\ Cardinality(M) = T /\ T \in Nat /\ s \in M
    BY LatenciesAre
<1>2. \A n \in M : W(Latency[n]) \in Nat /\ W(Latency[n]) <= T
    BY <1>1, WithinIs
<1>3. \A y : W(y) = Cardinality(Quick(y))
    BY DEF Within
<1> HIDE DEF M, T, W
<1> DEFINE S == {W(Latency[n]) : n \in M}
<1>4. S \in SUBSET (0 .. T) /\ S # {}
    BY <1>1, <1>2
<1>5. PICK n \in M : \A m \in M : W(Latency[m]) <= W(Latency[n])
  <2>1. PICK w \in S : \A k \in S : k <= w
    <3> HIDE DEF S
    <3> QED
      BY <1>1, <1>4, LargestNumber
  <2> QED
    BY <2>1
<1>6. ASSUME NEW m \in M PROVE Latency[m] <= Latency[n]
  <2> SUFFICES ASSUME Latency[n] < Latency[m] PROVE FALSE
    BY <1>1
  <2>1. /\ Quick(Latency[n]) \in SUBSET Quick(Latency[m])
        /\ m \in Quick(Latency[m]) /\ m \notin Quick(Latency[n])
    <3>1. \A k \in M : Latency[k] <= Latency[n] => Latency[k] <= Latency[m]
      BY <1>1
    <3>2. Latency[m] <= Latency[m] /\ ~(Latency[m] <= Latency[n])
      BY <1>1
    <3> QED
      BY <3>1, <3>2
  <2>2. Quick(Latency[m]) \in SUBSET M
    OBVIOUS
  <2> HIDE DEF Quick
  <2>3. IsFiniteSet(Quick(Latency[m]))
    BY <1>1, <2>2, FS_Subset
  <2>4. /\ Cardinality(Quick(Latency[n])) <= Cardinality(Quick(Latency[m]))
        /\ Cardinality(Quick(Latency[n])) # Cardinality(Quick(Latency[m]))
    BY <2>1, <2>3, FS_Subset
  <2> QED
    BY <1>2, <1>3, <1>5, <2>4
<1>7. Quick(Latency[n]) = M
    BY <1>6
<1>8. W(Latency[n]) = T
    BY <1>1, <1>3, <1>7
<1> QED
    BY <1>8 DEF M, T, W

LEMMA QuantilesAre ==
    ASSUME NEW q \in Quantiles
    PROVE  q[1] \in Nat /\ q[2] \in Nat /\ 0 < q[1] /\ q[1] <= q[2]
BY DEF Quantiles

LEMMA Products ==
    ASSUME NEW a \in Nat, NEW b \in Nat, NEW c \in Nat, NEW d \in Nat, a <= b, c <= d
    PROVE  a * c <= b * d /\ a * c \in Nat /\ (0 < a /\ 0 < c => 0 < a * c)
<1>1. a * c <= b * c
    OBVIOUS
<1>2. b * c <= b * d
    OBVIOUS
<1>3. a * c \in Nat /\ b * c \in Nat /\ b * d \in Nat
    OBVIOUS
<1>4. 0 < a /\ 0 < c => 0 < a * c
    OBVIOUS
<1> QED
    BY <1>1, <1>2, <1>3, <1>4

(* The latency at a fraction: what is enough of the requests took no longer *)
(* than x exactly if it is at most x.                                       *)
LEMMA QuantileIs ==
    ASSUME NEW b \in Nat, NEW s \in 0 .. MaxServed, b < s, NEW q \in Quantiles
    PROVE  /\ Quantile(b, s, q) \in Nat
           /\ \A x \in Nat : Quantile(b, s, q) <= x
                                <=> Within(b, s, x) * q[2] >= (s - b) * q[1]
<1> DEFINE M == b + 1 .. s
           T == s - b
           W(y) == Within(b, s, y)
           u == q[1]
           v == q[2]
           Reached == {n \in M : W(Latency[n]) * v >= T * u}
           S == {Latency[n] : n \in Reached}
           x0 == Quantile(b, s, q)
<1>1. /\ \A n \in M : Latency[n] \in Nat
      /\ Cardinality(M) = T /\ T \in Nat /\ T > 0
    BY LatenciesAre
<1>2. \A x \in Nat : W(x) \in Nat /\ W(x) <= T /\ \A y \in Nat : x <= y => W(x) <= W(y)
    BY WithinIs
<1>3. u \in Nat /\ v \in Nat /\ 0 < u /\ u <= v
    BY QuantilesAre
<1>4. x0 = Min(S)
    BY <1>1 DEF Quantile
<1>5. PICK n0 \in M : W(Latency[n0]) = T
    BY Slowest
<1>6. \A x, y \in Nat : x <= y => W(x) * v <= W(y) * v /\ W(x) * v \in Nat
  <2> HIDE DEF W, v
  <2> QED
    BY <1>2, <1>3, Products
<1>7. T * u \in Nat /\ 0 < T * u /\ T * u <= T * v
  <2> HIDE DEF T, u, v
  <2>1. T <= T
    BY <1>1
  <2> QED
    BY <1>1, <1>3, <2>1, Products
<1>8. \A x, y \in Nat : W(x) = W(y) => W(x) * v = W(y) * v
    OBVIOUS
<1>10. \A x \in Nat : W(x) = Cardinality({n \in M : Latency[n] <= x})
    BY DEF Within
<1> HIDE DEF W, T, u, v, x0, M
<1>11. n0 \in Reached
    BY <1>3, <1>5, <1>7
<1>12. S \in SUBSET Nat /\ S # {}
    BY <1>1, <1>11
<1>13. x0 \in S /\ \A k \in S : x0 <= k
  <2> HIDE DEF S
  <2> QED
    BY <1>4, <1>12, MinIsIn
<1>14. x0 \in Nat /\ W(x0) * v >= T * u
    BY <1>12, <1>13
<1>15. ASSUME NEW x \in Nat, x0 <= x PROVE W(x) * v >= T * u
    BY <1>6, <1>7, <1>14, <1>15
<1>16. ASSUME NEW x \in Nat, W(x) * v >= T * u PROVE x0 <= x
  <2> DEFINE Quick(y) == {n \in M : Latency[n] <= y}
             L == {Latency[n] : n \in Quick(x)}
  <2>1. Quick(x) # {}
    <3> SUFFICES ASSUME Quick(x) = {} PROVE FALSE
      OBVIOUS
    <3>1. W(x) = 0
      BY <1>10, FS_EmptySet
    <3>2. W(x) * v = 0
      BY <1>3, <3>1
    <3> QED
      BY <1>7, <1>16, <3>2
  <2>2. L \in SUBSET (0 .. x) /\ L # {}
    BY <1>1, <2>1
  <2>3. PICK l \in L : \A k \in L : k <= l
    <3> HIDE DEF L
    <3> QED
      BY <2>2, LargestNumber
  <2>4. PICK n \in Quick(x) : l = Latency[n]
    BY <2>3
  <2>5. Quick(l) = Quick(x)
    BY <1>1, <2>2, <2>3, <2>4
  <2>6. l \in Nat /\ l <= x /\ n \in M
    BY <1>1, <2>4
  <2>7. W(l) = W(x)
    BY <1>10, <2>5, <2>6
  <2>8. n \in Reached
    BY <1>16, <2>4, <2>6, <2>7
  <2>9. x0 <= l
    BY <1>13, <2>4, <2>8
  <2> QED
    BY <1>14, <2>6, <2>9
<1> QED
    BY <1>14, <1>15, <1>16 DEF W, T, u, v, x0

-----------------------------------------------------------------------------
(* The histogram.                                                           *)

LEMMA BoundsAre ==
    /\ Len(Bounds) \in Nat /\ Len(Bounds) > 0
    /\ Finite = 1 .. Len(Bounds) /\ Buckets = 1 .. Len(Bounds) + 1
    /\ \A i \in 1 .. Len(Bounds) : Bounds[i] \in Nat /\ Bounds[i] > 0
    /\ \A i, j \in 1 .. Len(Bounds) : i <= j => Bounds[i] <= Bounds[j]
    /\ \A i, j \in 1 .. Len(Bounds) : i < j => Bounds[i] < Bounds[j]
<1>1. /\ Bounds \in Seq(Nat \ {0}) /\ Bounds # <<>>
      /\ \A i, j \in DOMAIN Bounds : i < j => Bounds[i] < Bounds[j]
    BY RatesAssumption
<1>2. /\ Len(Bounds) \in Nat /\ Len(Bounds) > 0 /\ DOMAIN Bounds = 1 .. Len(Bounds)
      /\ \A i \in 1 .. Len(Bounds) : Bounds[i] \in Nat \ {0}
    BY <1>1
<1>3. \A i \in 1 .. Len(Bounds) : Bounds[i] \in Nat /\ Bounds[i] > 0
    BY <1>2
<1>4. \A i, j \in 1 .. Len(Bounds) : i < j => Bounds[i] < Bounds[j]
    BY <1>1, <1>2
<1>5. \A i, j \in 1 .. Len(Bounds) : i <= j => Bounds[i] <= Bounds[j]
  <2> TAKE i, j \in 1 .. Len(Bounds)
  <2>1. CASE i = j
    BY <1>3, <2>1
  <2>2. CASE i < j
    BY <1>3, <1>4, <2>2
  <2> QED
    BY <1>2, <2>1, <2>2
<1> QED
    BY <1>2, <1>3, <1>4, <1>5 DEF Finite, Buckets

(* What is left of a histogram are the requests since the baseline          *)
(* (subtract_baseline).                                                     *)
LEMMA SubtractedIs ==
    ASSUME NEW b \in Nat, NEW s \in 0 .. MaxServed, b < s
    PROVE  LET h == SubtractBaseline(Histogram(s), Histogram(b)) IN
           /\ \A i \in 1 .. Len(Bounds) : h[i] = Within(b, s, Bounds[i])
           /\ h[Len(Bounds) + 1] = s - b
<1> DEFINE h == SubtractBaseline(Histogram(s), Histogram(b))
           M == b + 1 .. s
           P(i, n) == i \in Finite => Latency[n] <= Bounds[i]
           A(i) == {n \in 1 .. b : P(i, n)}
           C(i) == {n \in M : P(i, n)}
           S(i) == {n \in 1 .. s : P(i, n)}
<1>1. /\ s \in Nat /\ b <= s
      /\ 1 .. s = (1 .. b) \cup M /\ (1 .. b) \cap M = {}
    BY Limits
<1>2. IsFiniteSet(M) /\ Cardinality(M) = s - b
    BY LatenciesAre
<1>3. IsFiniteSet(1 .. b)
  <2>1. 1 \in Int /\ b \in Int
    OBVIOUS
  <2> QED
    BY <2>1, FS_Interval
<1>4. \A i \in Buckets : h[i] = Max({0, Cardinality(S(i)) - Cardinality(A(i))})
    BY DEF SubtractBaseline, Histogram
<1> HIDE DEF M, P
<1>5. ASSUME NEW i \in Buckets PROVE h[i] = Cardinality(C(i))
  <2>1. S(i) = A(i) \cup C(i) /\ A(i) \cap C(i) = {}
    BY <1>1
  <2>2. A(i) \in SUBSET (1 .. b) /\ C(i) \in SUBSET M
    OBVIOUS
  <2> DEFINE a == Cardinality(A(i))
             c == Cardinality(C(i))
  <2> HIDE DEF A, C, S
  <2>3. IsFiniteSet(A(i)) /\ IsFiniteSet(C(i))
    BY <1>2, <1>3, <2>2, FS_Subset
  <2>4. a \in Nat /\ c \in Nat
    BY <2>3, FS_CardinalityType
  <2>5. Cardinality(S(i)) = a + c
    <3>1. Cardinality(A(i) \cap C(i)) = 0
      BY <2>1, FS_EmptySet
    <3>2. Cardinality(A(i) \cup C(i)) = a + c - Cardinality(A(i) \cap C(i))
      BY <2>3, FS_Union
    <3> HIDE DEF a, c
    <3> QED
      BY <2>1, <2>4, <3>1, <3>2
  <2>6. h[i] = Max({0, Cardinality(S(i)) - a})
    BY <1>4 DEF S, A
  <2> HIDE DEF a, c, h
  <2>7. Cardinality(S(i)) - a = c
    BY <2>4, <2>5
  <2>8. Max({0, c}) = c
    <3>1. {0, c} \in SUBSET Int /\ c \in {0, c} /\ \A y \in {0, c} : y <= c
      BY <2>4
    <3> QED
      BY <3>1, MaxIs
  <2> QED
    BY <2>6, <2>7, <2>8 DEF c
<1>6. \A i \in 1 .. Len(Bounds) : i \in Buckets /\ C(i) = {n \in M : Latency[n] <= Bounds[i]}
    BY BoundsAre DEF P
<1>7. Len(Bounds) + 1 \in Buckets /\ C(Len(Bounds) + 1) = M
    BY BoundsAre DEF P
<1> HIDE DEF h, C
<1> QED
    BY <1>2, <1>5, <1>6, <1>7 DEF h, Within, M

(* A bucket's lower end.                                                    *)
LEMMA LowerIs ==
    ASSUME NEW h, NEW i \in Buckets
    PROVE  /\ i = 1 => Lower(h, i).le = 0 /\ Lower(h, i).cum = 0
           /\ i # 1 => /\ Lower(h, i).le = Bounds[i - 1] /\ Lower(h, i).cum = h[i - 1]
                       /\ i - 1 \in 1 .. Len(Bounds)
<1>1. i # 1 => i - 1 \in 1 .. Len(Bounds)
    BY BoundsAre
<1> QED
    BY <1>1 DEF Lower

LEMMA Arithmetic ==
    ASSUME NEW a \in Int, NEW b \in Int, NEW c \in Int
    PROVE  /\ a * b \in Int /\ a * b = b * a
           /\ (a - b) * c = a * c - b * c /\ (a + b) * c = a * c + b * c
           /\ (a * b) * c = a * (b * c)
OBVIOUS

(* A point between two counts lies between their latencies.                 *)
LEMMA Interpolation ==
    ASSUME NEW le \in Nat, NEW bound \in Nat, le < bound,
           NEW cum \in Nat, NEW cumulative \in Nat, NEW v \in Nat, NEW target \in Nat,
           cum * v < target, target <= cumulative * v
    PROVE  LET count == cumulative - cum
               point == le * count * v + (target - cum * v) * (bound - le)
           IN  count # 0 /\ le * (count * v) < point /\ point <= bound * (count * v)
<1> DEFINE count == cumulative - cum
           d == bound - le
           w == count * v
           z == target - cum * v
<1>1. /\ count \in Int /\ d \in Nat /\ 0 < d /\ bound = le + d
      /\ v \in Int /\ cum \in Int /\ cumulative \in Int /\ le \in Int
    OBVIOUS
<1>2. /\ cum * v \in Int /\ cumulative * v \in Int
      /\ w \in Int /\ w = cumulative * v - cum * v
  <2> HIDE DEF d, z
  <2> QED
    BY <1>1, Arithmetic
<1>3. le * count * v = le * w
  <2> HIDE DEF d, z, count
  <2> QED
    BY <1>1, Arithmetic
<1>4. z \in Nat /\ 0 < z /\ z <= w /\ w \in Nat
  <2> DEFINE x == cum * v
             y == cumulative * v
  <2>1. w = y - x /\ x \in Int /\ y \in Int /\ x < target /\ target <= y
    BY <1>2
  <2>2. z = target - x
    OBVIOUS
  <2> HIDE DEF x, y, w, z
  <2> QED
    BY <2>1, <2>2
<1>5. count # 0
  <2> SUFFICES ASSUME count = 0 PROVE FALSE
    OBVIOUS
  <2>1. w = 0
    BY <1>1
  <2> HIDE DEF w, z
  <2> QED
    BY <1>4, <2>1
<1> DEFINE point == le * count * v + z * d
<1>6. point = le * w + z * d
    BY <1>3
<1>7. bound * w = le * w + d * w
  <2> HIDE DEF d, w, count, z
  <2>1. d \in Int /\ w \in Int
    BY <1>1, <1>4
  <2> QED
    BY <1>1, <2>1, Arithmetic
<1>8. 0 < z * d /\ z * d <= d * w /\ z * d \in Nat /\ le * w \in Nat /\ d * w \in Nat
  <2> HIDE DEF z, d, w
  <2>1. d <= d /\ le <= le /\ w <= w
    BY <1>1, <1>4
  <2>2. z * d <= w * d /\ z * d \in Nat /\ 0 < z * d
    BY <1>1, <1>4, <2>1, Products
  <2>3. le * w \in Nat /\ d * w \in Nat
    BY <1>1, <1>4, <2>1, Products
  <2>4. w \in Int /\ d \in Int
    BY <1>1, <1>4
  <2>5. d * w = w * d
    BY <2>4, Arithmetic
  <2> QED
    BY <2>2, <2>3, <2>5
<1>9. le * w < point /\ point <= bound * w
  <2> DEFINE x == le * w
             y == z * d
             k == d * w
  <2>1. point = x + y /\ bound * w = x + k /\ 0 < y /\ y <= k /\ x \in Nat /\ y \in Nat /\ k \in Nat
    BY <1>6, <1>7, <1>8
  <2>2. le * w = x
    OBVIOUS
  <2> HIDE DEF x, y, k, point, w
  <2> QED
    BY <2>1, <2>2
<1> QED
    BY <1>5, <1>9

(* The latency at a fraction lies in the bucket the percentile is taken     *)
(* from (percentile).                                                       *)
LEMMA PercentileIs ==
    ASSUME NEW b \in Nat, NEW s \in 0 .. MaxServed, b < s, NEW q \in Quantiles, NEW k \in Buckets
    PROVE  LET h == SubtractBaseline(Histogram(s), Histogram(b))
               x == Quantile(b, s, q)
               p == Percentile(h, q)
           IN  IF k \in Finite
                 THEN Lower(h, k).le < x /\ x <= Bounds[k]
                        => Lower(h, k).le * p[2] < p[1] /\ p[1] <= Bounds[k] * p[2]
                 ELSE Bounds[Len(Bounds)] < x => p[1] = Bounds[Len(Bounds)] * p[2]
<1> DEFINE h == SubtractBaseline(Histogram(s), Histogram(b))
           x == Quantile(b, s, q)
           u == q[1]
           v == q[2]
           R == {i \in Buckets : h[i] * v >= Total(h) * u}
           p == Percentile(h, q)
<1>1. /\ \A i \in 1 .. Len(Bounds) : h[i] = Within(b, s, Bounds[i])
      /\ h[Len(Bounds) + 1] = s - b
    BY SubtractedIs
<1>2. Total(h) = s - b
    BY <1>1 DEF Total
<1>3. u \in Nat /\ v \in Nat /\ 0 < u /\ u <= v
    BY QuantilesAre
<1>4. s - b \in Nat /\ s - b > 0
    BY LatenciesAre
<1> DEFINE T == s - b
<1>5. /\ x \in Nat
      /\ \A y \in Nat : x <= y <=> Within(b, s, y) * v >= T * u
    BY QuantileIs
<1>6. \A i \in 1 .. Len(Bounds) : /\ i \in R <=> x <= Bounds[i]
                                  /\ h[i] \in Nat /\ i \in Buckets /\ i \in Finite
  <2> TAKE i \in 1 .. Len(Bounds)
  <2>1. i \in Buckets /\ i \in Finite /\ Bounds[i] \in Nat
    BY BoundsAre
  <2>2. h[i] \in Nat
    BY <1>1, <2>1, WithinIs
  <2>3. h[i] * v >= Total(h) * u <=> x <= Bounds[i]
    <3> HIDE DEF h, x, u, v
    <3> QED
      BY <1>1, <1>2, <1>5, <2>1
  <2> HIDE DEF h, x, u, v
  <2> QED
    BY <2>1, <2>2, <2>3
<1>7. T * u \in Nat /\ 0 < T * u /\ T * u <= T * v
  <2> HIDE DEF T, u, v
  <2>1. T \in Nat /\ 0 < T /\ T <= T
    BY <1>4 DEF T
  <2> QED
    BY <1>3, <2>1, Products
<1>8. Len(Bounds) + 1 \in R
  <2>1. Len(Bounds) + 1 \in Buckets
    BY BoundsAre
  <2>2. h[Len(Bounds) + 1] * v >= Total(h) * u
    <3> HIDE DEF h, u, v
    <3>1. T * v \in Int
      BY <1>3, <1>4
    <3> QED
      BY <1>1, <1>2, <1>7
  <2> HIDE DEF h, u, v
  <2> QED
    BY <2>1, <2>2
<1> DEFINE i == Min(R)
<1>9. i \in R /\ \A j \in R : i <= j
  <2>1. R \in SUBSET Nat
    BY BoundsAre
  <2> HIDE DEF R
  <2> QED
    BY <1>8, <2>1, MinIsIn
<1>10. i \in Buckets /\ R \subseteq Buckets
    BY <1>9
<1> DEFINE low == Lower(h, i)
           count == h[i] - low.cum
<1>11. p = CASE i \notin Finite -> <<Bounds[Len(Bounds)], 1>>
             [] i \in Finite /\ count = 0 -> <<Bounds[i], 1>>
             [] OTHER -> << low.le * count * v
                              + (Total(h) * u - low.cum * v) * (Bounds[i] - low.le),
                            count * v >>
    BY DEF Percentile
<1>12. CASE k \notin Finite
  <2> SUFFICES ASSUME Bounds[Len(Bounds)] < x PROVE p[1] = Bounds[Len(Bounds)] * p[2]
    BY <1>12
  <2>1. ASSUME NEW j \in 1 .. Len(Bounds) PROVE j \notin R
    <3>1. Bounds[j] <= Bounds[Len(Bounds)] /\ Bounds[j] \in Nat /\ Bounds[Len(Bounds)] \in Nat
      BY BoundsAre
    <3> HIDE DEF x, R
    <3> QED
      BY <1>5, <1>6, <3>1
  <2>2. i \notin Finite
    BY <1>9, <2>1, BoundsAre
  <2> HIDE DEF R, i, low, count, u, v, h, p
  <2>3. p = <<Bounds[Len(Bounds)], 1>>
    BY <1>11, <2>2
  <2> QED
    BY <2>3, BoundsAre
<1>13. CASE k \in Finite
  <2> SUFFICES ASSUME Lower(h, k).le < x, x <= Bounds[k]
               PROVE  Lower(h, k).le * p[2] < p[1] /\ p[1] <= Bounds[k] * p[2]
    BY <1>13
  <2>1. k \in 1 .. Len(Bounds) /\ k \in R /\ k \in Nat
    BY <1>6, <1>13, BoundsAre
  <2>2. ASSUME NEW j \in R PROVE k <= j
    <3>1. j \in 1 .. Len(Bounds) + 1
      BY BoundsAre
    <3> SUFFICES ASSUME j < k PROVE FALSE
      BY <2>1, <3>1
    <3>2. j \in 1 .. Len(Bounds) /\ k - 1 \in 1 .. Len(Bounds) /\ j <= k - 1 /\ k # 1
      BY <2>1, <3>1
    <3>3. Bounds[j] <= Bounds[k - 1] /\ Bounds[j] \in Nat /\ Bounds[k - 1] \in Nat
      BY <3>2, BoundsAre
    <3>4. Lower(h, k).le = Bounds[k - 1]
      BY <3>2, LowerIs
    <3>5. x <= Bounds[j]
      BY <1>6, <3>2
    <3> HIDE DEF x, h, R
    <3> QED
      BY <1>5, <3>3, <3>4, <3>5
  <2>3. i = k
    <3> HIDE DEF R, i
    <3> QED
      BY <1>9, <1>10, <2>1, <2>2, BoundsAre
  <2>4. /\ low.le \in Nat /\ low.cum \in Nat /\ low.le < Bounds[k] /\ Bounds[k] \in Nat
        /\ h[k] \in Nat /\ low.cum * v < T * u
    <3>1. CASE k = 1
      <4>1. low.le = 0 /\ low.cum = 0
        BY <2>3, <3>1, LowerIs
      <4>2. 0 * v = 0
        BY <1>3
      <4> HIDE DEF h, x, u, v, low, i
      <4> QED
        BY <1>6, <1>7, <2>1, <4>1, <4>2, BoundsAre
    <3>2. CASE k # 1
      <4>1. low.le = Bounds[k - 1] /\ low.cum = h[k - 1] /\ k - 1 \in 1 .. Len(Bounds) /\ k - 1 < k
        BY <2>3, <3>2, <2>1, LowerIs
      <4>2. k - 1 \notin R
        BY <2>1, <2>2, <4>1
      <4>3. h[k - 1] \in Nat /\ k - 1 \in Buckets
        BY <1>6, <4>1
      <4>4. ~(h[k - 1] * v >= Total(h) * u)
        BY <4>2, <4>3
      <4>5. Bounds[k - 1] < Bounds[k] /\ Bounds[k] \in Nat /\ Bounds[k - 1] \in Nat /\ h[k] \in Nat
        BY <1>6, <2>1, <4>1, BoundsAre
      <4> DEFINE y == h[k - 1] * v
                 z == T * u
      <4>6. y \in Int /\ z \in Int /\ ~(y >= z) /\ y = low.cum * v
        <5> HIDE DEF h, u, v
        <5> QED
          BY <1>2, <1>3, <1>7, <4>1, <4>3, <4>4, Arithmetic
      <4> HIDE DEF y
      <4>7. y < z
        <5> HIDE DEF z
        <5> QED
          BY <4>6
      <4> HIDE DEF h, x, u, v, low, i
      <4> QED
        BY <4>1, <4>3, <4>5, <4>6, <4>7 DEF z
    <3> QED
      BY <3>1, <3>2
  <2>5. T * u <= h[k] * v
    <3>1. h[k] * v >= Total(h) * u
      BY <2>1
    <3> HIDE DEF h, u, v, R
    <3> QED
      BY <1>2, <1>3, <2>4, <3>1, <1>7
  <2> DEFINE target == T * u
             bound == Bounds[k]
             le == low.le
             cum == low.cum
             cumulative == h[k]
             point == le * count * v + (target - cum * v) * (bound - le)
  <2>6. count = cumulative - cum
    BY <2>3
  <2>7. count # 0 /\ le * (count * v) < point /\ point <= bound * (count * v)
    <3>1. target \in Nat
      BY <1>7
    <3> HIDE DEF target, bound, le, cum, cumulative, count, v
    <3> USE <2>6
    <3> USE DEF count
    <3> HIDE DEF i, low
    <3> QED
      BY <1>3, <2>4, <2>5, <2>6, <3>1, Interpolation DEF target, bound, le, cum, cumulative
  <2>8. p = <<point, count * v>>
    <3> HIDE DEF R, i, low, u, v, h, p
    <3> QED
      BY <1>2, <1>11, <1>13, <2>3, <2>7
  <2>9. Lower(h, k).le = le
    BY <2>3
  <2> HIDE DEF p, point, count, le, bound
  <2> QED
    BY <2>7, <2>8, <2>9 DEF bound
<1> QED
    BY <1>12, <1>13

(* A goodput lies between the counts of the bounds about its threshold      *)
(* (fraction_le).                                                           *)
LEMMA InterpolatedCount ==
    ASSUME NEW le \in Nat, NEW bound \in Nat, NEW t \in Nat, le < t, t <= bound,
           NEW cum \in Nat, NEW cumulative \in Nat, cum <= cumulative
    PROVE  LET width == bound - le
               point == cum * width + (t - le) * (cumulative - cum)
           IN  /\ width \in Nat /\ point \in Nat
               /\ cum * width <= point /\ point <= cumulative * width
               /\ t = bound => point = cumulative * width
<1> DEFINE d == bound - le
           e == t - le
           n == cumulative - cum
           x == cum * d
           y == e * n
           point == x + y
<1>1. /\ d \in Nat /\ e \in Nat /\ n \in Nat /\ e <= d /\ n <= n /\ cumulative = cum + n
      /\ t = bound => e = d
    OBVIOUS
<1>2. y <= d * n /\ y \in Nat
  <2> HIDE DEF d, e, n
  <2> QED
    BY <1>1, Products
<1>3. x \in Nat /\ d * n \in Nat /\ d * n = n * d /\ cumulative * d = x + n * d
  <2>1. d \in Int /\ n \in Int /\ cum \in Int /\ cum <= cum /\ d <= d
    OBVIOUS
  <2> HIDE DEF d, e, n
  <2> QED
    BY <1>1, <2>1, Products, Arithmetic
<1>4. t = bound => y = d * n
    BY <1>1
<1> HIDE DEF x, y
<1>5. /\ point \in Nat /\ x <= point /\ point <= cumulative * d
      /\ t = bound => point = cumulative * d
  <2> DEFINE k == d * n
             c == cumulative * d
  <2>1. k \in Nat /\ y <= k /\ y \in Nat /\ x \in Nat /\ c = x + k /\ (t = bound => y = k)
    BY <1>2, <1>3, <1>4
  <2> HIDE DEF k, c
  <2>2. /\ point \in Nat /\ x <= point /\ point <= c
        /\ t = bound => point = c
    BY <2>1
  <2> QED
    BY <2>2 DEF c
<1> QED
    BY <1>1, <1>5 DEF x, y

LEMMA CountLeIs ==
    ASSUME NEW b \in Nat, NEW s \in 0 .. MaxServed, b < s, NEW t \in 1 .. Bounds[Len(Bounds)] + 1
    PROVE  LET c == CountLe(SubtractBaseline(Histogram(s), Histogram(b)), t) IN
           /\ c[1] \in Nat /\ c[2] \in Nat
           /\ c[1] <= Within(b, s, Bounds[Len(Bounds)]) * c[2]
           /\ \A j \in 1 .. Len(Bounds) :
                 /\ Bounds[j] <= t => Within(b, s, Bounds[j]) * c[2] <= c[1]
                 /\ t <= Bounds[j] => c[1] <= Within(b, s, Bounds[j]) * c[2]
<1> DEFINE h == SubtractBaseline(Histogram(s), Histogram(b))
           W(x) == Within(b, s, x)
           L == Len(Bounds)
           over == {i \in Finite : Bounds[i] >= t}
           c == CountLe(h, t)
           Claim == /\ c[1] \in Nat /\ c[2] \in Nat
                    /\ c[1] <= W(Bounds[L]) * c[2]
                    /\ \A j \in 1 .. L : /\ Bounds[j] <= t => W(Bounds[j]) * c[2] <= c[1]
                                         /\ t <= Bounds[j] => c[1] <= W(Bounds[j]) * c[2]
<1>1. \A i \in 1 .. L : h[i] = W(Bounds[i])
    BY SubtractedIs
<1>2. \A x \in Nat : W(x) \in Nat /\ \A y \in Nat : x <= y => W(x) <= W(y)
    BY WithinIs
<1>3. /\ L \in Nat /\ L > 0 /\ Finite = 1 .. L /\ Buckets = 1 .. L + 1
      /\ \A i \in 1 .. L : Bounds[i] \in Nat /\ Bounds[i] > 0
      /\ \A i, j \in 1 .. L : i <= j => Bounds[i] <= Bounds[j]
      /\ \A i, j \in 1 .. L : i < j => Bounds[i] < Bounds[j]
    BY BoundsAre
<1>4. t \in Nat /\ 0 < t /\ L \in 1 .. L
    BY <1>3
<1> HIDE DEF W, h, L
<1>5. \A i, j \in 1 .. L : i <= j => W(Bounds[i]) <= W(Bounds[j])
    BY <1>2, <1>3
<1>6. \A i \in 1 .. L : W(Bounds[i]) \in Nat /\ W(Bounds[i]) <= W(Bounds[L])
  <2> TAKE i \in 1 .. L
  <2>1. Bounds[i] \in Nat /\ i <= L
    BY <1>3
  <2> QED
    BY <1>2, <1>4, <1>5, <2>1
<1>7. CASE over = {}
  <2>1. c = <<W(Bounds[L]), 1>>
    BY <1>1, <1>4, <1>7 DEF CountLe, L
  <2>2. \A j \in 1 .. L : ~(t <= Bounds[j])
    BY <1>3, <1>4, <1>7
  <2>3. \A w \in Nat : w * 1 = w /\ w <= w
    OBVIOUS
  <2> HIDE DEF c
  <2>4. Claim
    BY <1>4, <1>6, <2>1, <2>2, <2>3
  <2> QED
    BY <2>4 DEF W, L, h, c
<1>8. CASE over # {}
  <2> DEFINE i == Min(over)
             low == Lower(h, i)
             width == Bounds[i] - low.le
             point == low.cum * width + (t - low.le) * (h[i] - low.cum)
  <2>1. i \in over /\ \A j \in over : i <= j
    <3>1. over \in SUBSET Nat
      BY <1>3
    <3> HIDE DEF over
    <3> QED
      BY <1>8, <3>1, MinIsIn
  <2>2. c = <<point, width>>
    BY <1>8 DEF CountLe
  <2>3. i \in 1 .. L /\ t <= Bounds[i] /\ Bounds[i] \in Nat
    <3> HIDE DEF i
    <3> QED
      BY <1>3, <1>4, <2>1
  <2>4. \A j \in 1 .. L : t <= Bounds[j] => i <= j
    <3>1. \A j \in 1 .. L : t <= Bounds[j] => j \in over
      BY <1>3, <1>4
    <3> HIDE DEF i, over
    <3> QED
      BY <2>1, <3>1
  <2>5. /\ low.le \in Nat /\ low.le < t /\ low.cum \in Nat /\ low.cum <= h[i]
        /\ \A j \in 1 .. L : j < i => W(Bounds[j]) <= low.cum
    <3>1. CASE i = 1
      <4>1. low.le = 0 /\ low.cum = 0
        BY <1>3, <2>3, <3>1, LowerIs
      <4> HIDE DEF low, i
      <4> QED
        BY <1>1, <1>4, <1>6, <2>3, <3>1, <4>1
    <3>2. CASE i # 1
      <4>1. i \in Buckets
        BY <1>3, <2>3
      <4>2. low.le = Bounds[i - 1] /\ low.cum = h[i - 1]
        BY <3>2, <4>1, LowerIs
      <4> HIDE DEF low, i
      <4> DEFINE k == i - 1
      <4>3. k \in 1 .. L /\ k < i /\ k <= i /\ \A j \in 1 .. L : j < i => j <= k
        BY <1>3, <2>3, <3>2
      <4> HIDE DEF k
      <4>4. ~(t <= Bounds[k]) /\ Bounds[k] \in Nat
        <5>1. \A j \in 1 .. L : j < i => ~(i <= j)
          BY <1>3, <2>3
        <5> QED
          BY <1>3, <2>4, <4>3, <5>1
      <4>5. W(Bounds[k]) <= W(Bounds[i]) /\ \A j \in 1 .. L : j < i => W(Bounds[j]) <= W(Bounds[k])
        BY <1>5, <2>3, <4>3
      <4>6. low.le = Bounds[k] /\ low.cum = W(Bounds[k])
        BY <1>1, <4>2, <4>3 DEF k
      <4> QED
        BY <1>1, <1>4, <1>6, <2>3, <4>3, <4>4, <4>5, <4>6
    <3> QED
      BY <3>1, <3>2
  <2> HIDE DEF i, low, over, c
  <2>6. h[i] \in Nat /\ h[i] = W(Bounds[i])
    BY <1>1, <1>6, <2>3
  <2>7. /\ width \in Nat /\ point \in Nat
        /\ low.cum * width <= point /\ point <= h[i] * width
        /\ t = Bounds[i] => point = h[i] * width
    <3> DEFINE le == low.le
               bound == Bounds[i]
               cum == low.cum
               all == h[i]
    <3>1. /\ le \in Nat /\ bound \in Nat /\ le < t /\ t <= bound
          /\ cum \in Nat /\ all \in Nat /\ cum <= all
      BY <2>3, <2>5, <2>6
    <3> HIDE DEF le, bound, cum, all
    <3>2. LET wide == bound - le
              at   == cum * wide + (t - le) * (all - cum)
          IN  /\ wide \in Nat /\ at \in Nat
              /\ cum * wide <= at /\ at <= all * wide
              /\ t = bound => at = all * wide
      BY <1>4, <3>1, InterpolatedCount
    <3> QED
      BY <3>2 DEF le, bound, cum, all
  <2> HIDE DEF width, point
  <2>8. \A x, y \in Nat : x <= y => x * width <= y * width /\ x * width \in Nat /\ y * width \in Nat
    <3>1. width <= width
      BY <2>7
    <3> QED
      BY <2>7, <3>1, Products
  <2>9. ASSUME NEW j \in 1 .. L, t <= Bounds[j] PROVE point <= W(Bounds[j]) * width
    <3>1. W(Bounds[i]) <= W(Bounds[j])
      BY <1>5, <2>3, <2>4, <2>9
    <3>2. W(Bounds[i]) * width <= W(Bounds[j]) * width
          /\ W(Bounds[i]) * width \in Nat /\ W(Bounds[j]) * width \in Nat
      BY <1>6, <2>3, <2>8, <3>1
    <3>3. point <= W(Bounds[i]) * width
      BY <2>6, <2>7
    <3> QED
      BY <2>7, <3>2, <3>3
  <2>10. ASSUME NEW j \in 1 .. L, Bounds[j] <= t PROVE W(Bounds[j]) * width <= point
    <3>1. CASE j < i
      <4>1. W(Bounds[j]) <= low.cum
        BY <2>5, <3>1
      <4>2. W(Bounds[j]) * width <= low.cum * width
            /\ W(Bounds[j]) * width \in Nat /\ low.cum * width \in Nat
        BY <1>6, <2>5, <2>8, <4>1
      <4> QED
        BY <2>7, <4>2
    <3>2. CASE ~(j < i)
      <4>1. i <= j
        BY <1>3, <2>3, <3>2
      <4>2. Bounds[i] <= Bounds[j] /\ Bounds[j] \in Nat
        BY <1>3, <2>3, <4>1
      <4>3. t = Bounds[i] /\ Bounds[j] = Bounds[i]
        BY <1>4, <2>3, <2>10, <4>2
      <4>4. point = W(Bounds[j]) * width
        BY <2>6, <2>7, <4>3
      <4> QED
        BY <2>7, <4>4
    <3> QED
      BY <3>1, <3>2
  <2>11. t <= Bounds[L]
    BY <1>3, <1>4, <2>3
  <2>12. Claim
    BY <1>4, <2>2, <2>7, <2>9, <2>10, <2>11
  <2> QED
    BY <2>12 DEF W, L, h, c
<1> QED
    BY <1>7, <1>8

(* The percentiles and the goodput an active tracker's scrape yields are    *)
(* those of the requests since its baseline, for any latencies and any      *)
(* bounds of the buckets: a percentile lies in the bucket its request is    *)
(* in, and a goodput between the counts of the bounds about its threshold.  *)
THEOREM LatenciesMeasured == Spec => []LatenciesAreMeasured
<1>1. BaseInv => LatenciesAreMeasured
  <2> SUFFICES ASSUME BaseInv, tracker.mode = "Active",
                      engine.served > tracker.base.served
               PROVE  LatenciesAreMeasured
    BY DEF LatenciesAreMeasured
  <2> DEFINE b == tracker.base.served
             s == engine.served
             measured == b + 1 .. s
             h == SubtractBaseline(Histogram(s), Histogram(b))
             W(x) == Cardinality({n \in measured : Latency[n] <= x})
             True(q) == Min({Latency[n] : n \in {n \in measured :
                                W(Latency[n]) * q[2] >= Cardinality(measured) * q[1]}})
  <2>1. b \in Nat /\ s \in 0 .. MaxServed /\ b < s
    <3>1. b \in Nat /\ s \in 0 .. MaxServed /\ s \in Nat
      BY TrackerIs, Counters DEF BaseInv
    <3> QED
      BY <3>1
  <2>2. \A q \in Quantiles : True(q) = Quantile(b, s, q)
    BY DEF Quantile, Within
  <2>3. \A x : W(x) = Within(b, s, x)
    BY DEF Within
  <2> HIDE DEF b, s
  <2>4. ASSUME NEW q \in Quantiles, NEW i \in Buckets
        PROVE  LET p == Percentile(h, q) IN
               IF i \in Finite
                 THEN Lower(h, i).le < True(q) /\ True(q) <= Bounds[i]
                        => Lower(h, i).le * p[2] < p[1] /\ p[1] <= Bounds[i] * p[2]
                 ELSE Bounds[Len(Bounds)] < True(q) => p[1] = Bounds[Len(Bounds)] * p[2]
    <3> HIDE DEF True
    <3> QED
      BY <2>1, <2>2, PercentileIs
  <2>5. ASSUME NEW t \in 1 .. Bounds[Len(Bounds)] + 1
        PROVE  LET c     == CountLe(h, t)
                   below == {0} \cup {W(Bounds[i]) : i \in {i \in Finite : Bounds[i] <= t}}
                   above == {W(Bounds[Len(Bounds)])}
                            \cup {W(Bounds[i]) : i \in {i \in Finite : Bounds[i] >= t}}
               IN  Max(below) * c[2] <= c[1] /\ c[1] <= Min(above) * c[2]
    <3> DEFINE c     == CountLe(h, t)
               below == {0} \cup {W(Bounds[i]) : i \in {i \in Finite : Bounds[i] <= t}}
               above == {W(Bounds[Len(Bounds)])}
                        \cup {W(Bounds[i]) : i \in {i \in Finite : Bounds[i] >= t}}
    <3>1. /\ c[1] \in Nat /\ c[2] \in Nat
          /\ c[1] <= W(Bounds[Len(Bounds)]) * c[2]
          /\ \A j \in 1 .. Len(Bounds) :
                 /\ Bounds[j] <= t => W(Bounds[j]) * c[2] <= c[1]
                 /\ t <= Bounds[j] => c[1] <= W(Bounds[j]) * c[2]
      <4> HIDE DEF W
      <4> QED
        BY <2>1, <2>3, CountLeIs
    <3>2. /\ Finite = 1 .. Len(Bounds) /\ Len(Bounds) \in 1 .. Len(Bounds)
          /\ \A i \in 1 .. Len(Bounds) : Bounds[i] \in Nat
          /\ t \in Nat /\ s - b \in Nat
      BY <2>1, BoundsAre, LatenciesAre
    <3>3. \A i \in 1 .. Len(Bounds) : W(Bounds[i]) \in 0 .. s - b
      <4> HIDE DEF W
      <4>1. \A i \in 1 .. Len(Bounds) : W(Bounds[i]) \in Nat /\ W(Bounds[i]) <= s - b
        BY <2>1, <2>3, <3>2, WithinIs
      <4> QED
        BY <3>2, <4>1
    <3> HIDE DEF W, c, h
    <3>4. below \in SUBSET (0 .. s - b) /\ below # {}
      BY <3>2, <3>3
    <3>5. above \in SUBSET Nat /\ above # {}
      BY <3>2, <3>3
    <3>6. \A x \in below : x * c[2] <= c[1]
      <4>1. 0 * c[2] <= c[1]
        BY <3>1
      <4> QED
        BY <3>1, <3>2, <4>1
    <3>7. \A x \in above : c[1] <= x * c[2]
      BY <3>1, <3>2
    <3> HIDE DEF below, above
    <3>8. Max(below) \in below /\ Min(above) \in above
      BY <3>2, <3>4, <3>5, MaxIsIn, MinIsIn
    <3>9. Max(below) * c[2] <= c[1] /\ c[1] <= Min(above) * c[2]
      BY <3>6, <3>7, <3>8
    <3> QED
      BY <3>9 DEF below, above, c
  <2> QED
    BY <2>4, <2>5 DEF LatenciesAreMeasured, b, s
<1> QED
    BY <1>1, BaseInvariance, PTL
=============================================================================
