--------------------------- MODULE EngineAdapters ---------------------------
(***************************************************************************)
(* What one engine adapter learns of the server behind its endpoint, and   *)
(* what a poll tick reports of it: EngineState::poll (src/src/engines/     *)
(* mod.rs) over the adapters of vLLM, SGLang, llama.cpp and Ollama and the *)
(* model resolver the first two share.                                      *)
(*                                                                         *)
(* A tick asks one route after another, and the server may change between  *)
(* any two: stop, be replaced by one launched otherwise, take a request,   *)
(* fall asleep.  A request can get no answer in time.  The adapter outlives *)
(* its server, so everything it remembers may be of one that is gone.       *)
(* Figures are EngineRates' subject, the engine's life that of              *)
(* EngineLifecycle.                                                         *)
(***************************************************************************)
EXTENDS Integers, FiniteSets

CONSTANTS
    Launches,   \* the servers that may come to be behind the endpoint
    Hints,      \* what the launch command line may have said of the model
    Models,     \* what Ollama may load
    MaxStarts,  \* how often a server is started
    MaxLost     \* how many requests get no answer

CONSTANT None

(* The name of a model, as a repository (org/name), a bare name, a path, or *)
(* a path into the hub's cache.                                             *)
Shapes == {"repo", "bare", "path", "cache"}

ASSUME LaunchesAssumption ==
    /\ \A l \in Launches :
          /\ l.type \in {"Vllm", "Sglang", "LlamaCpp", "Ollama"}
          /\ l.role \in {"SingleModel", "Router"}
          /\ \A f \in {"metrics", "gated", "slots", "drafter", "old", "sleeps"} : l[f] \in BOOLEAN
          /\ l.sleeps => l.type = "LlamaCpp" /\ l.role = "SingleModel"
          /\ l.id.as \in Shapes
    /\ \A h \in Hints : h # None => h.as \in Shapes
    /\ MaxStarts \in Nat \ {0} /\ MaxLost \in Nat

ASSUME NoneAssumption == None \notin {"AuthRequired", "Unavailable"}

VARIABLES
    server,     \* the launch behind the endpoint, and what it is doing
    starts,     \* how often a server was started
    seen,       \* the launches that ran since the engine was last on record as stopped
    lost,       \* requests that got no answer
    adapter,    \* what the adapter remembers
    engine,     \* what EngineState remembers: failures, model, error
    waiting,    \* the clocks that hold a request back
    pc,         \* the request of the tick under way
    status,     \* what this tick's health check made of the engine
    name,       \* the model name taken to the hub, with the error beside it
    shown       \* the last snapshot

vars == <<server, starts, seen, lost, adapter, engine, waiting, pc, status, name, shown>>

Type == server.launch.type

-----------------------------------------------------------------------------
(* The server.                                                              *)

Clocks == {"model", "hub", "drafter"}
Running(launch) ==
    [launch |-> launch, phase |-> IF launch.type = "LlamaCpp" THEN "loading" ELSE "ready",
     busy |-> FALSE, idle |-> FALSE, asleep |-> FALSE, loaded |-> {},
     series |-> launch.type # "Sglang"]

Elsewhere == UNCHANGED <<lost, adapter, engine, waiting, pc, status, name, shown>>

ServerStops ==
    /\ server.phase # "down"
    /\ server' = [Running(server.launch) EXCEPT !.phase = "down"]
    /\ UNCHANGED <<starts, seen>> /\ Elsewhere

ServerStarts ==
    /\ server.phase = "down" /\ starts < MaxStarts
    /\ \E l \in Launches :
          l.type = Type /\ server' = Running(l) /\ seen' = seen \cup {l}
    /\ starts' = starts + 1
    /\ Elsewhere

ModelIsLoaded ==
    /\ server.phase = "loading"
    /\ server' = [server EXCEPT !.phase = "ready"]
    /\ UNCHANGED <<starts, seen>> /\ Elsewhere

(* A llama-server launched to do so sleeps when it was left alone for long *)
(* enough; a request, and only a request, wakes it.  The requests of a      *)
(* server that does not sleep are left out: they change no answer here.     *)
MaySleep == server.phase = "ready" /\ server.launch.sleeps

RequestComesOrGoes ==
    /\ MaySleep
    /\ server' = [server EXCEPT !.busy = ~@, !.idle = FALSE, !.asleep = FALSE]
    /\ UNCHANGED <<starts, seen>> /\ Elsewhere

Idles ==
    /\ MaySleep /\ ~server.busy /\ ~server.asleep
    /\ server' = [server EXCEPT !.idle = ~@, !.asleep = server.idle]
    /\ UNCHANGED <<starts, seen>> /\ Elsewhere

OllamaLoads ==
    /\ server.phase = "ready" /\ Type = "Ollama"
    /\ \E ms \in SUBSET Models : ms # server.loaded /\ server' = [server EXCEPT !.loaded = ms]
    /\ UNCHANGED <<starts, seen>> /\ Elsewhere

(* SGLang's /metrics holds no series of its own before it logged the first: *)
(* a server nobody asks anything may never have one.                        *)
LogsSeries ==
    /\ server.phase = "ready" /\ ~server.series
    /\ server' = [server EXCEPT !.series = TRUE]
    /\ UNCHANGED <<starts, seen>> /\ Elsewhere

Environment == ServerStops \/ ServerStarts \/ ModelIsLoaded \/ RequestComesOrGoes \/ Idles
               \/ OllamaLoads \/ LogsSeries

(* What each route is answered with.  llama-server looks for a loading     *)
(* model first, then for the key, which only /health does without; SGLang  *)
(* gates neither its probes nor /metrics; a release may lack /ready.        *)
NeedsModel(launch) == launch.role = "Router" /\ ~launch.old

Status(route) ==
    LET l == server.launch
        open == route \in {"/health", "/ready", "/model_info"}
    IN  IF server.phase = "down" THEN 0
        ELSE IF server.phase = "loading" THEN 503
        ELSE IF l.gated /\ ~open /\ (route = "/metrics" => Type = "LlamaCpp") THEN 401
        ELSE CASE route = "/ready" /\ l.old                                 -> 404
               [] route = "/metrics" /\ Type = "Sglang" /\ ~l.metrics       -> 404
               [] route = "/metrics" /\ Type = "LlamaCpp" /\ NeedsModel(l)  -> 400
               [] route = "/metrics" /\ Type = "LlamaCpp" /\ ~NeedsModel(l)
                    /\ (~l.metrics \/ l.role = "Router")                    -> 501
               [] route = "/slots" /\ ~l.slots                              -> 501
               [] OTHER                                                     -> 200

Codes == {0, 200, 400, 401, 404, 501, 503}

(* A request is answered, or gets no answer: 0.                             *)
Asked(route, code) ==
    /\ UNCHANGED starts
    /\ \/ code = Status(route) /\ UNCHANGED lost
       \/ code = 0 /\ Status(route) # 0 /\ lost < MaxLost /\ lost' = lost + 1

Elapses(clock) ==
    /\ clock \in waiting
    /\ waiting' = waiting \ {clock}
    /\ UNCHANGED <<server, starts, seen, lost, adapter, engine, pc, status, name, shown>>

-----------------------------------------------------------------------------
(* The tick.                                                                *)

(* new of each adapter.                                                     *)
NewAdapter(hint) ==
    [hint |-> hint,
     access |-> "Open",     \* MetricsAccess; SGLang's metrics_off is Open or Off
     role |-> None, slots |-> None, drafter |-> None,
     loaded |-> {},         \* what Ollama last listed
     hub |-> None]          \* the name hf_model_cache is of

Snapshot(stat, a, e) ==
    [status  |-> stat, model |-> e.model, error |-> e.error,
     groups  |-> Type # "Ollama" /\ a.role # "Router",
     off     |-> stat = "Running" /\ a.access = "Off",
     refused |-> stat = "Running" /\ a.access = "Refused",
     loaded  |-> a.loaded, drafter |-> a.drafter]

(* Nothing is awaited between a tick's last answer and its snapshot.        *)
Publish(a, e) ==
    /\ adapter' = a /\ engine' = e
    /\ shown' = Snapshot(status, a, e)
    /\ pc' = "rest"

ModelRoute   == IF Type = "LlamaCpp" THEN "/props" ELSE "/v1/models"
MetricsRoute == IF Type = "Ollama" THEN "/api/ps" ELSE "/metrics"
ModelIsDue(clocks) == Type # "Ollama" /\ "model" \notin clocks

HealthRoute ==
    CASE Type = "Ollama" -> "/api/version"
      [] Type = "Sglang" -> "/ready"
      [] OTHER           -> "/health"
HealthStatus(code) ==
    CASE code = 200                      -> "Running"
      [] code = 503 /\ Type = "LlamaCpp" -> "Loading"
      [] OTHER                           -> "Error"

(* A bug: the engine's status is what the probe said.                       *)
StatusAsProbed(code, failures) == HealthStatus(code)

StatusAfter(code, failures) ==
    IF HealthStatus(code) # "Error" THEN HealthStatus(code)
    ELSE IF failures = 3 THEN "Stopped" ELSE "Running"

(* record_probe_result, and what the tick asks next.  A failed check leaves *)
(* the engine's status, so a model that is due is asked for all the same.   *)
RecordProbe(code) ==
    LET ok       == HealthStatus(code) # "Error"
        failures == IF ok THEN 0 ELSE IF engine.failures < 3 THEN engine.failures + 1 ELSE 3
        stops    == failures = 3 /\ engine.failures < 3
        e == IF stops THEN [failures |-> 3, model |-> None, error |-> None]
                      ELSE [engine EXCEPT !.failures = failures]
    IN  /\ engine' = e
        /\ status' = StatusAfter(code, failures)
        /\ waiting' = IF stops THEN waiting \ {"model"} ELSE waiting
        /\ seen' = IF ~stops THEN seen ELSE IF server.phase = "down" THEN {} ELSE {server.launch}
        /\ \/ status' = "Running" /\ ModelIsDue(waiting') /\ pc' = ModelRoute /\ UNCHANGED shown
           \/ ~(status' = "Running" /\ ModelIsDue(waiting')) /\ ok /\ pc' = MetricsRoute /\ UNCHANGED shown
           \/ ~(status' = "Running" /\ ModelIsDue(waiting')) /\ ~ok /\ pc' = "rest"
                /\ shown' = Snapshot(status', adapter, e)

(* health_or: a release without /ready is asked for /model_info instead, in *)
(* a second request.                                                        *)
Predates(code) == Type = "Sglang" /\ code = 404

CheckHealth ==
    /\ pc = "rest"
    /\ \E code \in Codes :
        /\ Asked(HealthRoute, code)
        /\ \/ ~Predates(code) /\ RecordProbe(code)
           \/ /\ Predates(code) /\ pc' = "/model_info"
              /\ UNCHANGED <<engine, status, waiting, seen, shown>>
    /\ UNCHANGED <<server, adapter, name>>

AskModelInfo ==
    /\ pc = "/model_info"
    /\ \E code \in Codes : Asked("/model_info", code) /\ RecordProbe(code)
    /\ UNCHANGED <<server, adapter, name>>

(* cache_model: an answer without a model keeps the last one, and leaves   *)
(* it as old as it was, so it may be due again at once.  Then the metrics,  *)
(* unless the health check failed.                                          *)
CacheModel(a, model, error, clocks) ==
    LET e == [engine EXCEPT !.error = error, !.model = IF model = None THEN @ ELSE model]
    IN  /\ \E due \in BOOLEAN :
              /\ due => model = None /\ error = None /\ engine.model # None
              /\ waiting' = IF due THEN clocks ELSE clocks \cup {"model"}
        /\ IF engine.failures > 0
             THEN Publish(a, e)
             ELSE engine' = e /\ adapter' = a /\ pc' = MetricsRoute /\ UNCHANGED shown

ErrorOf(code) == IF code = 401 THEN "AuthRequired" ELSE "Unavailable"

-----------------------------------------------------------------------------
(* The model of a llama-server.                                             *)

Named(nm, rich) == IF nm = None THEN None ELSE [name |-> nm, rich |-> rich]

(* What /props says, of a router without endpoint_slots.                    *)
ServerFacts(a) ==
    LET l == server.launch
    IN  [a EXCEPT !.role = l.role, !.slots = l.role = "SingleModel" /\ l.slots]

AskProps ==
    /\ pc = "/props"
    /\ \E code \in Codes :
        /\ Asked("/props", code)
        /\ LET a == IF code = 200 THEN ServerFacts(adapter) ELSE adapter
           IN  \/ code = 401 /\ CacheModel(a, Named(a.hint, FALSE), "AuthRequired", waiting)
               \/ code # 401 /\ a.role = "Router" /\ CacheModel(a, None, None, waiting)
               \/ /\ code # 401 /\ a.role # "Router"
                  /\ adapter' = a /\ pc' = "/models" /\ UNCHANGED <<engine, waiting, shown>>
    /\ UNCHANGED <<server, seen, status, name>>

AskModels ==
    /\ pc = "/models"
    /\ \E code \in Codes :
        /\ Asked("/models", code)
        /\ LET l == server.launch
               a == IF code # 200 THEN adapter ELSE [adapter EXCEPT !.role = l.role]
           IN  \/ code = 200 /\ l.role = "Router" /\ CacheModel(a, None, None, waiting)
               \/ code = 200 /\ l.role # "Router" /\ CacheModel(a, Named(l.id, FALSE), None, waiting)
               \/ code # 200 /\ CacheModel(a, Named(a.hint, FALSE), ErrorOf(code), waiting)
    /\ UNCHANGED <<server, seen, status, name>>

-----------------------------------------------------------------------------
(* The model of vLLM and SGLang, and what the hub knows of it.              *)

(* resolve_model_name: the server's id counts if it names a provider, or    *)
(* the command line says nothing.                                           *)
ResolveModelName(code, hint) ==
    IF code = 200 /\ (server.launch.id.as # "bare" \/ hint = None) THEN server.launch.id ELSE hint

(* normalize_model_id: a path into the hub's cache holds the repository.    *)
NormalizeModelId(id) == IF id.as = "cache" THEN [id EXCEPT !.as = "repo"] ELSE id

(* A bug: the hub's answer is kept for the adapter's life, whatever the id. *)
AskV1ModelsCached ==
    /\ pc = "/v1/models"
    /\ \E code \in Codes :
        /\ Asked("/v1/models", code)
        /\ LET resolved == ResolveModelName(code, adapter.hint)
               nm    == IF resolved = None THEN None ELSE NormalizeModelId(resolved)
               error == IF code = 200 THEN None ELSE ErrorOf(code)
           IN  IF adapter.hub # None
                 THEN CacheModel(adapter, Named(adapter.hub, TRUE), error, waiting) /\ UNCHANGED name
                 ELSE IF nm = None \/ "hub" \in waiting \/ nm.as # "repo"
                 THEN CacheModel(adapter, Named(nm, FALSE), error, waiting) /\ UNCHANGED name
                 ELSE name' = [name |-> nm, error |-> error] /\ pc' = "hub"
                      /\ UNCHANGED <<engine, adapter, waiting, shown>>
    /\ UNCHANGED <<server, seen, status>>

(* The hub knows repositories; it is asked for a name once, and after a    *)
(* failure not before its cooldown is over.                                 *)
AskV1Models ==
    /\ pc = "/v1/models"
    /\ \E code \in Codes :
        /\ Asked("/v1/models", code)
        /\ LET resolved == ResolveModelName(code, adapter.hint)
               nm    == IF resolved = None THEN None ELSE NormalizeModelId(resolved)
               error == IF code = 200 THEN None ELSE ErrorOf(code)
               known == adapter.hub = nm
               plain == nm = None \/ "hub" \in waiting \/ nm.as # "repo"
           IN  IF known \/ plain
                 THEN CacheModel(adapter, Named(nm, known), error, waiting) /\ UNCHANGED name
                 ELSE name' = [name |-> nm, error |-> error] /\ pc' = "hub"
                      /\ UNCHANGED <<engine, adapter, waiting, shown>>
    /\ UNCHANGED <<server, seen, status>>

AskHub ==
    /\ pc = "hub"
    /\ \/ CacheModel([adapter EXCEPT !.hub = name.name], Named(name.name, TRUE), name.error, waiting)
          /\ UNCHANGED lost
       \/ CacheModel(adapter, Named(name.name, FALSE), name.error, waiting \cup {"hub"})
          /\ lost < MaxLost /\ lost' = lost + 1
    /\ name' = None
    /\ UNCHANGED <<server, starts, seen, status>>

-----------------------------------------------------------------------------
(* The metrics.                                                             *)

(* metrics_answer: 501 says the flag is missing, 401 the key, 400 which    *)
(* model; anything else says nothing.                                       *)
MetricsAnswer(code) ==
    CASE code = 200 -> "On" [] code = 501 -> "Off" [] code = 401 -> "Refused"
      [] code = 400 -> "NeedsModel" [] OTHER -> "Transient"

(* A bug: a latch nothing opens again.                                      *)
LatchedForGood(answer, a) ==
    CASE a.access # "Open"              -> a.access
      [] answer \in {"Off", "Refused"}  -> answer
      [] OTHER                          -> "Open"

(* A router is not off, whatever it answers.                                *)
Latched(answer, a) ==
    LET now == CASE answer \in {"On", "NeedsModel"}  -> "Open"
                 [] answer \in {"Off", "Refused"}    -> answer
                 [] OTHER                            -> a.access
    IN  IF now = "Off" /\ a.role = "Router" THEN "Open" ELSE now

(* latch: the answer also tells the role.                                   *)
Latch(answer, a) ==
    [a EXCEPT !.access = Latched(answer, a),
              !.role = CASE answer = "On"         -> "SingleModel"
                         [] answer = "NeedsModel" -> "Router"
                         [] OTHER                 -> a.role]

(* metrics_off_signal: without the flag SGLang does not mount the route.    *)
MetricsOffSignal(code, a) ==
    [a EXCEPT !.access = CASE code = 200 -> "Open" [] code = 404 -> "Off" [] OTHER -> a.access]

(* A bug: /slots is asked whenever the route is served.                            *)
ShouldReadSlotsAlways(a, code) ==
    Type = "LlamaCpp" /\ code = 200 /\ a.slots = TRUE

(* should_read_slots: only when the scrape shows a request in flight, so   *)
(* that the ask cannot keep an idle server awake.                           *)
ShouldReadSlots(a, code) ==
    Type = "LlamaCpp" /\ code = 200 /\ server.busy /\ a.slots = TRUE

(* get_metrics returns where has_sglang_series finds nothing, before it     *)
(* comes to drafter_configured.                                             *)
ShouldAskDrafter(a, code) ==
    Type = "Sglang" /\ code = 200 /\ server.series /\ a.drafter = None /\ "drafter" \notin waiting

AskMetrics ==
    /\ pc = "/metrics"
    /\ \E code \in Codes :
        /\ Asked("/metrics", code)
        /\ LET a == CASE code = 0 \/ Type = "Vllm" -> adapter
                      [] Type = "Sglang"          -> MetricsOffSignal(code, adapter)
                      [] OTHER                    -> Latch(MetricsAnswer(code), adapter)
           IN  \/ /\ ShouldReadSlots(a, code) \/ ShouldAskDrafter(a, code)
                  /\ pc' = IF Type = "Sglang" THEN "/server_info" ELSE "/slots"
                  /\ adapter' = a /\ UNCHANGED <<engine, shown>>
               \/ /\ ~(ShouldReadSlots(a, code) \/ ShouldAskDrafter(a, code))
                  /\ Publish(a, engine)
    /\ UNCHANGED <<server, seen, waiting, status, name>>

(* /slots is a request like any other to the server: it is not idle.        *)
AskSlots ==
    /\ pc = "/slots"
    /\ \E code \in Codes :
        /\ Asked("/slots", code)
        /\ server' = IF MaySleep /\ Status("/slots") = 200
                       THEN [server EXCEPT !.idle = FALSE, !.asleep = FALSE] ELSE server
        /\ Publish([adapter EXCEPT !.drafter = IF code = 200 THEN server.launch.drafter ELSE @], engine)
    /\ UNCHANGED <<seen, waiting, status, name>>

(* drafter_configured: asked until it answers, once a minute.               *)
AskServerInfo ==
    /\ pc = "/server_info"
    /\ \E code \in Codes :
        /\ Asked("/server_info", code)
        /\ Publish([adapter EXCEPT !.drafter = IF code = 200 THEN server.launch.drafter ELSE @], engine)
    /\ waiting' = waiting \cup {"drafter"}
    /\ UNCHANGED <<server, seen, status, name>>

(* refresh_loaded_models: without an answer the last list stands.           *)
AskPs ==
    /\ pc = "/api/ps"
    /\ \E code \in Codes :
        /\ Asked("/api/ps", code)
        /\ Publish([adapter EXCEPT !.loaded = IF code = 200 THEN server.loaded ELSE @], engine)
    /\ UNCHANGED <<server, seen, waiting, status, name>>

Tick == CheckHealth \/ AskModelInfo \/ AskProps \/ AskModels \/ AskV1Models \/ AskHub
        \/ AskMetrics \/ AskSlots \/ AskServerInfo \/ AskPs

-----------------------------------------------------------------------------
Init ==
    /\ \E l \in Launches, h \in Hints :
          server = Running(l) /\ seen = {l} /\ adapter = NewAdapter(h)
    /\ starts = 1 /\ lost = 0 /\ waiting = {} /\ pc = "rest" /\ status = "Running" /\ name = None
    /\ engine = [failures |-> 0, model |-> None, error |-> None]
    /\ shown = None

Next == Environment \/ Tick \/ (\E clock \in Clocks : Elapses(clock))

Spec == Init /\ [][Next]_vars /\ WF_vars(Tick) /\ WF_vars(ModelIsLoaded) /\ WF_vars(Idles)
             /\ \A clock \in Clocks : WF_vars(Elapses(clock))

-----------------------------------------------------------------------------
(* Properties.                                                              *)


TypeOK ==
    /\ server.launch \in Launches /\ server.phase \in {"down", "loading", "ready"}
    /\ server.loaded \in SUBSET Models
    /\ starts \in 1 .. MaxStarts /\ seen \subseteq Launches /\ lost \in 0 .. MaxLost
    /\ adapter.access \in {"Open", "Off", "Refused"}
    /\ adapter.role \in {None, "SingleModel", "Router"}
    /\ adapter.loaded \in SUBSET Models
    /\ engine.failures \in 0 .. 3 /\ engine.error \in {None, "AuthRequired", "Unavailable"}
    /\ waiting \subseteq Clocks
    /\ status \in {"Running", "Loading", "Stopped"}

(* The model on show, and a refusal of the key beside it, are of a server  *)
(* that ran since the engine was last recorded as stopped: nothing the      *)
(* adapter kept of an earlier one (the hub's answer, its role) brings its   *)
(* name back.                                                               *)
NamesOf(l) == {IF l.type = "LlamaCpp" THEN l.id ELSE NormalizeModelId(l.id)} \cup
              (IF adapter.hint = None THEN {} ELSE {adapter.hint, NormalizeModelId(adapter.hint)})
ModelIsOfThisServer ==
    shown # None =>
        /\ shown.model # None => \E l \in seen : shown.model.name \in NamesOf(l)
        /\ shown.error = "AuthRequired" => \E l \in seen : l.gated

(* What a snapshot says of a server that stays as it is.                    *)
ShownModel(l, hint) ==
    LET id == IF l.gated \/ (Type # "LlamaCpp" /\ l.id.as = "bare" /\ hint # None) THEN hint ELSE l.id
        nm == IF Type = "LlamaCpp" THEN id ELSE NormalizeModelId(id)
    IN  Named(nm, Type # "LlamaCpp" /\ nm.as = "repo")
Truthful ==
    LET l == server.launch IN
    CASE server.phase = "down" -> shown.status = "Stopped" /\ shown.model = None /\ shown.error = None
      [] server.phase = "loading" -> TRUE
      [] OTHER ->
          /\ shown.status = "Running"
          /\ shown.off = (/\ Type \in {"Sglang", "LlamaCpp"} /\ ~l.metrics
                          /\ l.role # "Router" /\ ~(Type = "LlamaCpp" /\ l.gated))
          /\ shown.refused = (Type = "LlamaCpp" /\ l.gated)
          /\ shown.error = IF Type # "Ollama" /\ l.gated THEN "AuthRequired" ELSE None
          /\ Type = "Ollama" \/ l.role = "Router" \/ (l.gated /\ adapter.hint = None)
                \/ shown.model = ShownModel(l, adapter.hint)
          /\ (Type = "LlamaCpp" /\ l.gated) \/ shown.groups = (Type # "Ollama" /\ l.role # "Router")
          /\ shown.loaded = server.loaded
          /\ Type = "Sglang" /\ l.metrics /\ starts = 1 => 
                shown.drafter = IF l.gated \/ ~server.series THEN None ELSE l.drafter

(* Once the server behind the endpoint is left as it is, the dashboard comes *)
(* to report it as it is, and goes on doing so: status, model, the reason   *)
(* there is no better name, metrics off or refused, the groups it has and   *)
(* what it has loaded, whatever was remembered of the servers before it.    *)
ReportCatchesUp ==
    \A ms \in SUBSET Models :
        <>[](server.loaded = ms) => <>[](shown # None /\ Truthful)

(* The dashboard does not keep an idle llama-server awake: without requests *)
(* it falls asleep and stays so.                                            *)
IdleServerSleeps ==
    <>[](MaySleep /\ ~server.busy) => <>[](server.asleep)

=============================================================================
