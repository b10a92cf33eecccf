--------------------------- MODULE EngineLifecycle ---------------------------
(***************************************************************************)
(* The life of an engine in the backend: how the collector loop            *)
(* (engine_collector_loop, src/src/engines/mod.rs) finds inference servers, *)
(* probes them, decides which are running, stopped or gone, caches the     *)
(* model each one serves, and publishes one snapshot per engine.           *)
(*                                                                         *)
(* The loop is a single task.  Everything it awaits (a detection pass, a   *)
(* health probe, a /v1/models request, a metrics scrape) is a point where  *)
(* the servers may change and time may pass, so each await ends a step.    *)
(*                                                                         *)
(* Time is kept as ages: for every Instant the code stores, the seconds    *)
(* since it was taken, saturating once no comparison can tell it from an   *)
(* older one.  Tick is the only action that advances them, and it may      *)
(* happen between any two steps, so a probe may take arbitrarily long and  *)
(* a missed interval may be made up by back-to-back passes.                *)
(***************************************************************************)
EXTENDS Integers, FiniteSets

CONSTANTS
    Engines,        \* the (engine type, endpoint) keys the map may hold
    Overrides,      \* those seeded at startup by --engine / --engine-url
    Detectable,     \* those the process or Docker scan can find
    Hinted,         \* those whose launch command names a model
    Dockerised,     \* those served from a container
    MaxIncarnation, \* how many servers may come up on one endpoint, in turn
    GracePeriod,    \* should_remove: 30 s
    RetryCooldown,  \* MODEL_UNRESOLVED_RETRY: 30 s
    RefreshInterval,\* MODEL_REFRESH_INTERVAL: 600 s
    MetaAnswers     \* what a running server may answer to /v1/models

ASSUME EnginesAssumption ==
    /\ Overrides \subseteq Engines
    /\ Detectable \subseteq Engines
    /\ Hinted \subseteq Engines
    /\ Dockerised \subseteq Engines

ASSUME BoundsAssumption ==
    /\ MaxIncarnation \in Nat \ {0}
    /\ GracePeriod \in Nat
    /\ RetryCooldown \in Nat \ {0}
    /\ RefreshInterval \in Nat
    /\ RetryCooldown <= RefreshInterval
    /\ MetaAnswers \subseteq {"name", "error", "empty"}

(* record_probe_result stops an engine at this many consecutive failures.  *)
FailureLimit == 3

Never   == -1       \* an Option<Instant> that is None
NoModel == -1       \* no cached model
Hint    == 0        \* the name the launch command gives, not the server

Incarnations == 1 .. MaxIncarnation
Models       == Incarnations \cup {Hint, NoModel}
NoContainer  == 0
Containers   == 0 .. MaxIncarnation

(* Ages saturate where an older Instant compares no differently: should_remove *)
(* asks for more than the grace period, should_fetch_model for no less than *)
(* the interval.                                                            *)
SilenceCap == GracePeriod + 1

Older(age, cap) == IF age = Never \/ age = cap THEN age ELSE age + 1

-----------------------------------------------------------------------------

(* heard is the one field the code does not keep: what the last model       *)
(* request was answered with, recorded for the properties alone.            *)

VARIABLES
    world,      \* per endpoint, the server that is (or was) there
    tracked,    \* the keys of engine_map
    state,      \* their EngineState (Blank where there is none)
    found,      \* what the last detection pass verified
    pc,         \* where the loop awaits
    todo,       \* keys this poll tick has not reached yet
    cur,        \* the engine being polled
    answer,     \* what its health check returned
    snapshots,  \* the Vec this poll tick is filling
    shared      \* shared_snapshots: what the last poll tick published

loop == <<pc, todo, cur, answer, snapshots>>
vars == <<world, tracked, state, found, loop, shared>>

Health == {"Running", "Loading", "Error"}

World == [health      : Health,
          meta        : {"name", "error", "empty"},
          incarnation : Incarnations,
          container   : Containers]

EngineState == [failures  : 0 .. FailureLimit,
                last_seen : 0 .. SilenceCap,
                status    : {"Running", "Stopped"},
                stopped   : Never .. SilenceCap,
                model     : Models,
                error     : BOOLEAN,
                fetched   : Never .. RefreshInterval,
                attempted : Never .. RetryCooldown,
                heard     : {"nothing", "name", "error", "empty"},
                pids      : SUBSET Incarnations,
                container : Containers,
                hinted    : BOOLEAN]

Snapshot == [status    : {"Running", "Loading", "Stopped", "absent"},
             model     : Models,
             error     : BOOLEAN,
             metrics   : {0} \cup Incarnations,
             pids      : SUBSET Incarnations,
             container : Containers]

NoSnapshot == [status |-> "absent", model |-> NoModel, error |-> FALSE,
               metrics |-> 0, pids |-> {}, container |-> NoContainer]

(* A detection result: the processes the scans attributed to the server and *)
(* the container Docker named, if it named one.                             *)
Detected == [pids : SUBSET Incarnations, container : Containers, seen : BOOLEAN]
NotFound == [pids |-> {}, container |-> NoContainer, seen |-> FALSE]

TypeOK ==
    /\ world \in [Engines -> World]
    /\ tracked \subseteq Engines
    /\ state \in [Engines -> EngineState]
    /\ found \in [Engines -> Detected]
    /\ pc \in {"idle", "detect", "probe", "fetch", "scrape"}
    /\ todo \subseteq Engines
    /\ cur \in Engines
    /\ answer \in Health
    /\ snapshots \in [Engines -> Snapshot]
    /\ shared \in [Engines -> Snapshot]

-----------------------------------------------------------------------------
(* EngineState: the operations of src/src/engines/mod.rs.                   *)

(* EngineState::new.  An engine starts out Running before any probe.        *)
NewEngine(container, hinted) ==
    [failures |-> 0, last_seen |-> 0, status |-> "Running", stopped |-> Never,
     model |-> NoModel, error |-> FALSE, fetched |-> Never,
     attempted |-> Never, heard |-> "nothing", pids |-> {},
     container |-> container, hinted |-> hinted]

Blank == NewEngine(NoContainer, FALSE)

InvalidateModelCache(s) ==
    [s EXCEPT !.model = NoModel, !.error = FALSE,
              !.fetched = Never, !.attempted = Never, !.heard = "nothing"]

(* Variants such as the next three are not part of the specification: each *)
(* is a plausible slip in the operator that follows, kept to show that a   *)
(* property would notice it.                                                *)

(* Stops on the fourth failure, not the third.                              *)
ProbeFailedPastLimit(s) ==
    IF s.failures < FailureLimit
    THEN [s EXCEPT !.failures = s.failures + 1]
    ELSE [InvalidateModelCache(s) EXCEPT
             !.failures = FailureLimit + 1, !.status = "Stopped",
             !.stopped = IF @ = Never THEN 0 ELSE @]

(* Every failure past the limit restarts the grace period.                  *)
ProbeFailedRestartingGrace(s) ==
    IF s.failures + 1 < FailureLimit
    THEN [s EXCEPT !.failures = s.failures + 1]
    ELSE [InvalidateModelCache(s) EXCEPT
             !.failures = FailureLimit, !.stopped = 0, !.status = "Stopped"]

(* Stopping leaves the model of the server that went away in place.         *)
ProbeFailedKeepingModel(s) ==
    LET failures == IF s.failures = FailureLimit THEN FailureLimit
                                                 ELSE s.failures + 1
    IN  IF failures < FailureLimit THEN [s EXCEPT !.failures = failures]
        ELSE [s EXCEPT !.failures = failures, !.status = "Stopped",
                       !.stopped = IF @ = Never THEN 0 ELSE @]

(* The failures are counted, saturating at the limit they are compared to. *)
ProbeFailed(s) ==
    LET failures == IF s.failures = FailureLimit THEN FailureLimit
                                                 ELSE s.failures + 1
    IN  IF failures < FailureLimit
        THEN [s EXCEPT !.failures = failures]
        ELSE IF s.stopped = Never
        THEN [InvalidateModelCache(s) EXCEPT
                 !.failures = failures, !.stopped = 0, !.status = "Stopped"]
        ELSE [s EXCEPT !.failures = failures, !.status = "Stopped"]

ProbeSucceeded(s) ==
    [s EXCEPT !.failures = 0, !.last_seen = 0,
              !.status = "Running", !.stopped = Never]

(* The cooldown is not consulted once a fetch came back with an error.      *)
ShouldFetchWithoutCooldown(s) ==
    \/ s.error
    \/ s.model # NoModel /\ (s.fetched = Never \/ s.fetched >= RefreshInterval)
    \/ s.model = NoModel /\ (s.attempted = Never \/ s.attempted >= RetryCooldown)

ShouldFetchModel(s) ==
    IF s.error \/ s.model = NoModel
    THEN s.attempted = Never \/ s.attempted >= RetryCooldown
    ELSE s.fetched = Never \/ s.fetched >= RefreshInterval

(* A clean answer leaves the error of an earlier one standing.              *)
CacheModelStickyError(s, resolution) ==
    IF resolution.model = NoModel
    THEN [s EXCEPT !.attempted = 0, !.error = @ \/ resolution.error]
    ELSE [s EXCEPT !.attempted = 0, !.error = @ \/ resolution.error,
                   !.model = resolution.model, !.fetched = 0]

CacheModel(s, resolution) ==
    IF resolution.model = NoModel
    THEN [s EXCEPT !.attempted = 0, !.error = resolution.error]
    ELSE [s EXCEPT !.attempted = 0, !.error = resolution.error,
                   !.model = resolution.model, !.fetched = 0]

(* The grace period ends a moment early.                                    *)
ShouldRemoveEarly(s) ==
    s.stopped # Never /\ s.status = "Stopped" /\ s.stopped >= GracePeriod

ShouldRemove(s) ==
    s.stopped # Never /\ s.status = "Stopped" /\ s.stopped > GracePeriod

(* adopt_container without its early return: every pass re-points.          *)
RepointContainer(s, container) ==
    IF container # NoContainer THEN [s EXCEPT !.container = container] ELSE s

AdoptContainer(s, container) ==
    IF s.container = NoContainer THEN [s EXCEPT !.container = container] ELSE s

-----------------------------------------------------------------------------
(* The servers.  Which one is on an endpoint, and whether it answers, is    *)
(* not the dashboard's to decide.                                           *)

Answers(e) == world[e].health # "Error"

Change(e, to) ==
    /\ world' = [world EXCEPT ![e] = to]
    /\ UNCHANGED <<tracked, state, found, loop, shared>>

(* The server dies, or stops answering for a while.                         *)
GoesQuiet(e) ==
    /\ Answers(e)
    /\ Change(e, [world[e] EXCEPT !.health = "Error"])

(* The server that was there answers again.                                 *)
Resumes(e) ==
    /\ ~Answers(e)
    /\ Change(e, [world[e] EXCEPT !.health = "Running"])

(* Another server is started there, in the same container or a new one.     *)
Restarts(e) ==
    /\ ~Answers(e)
    /\ world[e].incarnation < MaxIncarnation
    /\ LET next == world[e].incarnation + 1
       IN  \E c \in {world[e].container} \cup
                    (IF e \in Dockerised THEN {next} ELSE {}) :
             Change(e, [world[e] EXCEPT !.health = "Loading",
                                        !.incarnation = next,
                                        !.container = c])

FinishesLoading(e) ==
    /\ world[e].health = "Loading"
    /\ Change(e, [world[e] EXCEPT !.health = "Running"])

(* A key is configured or refused, a server becomes a router.               *)
MetaChanges(e) ==
    \E m \in MetaAnswers \ {world[e].meta} :
        Change(e, [world[e] EXCEPT !.meta = m])

-----------------------------------------------------------------------------
(* Detection: a pass scans and verifies (detect_engines), and only then is  *)
(* its result applied to the map.                                           *)

DetectScan ==
    /\ pc = "idle"
    /\ pc' = "detect"
    /\ \E named \in SUBSET Engines, listed \in SUBSET Engines :
         found' = [e \in Engines |->
            IF e \in Detectable /\ Answers(e)
            THEN [seen |-> TRUE,
                  pids |-> IF e \in listed
                           THEN {world[e].incarnation} ELSE {},
                  container |-> IF e \in named
                                THEN world[e].container ELSE NoContainer]
            ELSE NotFound]
    /\ UNCHANGED <<world, tracked, state, todo, cur, answer, snapshots, shared>>

(* or_insert_with, the PID refresh, adopt_container.                        *)
Refreshed(e) ==
    LET s == IF e \in tracked THEN state[e]
             ELSE NewEngine(found[e].container, e \in Hinted)
    IN  AdoptContainer([s EXCEPT !.pids = found[e].pids], found[e].container)

(* clear_stale_pids left out: an undetected engine keeps its last PIDs.     *)
AppliedKeepingStalePids ==
    [e \in Engines |-> IF found[e].seen THEN Refreshed(e) ELSE state[e]]

Applied ==
    [e \in Engines |-> IF found[e].seen THEN Refreshed(e)
                       ELSE [state[e] EXCEPT !.pids = {}]]

(* Refreshes the engines in the map, but inserts none.                      *)
DetectApplyWithoutInsert ==
    /\ pc = "detect"
    /\ pc' = "idle"
    /\ state' = [e \in Engines |-> IF e \in tracked THEN Applied[e] ELSE state[e]]
    /\ UNCHANGED <<world, tracked, found, todo, cur, answer, snapshots, shared>>

DetectApply ==
    /\ pc = "detect"
    /\ pc' = "idle"
    /\ state' = Applied
    /\ tracked' = tracked \cup {e \in Engines : found[e].seen}
    /\ UNCHANGED <<world, found, todo, cur, answer, snapshots, shared>>

-----------------------------------------------------------------------------
(* Polling: every engine in turn, then the grace period, then publication.  *)

PollStart ==
    /\ pc = "idle"
    /\ pc' = "probe"
    /\ todo' = tracked
    /\ snapshots' = [e \in Engines |-> NoSnapshot]
    /\ UNCHANGED <<world, tracked, state, found, cur, answer, shared>>

(* health_check and record_probe_result.                                    *)
Probe(e) ==
    /\ pc = "probe"
    /\ e \in todo
    /\ cur' = e
    /\ answer' = world[e].health
    /\ state' = [state EXCEPT ![e] = IF Answers(e) THEN ProbeSucceeded(@)
                                                   ELSE ProbeFailed(@)]
    /\ pc' = "fetch"
    /\ UNCHANGED <<world, tracked, found, todo, snapshots, shared>>

(* The status this tick reports: the health check's, or through a failure  *)
(* the one on record, which a first or second failure leaves at Running.    *)
TickStatus == IF answer # "Error" THEN answer ELSE state[cur].status

(* What get_model_info resolves to now: the server's own name, or none and  *)
(* why, with the launch command's name standing in where there is one.      *)
Resolution ==
    LET w == world[cur]
    IN  IF w.health = "Running" /\ w.meta = "name"
        THEN [model |-> w.incarnation, error |-> FALSE]
        ELSE IF w.health = "Running" /\ w.meta = "empty"
        THEN [model |-> NoModel, error |-> FALSE]
        ELSE [model |-> IF state[cur].hinted THEN Hint ELSE NoModel,
              error |-> TRUE]

Heard(resolution) ==
    CASE resolution.error -> "error"
      [] ~resolution.error /\ resolution.model = NoModel -> "empty"
      [] OTHER -> "name"

TakeAnswer(s, resolution) ==
    [CacheModel(s, resolution) EXCEPT !.heard = Heard(resolution)]

(* Whether this tick asks the server for its model.                         *)
Fetches == TickStatus = "Running" /\ ShouldFetchModel(state[cur])

FetchModel ==
    /\ pc = "fetch"
    /\ Fetches
    /\ state' = [state EXCEPT ![cur] = TakeAnswer(@, Resolution)]
    /\ pc' = "scrape"
    /\ UNCHANGED <<world, tracked, found, todo, cur, answer, snapshots, shared>>

SkipFetch ==
    /\ pc = "fetch"
    /\ ~Fetches
    /\ pc' = "scrape"
    /\ UNCHANGED <<world, tracked, state, found, todo, cur, answer, snapshots,
                   shared>>

(* Scrapes whatever the health check said.                                  *)
ScrapeRegardless(metrics) ==
    /\ pc = "scrape"
    /\ metrics # 0 => Answers(cur) /\ metrics = world[cur].incarnation
    /\ snapshots' = [snapshots EXCEPT ![cur] =
            [status |-> TickStatus, model |-> state[cur].model,
             error |-> state[cur].error, metrics |-> metrics,
             pids |-> state[cur].pids, container |-> state[cur].container]]
    /\ todo' = todo \ {cur}
    /\ pc' = "probe"
    /\ answer' = "Error"
    /\ UNCHANGED <<world, tracked, state, found, cur, shared>>

(* get_metrics may fail on its own even when the health check passed.       *)
Scrape(metrics) ==
    /\ pc = "scrape"
    /\ metrics # 0 => /\ answer # "Error"
                      /\ Answers(cur)
                      /\ metrics = world[cur].incarnation
    /\ snapshots' = [snapshots EXCEPT ![cur] =
            [status |-> TickStatus, model |-> state[cur].model,
             error |-> state[cur].error, metrics |-> metrics,
             pids |-> state[cur].pids, container |-> state[cur].container]]
    /\ todo' = todo \ {cur}
    /\ pc' = "probe"
    /\ answer' = "Error"       \* the health check's result goes out of scope
    /\ UNCHANGED <<world, tracked, state, found, cur, shared>>

(* Publishes what there is before the tick has reached every engine.        *)
PublishMidway ==
    /\ pc = "probe"
    /\ tracked' = {e \in tracked : ~ShouldRemove(state[e])}
    /\ state' = [e \in Engines |-> IF e \in tracked' THEN state[e] ELSE Blank]
    /\ shared' = snapshots
    /\ snapshots' = [e \in Engines |-> NoSnapshot]
    /\ todo' = {}
    /\ pc' = "idle"
    /\ UNCHANGED <<world, found, cur, answer>>

(* The retain and the write of shared_snapshots.  An engine removed here is *)
(* still in the list this tick publishes.                                   *)
Publish ==
    /\ pc = "probe"
    /\ todo = {}
    /\ tracked' = {e \in tracked : ~ShouldRemove(state[e])}
    /\ state' = [e \in Engines |-> IF e \in tracked' THEN state[e] ELSE Blank]
    /\ shared' = snapshots
    /\ snapshots' = [e \in Engines |-> NoSnapshot]
    /\ pc' = "idle"
    /\ UNCHANGED <<world, found, todo, cur, answer>>

-----------------------------------------------------------------------------

Aged(s) == [s EXCEPT !.last_seen = Older(@, SilenceCap),
                     !.stopped   = Older(@, SilenceCap),
                     !.fetched   = Older(@, RefreshInterval),
                     !.attempted = Older(@, RetryCooldown)]

Tick ==
    /\ state' = [e \in Engines |->
                    IF e \in tracked THEN Aged(state[e]) ELSE state[e]]
    /\ UNCHANGED <<world, tracked, found, loop, shared>>

Init ==
    /\ \E h \in [Engines -> Health], m \in [Engines -> MetaAnswers] :
         world = [e \in Engines |->
                    [health |-> h[e], meta |-> m[e], incarnation |-> 1,
                     container |-> IF e \in Dockerised THEN 1
                                                       ELSE NoContainer]]
    /\ tracked = Overrides
    /\ state = [e \in Engines |-> Blank]
    /\ found = [e \in Engines |-> NotFound]
    /\ pc = "idle"
    /\ todo = {}
    /\ cur \in Engines
    /\ answer = "Error"
    /\ snapshots = [e \in Engines |-> NoSnapshot]
    /\ shared = [e \in Engines |-> NoSnapshot]

Environment(e) ==
    \/ GoesQuiet(e)
    \/ Resumes(e)
    \/ Restarts(e)
    \/ FinishesLoading(e)
    \/ MetaChanges(e)

PollStep ==
    \/ \E e \in Engines : Probe(e)
    \/ FetchModel
    \/ SkipFetch
    \/ \E metrics \in {0} \cup Incarnations : Scrape(metrics)
    \/ Publish

Next ==
    \/ \E e \in Engines : Environment(e)
    \/ Tick
    \/ DetectScan
    \/ DetectApply
    \/ PollStart
    \/ PollStep

Spec == Init /\ [][Next]_vars

(* The loop never stops, its requests time out after two seconds, and the   *)
(* clock runs.  select! picks among the intervals that are due at random,   *)
(* so neither pass can be put off for ever: strong fairness for their       *)
(* starts.  The servers are owed nothing, except that loading ends.         *)
Fairness ==
    /\ SF_vars(DetectScan)
    /\ WF_vars(DetectApply)
    /\ SF_vars(PollStart)
    /\ WF_vars(PollStep)
    /\ WF_vars(Tick)

LiveSpec == Spec /\ Fairness

-----------------------------------------------------------------------------
(* Properties *)

(* A stopped engine has forgotten its model, its metadata error and both    *)
(* clocks, so that whatever comes back on the endpoint is asked again       *)
(* rather than shown under the name of the server that went away            *)
(* (record_probe_result, invalidate_model_cache).                           *)
StoppedForgetsModel ==
    \A e \in tracked : state[e].status = "Stopped" =>
        /\ state[e].model = NoModel
        /\ ~state[e].error
        /\ state[e].fetched = Never
        /\ state[e].attempted = Never

(* What the dashboard is shown of an engine that is down is that it is      *)
(* down: no model, no metadata error and no metrics of its last life, though *)
(* the probe, the model and the metrics of one tick are read at different   *)
(* moments (poll, snapshot).                                                *)
OfflineShowsNothing ==
    \A e \in Engines : shared[e].status = "Stopped" =>
        /\ shared[e].model = NoModel
        /\ ~shared[e].error
        /\ shared[e].metrics = 0

(* An engine carries only the processes the last applied detection pass     *)
(* found for it: PIDs of an earlier pass may since name another process,    *)
(* and would badge the wrong GPU (clear_stale_pids).                        *)
PidsAreCurrent ==
    pc # "detect" => \A e \in tracked : state[e].pids = found[e].pids

(* An engine leaves the map only after a silence longer than the grace      *)
(* period: whatever failed, stopped, recovered and failed again before, no  *)
(* probe of it succeeded in that time (should_remove, the retain).          *)
RemovalNeedsSilence ==
    [][\A e \in tracked :
          e \notin tracked' => state[e].last_seen > GracePeriod]_vars

(* While an engine is in the map its container, once known, never changes,  *)
(* whatever Docker names later: a log stream is not re-pointed under its    *)
(* viewer (adopt_container).                                                *)
ContainerIsKept ==
    [][\A e \in tracked \cap tracked' :
          state[e].container # NoContainer =>
             state'[e].container = state[e].container]_vars

(* A server is asked for its model again only after the retry cooldown, if  *)
(* there was no outage between: a refused key, a server that names nothing  *)
(* and a name lent by the command line do not become a request every second *)
(* (should_fetch_model, cache_model).  The code has one exception, and this *)
(* says that there is no other: a model cached earlier has outlived the     *)
(* refresh interval and the last answer was clean but named none, as a      *)
(* router's is, so nothing renewed the model's date; the server is then     *)
(* asked on every tick.                                                     *)
RequestsAreSpaced ==
    [][LET s == state[cur]
       IN  FetchModel /\ s.attempted # Never /\ s.attempted < RetryCooldown =>
              s.heard = "empty" /\ s.model # NoModel
                                /\ s.fetched = RefreshInterval]_vars

(* A published list is one whole tick: it has every engine of the map, once *)
(* each and no other, though they are polled one after another while the    *)
(* map's engines stop and are removed (the poll branch of the loop).        *)
TickIsComplete ==
    [][Publish => \A e \in Engines :
          (shared'[e].status # "absent") <=> e \in tracked]_vars

(* "Use --engine and --engine-url to override when auto-detection doesn't   *)
(* work" (src/README.md:304): an engine configured by hand that keeps       *)
(* running ends up shown as running.                                        *)
ConfiguredEngineIsShown ==
    \A e \in Overrides :
        <>[](world[e].health = "Running") => <>[](shared[e].status = "Running")

(* A server that can be found and keeps running ends up shown as running    *)
(* and stays so, whatever outage, removal or grace period came before.      *)
LiveEngineIsShown ==
    \A e \in Detectable :
        <>[](world[e].health = "Running") => <>[](shared[e].status = "Running")

(* A server that stays silent is eventually off the dashboard for good.     *)
DeadEngineIsDropped ==
    \A e \in Engines :
        <>[](~Answers(e)) => <>[](shared[e].status = "absent")

(* Once a server keeps running and keeps naming its model, the model shown  *)
(* is its own: neither a fallback, nor a stale error, nor the model of a    *)
(* server it replaced within a blip stays on for ever.                      *)
ModelCatchesUp ==
    \A e \in Detectable :
        <>[](world[e].health = "Running" /\ world[e].meta = "name")
            => <>[](/\ shared[e].model = world[e].incarnation
                    /\ ~shared[e].error)
=============================================================================
