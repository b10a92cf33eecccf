----------------------- MODULE EngineLifecycle_proofs -----------------------
(* Theorems about EngineLifecycle, for every set of endpoints, every grace  *)
(* period and every pair of model-refresh intervals.                        *)
EXTENDS EngineLifecycle, TLAPS

USE EnginesAssumption, BoundsAssumption

(* What holds of one EngineState at all times.  The last conjunct is what   *)
(* spaces the requests: unless the last answer was clean and named nothing, *)
(* a model without an error was fetched by the last attempt, so the cache   *)
(* cannot expire before the cooldown is over.                               *)
EntryInv(s) ==
    /\ s.status = "Stopped" <=> s.stopped # Never
    /\ s.status = "Stopped" => /\ s.model = NoModel
                               /\ ~s.error
                               /\ s.fetched = Never
                               /\ s.attempted = Never
                               /\ s.heard = "nothing"
    /\ s.stopped <= s.last_seen
    /\ s.model # NoModel <=> s.fetched # Never
    /\ s.heard = "error" <=> s.error
    /\ ~s.error /\ s.heard # "empty" =>
          s.attempted = IF s.fetched < RetryCooldown THEN s.fetched
                                                     ELSE RetryCooldown

(* A snapshot of an engine that is down carries nothing of its last life.   *)
SnapshotInv(n) ==
    n.status = "Stopped" => n.model = NoModel /\ ~n.error /\ n.metrics = 0

(* The poll in progress: the engines it still has to reach are in the map,  *)
(* the one it awaits is among them, and the rest of the map is listed.      *)
PollInv ==
    /\ pc \in {"idle", "detect"} =>
          \A e \in Engines : snapshots[e].status = "absent"
    /\ pc \in {"probe", "fetch", "scrape"} =>
          /\ todo \subseteq tracked
          /\ \A e \in Engines :
                snapshots[e].status # "absent" <=> e \in tracked \ todo
    /\ pc \in {"fetch", "scrape"} =>
          /\ cur \in todo
          /\ answer # "Error" => state[cur].status = "Running"

(* A pass attributes processes only to what it verified.                    *)
FoundInv == \A e \in Engines : ~found[e].seen => found[e].pids = {}

MetaInv == \A e \in Engines : world[e].meta \in MetaAnswers

IInv ==
    /\ TypeOK
    /\ MetaInv
    /\ FoundInv
    /\ \A e \in Engines : EntryInv(state[e])
    /\ \A e \in Engines : SnapshotInv(snapshots[e]) /\ SnapshotInv(shared[e])
    /\ PollInv
    /\ PidsAreCurrent

-----------------------------------------------------------------------------
(* What the operations of EngineState preserve.  Each proof first reads the *)
(* operation's result field by field.                                       *)

(* The values the operations assign are in the ranges of their fields.      *)
LEMMA InRange ==
    /\ 0 \in 0 .. FailureLimit
    /\ 0 \in 0 .. SilenceCap
    /\ {Never, 0} \subseteq Never .. SilenceCap
    /\ {Never, 0} \subseteq Never .. RefreshInterval
    /\ {Never, 0} \subseteq Never .. RetryCooldown
    /\ NoModel \in Models
BY DEF FailureLimit, SilenceCap, Never, NoModel, Models

(* A new engine, with or without a container, satisfies the invariant.      *)
LEMMA NewEngineOK ==
    ASSUME NEW c \in Containers, NEW h \in BOOLEAN
    PROVE  NewEngine(c, h) \in EngineState /\ EntryInv(NewEngine(c, h))
BY DEF NewEngine, EngineState, EntryInv, Never, NoModel, SilenceCap,
       FailureLimit, Models

(* A successful probe preserves the invariant and ends in Running.          *)
LEMMA ProbeSucceededOK ==
    ASSUME NEW s \in EngineState, EntryInv(s)
    PROVE  /\ ProbeSucceeded(s) \in EngineState
           /\ EntryInv(ProbeSucceeded(s))
           /\ ProbeSucceeded(s).status = "Running"
           /\ ProbeSucceeded(s).pids = s.pids
           /\ ProbeSucceeded(s).container = s.container
<1> DEFINE t == ProbeSucceeded(s)
<1>1. t \in EngineState
  BY InRange DEF ProbeSucceeded, EngineState
<1>2. /\ t.status = "Running" /\ t.stopped = Never /\ t.last_seen = 0
      /\ t.model = s.model /\ t.error = s.error /\ t.fetched = s.fetched
      /\ t.attempted = s.attempted /\ t.pids = s.pids
      /\ t.container = s.container /\ t.heard = s.heard
  BY DEF ProbeSucceeded, EngineState
<1> HIDE DEF t
<1>3. EntryInv(t)
  BY <1>2 DEF EntryInv, Never
<1> QED
  BY <1>1, <1>2, <1>3 DEF t

(* A failed probe preserves the invariant, at the limit by forgetting the   *)
(* model.                                                                   *)
LEMMA ProbeFailedOK ==
    ASSUME NEW s \in EngineState, EntryInv(s)
    PROVE  /\ ProbeFailed(s) \in EngineState
           /\ EntryInv(ProbeFailed(s))
           /\ ProbeFailed(s).pids = s.pids
           /\ ProbeFailed(s).container = s.container
<1> DEFINE t == ProbeFailed(s)
           n == IF s.failures = FailureLimit THEN FailureLimit
                                             ELSE s.failures + 1
<1>1. n \in 0 .. FailureLimit
  BY DEF EngineState, FailureLimit
<1>2. s.stopped \in Int /\ s.last_seen \in Int /\ s.last_seen >= 0
  BY DEF EngineState, Never, SilenceCap
<1> HIDE DEF n
<1>3. CASE n < FailureLimit
  <2>1. t = [s EXCEPT !.failures = n]
    BY <1>3 DEF ProbeFailed, n
  <2>2. t \in EngineState /\ t.pids = s.pids /\ t.container = s.container
    <3> HIDE DEF t
    <3>1. t \in EngineState
      BY <1>1, <2>1 DEF EngineState
    <3>2. t.pids = s.pids /\ t.container = s.container
      BY <2>1 DEF EngineState
    <3> QED
      BY <3>1, <3>2
  <2>3. EntryInv(t)
    BY <2>1 DEF EntryInv, EngineState
  <2> QED
    BY <2>2, <2>3
<1>4. CASE ~(n < FailureLimit) /\ s.stopped = Never
  <2> DEFINE i == InvalidateModelCache(s)
  <2>1. t = [i EXCEPT !.failures = n, !.stopped = 0, !.status = "Stopped"]
    BY <1>4 DEF ProbeFailed, n
  <2>2. t \in EngineState
    <3>1. i \in EngineState
      BY InRange DEF InvalidateModelCache, EngineState
    <3>2. n \in 0 .. FailureLimit /\ 0 \in Never .. SilenceCap
      BY <1>1, InRange
    <3> HIDE DEF i, t
    <3> QED
      BY <2>1, <3>1, <3>2 DEF EngineState
  <2>3. /\ t.status = "Stopped" /\ t.stopped = 0 /\ t.last_seen = s.last_seen
        /\ t.model = NoModel /\ ~t.error /\ t.fetched = Never
        /\ t.attempted = Never /\ t.heard = "nothing"
        /\ t.pids = s.pids /\ t.container = s.container
    BY <2>1 DEF InvalidateModelCache, EngineState
  <2> HIDE DEF t
  <2>4. EntryInv(t)
    BY <1>2, <2>3 DEF EntryInv, Never
  <2> QED
    BY <2>2, <2>3, <2>4 DEF t
<1>5. CASE ~(n < FailureLimit) /\ s.stopped # Never
  <2>1. t = [s EXCEPT !.failures = n, !.status = "Stopped"]
    BY <1>5 DEF ProbeFailed, n
  <2>2. t \in EngineState /\ t.pids = s.pids /\ t.container = s.container
    <3> HIDE DEF t
    <3>1. t \in EngineState
      BY <1>1, <2>1 DEF EngineState
    <3>2. t.pids = s.pids /\ t.container = s.container
      BY <2>1 DEF EngineState
    <3> QED
      BY <3>1, <3>2
  <2>3. s.status = "Stopped"
    BY <1>5 DEF EntryInv
  <2>4. EntryInv(t)
    BY <2>1, <2>3 DEF EntryInv, EngineState
  <2> QED
    BY <2>2, <2>4
<1> QED
  BY <1>3, <1>4, <1>5

(* Time passing preserves the invariant.                                    *)
LEMMA AgedOK ==
    ASSUME NEW s \in EngineState, EntryInv(s)
    PROVE  /\ Aged(s) \in EngineState
           /\ EntryInv(Aged(s))
           /\ Aged(s).status = s.status
           /\ Aged(s).pids = s.pids
           /\ Aged(s).container = s.container
<1> DEFINE t == Aged(s)
<1>1. /\ t.last_seen = Older(s.last_seen, SilenceCap)
      /\ t.stopped = Older(s.stopped, SilenceCap)
      /\ t.fetched = Older(s.fetched, RefreshInterval)
      /\ t.attempted = Older(s.attempted, RetryCooldown)
      /\ t.status = s.status /\ t.model = s.model /\ t.error = s.error
      /\ t.heard = s.heard
      /\ t.pids = s.pids /\ t.container = s.container
  BY DEF Aged, EngineState
<1>2. /\ s.last_seen \in 0 .. SilenceCap
      /\ s.stopped \in Never .. SilenceCap
      /\ s.fetched \in Never .. RefreshInterval
      /\ s.attempted \in Never .. RetryCooldown
  BY DEF EngineState
<1>3. /\ t.last_seen \in 0 .. SilenceCap
      /\ t.stopped \in Never .. SilenceCap
      /\ t.fetched \in Never .. RefreshInterval
      /\ t.attempted \in Never .. RetryCooldown
  BY <1>1, <1>2 DEF Older, Never, SilenceCap
<1>4. t \in EngineState
  BY <1>1, <1>3 DEF Aged, EngineState
<1> HIDE DEF t
<1>5. t.status = "Stopped" <=> t.stopped # Never
  BY <1>1, <1>2 DEF EntryInv, Older, Never
<1>6. t.status = "Stopped" => /\ t.model = NoModel /\ ~t.error
                              /\ t.fetched = Never /\ t.attempted = Never
                              /\ t.heard = "nothing"
  BY <1>1, <1>2 DEF EntryInv, Older, Never
<1>7. t.stopped <= t.last_seen
  BY <1>1, <1>2 DEF EntryInv, Older, Never, SilenceCap
<1>8. t.model # NoModel <=> t.fetched # Never
  BY <1>1, <1>2 DEF EntryInv, Older, Never
<1>9. ~t.error /\ t.heard # "empty" =>
         t.attempted = IF t.fetched < RetryCooldown THEN t.fetched
                                                    ELSE RetryCooldown
  BY <1>1, <1>2 DEF EntryInv, Older, Never
<1>10. t.heard = "error" <=> t.error
  BY <1>1 DEF EntryInv
<1>11. EntryInv(t)
  BY <1>5, <1>6, <1>7, <1>8, <1>9, <1>10 DEF EntryInv
<1> QED
  BY <1>1, <1>4, <1>11 DEF t

(* Recording a resolution, and what it was, preserves the invariant of a    *)
(* running engine.                                                          *)
LEMMA TakeAnswerOK ==
    ASSUME NEW s \in EngineState, EntryInv(s), s.status = "Running",
           NEW r \in [model : Models, error : BOOLEAN]
    PROVE  /\ TakeAnswer(s, r) \in EngineState
           /\ EntryInv(TakeAnswer(s, r))
           /\ TakeAnswer(s, r).status = s.status
           /\ TakeAnswer(s, r).pids = s.pids
           /\ TakeAnswer(s, r).container = s.container
<1> DEFINE h == Heard(r)
           t == TakeAnswer(s, r)
<1>1. /\ h \in {"nothing", "name", "error", "empty"}
      /\ h = "error" <=> r.error
      /\ ~r.error /\ h # "empty" => r.model # NoModel
  BY Zenon DEF Heard
<1> HIDE DEF h
<1>2. CacheModel(s, r) \in EngineState
  BY InRange DEF CacheModel, EngineState
<1>3. t = [CacheModel(s, r) EXCEPT !.heard = h]
  BY DEF h, TakeAnswer
<1> HIDE DEF t
<1>4. t \in EngineState
  BY <1>1, <1>2, <1>3 DEF EngineState
<1>5. /\ t.status = s.status /\ t.stopped = s.stopped
      /\ t.last_seen = s.last_seen /\ t.attempted = 0 /\ t.error = r.error
      /\ t.pids = s.pids /\ t.container = s.container /\ t.heard = h
  BY <1>2, <1>3 DEF CacheModel, EngineState
<1>6. IF r.model = NoModel THEN t.model = s.model /\ t.fetched = s.fetched
                           ELSE t.model = r.model /\ t.fetched = 0
  BY <1>2, <1>3 DEF CacheModel, EngineState
<1>7. EntryInv(t)
  BY <1>1, <1>5, <1>6 DEF EntryInv, Never
<1> QED
  BY <1>4, <1>5, <1>7 DEF t

(* A detection pass gives an engine its PIDs, perhaps its container, and    *)
(* leaves the rest as it was.                                               *)
LEMMA RefreshedOK ==
    ASSUME TypeOK, NEW e \in Engines, EntryInv(state[e])
    PROVE  /\ Refreshed(e) \in EngineState
           /\ EntryInv(Refreshed(e))
           /\ Refreshed(e).pids = found[e].pids
           /\ e \in tracked =>
                 /\ Refreshed(e).status = state[e].status
                 /\ state[e].container # NoContainer =>
                       Refreshed(e).container = state[e].container
<1> DEFINE s == IF e \in tracked THEN state[e]
                ELSE NewEngine(found[e].container, e \in Hinted)
           c == found[e].container
           p == found[e].pids
<1>1. c \in Containers /\ p \in SUBSET Incarnations
  BY DEF TypeOK, Detected
<1>2. s \in EngineState /\ EntryInv(s)
  <2>1. CASE e \in tracked
    BY <2>1 DEF TypeOK
  <2>2. CASE e \notin tracked
    <3>1. (e \in Hinted) \in BOOLEAN
      OBVIOUS
    <3> QED
      BY <1>1, <2>2, <3>1, NewEngineOK
  <2> QED
    BY <2>1, <2>2
<1>3. Refreshed(e) = AdoptContainer([s EXCEPT !.pids = p], c)
  BY DEF Refreshed
<1>4. e \in tracked => s = state[e]
  OBVIOUS
<1> HIDE DEF s, c, p
<1>5. Refreshed(e) = IF s.container = NoContainer
                     THEN [s EXCEPT !.pids = p, !.container = c]
                     ELSE [s EXCEPT !.pids = p]
  BY <1>2, <1>3 DEF AdoptContainer, EngineState
<1> DEFINE t == Refreshed(e)
<1>6. t \in EngineState
  <2>1. CASE s.container = NoContainer
    <3>1. t = [s EXCEPT !.pids = p, !.container = c]
      BY <1>5, <2>1
    <3> HIDE DEF t
    <3> QED
      BY <1>1, <1>2, <3>1 DEF EngineState
  <2>2. CASE s.container # NoContainer
    <3>1. t = [s EXCEPT !.pids = p]
      BY <1>5, <2>2
    <3> HIDE DEF t
    <3> QED
      BY <1>1, <1>2, <3>1 DEF EngineState
  <2> QED
    BY <2>1, <2>2
<1>7. /\ t.status = s.status /\ t.stopped = s.stopped
      /\ t.last_seen = s.last_seen /\ t.attempted = s.attempted
      /\ t.error = s.error /\ t.model = s.model /\ t.fetched = s.fetched
      /\ t.pids = p
      /\ t.heard = s.heard
      /\ s.container # NoContainer => t.container = s.container
  BY <1>2, <1>5 DEF EngineState
<1> HIDE DEF t
<1>8. EntryInv(t)
  BY <1>2, <1>7 DEF EntryInv
<1> QED
  BY <1>4, <1>6, <1>7, <1>8 DEF p, t

-----------------------------------------------------------------------------
(* IInv is an inductive invariant.                                          *)

LEMMA InitIInv == Init => IInv
<1> SUFFICES ASSUME Init PROVE IInv
  OBVIOUS
<1>1. Blank \in EngineState /\ EntryInv(Blank)
  <2>1. NoContainer \in Containers /\ FALSE \in BOOLEAN
    BY DEF NoContainer, Containers
  <2> QED
    BY <2>1, NewEngineOK DEF Blank
<1>2. NoSnapshot \in Snapshot /\ SnapshotInv(NoSnapshot)
  BY InRange DEF NoSnapshot, Snapshot, SnapshotInv, NoContainer, Containers
<1>3. NotFound \in Detected
  BY DEF NotFound, Detected, NoContainer, Containers
<1>4. world \in [Engines -> World] /\ MetaInv
  <2>1. PICK h \in [Engines -> Health], m \in [Engines -> MetaAnswers] :
           world = [e \in Engines |->
                     [health |-> h[e], meta |-> m[e], incarnation |-> 1,
                      container |-> IF e \in Dockerised THEN 1
                                                        ELSE NoContainer]]
    BY DEF Init
  <2>2. 1 \in Incarnations /\ 1 \in Containers /\ NoContainer \in Containers
    BY DEF Incarnations, Containers, NoContainer
  <2> QED
    BY <2>1, <2>2 DEF World, MetaInv
<1>5. TypeOK
  BY <1>1, <1>2, <1>3, <1>4 DEF Init, TypeOK, Health
<1>6. PollInv /\ PidsAreCurrent
  BY DEF Init, PollInv, PidsAreCurrent, NoSnapshot, Blank, NewEngine, NotFound
<1> QED
  BY <1>1, <1>2, <1>4, <1>5, <1>6 DEF IInv, Init, FoundInv, NotFound

(* What the servers do on their own leaves everything but world alone.      *)
LEMMA EnvironmentStep ==
    ASSUME IInv, NEW e \in Engines, Environment(e)
    PROVE  IInv'
<1>1. world' \in [Engines -> World] /\ MetaInv'
  <2>1. ASSUME NEW to \in World, to.meta \in MetaAnswers, Change(e, to)
        PROVE  world' \in [Engines -> World] /\ MetaInv'
    BY <2>1 DEF Change, MetaInv, IInv, TypeOK
  <2>2. world[e] \in World /\ world[e].meta \in MetaAnswers
    BY DEF IInv, TypeOK, MetaInv
  <2>3. CASE GoesQuiet(e)
    BY <2>1, <2>2, <2>3 DEF GoesQuiet, World, Health
  <2>4. CASE Resumes(e)
    BY <2>1, <2>2, <2>4 DEF Resumes, World, Health
  <2>5. CASE Restarts(e)
    <3>1. PICK c \in {world[e].container} \cup
                   (IF e \in Dockerised THEN {world[e].incarnation + 1} ELSE {}) :
             Change(e, [world[e] EXCEPT !.health = "Loading",
                                        !.incarnation = world[e].incarnation + 1,
                                        !.container = c])
      BY <2>5 DEF Restarts
    <3>2. world[e].incarnation + 1 \in Incarnations
      BY <2>2, <2>5 DEF Restarts, World, Incarnations
    <3>3. c \in Containers
      BY <2>2, <3>1, <3>2 DEF World, Incarnations, Containers
    <3> QED
      BY <2>1, <2>2, <3>1, <3>2, <3>3 DEF World, Health
  <2>6. CASE FinishesLoading(e)
    BY <2>1, <2>2, <2>6 DEF FinishesLoading, World, Health
  <2>7. CASE MetaChanges(e)
    BY <2>1, <2>2, <2>7 DEF MetaChanges, World
  <2> QED
    BY <2>3, <2>4, <2>5, <2>6, <2>7 DEF Environment
<1>2. UNCHANGED <<tracked, state, found, loop, shared>>
  BY DEF Environment, GoesQuiet, Resumes, Restarts, FinishesLoading,
         MetaChanges, Change
<1>3. TypeOK'
  BY <1>1, <1>2 DEF IInv, TypeOK, loop
<1>4. (PollInv /\ PidsAreCurrent)'
  BY <1>2 DEF IInv, PollInv, PidsAreCurrent, loop
<1> QED
  BY <1>1, <1>2, <1>3, <1>4 DEF IInv, SnapshotInv, EntryInv, FoundInv, loop

(* The clock.                                                               *)
LEMMA TickStep == IInv /\ Tick => IInv'
<1> SUFFICES ASSUME IInv, Tick PROVE IInv'
  OBVIOUS
<1>1. \A e \in Engines : /\ state'[e] \in EngineState
                         /\ EntryInv(state'[e])
                         /\ state'[e].status = state[e].status
                         /\ state'[e].pids = state[e].pids
  BY AgedOK DEF Tick, IInv, TypeOK
<1>2. state' \in [Engines -> EngineState]
  BY <1>1 DEF Tick
<1>3. UNCHANGED <<world, tracked, found, loop, shared>>
  BY DEF Tick
<1>4. TypeOK' /\ MetaInv'
  BY <1>2, <1>3 DEF IInv, TypeOK, MetaInv, loop
<1>5. PollInv'
  BY <1>1, <1>3 DEF IInv, TypeOK, PollInv, loop
<1>6. PidsAreCurrent'
  BY <1>1, <1>3 DEF IInv, TypeOK, PidsAreCurrent, loop
<1> QED
  BY <1>1, <1>3, <1>4, <1>5, <1>6 DEF IInv, SnapshotInv, FoundInv, loop

(* A detection pass looks, and takes nothing over yet.                      *)
LEMMA DetectScanStep == IInv /\ DetectScan => IInv'
<1> SUFFICES ASSUME IInv, DetectScan PROVE IInv'
  OBVIOUS
<1>1. PICK named \in SUBSET Engines, listed \in SUBSET Engines :
         found' = [e \in Engines |->
            IF e \in Detectable /\ Answers(e)
            THEN [seen |-> TRUE,
                  pids |-> IF e \in listed
                           THEN {world[e].incarnation} ELSE {},
                  container |-> IF e \in named
                                THEN world[e].container ELSE NoContainer]
            ELSE NotFound]
  BY DEF DetectScan
<1>2. \A e \in Engines : /\ world[e].incarnation \in Incarnations
                         /\ world[e].container \in Containers
  BY DEF IInv, TypeOK, World
<1>3. NotFound \in Detected /\ NoContainer \in Containers
  BY DEF NotFound, Detected, NoContainer, Containers
<1>4. found' \in [Engines -> Detected]
  BY <1>1, <1>2, <1>3 DEF Detected
<1>5. /\ pc = "idle" /\ pc' = "detect"
      /\ UNCHANGED <<world, tracked, state, todo, cur, answer, snapshots, shared>>
  BY DEF DetectScan
<1>6. TypeOK' /\ MetaInv'
  BY <1>4, <1>5 DEF IInv, TypeOK, MetaInv
<1>7. PollInv' /\ PidsAreCurrent'
  BY <1>5 DEF IInv, PollInv, PidsAreCurrent
<1>8. FoundInv'
  BY <1>1 DEF FoundInv, NotFound
<1> QED
  BY <1>5, <1>6, <1>7, <1>8 DEF IInv, SnapshotInv

(* The pass's result is applied to the whole map at once.                   *)
LEMMA DetectApplyStep == IInv /\ DetectApply => IInv'
<1> SUFFICES ASSUME IInv, DetectApply PROVE IInv'
  OBVIOUS
<1>1. /\ pc = "detect" /\ pc' = "idle" /\ state' = Applied
      /\ tracked' = tracked \cup {e \in Engines : found[e].seen}
      /\ UNCHANGED <<world, found, todo, cur, answer, snapshots, shared>>
  BY DEF DetectApply
<1>2. TypeOK
  BY DEF IInv
<1>3. ASSUME NEW e \in Engines
      PROVE  /\ Applied[e] \in EngineState
             /\ EntryInv(Applied[e])
             /\ Applied[e].pids = IF found[e].seen THEN found[e].pids ELSE {}
  <2>1. CASE found[e].seen
    BY <1>2, <2>1, RefreshedOK DEF Applied, IInv
  <2>2. CASE ~found[e].seen
    <3>1. Applied[e] = [state[e] EXCEPT !.pids = {}] /\ state[e] \in EngineState
      BY <1>2, <2>2 DEF Applied, TypeOK
    <3>2. EntryInv(state[e])
      BY DEF IInv
    <3> QED
      BY <2>2, <3>1, <3>2 DEF EngineState, EntryInv
  <2> QED
    BY <2>1, <2>2
<1>4. state' \in [Engines -> EngineState]
  BY <1>1, <1>3 DEF Applied
<1>5. TypeOK' /\ MetaInv'
  BY <1>1, <1>4 DEF IInv, TypeOK, MetaInv
<1>6. \A e \in Engines : ~found[e].seen => found[e].pids = {}
  BY DEF IInv, FoundInv
<1>7. PidsAreCurrent'
  BY <1>1, <1>2, <1>3, <1>6 DEF PidsAreCurrent, TypeOK
<1>8. PollInv'
  BY <1>1 DEF IInv, PollInv
<1> QED
  BY <1>1, <1>3, <1>5, <1>7, <1>8 DEF IInv, SnapshotInv, FoundInv

(* A poll tick begins with the whole map still to reach.                    *)
LEMMA PollStartStep == IInv /\ PollStart => IInv'
<1> SUFFICES ASSUME IInv, PollStart PROVE IInv'
  OBVIOUS
<1>1. /\ pc = "idle" /\ pc' = "probe" /\ todo' = tracked
      /\ snapshots' = [e \in Engines |-> NoSnapshot]
      /\ UNCHANGED <<world, tracked, state, found, cur, answer, shared>>
  BY DEF PollStart
<1>2. NoSnapshot \in Snapshot /\ SnapshotInv(NoSnapshot)
  BY InRange DEF NoSnapshot, Snapshot, SnapshotInv, NoContainer, Containers
<1>3. TypeOK' /\ MetaInv'
  BY <1>1, <1>2 DEF IInv, TypeOK, MetaInv
<1>4. PollInv' /\ PidsAreCurrent'
  BY <1>1 DEF IInv, TypeOK, PollInv, PidsAreCurrent, NoSnapshot
<1> QED
  BY <1>1, <1>2, <1>3, <1>4 DEF IInv, SnapshotInv, FoundInv

(* A health check, recorded.                                                *)
LEMMA ProbeStep ==
    ASSUME IInv, NEW e \in Engines, Probe(e)
    PROVE  IInv'
<1> DEFINE s == IF Answers(e) THEN ProbeSucceeded(state[e])
                              ELSE ProbeFailed(state[e])
<1>1. /\ pc = "probe" /\ pc' = "fetch" /\ e \in todo /\ cur' = e
      /\ answer' = world[e].health /\ state' = [state EXCEPT ![e] = s]
      /\ UNCHANGED <<world, tracked, found, todo, snapshots, shared>>
  BY DEF Probe
<1>2. state \in [Engines -> EngineState] /\ EntryInv(state[e])
  BY DEF IInv, TypeOK
<1>3. /\ s \in EngineState /\ EntryInv(s) /\ s.pids = state[e].pids
      /\ Answers(e) => s.status = "Running"
  BY <1>2, ProbeSucceededOK, ProbeFailedOK
<1> HIDE DEF s
<1>4. /\ state' \in [Engines -> EngineState]
      /\ state'[e] = s
      /\ \A f \in Engines : state'[f].pids = state[f].pids /\ EntryInv(state'[f])
  BY <1>1, <1>2, <1>3 DEF IInv
<1>5. world[e].health \in Health
  BY DEF IInv, TypeOK, World
<1>6. TypeOK' /\ MetaInv'
  BY <1>1, <1>4, <1>5 DEF IInv, TypeOK, MetaInv
<1>7. PollInv'
  BY <1>1, <1>3, <1>4 DEF IInv, PollInv, Answers
<1>8. PidsAreCurrent'
  BY <1>1, <1>4 DEF IInv, TypeOK, PidsAreCurrent
<1> QED
  BY <1>1, <1>4, <1>6, <1>7, <1>8 DEF IInv, SnapshotInv, FoundInv

(* The tick's status is on record when it says Running.                     *)
LEMMA TickStatusOK ==
    ASSUME IInv, pc \in {"fetch", "scrape"}
    PROVE  /\ TickStatus \in {"Running", "Loading", "Stopped"}
           /\ TickStatus = "Running" => state[cur].status = "Running"
           /\ TickStatus = "Stopped" =>
                 answer = "Error" /\ state[cur].status = "Stopped"
BY DEF IInv, TypeOK, PollInv, TickStatus, Health, EngineState

(* A model request, and what is made of its answer.                         *)
LEMMA FetchModelStep == IInv /\ FetchModel => IInv'
<1> SUFFICES ASSUME IInv, FetchModel PROVE IInv'
  OBVIOUS
<1> DEFINE s == TakeAnswer(state[cur], Resolution)
<1>1. /\ pc = "fetch" /\ pc' = "scrape" /\ Fetches
      /\ state' = [state EXCEPT ![cur] = s]
      /\ UNCHANGED <<world, tracked, found, todo, cur, answer, snapshots, shared>>
  BY DEF FetchModel
<1>2. /\ state \in [Engines -> EngineState] /\ cur \in Engines
      /\ state[cur] \in EngineState /\ EntryInv(state[cur])
  BY DEF IInv, TypeOK
<1>3. state[cur].status = "Running"
  BY <1>1, TickStatusOK DEF Fetches
<1>4. Resolution \in [model : Models, error : BOOLEAN]
  BY <1>2 DEF Resolution, IInv, TypeOK, MetaInv, World, Models, Incarnations,
              NoModel, Hint
<1>5. /\ s \in EngineState /\ EntryInv(s) /\ s.pids = state[cur].pids
      /\ s.status = "Running"
  BY <1>2, <1>3, <1>4, TakeAnswerOK
<1> HIDE DEF s
<1>6. /\ state' \in [Engines -> EngineState]
      /\ \A f \in Engines : /\ state'[f].pids = state[f].pids
                             /\ state'[f].status = state[f].status
                             /\ EntryInv(state'[f])
  BY <1>1, <1>2, <1>3, <1>5 DEF IInv
<1>7. TypeOK' /\ MetaInv'
  BY <1>1, <1>6 DEF IInv, TypeOK, MetaInv
<1>8. PollInv' /\ PidsAreCurrent'
  BY <1>1, <1>2, <1>6 DEF IInv, TypeOK, PollInv, PidsAreCurrent
<1> QED
  BY <1>1, <1>6, <1>7, <1>8 DEF IInv, SnapshotInv, FoundInv

LEMMA SkipFetchStep == IInv /\ SkipFetch => IInv'
BY DEF SkipFetch, IInv, TypeOK, MetaInv, PollInv, PidsAreCurrent, SnapshotInv,
       EntryInv, FoundInv

(* The metrics, and with them the engine's snapshot.                        *)
LEMMA ScrapeStep ==
    ASSUME IInv, NEW metrics \in {0} \cup Incarnations, Scrape(metrics)
    PROVE  IInv'
<1> DEFINE n == [status |-> TickStatus, model |-> state[cur].model,
                 error |-> state[cur].error, metrics |-> metrics,
                 pids |-> state[cur].pids, container |-> state[cur].container]
<1>1. /\ pc = "scrape" /\ pc' = "probe" /\ answer' = "Error"
      /\ metrics # 0 => answer # "Error"
      /\ snapshots' = [snapshots EXCEPT ![cur] = n]
      /\ todo' = todo \ {cur}
      /\ UNCHANGED <<world, tracked, state, found, cur, shared>>
  BY DEF Scrape
<1>2. cur \in Engines /\ state[cur] \in EngineState /\ EntryInv(state[cur])
  BY DEF IInv, TypeOK
<1>3. /\ TickStatus \in {"Running", "Loading", "Stopped"}
      /\ TickStatus = "Stopped" =>
            answer = "Error" /\ state[cur].status = "Stopped"
  BY <1>1, TickStatusOK
<1>4. n \in Snapshot /\ n.status # "absent"
  BY <1>2, <1>3 DEF Snapshot, EngineState
<1>5. SnapshotInv(n)
  BY <1>1, <1>2, <1>3 DEF SnapshotInv, EntryInv
<1> HIDE DEF n
<1>6. TypeOK' /\ MetaInv'
  BY <1>1, <1>4 DEF IInv, TypeOK, MetaInv, Health
<1>7. \A e \in Engines : SnapshotInv(snapshots'[e])
  BY <1>1, <1>5 DEF IInv, TypeOK
<1>8. PollInv'
  BY <1>1, <1>2, <1>4 DEF IInv, TypeOK, PollInv
<1>9. PidsAreCurrent'
  BY <1>1 DEF IInv, PidsAreCurrent
<1> QED
  BY <1>1, <1>6, <1>7, <1>8, <1>9 DEF IInv, SnapshotInv, EntryInv, FoundInv

(* The end of a tick: the grace period, and publication.                    *)
LEMMA PublishStep == IInv /\ Publish => IInv'
<1> SUFFICES ASSUME IInv, Publish PROVE IInv'
  OBVIOUS
<1>1. /\ pc = "probe" /\ pc' = "idle" /\ todo = {}
      /\ tracked' = {e \in tracked : ~ShouldRemove(state[e])}
      /\ state' = [e \in Engines |-> IF e \in tracked' THEN state[e] ELSE Blank]
      /\ shared' = snapshots
      /\ snapshots' = [e \in Engines |-> NoSnapshot]
      /\ UNCHANGED <<world, found, todo, cur, answer>>
  BY DEF Publish
<1>2. Blank \in EngineState /\ EntryInv(Blank)
  <2>1. NoContainer \in Containers /\ FALSE \in BOOLEAN
    BY DEF NoContainer, Containers
  <2> QED
    BY <2>1, NewEngineOK DEF Blank
<1>3. NoSnapshot \in Snapshot /\ SnapshotInv(NoSnapshot)
  BY InRange DEF NoSnapshot, Snapshot, SnapshotInv, NoContainer, Containers
<1>4. TypeOK' /\ MetaInv'
  BY <1>1, <1>2, <1>3 DEF IInv, TypeOK, MetaInv
<1>5. \A e \in Engines : EntryInv(state'[e])
  BY <1>1, <1>2 DEF IInv
<1>6. PollInv' /\ PidsAreCurrent'
  BY <1>1 DEF IInv, TypeOK, PollInv, PidsAreCurrent, NoSnapshot
<1>7. \A e \in Engines : SnapshotInv(shared'[e]) /\ SnapshotInv(snapshots'[e])
  BY <1>1, <1>3 DEF IInv
<1> QED
  BY <1>1, <1>4, <1>5, <1>6, <1>7 DEF IInv, FoundInv

-----------------------------------------------------------------------------
(* The theorems.                                                            *)

LEMMA NextIInv == IInv /\ [Next]_vars => IInv'
<1> SUFFICES ASSUME IInv, [Next]_vars PROVE IInv'
  OBVIOUS
<1>1. ASSUME NEW e \in Engines, Environment(e) PROVE IInv'
  BY <1>1, EnvironmentStep
<1>2. CASE Tick
  BY <1>2, TickStep
<1>3. CASE DetectScan
  BY <1>3, DetectScanStep
<1>4. CASE DetectApply
  BY <1>4, DetectApplyStep
<1>5. CASE PollStart
  BY <1>5, PollStartStep
<1>6. CASE PollStep
  BY <1>6, ProbeStep, FetchModelStep, SkipFetchStep, ScrapeStep, PublishStep
     DEF PollStep
<1>7. CASE UNCHANGED vars
  BY <1>7 DEF vars, loop, IInv, TypeOK, MetaInv, PollInv, PidsAreCurrent,
              SnapshotInv, EntryInv, FoundInv
<1> QED
  BY <1>1, <1>2, <1>3, <1>4, <1>5, <1>6, <1>7 DEF Next

(* IInv holds in every reachable state.                                     *)
THEOREM Invariance == Spec => []IInv
BY InitIInv, NextIInv, PTL DEF Spec

(* Every variable keeps its type (engine_collector_loop).                   *)
THEOREM TypeCorrect == Spec => []TypeOK
<1>1. IInv => TypeOK
  BY DEF IInv
<1> QED
  BY <1>1, Invariance, PTL

(* A stopped engine has forgotten the model of the server that went away.   *)
THEOREM StoppedForgets == Spec => []StoppedForgetsModel
<1>1. IInv => StoppedForgetsModel
  BY DEF IInv, TypeOK, EntryInv, StoppedForgetsModel
<1> QED
  BY <1>1, Invariance, PTL

(* An engine published as stopped shows nothing of its last life.           *)
THEOREM OfflineIsBare == Spec => []OfflineShowsNothing
<1>1. IInv => OfflineShowsNothing
  BY DEF IInv, SnapshotInv, OfflineShowsNothing
<1> QED
  BY <1>1, Invariance, PTL

(* An engine's PIDs are those of the last detection pass.                   *)
THEOREM PidsFollowDetection == Spec => []PidsAreCurrent
<1>1. IInv => PidsAreCurrent
  BY DEF IInv
<1> QED
  BY <1>1, Invariance, PTL

(* Only an engine silent for longer than the grace period is removed: the   *)
(* clock that lets it go started after its last successful probe.           *)
THEOREM RemovalIsDue == Spec => RemovalNeedsSilence
<1>1. IInv /\ [Next]_vars =>
         [\A e \in tracked :
             e \notin tracked' => state[e].last_seen > GracePeriod]_vars
  <2> SUFFICES ASSUME IInv, [Next]_vars, NEW e \in tracked, e \notin tracked'
               PROVE  state[e].last_seen > GracePeriod
    OBVIOUS
  <2>1. Publish
    BY DEF Next, vars, loop, Environment, GoesQuiet, Resumes, Restarts,
           FinishesLoading, MetaChanges, Change, Tick, DetectScan, DetectApply,
           PollStart, PollStep, Probe, FetchModel, SkipFetch, Scrape
  <2>2. ShouldRemove(state[e])
    BY <2>1 DEF Publish
  <2>3. /\ state[e].stopped <= state[e].last_seen
        /\ state[e].stopped \in Int /\ state[e].last_seen \in Int
    BY DEF IInv, TypeOK, EntryInv, EngineState, Never, SilenceCap
  <2> QED
    BY <2>2, <2>3 DEF ShouldRemove
<1> QED
  BY <1>1, Invariance, PTL DEF Spec, RemovalNeedsSilence

(* A container, once known, is the engine's for as long as it is in the map. *)
THEOREM ContainerStays == Spec => ContainerIsKept
<1>1. IInv /\ [Next]_vars =>
         [\A e \in tracked \cap tracked' :
             state[e].container # NoContainer =>
                state'[e].container = state[e].container]_vars
  <2> SUFFICES ASSUME IInv, [Next]_vars, NEW e \in tracked \cap tracked',
                      state[e].container # NoContainer
               PROVE  state'[e].container = state[e].container
    OBVIOUS
  <2>1. /\ TypeOK /\ e \in Engines /\ EntryInv(state[e])
        /\ state[e] \in EngineState
    BY DEF IInv, TypeOK
  <2>2. ASSUME NEW f \in Engines, Environment(f)
        PROVE  state' = state
    BY <2>2 DEF Environment, GoesQuiet, Resumes, Restarts, FinishesLoading,
                MetaChanges, Change
  <2>3. CASE Tick
    BY <2>1, <2>3, AgedOK DEF Tick
  <2>4. CASE DetectApply
    <3>1. CASE found[e].seen
      BY <2>1, <2>4, <3>1, RefreshedOK DEF DetectApply, Applied
    <3>2. CASE ~found[e].seen
      BY <2>1, <2>4, <3>2 DEF DetectApply, Applied, EngineState
    <3> QED
      BY <3>1, <3>2
  <2>5. ASSUME NEW f \in Engines, Probe(f)
        PROVE  state'[e].container = state[e].container
    BY <2>1, <2>5, ProbeSucceededOK, ProbeFailedOK DEF Probe, TypeOK
  <2>6. CASE FetchModel
    <3>1. TakeAnswer(state[e], Resolution).container = state[e].container
      BY <2>1 DEF TakeAnswer, CacheModel, EngineState
    <3> QED
      BY <2>1, <2>6, <3>1 DEF FetchModel, TypeOK
  <2>7. CASE Publish
    BY <2>1, <2>7 DEF Publish
  <2>8. CASE DetectScan \/ PollStart \/ SkipFetch \/ UNCHANGED vars
             \/ \E metrics \in {0} \cup Incarnations : Scrape(metrics)
    BY <2>8 DEF DetectScan, PollStart, SkipFetch, Scrape, vars
  <2> QED
    BY <2>2, <2>3, <2>4, <2>5, <2>6, <2>7, <2>8 DEF Next, PollStep
<1> QED
  BY <1>1, Invariance, PTL DEF Spec, ContainerIsKept

(* No two model requests of one life are closer than the retry cooldown,    *)
(* except on a cached model that expired while the server's clean answers   *)
(* name none.                                                               *)
THEOREM RequestsAreApart == Spec => RequestsAreSpaced
<1>1. IInv /\ [Next]_vars =>
         [LET s == state[cur]
          IN  FetchModel /\ s.attempted # Never /\ s.attempted < RetryCooldown =>
                 s.heard = "empty" /\ s.model # NoModel
                                   /\ s.fetched = RefreshInterval]_vars
  <2> DEFINE s == state[cur]
  <2> SUFFICES ASSUME IInv, FetchModel, s.attempted # Never,
                      s.attempted < RetryCooldown
               PROVE  s.heard = "empty" /\ s.model # NoModel
                                        /\ s.fetched = RefreshInterval
    OBVIOUS
  <2>1. ShouldFetchModel(s)
    BY DEF FetchModel, Fetches
  <2>2. EntryInv(s) /\ s \in EngineState
    BY DEF IInv, TypeOK
  <2> HIDE DEF s
  <2>3. s.attempted \in Int /\ s.fetched \in Never .. RefreshInterval
    BY <2>2 DEF EngineState, Never
  <2>4. ~s.error /\ s.model # NoModel
    BY <2>1, <2>3 DEF ShouldFetchModel
  <2>5. s.fetched # Never /\ s.fetched = RefreshInterval
    BY <2>1, <2>2, <2>3, <2>4 DEF ShouldFetchModel, EntryInv, Never
  <2>6. s.heard = "empty"
    BY <2>2, <2>3, <2>4, <2>5 DEF EntryInv
  <2> QED
    BY <2>4, <2>5, <2>6
<1> QED
  BY <1>1, Invariance, PTL DEF Spec, RequestsAreSpaced

(* A published list is the whole map as the tick found it.                  *)
THEOREM TicksAreComplete == Spec => TickIsComplete
<1>1. IInv /\ [Next]_vars =>
         [Publish => \A e \in Engines :
             (shared'[e].status # "absent") <=> e \in tracked]_vars
  BY DEF IInv, PollInv, Publish
<1> QED
  BY <1>1, Invariance, PTL DEF Spec, TickIsComplete
=============================================================================
