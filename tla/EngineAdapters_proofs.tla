------------------------ MODULE EngineAdapters_proofs ------------------------
(* Proofs about EngineAdapters, for any servers that may come to be behind  *)
(* the endpoint, started and left without an answer any number of times.    *)
EXTENDS EngineAdapters, TLAPS

-----------------------------------------------------------------------------
(* The inductive invariant.                                                 *)

(* The names a model may go by.                                             *)
Ids == LET given == {l.id : l \in Launches} \cup (Hints \ {None})
       IN  {None} \cup given \cup {NormalizeModelId(id) : id \in given}

Server ==
    [launch : Launches, phase : {"down", "loading", "ready"},
     busy : BOOLEAN, idle : BOOLEAN, asleep : BOOLEAN, loaded : SUBSET Models,
     series : BOOLEAN]
Adapter ==
    [hint : Hints, access : {"Open", "Off", "Refused"}, role : {None, "SingleModel", "Router"},
     slots : {None} \cup BOOLEAN, drafter : {None} \cup BOOLEAN, loaded : SUBSET Models, hub : Ids]
Errors == {None, "AuthRequired", "Unavailable"}

EngineOK(e) == e \in [failures : 0 .. 3, model : {e.model}, error : Errors]

StateInv ==
    /\ server \in Server /\ adapter \in Adapter
    /\ starts \in 1 .. MaxStarts /\ seen \subseteq Launches /\ lost \in 0 .. MaxLost
    /\ EngineOK(engine)
    /\ waiting \subseteq Clocks /\ status \in {"Running", "Loading", "Stopped"}

(* A tick that has come to ask for the model asks the routes of its type.   *)
PcInv ==
    /\ pc \in {"/props", "/models"} => Type = "LlamaCpp"
    /\ pc \in {"/v1/models", "hub"} => Type # "LlamaCpp"

(* The server that runs was seen; only an engine recorded as stopped, about *)
(* to be asked for its health, has seen none.                               *)
SeenInv ==
    /\ server.phase # "down" => server.launch \in seen
    /\ seen = {} => engine.failures = 3 /\ pc = "rest"

(* NamesOf, with the hint as a parameter.                                   *)
NamesWith(l, hint) ==
    {IF l.type = "LlamaCpp" THEN l.id ELSE NormalizeModelId(l.id)} \cup
        (IF hint = None THEN {} ELSE {hint, NormalizeModelId(hint)})
Known(nm, launches, hint) == \E l \in launches : nm \in NamesWith(l, hint)
Gated(launches) == \E l \in launches : l.gated
Grounded(model, error, launches, hint) ==
    /\ model # None => Known(model.name, launches, hint)
    /\ error = "AuthRequired" => Gated(launches)

(* What is remembered and what is taken to the hub, as what is shown.       *)
ModelInv == Grounded(engine.model, engine.error, seen, adapter.hint)
NameInv ==
    pc = "hub" => /\ name.name \in Ids /\ Known(name.name, seen, adapter.hint)
                  /\ name.error \in Errors
                  /\ name.error = "AuthRequired" => Gated(seen)
ShownInv == shown # None => Grounded(shown.model, shown.error, seen, adapter.hint)

IInv == StateInv /\ PcInv /\ SeenInv /\ ModelInv /\ NameInv /\ ShownInv

-----------------------------------------------------------------------------
(* What is asked and answered.                                              *)

(* Only a server that runs answers, and only a gated one refuses the key.   *)
LEMMA StatusTells ==
    ASSUME NEW route
    PROVE  /\ Status(route) # 0 => server.phase # "down"
           /\ Status(route) = 401 => server.launch.gated
<1> DEFINE l == server.launch
           refusal ==
             CASE route = "/ready" /\ l.old                                 -> 404
               [] route = "/metrics" /\ Type = "Sglang" /\ ~l.metrics       -> 404
               [] route = "/metrics" /\ Type = "LlamaCpp" /\ NeedsModel(l)  -> 400
               [] route = "/metrics" /\ Type = "LlamaCpp" /\ ~NeedsModel(l)
                    /\ (~l.metrics \/ l.role = "Router")                    -> 501
               [] route = "/slots" /\ ~l.slots                              -> 501
               [] OTHER                                                     -> 200
<1>1. refusal # 401
    OBVIOUS
<1>2. Status(route) = IF server.phase = "down" THEN 0
                      ELSE IF server.phase = "loading" THEN 503
                      ELSE IF /\ l.gated /\ route \notin {"/health", "/ready", "/model_info"}
                              /\ (route = "/metrics" => Type = "LlamaCpp") THEN 401
                      ELSE refusal
    BY DEF Status
<1> HIDE DEF refusal
<1> QED
    BY <1>1, <1>2

LEMMA AnswerIsOfSeen ==
    ASSUME IInv, NEW route, NEW code, Asked(route, code)
    PROVE  /\ starts' = starts /\ lost' \in 0 .. MaxLost
           /\ code # 0 => server.launch \in seen
           /\ code = 401 => Gated(seen)
<1>1. starts' = starts /\ lost' \in 0 .. MaxLost
    BY LaunchesAssumption DEF Asked, IInv, StateInv
<1>2. code # 0 => code = Status(route)
    BY DEF Asked
<1>3. code # 0 => server.launch \in seen
    BY <1>2, StatusTells DEF IInv, SeenInv
<1>4. code = 401 => server.launch.gated
    BY <1>2, StatusTells
<1> QED
    BY <1>1, <1>3, <1>4 DEF Gated

(* A name a launch answers with, and the command line's hint, as they are   *)
(* normalized for the launch's type, are names of it.                       *)
LEMMA NamesAreKnown ==
    ASSUME NEW launches, NEW l \in launches, NEW hint
    PROVE  /\ l.type = "LlamaCpp" => Known(l.id, launches, hint)
           /\ l.type # "LlamaCpp" => Known(NormalizeModelId(l.id), launches, hint)
           /\ hint # None => Known(hint, launches, hint) /\ Known(NormalizeModelId(hint), launches, hint)
BY DEF Known, NamesWith

-----------------------------------------------------------------------------
(* The end of a tick, and the end of its question for the model.            *)

LEMMA PublishPreserves ==
    ASSUME IInv, NEW a \in Adapter, NEW e, Publish(a, e),
           a.hint = adapter.hint, EngineOK(e), Grounded(e.model, e.error, seen, adapter.hint),
           server' \in Server, server'.phase = server.phase, server'.launch = server.launch,
           UNCHANGED <<starts, seen, status>>, seen # {},
           lost' \in 0 .. MaxLost, waiting' \subseteq Clocks
    PROVE  IInv'
<1>1. adapter' = a /\ engine' = e /\ pc' = "rest" /\ shown' = Snapshot(status, a, e)
    BY DEF Publish
<1>2. StateInv'
    BY <1>1 DEF IInv, StateInv
<1>3. PcInv' /\ NameInv'
    BY <1>1 DEF PcInv, NameInv
<1>4. SeenInv'
    BY <1>1 DEF IInv, SeenInv
<1>5. ModelInv'
    BY <1>1 DEF ModelInv
<1>6. ShownInv'
  <2>1. shown'.model = e.model /\ shown'.error = e.error
    BY <1>1 DEF Snapshot
  <2> QED
    BY <1>1, <2>1 DEF ShownInv
<1> QED
    BY <1>2, <1>3, <1>4, <1>5, <1>6 DEF IInv

LEMMA CacheModelPreserves ==
    ASSUME IInv, NEW a \in Adapter, NEW model, NEW error \in Errors, NEW clocks \in SUBSET Clocks,
           CacheModel(a, model, error, clocks),
           a.hint = adapter.hint, Grounded(model, error, seen, adapter.hint), seen # {},
           UNCHANGED <<server, starts, seen, status>>, lost' \in 0 .. MaxLost
    PROVE  IInv'
<1> DEFINE latest == IF model = None THEN engine.model ELSE model
           e == [engine EXCEPT !.error = error, !.model = latest]
<1>1. EngineOK(engine)
    BY DEF IInv, StateInv
<1>2. e.failures = engine.failures /\ e.error = error /\ e.model = latest /\ EngineOK(e)
  <2> HIDE DEF latest
  <2> QED
    BY <1>1 DEF EngineOK
<1>3. waiting' \subseteq Clocks
    BY DEF CacheModel, Clocks
<1>4. \/ Publish(a, e)
      \/ engine' = e /\ adapter' = a /\ pc' = MetricsRoute /\ UNCHANGED shown
    BY DEF CacheModel
<1> HIDE DEF e
<1>6. Grounded(e.model, e.error, seen, adapter.hint)
    BY <1>2 DEF IInv, ModelInv, Grounded
<1>7. CASE Publish(a, e)
    BY <1>2, <1>3, <1>6, <1>7, PublishPreserves DEF IInv, StateInv
<1>8. CASE engine' = e /\ adapter' = a /\ pc' = MetricsRoute /\ UNCHANGED shown
  <2>1. pc' \in {"/metrics", "/api/ps"}
    BY <1>8 DEF MetricsRoute
  <2>2. StateInv'
    BY <1>2, <1>3, <1>8 DEF IInv, StateInv
  <2>3. PcInv' /\ NameInv'
    BY <2>1 DEF PcInv, NameInv
  <2>4. SeenInv'
    BY DEF IInv, SeenInv
  <2>5. ModelInv' /\ ShownInv'
    BY <1>6, <1>8 DEF IInv, ModelInv, ShownInv
  <2> QED
    BY <2>2, <2>3, <2>4, <2>5 DEF IInv
<1> QED
    BY <1>4, <1>7, <1>8

-----------------------------------------------------------------------------
(* The steps.                                                               *)

LEMMA InitHolds == Init => IInv
<1> SUFFICES ASSUME Init PROVE IInv
    OBVIOUS
<1>1. PICK l \in Launches, h \in Hints :
         server = Running(l) /\ seen = {l} /\ adapter = NewAdapter(h)
    BY DEF Init
<1>2. server \in Server /\ server.launch = l
    BY <1>1 DEF Running, Server
<1>3. adapter \in Adapter
    BY <1>1 DEF NewAdapter, Adapter, Ids
<1>4. EngineOK(engine) /\ engine.model = None /\ engine.error = None /\ engine.failures = 0
    BY DEF Init, EngineOK, Errors
<1>5. StateInv
    BY <1>1, <1>2, <1>3, <1>4, LaunchesAssumption DEF Init, StateInv
<1>6. PcInv /\ SeenInv /\ NameInv
    BY <1>1, <1>2 DEF Init, PcInv, SeenInv, NameInv
<1>7. ModelInv
    BY <1>4, NoneAssumption DEF ModelInv, Grounded
<1>8. ShownInv
    BY DEF Init, ShownInv
<1> QED
    BY <1>5, <1>6, <1>7, <1>8 DEF IInv

(* What the server does leaves the adapter's knowledge as it was, and what  *)
(* was seen only grows.                                                     *)
LEMMA EnvironmentPreserves ==
    ASSUME IInv, Environment
    PROVE  IInv'
<1>1. UNCHANGED <<lost, adapter, engine, waiting, pc, status, name, shown>>
    BY DEF Environment, ServerStops, ServerStarts, ModelIsLoaded, RequestComesOrGoes, Idles,
           OllamaLoads, LogsSeries, Elsewhere
<1>2. server \in Server /\ seen \subseteq Launches /\ starts \in 1 .. MaxStarts
    BY DEF IInv, StateInv
<1>3. /\ server' \in Server /\ server'.launch.type = server.launch.type
      /\ starts' \in 1 .. MaxStarts /\ seen \subseteq seen' /\ seen' \subseteq Launches
      /\ server'.phase # "down" => server'.launch \in seen'
  <2>1. CASE ServerStops
    <3> DEFINE l == server.launch
    <3>1. l \in Launches /\ server' = [Running(l) EXCEPT !.phase = "down"]
      BY <1>2, <2>1 DEF ServerStops, Server
    <3> HIDE DEF l
    <3>2. server' \in Server /\ server'.launch = l /\ server'.phase = "down"
      BY <3>1 DEF Running, Server
    <3> QED
      BY <1>2, <2>1, <3>2 DEF ServerStops, l
  <2>2. CASE ServerStarts
    <3>1. PICK l \in Launches : /\ l.type = Type /\ server' = Running(l)
                                /\ seen' = seen \cup {l}
      BY <2>2 DEF ServerStarts
    <3>2. server' \in Server /\ server'.launch = l
      BY <3>1 DEF Running, Server
    <3>3. starts' \in 1 .. MaxStarts
      BY <1>2, <2>2, LaunchesAssumption DEF ServerStarts
    <3> QED
      BY <1>2, <3>1, <3>2, <3>3 DEF Type
  <2>3. ASSUME UNCHANGED <<starts, seen>>, server' \in Server, server'.launch = server.launch,
               server.phase # "down"
        PROVE  /\ server' \in Server /\ server'.launch.type = server.launch.type
               /\ starts' \in 1 .. MaxStarts /\ seen \subseteq seen' /\ seen' \subseteq Launches
               /\ server'.phase # "down" => server'.launch \in seen'
    BY <1>2, <2>3 DEF IInv, SeenInv
  <2>4. CASE ModelIsLoaded
    BY <1>2, <2>3, <2>4 DEF ModelIsLoaded, Server
  <2>5. CASE RequestComesOrGoes
    <3> DEFINE b == ~server.busy
    <3>1. b \in BOOLEAN /\ server' = [server EXCEPT !.busy = b, !.idle = FALSE, !.asleep = FALSE]
      BY <1>2, <2>5 DEF RequestComesOrGoes, Server
    <3> HIDE DEF b
    <3>2. server' \in Server /\ server'.launch = server.launch
      BY <1>2, <3>1 DEF Server
    <3> QED
      BY <2>3, <2>5, <3>2 DEF RequestComesOrGoes, MaySleep
  <2>6. CASE Idles
    <3> DEFINE i == ~server.idle
               a == server.idle
    <3>1. /\ i \in BOOLEAN /\ a \in BOOLEAN
          /\ server' = [server EXCEPT !.idle = i, !.asleep = a]
      BY <1>2, <2>6 DEF Idles, Server
    <3> HIDE DEF i, a
    <3>2. server' \in Server /\ server'.launch = server.launch
      BY <1>2, <3>1 DEF Server
    <3> QED
      BY <2>3, <2>6, <3>2 DEF Idles, MaySleep
  <2>7. CASE OllamaLoads
    <3>1. PICK ms \in SUBSET Models : server' = [server EXCEPT !.loaded = ms]
      BY <2>7 DEF OllamaLoads
    <3>2. server' \in Server /\ server'.launch = server.launch
      BY <1>2, <3>1 DEF Server
    <3> QED
      BY <2>3, <2>7, <3>2 DEF OllamaLoads
  <2>8. CASE LogsSeries
    BY <1>2, <2>3, <2>8 DEF LogsSeries, Server
  <2> QED
    BY <2>1, <2>2, <2>4, <2>5, <2>6, <2>7, <2>8 DEF Environment
<1>4. StateInv'
    BY <1>1, <1>3 DEF IInv, StateInv
<1>5. PcInv'
    BY <1>1, <1>3 DEF IInv, PcInv, Type
<1>6. SeenInv'
    BY <1>1, <1>3 DEF IInv, SeenInv
<1>7. ModelInv' /\ NameInv' /\ ShownInv'
    BY <1>1, <1>3 DEF IInv, ModelInv, NameInv, ShownInv, Grounded, Known, Gated
<1> QED
    BY <1>4, <1>5, <1>6, <1>7 DEF IInv

LEMMA ElapsesPreserves ==
    ASSUME IInv, NEW clock \in Clocks, Elapses(clock)
    PROVE  IInv'
<1>1. StateInv'
    BY DEF IInv, StateInv, Elapses
<1>2. PcInv' /\ SeenInv' /\ ModelInv' /\ NameInv' /\ ShownInv'
    BY DEF IInv, PcInv, SeenInv, ModelInv, NameInv, ShownInv, Elapses, Type
<1> QED
    BY <1>1, <1>2 DEF IInv

(* A check that records a stop forgets what was seen, and shows that.       *)
LEMMA RecordProbePreserves ==
    ASSUME IInv, NEW route, NEW code \in Codes, Asked(route, code), RecordProbe(code),
           UNCHANGED <<server, adapter, name>>
    PROVE  IInv'
<1> DEFINE ok       == HealthStatus(code) # "Error"
           failures == IF ok THEN 0 ELSE IF engine.failures < 3 THEN engine.failures + 1 ELSE 3
           stops    == failures = 3 /\ engine.failures < 3
           e == IF stops THEN [failures |-> 3, model |-> None, error |-> None]
                         ELSE [engine EXCEPT !.failures = failures]
           asks == status' = "Running" /\ ModelIsDue(waiting')
<1>1. /\ engine' = e
      /\ status' = StatusAfter(code, failures)
      /\ waiting' = IF stops THEN waiting \ {"model"} ELSE waiting
      /\ seen' = IF ~stops THEN seen ELSE IF server.phase = "down" THEN {} ELSE {server.launch}
      /\ \/ asks /\ pc' = ModelRoute /\ UNCHANGED shown
         \/ ~asks /\ ok /\ pc' = MetricsRoute /\ UNCHANGED shown
         \/ pc' = "rest" /\ shown' = Snapshot(status', adapter, e)
    BY DEF RecordProbe
<1>2. UNCHANGED <<server, adapter, name>>
    OBVIOUS
<1>3. starts' = starts /\ lost' \in 0 .. MaxLost /\ (code # 0 => server.launch \in seen)
    BY AnswerIsOfSeen
<1>4. EngineOK(engine) /\ engine.failures \in 0 .. 3
    BY DEF IInv, StateInv, EngineOK
<1>5. failures \in 0 .. 3 /\ (ok => failures = 0) /\ (ok => code # 0)
  <2>1. ok => code # 0
    BY DEF HealthStatus
  <2> HIDE DEF ok
  <2> QED
    BY <1>4, <2>1
<1>6. /\ status' \in {"Running", "Loading", "Stopped"}
      /\ status' = "Running" => ok \/ failures # 3
  <2>1. HealthStatus(code) \in {"Running", "Loading", "Error"}
    BY DEF HealthStatus
  <2>2. status' = IF ok THEN HealthStatus(code) ELSE IF failures = 3 THEN "Stopped" ELSE "Running"
    BY <1>1 DEF StatusAfter
  <2> HIDE DEF failures
  <2> QED
    BY <2>1, <2>2
<1>7. /\ engine' = e
      /\ waiting' = IF stops THEN waiting \ {"model"} ELSE waiting
      /\ seen' = IF ~stops THEN seen ELSE IF server.phase = "down" THEN {} ELSE {server.launch}
      /\ \/ asks /\ pc' = ModelRoute /\ UNCHANGED shown
         \/ ~asks /\ ok /\ pc' = MetricsRoute /\ UNCHANGED shown
         \/ pc' = "rest" /\ shown' = Snapshot(status', adapter, e)
    BY <1>1
<1>8. asks => ok \/ failures # 3
    BY <1>6
<1>9. EngineOK(e) /\ e.failures = failures
  <2> HIDE DEF failures
  <2>1. CASE stops
    BY <2>1 DEF EngineOK, Errors
  <2>2. CASE ~stops
    BY <1>4, <1>5, <2>2 DEF EngineOK
  <2> QED
    BY <2>1, <2>2
<1>10. /\ stops => e.model = None /\ e.error = None
       /\ ~stops => e.model = engine.model /\ e.error = engine.error
  <2> HIDE DEF failures
  <2> QED
    BY <1>4 DEF EngineOK
<1>11. stops => failures = 3 /\ ~ok /\ ~asks
    BY <1>5, <1>8
<1> HIDE DEF ok, failures, stops, e, asks
<1>12. seen' \subseteq Launches /\ waiting' \subseteq Clocks
    BY <1>7 DEF IInv, StateInv, Server
<1>13. StateInv'
  <2>1. EngineOK(engine')
    BY <1>7, <1>9
  <2> QED
    BY <1>2, <1>3, <1>6, <1>12, <2>1 DEF IInv, StateInv
<1>14. PcInv'
    BY <1>2, <1>7 DEF PcInv, ModelRoute, MetricsRoute, ModelIsDue, asks, Type
<1>15. pc' # "hub"
    BY <1>7 DEF ModelRoute, MetricsRoute
<1>16. SeenInv'
  <2>1. server'.phase # "down" => server'.launch \in seen'
    BY <1>2, <1>7 DEF IInv, SeenInv
  <2>2. ASSUME seen' = {} PROVE engine'.failures = 3 /\ pc' = "rest"
    <3>1. CASE stops
      BY <1>7, <1>9, <1>11, <3>1
    <3>2. CASE ~stops
      <4>1. seen = {} /\ engine.failures = 3 /\ ~ok
        BY <1>3, <1>5, <1>7, <2>2, <3>2 DEF IInv, SeenInv
      <4>2. failures = 3
        BY <4>1 DEF failures
      <4> QED
        BY <1>7, <1>8, <1>9, <4>1, <4>2
    <3> QED
      BY <3>1, <3>2
  <2> QED
    BY <2>1, <2>2 DEF SeenInv
<1>17. Grounded(e.model, e.error, seen', adapter.hint)
  <2>1. CASE stops
    BY <1>10, <2>1, NoneAssumption DEF Grounded
  <2>2. CASE ~stops
    BY <1>7, <1>10, <2>2 DEF IInv, ModelInv
  <2> QED
    BY <2>1, <2>2
<1>18. ShownInv'
  <2>1. CASE stops
    BY <1>2, <1>7, <1>11, <1>17, <2>1 DEF ShownInv, Snapshot
  <2>2. CASE ~stops
    BY <1>2, <1>7, <1>17, <2>2 DEF IInv, ShownInv, Snapshot
  <2> QED
    BY <2>1, <2>2
<1>19. ModelInv' /\ NameInv'
    BY <1>2, <1>7, <1>15, <1>17 DEF ModelInv, NameInv
<1> QED
    BY <1>13, <1>14, <1>16, <1>18, <1>19 DEF IInv

LEMMA CheckHealthPreserves ==
    ASSUME IInv, CheckHealth
    PROVE  IInv'
<1>1. PICK code \in Codes :
        /\ Asked(HealthRoute, code)
        /\ \/ ~Predates(code) /\ RecordProbe(code)
           \/ /\ Predates(code) /\ pc' = "/model_info"
              /\ UNCHANGED <<engine, status, waiting, seen, shown>>
    BY DEF CheckHealth
<1>2. UNCHANGED <<server, adapter, name>>
    BY DEF CheckHealth
<1>3. CASE RecordProbe(code)
    BY <1>1, <1>2, <1>3, RecordProbePreserves
<1>4. CASE Predates(code) /\ pc' = "/model_info" /\ UNCHANGED <<engine, status, waiting, seen, shown>>
  <2>1. starts' = starts /\ lost' \in 0 .. MaxLost /\ server.launch \in seen
    BY <1>1, <1>4, AnswerIsOfSeen DEF Predates
  <2>2. StateInv'
    BY <1>2, <1>4, <2>1 DEF IInv, StateInv
  <2>3. PcInv' /\ SeenInv' /\ ModelInv' /\ NameInv' /\ ShownInv'
    BY <1>2, <1>4, <2>1 DEF IInv, PcInv, SeenInv, ModelInv, NameInv, ShownInv
  <2> QED
    BY <2>2, <2>3 DEF IInv
<1> QED
    BY <1>1, <1>3, <1>4

LEMMA AskModelInfoPreserves ==
    ASSUME IInv, AskModelInfo
    PROVE  IInv'
<1>1. PICK code \in Codes : Asked("/model_info", code) /\ RecordProbe(code)
    BY DEF AskModelInfo
<1> QED
    BY <1>1, RecordProbePreserves DEF AskModelInfo

LEMMA AskPropsPreserves ==
    ASSUME IInv, AskProps
    PROVE  IInv'
<1>1. PICK code \in Codes :
        /\ Asked("/props", code)
        /\ LET a == IF code = 200 THEN ServerFacts(adapter) ELSE adapter
           IN  \/ code = 401 /\ CacheModel(a, Named(a.hint, FALSE), "AuthRequired", waiting)
               \/ code # 401 /\ a.role = "Router" /\ CacheModel(a, None, None, waiting)
               \/ /\ code # 401 /\ a.role # "Router"
                  /\ adapter' = a /\ pc' = "/models" /\ UNCHANGED <<engine, waiting, shown>>
    BY DEF AskProps
<1>2. pc = "/props" /\ UNCHANGED <<server, seen, status, name>>
    BY DEF AskProps
<1>3. starts' = starts /\ lost' \in 0 .. MaxLost /\ (code = 401 => Gated(seen))
    BY <1>1, AnswerIsOfSeen
<1>4. seen # {} /\ waiting \subseteq Clocks /\ Type = "LlamaCpp"
    BY <1>2 DEF IInv, SeenInv, StateInv, PcInv
<1> DEFINE a == IF code = 200 THEN ServerFacts(adapter) ELSE adapter
<1>5. a \in Adapter /\ a.hint = adapter.hint
  <2>1. adapter \in Adapter /\ server.launch \in Launches
    BY DEF IInv, StateInv, Server
  <2> DEFINE role  == server.launch.role
             slots == role = "SingleModel" /\ server.launch.slots
  <2>2. role \in {"SingleModel", "Router"} /\ slots \in BOOLEAN
    BY <2>1, LaunchesAssumption
  <2>3. ServerFacts(adapter) = [adapter EXCEPT !.role = role, !.slots = slots]
    BY DEF ServerFacts
  <2> HIDE DEF role, slots
  <2>4. ServerFacts(adapter) \in Adapter /\ ServerFacts(adapter).hint = adapter.hint
    BY <2>1, <2>2, <2>3 DEF Adapter
  <2> QED
    BY <2>1, <2>4
<1>6. \/ code = 401 /\ CacheModel(a, Named(a.hint, FALSE), "AuthRequired", waiting)
      \/ CacheModel(a, None, None, waiting)
      \/ adapter' = a /\ pc' = "/models" /\ UNCHANGED <<engine, waiting, shown>>
    BY <1>1
<1> HIDE DEF a
<1>7. CASE code = 401 /\ CacheModel(a, Named(a.hint, FALSE), "AuthRequired", waiting)
  <2>1. Grounded(Named(a.hint, FALSE), "AuthRequired", seen, adapter.hint)
    BY <1>3, <1>4, <1>5, <1>7, NamesAreKnown DEF Grounded, Named
  <2> QED
    BY <1>2, <1>3, <1>4, <1>5, <1>7, <2>1, CacheModelPreserves DEF Errors
<1>8. CASE CacheModel(a, None, None, waiting)
  <2>1. Grounded(None, None, seen, adapter.hint)
    BY NoneAssumption DEF Grounded
  <2> QED
    BY <1>2, <1>3, <1>4, <1>5, <1>8, <2>1, CacheModelPreserves DEF Errors
<1>9. CASE adapter' = a /\ pc' = "/models" /\ UNCHANGED <<engine, waiting, shown>>
  <2>1. StateInv'
    BY <1>2, <1>3, <1>5, <1>9 DEF IInv, StateInv
  <2>2. PcInv' /\ NameInv' /\ SeenInv'
    BY <1>2, <1>4, <1>9 DEF IInv, PcInv, NameInv, SeenInv, Type
  <2>3. ModelInv' /\ ShownInv'
    BY <1>2, <1>5, <1>9 DEF IInv, ModelInv, ShownInv
  <2> QED
    BY <2>1, <2>2, <2>3 DEF IInv
<1> QED
    BY <1>6, <1>7, <1>8, <1>9

LEMMA AskModelsPreserves ==
    ASSUME IInv, AskModels
    PROVE  IInv'
<1>1. PICK code \in Codes :
        /\ Asked("/models", code)
        /\ LET l == server.launch
               a == IF code # 200 THEN adapter ELSE [adapter EXCEPT !.role = l.role]
           IN  \/ code = 200 /\ l.role = "Router" /\ CacheModel(a, None, None, waiting)
               \/ code = 200 /\ l.role # "Router" /\ CacheModel(a, Named(l.id, FALSE), None, waiting)
               \/ code # 200 /\ CacheModel(a, Named(a.hint, FALSE), ErrorOf(code), waiting)
    BY DEF AskModels
<1>2. pc = "/models" /\ UNCHANGED <<server, seen, status, name>>
    BY DEF AskModels
<1>3. /\ starts' = starts /\ lost' \in 0 .. MaxLost
      /\ code = 401 => Gated(seen)
      /\ code # 0 => server.launch \in seen
    BY <1>1, AnswerIsOfSeen
<1>4. seen # {} /\ waiting \subseteq Clocks /\ Type = "LlamaCpp"
    BY <1>2 DEF IInv, SeenInv, StateInv, PcInv
<1> DEFINE l == server.launch
           a == IF code # 200 THEN adapter ELSE [adapter EXCEPT !.role = l.role]
<1>5. a \in Adapter /\ a.hint = adapter.hint
  <2>1. adapter \in Adapter /\ l.role \in {"SingleModel", "Router"}
    BY LaunchesAssumption DEF IInv, StateInv, Server
  <2> HIDE DEF l
  <2> QED
    BY <2>1 DEF Adapter
<1>6. \/ CacheModel(a, None, None, waiting)
      \/ code = 200 /\ CacheModel(a, Named(l.id, FALSE), None, waiting)
      \/ CacheModel(a, Named(a.hint, FALSE), ErrorOf(code), waiting)
    BY <1>1
<1> HIDE DEF a
<1>7. Grounded(None, None, seen, adapter.hint)
    BY NoneAssumption DEF Grounded
<1>8. code = 200 => Grounded(Named(l.id, FALSE), None, seen, adapter.hint)
  <2>1. code = 200 => l \in seen /\ l.type = "LlamaCpp"
    BY <1>3, <1>4 DEF Type
  <2>2. code = 200 => Known(l.id, seen, adapter.hint)
    <3> HIDE DEF l
    <3> QED
      BY <2>1 DEF Known, NamesWith
  <2> QED
    BY <2>2, NoneAssumption DEF Grounded, Named
<1>9. Grounded(Named(a.hint, FALSE), ErrorOf(code), seen, adapter.hint)
    BY <1>3, <1>4, <1>5, NamesAreKnown DEF Grounded, Named, ErrorOf
<1>10. None \in Errors /\ ErrorOf(code) \in Errors
    BY DEF ErrorOf, Errors
<1> QED
    BY <1>2, <1>3, <1>4, <1>5, <1>6, <1>7, <1>8, <1>9, <1>10, CacheModelPreserves

(* The name taken to the hub is one the server or the command line gave.    *)
LEMMA AskV1ModelsPreserves ==
    ASSUME IInv, AskV1Models
    PROVE  IInv'
<1>1. PICK code \in Codes :
        /\ Asked("/v1/models", code)
        /\ LET resolved == ResolveModelName(code, adapter.hint)
               nm    == IF resolved = None THEN None ELSE NormalizeModelId(resolved)
               error == IF code = 200 THEN None ELSE ErrorOf(code)
               known == adapter.hub = nm
               plain == nm = None \/ "hub" \in waiting \/ nm.as # "repo"
           IN  IF known \/ plain
                 THEN CacheModel(adapter, Named(nm, known), error, waiting) /\ UNCHANGED name
                 ELSE name' = [name |-> nm, error |-> error] /\ pc' = "hub"
                      /\ UNCHANGED <<engine, adapter, waiting, shown>>
    BY DEF AskV1Models
<1> DEFINE resolved == ResolveModelName(code, adapter.hint)
           nm    == IF resolved = None THEN None ELSE NormalizeModelId(resolved)
           error == IF code = 200 THEN None ELSE ErrorOf(code)
           known == adapter.hub = nm
<1>2. pc = "/v1/models" /\ UNCHANGED <<server, seen, status>>
    BY DEF AskV1Models
<1>3. /\ starts' = starts /\ lost' \in 0 .. MaxLost
      /\ code = 401 => Gated(seen)
      /\ code # 0 => server.launch \in seen
    BY <1>1, AnswerIsOfSeen
<1>4. /\ seen # {} /\ waiting \subseteq Clocks /\ Type # "LlamaCpp"
      /\ adapter \in Adapter /\ adapter.hint \in Hints /\ server.launch \in Launches
    BY <1>2 DEF IInv, SeenInv, StateInv, PcInv, Adapter, Server
<1>5. resolved # None => nm \in Ids /\ Known(nm, seen, adapter.hint)
  <2>1. \/ code = 200 /\ resolved = server.launch.id
        \/ resolved = adapter.hint
    BY DEF ResolveModelName
  <2>2. CASE code = 200 /\ resolved = server.launch.id /\ resolved # None
    <3>1. nm = NormalizeModelId(server.launch.id)
      BY <2>2
    <3>2. nm \in Ids
      BY <1>4, <3>1 DEF Ids
    <3>3. server.launch \in seen /\ server.launch.type # "LlamaCpp"
      BY <1>3, <1>4, <2>2 DEF Type
    <3>4. Known(nm, seen, adapter.hint)
      <4> HIDE DEF nm
      <4> QED
        BY <3>1, <3>3 DEF Known, NamesWith
    <3> QED
      BY <3>2, <3>4
  <2>3. CASE resolved = adapter.hint /\ resolved # None
    <3>1. nm = NormalizeModelId(adapter.hint) /\ adapter.hint # None
      BY <2>3
    <3>2. nm \in Ids
      BY <1>4, <3>1 DEF Ids
    <3>3. Known(nm, seen, adapter.hint)
      BY <1>4, <3>1, NamesAreKnown
    <3> QED
      BY <3>2, <3>3
  <2> HIDE DEF resolved, nm
  <2> QED
    BY <2>1, <2>2, <2>3
<1>6. nm # None => resolved # None
    OBVIOUS
<1>7. error \in Errors /\ (error = "AuthRequired" => Gated(seen))
    BY <1>3, NoneAssumption DEF ErrorOf, Errors
<1>8. \/ CacheModel(adapter, Named(nm, known), error, waiting) /\ UNCHANGED name
      \/ /\ nm # None /\ name' = [name |-> nm, error |-> error] /\ pc' = "hub"
         /\ UNCHANGED <<engine, adapter, waiting, shown>>
    BY <1>1
<1> HIDE DEF resolved, nm, error, known
<1>9. CASE CacheModel(adapter, Named(nm, known), error, waiting)
  <2>1. Grounded(Named(nm, known), error, seen, adapter.hint)
    BY <1>5, <1>6, <1>7 DEF Grounded, Named
  <2> QED
    BY <1>2, <1>3, <1>4, <1>7, <1>9, <2>1, CacheModelPreserves
<1>10. CASE /\ nm # None /\ name' = [name |-> nm, error |-> error] /\ pc' = "hub"
            /\ UNCHANGED <<engine, adapter, waiting, shown>>
  <2>1. StateInv'
    BY <1>2, <1>3, <1>10 DEF IInv, StateInv
  <2>2. PcInv' /\ SeenInv'
    BY <1>2, <1>4, <1>10 DEF IInv, PcInv, SeenInv, Type
  <2>3. NameInv'
    BY <1>2, <1>5, <1>6, <1>7, <1>10 DEF NameInv
  <2>4. ModelInv' /\ ShownInv'
    BY <1>2, <1>10 DEF IInv, ModelInv, ShownInv
  <2> QED
    BY <2>1, <2>2, <2>3, <2>4 DEF IInv
<1> QED
    BY <1>8, <1>9, <1>10

(* The hub's answer is kept under the name it was asked for.                *)
LEMMA AskHubPreserves ==
    ASSUME IInv, AskHub
    PROVE  IInv'
<1>1. /\ pc = "hub" /\ UNCHANGED <<server, starts, seen, status>>
      /\ lost' \in 0 .. MaxLost
  <2>1. /\ pc = "hub" /\ UNCHANGED <<server, starts, seen, status>>
        /\ lost' = lost \/ (lost < MaxLost /\ lost' = lost + 1)
    BY DEF AskHub
  <2>2. lost \in 0 .. MaxLost /\ MaxLost \in Nat
    BY LaunchesAssumption DEF IInv, StateInv
  <2> QED
    BY <2>1, <2>2
<1>2. /\ name.name \in Ids /\ Known(name.name, seen, adapter.hint)
      /\ name.error \in Errors /\ (name.error = "AuthRequired" => Gated(seen))
    BY <1>1 DEF IInv, NameInv
<1>3. seen # {} /\ waiting \subseteq Clocks /\ adapter \in Adapter
    BY <1>1 DEF IInv, SeenInv, StateInv
<1> DEFINE a == [adapter EXCEPT !.hub = name.name]
<1>4. a \in Adapter /\ a.hint = adapter.hint
    BY <1>2, <1>3 DEF Adapter
<1>5. \A rich \in BOOLEAN : Grounded(Named(name.name, rich), name.error, seen, adapter.hint)
    BY <1>2 DEF Grounded, Named
<1>6. waiting \cup {"hub"} \subseteq Clocks
    BY <1>3 DEF Clocks
<1>7. \/ CacheModel(a, Named(name.name, TRUE), name.error, waiting)
      \/ CacheModel(adapter, Named(name.name, FALSE), name.error, waiting \cup {"hub"})
    BY DEF AskHub
<1> HIDE DEF a
<1> QED
    BY <1>1, <1>2, <1>3, <1>4, <1>5, <1>6, <1>7, CacheModelPreserves

LEMMA AskMetricsPreserves ==
    ASSUME IInv, AskMetrics
    PROVE  IInv'
<1>1. PICK code \in Codes :
        /\ Asked("/metrics", code)
        /\ LET a == CASE code = 0 \/ Type = "Vllm" -> adapter
                      [] Type = "Sglang"          -> MetricsOffSignal(code, adapter)
                      [] OTHER                    -> Latch(MetricsAnswer(code), adapter)
           IN  \/ /\ ShouldReadSlots(a, code) \/ ShouldAskDrafter(a, code)
                  /\ pc' = IF Type = "Sglang" THEN "/server_info" ELSE "/slots"
                  /\ adapter' = a /\ UNCHANGED <<engine, shown>>
               \/ /\ ~(ShouldReadSlots(a, code) \/ ShouldAskDrafter(a, code))
                  /\ Publish(a, engine)
    BY DEF AskMetrics
<1>2. pc = "/metrics" /\ UNCHANGED <<server, seen, waiting, status, name>>
    BY DEF AskMetrics
<1>3. starts' = starts /\ lost' \in 0 .. MaxLost
    BY <1>1, AnswerIsOfSeen
<1>4. /\ seen # {} /\ waiting \subseteq Clocks /\ adapter \in Adapter /\ server \in Server
      /\ EngineOK(engine)
    BY <1>2 DEF IInv, SeenInv, StateInv
<1> DEFINE a == CASE code = 0 \/ Type = "Vllm" -> adapter
                  [] Type = "Sglang"          -> MetricsOffSignal(code, adapter)
                  [] OTHER                    -> Latch(MetricsAnswer(code), adapter)
<1>5. a \in Adapter /\ a.hint = adapter.hint
  <2>1. /\ MetricsOffSignal(code, adapter) \in Adapter
        /\ MetricsOffSignal(code, adapter).hint = adapter.hint
    <3> DEFINE access == CASE code = 200 -> "Open" [] code = 404 -> "Off" [] OTHER -> adapter.access
    <3>1. access \in {"Open", "Off", "Refused"}
      BY <1>4 DEF Adapter
    <3>2. MetricsOffSignal(code, adapter) = [adapter EXCEPT !.access = access]
      BY DEF MetricsOffSignal
    <3> HIDE DEF access
    <3> QED
      BY <1>4, <3>1, <3>2 DEF Adapter
  <2>2. ASSUME NEW answer
        PROVE  Latch(answer, adapter) \in Adapter /\ Latch(answer, adapter).hint = adapter.hint
    <3> DEFINE access == Latched(answer, adapter)
               role == CASE answer = "On" -> "SingleModel" [] answer = "NeedsModel" -> "Router"
                         [] OTHER -> adapter.role
    <3>1. access \in {"Open", "Off", "Refused"} /\ role \in {None, "SingleModel", "Router"}
      BY <1>4 DEF Adapter, Latched
    <3>2. Latch(answer, adapter) = [adapter EXCEPT !.access = access, !.role = role]
      BY DEF Latch
    <3> HIDE DEF access, role
    <3> QED
      BY <1>4, <3>1, <3>2 DEF Adapter
  <2> QED
    BY <1>4, <2>1, <2>2
<1>6. \/ Publish(a, engine)
      \/ /\ pc' \in {"/server_info", "/slots"}
         /\ adapter' = a /\ UNCHANGED <<engine, shown>>
    BY <1>1
<1> HIDE DEF a
<1>7. CASE Publish(a, engine)
    BY <1>2, <1>3, <1>4, <1>5, <1>7, PublishPreserves DEF IInv, ModelInv
<1>8. CASE /\ pc' \in {"/server_info", "/slots"}
           /\ adapter' = a /\ UNCHANGED <<engine, shown>>
  <2>1. StateInv'
    BY <1>2, <1>3, <1>5, <1>8 DEF IInv, StateInv
  <2>2. PcInv' /\ NameInv' /\ SeenInv'
    BY <1>2, <1>4, <1>8 DEF IInv, PcInv, NameInv, SeenInv
  <2>3. ModelInv' /\ ShownInv'
    BY <1>2, <1>5, <1>8 DEF IInv, ModelInv, ShownInv
  <2> QED
    BY <2>1, <2>2, <2>3 DEF IInv
<1> QED
    BY <1>6, <1>7, <1>8

(* The last question of a tick.                                             *)
LEMMA LastAskPreserves ==
    ASSUME IInv, AskSlots \/ AskServerInfo \/ AskPs
    PROVE  IInv'
<1>1. /\ pc # "rest" /\ UNCHANGED <<seen, status, name>>
      /\ waiting' \in {waiting, waiting \cup {"drafter"}}
    BY DEF AskSlots, AskServerInfo, AskPs
<1>2. PICK code \in Codes, route \in {"/slots", "/server_info", "/api/ps"} :
         /\ Asked(route, code)
         /\ \/ Publish([adapter EXCEPT !.drafter = IF code = 200 THEN server.launch.drafter ELSE @],
                       engine)
            \/ Publish([adapter EXCEPT !.loaded = IF code = 200 THEN server.loaded ELSE @], engine)
    BY DEF AskSlots, AskServerInfo, AskPs
<1>3. starts' = starts /\ lost' \in 0 .. MaxLost
    BY <1>2, AnswerIsOfSeen
<1>4. /\ seen # {} /\ waiting' \subseteq Clocks /\ adapter \in Adapter /\ server \in Server
      /\ EngineOK(engine)
    BY <1>1 DEF IInv, SeenInv, StateInv, Clocks
<1>5. server' \in Server /\ server'.phase = server.phase /\ server'.launch = server.launch
  <2>1. server' \in {server, [server EXCEPT !.idle = FALSE, !.asleep = FALSE]}
    BY DEF AskSlots, AskServerInfo, AskPs
  <2> QED
    BY <1>4, <2>1 DEF Server
<1> DEFINE drafter == IF code = 200 THEN server.launch.drafter ELSE adapter.drafter
           loaded  == IF code = 200 THEN server.loaded ELSE adapter.loaded
           a == [adapter EXCEPT !.drafter = drafter]
           b == [adapter EXCEPT !.loaded = loaded]
<1>6. drafter \in {None} \cup BOOLEAN /\ loaded \in SUBSET Models
  <2>1. server.launch \in Launches /\ server.loaded \in SUBSET Models
        /\ adapter.drafter \in {None} \cup BOOLEAN /\ adapter.loaded \in SUBSET Models
    BY <1>4 DEF Server, Adapter
  <2>2. server.launch.drafter \in BOOLEAN
    BY <2>1, LaunchesAssumption
  <2> QED
    BY <2>1, <2>2
<1>7. Publish(a, engine) \/ Publish(b, engine)
    BY <1>2
<1> HIDE DEF drafter, loaded
<1>8. a \in Adapter /\ a.hint = adapter.hint /\ b \in Adapter /\ b.hint = adapter.hint
    BY <1>4, <1>6 DEF Adapter
<1>9. Grounded(engine.model, engine.error, seen, adapter.hint)
    BY DEF IInv, ModelInv
<1> HIDE DEF a, b
<1> QED
    BY <1>1, <1>3, <1>4, <1>5, <1>7, <1>8, <1>9, PublishPreserves

LEMMA StutterPreserves ==
    ASSUME IInv, UNCHANGED vars
    PROVE  IInv'
<1>1. StateInv'
    BY DEF IInv, StateInv, vars
<1>2. PcInv' /\ SeenInv' /\ ModelInv' /\ NameInv' /\ ShownInv'
    BY DEF IInv, PcInv, SeenInv, ModelInv, NameInv, ShownInv, vars, Type
<1> QED
    BY <1>1, <1>2 DEF IInv

LEMMA Invariance == Spec => []IInv
<1>1. IInv /\ [Next]_vars => IInv'
    BY EnvironmentPreserves, ElapsesPreserves, CheckHealthPreserves, AskModelInfoPreserves,
       AskPropsPreserves, AskModelsPreserves, AskV1ModelsPreserves, AskHubPreserves, AskMetricsPreserves,
       LastAskPreserves, StutterPreserves DEF Next, Tick
<1> QED
    BY <1>1, InitHolds, PTL DEF Spec

-----------------------------------------------------------------------------
(* Type correctness: whatever a route is answered with, the adapter and the *)
(* engine's state never leave the values the code has for them.             *)
THEOREM TypeCorrect == Spec => []TypeOK
<1>1. IInv => TypeOK
    BY DEF IInv, StateInv, TypeOK, EngineOK, Server, Adapter, Errors
<1> QED
    BY <1>1, Invariance, PTL

(* Whatever servers come to be behind the endpoint, and whatever the        *)
(* adapter still remembers of those before, a model on show and a refusal   *)
(* of the key are of a server that ran since the engine was last recorded   *)
(* as stopped.                                                              *)
THEOREM ModelShownIsOfThisServer == Spec => []ModelIsOfThisServer
<1>1. IInv => ModelIsOfThisServer
  <2> SUFFICES ASSUME ShownInv, shown # None
               PROVE  /\ shown.model # None => \E l \in seen : shown.model.name \in NamesOf(l)
                      /\ shown.error = "AuthRequired" => \E l \in seen : l.gated
    BY DEF IInv, ModelIsOfThisServer
  <2>1. \A l : NamesOf(l) = NamesWith(l, adapter.hint)
    BY DEF NamesOf, NamesWith
  <2> QED
    BY <2>1 DEF ShownInv, Grounded, Known, Gated
<1> QED
    BY <1>1, Invariance, PTL
=============================================================================
