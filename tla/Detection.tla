------------------------------ MODULE Detection ------------------------------
(***************************************************************************)
(* One detection pass (detect_engines, src/src/engines/detector.rs): scan  *)
(* the process table, ask Docker for its containers and their processes,   *)
(* merge what both found, and probe what is left.                           *)
(*                                                                         *)
(* A pass reads a world that stands still: a process table, containers,    *)
(* and servers behind ports of the host.  What the pass asks of others may *)
(* fail: Docker may be unreachable, a container's process list or its      *)
(* environment unreadable, a probe unanswered.  `trouble` remembers which  *)
(* of these happened, since the code promises less then.                    *)
(***************************************************************************)
EXTENDS LaunchCommands, FiniteSets

CONSTANTS
    Natives,    \* what may run on the host itself: sequences of processes
    Scenes      \* what may run beside it in a container: the container with
                \* its processes

(* Processes and ports are listed, and Docker names a container.            *)
ASSUME HostAssumption ==
    /\ \A native \in Natives : native \in Seq(ToSet(native))
    /\ \A scene \in Scenes :
          /\ scene.procs \in Seq(ToSet(scene.procs))
          /\ {"id", "pids", "ports"} \subseteq DOMAIN scene.container
          /\ scene.container.ports \in Seq(ToSet(scene.container.ports))
          /\ scene.container.id # None

(* A process: its parent (0 for none), command line, environment and       *)
(* whether the dashboard may read that; and the host port on which the     *)
(* server it runs really is, None where it is none or is out of reach.      *)
(* A container: what its name and image mention, its command, environment, *)
(* network mode and ports as Docker lists them, and its processes.          *)

VARIABLES
    world,      \* the host
    pc,         \* which await the pass is at
    candidates, \* what the process scan found, then what is left of it merged
    todo,       \* containers not looked at yet
    containers, \* the candidates Docker gave
    probing,    \* endpoints of the first candidate still to be tried
    verified,   \* what detect_engines returns
    trouble     \* what failed in this pass

vars == <<world, pc, candidates, todo, containers, probing, verified, trouble>>

Pids == DOMAIN world.procs

DetectedEngine(type, endpoints, mode, model, pids, id) ==
    [engine_type |-> type, endpoint |-> Head(endpoints), fallbacks |-> Tail(endpoints),
     mode |-> mode, model |-> model, pids |-> pids, container |-> id]

-----------------------------------------------------------------------------
(* Layer 1: the process scan.                                               *)

Children(pids) == {p \in Pids : world.procs[p].parent \in pids}

(* expand_pid_tree: the roots and all below them, which is the least set    *)
(* that has the roots and, with a process, its children.  Cycles in the    *)
(* parent data are tolerated.                                               *)
ExpandPidTree(roots) ==
    {p \in Pids : \A seen \in SUBSET Pids :
                     roots \subseteq seen /\ Children(seen) \subseteq seen => p \in seen}

EngineOfProcess(p) == EngineOfCommand(world.procs[p].cmd)
Owners == {p \in Pids : EngineOfProcess(p) \in {"Ollama", "LlamaCpp"}}
OwnedChildren == Children(Owners)  \* mutant: grandchildren are nobody's
Owned  == ExpandPidTree(Children(Owners))

(* Where a process's command line and readable environment say it listens, *)
(* and the model it names.                                                  *)
EnvOf(p) == IF world.procs[p].readable THEN world.procs[p].env
            ELSE [ollama_host |-> Unset, llama |-> NoSettings]
LaunchOf(p) == LlamaCppLaunch(world.procs[p].cmd, EnvOf(p).llama)
EndpointsOf(p) ==
    CASE EngineOfProcess(p) = "Ollama" ->
            <<OllamaEndpoint(OllamaHost(EnvOf(p).ollama_host))>>
      [] EngineOfProcess(p) = "LlamaCpp" ->
            ListenEndpoints(Listen(LaunchOf(p), DefaultPorts("Native")))
      [] EngineOfProcess(p) \in {"Vllm", "Sglang"} ->
            <<ParseEndpointFromArgs(world.procs[p].cmd, EngineOfProcess(p))>>
      [] OTHER -> <<>>
ModelOf(p) ==
    CASE EngineOfProcess(p) = "LlamaCpp" -> ServedModel(LaunchOf(p))
      [] EngineOfProcess(p) = "Vllm"     -> ParseModelFromArgs(world.procs[p].cmd)
      [] EngineOfProcess(p) = "Sglang"   -> ParseSglangModel(world.procs[p].cmd)
      [] OTHER -> None

(* One candidate per engine type and endpoint, on the view of the first     *)
(* process there, with the processes of all.  Owned is given, which is what *)
(* belongs to a server that runs servers of its own.                        *)
Scanned(engines, p, owned) ==
    LET type      == EngineOfProcess(p)
        endpoints == EndpointsOf(p)
        slot == SelectInSeq(engines, LAMBDA e : e.engine_type = type
                                                /\ e.endpoint = Head(endpoints))
    IN  IF p \in owned \/ endpoints = <<>> THEN engines
        ELSE IF slot = 0
          THEN Append(engines, DetectedEngine(type, endpoints, "Native", ModelOf(p), {p}, None))
          ELSE [engines EXCEPT ![slot].pids = @ \cup {p}]

(* The table is read once, by PID; then every candidate gets the processes *)
(* below its own.                                                           *)
EnginesFromProcesses ==
    LET owned == Owned
        read[n \in 0 .. Len(world.procs)] ==
            IF n = 0 THEN <<>> ELSE Scanned(read[n - 1], n, owned)
        engines == read[Len(world.procs)]
    IN  [i \in DOMAIN engines |-> [engines[i] EXCEPT !.pids = ExpandPidTree(@)]]

-----------------------------------------------------------------------------
(* Layer 2: Docker.                                                         *)

(* classify_container: image, then command, then name, each by how much it *)
(* says; what stays tied between vLLM and SGLang goes to vLLM.              *)
ClassifyContainer(c) ==
    LET The(types) == IF types = {} THEN None ELSE CHOOSE t \in types : TRUE
        pair == c.image \cap {"Vllm", "Sglang"}
        said == Mentioned(c.command)
        Tied(types) == IF "Vllm" \in types THEN "Vllm" ELSE The(types \cap {"Sglang"})
        strong == FirstOf(<<The(c.image \cap {"Ollama"}), The(c.image \cap {"LlamaCpp"}),
                            IF Cardinality(pair) = 1 THEN The(pair) ELSE None,
                            EngineOfCommand(c.command), Tied(said), Tied(pair)>>)
        weak == FirstOf(<<Tied(c.names), The(c.names \cap {"Ollama"}),
                          The(c.names \cap {"LlamaCpp"})>>)
    IN  [type |-> FirstOf(<<strong, weak>>), strong |-> strong # None]

SharesNetwork(c) == c.mode \in {"host", "container:other", None}

(* ollama_container_endpoint, llamacpp_container_endpoints: none for a     *)
(* server the host cannot reach.  Of a llama.cpp container every published *)
(* address is tried once, those of the ports it may listen on first.        *)
OllamaContainerEndpoints(c, listen) ==
    LET published == SelectInSeq(c.ports, LAMBDA b : b.tcp /\ b.container = listen.port
                                                     /\ b.host # None)
    IN  IF c.mode = "host" THEN <<OllamaEndpoint(listen)>>
        ELSE IF published # 0
          THEN <<OllamaEndpoint([host |-> c.ports[published].ip, port |-> c.ports[published].host])>>
        ELSE IF SharesNetwork(c) THEN <<OllamaEndpoint(listen)>> ELSE <<>>

LlamaCppContainerEndpoints(c, listen) ==
    LET Rank(i) ==
            LET place == SelectInSeq(listen.ports, LAMBDA port : port = c.ports[i].container)
            IN  IF place = 0 THEN Len(listen.ports) + 1 ELSE place
        Before(i, j) == Rank(i) < Rank(j) \/ (Rank(i) = Rank(j) /\ i < j)
        At(i)    == LlamaCppEndpoint(c.ports[i].ip, c.ports[i].host)
        bindings == {i \in DOMAIN c.ports : c.ports[i].tcp /\ c.ports[i].host # None}
        distinct == {i \in bindings : \A j \in bindings : Before(j, i) => At(j) # At(i)}
        Nth(n)   == CHOOSE i \in distinct : Cardinality({j \in distinct : Before(j, i)}) = n - 1
    IN  IF c.mode # "host" /\ distinct # {}
          THEN [n \in 1 .. Cardinality(distinct) |-> At(Nth(n))]
        ELSE IF SharesNetwork(c) THEN ListenEndpoints(listen) ELSE <<>>

RunsEngine(cmd, type) == EngineOfCommand(cmd) = type

LlamaCppContainerCommand(c, commands) ==
    LET i == SelectInSeq(commands, LAMBDA cmd : RunsEngine(cmd, "LlamaCpp"))
    IN  IF RunsEngine(c.command, "LlamaCpp") \/ i = 0 THEN c.command ELSE commands[i]

ParseModelFor(type, cmd) ==
    CASE type = "Vllm"     -> ParseModelFromCommandStr(cmd)
      [] type = "Sglang"   -> ParseSglangModel(cmd)
      [] type = "Ollama"   -> None
      [] type = "LlamaCpp" -> ServedModel(LlamaCppLaunch(cmd, NoSettings))

(* vLLM's or SGLang's port: any port the container publishes, else one its *)
(* command names, else one of its processes', else the default.             *)
DockerPort(c, commands) ==
    FirstOf([i \in DOMAIN c.ports |-> c.ports[i].host]
            \o <<ParsePortFromCommandStr(c.command)>>
            \o [i \in DOMAIN commands |-> ParsePortFromCommandStr(commands[i])])
DockerEndpoint(port, type) ==
    Endpoint("localhost", IF port = None THEN DefaultPort(type) ELSE port)

(* What the Docker scan makes of a container, given its process list and   *)
(* its environment as far as they could be had: a sequence of no candidate *)
(* or one.                                                                  *)
Rows(pids) == SetToSortSeq(pids, LAMBDA p, q : p < q)
TopCommands(pids) == [i \in DOMAIN Rows(pids) |-> world.procs[Rows(pids)[i]].cmd]

ContainerLaunch(c, commands, env) ==
    LlamaCppLaunch(LlamaCppContainerCommand(c, commands), env.llama)
ContainerEndpoints(c, type, commands, env) ==
    CASE type = "Ollama"   -> OllamaContainerEndpoints(c, OllamaHost(env.ollama_host))
      [] type = "LlamaCpp" ->
            LET listen == Listen(ContainerLaunch(c, commands, env), DefaultPorts("Docker"))
            IN  IF listen.ports = <<>> THEN <<>> ELSE LlamaCppContainerEndpoints(c, listen)
      [] OTHER -> <<DockerEndpoint(DockerPort(c, commands), type)>>
ContainerModel(c, type, commands, env) ==
    IF type = "LlamaCpp" THEN ServedModel(ContainerLaunch(c, commands, env))
    ELSE FirstOf(<<ParseModelFor(type, c.command)>>
                 \o [i \in DOMAIN commands |-> ParseModelFor(type, commands[i])])

DockerCandidate(c, pids, env) ==
    LET class     == ClassifyContainer(c)
        type      == class.type
        commands  == TopCommands(pids)
        endpoints == ContainerEndpoints(c, type, commands, env)
        confirmed == class.strong \/ \E i \in DOMAIN commands : RunsEngine(commands[i], type)
    IN  IF type = None \/ ~confirmed \/ endpoints = <<>> THEN <<>>
        ELSE <<DetectedEngine(type, endpoints, "Docker", ContainerModel(c, type, commands, env),
                              pids, c.id)>>

-----------------------------------------------------------------------------
(* Merging.                                                                 *)

(* absorb_container_processes: a candidate that is only the container's    *)
(* processes goes, and may leave its model behind; any other is left       *)
(* without them.                                                            *)
Claimed(acc, e) ==
    IF e.pids # {} /\ e.pids \subseteq acc.container.pids
      THEN [acc EXCEPT !.container.model =
              IF @ = None /\ e.engine_type = acc.container.engine_type THEN e.model ELSE @]
      ELSE [acc EXCEPT !.candidates = Append(@, [e EXCEPT !.pids = @ \ acc.container.pids])]

AbsorbedNever(engines, c) ==       \* mutant: joined on the endpoint alone
    [candidates |-> engines, container |-> c]
AbsorbedWholly(engines, c) ==      \* mutant: what a candidate keeps is not trimmed
    [candidates |-> SelectSeq(engines, LAMBDA e : ~(e.pids # {} /\ e.pids \subseteq c.pids)),
     container  |-> c]

Absorbed(engines, c) ==
    LET claimed[n \in 0 .. Len(engines)] ==
            IF n = 0 THEN [candidates |-> <<>>, container |-> c]
            ELSE Claimed(claimed[n - 1], engines[n])
    IN  claimed[Len(engines)]

(* join_on_endpoint: the first engine of the candidate's type on its        *)
(* endpoint takes its processes, and the fallback endpoints it lacks.       *)
WithFallbacks(e, c) ==
    LET added[n \in 0 .. Len(c.fallbacks)] ==
            IF n = 0 THEN e.fallbacks
            ELSE IF c.fallbacks[n] = e.endpoint \/ Contains(added[n - 1], c.fallbacks[n])
              THEN added[n - 1] ELSE Append(added[n - 1], c.fallbacks[n])
    IN  added[Len(c.fallbacks)]

Joining(e, c) ==
    LET docker == c.mode = "Docker"
    IN  [engine_type |-> e.engine_type, endpoint |-> e.endpoint,
         fallbacks |-> WithFallbacks(e, c),
         mode  |-> IF docker THEN "Docker" ELSE e.mode,
         model |-> IF (docker /\ c.model # None) \/ e.model = None THEN c.model ELSE e.model,
         pids  |-> e.pids \cup c.pids,
         container |-> IF e.container = None THEN c.container ELSE e.container]

Joined(engines, c) ==
    LET same == SelectInSeq(engines, LAMBDA e : e.engine_type = c.engine_type
                                                /\ e.endpoint = c.endpoint)
    IN  IF same = 0 THEN Append(engines, c)
        ELSE [engines EXCEPT ![same] = Joining(@, c)]

(* merge_docker_candidates: every container claims its processes before    *)
(* any joins a candidate by its endpoint.                                   *)
Merged(engines, found) ==
    LET claimed[n \in 0 .. Len(found)] ==
            IF n = 0 THEN [candidates |-> engines, found |-> <<>>]
            ELSE LET a == Absorbed(claimed[n - 1].candidates, found[n])
                 IN  [candidates |-> a.candidates,
                      found |-> Append(claimed[n - 1].found, a.container)]
        joined[n \in 0 .. Len(found)] ==
            IF n = 0 THEN claimed[Len(found)].candidates
            ELSE Joined(joined[n - 1], claimed[Len(found)].found[n])
    IN  joined[Len(found)]

-----------------------------------------------------------------------------
(* Layer 3: the probe.                                                      *)

(* The routes each kind of server answers with success; `header` is the    *)
(* Server header of every llama-server answer.  SGLang and llama-server    *)
(* answer vLLM's /health too.                                               *)
Routes(type) ==
    CASE type = "Vllm"     -> {"/health"}
      [] type = "Sglang"   -> {"/health", "/ready", "/model_info", "/api/tags"}
      [] type = "Ollama"   -> {"/api/version", "/api/ps", "/api/tags"}
      [] type = "LlamaCpp" -> {"/health", "header"}
      [] OTHER             -> {}

Loopback == {"localhost", "127.0.0.1"}
ServersAt(endpoint) ==
    {p \in Pids : endpoint.host \in Loopback /\ world.procs[p].at = endpoint.port}

ProbeEngine(endpoint, type) ==
    LET routes == UNION {Routes(EngineOfProcess(p)) : p \in ServersAt(endpoint)}
    IN  CASE type = "Vllm"     -> "/health" \in routes
          [] type = "Sglang"   -> "/model_info" \in routes
          [] type = "Ollama"   -> {"/api/version", "/api/ps"} \subseteq routes
          [] type = "LlamaCpp" -> "header" \in routes

-----------------------------------------------------------------------------
(* The pass.                                                                *)

(* A host with both; no two of its servers are on one port.                 *)
Host(native, scene) ==
    LET procs == native \o scene.procs
    IN  [procs |-> procs,
         containers |-> <<[scene.container EXCEPT !.pids = (Len(native) + 1) .. Len(procs)]>>]
Possible(host) ==
    \A p, q \in DOMAIN host.procs :
        p # q /\ host.procs[p].at = host.procs[q].at => host.procs[p].at = None

Init ==
    /\ \E native \in Natives, scene \in Scenes :
          Possible(Host(native, scene)) /\ world = Host(native, scene)
    /\ pc = "idle" /\ trouble = {}
    /\ candidates = <<>> /\ todo = <<>> /\ containers = <<>>
    /\ probing = <<>> /\ verified = <<>>

ScanProcesses ==
    /\ pc \in {"idle", "done"}
    /\ candidates' = EnginesFromProcesses
    /\ pc' = "list" /\ verified' = <<>> /\ trouble' = {}
    /\ containers' = <<>>
    /\ UNCHANGED <<world, todo, probing>>

(* Docker answers with the running containers, or not at all.               *)
ListContainers ==
    /\ pc = "list"
    /\ pc' = "top"
    /\ \/ todo' = world.containers /\ UNCHANGED trouble
       \/ todo' = <<>> /\ trouble' = trouble \cup {"list"}
    /\ UNCHANGED <<world, candidates, containers, probing, verified>>

(* docker top and docker inspect of the next container.  Neither is asked  *)
(* of a container that is no engine by its looks, the environment only for *)
(* the two engine types that read it.                                       *)
ScanContainer ==
    /\ pc = "top" /\ todo # <<>>
    /\ LET c    == Head(todo)
           type == ClassifyContainer(c).type
       IN  \E top, inspect \in BOOLEAN :
             /\ top \/ type # None
             /\ inspect \/ type \in {"Ollama", "LlamaCpp"}
             /\ containers' = containers \o
                    DockerCandidate(c, IF top THEN c.pids ELSE {},
                                    IF inspect THEN c.env
                                    ELSE [ollama_host |-> Unset, llama |-> NoSettings])
             /\ trouble' = trouble \cup (IF top THEN {} ELSE {"top"})
                                   \cup (IF inspect THEN {} ELSE {"inspect"})
    /\ todo' = Tail(todo)
    /\ UNCHANGED <<world, pc, candidates, probing, verified>>

BeginFirst(engines) ==             \* mutant: the fallback endpoints are forgotten
    /\ candidates' = engines
    /\ probing' = IF engines = <<>> THEN <<>> ELSE <<Head(engines).endpoint>>
    /\ pc' = IF engines = <<>> THEN "done" ELSE "probe"
BeginEmpty(engines) ==             \* mutant: a pass without candidates waits for one
    /\ candidates' = engines
    /\ probing' = IF engines = <<>> THEN <<>>
                  ELSE <<Head(engines).endpoint>> \o Head(engines).fallbacks
    /\ pc' = "probe"

Begin(engines) ==
    /\ candidates' = engines
    /\ probing' = IF engines = <<>> THEN <<>>
                  ELSE <<Head(engines).endpoint>> \o Head(engines).fallbacks
    /\ pc' = IF engines = <<>> THEN "done" ELSE "probe"

Merge ==
    /\ pc = "top" /\ todo = <<>>
    /\ Begin(Merged(candidates, containers))
    /\ UNCHANGED <<world, todo, containers, verified, trouble>>

OnlyAt(e, endpoint) == [[e EXCEPT !.endpoint = endpoint] EXCEPT !.fallbacks = <<>>]

(* The first candidate answers on the endpoint tried, and joins what was   *)
(* verified before; or it does not, and the next is tried, if it has one.   *)
Answers ==
    /\ pc = "probe"
    /\ ProbeEngine(Head(probing), Head(candidates).engine_type)
    /\ verified' = Joined(verified, OnlyAt(Head(candidates), Head(probing)))
    /\ Begin(Tail(candidates))
    /\ UNCHANGED <<world, todo, containers, trouble>>

DoesNotAnswer ==
    /\ pc = "probe"
    /\ trouble' = IF ProbeEngine(Head(probing), Head(candidates).engine_type)
                    THEN trouble \cup {"probe"} ELSE trouble
    /\ IF Len(probing) > 1
         THEN probing' = Tail(probing) /\ UNCHANGED <<pc, candidates>>
         ELSE Begin(Tail(candidates))
    /\ UNCHANGED <<world, todo, containers, verified>>

Next == ScanProcesses \/ ListContainers \/ ScanContainer \/ Merge \/ Answers \/ DoesNotAnswer

Spec == Init /\ [][Next]_vars

-----------------------------------------------------------------------------
TypeOK ==
    /\ pc \in {"idle", "list", "top", "probe", "done"}
    /\ trouble \subseteq {"list", "top", "inspect", "probe"}
    /\ \A e \in ToSet(candidates \o containers \o verified) :
          /\ e.engine_type \in EngineTypes
          /\ e.pids \subseteq Pids
          /\ e.mode = "Docker" <=> e.container # None
    /\ pc = "probe" => candidates # <<>>
    /\ pc = "probe" <=> probing # <<>>
    /\ pc \in {"list", "top"} => verified = <<>>

(* What is really there, told by the world and not by the scans.            *)
Contained(c) == world.containers[c].pids
AncestorsOf(p) ==
    LET above[n \in 0 .. Cardinality(Pids)] ==
            IF n = 0 THEN p
            ELSE LET q == above[n - 1] IN IF q \in Pids THEN world.procs[q].parent ELSE 0
    IN  {above[n] : n \in 1 .. Cardinality(Pids)} \cap Pids
OwnServer(p) ==
    \A q \in AncestorsOf(p) : ~(IsOllamaServer(world.procs[q].cmd) \/ IsLlamaServer(world.procs[q].cmd))
EngineOf(c) == ClassifyContainer(world.containers[c]).type

(* A vLLM or SGLang container off the host's network that publishes no     *)
(* port is looked for on the one it uses inside, or on the default one: on  *)
(* the host that may be another server's.                                   *)
Assumed(e) ==
    \E c \in DOMAIN world.containers :
        /\ world.containers[c].id = e.container
        /\ e.engine_type \in {"Vllm", "Sglang"}
        /\ ~SharesNetwork(world.containers[c]) /\ world.containers[c].ports = <<>>

(* No server becomes two engines, though the process scan and Docker see   *)
(* it under different addresses and with different ports: where Docker     *)
(* listed every container's processes, and no port had to be assumed, two  *)
(* results never reach one server.                                          *)
OneServerOneEngine ==
    pc = "done" /\ trouble \cap {"list", "top"} = {} =>
        \A i, j \in DOMAIN verified :
            /\ i # j
            /\ ~Assumed(verified[i]) /\ ~Assumed(verified[j])
            => verified[i].endpoint.port # verified[j].endpoint.port

(* What the scan reads as a server, and two processes it reads as one:     *)
(* a server and what started it may both name it.                           *)
IsServer(p) == p \in Pids \ Owned /\ EndpointsOf(p) # <<>>
OneCandidate(p, q) ==
    EngineOfProcess(p) = EngineOfProcess(q) /\ Head(EndpointsOf(p)) = Head(EndpointsOf(q))
OneServerPerTree ==
    \A p, q \in Pids :
        IsServer(p) /\ IsServer(q) /\ q \in ExpandPidTree({p}) => OneCandidate(p, q)

(* A process's GPU memory is counted for one engine, whatever failed: no   *)
(* process is in two results, whether a child of a server, a container's,  *)
(* or both.  Only a server that starts a server of another engine or on    *)
(* another address, and is neither Ollama nor llama.cpp, shares it.         *)
ProcessHasOneEngine ==
    \A i, j \in DOMAIN verified :
        i # j => verified[i].pids \cap verified[j].pids = {} \/ ~OneServerPerTree

(* The servers Ollama and a llama.cpp router run for their models are      *)
(* theirs, however deep in the process tree: no engine is one of them.      *)
ChildIsNeverAnEngine ==
    \A i \in DOMAIN verified :
        ~Assumed(verified[i]) => \E p \in ServersAt(verified[i].endpoint) : OwnServer(p)

(* A server that answers is found: when nothing failed, every server of    *)
(* its own that a port of the host reaches is a result, on that port and   *)
(* with all its descendants.  Excepted are one whose address the dashboard *)
(* is not allowed to read, and one of two llama-servers first looked for   *)
(* in one place, which become one candidate.                                *)
Told(p) ==
    \/ world.procs[p].readable
    \/ \E c \in DOMAIN world.containers : p \in Contained(c) /\ EngineOf(c) # None
FirstLook(p) == IF EndpointsOf(p) = <<>> THEN {} ELSE {Head(EndpointsOf(p))}
Doubled(p) ==
    \E q \in Pids \ {p} :
        /\ OwnServer(q) /\ EngineOfProcess(p) = "LlamaCpp" /\ EngineOfProcess(q) = "LlamaCpp"
        /\ FirstLook(p) \cap FirstLook(q) # {}
EveryServerIsFound ==
    pc = "done" /\ trouble = {} =>
        \A p \in Pids :
            /\ world.procs[p].at # None /\ OwnServer(p) /\ Told(p) /\ ~Doubled(p)
            => \E i \in DOMAIN verified :
                  /\ verified[i].engine_type = EngineOfProcess(p)
                  /\ verified[i].endpoint.port = world.procs[p].at
                  /\ ExpandPidTree({p}) \subseteq verified[i].pids

(* The comment at detector.rs:486 on a port that had to be assumed: the    *)
(* probe rejects a wrong one, "so a wrong assumption costs one request and *)
(* corrects itself".  So a container's engine is on a server of its own.    *)
WrongGuessIsRejected ==
    \A i \in DOMAIN verified :
        verified[i].mode = "Docker" =>
            \E c \in DOMAIN world.containers :
                /\ world.containers[c].id = verified[i].container
                /\ ServersAt(verified[i].endpoint) \subseteq Contained(c)
=============================================================================
