--------------------------- MODULE LaunchCommands ---------------------------
(***************************************************************************)
(* What engine detection reads off a command line and an environment       *)
(* (src/src/engines/detector.rs, and OllamaHost in ollama.rs): which       *)
(* engine it runs, where that listens, and which model it serves.          *)
(*                                                                         *)
(* A command line is a sequence of arguments.  An argument is a word, and  *)
(* for --flag=value the value written with it.  Words are atoms: the ones  *)
(* the code tells apart are listed here, and any other word is just a      *)
(* value.  Ports are words too, since that is how a command spells them.   *)
(***************************************************************************)
EXTENDS Integers, Sequences, SequencesExt, FiniteSetsExt

None == "None"                          \* an Option that is None
Words(words) == [i \in DOMAIN words |-> [word |-> words[i], value |-> None]]
Inline(flag, value) == <<[word |-> flag, value |-> value]>>

EngineTypes == {"Vllm", "Sglang", "Ollama", "LlamaCpp"}

(* server_named_by: the CLI of vLLM or SGLang by any path, or the module   *)
(* python runs.  ServerNames says which words are such a name.              *)
ServerNames == [Vllm   |-> {"vllm", "vllm.entrypoints"},
                Sglang |-> {"sglang", "sglang.launch_server", "sglang.srt"}]
ServerNamedBy(word) ==
    IF \E t \in DOMAIN ServerNames : word \in ServerNames[t]
      THEN CHOOSE t \in DOMAIN ServerNames : word \in ServerNames[t] ELSE None

(* A wrapper's quoted command line ("vllm serve ...") mentions an engine   *)
(* within a word; so does a path.  Every server name mentions its engine.   *)
Mentioning == [Vllm   |-> ServerNames.Vllm \cup {"/data/vllm", "'vllm serve'"},
               Sglang |-> ServerNames.Sglang \cup {"'sglang serve'"}]
Mentioned(cmd) ==
    {t \in DOMAIN Mentioning : \E i \in DOMAIN cmd : cmd[i].word \in Mentioning[t]}

Word(cmd, i) == IF i \in DOMAIN cmd THEN cmd[i].word ELSE None

IsOllamaServer(cmd) == Word(cmd, 1) = "ollama" /\ Word(cmd, 2) = "serve"
IsLlamaServer(cmd)  == Word(cmd, 1) = "llama-server"

(* engine_of_command: Ollama by its program and subcommand, llama.cpp by   *)
(* its program, else the first argument that names a server.               *)
EngineOfCommand(cmd) ==
    IF IsOllamaServer(cmd) THEN "Ollama"
    ELSE IF IsLlamaServer(cmd) THEN "LlamaCpp"
    ELSE LET named == SelectInSeq(cmd, LAMBDA arg : ServerNamedBy(arg.word) # None)
         IN  IF named = 0 THEN None ELSE ServerNamedBy(cmd[named].word)

-----------------------------------------------------------------------------
(* Values of flags.                                                         *)

Blank == {"", " "}
IsFlag(word) == word \in {"--port", "--host", "--model", "--model-path",
                          "--served-model-name", "-m", "-a", "--alias", "-hf",
                          "--hf-repo", "-dr", "--docker-repo", "--server"}

(* Reading left to right, a flag the scan knows takes the value written    *)
(* with it, or takes the next argument, whatever that is.  The value of a   *)
(* setting is the last one given to any of its flags.                       *)
LastValue(cmd, known, flags) ==
    LET Given(i) == IF cmd[i].value # None THEN cmd[i].value ELSE Word(cmd, i + 1)
        takes[i \in 0 .. Len(cmd)] ==
            i > 0 /\ cmd[i].word \in known /\ cmd[i].value = None /\ ~takes[i - 1]
        at == {i \in DOMAIN cmd : cmd[i].word \in flags /\ Given(i) # None /\ ~takes[i - 1]}
    IN  IF at = {} THEN None ELSE Given(Max(at))

(* What is given to a flag, argument by argument.                            *)
GivenTo(cmd, flag) ==
    [i \in DOMAIN cmd |->
        IF cmd[i].word # flag THEN None
        ELSE IF cmd[i].value # None THEN cmd[i].value ELSE Word(cmd, i + 1)]

NamesModel(word) == word \notin Blank /\ ~IsFlag(word)
PortNumbers == {"0", "8000", "8001", "8002", "8080", "8090", "9000", "9931",
                "11434", "11435", "11500", "30000", "40001"}
IsPort(word) == word \in PortNumbers

(* The word after the first "serve" at or behind position i.                *)
ServedAfter(cmd, i) ==
    LET serve == SelectInSeq([j \in DOMAIN cmd |-> j],
                             LAMBDA j : j >= i /\ cmd[j].word = "serve")
        model == Word(cmd, serve + 1)
    IN  IF serve # 0 /\ model # None /\ NamesModel(model) THEN model ELSE None

(* The first of several options that says something.                        *)
FirstOf(options) ==
    LET i == SelectInSeq(options, LAMBDA o : o # None)
    IN  IF i = 0 THEN None ELSE options[i]

(* A flag with a value that names no model is passed over.                  *)
FirstModel(cmd, flag) == FirstOf(SelectSeq(GivenTo(cmd, flag), NamesModel))

ParseModelFromArgs(cmd) ==
    FirstOf(<<FirstModel(cmd, "--model")>>
            \o [i \in DOMAIN cmd |-> IF cmd[i].word \in ServerNames.Vllm
                                       THEN ServedAfter(cmd, i + 1) ELSE None])

(* A docker top row is the same words, joined and split again.              *)
ParseModelFromCommandStr(cmd) == ParseModelFromArgs(cmd)

ParseSglangModel(cmd) ==
    FirstOf(<<FirstModel(cmd, "--model-path"),
              FirstModel(cmd, "--model"),
              FirstModel(cmd, "--served-model-name"),
              ServedAfter(cmd, 1)>>)

ParsePortFromCommandStr(cmd) == FirstOf(SelectSeq(GivenTo(cmd, "--port"), IsPort))

-----------------------------------------------------------------------------
(* Endpoints.  Every spelling of the loopback reaches the same server, but *)
(* they are different strings, and the code compares strings.               *)

Endpoint(host, port) == [host |-> host, port |-> port]
Wildcards == {"0.0.0.0", "::"}

DefaultPorts(mode) == IF mode = "Native" THEN <<"9931", "8080">> ELSE <<"8080", "9931">>
DefaultPort(type) ==
    CASE type = "Vllm"     -> "8000"
      [] type = "Sglang"   -> "30000"
      [] type = "Ollama"   -> "11434"
      [] type = "LlamaCpp" -> DefaultPorts("Native")[1]

ParseEndpointFromArgs(cmd, type) ==
    LET host == LastValue(cmd, {"--host", "--port"}, {"--host"})
        port == LastValue(cmd, {"--host", "--port"}, {"--port"})
    IN  Endpoint(IF host \in {None, "0.0.0.0"} THEN "localhost" ELSE host,
                 IF port = None THEN DefaultPort(type) ELSE port)

(* OLLAMA_HOST, split as Ollama splits it: a scheme, a host that may be    *)
(* empty, and a port that may be missing, empty or no number.               *)
Unset == [scheme |-> None, host |-> "", port |-> None]
OllamaHost(value) ==
    LET default == CASE value.scheme = "http"  -> "80"
                     [] value.scheme = "https" -> "443"
                     [] OTHER                  -> DefaultPort("Ollama")
    IN  [host |-> IF value.host = "" /\ value.port = None THEN "127.0.0.1" ELSE value.host,
         port |-> IF IsPort(value.port) THEN value.port ELSE default]
OllamaEndpoint(listen) ==
    Endpoint(IF listen.host \in Wildcards \cup {""} THEN "127.0.0.1" ELSE listen.host,
             listen.port)

(* What a llama-server's launch sets, by flag or else by LLAMA_ARG_*.  The *)
(* blank ones are dropped after the choice between the two.                 *)
LlamaCppSetting == [Host |-> {"--host"}, Port |-> {"--port"}, Alias |-> {"-a", "--alias"},
                    HfRepo |-> {"-hf", "--hf-repo"}, DockerRepo |-> {"-dr", "--docker-repo"},
                    Model |-> {"-m", "--model"}]
LlamaCppFlags == UNION {LlamaCppSetting[s] : s \in DOMAIN LlamaCppSetting}
NoSettings == [Host |-> None, Port |-> None, Alias |-> None,
               HfRepo |-> None, DockerRepo |-> None, Model |-> None]

LlamaCppLaunch(cmd, env) ==
    LET Read(s) ==
            LET flag  == LastValue(cmd, LlamaCppFlags, LlamaCppSetting[s])
                value == IF flag # None THEN flag ELSE env[s]
            IN  IF value \in Blank THEN None ELSE value
    IN  [Host |-> Read("Host"), Port |-> IF IsPort(Read("Port")) THEN Read("Port") ELSE None,
         Alias |-> Read("Alias"), HfRepo |-> Read("HfRepo"),
         DockerRepo |-> Read("DockerRepo"), Model |-> Read("Model")]

ServedModel(launch) == FirstOf(<<launch.Alias, launch.HfRepo, launch.DockerRepo, launch.Model>>)

IsTcpHost(host) == host # "/run/llama.sock"

(* Where it listens: a host, and the ports to try in order; no ports where *)
(* it listens on none that its launch names.                                *)
Listen(launch, defaults) ==
    [host  |-> launch.Host,
     ports |-> IF launch.Port = "0" \/ ~IsTcpHost(launch.Host) THEN <<>>
               ELSE IF launch.Port = None THEN defaults ELSE <<launch.Port>>]

LlamaCppEndpoint(host, port) ==
    Endpoint(IF host \in Wildcards \cup {None, ""} THEN "localhost" ELSE host, port)
ListenEndpoints(listen) ==
    [i \in DOMAIN listen.ports |-> LlamaCppEndpoint(listen.host, listen.ports[i])]
=============================================================================
