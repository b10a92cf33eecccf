----------------------------- MODULE MCDetection -----------------------------
(* Hosts for Detection: a process or two of the host's own, with a child,  *)
(* beside a container.                                                      *)
EXTENDS Detection, TLC

NoEnv == [ollama_host |-> Unset, llama |-> NoSettings]
LlamaEnv(port, alias) ==
    [NoEnv EXCEPT !.llama = [NoSettings EXCEPT !.Port = port, !.Alias = alias]]
OllamaEnv(host, port) ==
    [NoEnv EXCEPT !.ollama_host = [scheme |-> None, host |-> host, port |-> port]]

Proc(cmd, env, at) == [cmd |-> cmd, env |-> env, at |-> at, readable |-> TRUE, parent |-> 0]
Idle == Proc(Words(<<"supervisor">>), NoEnv, None)
Worker == Proc(Words(<<"VLLM::Worker">>), NoEnv, None)

VllmServers == {
    Proc(Words(<<"vllm", "serve", "m1">>), NoEnv, "8000"),
    Proc(Words(<<"python3", "-m", "vllm.entrypoints", "--host", "127.0.0.1", "--port", "8000",
                 "--model", "m1">>), NoEnv, "8000"),
    Proc(Words(<<"vllm", "serve", "--port", "8002", "--port">>) \o Words(<<"8001">>)
         \o Inline("--model", "m1"), NoEnv, "8001")}
SglangServers == {
    Proc(Words(<<"python3", "-m", "sglang.launch_server", "--model-path", "m2", "--host",
                 "0.0.0.0", "--download-dir", "/data/vllm">>), NoEnv, "30000")}
OllamaServers == {
    Proc(Words(<<"ollama", "serve">>), NoEnv, "11434"),
    Proc(Words(<<"ollama", "serve">>), OllamaEnv("", "11500"), "11500"),
    [Proc(Words(<<"ollama", "serve">>), OllamaEnv("", "11500"), "11500") EXCEPT !.readable = FALSE]}
LlamaServers == {
    Proc(Words(<<"llama-server", "-m", "m3">>), NoEnv, "8080"),
    Proc(Words(<<"llama-server", "-m", "m3">>), NoEnv, "9931"),
    Proc(Words(<<"llama-server", "--port", "8090">>), LlamaEnv("8080", "m4"), "8090"),
    Proc(Words(<<"llama-server", "--host", "/run/llama.sock">>), LlamaEnv("8080", "m4"), None)}
Servers == VllmServers \cup SglangServers \cup OllamaServers \cup LlamaServers

Runner == Proc(Words(<<"llama-server", "--port", "40001", "--alias", "m4">>), NoEnv, "40001")
Nested == Proc(Words(<<"vllm", "serve", "m1", "--port", "8002">>), NoEnv, "8002")

(* One server with a child and a grandchild of it, or two servers side by  *)
(* side, under a supervisor.                                                *)
Families ==
    {<<s, [Worker EXCEPT !.parent = 1], [Idle EXCEPT !.parent = 2]>> : s \in Servers}
    \cup {<<s, [Idle EXCEPT !.parent = 1], [Runner EXCEPT !.parent = 2]>>
            : s \in OllamaServers \cup LlamaServers}
    \cup {<<s, [Runner EXCEPT !.parent = 1], [Nested EXCEPT !.parent = 2]>>
            : s \in OllamaServers \cup LlamaServers}
    \cup {<<Idle, [s EXCEPT !.parent = 1], [t EXCEPT !.parent = 1]>> : s, t \in Servers}

Bind(inner, outer) == [container |-> inner, host |-> outer, ip |-> "0.0.0.0", tcp |-> TRUE]
Container(names, image, cmd, mode, ports, env) ==
    [id |-> "c", names |-> names, image |-> image, command |-> cmd, mode |-> mode,
     ports |-> ports, env |-> env, pids |-> {}]
Running(c, cmd, at) ==
    [container |-> c,
     procs |-> <<[Proc(cmd, c.env, at) EXCEPT !.readable = FALSE], [Worker EXCEPT !.parent = 4]>>]

ServeM1 == Words(<<"vllm", "serve", "m1", "--host", "127.0.0.1", "--port", "9000">>)
Sleep   == Words(<<"sleep">>)
Tools   == Words(<<"/app/tools.sh", "--server">>)
Llama   == Words(<<"llama-server", "-m", "m3">>)
Ollama  == Words(<<"ollama", "serve">>)

Reachable == {
    Running(Container({}, {"Vllm"}, ServeM1, "host", <<>>, NoEnv), ServeM1, "9000"),
    Running(Container({}, {"Vllm", "Sglang"}, Words(<<"vllm", "serve", "m1">>), "bridge",
                      <<Bind("8000", "9000")>>, NoEnv), Words(<<"vllm", "serve", "m1">>), "9000"),
    Running(Container({"Vllm"}, {}, Sleep, "host", <<>>, NoEnv), ServeM1, "9000"),
    Running(Container({"Vllm"}, {}, Sleep, "host", <<Bind("80", "9000")>>, NoEnv),
            Words(<<"nginx">>), None),
    Running(Container({"Ollama"}, {"Ollama"}, Ollama, "bridge", <<Bind("11434", "11435")>>, NoEnv),
            Ollama, "11435"),
    Running(Container({}, {"Ollama"}, Ollama, "host", <<>>, OllamaEnv("0.0.0.0", "11435")),
            Ollama, "11435"),
    Running(Container({}, {"Ollama"}, Ollama, "bridge", <<>>, NoEnv), Ollama, None),
    Running(Container({}, {"LlamaCpp"}, Llama, "bridge", <<Bind("80", "8002"), Bind("8080", "9000")>>,
                      LlamaEnv("8080", "m5")), Llama, "9000"),
    Running(Container({}, {"LlamaCpp"}, Tools, "host", <<>>, LlamaEnv("9000", "m5")), Llama, "9000")}
Unpublished == {
    Running(Container({}, {"Sglang"}, Words(<<"sglang", "serve", "m2", "--port", "8000">>), "bridge",
                      <<>>, NoEnv), Words(<<"sglang", "serve", "m2", "--port", "8000">>), None),
    Running(Container({}, {"Vllm"}, Words(<<"vllm", "serve", "m1">>), "bridge", <<>>, NoEnv),
            Words(<<"vllm", "serve", "m1">>), None)}

AnyScene == Reachable \cup Unpublished
=============================================================================
