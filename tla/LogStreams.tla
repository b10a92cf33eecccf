----------------------------- MODULE LogStreams -----------------------------
(***************************************************************************)
(* The server's side of the log viewer (src/src/logs.rs): one task per     *)
(* container follows its Docker log and publishes lines over a broadcast    *)
(* channel, every WebSocket on that container subscribes to the channel,   *)
(* and a registry says which containers have a task.  The runtime has many  *)
(* threads: any two of these take turns at their awaits and at the lock.    *)
(*                                                                         *)
(* A container's output is counted in half lines, since Docker's frames     *)
(* split lines; a frame of several lines is taken as so many frames.        *)
(* Standard error, which has a buffer of its own, is left out.              *)
(***************************************************************************)
EXTENDS Integers, Sequences

CONSTANTS
    Containers,
    Sockets,    \* connections to /ws/logs, each used once
    Capacity,   \* LOG_CHANNEL_CAPACITY
    TailLines,  \* how many past lines Docker is asked for
    MaxOutput,  \* half lines a container may write
    MaxStreams  \* stream tasks one behaviour may start

ASSUME StreamsAssumption ==
    /\ Containers # {} /\ Sockets # {}
    /\ Capacity \in Nat \ {0}
    /\ TailLines \in Nat
    /\ MaxOutput \in Nat
    /\ MaxStreams \in Nat

Streams  == 1 .. MaxStreams
NoStream == 0

(* What a channel carries: numbered lines, and the two last words.          *)
Ended  == -1        \* "LOG:Stream ended - container stopped"
Failed == -2        \* "ERR:..."
Gap    == 0         \* not sent: where a receiver was told it had lagged

VARIABLES
    output,     \* half lines each container has written
    up,         \* whether it runs
    registry,   \* STREAMS: the stream each container is entered with
    stream,     \* the tasks, and what each has published
    socket      \* the WebSocket handlers, and what each has delivered

vars == <<output, up, registry, stream, socket>>

Messages == {Ended, Failed} \cup 1 .. (MaxOutput + 1) \div 2

Stream == [task : {"none", "opening", "streaming", "ended", "gone"},
           container : Containers, first : Sockets,
           from : 0 .. MaxOutput, read : 0 .. MaxOutput, sent : Seq(Messages)]

Socket == [phase : {"free", "resolving", "attaching", "streaming", "closed"},
           peer : BOOLEAN, stream : 0 .. MaxStreams, cursor : Nat \ {0},
           got : Seq(Messages \cup {Gap})]

TypeOK ==
    /\ output \in [Containers -> 0 .. MaxOutput]
    /\ up \in [Containers -> BOOLEAN]
    /\ registry \in [Containers -> 0 .. MaxStreams]
    /\ stream \in [Streams -> Stream]
    /\ socket \in [Sockets -> Socket]

Started == {n \in Streams : stream[n].task # "none"}

(* Who holds a receiver of the channel.                                     *)
Receivers(n) == {s \in Sockets : /\ socket[s].phase \in {"attaching", "streaming"}
                                 /\ socket[s].stream = n}

-----------------------------------------------------------------------------
(* Docker and the browsers.                                                 *)

Writes(c) ==
    /\ up[c]
    /\ output[c] < MaxOutput
    /\ output' = [output EXCEPT ![c] = @ + 1]
    /\ UNCHANGED <<up, registry, stream, socket>>

(* Docker ends the log stream of a container that stops; it is taken to be  *)
(* read to its end before the container is started again.                   *)
Stops(c) ==
    /\ up[c]
    /\ up' = [up EXCEPT ![c] = FALSE]
    /\ UNCHANGED <<output, registry, stream, socket>>

Starts(c) ==
    /\ ~up[c]
    /\ \A n \in Streams : ~(stream[n].task = "streaming" /\ stream[n].container = c)
    /\ up' = [up EXCEPT ![c] = TRUE]
    /\ UNCHANGED <<output, registry, stream, socket>>

Connects(s) ==
    /\ socket[s].phase = "free"
    /\ socket' = [socket EXCEPT ![s].phase = "resolving", ![s].peer = TRUE]
    /\ UNCHANGED <<output, up, registry, stream>>

Leaves(s) ==
    /\ socket[s].peer
    /\ socket' = [socket EXCEPT ![s].peer = FALSE]
    /\ UNCHANGED <<output, up, registry, stream>>

-----------------------------------------------------------------------------
(* The handler: handle_logs_socket.                                         *)

(* The handler returns; its receiver and its end of the connection go with  *)
(* it, and so does the record of what it delivered.                         *)
Closed == [phase |-> "closed", peer |-> FALSE, stream |-> NoStream,
           cursor |-> 1, got |-> <<>>]

Return(s) == socket' = [socket EXCEPT ![s] = Closed]

(* The engine state names no container in the ten seconds it is asked.      *)
ResolvesNothing(s) ==
    /\ socket[s].phase = "resolving"
    /\ Return(s)
    /\ UNCHANGED <<output, up, registry, stream>>

(* A receiver sees what is sent from now on.                                *)
Join(s, c) ==
    /\ socket' = [socket EXCEPT ![s].phase = "attaching",
                                ![s].stream = registry[c],
                                ![s].cursor = Len(stream[registry[c]].sent) + 1]
    /\ UNCHANGED <<registry, stream>>

Found(s, c) ==
    \E n \in Streams \ Started :
        /\ \A m \in Streams \ Started : n <= m
        /\ registry' = [registry EXCEPT ![c] = n]
        /\ stream' = [stream EXCEPT ![n].task = "opening",
                                    ![n].container = c, ![n].first = s]
        /\ socket' = [socket EXCEPT ![s].phase = "attaching",
                                    ![s].stream = n, ![s].cursor = 1]

(* Starts a stream for every client.                                        *)
SubscribeAnew(s, c) ==
    /\ socket[s].phase = "resolving"
    /\ Found(s, c)
    /\ UNCHANGED <<output, up>>

(* resolve_container_id names c; subscribe_container, under the lock.       *)
Subscribe(s, c) ==
    /\ socket[s].phase = "resolving"
    /\ \/ registry[c] # NoStream /\ Join(s, c)
       \/ registry[c] = NoStream /\ Found(s, c)
    /\ UNCHANGED <<output, up>>

(* The marker.  Sending to a client that has gone may fail, or may not yet. *)
Attach(s) ==
    /\ socket[s].phase = "attaching"
    /\ \/ socket' = [socket EXCEPT ![s].phase = "streaming"]
       \/ ~socket[s].peer /\ Return(s)
    /\ UNCHANGED <<output, up, registry, stream>>

Behind(s) == Len(stream[socket[s].stream].sent) + 1 - socket[s].cursor

(* recv delivers a message that the channel still holds.                    *)
Deliver(s) ==
    /\ socket[s].phase = "streaming"
    /\ Behind(s) \in 1 .. Capacity
    /\ LET message == stream[socket[s].stream].sent[socket[s].cursor]
       IN  \/ socket' = [socket EXCEPT ![s].cursor = @ + 1,
                                       ![s].got = Append(@, message)]
           \/ ~socket[s].peer /\ Return(s)
    /\ UNCHANGED <<output, up, registry, stream>>

(* The channel holds no more than its capacity: the receiver goes on with   *)
(* the oldest message left.                                                 *)
Lag(s) ==
    /\ socket[s].phase = "streaming"
    /\ Behind(s) > Capacity
    /\ socket' = [socket EXCEPT
                     ![s].cursor = @ + Behind(s) - Capacity,
                     ![s].got = Append(@, Gap)]
    /\ UNCHANGED <<output, up, registry, stream>>

(* Closed once no sender is left: not the task's, not the registry's.       *)
SeesChannelClosed(s) ==
    /\ socket[s].phase = "streaming"
    /\ LET n == socket[s].stream
       IN  /\ Behind(s) = 0
           /\ stream[n].task = "gone"
           /\ registry[stream[n].container] # n
    /\ Return(s)
    /\ UNCHANGED <<output, up, registry, stream>>

(* The handler only ever waits for lines.                                   *)
NeverSeesPeerLeave(s) == FALSE /\ UNCHANGED vars

SeesPeerLeave(s) ==
    /\ socket[s].phase = "streaming"
    /\ ~socket[s].peer
    /\ Return(s)
    /\ UNCHANGED <<output, up, registry, stream>>

-----------------------------------------------------------------------------
(* The task: stream_container_logs and log_stream_task.                     *)

(* tx.send keeps nothing when there is no receiver.                         *)
Sent(n, messages) ==
    IF Receivers(n) = {} THEN stream[n].sent ELSE stream[n].sent \o messages

Open(n) ==
    /\ stream[n].task = "opening"
    /\ LET lines == output[stream[n].container] \div 2
           from  == IF lines > TailLines THEN 2 * (lines - TailLines) ELSE 0
       IN  stream' = [stream EXCEPT ![n].task = "streaming",
                                    ![n].from = from, ![n].read = from]
    /\ UNCHANGED <<output, up, registry, socket>>

(* Docker cannot be reached, or its stream breaks.                          *)
Fail(n) ==
    /\ stream[n].task \in {"opening", "streaming"}
    /\ stream' = [stream EXCEPT ![n].task = "ended",
                                ![n].sent = Sent(n, <<Failed>>)]
    /\ UNCHANGED <<output, up, registry, socket>>

(* Forwards what there is of a line with every frame.                       *)
FrameUnbuffered(n) ==
    /\ stream[n].task = "streaming"
    /\ \E read \in stream[n].read + 1 .. stream[n].read + 2 :
         /\ read <= output[stream[n].container]
         /\ stream' = [stream EXCEPT
                ![n].read = read,
                ![n].sent = Sent(n, <<(read + 1) \div 2>>),
                ![n].task = IF Receivers(n) = {} THEN "ended" ELSE @]
    /\ UNCHANGED <<output, up, registry, socket>>

(* A frame: buffer_lines forwards the line it completes, if it does.  With  *)
(* nobody left to forward it to, the stream is stopped.                     *)
Frame(n) ==
    /\ stream[n].task = "streaming"
    /\ \E read \in stream[n].read + 1 .. stream[n].read + 2 :
         /\ read <= output[stream[n].container]
         /\ LET whole == read \div 2 > stream[n].read \div 2
            IN  stream' = [stream EXCEPT
                   ![n].read = read,
                   ![n].sent = IF whole THEN Sent(n, <<read \div 2>>) ELSE @,
                   ![n].task = IF whole /\ Receivers(n) = {} THEN "ended" ELSE @]
    /\ UNCHANGED <<output, up, registry, socket>>

(* Sends what is in the buffer even when that is nothing.                   *)
TrailingAlways(n) == <<(stream[n].read + 1) \div 2>>

(* flush_trailing: the last line, if it never got its newline.              *)
Trailing(n) ==
    IF stream[n].read % 2 = 1 THEN <<(stream[n].read + 1) \div 2>> ELSE <<>>

(* The partial last line is dropped.                                        *)
EndWithoutFlush(n) ==
    /\ stream[n].task = "streaming"
    /\ ~up[stream[n].container]
    /\ stream[n].read = output[stream[n].container]
    /\ stream' = [stream EXCEPT ![n].task = "ended",
                                ![n].sent = Sent(n, <<Ended>>)]
    /\ UNCHANGED <<output, up, registry, socket>>

(* The container has stopped, and everything it wrote has been read.        *)
End(n) ==
    /\ stream[n].task = "streaming"
    /\ ~up[stream[n].container]
    /\ stream[n].read = output[stream[n].container]
    /\ stream' = [stream EXCEPT ![n].task = "ended",
                                ![n].sent = Sent(n, Trailing(n) \o <<Ended>>)]
    /\ UNCHANGED <<output, up, registry, socket>>

(* The task goes without taking its entry out.                              *)
GoKeepingEntry(n) ==
    /\ stream[n].task = "ended"
    /\ stream' = [stream EXCEPT ![n].task = "gone"]
    /\ UNCHANGED <<output, up, registry, socket>>

(* remove_stream, for whatever stream the container is entered with.        *)
Remove(n) ==
    /\ stream[n].task = "ended"
    /\ stream' = [stream EXCEPT ![n].task = "gone"]
    /\ registry' = [registry EXCEPT ![stream[n].container] = NoStream]
    /\ UNCHANGED <<output, up, socket>>

-----------------------------------------------------------------------------

Init ==
    /\ output \in [Containers -> {0, MaxOutput \div 2}]
    /\ up \in [Containers -> BOOLEAN]
    /\ registry = [c \in Containers |-> NoStream]
    /\ stream = [n \in Streams |->
          [task |-> "none", container |-> CHOOSE c \in Containers : TRUE,
           first |-> CHOOSE s \in Sockets : TRUE,
           from |-> 0, read |-> 0, sent |-> <<>>]]
    /\ socket = [s \in Sockets |-> [phase |-> "free", peer |-> FALSE,
                                    stream |-> NoStream, cursor |-> 1, got |-> <<>>]]

Environment ==
    \/ \E c \in Containers : Writes(c) \/ Stops(c) \/ Starts(c)
    \/ \E s \in Sockets : Connects(s) \/ Leaves(s)

Handler(s) ==
    \/ ResolvesNothing(s)
    \/ \E c \in Containers : Subscribe(s, c)
    \/ Attach(s)
    \/ Deliver(s)
    \/ Lag(s)
    \/ SeesChannelClosed(s)
    \/ SeesPeerLeave(s)

Task(n) ==
    \/ Open(n)
    \/ Fail(n)
    \/ Frame(n)
    \/ End(n)
    \/ Remove(n)

Next ==
    \/ Environment
    \/ \E s \in Sockets : Handler(s)
    \/ \E n \in Streams : Task(n)

Spec == Init /\ [][Next]_vars

(* The runtime polls every handler and every task that can go on.           *)
Fairness ==
    /\ \A s \in Sockets : WF_vars(Handler(s))
    /\ \A n \in Streams : WF_vars(Open(n) \/ Frame(n) \/ End(n) \/ Remove(n))

LiveSpec == Spec /\ Fairness

-----------------------------------------------------------------------------
(* Properties *)

(* "Exactly one task is spawned per container" (logs.rs:166): the streams   *)
(* that have not gone are exactly those of the registry, each under its own *)
(* container - so no container is read twice, no stream is out of reach of  *)
(* the next client, and no client finds one that has gone                   *)
(* (subscribe_container, remove_stream).                                    *)
RegistryIsExact ==
    \A c \in Containers, n \in Streams :
        registry[c] = n <=>
            /\ stream[n].task \in {"opening", "streaming", "ended"}
            /\ stream[n].container = c

(* A client reads the log in order: no line twice, none left out but where  *)
(* it lagged, and nothing after the stream's last word - though clients     *)
(* join, lag and leave in the middle of it (handle_logs_socket,             *)
(* buffer_lines).                                                           *)
LogIsReadInOrder ==
    \A s \in Sockets : \A i \in 1 .. Len(socket[s].got) - 1 :
        LET this == socket[s].got[i]
            next == socket[s].got[i + 1]
        IN  /\ this \notin {Ended, Failed}
            /\ this # Gap /\ next > 0 => next = this + 1

(* The client that a stream was started for misses nothing of it unless it  *)
(* lags, from the first line Docker is asked for to a last one that never   *)
(* got its newline (the receiver of subscribe_container, flush_trailing).   *)
FirstClientMissesNothing ==
    \A s \in Sockets :
        LET got == socket[s].got
            n   == socket[s].stream
        IN  (/\ got # <<>> /\ got[Len(got)] = Ended
             /\ \A i \in 1 .. Len(got) : got[i] # Gap
             /\ stream[n].first = s)
            => Len(got) - 1 = (stream[n].read + 1) \div 2 - stream[n].from \div 2

(* Nobody is left hanging.  A client of a stream that is over is told so or *)
(* is disconnected, and so can connect again: the registry's own sender     *)
(* does not keep a dead channel open.  And the handler of a client that has *)
(* left ends, even if its container never writes another line, and even if  *)
(* it left before it was attached (remove_stream, handle_logs_socket).      *)
(* Stated of one client: no definition tells one from another.              *)
NobodyIsLeftHanging ==
    LET s == CHOOSE s \in Sockets : TRUE IN
        (\/ \E n \in Streams : s \in Receivers(n) /\ stream[n].task = "ended"
         \/ socket[s].phase # "free" /\ ~socket[s].peer)
            ~> socket[s].phase = "closed"
=============================================================================
