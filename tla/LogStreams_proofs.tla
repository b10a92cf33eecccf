-------------------------- MODULE LogStreams_proofs --------------------------
(* Proofs about LogStreams, for any number of containers, clients, streams  *)
(* and lines.                                                               *)
EXTENDS LogStreams, TLAPS

(* A handler that holds a receiver holds one of a stream.                   *)
ReceiverInv ==
    \A s \in Sockets : socket[s].phase \in {"attaching", "streaming"} =>
        socket[s].stream \in Streams

IInv == TypeOK /\ ReceiverInv /\ RegistryIsExact

-----------------------------------------------------------------------------

(* What a task publishes is numbered lines and last words.                  *)
LEMMA SentIsMessages ==
    ASSUME TypeOK, NEW n \in Streams, NEW m \in Seq(Messages)
    PROVE  Sent(n, m) \in Seq(Messages)
BY DEF TypeOK, Stream, Sent

(* A line read to its end is a message, and so is a partial last one.       *)
LEMMA LineIsMessage ==
    ASSUME NEW read \in 0 .. MaxOutput, NEW before \in 0 .. MaxOutput,
           read \div 2 > before \div 2
    PROVE  <<read \div 2>> \in Seq(Messages)
<1>1. MaxOutput \in Nat
    BY StreamsAssumption
<1>2. read \div 2 \in 1 .. (MaxOutput + 1) \div 2
    BY <1>1
<1> QED
    BY <1>2 DEF Messages

LEMMA TrailingIsMessage ==
    ASSUME TypeOK, NEW n \in Streams
    PROVE  Trailing(n) \o <<Ended>> \in Seq(Messages)
<1>1. MaxOutput \in Nat /\ stream[n].read \in 0 .. MaxOutput
    BY StreamsAssumption DEF TypeOK, Stream
<1>2. stream[n].read % 2 = 1 =>
          (stream[n].read + 1) \div 2 \in 1 .. (MaxOutput + 1) \div 2
    BY <1>1
<1>3. CASE stream[n].read % 2 = 1
  <2> DEFINE line == (stream[n].read + 1) \div 2
  <2>1. line \in Messages
    BY <1>2, <1>3 DEF Messages
  <2>2. Trailing(n) = <<line>>
    BY <1>3 DEF Trailing
  <2> HIDE DEF line
  <2>3. Ended \in Messages
    BY DEF Messages
  <2> QED
    BY <2>1, <2>2, <2>3
<1>4. CASE stream[n].read % 2 # 1
  <2>1. Trailing(n) = <<>>
    BY <1>4 DEF Trailing
  <2>2. Ended \in Messages
    BY DEF Messages
  <2> QED
    BY <2>1, <2>2
<1> QED
    BY <1>3, <1>4

-----------------------------------------------------------------------------
(* The handlers.                                                            *)

LEMMA InitHolds == Init => IInv
<1> SUFFICES ASSUME Init PROVE IInv
    OBVIOUS
<1>1. MaxOutput \in Nat /\ MaxStreams \in Nat /\ MaxOutput \div 2 \in 0 .. MaxOutput
    BY StreamsAssumption
<1>2. TypeOK
  <2> DEFINE c == CHOOSE c \in Containers : TRUE
             s == CHOOSE s \in Sockets : TRUE
  <2>1. c \in Containers /\ s \in Sockets
    BY StreamsAssumption
  <2>2. stream = [n \in Streams |-> [task |-> "none", container |-> c, first |-> s,
                                     from |-> 0, read |-> 0, sent |-> <<>>]]
    BY DEF Init
  <2> HIDE DEF c, s
  <2> QED
    BY <1>1, <2>1, <2>2 DEF Init, TypeOK, Stream, Socket, Streams, NoStream, Messages
<1>3. ReceiverInv
    BY DEF Init, ReceiverInv
<1>4. RegistryIsExact
    BY <1>1 DEF Init, RegistryIsExact, NoStream, Streams
<1> QED
    BY <1>2, <1>3, <1>4 DEF IInv

LEMMA ClosedIsSocket == Closed \in Socket
BY StreamsAssumption DEF Closed, Socket, NoStream

(* A handler goes on with its own record, and keeps a receiver of a stream  *)
(* if it keeps one at all.                                                  *)
LEMMA SocketPreserves ==
    ASSUME IInv, NEW s \in Sockets, NEW record \in Socket,
           record.phase \in {"attaching", "streaming"} => record.stream \in Streams,
           socket' = [socket EXCEPT ![s] = record],
           UNCHANGED <<output, up, registry, stream>>
    PROVE  IInv'
<1>1. TypeOK'
    BY DEF IInv, TypeOK
<1>2. ReceiverInv'
    BY DEF IInv, TypeOK, ReceiverInv
<1>3. RegistryIsExact'
    BY DEF IInv, RegistryIsExact
<1> QED
    BY <1>1, <1>2, <1>3 DEF IInv

(* What a handler's record may hold, and which steps change it how.         *)
LEMMA PhasePreserves ==
    ASSUME IInv, NEW s \in Sockets,
           NEW phase \in {"resolving", "streaming", "closed", socket[s].phase},
           NEW peer \in BOOLEAN,
           phase = "streaming" => socket[s].phase \in {"attaching", "streaming"},
           socket' = [socket EXCEPT ![s].phase = phase, ![s].peer = peer],
           UNCHANGED <<output, up, registry, stream>>
    PROVE  IInv'
<1> DEFINE record == [socket[s] EXCEPT !.phase = phase, !.peer = peer]
<1>1. socket[s] \in Socket /\ DOMAIN socket = Sockets
    BY DEF IInv, TypeOK
<1>2. record \in Socket
    BY <1>1 DEF Socket
<1>3. record.phase = phase /\ record.stream = socket[s].stream
    BY <1>1 DEF Socket
<1>4. socket' = [socket EXCEPT ![s] = record]
    BY <1>1 DEF Socket
<1>5. phase \in {"attaching", "streaming"} => socket[s].stream \in Streams
    BY DEF IInv, ReceiverInv
<1> HIDE DEF record
<1> QED
    BY <1>2, <1>3, <1>4, <1>5, SocketPreserves

LEMMA EnvironmentPreserves ==
    ASSUME IInv, Environment
    PROVE  IInv'
<1>1. ASSUME NEW c \in Containers, Writes(c) \/ Stops(c) \/ Starts(c)
      PROVE  IInv'
  <2>1. output' \in [Containers -> 0 .. MaxOutput] /\ up' \in [Containers -> BOOLEAN]
    <3>1. CASE Writes(c)
      <4>1. output[c] + 1 \in 0 .. MaxOutput
        BY <3>1, StreamsAssumption DEF IInv, TypeOK, Writes
      <4> QED
        BY <3>1, <4>1 DEF IInv, TypeOK, Writes
    <3>2. CASE Stops(c) \/ Starts(c)
        BY <3>2 DEF IInv, TypeOK, Stops, Starts
    <3> QED
        BY <1>1, <3>1, <3>2
  <2>2. UNCHANGED <<registry, stream, socket>>
    BY <1>1 DEF Writes, Stops, Starts
  <2> QED
    BY <2>1, <2>2 DEF IInv, TypeOK, ReceiverInv, RegistryIsExact
<1>2. ASSUME NEW s \in Sockets, Connects(s) \/ Leaves(s)
      PROVE  IInv'
  <2>1. socket[s] \in Socket /\ DOMAIN socket = Sockets
    BY DEF IInv, TypeOK
  <2>2. CASE Connects(s)
    BY <2>2, PhasePreserves DEF Connects
  <2>3. CASE Leaves(s)
    <3>1. socket' = [socket EXCEPT ![s].phase = socket[s].phase, ![s].peer = FALSE]
        BY <2>1, <2>3 DEF Leaves, Socket
    <3> QED
        BY <2>3, <3>1, PhasePreserves DEF Leaves
  <2> QED
    BY <1>2, <2>2, <2>3
<1> QED
    BY <1>1, <1>2 DEF Environment

(* The lock makes looking up and entering one step: a stream is started     *)
(* only for a container that is not entered.                                *)
LEMMA SubscribePreserves ==
    ASSUME IInv, NEW s \in Sockets, NEW c \in Containers, Subscribe(s, c)
    PROVE  IInv'
<1> USE StreamsAssumption
<1>1. CASE registry[c] # NoStream /\ Join(s, c)
  <2>1. registry[c] \in Streams
    BY <1>1 DEF IInv, TypeOK, Streams, NoStream
  <2>2. Len(stream[registry[c]].sent) + 1 \in Nat \ {0}
    BY <2>1 DEF IInv, TypeOK, Stream
  <2> DEFINE record == [socket[s] EXCEPT !.phase = "attaching",
                                         !.stream = registry[c],
                                         !.cursor = Len(stream[registry[c]].sent) + 1]
  <2>3. socket[s] \in Socket /\ DOMAIN socket = Sockets
    BY DEF IInv, TypeOK
  <2>4. record \in Socket
    <3> DEFINE cursor == Len(stream[registry[c]].sent) + 1
    <3>1. cursor \in Nat \ {0}
        BY <2>2
    <3>2. registry[c] \in 0 .. MaxStreams
        BY DEF IInv, TypeOK
    <3> HIDE DEF cursor
    <3>3. [socket[s] EXCEPT !.phase = "attaching", !.stream = registry[c],
                            !.cursor = cursor] \in Socket
        BY <2>3, <3>1, <3>2 DEF Socket
    <3> QED
        BY <3>3 DEF cursor
  <2>5. record.stream \in Streams
    BY <2>1, <2>3 DEF Socket
  <2>6. socket' = [socket EXCEPT ![s] = record]
    BY <1>1, <2>3 DEF Join, Socket
  <2>7. UNCHANGED <<output, up, registry, stream>>
    BY <1>1 DEF Subscribe, Join
  <2> HIDE DEF record
  <2> QED
    BY <2>4, <2>5, <2>6, <2>7, SocketPreserves
<1>2. CASE registry[c] = NoStream /\ Found(s, c)
  <2>1. PICK n \in Streams \ Started :
            /\ registry' = [registry EXCEPT ![c] = n]
            /\ stream' = [stream EXCEPT ![n].task = "opening",
                                        ![n].container = c, ![n].first = s]
            /\ socket' = [socket EXCEPT ![s].phase = "attaching",
                                        ![s].stream = n, ![s].cursor = 1]
    BY <1>2 DEF Found
  <2>2. n \in 1 .. MaxStreams
    BY <2>1 DEF Streams
  <2>3. TypeOK'
    <3> DEFINE task   == [stream[n] EXCEPT !.task = "opening", !.container = c,
                                           !.first = s]
               client == [socket[s] EXCEPT !.phase = "attaching", !.stream = n,
                                           !.cursor = 1]
    <3>1. /\ stream[n] \in Stream /\ DOMAIN stream = Streams
          /\ socket[s] \in Socket /\ DOMAIN socket = Sockets
        BY DEF IInv, TypeOK
    <3>2. task \in Stream /\ stream' = [stream EXCEPT ![n] = task]
        BY <3>1, <2>1 DEF Stream
    <3>3. n \in 0 .. MaxStreams /\ 1 \in Nat \ {0}
        BY <2>2
    <3>4. client \in Socket
        BY <3>1, <3>3 DEF Socket
    <3>5. socket' = [socket EXCEPT ![s] = client]
        BY <3>1, <2>1 DEF Socket
    <3> HIDE DEF task, client
    <3>6. stream' \in [Streams -> Stream]
        BY <3>2 DEF IInv, TypeOK
    <3>7. socket' \in [Sockets -> Socket]
        BY <3>4, <3>5 DEF IInv, TypeOK
    <3>8. registry' \in [Containers -> 0 .. MaxStreams]
        BY <2>1, <2>2 DEF IInv, TypeOK
    <3> QED
        BY <3>6, <3>7, <3>8 DEF IInv, TypeOK, Subscribe
  <2>4. ReceiverInv'
    BY <2>1 DEF IInv, TypeOK, ReceiverInv, Socket
  <2>5. RegistryIsExact'
    <3> SUFFICES ASSUME NEW d \in Containers, NEW m \in Streams
                 PROVE  registry'[d] = m <=>
                            /\ stream'[m].task \in {"opening", "streaming", "ended"}
                            /\ stream'[m].container = d
        BY DEF RegistryIsExact
    <3>1. stream[n].task = "none"
        BY <2>1 DEF Started
    <3>2. \A e \in Containers : registry[e] # n
        BY <3>1, <2>1 DEF IInv, RegistryIsExact
    <3>3. CASE m = n
        BY <3>1, <3>2, <3>3, <2>1 DEF IInv, TypeOK, Stream
    <3>4. CASE m # n
      <4>1. stream'[m] = stream[m]
        BY <3>4, <2>1 DEF IInv, TypeOK
      <4>2. CASE d = c
        <5>1. registry[c] # m
            BY <1>2 DEF NoStream, Streams
        <5> QED
            BY <4>1, <4>2, <5>1, <3>4, <2>1 DEF IInv, TypeOK, RegistryIsExact
      <4>3. CASE d # c
        BY <4>1, <4>3, <2>1 DEF IInv, TypeOK, RegistryIsExact
      <4> QED
        BY <4>2, <4>3
    <3> QED
        BY <3>3, <3>4
  <2> QED
    BY <2>3, <2>4, <2>5 DEF IInv
<1> QED
    BY <1>1, <1>2 DEF Subscribe

LEMMA HandlerPreserves ==
    ASSUME IInv, NEW s \in Sockets, Handler(s)
    PROVE  IInv'
<1> USE StreamsAssumption
<1>1. CASE \E c \in Containers : Subscribe(s, c)
    BY <1>1, SubscribePreserves
<1>2. socket[s] \in Socket /\ DOMAIN socket = Sockets
    BY DEF IInv, TypeOK
<1>3. ASSUME Return(s), UNCHANGED <<output, up, registry, stream>>
      PROVE  IInv'
  <2>1. Closed \in Socket
    BY ClosedIsSocket
  <2>2. Closed.phase \notin {"attaching", "streaming"}
    BY DEF Closed
  <2> QED
    BY <1>3, <2>1, <2>2, SocketPreserves DEF Return
<1>4. CASE ResolvesNothing(s) \/ SeesChannelClosed(s) \/ SeesPeerLeave(s)
    BY <1>3, <1>4 DEF ResolvesNothing, SeesChannelClosed, SeesPeerLeave
<1>5. CASE Attach(s)
  <2>1. CASE socket' = [socket EXCEPT ![s].phase = "streaming"]
    <3>1. socket' = [socket EXCEPT ![s].phase = "streaming", ![s].peer = socket[s].peer]
        BY <1>2, <2>1 DEF Socket
    <3>2. socket[s].peer \in BOOLEAN /\ socket[s].phase = "attaching"
        BY <1>2, <1>5 DEF Attach, Socket
    <3> QED
        BY <1>5, <3>1, <3>2, PhasePreserves DEF Attach
  <2> QED
    BY <1>3, <1>5, <2>1 DEF Attach
<1>6. ASSUME socket[s].phase = "streaming"
      PROVE  /\ socket[s].stream \in Streams
             /\ socket[s].cursor \in Nat \ {0}
             /\ socket[s].got \in Seq(Messages \cup {Gap})
             /\ stream[socket[s].stream].sent \in Seq(Messages)
    BY <1>2, <1>6 DEF IInv, TypeOK, ReceiverInv, Socket, Stream
<1>7. CASE Deliver(s)
  <2> DEFINE sent    == stream[socket[s].stream].sent
             message == sent[socket[s].cursor]
             record  == [socket[s] EXCEPT !.cursor = @ + 1, !.got = Append(@, message)]
  <2>1. socket[s].phase = "streaming" /\ Behind(s) \in 1 .. Capacity
    BY <1>7 DEF Deliver
  <2>2. socket[s].cursor \in 1 .. Len(sent)
    <3>1. Len(sent) \in Nat
        BY <1>6, <2>1
    <3>2. Behind(s) = Len(sent) + 1 - socket[s].cursor
        BY DEF Behind
    <3> HIDE DEF sent
    <3> QED
        BY <1>6, <2>1, <3>1, <3>2
  <2>3. message \in Messages
    BY <1>6, <2>1, <2>2
  <2>4. CASE socket' = [socket EXCEPT ![s].cursor = @ + 1, ![s].got = Append(@, message)]
    <3> HIDE DEF message
    <3>1. Append(socket[s].got, message) \in Seq(Messages \cup {Gap})
        BY <1>6, <2>1, <2>3
    <3> DEFINE cursor == socket[s].cursor + 1
               got    == Append(socket[s].got, message)
    <3>2. cursor \in Nat \ {0}
        BY <1>6, <2>1
    <3>3. record = [socket[s] EXCEPT !.cursor = cursor, !.got = got]
        BY <1>2 DEF Socket
    <3>4. [socket[s] EXCEPT !.cursor = cursor, !.got = got] \in Socket
        BY <1>2, <3>1, <3>2 DEF Socket
    <3>5. record \in Socket
        BY <3>3, <3>4
    <3>6. record.stream = socket[s].stream
        BY <1>2 DEF Socket
    <3>7. socket' = [socket EXCEPT ![s] = record]
        BY <1>2, <2>4 DEF Socket
    <3> HIDE DEF record
    <3> QED
        BY <1>6, <1>7, <2>1, <3>5, <3>6, <3>7, SocketPreserves DEF Deliver
  <2> QED
    BY <1>3, <1>7, <2>4 DEF Deliver
<1>8. CASE Lag(s)
  <2> DEFINE cursor == socket[s].cursor + Behind(s) - Capacity
             record == [socket[s] EXCEPT !.cursor = cursor, !.got = Append(@, Gap)]
  <2>1. socket[s].phase = "streaming" /\ Behind(s) > Capacity
    BY <1>8 DEF Lag
  <2>2. cursor \in Nat \ {0}
    <3> DEFINE sent == stream[socket[s].stream].sent
    <3>1. Len(sent) \in Nat
        BY <1>6, <2>1
    <3>2. Behind(s) = Len(sent) + 1 - socket[s].cursor
        BY DEF Behind
    <3> HIDE DEF sent
    <3> QED
        BY <1>6, <2>1, <3>1, <3>2, StreamsAssumption
  <2>3. Append(socket[s].got, Gap) \in Seq(Messages \cup {Gap})
    BY <1>6, <2>1
  <2>4. socket' = [socket EXCEPT ![s] = record]
    BY <1>2, <1>8 DEF Lag, Socket
  <2> HIDE DEF cursor
  <2>5. record \in Socket
    BY <1>2, <2>2, <2>3 DEF Socket
  <2>6. record.stream = socket[s].stream
    BY <1>2 DEF Socket
  <2>7. UNCHANGED <<output, up, registry, stream>>
    BY <1>8 DEF Lag
  <2> HIDE DEF record
  <2> QED
    BY <1>6, <2>1, <2>4, <2>5, <2>6, <2>7, SocketPreserves
<1> QED
    BY <1>1, <1>4, <1>5, <1>7, <1>8 DEF Handler

-----------------------------------------------------------------------------
(* The tasks.                                                               *)

(* Until it goes, a task that goes on under its container keeps the         *)
(* registry exact whatever it reads and publishes.                          *)
LEMMA ProgressPreserves ==
    ASSUME IInv, NEW n \in Streams, NEW record \in Stream,
           stream[n].task \in {"opening", "streaming"},
           record.task \in {"opening", "streaming", "ended"},
           record.container = stream[n].container,
           stream' = [stream EXCEPT ![n] = record],
           UNCHANGED <<output, up, registry, socket>>
    PROVE  IInv'
<1>1. TypeOK'
    BY DEF IInv, TypeOK
<1>2. ReceiverInv'
    BY DEF IInv, ReceiverInv
<1>3. RegistryIsExact'
    <2> SUFFICES ASSUME NEW d \in Containers, NEW m \in Streams
                 PROVE  registry[d] = m <=>
                            /\ stream'[m].task \in {"opening", "streaming", "ended"}
                            /\ stream'[m].container = d
        BY DEF RegistryIsExact
    <2>1. CASE m = n
        BY <2>1 DEF IInv, TypeOK, RegistryIsExact
    <2>2. CASE m # n
        BY <2>2 DEF IInv, TypeOK, RegistryIsExact
    <2> QED
        BY <2>1, <2>2
<1> QED
    BY <1>1, <1>2, <1>3 DEF IInv

LEMMA TaskPreserves ==
    ASSUME IInv, NEW n \in Streams, Task(n)
    PROVE  IInv'
<1> USE StreamsAssumption
<1>1. stream[n] \in Stream /\ DOMAIN stream = Streams
    BY DEF IInv, TypeOK
<1>2. TypeOK
    BY DEF IInv
<1>3. CASE Open(n)
  <2> DEFINE lines == output[stream[n].container] \div 2
             from  == IF lines > TailLines THEN 2 * (lines - TailLines) ELSE 0
             record == [stream[n] EXCEPT !.task = "streaming", !.from = from,
                                         !.read = from]
  <2>1. output[stream[n].container] \in 0 .. MaxOutput
    BY <1>1 DEF IInv, TypeOK, Stream
  <2>2. from \in 0 .. MaxOutput
    BY <2>1
  <2> HIDE DEF from
  <2>3. record \in Stream
    BY <1>1, <2>2 DEF Stream
  <2>4. stream' = [stream EXCEPT ![n] = record]
    BY <1>1, <1>3 DEF Open, from, Stream
  <2>5. /\ record.task = "streaming"
        /\ record.container = stream[n].container
    BY <1>1 DEF Stream
  <2>6. stream[n].task = "opening" /\ UNCHANGED <<output, up, registry, socket>>
    BY <1>3 DEF Open
  <2> HIDE DEF record
  <2> QED
    BY <2>3, <2>4, <2>5, <2>6, ProgressPreserves
<1>4. CASE Fail(n)
  <2> DEFINE record == [stream[n] EXCEPT !.task = "ended", !.sent = Sent(n, <<Failed>>)]
  <2>1. Sent(n, <<Failed>>) \in Seq(Messages)
    <3>1. Failed \in Messages
        BY DEF Messages
    <3>2. <<Failed>> \in Seq(Messages)
        BY <3>1
    <3> QED
        BY <1>2, <3>2, SentIsMessages
  <2>2. record \in Stream
    BY <1>1, <2>1 DEF Stream
  <2>3. stream' = [stream EXCEPT ![n] = record]
    BY <1>1, <1>4 DEF Fail, Stream
  <2>4. /\ record.task = "ended"
        /\ record.container = stream[n].container
    BY <1>1 DEF Stream
  <2>5. /\ stream[n].task \in {"opening", "streaming"}
        /\ UNCHANGED <<output, up, registry, socket>>
    BY <1>4 DEF Fail
  <2> HIDE DEF record
  <2> QED
    BY <2>2, <2>3, <2>4, <2>5, ProgressPreserves
<1>5. CASE Frame(n)
  <2>1. PICK read \in stream[n].read + 1 .. stream[n].read + 2 :
            /\ read <= output[stream[n].container]
            /\ LET whole == read \div 2 > stream[n].read \div 2
               IN  stream' = [stream EXCEPT
                      ![n].read = read,
                      ![n].sent = IF whole THEN Sent(n, <<read \div 2>>) ELSE @,
                      ![n].task = IF whole /\ Receivers(n) = {} THEN "ended" ELSE @]
    BY <1>5 DEF Frame
  <2> DEFINE whole == read \div 2 > stream[n].read \div 2
             sent  == IF whole THEN Sent(n, <<read \div 2>>) ELSE stream[n].sent
             task  == IF whole /\ Receivers(n) = {} THEN "ended" ELSE stream[n].task
             record == [stream[n] EXCEPT !.read = read, !.sent = sent, !.task = task]
  <2>2. output[stream[n].container] \in 0 .. MaxOutput /\ stream[n].read \in 0 .. MaxOutput
    BY <1>1 DEF IInv, TypeOK, Stream
  <2>3. read \in 0 .. MaxOutput
    BY <2>1, <2>2
  <2>4. sent \in Seq(Messages)
    BY <1>1, <1>2, <2>2, <2>3, LineIsMessage, SentIsMessages DEF Stream
  <2>5. stream[n].task = "streaming" /\ UNCHANGED <<output, up, registry, socket>>
    BY <1>5 DEF Frame
  <2>6. task \in {"streaming", "ended"}
    BY <2>5
  <2>7. stream' = [stream EXCEPT ![n] = record]
    BY <1>1, <2>1 DEF Stream
  <2> HIDE DEF sent, task
  <2>8. record \in Stream
    BY <1>1, <2>3, <2>4, <2>6 DEF Stream
  <2>9. /\ record.task \in {"streaming", "ended"}
        /\ record.container = stream[n].container
    BY <1>1, <2>6 DEF Stream
  <2> HIDE DEF record
  <2> QED
    BY <2>5, <2>7, <2>8, <2>9, ProgressPreserves
<1>6. CASE End(n)
  <2> DEFINE sent   == Sent(n, Trailing(n) \o <<Ended>>)
             record == [stream[n] EXCEPT !.task = "ended", !.sent = sent]
  <2>1. sent \in Seq(Messages)
    BY <1>2, TrailingIsMessage, SentIsMessages
  <2>2. stream' = [stream EXCEPT ![n] = record]
    BY <1>1, <1>6 DEF End, Stream
  <2> HIDE DEF sent
  <2>3. record \in Stream
    BY <1>1, <2>1 DEF Stream
  <2>4. /\ record.task = "ended"
        /\ record.container = stream[n].container
    BY <1>1 DEF Stream
  <2>5. stream[n].task = "streaming" /\ UNCHANGED <<output, up, registry, socket>>
    BY <1>6 DEF End
  <2> HIDE DEF record
  <2> QED
    BY <2>2, <2>3, <2>4, <2>5, ProgressPreserves
<1>7. CASE Remove(n)
  <2> DEFINE c == stream[n].container
  <2>1. c \in Containers /\ registry[c] = n
    BY <1>1, <1>7 DEF IInv, RegistryIsExact, Remove, Stream
  <2>2. TypeOK'
    <3>1. stream' \in [Streams -> Stream]
        BY <1>7 DEF IInv, TypeOK, Remove, Stream
    <3>2. NoStream \in 0 .. MaxStreams
        BY DEF NoStream
    <3>3. registry' \in [Containers -> 0 .. MaxStreams]
        BY <1>7, <3>2 DEF IInv, TypeOK, Remove
    <3> QED
        BY <1>7, <3>1, <3>3 DEF IInv, TypeOK, Remove
  <2>3. ReceiverInv'
    BY <1>7 DEF IInv, ReceiverInv, Remove
  <2>4. RegistryIsExact'
    <3> SUFFICES ASSUME NEW d \in Containers, NEW m \in Streams
                 PROVE  registry'[d] = m <=>
                            /\ stream'[m].task \in {"opening", "streaming", "ended"}
                            /\ stream'[m].container = d
        BY DEF RegistryIsExact
    <3>1. CASE m = n
      <4>1. stream'[n].task = "gone"
        BY <1>1, <1>7 DEF Remove, Stream
      <4>2. registry'[d] # n
        <5>1. d # c => registry[d] # n
            BY DEF IInv, RegistryIsExact
        <5>2. NoStream # n
            BY DEF NoStream, Streams
        <5> QED
            BY <1>7, <5>1, <5>2 DEF IInv, TypeOK, Remove
      <4> QED
        BY <3>1, <4>1, <4>2
    <3>2. CASE m # n
      <4>1. stream'[m] = stream[m]
        BY <1>1, <1>7, <3>2 DEF Remove
      <4>2. NoStream # m
        BY DEF NoStream, Streams
      <4>3. registry'[d] = m <=> registry[d] = m
        BY <1>7, <2>1, <3>2, <4>2 DEF IInv, TypeOK, Remove
      <4> QED
        BY <4>1, <4>3 DEF IInv, RegistryIsExact
    <3> QED
        BY <3>1, <3>2
  <2> QED
    BY <2>2, <2>3, <2>4 DEF IInv
<1> QED
    BY <1>3, <1>4, <1>5, <1>6, <1>7 DEF Task

-----------------------------------------------------------------------------

(* The inductive invariant.                                                 *)
LEMMA Invariance == Spec => []IInv
<1>1. ASSUME IInv, [Next]_vars PROVE IInv'
  <2>1. CASE Next
    BY <1>1, <2>1, EnvironmentPreserves, HandlerPreserves, TaskPreserves DEF Next
  <2>2. CASE UNCHANGED vars
    BY <1>1, <2>2 DEF vars, IInv, TypeOK, ReceiverInv, RegistryIsExact
  <2> QED
    BY <1>1, <2>1, <2>2
<1> QED
    BY InitHolds, <1>1, PTL DEF Spec

(* Every variable has its type: a handler never reads past what a channel   *)
(* has carried, and no line a task publishes is one nobody wrote.           *)
THEOREM TypeCorrect == Spec => []TypeOK
<1>1. IInv => TypeOK
    BY DEF IInv
<1> QED
    BY Invariance, <1>1, PTL

(* One stream per container, entered as long as its task has not gone: for  *)
(* any number of clients that connect and leave while streams end.          *)
THEOREM RegistryStaysExact == Spec => []RegistryIsExact
<1>1. IInv => RegistryIsExact
    BY DEF IInv
<1> QED
    BY Invariance, <1>1, PTL
-----------------------------------------------------------------------------
(* The order of the log.  IInv is invariant already, so that a step below   *)
(* has it before and after.                                                 *)

(* What a channel has carried: the lines from the first one Docker was      *)
(* asked for, without a gap, and after them at most one last word.  A line  *)
(* completed with nobody to receive it is not kept, but stops the task.     *)
Ordered(t) ==
    /\ t.from % 2 = 0
    /\ t.task \in {"none", "opening"} => t.sent = <<>>
    /\ t.task = "streaming" => Len(t.sent) = t.read \div 2 - t.from \div 2
    /\ \A i \in 1 .. Len(t.sent) :
         \/ t.sent[i] = t.from \div 2 + i
         \/ /\ i = Len(t.sent)
            /\ t.task \in {"ended", "gone"}
            /\ t.sent[i] \in {Ended, Failed}
            /\ t.sent[i] = Ended => i - 1 = (t.read + 1) \div 2 - t.from \div 2
ChannelInv == \A n \in Streams : Ordered(stream[n])

(* The lines of a handler are in order, and the last one is the one before  *)
(* its cursor, unless it was told that it lagged.                           *)
InOrder(got) ==
    \A i \in 1 .. Len(got) - 1 :
        /\ got[i] \notin {Ended, Failed}
        /\ got[i] # Gap /\ got[i + 1] > 0 => got[i + 1] = got[i] + 1
Reads(k) ==
    /\ k.phase \in {"free", "resolving"} => k.got = <<>>
    /\ k.phase \in {"attaching", "streaming"} \/ k.got # <<>> =>
          k.stream \in Started /\ k.cursor <= Len(stream[k.stream].sent) + 1
    /\ k.got # <<>> /\ k.got[Len(k.got)] # Gap =>
          k.cursor > 1 /\ k.got[Len(k.got)] = stream[k.stream].sent[k.cursor - 1]
    /\ InOrder(k.got)
ReaderInv == \A s \in Sockets : Reads(socket[s])

(* A stream is started by a handler that then has its first receiver, and   *)
(* has read everything up to its cursor as long as it has not lagged.       *)
ReadsAll(s, k) ==
    /\ k.stream \in Started
    /\ stream[k.stream].first = s
    /\ \A i \in 1 .. Len(k.got) : k.got[i] # Gap
    => Len(k.got) = k.cursor - 1
FirstInv ==
    /\ \A n \in Started : socket[stream[n].first].phase \notin {"free", "resolving"}
    /\ \A s \in Sockets : ReadsAll(s, socket[s])

OrderInv == ChannelInv /\ ReaderInv /\ FirstInv

LEMMA OrderInit == Init => OrderInv
<1> SUFFICES ASSUME Init PROVE OrderInv
    OBVIOUS
<1>0. \A n \in Streams : stream[n].task = "none" /\ stream[n].sent = <<>>
                         /\ stream[n].from = 0
  <2> DEFINE c == CHOOSE c \in Containers : TRUE
             s == CHOOSE s \in Sockets : TRUE
  <2>1. stream = [n \in Streams |-> [task |-> "none", container |-> c, first |-> s,
                                     from |-> 0, read |-> 0, sent |-> <<>>]]
    BY DEF Init
  <2> HIDE DEF c, s
  <2> QED
    BY <2>1
<1>1. ChannelInv
    BY <1>0 DEF ChannelInv, Ordered
<1>2. Started = {}
    BY <1>0 DEF Started
<1>3. ReaderInv
    BY DEF Init, ReaderInv, Reads, InOrder
<1>4. FirstInv
    BY <1>2 DEF FirstInv, ReadsAll
<1> QED
    BY <1>1, <1>3, <1>4 DEF OrderInv

-----------------------------------------------------------------------------
(* Steps of a handler.                                                      *)

LEMMA ReaderKeepsOrder ==
    ASSUME IInv, OrderInv, NEW s \in Sockets, NEW record \in Socket,
           record.phase = "resolving" => socket[s].phase \in {"free", "resolving"},
           record.phase = "free" => socket[s].phase = "free",
           Reads(record), ReadsAll(s, record),
           socket' = [socket EXCEPT ![s] = record],
           UNCHANGED stream
    PROVE  OrderInv'
<1>1. /\ DOMAIN socket = Sockets
      /\ Started' = Started /\ DOMAIN stream = Streams
    BY DEF IInv, TypeOK, Started
<1>2. ChannelInv'
    BY DEF OrderInv, ChannelInv
<1>3. ReaderInv'
    BY <1>1 DEF OrderInv, ReaderInv, Reads
<1>4. FirstInv'
    BY <1>1 DEF OrderInv, FirstInv, ReadsAll
<1> QED
    BY <1>2, <1>3, <1>4 DEF OrderInv

(* A handler that only changes its phase keeps what it read.                *)
LEMMA PhaseKeepsOrder ==
    ASSUME IInv, OrderInv, NEW s \in Sockets,
           NEW phase \in {"resolving", "streaming", "closed", socket[s].phase},
           NEW peer \in BOOLEAN,
           phase = "resolving" => socket[s].phase \in {"free", "resolving"},
           phase = "streaming" => socket[s].phase \in {"attaching", "streaming"},
           socket' = [socket EXCEPT ![s].phase = phase, ![s].peer = peer],
           UNCHANGED stream
    PROVE  OrderInv'
<1> DEFINE record == [socket[s] EXCEPT !.phase = phase, !.peer = peer]
<1>1. socket[s] \in Socket /\ DOMAIN socket = Sockets
    BY DEF IInv, TypeOK
<1>2. record \in Socket
    BY <1>1 DEF Socket
<1>3. /\ record.phase = phase
      /\ record.stream = socket[s].stream
      /\ record.cursor = socket[s].cursor
      /\ record.got = socket[s].got
    BY <1>1 DEF Socket
<1>4. socket' = [socket EXCEPT ![s] = record]
    BY <1>1 DEF Socket
<1>5. Reads(socket[s]) /\ ReadsAll(s, socket[s])
    BY DEF OrderInv, ReaderInv, FirstInv
<1> HIDE DEF record
<1>6. Reads(record)
    BY <1>3, <1>5 DEF Reads
<1>7. ReadsAll(s, record)
    BY <1>3, <1>5 DEF ReadsAll
<1> QED
    BY <1>2, <1>3, <1>4, <1>6, <1>7, ReaderKeepsOrder

LEMMA SubscribeKeepsOrder ==
    ASSUME IInv, OrderInv, NEW s \in Sockets, NEW c \in Containers, Subscribe(s, c)
    PROVE  OrderInv'
<1>1. socket[s] \in Socket /\ DOMAIN socket = Sockets /\ DOMAIN stream = Streams
    BY DEF IInv, TypeOK
<1>2. socket[s].phase = "resolving" /\ socket[s].got = <<>>
    BY DEF Subscribe, OrderInv, ReaderInv, Reads
<1>3. CASE registry[c] # NoStream /\ Join(s, c)
  <2> DEFINE n      == registry[c]
             cursor == Len(stream[n].sent) + 1
             record == [socket[s] EXCEPT !.phase = "attaching", !.stream = n,
                                         !.cursor = cursor]
  <2>1. n \in Streams /\ n \in 0 .. MaxStreams
    BY <1>3 DEF IInv, TypeOK, Streams, NoStream
  <2>2. n \in Started
    BY <2>1 DEF IInv, RegistryIsExact, Started
  <2>3. cursor \in Nat \ {0}
    BY <2>1 DEF IInv, TypeOK, Stream
  <2>4. socket' = [socket EXCEPT ![s] = record]
    BY <1>1, <1>3 DEF Join, Socket
  <2>5. stream[n].first # s
    BY <1>2, <2>2 DEF OrderInv, FirstInv
  <2> HIDE DEF n
  <2>6. /\ record.phase = "attaching" /\ record.stream = n
        /\ record.cursor = cursor /\ record.got = <<>>
    BY <1>1, <1>2 DEF Socket
  <2>7. Reads(record)
    BY <2>2, <2>3, <2>6 DEF Reads, InOrder
  <2>8. ReadsAll(s, record)
    BY <2>5, <2>6 DEF ReadsAll
  <2> HIDE DEF cursor
  <2>9. record \in Socket
    BY <1>1, <2>1, <2>3 DEF Socket
  <2>10. UNCHANGED stream
    BY <1>3 DEF Join
  <2> HIDE DEF record
  <2> QED
    BY <2>4, <2>6, <2>7, <2>8, <2>9, <2>10, ReaderKeepsOrder
<1>4. CASE registry[c] = NoStream /\ Found(s, c)
  <2>1. PICK n \in Streams \ Started :
            /\ stream' = [stream EXCEPT ![n].task = "opening",
                                        ![n].container = c, ![n].first = s]
            /\ socket' = [socket EXCEPT ![s].phase = "attaching",
                                        ![s].stream = n, ![s].cursor = 1]
    BY <1>4 DEF Found
  <2>2. stream[n] \in Stream /\ stream[n].task = "none" /\ stream[n].sent = <<>>
    BY <2>1 DEF IInv, TypeOK, Started, OrderInv, ChannelInv, Ordered
  <2>3. /\ stream'[n].task = "opening" /\ stream'[n].first = s
        /\ stream'[n].sent = <<>> /\ stream'[n].from = stream[n].from
    BY <1>1, <2>1, <2>2 DEF Stream
  <2>4. \A m \in Streams \ {n} : stream'[m] = stream[m]
    BY <1>1, <2>1
  <2>5. Started' = Started \cup {n}
    BY <2>1, <2>3, <2>4 DEF Started
  <2>6. ChannelInv'
    <3>1. Ordered(stream[n])'
      BY <2>2, <2>3 DEF OrderInv, ChannelInv, Ordered
    <3>2. ASSUME NEW m \in Streams \ {n} PROVE Ordered(stream[m])'
      BY <2>4, <3>2 DEF OrderInv, ChannelInv, Ordered
    <3> QED
      BY <3>1, <3>2 DEF ChannelInv
  <2>7. /\ socket'[s].phase = "attaching" /\ socket'[s].stream = n
        /\ socket'[s].cursor = 1 /\ socket'[s].got = <<>>
    BY <1>1, <1>2, <2>1 DEF Socket
  <2>8. \A r \in Sockets \ {s} : socket'[r] = socket[r]
    BY <1>1, <2>1
  <2>9. \A r \in Sockets \ {s} : socket[r].stream \in Started => socket[r].stream # n
    BY <2>1
  <2>10. ReaderInv'
    <3> SUFFICES ASSUME NEW r \in Sockets PROVE Reads(socket[r])'
        BY DEF ReaderInv
    <3>1. CASE r = s
        BY <2>3, <2>5, <2>7, <3>1 DEF Reads, InOrder
    <3>2. CASE r # s
      <4>1. Reads(socket[r]) /\ socket'[r] = socket[r]
        BY <2>8, <3>2 DEF OrderInv, ReaderInv
      <4>2. CASE socket[r].stream \in Started
        <5>1. stream'[socket[r].stream] = stream[socket[r].stream]
            BY <2>1, <2>4, <4>2 DEF Started
        <5> QED
            BY <2>5, <4>1, <5>1 DEF Reads
      <4>3. CASE socket[r].stream \notin Started
        BY <2>5, <4>1, <4>3 DEF Reads
      <4> QED
        BY <4>2, <4>3
    <3> QED
        BY <3>1, <3>2
  <2>11. FirstInv'
    <3>1. ASSUME NEW m \in Started'
          PROVE  socket'[stream'[m].first].phase \notin {"free", "resolving"}
      <4>1. CASE m = n
        BY <2>3, <2>7, <4>1
      <4>2. CASE m # n
        <5>1. m \in Started /\ stream'[m] = stream[m] /\ stream[m].first \in Sockets
            BY <2>4, <2>5, <3>1, <4>2 DEF Started, IInv, TypeOK, Stream
        <5> QED
            BY <2>7, <2>8, <5>1 DEF OrderInv, FirstInv
      <4> QED
        BY <4>1, <4>2
    <3>2. ASSUME NEW r \in Sockets
          PROVE  ReadsAll(r, socket[r])'
      <4>1. CASE r = s
        BY <2>7, <4>1 DEF ReadsAll
      <4>2. CASE r # s
        <5>1. ReadsAll(r, socket[r]) /\ socket'[r] = socket[r]
            BY <2>8, <4>2 DEF OrderInv, FirstInv
        <5>2. CASE socket[r].stream \in Started
          <6>1. stream'[socket[r].stream] = stream[socket[r].stream]
            BY <2>1, <2>4, <5>2 DEF Started
          <6> QED
            BY <5>1, <5>2, <6>1 DEF ReadsAll
        <5>3. CASE socket[r].stream = n
            BY <2>3, <4>2, <5>1, <5>3 DEF ReadsAll
        <5>4. CASE socket[r].stream \notin Started'
            BY <5>1, <5>4 DEF ReadsAll
        <5> QED
            BY <2>5, <5>2, <5>3, <5>4
      <4> QED
        BY <4>1, <4>2
    <3> QED
        BY <3>1, <3>2 DEF FirstInv
  <2> QED
    BY <2>6, <2>10, <2>11 DEF OrderInv
<1> QED
    BY <1>3, <1>4 DEF Subscribe

(* One more message in order, unless the last one was a last word.          *)
LEMMA AppendInOrder ==
    ASSUME NEW got \in Seq(Messages \cup {Gap}), NEW m \in Messages \cup {Gap},
           InOrder(got),
           got # <<>> =>
               /\ got[Len(got)] \notin {Ended, Failed}
               /\ got[Len(got)] # Gap /\ m > 0 => m = got[Len(got)] + 1
    PROVE  InOrder(Append(got, m))
<1> SUFFICES ASSUME NEW i \in 1 .. Len(got)
             PROVE  /\ got[i] \notin {Ended, Failed}
                    /\ got[i] # Gap /\ Append(got, m)[i + 1] > 0 =>
                           Append(got, m)[i + 1] = got[i] + 1
    BY DEF InOrder
<1>1. CASE i = Len(got)
    BY <1>1
<1>2. CASE i # Len(got)
    BY <1>2 DEF InOrder
<1> QED
    BY <1>1, <1>2

(* Who has more to receive has last received a numbered line, the one       *)
(* before its cursor, or was told of a gap.                                 *)
LEMMA LastWasALine ==
    ASSUME IInv, OrderInv, NEW s \in Sockets,
           socket[s].phase = "streaming", Behind(s) > 0,
           socket[s].got # <<>>
    PROVE  LET last == socket[s].got[Len(socket[s].got)]
               t    == stream[socket[s].stream]
           IN  /\ last \notin {Ended, Failed}
               /\ last # Gap => last = t.from \div 2 + socket[s].cursor - 1
<1> DEFINE k    == socket[s]
           t    == stream[k.stream]
           last == k.got[Len(k.got)]
<1>1. k \in Socket /\ k.stream \in Streams /\ t \in Stream
    BY DEF IInv, TypeOK, ReceiverInv
<1>2. k.cursor \in Nat \ {0} /\ Len(t.sent) \in Nat /\ t.from \in Nat
    BY <1>1, StreamsAssumption DEF Socket, Stream
<1>3. k.cursor - 1 < Len(t.sent)
    BY <1>2 DEF Behind
<1>4. last # Gap => k.cursor > 1 /\ last = t.sent[k.cursor - 1]
    BY DEF OrderInv, ReaderInv, Reads
<1>5. Ordered(t)
    BY <1>1 DEF OrderInv, ChannelInv
<1>6. CASE last # Gap
  <2>1. k.cursor - 1 \in 1 .. Len(t.sent) /\ k.cursor - 1 # Len(t.sent)
    BY <1>2, <1>3, <1>4, <1>6
  <2>2. t.sent[k.cursor - 1] = t.from \div 2 + (k.cursor - 1)
    BY <1>5, <2>1 DEF Ordered
  <2>3. t.from \div 2 + (k.cursor - 1) > 0
    BY <1>2, <2>1
  <2> HIDE DEF t, k
  <2> QED
    BY <1>2, <1>4, <1>6, <2>2, <2>3 DEF Ended, Failed, last, t, k
<1>7. CASE last = Gap
    BY <1>7 DEF Gap, Ended, Failed
<1> QED
    BY <1>6, <1>7

LEMMA DeliverKeepsOrder ==
    ASSUME IInv, IInv', OrderInv, NEW s \in Sockets,
           socket[s].phase = "streaming", Behind(s) \in 1 .. Capacity,
           socket' = [socket EXCEPT
               ![s].cursor = @ + 1,
               ![s].got = Append(@, stream[socket[s].stream].sent[socket[s].cursor])],
           UNCHANGED stream
    PROVE  OrderInv'
<1> DEFINE k       == socket[s]
           t       == stream[k.stream]
           message == t.sent[k.cursor]
           record  == [k EXCEPT !.cursor = @ + 1, !.got = Append(@, message)]
<1>1. /\ DOMAIN socket = Sockets /\ k \in Socket
      /\ k.stream \in Started /\ k.stream \in Streams /\ t \in Stream
    BY DEF IInv, TypeOK, ReceiverInv, OrderInv, ReaderInv, Reads
<1>2. /\ k.cursor \in Nat \ {0} /\ Len(t.sent) \in Nat /\ t.from \in Nat
      /\ k.got \in Seq(Messages \cup {Gap}) /\ t.sent \in Seq(Messages)
    BY <1>1, StreamsAssumption DEF Socket, Stream
<1>3. k.cursor \in 1 .. Len(t.sent)
  <2>1. Behind(s) = Len(t.sent) + 1 - k.cursor
    BY DEF Behind
  <2>2. Behind(s) \in 1 .. Capacity /\ Capacity \in Nat
    BY StreamsAssumption
  <2> HIDE DEF t, k
  <2> QED
    BY <1>2, <2>1, <2>2
<1>4. message \in Messages
    BY <1>2, <1>3
<1>5. message > 0 => message = t.from \div 2 + k.cursor
    BY <1>1, <1>3 DEF OrderInv, ChannelInv, Ordered, Ended, Failed
<1>6. socket' = [socket EXCEPT ![s] = record]
    BY <1>1 DEF Socket
<1>7. /\ record.phase = "streaming" /\ record.stream = k.stream
      /\ record.cursor = k.cursor + 1 /\ record.got = Append(k.got, message)
    BY <1>1 DEF Socket
<1>8. record \in Socket
    BY <1>1, <1>6 DEF IInv, TypeOK
<1>9. k.got # <<>> =>
        LET last == k.got[Len(k.got)]
        IN  /\ last \notin {Ended, Failed}
            /\ last # Gap => last = t.from \div 2 + k.cursor - 1
  <2>1. Behind(s) > 0
    BY StreamsAssumption
  <2> QED
    BY <2>1, LastWasALine
<1>10. InOrder(k.got)
    BY DEF OrderInv, ReaderInv, Reads
<1>11. ReadsAll(s, k)
    BY DEF OrderInv, FirstInv
<1> HIDE DEF record, message, t, k
<1>12. InOrder(Append(k.got, message))
  <2>1. k.got # <<>> /\ k.got[Len(k.got)] # Gap /\ message > 0 =>
            message = k.got[Len(k.got)] + 1
    <3>1. t.from \div 2 \in Int
      BY <1>2
    <3> QED
      BY <1>2, <1>5, <1>9, <3>1
  <2> QED
    BY <1>2, <1>4, <1>9, <1>10, <2>1, AppendInOrder
<1>13. Reads(record)
  <2>1. Append(k.got, message)[Len(Append(k.got, message))] = message
    BY <1>2, <1>4
  <2>2. k.cursor + 1 <= Len(t.sent) + 1 /\ k.cursor + 1 > 1 /\ k.cursor + 1 - 1 = k.cursor
    BY <1>2, <1>3
  <2>3. record.got[Len(record.got)] = stream[record.stream].sent[record.cursor - 1]
    <3>1. record.got[Len(record.got)] = message
      BY <1>7, <2>1 DEF message
    <3>2. record.cursor - 1 = k.cursor
      BY <1>2, <1>7
    <3> QED
      BY <1>7, <3>1, <3>2 DEF message, t
  <2> QED
    BY <1>1, <1>7, <1>12, <2>2, <2>3 DEF Reads, t
<1>14. ReadsAll(s, record)
  <2> SUFFICES ASSUME stream[k.stream].first = s,
                      \A i \in 1 .. Len(record.got) : record.got[i] # Gap
               PROVE  Len(record.got) = record.cursor - 1
    BY <1>7 DEF ReadsAll
  <2>1. \A i \in 1 .. Len(k.got) : k.got[i] # Gap
    BY <1>2, <1>4, <1>7
  <2>2. Len(k.got) = k.cursor - 1
    BY <1>1, <1>11, <2>1 DEF ReadsAll
  <2> QED
    BY <1>2, <1>4, <1>7, <2>2
<1> QED
    BY <1>6, <1>7, <1>8, <1>13, <1>14, ReaderKeepsOrder

LEMMA LagKeepsOrder ==
    ASSUME IInv, IInv', OrderInv, NEW s \in Sockets, Lag(s)
    PROVE  OrderInv'
<1> DEFINE k      == socket[s]
           t      == stream[k.stream]
           cursor == k.cursor + Behind(s) - Capacity
           record == [k EXCEPT !.cursor = cursor, !.got = Append(@, Gap)]
<1>1. /\ DOMAIN socket = Sockets /\ k \in Socket /\ k.phase = "streaming"
      /\ k.stream \in Started /\ k.stream \in Streams /\ t \in Stream
    BY DEF IInv, TypeOK, ReceiverInv, OrderInv, ReaderInv, Reads, Lag
<1>2. /\ k.cursor \in Nat \ {0} /\ Len(t.sent) \in Nat
      /\ k.got \in Seq(Messages \cup {Gap})
    BY <1>1 DEF Socket, Stream
<1>3. Behind(s) > 0 /\ cursor <= Len(t.sent) + 1
  <2>1. Behind(s) = Len(t.sent) + 1 - k.cursor
    BY DEF Behind
  <2>2. Behind(s) > Capacity /\ Capacity \in Nat
    BY StreamsAssumption DEF Lag
  <2> HIDE DEF t, k
  <2> QED
    BY <1>2, <2>1, <2>2
<1>4. socket' = [socket EXCEPT ![s] = record]
    BY <1>1 DEF Socket, Lag
<1>5. /\ record.phase = "streaming" /\ record.stream = k.stream
      /\ record.cursor = cursor /\ record.got = Append(k.got, Gap)
    BY <1>1 DEF Socket
<1>6. record \in Socket
    BY <1>1, <1>4 DEF IInv, TypeOK
<1>7. InOrder(k.got)
    BY DEF OrderInv, ReaderInv, Reads
<1>8. k.got # <<>> => k.got[Len(k.got)] \notin {Ended, Failed}
    BY <1>1, <1>3, LastWasALine
<1>9. UNCHANGED stream
    BY DEF Lag
<1> HIDE DEF record, cursor, t, k
<1>10. InOrder(Append(k.got, Gap))
    BY <1>2, <1>7, <1>8, AppendInOrder DEF Gap
<1>11. record.got[Len(record.got)] = Gap /\ Len(record.got) \in 1 .. Len(record.got)
    BY <1>2, <1>5
<1>12. Reads(record)
    BY <1>1, <1>3, <1>5, <1>10, <1>11 DEF Reads, t
<1>13. ReadsAll(s, record)
    BY <1>11 DEF ReadsAll
<1> QED
    BY <1>4, <1>5, <1>6, <1>9, <1>12, <1>13, ReaderKeepsOrder

LEMMA HandlerKeepsOrder ==
    ASSUME IInv, IInv', OrderInv, NEW s \in Sockets, Handler(s)
    PROVE  OrderInv'
<1>1. socket[s].peer \in BOOLEAN /\ socket[s] \in Socket /\ DOMAIN socket = Sockets
    BY DEF IInv, TypeOK, Socket
<1>2. ASSUME Return(s), UNCHANGED stream PROVE OrderInv'
  <2>1. /\ Closed.got = <<>> /\ Closed.phase = "closed"
        /\ Closed.stream \notin Started
    BY DEF Closed, NoStream, Started, Streams
  <2>2. Reads(Closed) /\ ReadsAll(s, Closed)
    BY <2>1 DEF Reads, ReadsAll, InOrder
  <2>3. socket' = [socket EXCEPT ![s] = Closed]
    BY <1>2 DEF Return
  <2> QED
    BY <1>2, <2>1, <2>2, <2>3, ClosedIsSocket, ReaderKeepsOrder
<1>3. CASE ResolvesNothing(s) \/ SeesChannelClosed(s) \/ SeesPeerLeave(s)
    BY <1>2, <1>3 DEF ResolvesNothing, SeesChannelClosed, SeesPeerLeave
<1>4. ASSUME NEW c \in Containers, Subscribe(s, c) PROVE OrderInv'
    BY <1>4, SubscribeKeepsOrder
<1>5. CASE Attach(s)
  <2>1. CASE socket' = [socket EXCEPT ![s].phase = "streaming"]
    <3>1. socket' = [socket EXCEPT ![s].phase = "streaming", ![s].peer = socket[s].peer]
      BY <1>1, <2>1 DEF Socket
    <3> QED
      BY <1>1, <1>5, <3>1, PhaseKeepsOrder DEF Attach
  <2> QED
    BY <1>2, <1>5, <2>1 DEF Attach
<1>6. CASE Deliver(s)
    BY <1>2, <1>6, DeliverKeepsOrder DEF Deliver
<1>7. CASE Lag(s)
    BY <1>7, LagKeepsOrder
<1> QED
    BY <1>3, <1>4, <1>5, <1>6, <1>7 DEF Handler

-----------------------------------------------------------------------------
(* Steps of a task.                                                         *)

(* A channel only grows, and a receiver does not mind.                      *)
LEMMA ChannelGrows ==
    ASSUME IInv, OrderInv, NEW n \in Streams, NEW record \in Stream,
           stream' = [stream EXCEPT ![n] = record], UNCHANGED socket,
           stream[n].task # "none", record.task # "none",
           record.first = stream[n].first,
           Ordered(record),
           Len(stream[n].sent) <= Len(record.sent),
           \A i \in 1 .. Len(stream[n].sent) : record.sent[i] = stream[n].sent[i]
    PROVE  OrderInv'
<1>1. DOMAIN stream = Streams /\ stream \in [Streams -> Stream]
    BY DEF IInv, TypeOK
<1>2. Started' = Started
    BY <1>1 DEF Started
<1>3. \A m \in Streams :
        /\ stream'[m].first = stream[m].first
        /\ Len(stream[m].sent) <= Len(stream'[m].sent)
        /\ \A i \in 1 .. Len(stream[m].sent) : stream'[m].sent[i] = stream[m].sent[i]
  <2> TAKE m \in Streams
  <2>1. CASE m = n
    BY <1>1, <2>1
  <2>2. CASE m # n
    <3>1. stream'[m] = stream[m] /\ Len(stream[m].sent) \in Nat
      BY <1>1, <2>2 DEF Stream
    <3> QED
      BY <3>1
  <2> QED
    BY <2>1, <2>2
<1>4. ChannelInv'
    BY <1>1 DEF OrderInv, ChannelInv, Ordered
<1>5. ReaderInv'
  <2> SUFFICES ASSUME NEW s \in Sockets PROVE Reads(socket[s])'
    BY DEF ReaderInv
  <2> DEFINE k == socket[s]
  <2>1. Reads(k) /\ k \in Socket /\ UNCHANGED k
    BY DEF OrderInv, ReaderInv, IInv, TypeOK
  <2>2. CASE k.stream \in Started
    <3>1. /\ Len(stream[k.stream].sent) <= Len(stream'[k.stream].sent)
          /\ \A i \in 1 .. Len(stream[k.stream].sent) :
                stream'[k.stream].sent[i] = stream[k.stream].sent[i]
      BY <1>3, <2>2 DEF Started
    <3>2. /\ Len(stream[k.stream].sent) \in Nat /\ Len(stream'[k.stream].sent) \in Nat
          /\ k.cursor \in Nat
      BY <1>1, <2>1, <2>2 DEF Started, Stream, Socket
    <3> HIDE DEF k
    <3>3. k.cursor <= Len(stream[k.stream].sent) + 1 =>
            /\ k.cursor <= Len(stream'[k.stream].sent) + 1
            /\ k.cursor > 1 =>
                 stream'[k.stream].sent[k.cursor - 1] = stream[k.stream].sent[k.cursor - 1]
      <4> DEFINE old == stream[k.stream].sent
                 new == stream'[k.stream].sent
                 at  == k.cursor
      <4>1. /\ Len(old) <= Len(new) /\ Len(old) \in Nat /\ Len(new) \in Nat
            /\ \A i \in 1 .. Len(old) : new[i] = old[i]
            /\ at \in Nat
        BY <3>1, <3>2
      <4> HIDE DEF old, new, at
      <4>2. ASSUME at <= Len(old) + 1
            PROVE  at <= Len(new) + 1 /\ (at > 1 => new[at - 1] = old[at - 1])
        <5>1. at > 1 => at - 1 \in 1 .. Len(old)
          BY <4>1, <4>2
        <5> QED
          BY <4>1, <4>2, <5>1
      <4> QED
        BY <4>2 DEF old, new, at
    <3>4. /\ socket'[s] = socket[s]
          /\ k.got # <<>> /\ k.got[Len(k.got)] # Gap =>
               k.cursor > 1 /\ k.got[Len(k.got)] = stream[k.stream].sent[k.cursor - 1]
          /\ k.phase \in {"attaching", "streaming"} \/ k.got # <<>> =>
               k.cursor <= Len(stream[k.stream].sent) + 1
      BY <2>1 DEF Reads, k
    <3>5. k.got # <<>> => k.cursor <= Len(stream[k.stream].sent) + 1
      BY <3>4
    <3>6. /\ k.phase \in {"free", "resolving"} => k.got = <<>>
          /\ InOrder(k.got)
      BY <2>1 DEF Reads
    <3> QED
      BY <1>2, <2>2, <3>3, <3>4, <3>5, <3>6 DEF Reads, k
  <2>3. CASE k.stream \notin Started
    BY <1>2, <2>1, <2>3 DEF Reads
  <2> QED
    BY <2>2, <2>3
<1>6. FirstInv'
  <2>1. \A m \in Started : socket[stream'[m].first].phase \notin {"free", "resolving"}
    BY <1>3 DEF OrderInv, FirstInv, Started
  <2>2. \A s \in Sockets : ReadsAll(s, socket[s])'
    BY <1>2, <1>3 DEF OrderInv, FirstInv, ReadsAll, Started
  <2> QED
    BY <1>2, <2>1, <2>2 DEF FirstInv
<1> QED
    BY <1>4, <1>5, <1>6 DEF OrderInv

(* A task's record after a step that publishes.                             *)
LEMMA PublishKeepsOrder ==
    ASSUME IInv, OrderInv, NEW n \in Streams, NEW m \in Seq(Messages),
           NEW task \in {"streaming", "ended", "gone"},
           NEW from \in 0 .. MaxOutput, NEW read \in 0 .. MaxOutput,
           NEW sent \in {stream[n].sent, stream[n].sent \o m},
           stream[n].task # "none",
           stream' = [stream EXCEPT ![n].task = task, ![n].from = from,
                                    ![n].read = read, ![n].sent = sent],
           Ordered([stream[n] EXCEPT !.task = task, !.from = from,
                                     !.read = read, !.sent = sent]),
           UNCHANGED socket
    PROVE  OrderInv'
<1> DEFINE record == [stream[n] EXCEPT !.task = task, !.from = from,
                                       !.read = read, !.sent = sent]
<1>1. stream[n] \in Stream /\ DOMAIN stream = Streams
    BY DEF IInv, TypeOK
<1>2. stream[n].sent \in Seq(Messages) /\ sent \in Seq(Messages)
    BY <1>1 DEF Stream
<1>3. record \in Stream
    BY <1>1, <1>2 DEF Stream
<1>4. record.task = task /\ record.first = stream[n].first /\ record.sent = sent
    BY <1>1 DEF Stream
<1>5. stream' = [stream EXCEPT ![n] = record]
    BY <1>1 DEF Stream
<1>6. /\ Len(stream[n].sent) <= Len(sent)
      /\ \A i \in 1 .. Len(stream[n].sent) : sent[i] = stream[n].sent[i]
    BY <1>2
<1>7. Ordered(record)
    OBVIOUS
<1> HIDE DEF record
<1> QED
    BY <1>3, <1>4, <1>5, <1>6, <1>7, ChannelGrows

(* What Sent makes of a channel.                                            *)
LEMMA SentCases ==
    ASSUME NEW n \in Streams, NEW m
    PROVE  \/ Receivers(n) = {} /\ Sent(n, m) = stream[n].sent
           \/ Receivers(n) # {} /\ Sent(n, m) = stream[n].sent \o m
BY DEF Sent

(* A stream that is being read, in numbers.                                 *)
LEMMA BeingRead ==
    ASSUME IInv, OrderInv, NEW n \in Streams, stream[n].task \in {"opening", "streaming"}
    PROVE  /\ stream[n].from \in Nat /\ stream[n].from % 2 = 0
           /\ stream[n].read \in Nat
           /\ stream[n].sent \in Seq(Messages) /\ Len(stream[n].sent) \in Nat
           /\ \A i \in 1 .. Len(stream[n].sent) :
                stream[n].sent[i] = stream[n].from \div 2 + i
           /\ stream[n].task = "streaming" =>
                Len(stream[n].sent) = stream[n].read \div 2 - stream[n].from \div 2
           /\ stream[n].task = "opening" => stream[n].sent = <<>>
<1>1. stream[n] \in Stream /\ Ordered(stream[n])
    BY DEF IInv, TypeOK, OrderInv, ChannelInv
<1>2. MaxOutput \in Nat
    BY StreamsAssumption
<1> QED
    BY <1>1, <1>2 DEF Stream, Ordered

LEMMA OpenKeepsOrder ==
    ASSUME IInv, IInv', OrderInv, NEW n \in Streams, Open(n)
    PROVE  OrderInv'
<1> DEFINE lines  == output[stream[n].container] \div 2
           from   == IF lines > TailLines THEN 2 * (lines - TailLines) ELSE 0
           record == [stream[n] EXCEPT !.task = "streaming", !.from = from,
                                       !.read = from, !.sent = stream[n].sent]
<1>1. stream[n] \in Stream /\ DOMAIN stream = Streams /\ stream[n].task = "opening"
    BY DEF IInv, TypeOK, Open
<1>2. from \in 0 .. MaxOutput /\ from % 2 = 0
  <2>1. output[stream[n].container] \in 0 .. MaxOutput
    BY <1>1 DEF IInv, TypeOK, Stream
  <2>2. lines \in Nat /\ 2 * lines <= MaxOutput
    BY <2>1, StreamsAssumption
  <2> HIDE DEF lines
  <2> QED
    BY <2>2, StreamsAssumption
<1>3. stream[n].sent = <<>>
    BY <1>1, BeingRead
<1>4. stream' = [stream EXCEPT ![n].task = "streaming", ![n].from = from,
                               ![n].read = from, ![n].sent = stream[n].sent]
    BY <1>1 DEF Open, Stream
<1>5. UNCHANGED socket
    BY DEF Open
<1> HIDE DEF from
<1>6. /\ record.task = "streaming" /\ record.from = from
      /\ record.read = from /\ record.sent = <<>>
    BY <1>1, <1>3 DEF Stream
<1> HIDE DEF record
<1>7. Ordered(record)
    BY <1>2, <1>6 DEF Ordered
<1>8. <<>> \in Seq(Messages)
    OBVIOUS
<1> QED
    BY <1>1, <1>2, <1>3, <1>8, <1>4, <1>5, <1>7, PublishKeepsOrder DEF record

LEMMA FailKeepsOrder ==
    ASSUME IInv, OrderInv, NEW n \in Streams, Fail(n)
    PROVE  OrderInv'
<1> DEFINE t      == stream[n]
           sent   == Sent(n, <<Failed>>)
           record == [t EXCEPT !.task = "ended", !.from = t.from,
                               !.read = t.read, !.sent = sent]
<1>1. t \in Stream /\ DOMAIN stream = Streams /\ t.task \in {"opening", "streaming"}
    BY DEF IInv, TypeOK, Fail
<1>2. t.sent \in Seq(Messages) /\ <<Failed>> \in Seq(Messages)
    BY <1>1 DEF Stream, Messages
<1>3. sent \in {t.sent, t.sent \o <<Failed>>}
    BY SentCases
<1>4. /\ stream' = [stream EXCEPT ![n].task = "ended", ![n].from = t.from,
                                  ![n].read = t.read, ![n].sent = sent]
      /\ UNCHANGED socket
    BY <1>1 DEF Fail, Stream
<1> HIDE DEF sent
<1>5. /\ record.task = "ended" /\ record.from = t.from
      /\ record.read = t.read /\ record.sent = sent
    BY <1>1 DEF Stream
<1> HIDE DEF record
<1>6. \A i \in 1 .. Len(sent) :
          \/ sent[i] = t.from \div 2 + i
          \/ i = Len(sent) /\ sent[i] = Failed
  <2>1. \A i \in 1 .. Len(t.sent) : t.sent[i] = t.from \div 2 + i
    BY <1>1, BeingRead
  <2> HIDE DEF t
  <2>2. CASE sent = t.sent
    BY <2>1, <2>2
  <2>3. CASE sent = t.sent \o <<Failed>>
    BY <1>2, <2>1, <2>3
  <2> QED
    BY <1>3, <2>2, <2>3
<1>7. Ordered(record)
  <2>1. t.from % 2 = 0
    BY <1>1, BeingRead
  <2>2. Failed # Ended
    BY DEF Failed, Ended
  <2> HIDE DEF t
  <2> QED
    BY <1>5, <1>6, <2>1, <2>2 DEF Ordered
<1> QED
    BY <1>1, <1>2, <1>3, <1>4, <1>7, StreamsAssumption, PublishKeepsOrder
    DEF record, Stream

(* A frame completes one line at most.                                      *)
LEMMA HalfLines ==
    ASSUME NEW before \in Nat, NEW read \in before + 1 .. before + 2
    PROVE  /\ read \div 2 > before \div 2 => read \div 2 = before \div 2 + 1
           /\ ~(read \div 2 > before \div 2) => read \div 2 = before \div 2
OBVIOUS

LEMMA FrameKeepsOrder ==
    ASSUME IInv, OrderInv, NEW n \in Streams, Frame(n)
    PROVE  OrderInv'
<1> DEFINE t == stream[n]
<1>1. t \in Stream /\ DOMAIN stream = Streams /\ t.task = "streaming"
    BY DEF IInv, TypeOK, Frame
<1>2. PICK read \in t.read + 1 .. t.read + 2 :
        /\ read <= output[t.container]
        /\ LET whole == read \div 2 > t.read \div 2
           IN  stream' = [stream EXCEPT
                  ![n].read = read,
                  ![n].sent = IF whole THEN Sent(n, <<read \div 2>>) ELSE @,
                  ![n].task = IF whole /\ Receivers(n) = {} THEN "ended" ELSE @]
    BY DEF Frame
<1> DEFINE whole  == read \div 2 > t.read \div 2
           line   == read \div 2
           m      == IF whole THEN <<line>> ELSE <<>>
           sent   == IF whole THEN Sent(n, <<line>>) ELSE t.sent
           task   == IF whole /\ Receivers(n) = {} THEN "ended" ELSE "streaming"
           record == [t EXCEPT !.task = task, !.from = t.from, !.read = read, !.sent = sent]
<1>3. /\ t.read \in 0 .. MaxOutput /\ read \in 0 .. MaxOutput /\ t.from \in 0 .. MaxOutput
      /\ t.sent \in Seq(Messages)
  <2>1. output[t.container] \in 0 .. MaxOutput /\ t.read \in 0 .. MaxOutput
    BY <1>1 DEF IInv, TypeOK, Stream
  <2> QED
    BY <1>1, <1>2, <2>1, StreamsAssumption DEF Stream
<1>4. m \in Seq(Messages)
    BY <1>3, LineIsMessage
<1>5. stream' = [stream EXCEPT ![n].task = task, ![n].from = t.from,
                               ![n].read = read, ![n].sent = sent]
    BY <1>1, <1>2 DEF Stream
<1>6. UNCHANGED socket
    BY DEF Frame
<1>7. \/ sent = t.sent /\ task = "ended"
      \/ sent = t.sent /\ task = "streaming" /\ ~whole
      \/ sent = t.sent \o <<line>> /\ task = "streaming" /\ whole
    BY SentCases
<1>8. /\ whole => line = t.read \div 2 + 1
      /\ ~whole => line = t.read \div 2
  <2>1. t.read \in Nat /\ read \in t.read + 1 .. t.read + 2
    BY <1>3, StreamsAssumption
  <2> HIDE DEF t
  <2> QED
    BY <2>1, HalfLines
<1>9. sent \in {t.sent, t.sent \o m} /\ task \in {"streaming", "ended", "gone"}
    BY <1>7
<1> HIDE DEF sent, task, m
<1>10. /\ record.task = task /\ record.from = t.from
       /\ record.read = read /\ record.sent = sent
    BY <1>1 DEF Stream
<1> HIDE DEF record
<1>11. Ordered(record)
  <2>1. /\ \A i \in 1 .. Len(t.sent) : t.sent[i] = t.from \div 2 + i
        /\ Len(t.sent) = t.read \div 2 - t.from \div 2
        /\ t.from % 2 = 0
    BY <1>1, BeingRead
  <2>2. t.from \div 2 \in Int /\ t.read \div 2 \in Int /\ Len(t.sent) \in Nat /\ line \in Int
    BY <1>3, StreamsAssumption
  <2> HIDE DEF t
  <2>3. CASE sent = t.sent
    <3>1. task = "streaming" => Len(sent) = line - t.from \div 2
      <4>1. task = "streaming" => ~whole
        <5>1. ASSUME task = "streaming", sent = t.sent \o <<line>> PROVE FALSE
            BY <1>3, <2>2, <2>3, <5>1
        <5> QED
            BY <1>7, <2>3, <5>1
      <4> QED
        BY <1>8, <2>1, <2>3, <4>1
    <3> QED
        BY <1>9, <1>10, <2>1, <2>3, <3>1 DEF Ordered
  <2>4. CASE sent = t.sent \o <<line>> /\ task = "streaming" /\ whole
    <3> HIDE DEF line, whole
    <3>1. /\ Len(sent) = Len(t.sent) + 1 /\ sent[Len(sent)] = line
          /\ \A i \in 1 .. Len(t.sent) : sent[i] = t.sent[i]
      BY <1>3, <2>4
    <3>2. line = t.from \div 2 + Len(sent)
      BY <1>8, <2>1, <2>2, <2>4, <3>1
    <3>3. \A i \in 1 .. Len(sent) : sent[i] = t.from \div 2 + i
      <4> TAKE i \in 1 .. Len(sent)
      <4>1. CASE i = Len(sent)
        BY <3>1, <3>2, <4>1
      <4>2. CASE i # Len(sent)
        <5>1. i \in 1 .. Len(t.sent)
            BY <2>2, <3>1, <4>2
        <5> QED
            BY <2>1, <3>1, <5>1
      <4> QED
        BY <4>1, <4>2
    <3>4. Len(sent) = read \div 2 - t.from \div 2
      BY <2>2, <3>1, <3>2 DEF line
    <3> QED
      BY <1>10, <2>1, <2>4, <3>3, <3>4 DEF Ordered
  <2> QED
    BY <1>7, <2>3, <2>4
<1> QED
    BY <1>1, <1>3, <1>4, <1>5, <1>6, <1>9, <1>11, PublishKeepsOrder DEF record

(* Half a line more than the whole lines, or not.                           *)
LEMMA LastLine ==
    ASSUME NEW read \in Nat
    PROVE  \/ read % 2 = 1 /\ (read + 1) \div 2 = read \div 2 + 1
           \/ read % 2 # 1 /\ (read + 1) \div 2 = read \div 2
OBVIOUS

LEMMA EndKeepsOrder ==
    ASSUME IInv, OrderInv, NEW n \in Streams, End(n)
    PROVE  OrderInv'
<1> DEFINE t      == stream[n]
           m      == Trailing(n) \o <<Ended>>
           sent   == Sent(n, m)
           record == [t EXCEPT !.task = "ended", !.from = t.from,
                               !.read = t.read, !.sent = sent]
<1>1. t \in Stream /\ DOMAIN stream = Streams /\ t.task = "streaming"
    BY DEF IInv, TypeOK, End
<1>2. t.sent \in Seq(Messages) /\ m \in Seq(Messages)
    BY <1>1, TrailingIsMessage DEF Stream, IInv
<1>3. sent \in {t.sent, t.sent \o m}
    BY SentCases
<1>4. /\ stream' = [stream EXCEPT ![n].task = "ended", ![n].from = t.from,
                                  ![n].read = t.read, ![n].sent = sent]
      /\ UNCHANGED socket
    BY <1>1 DEF End, Stream
<1> DEFINE half == t.read \div 2
           rest == (t.read + 1) \div 2
           base == t.from \div 2
<1>5. \/ t.read % 2 = 1 /\ rest = half + 1 /\ m = <<rest>> \o <<Ended>>
      \/ t.read % 2 # 1 /\ rest = half /\ m = <<Ended>>
  <2>1. t.read \in Nat
    BY <1>1, StreamsAssumption DEF Stream
  <2>2. \/ t.read % 2 = 1 /\ rest = half + 1
        \/ t.read % 2 # 1 /\ rest = half
    BY <2>1, LastLine
  <2>3. t.read % 2 = 1 => m = <<rest>> \o <<Ended>>
    BY DEF Trailing
  <2>4. t.read % 2 # 1 => m = <<Ended>>
    BY DEF Trailing
  <2> QED
    BY <2>2, <2>3, <2>4
<1>6. /\ \A i \in 1 .. Len(t.sent) : t.sent[i] = base + i
      /\ Len(t.sent) = half - base /\ Len(t.sent) \in Nat
      /\ t.from % 2 = 0
      /\ base \in Int /\ half \in Int /\ rest \in Int
  <2>1. t.from \in Nat /\ t.read \in Nat
    BY <1>1, BeingRead
  <2> QED
    BY <1>1, <2>1, BeingRead
<1> HIDE DEF sent, m
<1>7. /\ record.task = "ended" /\ record.from = t.from
      /\ record.read = t.read /\ record.sent = sent
    BY <1>1 DEF Stream
<1> HIDE DEF record
<1>8. \A i \in 1 .. Len(sent) :
          \/ sent[i] = base + i
          \/ i = Len(sent) /\ sent[i] = Ended /\ i - 1 = rest - base
  <2> HIDE DEF base, half, rest, t
  <2>1. CASE sent = t.sent
    BY <1>6, <2>1
  <2>2. CASE sent = t.sent \o m /\ m = <<Ended>> /\ rest = half
    <3>1. /\ Len(sent) = Len(t.sent) + 1 /\ sent[Len(sent)] = Ended
          /\ \A i \in 1 .. Len(t.sent) : sent[i] = t.sent[i]
      BY <1>2, <2>2
    <3> TAKE i \in 1 .. Len(sent)
    <3>2. CASE i \in 1 .. Len(t.sent)
      BY <1>6, <3>1, <3>2
    <3>3. CASE i = Len(t.sent) + 1
      <4>1. i - 1 = rest - base
        BY <1>6, <2>2, <3>3
      <4> QED
        BY <3>1, <3>3, <4>1
    <3> QED
      BY <1>6, <3>1, <3>2, <3>3
  <2>3. CASE sent = t.sent \o m /\ m = <<rest>> \o <<Ended>> /\ rest = half + 1
    <3>1. /\ Len(sent) = Len(t.sent) + 2 /\ sent[Len(sent)] = Ended
          /\ sent[Len(t.sent) + 1] = rest
          /\ \A i \in 1 .. Len(t.sent) : sent[i] = t.sent[i]
      BY <1>2, <2>3
    <3> TAKE i \in 1 .. Len(sent)
    <3>2. CASE i \in 1 .. Len(t.sent)
      BY <1>6, <3>1, <3>2
    <3>3. CASE i = Len(t.sent) + 1
      <4>1. rest = base + i
        BY <1>6, <2>3, <3>3
      <4> QED
        BY <3>1, <3>3, <4>1
    <3>4. CASE i = Len(t.sent) + 2
      <4>1. i - 1 = rest - base
        BY <1>6, <2>3, <3>4
      <4> QED
        BY <3>1, <3>4, <4>1
    <3> QED
      BY <1>6, <3>1, <3>2, <3>3, <3>4
  <2> QED
    BY <1>3, <1>5, <2>1, <2>2, <2>3
<1>9. Ordered(record)
    BY <1>6, <1>7, <1>8 DEF Ordered
<1> QED
    BY <1>1, <1>2, <1>3, <1>4, <1>9, StreamsAssumption, PublishKeepsOrder
    DEF record, Stream

LEMMA RemoveKeepsOrder ==
    ASSUME IInv, OrderInv, NEW n \in Streams, Remove(n)
    PROVE  OrderInv'
<1> DEFINE record == [stream[n] EXCEPT !.task = "gone"]
<1>1. stream[n] \in Stream /\ DOMAIN stream = Streams /\ stream[n].task = "ended"
    BY DEF IInv, TypeOK, Remove
<1>2. /\ record.task = "gone" /\ record.from = stream[n].from
      /\ record.read = stream[n].read /\ record.sent = stream[n].sent
      /\ record.first = stream[n].first /\ record \in Stream
    BY <1>1 DEF Stream
<1>3. stream' = [stream EXCEPT ![n] = record] /\ UNCHANGED socket
    BY <1>1 DEF Remove, Stream
<1> HIDE DEF record
<1>4. Ordered(record)
  <2>1. Ordered(stream[n])
    BY DEF OrderInv, ChannelInv
  <2> QED
    BY <1>1, <1>2, <2>1 DEF Ordered
<1>5. /\ Len(stream[n].sent) <= Len(record.sent)
      /\ \A i \in 1 .. Len(stream[n].sent) : record.sent[i] = stream[n].sent[i]
    BY <1>1, <1>2 DEF Stream
<1>6. record.task # "none" /\ stream[n].task # "none"
    BY <1>1, <1>2
<1> QED
    BY <1>2, <1>3, <1>4, <1>5, <1>6, ChannelGrows

-----------------------------------------------------------------------------

LEMMA EnvironmentKeepsOrder ==
    ASSUME IInv, OrderInv, Environment
    PROVE  OrderInv'
<1>1. ASSUME NEW c \in Containers, Writes(c) \/ Stops(c) \/ Starts(c)
      PROVE  OrderInv'
  <2>1. UNCHANGED <<stream, socket>>
    BY <1>1 DEF Writes, Stops, Starts
  <2> QED
    BY <2>1 DEF OrderInv, ChannelInv, ReaderInv, FirstInv, Reads, ReadsAll, Started
<1>2. ASSUME NEW s \in Sockets, Connects(s) \/ Leaves(s)
      PROVE  OrderInv'
  <2>1. socket[s] \in Socket /\ DOMAIN socket = Sockets
    BY DEF IInv, TypeOK
  <2>2. CASE Connects(s)
    BY <2>1, <2>2, PhaseKeepsOrder DEF Connects
  <2>3. CASE Leaves(s)
    <3>1. socket' = [socket EXCEPT ![s].phase = socket[s].phase, ![s].peer = FALSE]
      BY <2>1, <2>3 DEF Leaves, Socket
    <3> QED
      BY <2>1, <2>3, <3>1, PhaseKeepsOrder DEF Leaves
  <2> QED
    BY <1>2, <2>2, <2>3
<1> QED
    BY <1>1, <1>2 DEF Environment

LEMMA OrderInvariance == Spec => []OrderInv
<1>1. ASSUME IInv, IInv', OrderInv, [Next]_vars PROVE OrderInv'
  <2>1. CASE Environment
    BY <1>1, <2>1, EnvironmentKeepsOrder
  <2>2. ASSUME NEW s \in Sockets, Handler(s) PROVE OrderInv'
    BY <1>1, <2>2, HandlerKeepsOrder
  <2>3. ASSUME NEW n \in Streams, Task(n) PROVE OrderInv'
    BY <1>1, <2>3, OpenKeepsOrder, FailKeepsOrder, FrameKeepsOrder, EndKeepsOrder,
       RemoveKeepsOrder DEF Task
  <2>4. CASE UNCHANGED vars
    BY <1>1, <2>4 DEF vars, OrderInv, ChannelInv, ReaderInv, FirstInv, Reads,
                      ReadsAll, Started
  <2> QED
    BY <1>1, <2>1, <2>2, <2>3, <2>4 DEF Next
<1> QED
    BY OrderInit, Invariance, <1>1, PTL DEF Spec

(* A client reads the log in order, whatever the capacity of the channel    *)
(* and however many lag and leave in the middle of it: what it is given is  *)
(* the channel's next message or the notice of a gap, and the channel       *)
(* carries consecutive lines with one last word after them.                 *)
THEOREM LogStaysInOrder == Spec => []LogIsReadInOrder
<1>1. OrderInv => LogIsReadInOrder
    BY DEF OrderInv, ReaderInv, Reads, InOrder, LogIsReadInOrder
<1> QED
    BY OrderInvariance, <1>1, PTL

(* The client a stream was started for is given every line from the first   *)
(* one asked for to the one that never got its newline: it has a receiver   *)
(* before the task starts, so that nothing published can be dropped for     *)
(* want of one while it stays.                                              *)
THEOREM FirstClientIsServed == Spec => []FirstClientMissesNothing
<1>1. ASSUME IInv, OrderInv PROVE FirstClientMissesNothing
  <2> SUFFICES ASSUME NEW s \in Sockets,
                      socket[s].got # <<>>,
                      socket[s].got[Len(socket[s].got)] = Ended,
                      \A i \in 1 .. Len(socket[s].got) : socket[s].got[i] # Gap,
                      stream[socket[s].stream].first = s
               PROVE  Len(socket[s].got) - 1
                        = (stream[socket[s].stream].read + 1) \div 2
                            - stream[socket[s].stream].from \div 2
    BY DEF FirstClientMissesNothing
  <2> DEFINE k == socket[s]
             t == stream[k.stream]
  <2>1. /\ k \in Socket /\ k.stream \in Started /\ t \in Stream /\ Ordered(t)
        /\ k.cursor <= Len(t.sent) + 1
    BY <1>1 DEF IInv, TypeOK, OrderInv, ChannelInv, ReaderInv, Reads, Started
  <2>2. Len(k.got) = k.cursor - 1
    BY <1>1, <2>1 DEF OrderInv, FirstInv, ReadsAll
  <2>3. k.cursor > 1 /\ t.sent[k.cursor - 1] = Ended
    <3>1. Ended # Gap
      BY DEF Ended, Gap
    <3> QED
      BY <1>1, <3>1 DEF OrderInv, ReaderInv, Reads
  <2>4. k.cursor \in Nat /\ Len(t.sent) \in Nat /\ t.from \in Nat
    BY <2>1, StreamsAssumption DEF Socket, Stream
  <2> HIDE DEF t, k
  <2>5. k.cursor - 1 \in 1 .. Len(t.sent) /\ t.from \div 2 + (k.cursor - 1) > 0
    BY <2>1, <2>3, <2>4
  <2>6. (k.cursor - 1) - 1 = (t.read + 1) \div 2 - t.from \div 2
    BY <2>1, <2>3, <2>5 DEF Ordered, Ended
  <2> QED
    BY <2>2, <2>6 DEF k, t
<1> QED
    BY Invariance, OrderInvariance, <1>1, PTL
=============================================================================
