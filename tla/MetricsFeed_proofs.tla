------------------------- MODULE MetricsFeed_proofs -------------------------
(* Proofs about MetricsFeed, for any machines, any number of snapshots and  *)
(* any size of the channel and of the connection's buffer.                  *)
EXTENDS MetricsFeed, FiniteSetTheorems, WellFoundedInduction, TLAPS

-----------------------------------------------------------------------------
(* The inductive invariant.                                                 *)

Disk == [here : BOOLEAN, count : 0 .. MaxCount, moved : Nat, anew : BOOLEAN]
Browser ==
    [status : {"disconnected", "connected", "reconnecting"}, attempt : 0 .. 4, timer : BOOLEAN,
     pending : {None} \cup 1 .. MaxTicks, shown : {None} \cup 1 .. MaxTicks,
     hidden : BOOLEAN, quiet : BOOLEAN, stale : BOOLEAN]

StateInv ==
    /\ host \in Hosts
    /\ disk \in [{d.name : d \in host.disks} -> Disk]
    /\ tick \in 0 .. MaxTicks
    /\ rx \in Seq(1 .. MaxTicks) /\ Len(rx) <= Capacity
    /\ wire \in Seq(1 .. MaxTicks) /\ Len(wire) <= Window
    /\ handler \in {"none", "up"}
    /\ socket \in {"connecting", "open", "silent", "closed", "none"}
    /\ breaks \in 0 .. MaxBreaks
    /\ browser \in Browser

(* From the collector to the screen the snapshots only get older: what is   *)
(* shown, what waits to be shown, what is on the connection and what the    *)
(* channel holds for it.                                                    *)
Ordered(q) == \A i, j \in 1 .. Len(q) : i <= j => q[i] <= q[j]
NotBefore(n, q) == \A i \in 1 .. Len(q) : n <= q[i]
NotAfter(n, q)  == \A i \in 1 .. Len(q) : q[i] <= n

QueuesInv ==
    /\ Ordered(wire) /\ NotAfter(tick, wire)
    /\ Ordered(rx) /\ NotAfter(tick, rx)
    /\ \A i \in 1 .. Len(wire) : NotBefore(wire[i], rx)

Behind(n, newest, w, r) == n <= newest /\ NotBefore(n, w) /\ NotBefore(n, r)
BrowserInv ==
    /\ browser.shown # None => Behind(browser.shown, tick, wire, rx)
    /\ browser.pending # None =>
          /\ Behind(browser.pending, tick, wire, rx)
          /\ browser.shown # None /\ browser.shown <= browser.pending

IInv == StateInv /\ QueuesInv /\ BrowserInv

-----------------------------------------------------------------------------
(* Operators of the library, and the queues.                                *)

LEMMA Limits ==
    /\ MaxTicks \in Nat \ {0} /\ MaxCount \in Nat /\ MaxBreaks \in Nat
    /\ Capacity \in Nat \ {0} /\ Window \in Nat \ {0}
BY FeedAssumption

LEMMA MinOfTwo ==
    ASSUME NEW a \in Int, NEW b \in Int
    PROVE  Min({a, b}) = IF a <= b THEN a ELSE b
<1> DEFINE m == IF a <= b THEN a ELSE b
<1>1. m \in {a, b} /\ \A y \in {a, b} : m <= y
    OBVIOUS
<1>2. \A x \in {a, b} : (\A y \in {a, b} : x <= y) => x = m
    OBVIOUS
<1> HIDE DEF m
<1>3. Min({a, b}) = m
    BY <1>1, <1>2 DEF Min
<1> QED
    BY <1>3 DEF m

(* What is taken off a queue was its oldest.                                *)
LEMMA HeadIsOldest ==
    ASSUME NEW q \in Seq(1 .. MaxTicks), q # <<>>, Ordered(q)
    PROVE  /\ Head(q) \in 1 .. MaxTicks /\ Tail(q) \in Seq(1 .. MaxTicks)
           /\ Head(q) = q[1] /\ 1 \in 1 .. Len(q)
           /\ Len(Tail(q)) = Len(q) - 1
           /\ \A i \in 1 .. Len(Tail(q)) : i + 1 \in 1 .. Len(q) /\ Tail(q)[i] = q[i + 1]
           /\ Ordered(Tail(q)) /\ NotBefore(Head(q), Tail(q))
<1>1. Len(q) \in Nat /\ Len(q) # 0 /\ MaxTicks \in Nat
    BY Limits
<1>2. /\ Head(q) = q[1] /\ Len(Tail(q)) = Len(q) - 1
      /\ Head(q) \in 1 .. MaxTicks /\ Tail(q) \in Seq(1 .. MaxTicks)
      /\ \A i \in 1 .. Len(Tail(q)) : Tail(q)[i] = q[i + 1]
    BY <1>1
<1>3. 1 \in 1 .. Len(q) /\ \A i \in 1 .. Len(Tail(q)) : i + 1 \in 1 .. Len(q)
    BY <1>1, <1>2
<1>4. Ordered(Tail(q))
    BY <1>1, <1>2, <1>3 DEF Ordered
<1>5. NotBefore(Head(q), Tail(q))
    BY <1>1, <1>2, <1>3 DEF Ordered, NotBefore
<1> QED
    BY <1>1, <1>2, <1>3, <1>4, <1>5

(* What is put on a queue and is no older than the rest leaves it in order. *)
LEMMA AppendKeepsOrder ==
    ASSUME NEW q \in Seq(1 .. MaxTicks), NEW n \in 1 .. MaxTicks, Ordered(q), NotAfter(n, q)
    PROVE  /\ Append(q, n) \in Seq(1 .. MaxTicks) /\ Len(Append(q, n)) = Len(q) + 1
           /\ Ordered(Append(q, n)) /\ NotAfter(n, Append(q, n))
           /\ \A i \in 1 .. Len(Append(q, n)) :
                 Append(q, n)[i] = n \/ (i \in 1 .. Len(q) /\ Append(q, n)[i] = q[i])
<1> DEFINE a == Append(q, n)
<1>1. Len(q) \in Nat /\ MaxTicks \in Nat
    BY Limits
<1>2. /\ a \in Seq(1 .. MaxTicks) /\ Len(a) = Len(q) + 1
      /\ \A i \in 1 .. Len(a) : a[i] = IF i = Len(q) + 1 THEN n ELSE q[i]
    BY <1>1
<1> HIDE DEF a
<1>3. \A i \in 1 .. Len(a) : a[i] = n \/ (i \in 1 .. Len(q) /\ a[i] = q[i])
    BY <1>1, <1>2
<1>4. \A i \in 1 .. Len(q) : q[i] \in 1 .. MaxTicks
    BY <1>1
<1>5. NotAfter(n, a)
    BY <1>1, <1>3 DEF NotAfter
<1>6. ASSUME NEW i \in 1 .. Len(a), NEW j \in 1 .. Len(a), i <= j PROVE a[i] <= a[j]
    <2>1. CASE j = Len(q) + 1
      BY <1>1, <1>2, <1>5, <2>1 DEF NotAfter
    <2>2. CASE j # Len(q) + 1
      <3>1. i \in 1 .. Len(q) /\ j \in 1 .. Len(q) /\ a[i] = q[i] /\ a[j] = q[j]
        BY <1>1, <1>2, <1>6, <2>2
      <3> QED
        BY <1>6, <3>1 DEF Ordered
    <2> QED
      BY <2>1, <2>2
<1>7. Ordered(a)
    BY <1>6 DEF Ordered
<1> QED
    BY <1>2, <1>3, <1>5, <1>7 DEF a

(* A snapshot sent leaves the receiver within the channel's capacity and in *)
(* order, whether it lags or not, and every one it holds is this snapshot   *)
(* or one it held (Send).                                                   *)
LEMMA SendKeepsOrder ==
    ASSUME NEW q \in Seq(1 .. MaxTicks), NEW n \in 1 .. MaxTicks,
           Ordered(q), NotAfter(n, q), Len(q) <= Capacity
    PROVE  /\ Send(q, n) \in Seq(1 .. MaxTicks) /\ Len(Send(q, n)) <= Capacity
           /\ Ordered(Send(q, n)) /\ NotAfter(n, Send(q, n))
           /\ \A i \in 1 .. Len(Send(q, n)) :
                 Send(q, n)[i] = n \/ \E j \in 1 .. Len(q) : Send(q, n)[i] = q[j]
<1>1. Len(q) \in Nat /\ Capacity \in Nat \ {0} /\ MaxTicks \in Nat
    BY Limits
<1>2. CASE Len(q) = Capacity
    <2>1. q # <<>>
      BY <1>1, <1>2
    <2> DEFINE r == Tail(q)
    <2>2. /\ r \in Seq(1 .. MaxTicks) /\ Len(r) = Len(q) - 1 /\ Ordered(r)
          /\ \A i \in 1 .. Len(r) : i + 1 \in 1 .. Len(q) /\ r[i] = q[i + 1]
      BY <2>1, HeadIsOldest
    <2>3. NotAfter(n, r)
      BY <2>2 DEF NotAfter
    <2>4. Send(q, n) = Append(r, n)
      BY <1>2 DEF Send
    <2> HIDE DEF r
    <2> DEFINE a == Append(r, n)
    <2>5. /\ a \in Seq(1 .. MaxTicks) /\ Len(a) = Len(r) + 1 /\ Ordered(a) /\ NotAfter(n, a)
          /\ \A i \in 1 .. Len(a) : a[i] = n \/ (i \in 1 .. Len(r) /\ a[i] = r[i])
      BY <2>2, <2>3, AppendKeepsOrder
    <2> HIDE DEF a
    <2>6. Len(a) <= Capacity
      BY <1>1, <1>2, <2>2, <2>5
    <2>7. \A i \in 1 .. Len(a) : a[i] = n \/ \E j \in 1 .. Len(q) : a[i] = q[j]
      BY <2>2, <2>5
    <2>8. Send(q, n) = a
      BY <2>4 DEF a
    <2> QED
      BY <2>5, <2>6, <2>7, <2>8
<1>3. CASE Len(q) # Capacity
    <2> DEFINE a == Append(q, n)
    <2>1. Send(q, n) = a
      BY <1>3 DEF Send
    <2>2. /\ a \in Seq(1 .. MaxTicks) /\ Len(a) = Len(q) + 1 /\ Ordered(a) /\ NotAfter(n, a)
          /\ \A i \in 1 .. Len(a) : a[i] = n \/ (i \in 1 .. Len(q) /\ a[i] = q[i])
      BY AppendKeepsOrder
    <2> HIDE DEF a
    <2>3. Len(a) <= Capacity
      BY <1>1, <1>3, <2>2
    <2> QED
      BY <2>1, <2>2, <2>3
<1> QED
    BY <1>2, <1>3

-----------------------------------------------------------------------------
(* The steps.                                                               *)

LEMMA InitHolds == Init => IInv
<1> SUFFICES ASSUME Init PROVE IInv
    OBVIOUS
<1> USE Limits
<1>1. disk \in [{d.name : d \in host.disks} -> Disk]
  <2>1. [here |-> TRUE, count |-> 0, moved |-> 0, anew |-> FALSE] \in Disk
    BY DEF Disk
  <2> QED
    BY <2>1 DEF Init
<1>2. StateInv
  <2>1. browser \in Browser
    BY DEF Init, Browser
  <2>2. <<>> \in Seq(1 .. MaxTicks) /\ Len(<<>>) = 0
    OBVIOUS
  <2>3. rx \in Seq(1 .. MaxTicks) /\ Len(rx) <= Capacity
        /\ wire \in Seq(1 .. MaxTicks) /\ Len(wire) <= Window
    BY <2>2 DEF Init
  <2>4. /\ host \in Hosts /\ tick \in 0 .. MaxTicks /\ breaks \in 0 .. MaxBreaks
        /\ handler \in {"none", "up"} /\ socket \in {"connecting", "none"}
    BY DEF Init
  <2> QED
    BY <1>1, <2>1, <2>3, <2>4 DEF StateInv
<1>3. QueuesInv
    BY DEF Init, QueuesInv, Ordered, NotAfter, NotBefore
<1>4. BrowserInv
    BY DEF Init, BrowserInv
<1> QED
    BY <1>2, <1>3, <1>4 DEF IInv

(* A step of the machine alone.                                             *)
LEMMA DisksPreserve ==
    ASSUME IInv, DiskMoves \/ DiskComesOrGoes
    PROVE  IInv'
<1> USE Limits
<1>1. UNCHANGED <<host, tick, connection, browser>>
    BY DEF DiskMoves, DiskComesOrGoes
<1>2. disk' \in [{d.name : d \in host.disks} -> Disk]
  <2>1. CASE DiskMoves
    <3>1. PICK d \in host.disks :
            LET moving == {e \in host.disks : e = d \/ e.name = d.of} IN
            /\ \A e \in moving : disk[e.name].here /\ disk[e.name].count < MaxCount
            /\ disk' = [n \in DOMAIN disk |->
                          IF n \in {e.name : e \in moving}
                            THEN [disk[n] EXCEPT !.count = @ + 1, !.moved = @ + 1] ELSE disk[n]]
      BY <2>1 DEF DiskMoves
    <3> DEFINE moving == {e \in host.disks : e = d \/ e.name = d.of}
               names  == {e.name : e \in moving}
    <3>2. \A n \in names : disk[n].count < MaxCount
      BY <3>1
    <3>3. disk \in [{e.name : e \in host.disks} -> Disk]
      BY DEF IInv, StateInv
    <3>4. \A n \in {e.name : e \in host.disks} :
             n \in names => [disk[n] EXCEPT !.count = @ + 1, !.moved = @ + 1] \in Disk
      <4> HIDE DEF names
      <4>1. ASSUME NEW r \in Disk, r.count < MaxCount
            PROVE  [r EXCEPT !.count = @ + 1, !.moved = @ + 1] \in Disk
        <5> DEFINE c == r.count + 1
                   m == r.moved + 1
        <5>1. c \in 0 .. MaxCount /\ m \in Nat
          BY <4>1 DEF Disk
        <5> HIDE DEF c, m
        <5>2. [r EXCEPT !.count = c, !.moved = m] \in Disk
          BY <5>1 DEF Disk
        <5> QED
          BY <5>2 DEF c, m
      <4> QED
        BY <3>2, <3>3, <4>1
    <3>5. disk' = [n \in {e.name : e \in host.disks} |->
                     IF n \in names
                       THEN [disk[n] EXCEPT !.count = @ + 1, !.moved = @ + 1] ELSE disk[n]]
      BY <3>1, <3>3
    <3> HIDE DEF names
    <3> QED
      BY <3>3, <3>4, <3>5
  <2>2. CASE DiskComesOrGoes
    <3>1. PICK d \in host.disks :
            disk' = [disk EXCEPT ![d.name] = [here |-> ~@.here, count |-> 0, moved |-> 0, anew |-> TRUE]]
      BY <2>2 DEF DiskComesOrGoes
    <3>2. [here |-> ~disk[d.name].here, count |-> 0, moved |-> 0, anew |-> TRUE] \in Disk
      BY DEF Disk
    <3> QED
      BY <3>1, <3>2 DEF IInv, StateInv
  <2> QED
    BY <2>1, <2>2
<1>3. StateInv'
    BY <1>1, <1>2 DEF IInv, StateInv, connection
<1>4. QueuesInv' /\ BrowserInv'
    BY <1>1 DEF IInv, QueuesInv, BrowserInv, Behind, Ordered, NotAfter, NotBefore, connection
<1> QED
    BY <1>3, <1>4 DEF IInv

(* The collector never sends what is older than it sent before.             *)
LEMMA TickPreserves ==
    ASSUME IInv, Tick
    PROVE  IInv'
<1> USE Limits
<1>1. tick' \in 1 .. MaxTicks /\ tick <= tick'
  <2>1. tick \in Nat /\ MaxTicks \in Nat /\ tick <= MaxTicks /\ MaxTicks # 0
    BY DEF IInv, StateInv
  <2>2. tick' = IF tick + 1 <= MaxTicks THEN tick + 1 ELSE MaxTicks
    <3>1. tick' = Min({tick + 1, MaxTicks})
      BY DEF Tick
    <3>2. tick + 1 \in Int /\ MaxTicks \in Int
      BY <2>1
    <3> QED
      BY <3>1, <3>2, MinOfTwo
  <2> QED
    BY <2>1, <2>2
<1>2. UNCHANGED <<host, handler, wire, socket, breaks, browser>>
    BY DEF Tick
<1>3. tick \in 0 .. MaxTicks /\ wire \in Seq(1 .. MaxTicks)
      /\ rx \in Seq(1 .. MaxTicks) /\ Len(rx) <= Capacity
    BY DEF IInv, StateInv
<1>4. Ordered(rx) /\ NotAfter(tick', rx) /\ NotAfter(tick', wire)
  <2>1. Ordered(rx) /\ NotAfter(tick, rx) /\ NotAfter(tick, wire)
    BY DEF IInv, QueuesInv
  <2> QED
    BY <1>1, <1>3, <2>1 DEF NotAfter
<1>5. /\ rx' \in Seq(1 .. MaxTicks) /\ Len(rx') <= Capacity
      /\ Ordered(rx') /\ NotAfter(tick', rx')
      /\ \A i \in 1 .. Len(rx') : rx'[i] = tick' \/ \E j \in 1 .. Len(rx) : rx'[i] = rx[j]
  <2>1. CASE handler = "up"
    <3>1. rx' = Send(rx, tick')
      BY <2>1 DEF Tick
    <3> QED
      BY <1>1, <1>3, <1>4, <3>1, SendKeepsOrder
  <2>2. CASE handler # "up"
    <3>1. rx' = rx
      BY <2>2 DEF Tick
    <3> QED
      BY <1>3, <1>4, <3>1
  <2> QED
    BY <2>1, <2>2
<1>6. disk' \in [{d.name : d \in host.disks} -> Disk]
    BY DEF Tick, IInv, StateInv, Disk
<1>7. StateInv'
    BY <1>1, <1>2, <1>5, <1>6 DEF IInv, StateInv
(* What was no newer than tick and all of rx is so still.                   *)
<1>8. ASSUME NEW n \in 1 .. MaxTicks, n <= tick, NotBefore(n, rx) PROVE n <= tick' /\ NotBefore(n, rx')
  <2>1. n <= tick'
    BY <1>1, <1>3, <1>8
  <2> QED
    BY <1>5, <1>8, <2>1 DEF NotBefore
<1>9. QueuesInv'
  <2>1. ASSUME NEW i \in 1 .. Len(wire) PROVE NotBefore(wire[i], rx')
    <3>1. wire[i] \in 1 .. MaxTicks
      BY <1>3
    <3>2. wire[i] <= tick /\ NotBefore(wire[i], rx)
      BY DEF IInv, QueuesInv, NotAfter
    <3> QED
      BY <1>8, <3>1, <3>2
  <2> QED
    BY <1>2, <1>4, <1>5, <2>1 DEF IInv, QueuesInv
<1>10. ASSUME NEW n \in 1 .. MaxTicks, Behind(n, tick, wire, rx) PROVE Behind(n, tick', wire', rx')
    BY <1>2, <1>8, <1>10 DEF Behind
<1>11. BrowserInv'
  <2>1. browser.shown # None => browser.shown \in 1 .. MaxTicks
    BY DEF IInv, StateInv, Browser
  <2>2. browser.pending # None => browser.pending \in 1 .. MaxTicks
    BY DEF IInv, StateInv, Browser
  <2> QED
    BY <1>2, <1>10, <2>1, <2>2 DEF IInv, BrowserInv, Behind
<1> QED
    BY <1>7, <1>9, <1>11 DEF IInv

(* A queue that loses everything, or nothing, stays as old as it was.       *)
LEMMA ShorterKeepsOrder ==
    ASSUME IInv, tick' = tick, rx' \in {rx, <<>>}, wire' \in {wire, <<>>},
           browser'.pending = browser.pending, browser'.shown = browser.shown
    PROVE  QueuesInv' /\ BrowserInv'
<1>1. QueuesInv'
  <2>1. Ordered(wire') /\ NotAfter(tick', wire') /\ Ordered(rx') /\ NotAfter(tick', rx')
    BY DEF IInv, QueuesInv, Ordered, NotAfter
  <2>2. \A i \in 1 .. Len(wire') : NotBefore(wire'[i], rx')
    BY DEF IInv, QueuesInv, NotBefore
  <2> QED
    BY <2>1, <2>2 DEF QueuesInv
<1>2. ASSUME NEW n, Behind(n, tick, wire, rx) PROVE Behind(n, tick', wire', rx')
    BY <1>2 DEF Behind, NotBefore
<1>3. BrowserInv'
    BY <1>2 DEF IInv, BrowserInv, Behind
<1> QED
    BY <1>1, <1>3

(* The life of a connection, up to a message that arrives.                  *)
LEMMA ConnectionPreserves ==
    ASSUME IInv, Accept \/ ForwardFails \/ Break \/ OnClose \/ Connect
    PROVE  IInv'
<1> USE Limits
<1>1. UNCHANGED <<host, disk, tick>> /\ rx' \in {rx, <<>>} /\ wire' \in {wire, <<>>}
    BY DEF Accept, ForwardFails, Break, OnClose, Connect, Subscribe, machine
<1>2. browser \in Browser
    BY DEF IInv, StateInv
<1>3. /\ browser' \in Browser
      /\ browser'.pending = browser.pending /\ browser'.shown = browser.shown
  <2>1. CASE Accept
    <3> DEFINE n == 0
    <3>1. n \in 0 .. 4
      OBVIOUS
    <3>2. browser' = [browser EXCEPT !.status = "connected", !.attempt = n]
      BY <2>1 DEF Accept
    <3> HIDE DEF n
    <3> QED
      BY <1>2, <3>1, <3>2 DEF Browser
  <2>2. CASE ForwardFails \/ Break
    BY <1>2, <2>2 DEF ForwardFails, Break
  <2>3. CASE OnClose
    <3> DEFINE n == Min({browser.attempt + 1, 4})
    <3>1. browser.attempt \in 0 .. 4
      BY <1>2 DEF Browser
    <3>2. n \in 0 .. 4
      <4>1. browser.attempt + 1 \in Int /\ 4 \in Int
        BY <3>1
      <4>2. n = IF browser.attempt + 1 <= 4 THEN browser.attempt + 1 ELSE 4
        BY <4>1, MinOfTwo
      <4> QED
        BY <3>1, <4>2
    <3>3. browser' = [browser EXCEPT !.status = "reconnecting", !.timer = TRUE, !.attempt = n]
      BY <2>3 DEF OnClose, Retry
    <3> HIDE DEF n
    <3> QED
      BY <1>2, <3>2, <3>3 DEF Browser
  <2>4. CASE Connect
    <3>1. browser' = [browser EXCEPT !.timer = FALSE]
      BY <2>4 DEF Connect
    <3> QED
      BY <1>2, <3>1 DEF Browser
  <2> QED
    BY <2>1, <2>2, <2>3, <2>4
<1>4. StateInv'
  <2>1. /\ rx' \in Seq(1 .. MaxTicks) /\ Len(rx') <= Capacity
        /\ wire' \in Seq(1 .. MaxTicks) /\ Len(wire') <= Window
    <3>1. <<>> \in Seq(1 .. MaxTicks) /\ Len(<<>>) = 0
      OBVIOUS
    <3>2. /\ rx \in Seq(1 .. MaxTicks) /\ Len(rx) <= Capacity
          /\ wire \in Seq(1 .. MaxTicks) /\ Len(wire) <= Window
      BY DEF IInv, StateInv
    <3>3. 0 <= Capacity /\ 0 <= Window
      OBVIOUS
    <3> QED
      BY <1>1, <3>1, <3>2, <3>3
  <2>2. handler' \in {"none", "up"}
    BY DEF IInv, StateInv, Accept, ForwardFails, Break, OnClose, Connect
  <2>3. socket' \in {"connecting", "open", "silent", "closed", "none"}
    BY DEF IInv, StateInv, Accept, ForwardFails, Break, OnClose, Connect
  <2>4. breaks' \in 0 .. MaxBreaks
    BY DEF IInv, StateInv, Accept, ForwardFails, Break, OnClose, Connect
  <2> QED
    BY <1>1, <1>3, <2>1, <2>2, <2>3, <2>4 DEF IInv, StateInv
<1> QED
    BY <1>1, <1>3, <1>4, ShorterKeepsOrder DEF IInv

(* The oldest the channel holds is no older than what is on the connection. *)
LEMMA ForwardPreserves ==
    ASSUME IInv, Forward
    PROVE  IInv'
<1> USE Limits
<1> DEFINE n == Head(rx)
<1>1. /\ wire \in Seq(1 .. MaxTicks) /\ rx \in Seq(1 .. MaxTicks) /\ rx # <<>>
      /\ Len(rx) <= Capacity /\ Len(wire) < Window
      /\ wire' = Append(wire, n) /\ rx' = Tail(rx)
      /\ UNCHANGED <<host, disk, tick, handler, socket, breaks, browser>>
    BY DEF IInv, StateInv, Forward, machine
<1>2. /\ Ordered(wire) /\ Ordered(rx) /\ NotAfter(tick, wire) /\ NotAfter(tick, rx)
      /\ \A i \in 1 .. Len(wire) : NotBefore(wire[i], rx)
    BY DEF IInv, QueuesInv
<1>3. /\ n \in 1 .. MaxTicks /\ rx' \in Seq(1 .. MaxTicks) /\ n = rx[1] /\ 1 \in 1 .. Len(rx)
      /\ Len(rx') = Len(rx) - 1
      /\ \A i \in 1 .. Len(rx') : i + 1 \in 1 .. Len(rx) /\ rx'[i] = rx[i + 1]
      /\ Ordered(rx') /\ NotBefore(n, rx')
    BY <1>1, <1>2, HeadIsOldest
<1>4. NotAfter(n, wire)
    BY <1>2, <1>3 DEF NotAfter, NotBefore
<1>5. n <= tick /\ NotAfter(tick, rx')
    BY <1>2, <1>3 DEF NotAfter
<1> HIDE DEF n
<1>6. /\ wire' \in Seq(1 .. MaxTicks) /\ Len(wire') = Len(wire) + 1 /\ Ordered(wire')
      /\ \A i \in 1 .. Len(wire') : wire'[i] = n \/ (i \in 1 .. Len(wire) /\ wire'[i] = wire[i])
    BY <1>1, <1>2, <1>3, <1>4, AppendKeepsOrder
<1>7. NotAfter(tick, wire')
    BY <1>2, <1>5, <1>6 DEF NotAfter
<1>8. ASSUME NEW k, NotBefore(k, rx) PROVE k <= n /\ NotBefore(k, rx')
    BY <1>3, <1>8 DEF NotBefore
<1>9. \A i \in 1 .. Len(wire') : NotBefore(wire'[i], rx')
    BY <1>2, <1>3, <1>6, <1>8
<1>10. QueuesInv'
    BY <1>1, <1>3, <1>5, <1>6, <1>7, <1>9 DEF QueuesInv
<1>11. ASSUME NEW k, Behind(k, tick, wire, rx) PROVE Behind(k, tick', wire', rx')
  <2>1. k <= tick /\ NotBefore(k, wire) /\ NotBefore(k, rx)
    BY <1>11 DEF Behind
  <2>2. k <= n /\ NotBefore(k, rx')
    BY <1>8, <2>1
  <2>3. NotBefore(k, wire')
    BY <1>6, <2>1, <2>2 DEF NotBefore
  <2> QED
    BY <1>1, <2>1, <2>2, <2>3 DEF Behind
<1>12. BrowserInv'
    BY <1>1, <1>11 DEF IInv, BrowserInv, Behind
<1>13. StateInv'
  <2>1. Len(rx) \in Nat /\ Len(wire) \in Nat
    BY <1>1
  <2>2. Len(rx') <= Capacity /\ Len(wire') <= Window
    BY <1>1, <1>3, <1>6, <2>1
  <2> QED
    BY <1>1, <1>3, <1>6, <2>2 DEF IInv, StateInv
<1> QED
    BY <1>10, <1>12, <1>13 DEF IInv

(* What arrives is shown, or waits for flush; either way it is no older     *)
(* than what is on the screen.                                              *)
LEMMA OnMessagePreserves ==
    ASSUME IInv, OnMessage
    PROVE  /\ IInv'
           /\ browser.shown # None => browser'.shown = browser.shown
<1> USE Limits
<1> DEFINE n == Head(wire)
<1>1. /\ wire \in Seq(1 .. MaxTicks) /\ wire # <<>> /\ rx \in Seq(1 .. MaxTicks)
      /\ Len(wire) <= Window /\ wire' = Tail(wire) /\ browser \in Browser
      /\ UNCHANGED <<host, disk, tick, rx, handler, socket, breaks>>
    BY DEF IInv, StateInv, OnMessage, machine
<1>2. /\ Ordered(wire) /\ Ordered(rx) /\ NotAfter(tick, wire) /\ NotAfter(tick, rx)
      /\ \A i \in 1 .. Len(wire) : NotBefore(wire[i], rx)
    BY DEF IInv, QueuesInv
<1>3. /\ n \in 1 .. MaxTicks /\ wire' \in Seq(1 .. MaxTicks) /\ n = wire[1] /\ 1 \in 1 .. Len(wire)
      /\ Len(wire') = Len(wire) - 1
      /\ \A i \in 1 .. Len(wire') : i + 1 \in 1 .. Len(wire) /\ wire'[i] = wire[i + 1]
      /\ Ordered(wire') /\ NotBefore(n, wire')
    BY <1>1, <1>2, HeadIsOldest
<1>4. browser' = IF browser.shown = None
                   THEN [browser EXCEPT !.shown = n, !.quiet = FALSE, !.stale = FALSE]
                   ELSE [browser EXCEPT !.pending = n, !.quiet = FALSE]
    BY DEF OnMessage
<1> HIDE DEF n
<1>5. browser' \in Browser
    BY <1>1, <1>3, <1>4 DEF Browser
<1>6. /\ browser.shown = None => browser'.shown = n /\ browser'.pending = browser.pending
      /\ browser.shown # None => browser'.pending = n /\ browser'.shown = browser.shown
    BY <1>1, <1>4 DEF Browser
<1>7. StateInv'
  <2>1. Len(wire) \in Nat
    BY <1>1
  <2>2. Len(wire') <= Window
    BY <1>1, <1>3, <2>1
  <2> QED
    BY <1>1, <1>3, <1>5, <2>2 DEF IInv, StateInv
<1>8. ASSUME NEW k, NotBefore(k, wire) PROVE k <= n /\ NotBefore(k, wire')
    BY <1>3, <1>8 DEF NotBefore
<1>9. QueuesInv'
  <2>1. NotAfter(tick, wire')
    BY <1>2, <1>3 DEF NotAfter
  <2>2. \A i \in 1 .. Len(wire') : NotBefore(wire'[i], rx)
    BY <1>2, <1>3
  <2> QED
    BY <1>1, <1>2, <1>3, <2>1, <2>2 DEF QueuesInv
<1>10. n <= tick /\ NotBefore(n, rx)
    BY <1>2, <1>3 DEF NotAfter
<1>11. Behind(n, tick', wire', rx')
    BY <1>1, <1>3, <1>10 DEF Behind
<1>12. ASSUME NEW k, Behind(k, tick, wire, rx) PROVE Behind(k, tick', wire', rx') /\ k <= n
    BY <1>1, <1>8, <1>12 DEF Behind
<1>13. BrowserInv'
  <2>1. CASE browser.shown = None
    <3>1. browser.pending = None
      BY <2>1 DEF IInv, BrowserInv
    <3> QED
      BY <1>6, <1>11, <2>1, <3>1 DEF BrowserInv, Behind
  <2>2. CASE browser.shown # None
    <3>1. Behind(browser.shown, tick, wire, rx)
      BY <2>2 DEF IInv, BrowserInv
    <3>2. Behind(browser.shown, tick', wire', rx') /\ browser.shown <= n
      BY <1>12, <3>1
    <3>3. Behind(browser'.shown, tick', wire', rx') /\ Behind(browser'.pending, tick', wire', rx') /\ browser'.shown <= browser'.pending
      BY <1>6, <1>11, <2>2, <3>2 DEF Behind
    <3> QED
      BY <1>6, <2>2, <3>3 DEF BrowserInv, Behind
  <2> QED
    BY <2>1, <2>2
<1> QED
    BY <1>6, <1>7, <1>9, <1>13 DEF IInv

(* Flush shows what waits, and nothing waits any more; the rest of the      *)
(* browser's steps leave what is shown and what waits alone.                *)
LEMMA BrowserPreserves ==
    ASSUME IInv, Flush \/ HideOrShow \/ GoesQuiet
    PROVE  /\ IInv'
           /\ browser.shown # None => browser'.shown >= browser.shown
<1> USE Limits
<1>1. UNCHANGED <<host, disk, tick, rx, handler, wire, socket, breaks>> /\ browser \in Browser
    BY DEF Flush, HideOrShow, GoesQuiet, machine, connection, IInv, StateInv
<1>2. CASE Flush /\ browser.pending # None
  <2>1. browser' = [browser EXCEPT !.shown = browser.pending, !.pending = None, !.stale = FALSE]
    BY <1>2 DEF Flush
  <2>2. browser' \in Browser /\ browser'.shown = browser.pending /\ browser'.pending = None
    BY <1>1, <2>1 DEF Browser
  <2>3. /\ Behind(browser.pending, tick, wire, rx)
        /\ browser.shown # None /\ browser.shown <= browser.pending
    BY <1>2 DEF IInv, BrowserInv
  <2>4. browser'.shown >= browser.shown
    BY <1>1, <1>2, <2>2, <2>3 DEF Browser
  <2>5. BrowserInv'
    BY <1>1, <2>2, <2>3 DEF BrowserInv
  <2> QED
    BY <1>1, <2>2, <2>4, <2>5
       DEF IInv, StateInv, QueuesInv, Ordered, NotAfter, NotBefore
<1>3. CASE ~(Flush /\ browser.pending # None)
  <2>1. /\ browser' \in Browser
        /\ browser'.shown = browser.shown /\ browser'.pending = browser.pending
    <3>1. CASE Flush
      <4> DEFINE quiet == browser.quiet
      <4>1. browser' \in {browser, [browser EXCEPT !.stale = quiet]}
        BY <1>3, <3>1 DEF Flush
      <4>2. quiet \in BOOLEAN
        BY <1>1 DEF Browser
      <4> HIDE DEF quiet
      <4> QED
        BY <1>1, <4>1, <4>2 DEF Browser
    <3>2. CASE HideOrShow
      BY <1>1, <3>2 DEF HideOrShow, Browser
    <3>3. CASE GoesQuiet
      BY <1>1, <3>3 DEF GoesQuiet, Browser
    <3> QED
      BY <3>1, <3>2, <3>3
  <2>2. QueuesInv' /\ BrowserInv'
    BY <1>1, <2>1, ShorterKeepsOrder
  <2>3. browser.shown # None => browser'.shown >= browser.shown
    BY <1>1, <2>1 DEF Browser
  <2> QED
    BY <1>1, <2>1, <2>2, <2>3 DEF IInv, StateInv
<1> QED
    BY <1>2, <1>3

LEMMA StutterPreserves ==
    ASSUME IInv, UNCHANGED vars
    PROVE  IInv'
BY DEF IInv, StateInv, QueuesInv, BrowserInv, Behind, Ordered, NotAfter, NotBefore,
       vars, machine, connection

LEMMA Invariance == Spec => []IInv
<1>1. IInv /\ [Next]_vars => IInv'
    BY DisksPreserve, TickPreserves, ConnectionPreserves, ForwardPreserves, OnMessagePreserves,
       BrowserPreserves, StutterPreserves DEF Next
<1> QED
    BY <1>1, InitHolds, PTL DEF Spec

-----------------------------------------------------------------------------
(* Type correctness: counters within their bounds, a receiver never more    *)
(* than the channel's capacity behind and a connection never holding more   *)
(* than its window.                                                         *)
THEOREM TypeCorrect == Spec => []TypeOK
<1>1. IInv => TypeOK
  <2> SUFFICES ASSUME IInv PROVE TypeOK
    OBVIOUS
  <2>1. \A n \in DOMAIN disk : disk[n].count \in 0 .. MaxCount
    BY DEF IInv, StateInv, Disk
  <2>2. ToSet(rx) \cup ToSet(wire) \subseteq 1 .. MaxTicks
    <3>1. rx \in Seq(1 .. MaxTicks) /\ wire \in Seq(1 .. MaxTicks)
      BY DEF IInv, StateInv
    <3>2. ASSUME NEW S, NEW q \in Seq(S) PROVE ToSet(q) \subseteq S
      <4>1. DOMAIN q = 1 .. Len(q) /\ \A i \in 1 .. Len(q) : q[i] \in S
        OBVIOUS
      <4> QED
        BY <4>1 DEF ToSet
    <3> QED
      BY <3>1, <3>2
  <2>3. /\ browser.attempt \in 0 .. 4
        /\ {browser.pending, browser.shown} \subseteq {None} \cup 1 .. MaxTicks
    BY DEF IInv, StateInv, Browser
  <2> QED
    BY <2>1, <2>2, <2>3 DEF IInv, StateInv, TypeOK
<1> QED
    BY <1>1, Invariance, PTL

(* The browser never goes back to an older snapshot than one it has shown,  *)
(* however far it lagged, however often it lost its connection and whatever *)
(* the sizes of the queues between it and the collector.                    *)
THEOREM ViewNeverGoesBack == Spec => ShownNeverGoesBack
<1>1. ASSUME IInv, [Next]_vars, browser' # browser, browser.shown # None
      PROVE  browser'.shown >= browser.shown
  <2>1. browser.shown \in Int
    BY <1>1, Limits DEF IInv, StateInv, Browser
  <2>2. CASE Accept \/ ForwardFails \/ Break \/ OnClose \/ Connect
    <3>1. browser'.shown = browser.shown
      BY <1>1, <2>2 DEF IInv, StateInv, Browser, Accept, ForwardFails, Break, OnClose, Connect, Retry
    <3> QED
      BY <2>1, <3>1
  <2>3. CASE OnMessage
    BY <1>1, <2>1, <2>3, OnMessagePreserves
  <2>4. CASE Flush \/ HideOrShow \/ GoesQuiet
    BY <1>1, <2>4, BrowserPreserves
  <2> QED
    BY <1>1, <2>2, <2>3, <2>4
       DEF Next, DiskMoves, DiskComesOrGoes, Tick, Forward, vars, connection
<1>2. IInv /\ [Next]_vars =>
         [browser.shown # None => browser'.shown >= browser.shown]_browser
    BY <1>1
<1> QED
    BY <1>2, Invariance, PTL DEF Spec, ShownNeverGoesBack

-----------------------------------------------------------------------------
(* Sums.  What a sum over a finite set is does not depend on the order in   *)
(* which the elements are taken.                                            *)

Pick(s) == CHOOSE x \in s : TRUE
Adds(g, F, S) ==
    \A s \in SUBSET S : g[s] = IF s = {} THEN 0 ELSE F[Pick(s)] + g[s \ {Pick(s)}]
Sums(g, F, S) ==
    IsFiniteSet(S) /\ F \in [S -> Int] /\ g \in [SUBSET S -> Int] /\ Adds(g, F, S)
Total(F, S) == (CHOOSE g \in [SUBSET S -> Int] : Adds(g, F, S))[S]

LEMMA PickIsIn == ASSUME NEW s, s # {} PROVE Pick(s) \in s
BY DEF Pick

(* Sets of subsets of a finite set have least elements.                     *)
LEMMA LeastSubset ==
    ASSUME NEW S, IsFiniteSet(S), NEW B \in SUBSET (SUBSET S), B # {}
    PROVE  \E s \in B : \A t \in B : t \subseteq s => t = s
<1> DEFINE R == StrictSubsetOrdering(S)
<1>1. B \subseteq FiniteSubsetsOf(S)
    BY FS_Subset DEF FiniteSubsetsOf
<1>2. IsWellFoundedOn(R, FiniteSubsetsOf(S))
    BY FS_StrictSubsetOrderingWellFounded
<1>3. \E x \in B : \A y \in B : ~(<<y, x>> \in R)
  <2> HIDE DEF R
  <2> QED
    BY <1>1, <1>2, WFMin
<1>4. PICK s \in B : \A t \in B : ~(<<t, s>> \in R)
    BY <1>3
<1>5. ASSUME NEW t \in B, t \subseteq s PROVE t = s
    BY <1>4, <1>5 DEF StrictSubsetOrdering
<1> QED
    BY <1>5

(* What is summed determines the sum.                                       *)
LEMMA SumsAgree ==
    ASSUME NEW S, IsFiniteSet(S), NEW T, NEW F, NEW g, Adds(g, F, S), NEW h, Adds(h, F, T),
           NEW s \in SUBSET S, s \subseteq T
    PROVE  g[s] = h[s]
<1> DEFINE B == {t \in SUBSET S : t \subseteq T /\ g[t] # h[t]}
<1> SUFFICES ASSUME B # {} PROVE FALSE
    OBVIOUS
<1>1. PICK t \in B : \A u \in B : u \subseteq t => u = t
  <2>1. B \in SUBSET (SUBSET S)
    OBVIOUS
  <2> HIDE DEF B
  <2> QED
    BY <2>1, LeastSubset
<1>2. t # {}
    BY DEF Adds
<1>3. Pick(t) \in t
    BY <1>2, PickIsIn
<1>4. g[t \ {Pick(t)}] = h[t \ {Pick(t)}]
  <2>1. t \ {Pick(t)} \in SUBSET S /\ t \ {Pick(t)} \subseteq T
    OBVIOUS
  <2>2. t \ {Pick(t)} \notin B
    BY <1>1, <1>3
  <2> QED
    BY <2>1, <2>2
<1>5. g[t] = F[Pick(t)] + g[t \ {Pick(t)}] /\ h[t] = F[Pick(t)] + h[t \ {Pick(t)}]
    BY <1>2 DEF Adds
<1> QED
    BY <1>4, <1>5

LEMMA SumExists ==
    ASSUME NEW S, IsFiniteSet(S), NEW F \in [S -> Int]
    PROVE  \E g \in [SUBSET S -> Int] : Adds(g, F, S)
<1> DEFINE Has(T) == \E g \in [SUBSET T -> Int] : Adds(g, F, T)
           B == {T \in SUBSET S : ~Has(T)}
<1> SUFFICES ASSUME B # {} PROVE FALSE
    OBVIOUS
<1>1. PICK T \in B : \A U \in B : U \subseteq T => U = T
  <2>1. B \in SUBSET (SUBSET S)
    OBVIOUS
  <2> HIDE DEF B
  <2> QED
    BY <2>1, LeastSubset
<1>2. \A U \in SUBSET T : U # T => Has(U)
    BY <1>1
<1> DEFINE Of(U) == CHOOSE g : g \in [SUBSET U -> Int] /\ Adds(g, F, U)
           v(U) == Of(U)[U]
<1>3. ASSUME NEW U \in SUBSET T, U # T
      PROVE  Of(U) \in [SUBSET U -> Int] /\ Adds(Of(U), F, U)
  <2>1. PICK g : g \in [SUBSET U -> Int] /\ Adds(g, F, U)
    BY <1>2, <1>3
  <2> QED
    BY <2>1
<1> HIDE DEF Of, Has, B
<1>4. \A U \in SUBSET T : U # T => v(U) \in Int
    BY <1>3
<1>5. ASSUME NEW U \in SUBSET T, U # T
      PROVE  v(U) = IF U = {} THEN 0 ELSE F[Pick(U)] + v(U \ {Pick(U)})
  <2>1. Adds(Of(U), F, U) /\ U \in SUBSET U
    BY <1>3, <1>5
  <2>2. CASE U = {}
    BY <2>1, <2>2 DEF Adds
  <2>3. CASE U # {}
    <3> DEFINE W == U \ {Pick(U)}
    <3>1. Pick(U) \in U
      BY <2>3, PickIsIn
    <3>2. W \in SUBSET T /\ W # T /\ W \in SUBSET U /\ W \in SUBSET W
      BY <3>1
    <3>3. Adds(Of(W), F, W)
      BY <1>3, <3>2
    <3>4. IsFiniteSet(U)
      BY FS_Subset, <1>1 DEF B
    <3>5. Of(U)[W] = Of(W)[W]
      BY <2>1, <3>2, <3>3, <3>4, SumsAgree
    <3>6. Of(U)[U] = F[Pick(U)] + Of(U)[W]
      BY <2>1, <2>3 DEF Adds
    <3> QED
      BY <2>3, <3>5, <3>6
  <2> QED
    BY <2>2, <2>3
<1> DEFINE s(U) == IF U = {} THEN 0 ELSE F[Pick(U)] + v(U \ {Pick(U)})
           g == [U \in SUBSET T |-> s(U)]
<1> HIDE DEF v
<1>6. ASSUME NEW U \in SUBSET T, U # {}
      PROVE  /\ Pick(U) \in S /\ U \ {Pick(U)} \in SUBSET T /\ U \ {Pick(U)} # T
  <2>1. Pick(U) \in U
    BY <1>6, PickIsIn
  <2>2. T \in SUBSET S
    BY <1>1 DEF B
  <2> QED
    BY <2>1, <2>2
<1>7. g \in [SUBSET T -> Int]
  <2>1. ASSUME NEW U \in SUBSET T PROVE s(U) \in Int
    <3>1. CASE U = {}
      BY <3>1
    <3>2. CASE U # {}
      <4>1. F[Pick(U)] \in Int /\ v(U \ {Pick(U)}) \in Int
        BY <1>4, <1>6, <3>2
      <4> QED
        BY <3>2, <4>1
    <3> QED
      BY <3>1, <3>2
  <2> HIDE DEF s
  <2> QED
    BY <2>1
<1>8. Adds(g, F, T)
  <2>1. ASSUME NEW U \in SUBSET T, U # {}
        PROVE  g[U \ {Pick(U)}] = v(U \ {Pick(U)})
    <3> DEFINE W == U \ {Pick(U)}
    <3>1. W \in SUBSET T /\ W # T
      BY <1>6, <2>1
    <3>2. g[W] = s(W) /\ v(W) = s(W)
      BY <1>5, <3>1
    <3> QED
      BY <3>2
  <2>2. ASSUME NEW U \in SUBSET T PROVE g[U] = s(U)
    OBVIOUS
  <2> HIDE DEF g
  <2> QED
    BY <2>1, <2>2 DEF Adds
<1> QED
  <2>1. Has(T)
    BY <1>7, <1>8 DEF Has
  <2> QED
    BY <1>1, <2>1 DEF B

LEMMA TotalIs ==
    ASSUME NEW S, IsFiniteSet(S), NEW F \in [S -> Int]
    PROVE  \E g : Sums(g, F, S) /\ Total(F, S) = g[S]
BY SumExists DEF Total, Sums

LEMMA SumIsNumber ==
    ASSUME NEW S, NEW F, NEW g, Sums(g, F, S), NEW T \in SUBSET S
    PROVE  g[T] \in Int
BY DEF Sums

LEMMA SumOfNone ==
    ASSUME NEW S, NEW F, NEW g, Sums(g, F, S)
    PROVE  g[{}] = 0
<1>1. {} \in SUBSET S
    OBVIOUS
<1> QED
    BY <1>1 DEF Sums, Adds

(* An element may be taken out first, whichever it is.                      *)
LEMMA SumWithout ==
    ASSUME NEW S, NEW F, NEW g, Sums(g, F, S), NEW T \in SUBSET S, NEW x \in T
    PROVE  g[T] = F[x] + g[T \ {x}]
<1> USE DEF Sums
<1> DEFINE B == {U \in SUBSET S : \E y \in U : g[U] # F[y] + g[U \ {y}]}
<1> SUFFICES ASSUME B # {} PROVE FALSE
    OBVIOUS
<1>1. PICK U \in B : \A V \in B : V \subseteq U => V = U
  <2>1. B \in SUBSET (SUBSET S)
    OBVIOUS
  <2> HIDE DEF B
  <2> QED
    BY <2>1, LeastSubset
<1>2. PICK y \in U : g[U] # F[y] + g[U \ {y}]
    BY <1>1
<1> DEFINE p == Pick(U)
<1>3. p \in U /\ g[U] = F[p] + g[U \ {p}]
    BY <1>1, <1>2, PickIsIn DEF Adds
<1> HIDE DEF p
<1>4. p # y
    BY <1>2, <1>3
<1>5. /\ U \ {p} \in SUBSET S /\ U \ {p} \notin B /\ y \in U \ {p}
      /\ U \ {y} \in SUBSET S /\ U \ {y} \notin B /\ p \in U \ {y}
    BY <1>1, <1>3, <1>4
<1>6. g[U \ {p}] = F[y] + g[(U \ {p}) \ {y}] /\ g[U \ {y}] = F[p] + g[(U \ {y}) \ {p}]
    BY <1>5
<1>7. (U \ {p}) \ {y} = (U \ {y}) \ {p} /\ (U \ {p}) \ {y} \in SUBSET S
    BY <1>5
<1> DEFINE a == F[p]
           b == F[y]
           c == g[(U \ {p}) \ {y}]
<1>8. a \in Int /\ b \in Int /\ c \in Int
    BY <1>3, <1>7
<1>9. g[U] = a + (b + c) /\ g[U \ {y}] = a + c
    BY <1>3, <1>6, <1>7
<1>10. g[U] # b + (a + c)
    BY <1>2, <1>9
<1> HIDE DEF a, b, c
<1> QED
    BY <1>8, <1>9, <1>10

LEMMA SumOfPart ==
    ASSUME NEW S, NEW F, NEW g, Sums(g, F, S),
           \A x \in S : 0 <= F[x], NEW T \in SUBSET S
    PROVE  g[T] <= g[S]
<1> DEFINE B == {A \in SUBSET S : T \subseteq A /\ ~(g[T] <= g[A])}
<1> SUFFICES ASSUME B # {} PROVE FALSE
    OBVIOUS
<1>1. PICK A \in B : \A C \in B : C \subseteq A => C = A
  <2>1. B \in SUBSET (SUBSET S)
    OBVIOUS
  <2> HIDE DEF B
  <2> QED
    BY <2>1, LeastSubset DEF Sums
<1>2. A \in SUBSET S /\ T \subseteq A /\ ~(g[T] <= g[A])
    BY <1>1
<1>3. g[T] \in Int /\ g[A] \in Int
    BY <1>2, SumIsNumber
<1>4. A # T
    BY <1>2, <1>3
<1>5. PICK y \in A : y \notin T
    BY <1>2, <1>4
<1>6. A \ {y} \in SUBSET S /\ T \subseteq A \ {y} /\ A \ {y} \notin B
    BY <1>1, <1>2, <1>5
<1>7. g[T] <= g[A \ {y}]
    BY <1>6
<1>8. g[A] = F[y] + g[A \ {y}]
  <2> HIDE DEF B
  <2> QED
    BY <1>2, SumWithout
<1>9. F[y] \in Int /\ 0 <= F[y] /\ g[A \ {y}] \in Int
    BY <1>2, <1>6, SumIsNumber DEF Sums
<1> QED
    BY <1>2, <1>3, <1>7, <1>8, <1>9

LEMMA SumOfImage ==
    ASSUME NEW S, NEW F, NEW g, Sums(g, F, S), NEW T, NEW G, NEW h, Sums(h, G, T),
           NEW k \in [S -> T], \A x, y \in S : k[x] = k[y] => x = y,
           \A x \in S : F[x] <= G[k[x]]
    PROVE  g[S] <= h[{k[x] : x \in S}]
<1> DEFINE Image(A) == {k[x] : x \in A}
           B == {A \in SUBSET S : ~(g[A] <= h[Image(A)])}
<1> SUFFICES ASSUME B # {} PROVE FALSE
    OBVIOUS
<1>1. PICK A \in B : \A C \in B : C \subseteq A => C = A
  <2>1. B \in SUBSET (SUBSET S)
    OBVIOUS
  <2> HIDE DEF B
  <2> QED
    BY <2>1, LeastSubset DEF Sums
<1>2. A \in SUBSET S /\ ~(g[A] <= h[Image(A)])
    BY <1>1
<1>3. A # {}
  <2>1. g[{}] = 0 /\ h[{}] = 0 /\ 0 <= 0
    BY SumOfNone
  <2>2. ASSUME A = {} PROVE Image(A) = {}
    BY <2>2
  <2> HIDE DEF Image
  <2> QED
    BY <1>2, <2>1, <2>2
<1>4. PICK x \in A : TRUE
    BY <1>3
<1> DEFINE C == A \ {x}
<1>5. C \in SUBSET S /\ C \notin B
    BY <1>1, <1>4
<1>6. g[C] <= h[Image(C)]
    BY <1>5
<1>7. Image(C) = Image(A) \ {k[x]} /\ k[x] \in Image(A)
    BY <1>2, <1>4
<1>8. Image(A) \in SUBSET T /\ Image(C) \in SUBSET T
    BY <1>2
<1>9. /\ F[x] \in Int /\ G[k[x]] \in Int /\ F[x] <= G[k[x]]
      /\ g[C] \in Int /\ h[Image(C)] \in Int
  <2>1. x \in S /\ k[x] \in T
    BY <1>2, <1>4
  <2> HIDE DEF Image, C
  <2> QED
    BY <2>1, <1>5, <1>8 DEF Sums
<1> HIDE DEF Image, B
<1>10. g[A] = F[x] + g[C]
    BY <1>2, SumWithout
<1>11. h[Image(A)] = G[k[x]] + h[Image(C)]
  <2>1. h[Image(A)] = G[k[x]] + h[Image(A) \ {k[x]}]
    BY <1>7, <1>8, SumWithout
  <2> QED
    BY <1>7, <2>1
<1> HIDE DEF C
<1> QED
    BY <1>2, <1>6, <1>9, <1>10, <1>11

(* A sum of less, over a set that is mapped into another one.               *)
LEMMA TotalIsMonotone ==
    ASSUME NEW S, IsFiniteSet(S), NEW F \in [S -> Int],
           NEW T, IsFiniteSet(T), NEW G \in [T -> Int], \A y \in T : 0 <= G[y],
           NEW k \in [S -> T], \A x, y \in S : k[x] = k[y] => x = y,
           \A x \in S : F[x] <= G[k[x]]
    PROVE  Total(F, S) <= Total(G, T)
<1>1. PICK g : Sums(g, F, S) /\ Total(F, S) = g[S]
    BY TotalIs
<1>2. PICK h : Sums(h, G, T) /\ Total(G, T) = h[T]
    BY TotalIs
<1> DEFINE I == {k[x] : x \in S}
<1>5. I \in SUBSET T
    OBVIOUS
<1>6. g[S] <= h[I]
    BY <1>1, <1>2, SumOfImage
<1> HIDE DEF I
<1>7. h[I] <= h[T]
    BY <1>2, <1>5, SumOfPart
<1>8. g[S] \in Int /\ h[I] \in Int /\ h[T] \in Int
    BY <1>1, <1>2, <1>5, SumIsNumber
<1> QED
    BY <1>1, <1>2, <1>6, <1>7, <1>8

(* The sums of the code: what was read to have moved, and what did.         *)
LEMMA ReadSum ==
    ASSUME NEW S, IsFiniteSet(S), NEW F \in [S -> Int], \A m \in S : F[m] = Max({0, m[2]})
    PROVE  MapThenSumSet(LAMBDA m : Max({0, m[2]}), S) = Total(F, S)
<1> DEFINE E(h) == h = [s \in SUBSET S |->
                          IF s = {} THEN 0
                          ELSE Max({0, (CHOOSE x \in s : TRUE)[2]}) + h[s \ {CHOOSE x \in s : TRUE}]]
           it == CHOOSE h : E(h)
<1>1. MapThenSumSet(LAMBDA m : Max({0, m[2]}), S) = it[S]
    BY DEF MapThenSumSet, MapThenFoldSet
<1>2. PICK g : Sums(g, F, S) /\ Total(F, S) = g[S]
    BY TotalIs
<1>3. ASSUME NEW s \in SUBSET S, s # {}
      PROVE  F[Pick(s)] = Max({0, Pick(s)[2]})
    BY <1>3, PickIsIn
<1>4. ASSUME NEW s \in SUBSET S
      PROVE  (IF s = {} THEN 0 ELSE Max({0, (CHOOSE x \in s : TRUE)[2]}) + g[s \ {CHOOSE x \in s : TRUE}]) = g[s]
  <2>1. g[s] = IF s = {} THEN 0 ELSE F[Pick(s)] + g[s \ {Pick(s)}]
    BY <1>2 DEF Sums, Adds
  <2> QED
    BY <1>3, <2>1 DEF Pick
<1>5. E(g)
  <2>1. g = [s \in SUBSET S |-> g[s]]
    BY <1>2 DEF Sums
  <2> QED
    BY <1>4, <2>1
<1>6. E(it)
  <2> HIDE DEF E
  <2> QED
    BY <1>5
<1>7. Adds(it, F, S)
  <2>1. ASSUME NEW s \in SUBSET S
        PROVE  it[s] = IF s = {} THEN 0 ELSE Max({0, Pick(s)[2]}) + it[s \ {Pick(s)}]
    <3> HIDE DEF it
    <3> QED
      BY <1>6 DEF Pick
  <2> HIDE DEF it
  <2> QED
    BY <1>3, <2>1 DEF Adds
<1>8. it[S] = g[S]
  <2> HIDE DEF it
  <2>1. Adds(g, F, S) /\ S \in SUBSET S
    BY <1>2 DEF Sums
  <2> QED
    BY <1>7, <2>1, SumsAgree
<1> HIDE DEF it
<1> QED
    BY <1>1, <1>2, <1>8

LEMMA MovedSum ==
    ASSUME NEW S, IsFiniteSet(S), NEW F \in [S -> Int], \A d \in S : F[d] = disk[d.name].moved
    PROVE  MapThenSumSet(LAMBDA d : disk[d.name].moved, S) = Total(F, S)
<1> DEFINE E(h) == h = [s \in SUBSET S |->
                          IF s = {} THEN 0
                          ELSE disk[(CHOOSE x \in s : TRUE).name].moved + h[s \ {CHOOSE x \in s : TRUE}]]
           it == CHOOSE h : E(h)
<1>1. MapThenSumSet(LAMBDA d : disk[d.name].moved, S) = it[S]
    BY DEF MapThenSumSet, MapThenFoldSet
<1>2. PICK g : Sums(g, F, S) /\ Total(F, S) = g[S]
    BY TotalIs
<1>3. ASSUME NEW s \in SUBSET S, s # {}
      PROVE  F[Pick(s)] = disk[Pick(s).name].moved
    BY <1>3, PickIsIn
<1>4. ASSUME NEW s \in SUBSET S
      PROVE  (IF s = {} THEN 0 ELSE disk[(CHOOSE x \in s : TRUE).name].moved + g[s \ {CHOOSE x \in s : TRUE}]) = g[s]
  <2>1. g[s] = IF s = {} THEN 0 ELSE F[Pick(s)] + g[s \ {Pick(s)}]
    BY <1>2 DEF Sums, Adds
  <2> QED
    BY <1>3, <2>1 DEF Pick
<1>5. E(g)
  <2>1. g = [s \in SUBSET S |-> g[s]]
    BY <1>2 DEF Sums
  <2> QED
    BY <1>4, <2>1
<1>6. E(it)
  <2> HIDE DEF E
  <2> QED
    BY <1>5
<1>7. Adds(it, F, S)
  <2>1. ASSUME NEW s \in SUBSET S
        PROVE  it[s] = IF s = {} THEN 0 ELSE disk[Pick(s).name].moved + it[s \ {Pick(s)}]
    <3> HIDE DEF it
    <3> QED
      BY <1>6 DEF Pick
  <2> HIDE DEF it
  <2> QED
    BY <1>3, <2>1 DEF Adds
<1>8. it[S] = g[S]
  <2> HIDE DEF it
  <2>1. Adds(g, F, S) /\ S \in SUBSET S
    BY <1>2 DEF Sums
  <2> QED
    BY <1>7, <2>1, SumsAgree
<1> HIDE DEF it
<1> QED
    BY <1>1, <1>2, <1>8

-----------------------------------------------------------------------------
(* What a snapshot is taken from: the disks and what was last read of them. *)

Whole == {d \in host.disks : IsWholeDevice(d)}

(* A device counted at least what it moved since it was read last, if it    *)
(* was, and it did not move more than that but for one that counts anew.    *)
ReadInv ==
    /\ IsFiniteSet(previous)
    /\ previous \subseteq {d.name : d \in Whole} \X Nat
    /\ \A r, s \in previous : r[1] = s[1] => r = s
    /\ \A r \in previous :
          /\ disk[r[1]].count - r[2] <= disk[r[1]].moved
          /\ ~disk[r[1]].anew => disk[r[1]].count - r[2] = disk[r[1]].moved

LEMMA HostIs ==
    ASSUME IInv
    PROVE  /\ IsFiniteSet(host.disks)
           /\ \A d, e \in host.disks : d.name = e.name => d = e
           /\ host.gpus \in Nat /\ host.opens \subseteq 0 .. host.gpus - 1
           /\ host.simulate \in Nat /\ host.ram \in 1 .. 4096
           /\ \A d \in host.disks : disk[d.name] \in Disk
BY FeedAssumption DEF IInv, StateInv

LEMMA WholeIsFinite ==
    ASSUME IInv, NEW S, S \subseteq Whole
    PROVE  IsFiniteSet(S)
BY HostIs, FS_Subset DEF Whole

LEMMA MaxOfZero ==
    ASSUME NEW x \in Int
    PROVE  Max({0, x}) = IF x >= 0 THEN x ELSE 0
<1> DEFINE m == IF x >= 0 THEN x ELSE 0
<1>1. m \in {0, x} /\ \A y \in {0, x} : m >= y
    OBVIOUS
<1>2. \A z \in {0, x} : (\A y \in {0, x} : z >= y) => z = m
    OBVIOUS
<1> HIDE DEF m
<1>3. Max({0, x}) = m
    BY <1>1, <1>2 DEF Max
<1> QED
    BY <1>3 DEF m

(* A reading has one entry for each device.                                 *)
LEMMA ReadingIs ==
    ASSUME IInv, NEW now \in Readings
    PROVE  /\ IsFiniteSet(now)
           /\ \A r \in now : \E d \in Whole :
                 disk[d.name].here /\ r = <<d.name, disk[d.name].count>>
           /\ \A r, s \in now : r[1] = s[1] => r = s
           /\ \/ now = {}
              \/ \A d \in Whole : disk[d.name].here => <<d.name, disk[d.name].count>> \in now
<1> DEFINE W == {d \in host.disks : IsWholeDevice(d) /\ disk[d.name].here}
           all == {<<d.name, disk[d.name].count>> : d \in W}
<1>1. now = all \/ now = {}
    BY DEF Readings
<1>2. W \subseteq Whole /\ \A d \in W : disk[d.name].here
    BY DEF Whole
<1>3. \A d \in Whole : disk[d.name].here => d \in W
    BY DEF Whole
<1>4. IsFiniteSet(all)
  <2> DEFINE f == [d \in W |-> <<d.name, disk[d.name].count>>]
  <2>1. IsFiniteSet(W)
    BY <1>2, WholeIsFinite
  <2>2. f \in Surjection(W, all)
    BY DEF Surjection
  <2> HIDE DEF W, all, f
  <2> QED
    BY <2>1, <2>2, FS_Surjection
<1>5. \A r \in all : \E d \in W : r = <<d.name, disk[d.name].count>>
    OBVIOUS
<1>6. \A d \in W : <<d.name, disk[d.name].count>> \in all
    OBVIOUS
<1> HIDE DEF W, all
<1>7. CASE now = {}
    BY <1>7, FS_EmptySet
<1>8. CASE now = all
    BY <1>8, <1>2, <1>3, <1>4, <1>5, <1>6
<1> QED
    BY <1>1, <1>7, <1>8

(* What io_rates takes to have moved: of no device more than it did, and of *)
(* every device what it did while none came, went or counted anew.          *)
LEMMA DiskRateIsReal ==
    ASSUME IInv, ReadInv, NEW now \in Readings, NEW throttled, NEW hot
    PROVE  LET s == Snapshot(now, throttled, hot) IN
           /\ s.disk <= s.moved
           /\ s.steady => s.disk = s.moved
<1> DEFINE both == {p \in now \X previous : p[1][1] = p[2][1]}
           M == { <<p[1][1], p[1][2] - p[2][2]>> : p \in both }
           W == {d \in host.disks : IsWholeDevice(d) /\ disk[d.name].here}
           F == [m \in M |-> Max({0, m[2]})]
           G == [d \in W |-> disk[d.name].moved]
           steady == /\ {r[1] : r \in now} = {r[1] : r \in previous} /\ now # {}
                     /\ \A r \in now : ~disk[r[1]].anew
<1>1. /\ W \subseteq Whole /\ IsFiniteSet(W) /\ \A d \in W : disk[d.name].here
      /\ \A d \in Whole : disk[d.name].here => d \in W
  <2>1. W \subseteq Whole
    BY DEF Whole
  <2> QED
    BY <2>1, WholeIsFinite DEF Whole
<1>2. IsFiniteSet(M)
  <2> DEFINE f == [p \in both |-> <<p[1][1], p[1][2] - p[2][2]>>]
  <2>1. IsFiniteSet(both)
    BY ReadingIs, FS_Product, FS_Subset DEF ReadInv
  <2>2. f \in Surjection(both, M)
    BY DEF Surjection
  <2> HIDE DEF both, M, f
  <2> QED
    BY <2>1, <2>2, FS_Surjection
<1>3. ASSUME NEW m \in M
      PROVE  \E d \in W, c \in Nat :
                 /\ <<d.name, disk[d.name].count>> \in now /\ <<d.name, c>> \in previous
                 /\ m = <<d.name, disk[d.name].count - c>>
  <2>1. PICK p \in both : m = <<p[1][1], p[1][2] - p[2][2]>>
    OBVIOUS
  <2>2. p[1] \in now /\ p[2] \in previous /\ p[1][1] = p[2][1]
    BY <2>1
  <2>3. PICK d \in Whole : disk[d.name].here /\ p[1] = <<d.name, disk[d.name].count>>
    BY <2>2, ReadingIs
  <2>4. p[2] = <<d.name, p[2][2]>> /\ p[2][2] \in Nat
    BY <2>2, <2>3 DEF ReadInv
  <2>5. d \in W
    BY <1>1, <2>3
  <2>6. p[1][1] = d.name /\ p[1][2] = disk[d.name].count
    BY <2>3
  <2>7. /\ <<d.name, disk[d.name].count>> \in now /\ <<d.name, p[2][2]>> \in previous
        /\ m = <<d.name, disk[d.name].count - p[2][2]>>
    BY <2>1, <2>2, <2>3, <2>4, <2>6
  <2> QED
    BY <2>4, <2>5, <2>7
<1>4. ASSUME NEW d \in W
      PROVE  disk[d.name].moved \in Nat /\ disk[d.name].count \in Nat /\ d \in host.disks
    BY HostIs DEF Disk
<1>5. ASSUME NEW m \in M
      PROVE  /\ m[2] \in Int
             /\ \E d \in W : m[1] = d.name /\ m[2] <= disk[d.name].moved
  <2>1. PICK d \in W, c \in Nat :
            <<d.name, c>> \in previous /\ m = <<d.name, disk[d.name].count - c>>
    BY <1>3
  <2>2. disk[d.name].count - c <= disk[d.name].moved
    BY <2>1 DEF ReadInv
  <2> HIDE DEF M, W
  <2> QED
    BY <1>4, <2>1, <2>2
<1>6. ASSUME NEW m \in M, NEW n \in M, m[1] = n[1]
      PROVE  m = n
  <2>1. PICK d \in W, c \in Nat :
            <<d.name, c>> \in previous /\ m = <<d.name, disk[d.name].count - c>>
    BY <1>3
  <2>2. PICK e \in W, b \in Nat :
            <<e.name, b>> \in previous /\ n = <<e.name, disk[e.name].count - b>>
    BY <1>3
  <2>3. d.name = e.name
    BY <1>6, <2>1, <2>2
  <2>4. c = b
    BY <2>1, <2>2, <2>3 DEF ReadInv
  <2> QED
    BY <2>1, <2>2, <2>3, <2>4
<1>7. \A m \in M : F[m] \in Int /\ 0 <= F[m] /\ m[2] <= F[m] /\ (F[m] = m[2] \/ F[m] = 0)
  <2> HIDE DEF M
  <2> QED
    BY <1>5, MaxOfZero
<1>8. F \in [M -> Int] /\ \A m \in M : F[m] = Max({0, m[2]})
  <2> HIDE DEF M
  <2> QED
    BY <1>5, MaxOfZero
<1>9. /\ G \in [W -> Int] /\ \A d \in W : 0 <= G[d]
      /\ \A d \in W : G[d] = disk[d.name].moved
  <2> HIDE DEF W
  <2> QED
    BY <1>4
<1>10. Snapshot(now, throttled, hot).disk = Total(F, M)
  <2>1. Snapshot(now, throttled, hot).disk = MapThenSumSet(LAMBDA m : Max({0, m[2]}), M)
    BY DEF Snapshot, IoRates
  <2> HIDE DEF M, F
  <2> QED
    BY <1>2, <1>8, <2>1, ReadSum
<1>11. Snapshot(now, throttled, hot).moved = Total(G, W)
  <2>1. Snapshot(now, throttled, hot).moved = MapThenSumSet(LAMBDA d : disk[d.name].moved, W)
    BY DEF Snapshot
  <2> HIDE DEF W, G
  <2> QED
    BY <1>1, <1>9, <2>1, MovedSum
<1>12. Snapshot(now, throttled, hot).steady = steady
    BY DEF Snapshot
<1> HIDE DEF M, W, F, G
<1>13. Total(F, M) <= Total(G, W)
  <2> DEFINE k == [m \in M |-> CHOOSE d \in W : m[1] = d.name /\ m[2] <= disk[d.name].moved]
  <2>1. ASSUME NEW m \in M
        PROVE  k[m] \in W /\ m[1] = k[m].name /\ m[2] <= disk[k[m].name].moved
    BY <1>5
  <2>2. k \in [M -> W]
    BY <2>1
  <2> HIDE DEF k
  <2>3. \A m, n \in M : k[m] = k[n] => m = n
    BY <1>6, <2>1
  <2>4. \A m \in M : F[m] <= G[k[m]]
    BY <1>4, <1>5, <1>7, <1>9, <2>1
  <2> QED
    BY <1>1, <1>2, <1>8, <1>9, <2>2, <2>3, <2>4, TotalIsMonotone
<1>14. ASSUME steady PROVE Total(G, W) <= Total(F, M)
  <2>1. ASSUME NEW d \in W
        PROVE  \E m \in M : m[1] = d.name /\ m[2] = disk[d.name].moved
    <3>1. <<d.name, disk[d.name].count>> \in now
      BY <1>1, <1>14, ReadingIs
    <3>2. d.name \in {r[1] : r \in previous} /\ ~disk[d.name].anew
      BY <1>14, <3>1
    <3>3. PICK r \in previous : r[1] = d.name
      BY <3>2
    <3>4. disk[d.name].count - r[2] = disk[d.name].moved
      BY <3>2, <3>3 DEF ReadInv
    <3> DEFINE p == <<<<d.name, disk[d.name].count>>, r>>
    <3>5. p \in both /\ <<p[1][1], p[1][2] - p[2][2]>> = <<d.name, disk[d.name].moved>>
      BY <3>1, <3>3, <3>4
    <3>6. <<d.name, disk[d.name].moved>> \in M
      BY <3>5 DEF M
    <3> QED
      BY <3>6
  <2> DEFINE k == [d \in W |-> CHOOSE m \in M : m[1] = d.name /\ m[2] = disk[d.name].moved]
  <2>2. ASSUME NEW d \in W
        PROVE  k[d] \in M /\ k[d][1] = d.name /\ k[d][2] = disk[d.name].moved
    BY <2>1
  <2>3. k \in [W -> M]
    BY <2>2
  <2> HIDE DEF k
  <2>4. \A d, e \in W : k[d] = k[e] => d = e
    BY <1>4, <2>2, HostIs
  <2>5. \A d \in W : G[d] <= F[k[d]]
    BY <1>4, <1>7, <1>9, <2>2
  <2>6. \A m \in M : 0 <= F[m]
    BY <1>7
  <2> QED
    BY <1>1, <1>2, <1>8, <1>9, <2>3, <2>4, <2>5, <2>6, TotalIsMonotone
<1>15. Total(F, M) \in Int /\ Total(G, W) \in Int
  <2>1. PICK g : Sums(g, F, M) /\ Total(F, M) = g[M]
    BY <1>2, <1>8, TotalIs
  <2>2. PICK h : Sums(h, G, W) /\ Total(G, W) = h[W]
    BY <1>1, <1>9, TotalIs
  <2> QED
    BY <2>1, <2>2, SumIsNumber
<1>16. steady => Total(F, M) = Total(G, W)
    BY <1>13, <1>14, <1>15
<1> HIDE DEF steady
<1> QED
    BY <1>10, <1>11, <1>12, <1>13, <1>16

(* By the well-foundedness of finite sets: of the intervals 0 .. k.         *)
LEMMA SmallestNumber ==
    ASSUME NEW S \in SUBSET Nat, S # {}
    PROVE  \E m \in S : \A k \in S : m <= k
<1> DEFINE R == StrictSubsetOrdering(Nat)
           T == {0 .. k : k \in S}
<1>1. T \subseteq FiniteSubsetsOf(Nat) /\ T # {}
  <2>1. ASSUME NEW k \in S PROVE IsFiniteSet(0 .. k) /\ 0 .. k \in SUBSET Nat
    <3>1. k \in Int /\ 0 \in Int
      OBVIOUS
    <3> QED
      BY <3>1, FS_Interval
  <2> QED
    BY <2>1 DEF FiniteSubsetsOf
<1>2. IsWellFoundedOn(R, FiniteSubsetsOf(Nat))
    BY FS_StrictSubsetOrderingWellFounded
<1>3. \E x \in T : \A y \in T : ~(<<y, x>> \in R)
  <2> HIDE DEF T, R
  <2> QED
    BY <1>1, <1>2, WFMin
<1>4. PICK m \in S : \A y \in T : ~(<<y, 0 .. m>> \in R)
    BY <1>3
<1>5. ASSUME NEW k \in S PROVE m <= k
  <2> SUFFICES ASSUME k < m PROVE FALSE
    OBVIOUS
  <2>1. 0 .. k \subseteq 0 .. m /\ m \in 0 .. m /\ m \notin 0 .. k
    OBVIOUS
  <2>2. 0 .. k \in SUBSET Nat /\ 0 .. m \in SUBSET Nat
    OBVIOUS
  <2>3. <<0 .. k, 0 .. m>> \in R
    BY <2>1, <2>2 DEF StrictSubsetOrdering
  <2> QED
    BY <1>4, <2>3
<1> QED
    BY <1>5

LEMMA MinIsIn ==
    ASSUME NEW T \in SUBSET Nat, T # {}
    PROVE  Min(T) \in T
BY SmallestNumber DEF Min

(* What is rounded up is not less, as a marketed size is enough.            *)
LEMMA MemoryIsNotLess ==
    ASSUME IInv
    PROVE  SelectDisplayTotal >= host.ram
<1>1. host.ram \in 1 .. 4096
    BY HostIs
<1> DEFINE ram == host.ram
           up == RoundUpToMarketed(ram)
           all == Vram # None /\ Vram >= ram
           some == (Vram = None \/ Vram < ram) /\ DetectUnifiedMemory
<1>2. ram >= ram /\ up >= ram
  <2>1. ram \in 1 .. 4096
    BY <1>1
  <2> HIDE DEF ram
  <2> DEFINE T == {p \in PowersOfTwo : p >= ram}
  <2>2. Min(T) >= ram
    <3>1. T \in SUBSET Nat /\ 4096 \in T /\ \A p \in T : p >= ram
      BY <2>1 DEF PowersOfTwo
    <3>2. Min(T) \in T
      <4> HIDE DEF T
      <4> QED
        BY <3>1, MinIsIn
    <3> QED
      BY <3>2
  <2>3. ram >= ram
    BY <2>1
  <2> QED
    BY <2>2, <2>3 DEF RoundUpToMarketed
<1>3. SelectDisplayTotal = CASE all -> Vram [] some -> up [] OTHER -> ram
    BY DEF SelectDisplayTotal
<1>4. all => Vram >= ram
    OBVIOUS
<1>5. SelectDisplayTotal >= ram
  <2> HIDE DEF all, some, up, ram
  <2> QED
    BY <1>2, <1>3, <1>4
<1> QED
    BY <1>5

LEMMA RecordsOf ==
    ASSUME NEW S, NEW b
    PROVE  /\ \A i \in S : [index |-> i, simulated |-> b] \in [index : S, simulated : {b}]
           /\ \A g \in [index : S, simulated : {b}] :
                 g.index \in S /\ g = [index |-> g.index, simulated |-> b]
<1>1. \A i \in S : [index |-> i, simulated |-> b] \in [index : S, simulated : {b}]
    OBVIOUS
<1>2. ASSUME NEW g \in [index : S, simulated : {b}]
      PROVE  g.index \in S /\ g.simulated = b
             /\ g = [index |-> g.index, simulated |-> g.simulated]
    OBVIOUS
<1> QED
    BY <1>1, <1>2

LEMMA GpusAreApart ==
    ASSUME IInv, NEW throttled, NEW hot
    PROVE  /\ \A g, h \in CollectGpus : g.index = h.index => g = h
           /\ \A i \in GpuIndexesForPids(host.pids) :
                 \E g \in CollectGpus : g.index = i /\ ~g.simulated
           /\ \A e \in GpuEvents(throttled, hot) : \E g \in CollectGpus : g.index = e[1]
<1>1. Devices \subseteq 0 .. host.gpus - 1
    BY HostIs DEF Devices
<1>2. Devices \cap Simulated = {}
    BY <1>1, HostIs DEF Simulated, SimulatedBaseIndex
<1>3. /\ \A i \in Devices : [index |-> i, simulated |-> FALSE] \in CollectGpus
      /\ \A i \in Simulated : [index |-> i, simulated |-> TRUE] \in CollectGpus
      /\ \A g \in CollectGpus :
            \/ g.index \in Devices /\ g = [index |-> g.index, simulated |-> FALSE]
            \/ g.index \in Simulated /\ g = [index |-> g.index, simulated |-> TRUE]
  <2> DEFINE A == [index : Devices, simulated : {FALSE}]
             B == [index : Simulated, simulated : {TRUE}]
  <2>1. CollectGpus = A \cup B
    BY DEF CollectGpus
  <2>2. /\ \A i \in Devices : [index |-> i, simulated |-> FALSE] \in A
        /\ \A g \in A : g.index \in Devices /\ g = [index |-> g.index, simulated |-> FALSE]
    BY RecordsOf
  <2>3. /\ \A i \in Simulated : [index |-> i, simulated |-> TRUE] \in B
        /\ \A g \in B : g.index \in Simulated /\ g = [index |-> g.index, simulated |-> TRUE]
    BY RecordsOf
  <2> HIDE DEF A, B
  <2> QED
    BY <2>1, <2>2, <2>3
<1>4. \A g, h \in CollectGpus : g.index = h.index => g = h
    BY <1>2, <1>3
<1>5. \A i \in GpuIndexesForPids(host.pids) : i \in Devices
    BY DEF GpuIndexesForPids
<1>6. \A e \in GpuEvents(throttled, hot) : e[1] \in Devices \cup Simulated
    BY DEF GpuEvents
<1> HIDE DEF CollectGpus
<1> QED
    BY <1>3, <1>4, <1>5, <1>6

-----------------------------------------------------------------------------
(* The machine's part of the invariant.                                     *)
MachineInv == ReadInv /\ SnapshotIsOfThisMachine

LEMMA MachineInit == Init => MachineInv
BY FS_EmptySet DEF Init, MachineInv, ReadInv, SnapshotIsOfThisMachine

LEMMA MachineStays ==
    ASSUME MachineInv, UNCHANGED machine
    PROVE  MachineInv'
BY DEF MachineInv, ReadInv, SnapshotIsOfThisMachine, machine, Whole, IsWholeDevice

LEMMA DisksKeepMachine ==
    ASSUME IInv, MachineInv, DiskMoves \/ DiskComesOrGoes
    PROVE  MachineInv'
<1>1. UNCHANGED <<host, previous, snapshot>>
    BY DEF DiskMoves, DiskComesOrGoes
<1>2. SnapshotIsOfThisMachine'
    BY <1>1 DEF MachineInv, SnapshotIsOfThisMachine
<1>3. ASSUME NEW r \in previous
      PROVE  /\ disk'[r[1]].count - r[2] <= disk'[r[1]].moved
             /\ ~disk'[r[1]].anew => disk'[r[1]].count - r[2] = disk'[r[1]].moved
  <2> DEFINE n == r[1]
             old == disk[n]
             new == disk'[n]
  <2>1. r[2] \in Nat /\ \E d \in host.disks : n = d.name
    BY DEF MachineInv, ReadInv, Whole
  <2>2. disk \in [{d.name : d \in host.disks} -> Disk] /\ n \in DOMAIN disk /\ old \in Disk
    BY <2>1 DEF IInv, StateInv
  <2>3. old.count \in Nat /\ old.moved \in Nat
    BY <2>2 DEF Disk
  <2>4. /\ old.count - r[2] <= old.moved
        /\ ~old.anew => old.count - r[2] = old.moved
    BY DEF MachineInv, ReadInv
  <2>5. \/ new = old
        \/ new = [old EXCEPT !.count = @ + 1, !.moved = @ + 1]
        \/ new = [here |-> ~old.here, count |-> 0, moved |-> 0, anew |-> TRUE]
    BY <2>2 DEF DiskMoves, DiskComesOrGoes
  <2> HIDE DEF old, new
  <2>6. \/ new.count = old.count /\ new.moved = old.moved /\ new.anew = old.anew
        \/ new.count = old.count + 1 /\ new.moved = old.moved + 1 /\ new.anew = old.anew
        \/ new.count = 0 /\ new.moved = 0 /\ new.anew
    <3>1. CASE new = old
      BY <3>1
    <3>2. CASE new = [old EXCEPT !.count = @ + 1, !.moved = @ + 1]
      BY <2>2, <3>2 DEF Disk
    <3>3. CASE new = [here |-> ~old.here, count |-> 0, moved |-> 0, anew |-> TRUE]
      BY <3>3
    <3> QED
      BY <2>5, <3>1, <3>2, <3>3
  <2>7. new.count - r[2] <= new.moved /\ (~new.anew => new.count - r[2] = new.moved)
    BY <2>1, <2>3, <2>4, <2>6
  <2> QED
    BY <2>7 DEF new
<1>4. ReadInv'
    BY <1>1, <1>3 DEF MachineInv, ReadInv, Whole, IsWholeDevice
<1> QED
    BY <1>2, <1>4 DEF MachineInv

LEMMA TickKeepsMachine ==
    ASSUME IInv, MachineInv, Tick
    PROVE  MachineInv'
<1>1. PICK now \in Readings, throttled, hot \in {{}, {0}, {host.gpus}} :
          snapshot' = Snapshot(now, throttled, hot) /\ previous' = now
    BY DEF Tick
<1>2. host' = host /\ disk' = [n \in DOMAIN disk |-> [disk[n] EXCEPT !.moved = 0, !.anew = FALSE]]
    BY DEF Tick
<1>3. ReadInv'
  <2>1. IsFiniteSet(previous')
    BY <1>1, ReadingIs
  <2>2. ASSUME NEW r \in previous'
        PROVE  /\ r \in {d.name : d \in Whole} \X Nat
               /\ disk'[r[1]].count - r[2] = 0 /\ disk'[r[1]].moved = 0
    <3>1. PICK d \in Whole : r = <<d.name, disk[d.name].count>>
      BY <1>1, ReadingIs
    <3>2. d \in host.disks
      BY DEF Whole
    <3>3. /\ d.name \in DOMAIN disk /\ disk[d.name] \in Disk
      BY <3>2 DEF IInv, StateInv
    <3>4. disk[d.name].count \in Nat
      BY <3>3 DEF Disk
    <3>5. disk'[d.name] = [disk[d.name] EXCEPT !.moved = 0, !.anew = FALSE]
      BY <1>2, <3>3
    <3>6. disk'[d.name].count = disk[d.name].count /\ disk'[d.name].moved = 0
      BY <3>3, <3>5 DEF Disk
    <3> QED
      BY <3>1, <3>4, <3>6
  <2>3. \A r, s \in previous' : r[1] = s[1] => r = s
    BY <1>1, ReadingIs
  <2>4. Whole' = Whole
    BY <1>2 DEF Whole, IsWholeDevice
  <2>5. \A r \in previous' : /\ disk'[r[1]].count - r[2] <= disk'[r[1]].moved
                             /\ disk'[r[1]].count - r[2] = disk'[r[1]].moved
    BY <2>2
  <2>6. previous' \subseteq {d.name : d \in Whole'} \X Nat
    BY <2>2, <2>4
  <2> QED
    BY <2>1, <2>3, <2>5, <2>6 DEF ReadInv
<1>4. SnapshotIsOfThisMachine'
  <2> DEFINE s == Snapshot(now, throttled, hot)
  <2>1. s.disk <= s.moved /\ (s.steady => s.disk = s.moved)
    BY DiskRateIsReal DEF MachineInv
  <2>2. /\ s.gpus = CollectGpus /\ s.on = GpuIndexesForPids(host.pids)
        /\ s.events = GpuEvents(throttled, hot) /\ s.memory = SelectDisplayTotal
    BY DEF Snapshot
  <2>3. snapshot' = s
    BY <1>1
  <2>4. /\ \A g, h \in s.gpus : g.index = h.index => g = h
        /\ \A i \in s.on : \E g \in s.gpus : g.index = i /\ ~g.simulated
        /\ \A e \in s.events : \E g \in s.gpus : g.index = e[1]
    BY <2>2, GpusAreApart
  <2>5. s.memory >= host'.ram
    BY <1>2, <2>2, MemoryIsNotLess
  <2> HIDE DEF s
  <2> QED
    BY <2>1, <2>3, <2>4, <2>5 DEF SnapshotIsOfThisMachine
<1> QED
    BY <1>3, <1>4 DEF MachineInv

LEMMA MachineInvariance == Spec => []MachineInv
<1>1. IInv /\ MachineInv /\ [Next]_vars => MachineInv'
  <2>1. ASSUME [Next]_vars, ~(DiskMoves \/ DiskComesOrGoes \/ Tick) PROVE UNCHANGED machine
    BY <2>1 DEF Next, Accept, Forward, ForwardFails, Break, OnMessage, OnClose, Connect,
                Flush, HideOrShow, GoesQuiet, vars
  <2> QED
    BY <2>1, MachineStays, DisksKeepMachine, TickKeepsMachine
<1> QED
    BY <1>1, MachineInit, Invariance, PTL DEF Spec

(* Whatever disks and GPUs a machine has, and whichever come, go, count     *)
(* anew or do not open: what a snapshot says moved did move, and is all of  *)
(* it while nothing came or went; no two GPUs have one index, and an engine *)
(* is on a real one; no less memory is shown than the kernel has.           *)
THEOREM SnapshotTrue == Spec => []SnapshotIsOfThisMachine
<1>1. MachineInv => SnapshotIsOfThisMachine
    BY DEF MachineInv
<1> QED
    BY <1>1, MachineInvariance, PTL
=============================================================================
