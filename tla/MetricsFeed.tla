----------------------------- MODULE MetricsFeed -----------------------------
(***************************************************************************)
(* From the hardware to the screen: the metrics collector and its samplers  *)
(* (src/src/metrics), the broadcast channel and the socket handler          *)
(* (src/src/ws.rs), and the browser that keeps a socket to it and draws the *)
(* latest snapshot every two seconds (useMetrics.ts, outside the Rust       *)
(* sources).                                                                *)
(*                                                                         *)
(* Every tick of the collector makes one snapshot, known by its number; the *)
(* last number stands for every later snapshot.  A browser connects, falls  *)
(* behind, loses its connection with or without notice, and hides its tab.  *)
(***************************************************************************)
EXTENDS Integers, Sequences, FiniteSetsExt, SequencesExt

CONSTANTS
    Hosts,      \* the machines considered, see below
    MaxTicks,   \* snapshots told apart
    MaxCount,   \* sectors a disk moves
    Capacity,   \* of the broadcast channel (16)
    Window,     \* messages the connection buffers
    MaxBreaks,  \* connections lost or refused
    None

(* A machine: whether a browser watches it; its disks, each the whole       *)
(* device or a partition of one; how many GPUs NVML counts, which of them   *)
(* open, the one asked for and the number simulated; the memory NVML and    *)
(* the kernel see, in GiB, no more than 4 TiB.                              *)
ASSUME FeedAssumption ==
    /\ \A h \in Hosts :
          /\ h.watched \in BOOLEAN
          /\ IsFiniteSet(h.disks)
          /\ \A d \in h.disks : d.of \in {None} \cup {w.name : w \in h.disks}
          /\ \A d, e \in h.disks : d.name = e.name => d = e
          /\ h.gpus \in Nat /\ h.opens \subseteq 0 .. h.gpus - 1
          /\ h.simulate \in Nat /\ h.ram \in 1 .. 4096
    /\ MaxTicks \in Nat \ {0} /\ MaxCount \in Nat /\ MaxBreaks \in Nat
    /\ Capacity \in Nat \ {0} /\ Window \in Nat \ {0}

VARIABLES
    host,
    disk,       \* each disk: whether it is there, its counter, what it moved
                \* since the last tick, whether the counter started anew
    previous,   \* DiskIoSampler: the last reading
    tick,       \* the newest snapshot
    snapshot,   \* what the last tick measured
    rx,         \* the handler's receiver: sent, not yet received
    handler,    \* "none", or "up" while it serves the browser's connection
    wire,       \* sent on the connection, not yet delivered
    socket,     \* the browser's: "connecting", "open", "silent", "closed", "none"
    breaks,     \* connections lost or refused so far
    browser     \* useMetrics

machine == <<host, disk, previous, snapshot>>
connection == <<rx, handler, wire, socket, breaks>>
vars == <<machine, tick, connection, browser>>

-----------------------------------------------------------------------------
(* The disks, and the sampler that turns their counters into a rate.        *)

IsWholeDevice(d) == d.of = None

(* What a partition moves, its device moves.                                *)
DiskMoves ==
    /\ \E d \in host.disks :
          LET moving == {e \in host.disks : e = d \/ e.name = d.of} IN
          /\ \A e \in moving : disk[e.name].here /\ disk[e.name].count < MaxCount
          /\ disk' = [n \in DOMAIN disk |->
                        IF n \in {e.name : e \in moving}
                          THEN [disk[n] EXCEPT !.count = @ + 1, !.moved = @ + 1] ELSE disk[n]]
    /\ UNCHANGED <<host, previous, snapshot, tick, connection, browser>>

(* A device that is attached counts from zero.                              *)
DiskComesOrGoes ==
    /\ \E d \in host.disks :
          /\ \A p \in host.disks : p.of # d.name
          /\ disk' = [disk EXCEPT ![d.name] =
                        [here |-> ~@.here, count |-> 0, moved |-> 0, anew |-> TRUE]]
    /\ UNCHANGED <<host, previous, snapshot, tick, connection, browser>>

(* read_diskstats and parse_diskstats; a file that cannot be read is a      *)
(* reading without devices.                                                 *)
Readings ==
    { {<<d.name, disk[d.name].count>> : d \in {d \in host.disks : IsWholeDevice(d) /\ disk[d.name].here}},
      {} }

(* A bug: a device seen for the first time counts from zero.                *)
IoRatesFromZero(before, now) ==
    LET past(d) == Max({0} \cup {r[2] : r \in {r \in before : r[1] = d}})
    IN  MapThenSumSet(LAMBDA r : Max({0, r[2] - past(r[1])}), now)

(* io_rates: over the devices of both readings; a counter that went back    *)
(* adds nothing.                                                            *)
IoRates(before, now) ==
    LET both  == {p \in now \X before : p[1][1] = p[2][1]}
        moved == { <<p[1][1], p[1][2] - p[2][2]>> : p \in both }
    IN  MapThenSumSet(LAMBDA m : Max({0, m[2]}), moved)

-----------------------------------------------------------------------------
(* The GPUs.                                                                *)

(* The devices monitored: all, or the one asked for if it is in range, of   *)
(* those that open.                                                         *)
Devices ==
    LET asked == IF host.gpu_index = None THEN 0 .. host.gpus - 1
                 ELSE {host.gpu_index} \cap (0 .. host.gpus - 1)
    IN  asked \cap host.opens

(* Simulated GPUs come after every device NVML counts.                      *)
SimulatedBaseIndex == host.gpus
Simulated == SimulatedBaseIndex .. SimulatedBaseIndex + host.simulate - 1
CollectGpus == [index : Devices, simulated : {FALSE}] \cup [index : Simulated, simulated : {TRUE}]

(* gpu_indexes_for_pids, of the compute processes of every device.          *)
GpuIndexesForPids(pids) == {i \in Devices : host.procs[i] \cap pids # {}}

(* detect_gpu_events, and the simulated GPUs that are hot: at most one      *)
(* event of a type for each reason NVML names.                              *)
Reasons == {"thermal", "throttle", "power_brake"}
GpuEvents(throttled, hot) ==
    {<<i, r>> : i \in throttled \cap Devices, r \in Reasons}
    \cup {<<i, "thermal">> : i \in hot \cap Simulated}

-----------------------------------------------------------------------------
(* The memory, in GiB.                                                      *)

(* The first device monitored tells its name and its memory.                *)
Vram == IF Devices = {} THEN None ELSE host.vram

(* detect_unified_memory: known by its name, or NVML's total is within a    *)
(* tenth of the kernel's.                                                   *)
DetectUnifiedMemory ==
    \/ Devices # {} /\ host.family = "unified"
    \/ Vram # None /\ 10 * Max({Vram - host.ram, host.ram - Vram}) <= host.ram

PowersOfTwo == {1, 2, 4, 8, 16, 32, 64, 128, 256, 512, 1024, 2048, 4096}
RoundUpToMarketed(gib) == Min({p \in PowersOfTwo : p >= gib})

SelectDisplayTotal ==
    CASE Vram # None /\ Vram >= host.ram -> Vram
      [] (Vram = None \/ Vram < host.ram) /\ DetectUnifiedMemory -> RoundUpToMarketed(host.ram)
      [] OTHER -> host.ram

-----------------------------------------------------------------------------
(* The collector's tick, and the channel.                                   *)

Snapshot(now, throttled, hot) ==
    [disk    |-> IoRates(previous, now),
     moved   |-> MapThenSumSet(LAMBDA d : disk[d.name].moved,
                               {d \in host.disks : IsWholeDevice(d) /\ disk[d.name].here}),
     steady  |-> {r[1] : r \in now} = {r[1] : r \in previous} /\ now # {}
                 /\ \A r \in now : ~disk[r[1]].anew,
     gpus    |-> CollectGpus,
     on      |-> GpuIndexesForPids(host.pids),
     events  |-> GpuEvents(throttled, hot),
     memory  |-> SelectDisplayTotal]

(* A bug: the channel never forgets.                                        *)
SendUnbounded(queue, id) == Append(queue, id)

(* broadcast: a receiver that is Capacity behind skips the oldest.          *)
Send(queue, id) == Append(IF Len(queue) = Capacity THEN Tail(queue) ELSE queue, id)

Tick ==
    /\ tick' = Min({tick + 1, MaxTicks})
    /\ \E now \in Readings, throttled, hot \in {{}, {0}, {host.gpus}} :
          snapshot' = Snapshot(now, throttled, hot) /\ previous' = now
    /\ disk' = [n \in DOMAIN disk |-> [disk[n] EXCEPT !.moved = 0, !.anew = FALSE]]
    /\ rx' = IF handler = "up" THEN Send(rx, tick') ELSE rx
    /\ UNCHANGED <<host, handler, wire, socket, breaks, browser>>

-----------------------------------------------------------------------------
(* handle_socket.                                                           *)

(* A bug: a new client is sent what the channel still holds.                *)
SubscribeToAll == IF tick > 1 THEN <<tick - 1, tick>> ELSE <<>>

(* A receiver gets what is sent from now on.                                *)
Subscribe == <<>>

(* The upgrade and onopen.                                                  *)
Accept ==
    /\ socket = "connecting"
    /\ socket' = "open" /\ handler' = "up" /\ rx' = Subscribe /\ wire' = <<>>
    /\ browser' = [browser EXCEPT !.status = "connected", !.attempt = 0]
    /\ UNCHANGED <<machine, tick, breaks>>

Forward ==
    /\ handler = "up" /\ rx # <<>> /\ Len(wire) < Window
    /\ socket \in {"open", "silent"}
    /\ wire' = Append(wire, Head(rx)) /\ rx' = Tail(rx)
    /\ UNCHANGED <<machine, tick, handler, socket, breaks, browser>>

(* A send that fails ends the handler, and with it the receiver.            *)
ForwardFails ==
    /\ handler = "up" /\ rx # <<>> /\ socket \notin {"open", "silent"}
    /\ handler' = "none" /\ rx' = <<>>
    /\ UNCHANGED <<machine, tick, wire, socket, breaks, browser>>

-----------------------------------------------------------------------------
(* The connection.                                                          *)

Break ==
    /\ breaks < MaxBreaks /\ breaks' = breaks + 1
    /\ \/ socket \in {"connecting", "open", "silent"} /\ socket' = "closed" /\ wire' = <<>>
       \/ socket = "open" /\ socket' = "silent" /\ wire' = <<>>
    /\ UNCHANGED <<machine, tick, rx, handler, browser>>

-----------------------------------------------------------------------------
(* useMetrics.                                                              *)

(* onmessage: the first snapshot is drawn at once, later ones when flush    *)
(* finds them.                                                              *)
OnMessage ==
    /\ socket = "open" /\ wire # <<>>
    /\ wire' = Tail(wire)
    /\ browser' = IF browser.shown = None
                    THEN [browser EXCEPT !.shown = Head(wire), !.quiet = FALSE, !.stale = FALSE]
                    ELSE [browser EXCEPT !.pending = Head(wire), !.quiet = FALSE]
    /\ UNCHANGED <<machine, tick, rx, handler, socket, breaks>>

(* A bug: tries once more, and then no more.                                *)
RetryOnce(b) == [b EXCEPT !.status = "reconnecting", !.timer = b.attempt = 0, !.attempt = 1]

(* The delay doubles with every attempt, up to ten seconds.                 *)
Retry(b) == [b EXCEPT !.status = "reconnecting", !.timer = TRUE, !.attempt = Min({@ + 1, 4})]

OnClose ==
    /\ socket = "closed"
    /\ socket' = "none"
    /\ browser' = Retry(browser)
    /\ UNCHANGED <<machine, tick, rx, handler, wire, breaks>>

(* The old handler may still be up: it serves nobody.                       *)
Connect ==
    /\ socket = "none" /\ browser.timer
    /\ socket' = "connecting" /\ handler' = "none" /\ rx' = <<>>
    /\ browser' = [browser EXCEPT !.timer = FALSE]
    /\ UNCHANGED <<machine, tick, wire, breaks>>

(* Every two seconds, and when the tab is shown again.                      *)
Flush ==
    /\ host.watched /\ ~browser.hidden
    /\ browser' = CASE browser.pending # None ->
                         [browser EXCEPT !.shown = browser.pending, !.pending = None, !.stale = FALSE]
                    [] browser.pending = None /\ browser.status = "connected" /\ browser.shown # None ->
                         [browser EXCEPT !.stale = browser.quiet]
                    [] OTHER -> browser
    /\ UNCHANGED <<machine, tick, connection>>

HideOrShow ==
    /\ host.watched
    /\ browser' = [browser EXCEPT !.hidden = ~@]
    /\ UNCHANGED <<machine, tick, connection>>

(* Five seconds without a message.                                          *)
GoesQuiet ==
    /\ host.watched
    /\ socket = "open" => wire = <<>>
    /\ browser' = [browser EXCEPT !.quiet = TRUE]
    /\ UNCHANGED <<machine, tick, connection>>

-----------------------------------------------------------------------------
Init ==
    /\ host \in Hosts
    /\ disk = [n \in {d.name : d \in host.disks} |->
                 [here |-> TRUE, count |-> 0, moved |-> 0, anew |-> FALSE]]
    /\ previous = {} /\ tick = 0 /\ snapshot = None
    /\ rx = <<>> /\ handler = "none" /\ wire = <<>> /\ breaks = 0
    /\ socket = IF host.watched THEN "connecting" ELSE "none"
    /\ browser = [status |-> "disconnected", attempt |-> 0, timer |-> FALSE, pending |-> None,
                  shown |-> None, hidden |-> FALSE, quiet |-> FALSE, stale |-> FALSE]

Next == DiskMoves \/ DiskComesOrGoes \/ Tick \/ Accept \/ Forward \/ ForwardFails \/ Break
        \/ OnMessage \/ OnClose \/ Connect \/ Flush \/ HideOrShow \/ GoesQuiet

(* The collector ticks, the handler and the browser run, timers fire.       *)
Spec == Init /\ [][Next]_vars
    /\ WF_vars(Tick) /\ WF_vars(Accept) /\ WF_vars(Forward) /\ WF_vars(OnMessage)
    /\ WF_vars(OnClose) /\ WF_vars(Connect) /\ WF_vars(Flush) /\ WF_vars(GoesQuiet)

-----------------------------------------------------------------------------
(* Properties *)

TypeOK ==
    /\ host \in Hosts
    /\ \A n \in DOMAIN disk : disk[n].count \in 0 .. MaxCount
    /\ tick \in 0 .. MaxTicks
    /\ Len(rx) <= Capacity /\ Len(wire) <= Window
    /\ ToSet(rx) \cup ToSet(wire) \subseteq 1 .. MaxTicks
    /\ handler \in {"none", "up"}
    /\ socket \in {"connecting", "open", "silent", "closed", "none"}
    /\ breaks \in 0 .. MaxBreaks
    /\ browser.attempt \in 0 .. 4
    /\ {browser.pending, browser.shown} \subseteq {None} \cup 1 .. MaxTicks

(* A snapshot is of this machine: the disk rate is of sectors moved since   *)
(* the tick before, and of all of them while no device came, went or could  *)
(* not be read; no two GPUs share an index, and an engine or an event is on *)
(* one of them, an engine on none that is simulated; the memory shown as    *)
(* there is no less than what the kernel has (io_rates, metrics_collector,  *)
(* gpu_indexes_for_pids, select_display_total).                             *)
SnapshotIsOfThisMachine ==
    snapshot # None =>
        /\ snapshot.disk <= snapshot.moved
        /\ snapshot.steady => snapshot.disk = snapshot.moved
        /\ \A g, h \in snapshot.gpus : g.index = h.index => g = h
        /\ \A i \in snapshot.on : \E g \in snapshot.gpus : g.index = i /\ ~g.simulated
        /\ \A e \in snapshot.events : \E g \in snapshot.gpus : g.index = e[1]
        /\ snapshot.memory >= host.ram

(* The browser never goes back to an older snapshot than one it has shown,  *)
(* across lag, lost connections and hidden tabs (handle_socket, connect and *)
(* flush of useMetrics).                                                    *)
ShownNeverGoesBack ==
    [][browser.shown # None => browser'.shown >= browser.shown]_browser

(* While the tab is visible the browser comes to show the newest snapshot   *)
(* and goes on doing so, however far it lagged and however often it lost    *)
(* its connection; only where a connection died without notice does it stop, *)
(* and then it says that what it shows is stale, or shows nothing.          *)
LiveViewIsLive ==
    <>[](host.watched /\ ~browser.hidden) =>
        <>[](\/ browser.shown = MaxTicks
             \/ socket = "silent" /\ (browser.stale \/ browser.shown = None))
=============================================================================
