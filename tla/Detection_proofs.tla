-------------------------- MODULE Detection_proofs --------------------------
(***************************************************************************)
(* Proofs about a detection pass, for any hosts, process trees and command *)
(* lines, and whatever Docker and the servers answer or leave unanswered.   *)
(*                                                                         *)
(* The loops of the scan and of the merge are recursive functions over     *)
(* sequences; each is proved to keep, step by step, a bounded statement of *)
(* where it is (ReadUpTo, and its counterparts of both merge loops).        *)
(* PassInv is the inductive invariant of a pass.  Given it, Traced (what   *)
(* the lists hold), PortsKept (which ports they name) and PromisesKept     *)
(* (which servers are yet to be found) are each inductive.                  *)
(***************************************************************************)
EXTENDS Detection, TLAPS, FiniteSetTheorems, SequenceTheorems, WellFoundedInduction

(* A sequence is the function it is, whatever its elements: what the lists *)
(* of a pass are known to be before their elements are.                     *)
IsList(s) == Len(s) \in Nat /\ s = [i \in 1 .. Len(s) |-> s[i]]

LEMMA ListDomain ==
    ASSUME NEW s, IsList(s)
    PROVE  DOMAIN s = 1 .. Len(s) /\ Len(s) \in Nat
BY DEF IsList

LEMMA ListOf ==
    ASSUME NEW n \in Nat, NEW s, s = [i \in 1 .. n |-> s[i]]
    PROVE  IsList(s) /\ Len(s) = n
BY DEF IsList

LEMMA EmptyList == IsList(<<>>) /\ Len(<<>>) = 0
BY DEF IsList

LEMMA ListIsSeq ==
    ASSUME NEW s, IsList(s), NEW x
    PROVE  s \in Seq({s[i] : i \in 1 .. Len(s)} \cup {x})
<1> DEFINE R == {s[i] : i \in 1 .. Len(s)} \cup {x}
<1>1. s \in [1 .. Len(s) -> R]
  BY DEF IsList
<1> QED
  BY <1>1 DEF IsList

LEMMA SeqIsList ==
    ASSUME NEW S, NEW s \in Seq(S)
    PROVE  IsList(s)
BY DEF IsList

LEMMA Appended ==
    ASSUME NEW s, IsList(s), NEW x
    PROVE  /\ IsList(Append(s, x)) /\ Len(Append(s, x)) = Len(s) + 1
           /\ \A i \in 1 .. Len(s) : Append(s, x)[i] = s[i]
           /\ Append(s, x)[Len(s) + 1] = x
<1> DEFINE R == {s[i] : i \in 1 .. Len(s)} \cup {x}
<1>1. s \in Seq(R) /\ x \in R
  BY ListIsSeq
<1> HIDE DEF R
<1>2. Append(s, x) \in Seq(R)
  BY <1>1
<1>3. IsList(Append(s, x))
  BY <1>2, SeqIsList
<1> QED
  BY <1>1, <1>3

LEMMA Beheaded ==
    ASSUME NEW s, IsList(s), s # <<>>
    PROVE  /\ IsList(Tail(s)) /\ Len(Tail(s)) = Len(s) - 1
           /\ \A i \in 1 .. Len(Tail(s)) : Tail(s)[i] = s[i + 1] /\ i + 1 \in 1 .. Len(s)
           /\ Head(s) = s[1] /\ 1 \in 1 .. Len(s)
<1> DEFINE R == {s[i] : i \in 1 .. Len(s)} \cup {0}
<1>1. s \in Seq(R)
  BY ListIsSeq
<1> HIDE DEF R
<1>2. Tail(s) \in Seq(R) /\ Len(s) # 0
  BY <1>1
<1>3. IsList(Tail(s))
  BY <1>2, SeqIsList
<1> QED
  BY <1>1, <1>2, <1>3

LEMMA Joint ==
    ASSUME NEW s, IsList(s), NEW t, IsList(t)
    PROVE  /\ IsList(s \o t) /\ Len(s \o t) = Len(s) + Len(t)
           /\ \A i \in 1 .. Len(s) : (s \o t)[i] = s[i]
           /\ \A i \in 1 .. Len(t) : (s \o t)[Len(s) + i] = t[i]
           /\ \A i \in 1 .. Len(s \o t) :
                 \/ i \in 1 .. Len(s)
                 \/ i - Len(s) \in 1 .. Len(t) /\ (s \o t)[i] = t[i - Len(s)]
<1> DEFINE R == ({s[i] : i \in 1 .. Len(s)} \cup {0}) \cup ({t[i] : i \in 1 .. Len(t)} \cup {0})
<1>1. s \in Seq(R) /\ t \in Seq(R)
  <2>1. s \in Seq({s[i] : i \in 1 .. Len(s)} \cup {0}) /\ t \in Seq({t[i] : i \in 1 .. Len(t)} \cup {0})
    BY ListIsSeq
  <2> QED
    BY <2>1
<1> HIDE DEF R
<1>2. s \o t \in Seq(R)
  BY <1>1
<1>3. IsList(s \o t)
  BY <1>2, SeqIsList
<1> QED
  BY <1>1, <1>3

LEMMA NothingBefore ==
    ASSUME NEW s, IsList(s), Len(s) = 0, NEW t, IsList(t)
    PROVE  s \o t = t
<1>1. /\ IsList(s \o t) /\ Len(s \o t) = Len(s) + Len(t)
      /\ \A i \in 1 .. Len(t) : (s \o t)[Len(s) + i] = t[i]
  BY Joint
<1>2. Len(t) \in Nat
  BY ListDomain
<1> DEFINE u == s \o t
<1>3. Len(u) = Len(t) /\ \A i \in 1 .. Len(t) : u[i] = t[i]
  BY <1>1, <1>2
<1>4. u = [i \in 1 .. Len(u) |-> u[i]] /\ t = [i \in 1 .. Len(t) |-> t[i]]
  BY <1>1 DEF IsList
<1> HIDE DEF u
<1>5. u = t
  BY <1>3, <1>4
<1> QED
  BY <1>5 DEF u

(* By the well-foundedness of finite sets: of the intervals 0 .. k.         *)
LEMMA SmallestNumber ==
    ASSUME NEW S \in SUBSET Nat, S # {}
    PROVE  \E m \in S : \A k \in S : m <= k
<1> DEFINE R == StrictSubsetOrdering(Nat)
           T == {0 .. k : k \in S}
<1>1. T \subseteq FiniteSubsetsOf(Nat) /\ T # {}
  <2>1. ASSUME NEW k \in S PROVE IsFiniteSet(0 .. k) /\ 0 .. k \in SUBSET Nat
    <3>1. k \in Int /\ 0 \in Int
      OBVIOUS
    <3> QED
      BY <3>1, FS_Interval
  <2> QED
    BY <2>1 DEF FiniteSubsetsOf
<1>2. IsWellFoundedOn(R, FiniteSubsetsOf(Nat))
    BY FS_StrictSubsetOrderingWellFounded
<1>3. \E x \in T : \A y \in T : ~(<<y, x>> \in R)
  <2> HIDE DEF T, R
  <2> QED
    BY <1>1, <1>2, WFMin
<1>4. PICK m \in S : \A y \in T : ~(<<y, 0 .. m>> \in R)
    BY <1>3
<1>5. ASSUME NEW k \in S PROVE m <= k
  <2> SUFFICES ASSUME k < m PROVE FALSE
    OBVIOUS
  <2>1. 0 .. k \subseteq 0 .. m /\ m \in 0 .. m /\ m \notin 0 .. k
    OBVIOUS
  <2>2. 0 .. k \in SUBSET Nat /\ 0 .. m \in SUBSET Nat
    OBVIOUS
  <2>3. <<0 .. k, 0 .. m>> \in R
    BY <2>1, <2>2 DEF StrictSubsetOrdering
  <2> QED
    BY <1>4, <2>3
<1> QED
    BY <1>5

LEMMA MinIsIn ==
    ASSUME NEW T \in SUBSET Nat, T # {}
    PROVE  Min(T) \in T
BY SmallestNumber DEF Min

-----------------------------------------------------------------------------
(* The process tree.  Being the least closed set is its induction principle.*)

LEMMA TreeIsOfPids == \A roots : ExpandPidTree(roots) \subseteq Pids
BY DEF ExpandPidTree

LEMMA TreeHasRoots ==
    ASSUME NEW roots \in SUBSET Pids
    PROVE  roots \subseteq ExpandPidTree(roots)
BY DEF ExpandPidTree

LEMMA TreeIsClosed ==
    ASSUME NEW roots
    PROVE  Children(ExpandPidTree(roots)) \subseteq ExpandPidTree(roots)
BY DEF ExpandPidTree, Children

LEMMA TreeIsLeast ==
    ASSUME NEW roots, NEW seen \in SUBSET Pids,
           roots \subseteq seen, Children(seen) \subseteq seen
    PROVE  ExpandPidTree(roots) \subseteq seen
BY DEF ExpandPidTree

(* Who is in a tree is a root of it or the child of one in it.              *)
LEMMA TreeStep ==
    ASSUME NEW roots \in SUBSET Pids, NEW p \in ExpandPidTree(roots), p \notin roots
    PROVE  world.procs[p].parent \in ExpandPidTree(roots)
<1> DEFINE seen == {q \in ExpandPidTree(roots) :
                      q \in roots \/ world.procs[q].parent \in ExpandPidTree(roots)}
<1>1. seen \in SUBSET Pids /\ roots \subseteq seen
  BY TreeIsOfPids, TreeHasRoots
<1>2. Children(seen) \subseteq seen
  BY TreeIsClosed DEF Children
<1> HIDE DEF seen
<1>3. p \in seen
  BY <1>1, <1>2, TreeIsLeast
<1> QED
  BY <1>3 DEF seen

(* A tree is the trees of its roots.                                         *)
LEMMA TreeOfOne ==
    ASSUME NEW roots \in SUBSET Pids, NEW p \in ExpandPidTree(roots)
    PROVE  \E r \in roots : p \in ExpandPidTree({r})
<1> DEFINE seen == {q \in Pids : \E r \in roots : q \in ExpandPidTree({r})}
<1>1. seen \in SUBSET Pids
  OBVIOUS
<1>2. ASSUME NEW r \in roots PROVE r \in seen
  <2>1. {r} \in SUBSET Pids
    OBVIOUS
  <2>2. r \in ExpandPidTree({r})
    BY <2>1, TreeHasRoots
  <2> QED
    BY <2>2
<1>3. ASSUME NEW q \in Children(seen) PROVE q \in seen
  <2>1. PICK r \in roots : world.procs[q].parent \in ExpandPidTree({r})
    BY <1>3 DEF Children
  <2>2. q \in Pids /\ q \in Children(ExpandPidTree({r}))
    BY <1>3, <2>1 DEF Children
  <2>3. q \in ExpandPidTree({r})
    BY <2>2, TreeIsClosed
  <2> QED
    BY <2>2, <2>3
<1> HIDE DEF seen
<1>4. p \in seen
  BY <1>1, <1>2, <1>3, TreeIsLeast
<1> QED
  BY <1>4 DEF seen

(* A process has one parent, so two trees meet only where a root of one is *)
(* in the other.                                                             *)
LEMMA TreesApart ==
    ASSUME NEW a \in SUBSET Pids, NEW b \in SUBSET Pids,
           \A p \in a, q \in b : p \notin ExpandPidTree({q}) /\ q \notin ExpandPidTree({p})
    PROVE  ExpandPidTree(a) \cap ExpandPidTree(b) = {}
<1> DEFINE seen == ExpandPidTree(a) \ ExpandPidTree(b)
<1>1. seen \in SUBSET Pids
  BY TreeIsOfPids
<1>2. a \subseteq seen
  <2>1. ASSUME NEW p \in a, p \in ExpandPidTree(b) PROVE FALSE
    BY <2>1, TreeOfOne
  <2> QED
    BY <2>1, TreeHasRoots
<1>3. ASSUME NEW q \in Children(seen) PROVE q \in seen
  <2>1. q \in Pids /\ world.procs[q].parent \in seen
    BY <1>3 DEF Children
  <2>2. q \in ExpandPidTree(a)
    BY <2>1, TreeIsClosed DEF Children
  <2>3. ASSUME q \in ExpandPidTree(b) PROVE FALSE
    <3>1. q \in b
      BY <2>1, <2>3, TreeStep
    <3> QED
      BY <2>2, <3>1, TreeOfOne
  <2> QED
    BY <2>2, <2>3
<1>4. Children(seen) \subseteq seen
  BY <1>3
<1> HIDE DEF seen
<1>5. ExpandPidTree(a) \subseteq seen
  BY <1>1, <1>2, <1>4, TreeIsLeast
<1> QED
  BY <1>5 DEF seen

-----------------------------------------------------------------------------
(* Engines, as a pass passes them on.                                        *)

IsRecord(e) ==
    e = [engine_type |-> e.engine_type, endpoint |-> e.endpoint, fallbacks |-> e.fallbacks,
         mode |-> e.mode, model |-> e.model, pids |-> e.pids, container |-> e.container]

(* Where an engine is looked for, and who named those addresses: a process  *)
(* that is nobody's child, or a scan of the engine's own container.         *)
Addresses(e) == {e.endpoint} \cup {e.fallbacks[k] : k \in 1 .. Len(e.fallbacks)}

OwnNamed(type) ==
    UNION {{EndpointsOf(p)[k] : k \in 1 .. Len(EndpointsOf(p))} :
              p \in {q \in Pids \ Owned : EngineOfProcess(q) = type}}

BlankEnv == [ollama_host |-> Unset, llama |-> NoSettings]
Scans(c) == {DockerCandidate(c, pids, env) : pids \in {{}, c.pids}, env \in {c.env, BlankEnv}}
AllScans == UNION {Scans(world.containers[c]) : c \in DOMAIN world.containers}
ScannedIn(id, type) ==
    {e \in {d[1] : d \in AllScans \ {<<>>}} : e.engine_type = type /\ e.container = id}
ContainerNamed(id, type) == UNION {Addresses(e) : e \in ScannedIn(id, type)}

Sourced(e) ==
    /\ e.container \in {None, world.containers[1].id}
    /\ Addresses(e) \subseteq
          OwnNamed(e.engine_type)
          \cup (IF e.container = None THEN {} ELSE ContainerNamed(e.container, e.engine_type))

IsEngine(e) ==
    /\ IsRecord(e)
    /\ e.engine_type \in EngineTypes
    /\ e.pids \subseteq Pids
    /\ (e.mode = "Docker") <=> (e.container # None)
    /\ IsList(e.fallbacks)
    /\ Sourced(e)

Engines(s) == IsList(s) /\ \A i \in 1 .. Len(s) : IsEngine(s[i])

LEMMA SameSource ==
    ASSUME NEW e, Sourced(e), NEW f, f.engine_type = e.engine_type, f.endpoint = e.endpoint,
           f.fallbacks = e.fallbacks, f.container = e.container
    PROVE  Sourced(f)
<1>1. Addresses(f) = Addresses(e)
  BY DEF Addresses
<1> QED
  BY <1>1 DEF Sourced

Holding(e, pids) == [e EXCEPT !.pids = pids]

LEMMA HoldingIs ==
    ASSUME NEW e, IsRecord(e), NEW pids
    PROVE  /\ IsRecord(Holding(e, pids)) /\ Holding(e, pids).pids = pids
           /\ Holding(e, pids).engine_type = e.engine_type
           /\ Holding(e, pids).endpoint = e.endpoint
           /\ Holding(e, pids).fallbacks = e.fallbacks
           /\ Holding(e, pids).mode = e.mode /\ Holding(e, pids).model = e.model
           /\ Holding(e, pids).container = e.container
<1>1. Holding(e, pids) =
        [engine_type |-> e.engine_type, endpoint |-> e.endpoint, fallbacks |-> e.fallbacks,
         mode |-> e.mode, model |-> e.model, pids |-> pids, container |-> e.container]
  BY DEF IsRecord, Holding
<1> QED
  BY <1>1 DEF IsRecord

(* SelectInSeq's answer, for the one question a pass asks.                   *)
Matches(e, type, endpoint) == e.engine_type = type /\ e.endpoint = endpoint

Slot(s, type, endpoint) ==
    SelectInSeq(s, LAMBDA e : e.engine_type = type /\ e.endpoint = endpoint)

LEMMA FirstMatch ==
    ASSUME NEW s, IsList(s), NEW type, NEW endpoint
    PROVE  \/ /\ Slot(s, type, endpoint) = 0
              /\ \A i \in 1 .. Len(s) : ~Matches(s[i], type, endpoint)
           \/ /\ Slot(s, type, endpoint) \in 1 .. Len(s)
              /\ Matches(s[Slot(s, type, endpoint)], type, endpoint)
<1> DEFINE I == {i \in 1 .. Len(s) : s[i].engine_type = type /\ s[i].endpoint = endpoint}
<1>1. Slot(s, type, endpoint) = IF I # {} THEN Min(I) ELSE 0
  BY DEF Slot, SelectInSeq
<1>2. I \in SUBSET Nat
  BY ListDomain
<1>3. CASE I = {}
  BY <1>1, <1>3 DEF Matches
<1>4. CASE I # {}
  <2> HIDE DEF I
  <2>1. Slot(s, type, endpoint) \in I
    BY <1>1, <1>2, <1>4, MinIsIn
  <2> QED
    BY <2>1 DEF I, Matches
<1> QED
  BY <1>3, <1>4

-----------------------------------------------------------------------------
(* The process scan.                                                         *)

LEMMA ScannedIs ==
    ASSUME NEW s, IsList(s), NEW p, NEW owned
    PROVE  LET type == EngineOfProcess(p)
               endpoints == EndpointsOf(p)
               slot == Slot(s, type, Head(endpoints))
           IN  Scanned(s, p, owned) =
                 IF p \in owned \/ endpoints = <<>> THEN s
                 ELSE IF slot = 0
                   THEN Append(s, DetectedEngine(type, endpoints, "Native", ModelOf(p), {p}, None))
                   ELSE [s EXCEPT ![slot].pids = @ \cup {p}]
BY DEF Scanned, Slot

LEMMA EndpointsAre ==
    ASSUME NEW p, EndpointsOf(p) # <<>>
    PROVE  EngineOfProcess(p) \in EngineTypes /\ IsList(EndpointsOf(p))
<1>1. CASE EngineOfProcess(p) = "Ollama"
  BY <1>1 DEF EndpointsOf, EngineTypes, IsList
<1>2. CASE EngineOfProcess(p) = "LlamaCpp"
  <2> DEFINE listen == Listen(LaunchOf(p), DefaultPorts("Native"))
  <2>1. EndpointsOf(p) = ListenEndpoints(listen)
    BY <1>2 DEF EndpointsOf
  <2>2. IsList(listen.ports)
    BY DEF Listen, DefaultPorts, IsList
  <2>3. \A q : q = ListenEndpoints(listen) => IsList(q)
    BY <2>2, ListDomain, ListOf DEF ListenEndpoints
  <2> QED
    BY <1>2, <2>1, <2>3 DEF EngineTypes
<1>3. CASE EngineOfProcess(p) \in {"Vllm", "Sglang"}
  BY <1>3 DEF EndpointsOf, EngineTypes, IsList
<1> QED
  BY <1>1, <1>2, <1>3 DEF EndpointsOf

(* What the table holds up to a process, as engines: one for each type and  *)
(* endpoint that some server there is on, with those servers and no other,  *)
(* to be looked for where one of them says.                                 *)
ServersUpTo(n, owned) == {p \in 1 .. n : p \notin owned /\ EndpointsOf(p) # <<>>}
On(p, e) == Matches(e, EngineOfProcess(p), Head(EndpointsOf(p)))
OneEach(s) ==
    \A i, j \in 1 .. Len(s) : i # j => ~Matches(s[i], s[j].engine_type, s[j].endpoint)
ReadUpTo(n, s, owned) ==
    /\ Engines(s)
    /\ OneEach(s)
    /\ \A i \in 1 .. Len(s) :
          /\ s[i].pids = {p \in ServersUpTo(n, owned) : On(p, s[i])}
          /\ s[i].container = None
          /\ \E p \in ServersUpTo(n, owned) : On(p, s[i]) /\ s[i].fallbacks = Tail(EndpointsOf(p))
    /\ \A p \in ServersUpTo(n, owned) : \E i \in 1 .. Len(s) : On(p, s[i])

LEMMA OneMoreServer ==
    ASSUME NEW n \in Nat, n # 0, NEW owned
    PROVE  ServersUpTo(n, owned) =
             IF n \in owned \/ EndpointsOf(n) = <<>> THEN ServersUpTo(n - 1, owned)
             ELSE ServersUpTo(n - 1, owned) \cup {n}
BY DEF ServersUpTo

LEMMA ReadSkips ==
    ASSUME NEW n \in Nat, n # 0, NEW owned, NEW s, ReadUpTo(n - 1, s, owned),
           n \in owned \/ EndpointsOf(n) = <<>>
    PROVE  ReadUpTo(n, s, owned)
<1>1. ServersUpTo(n, owned) = ServersUpTo(n - 1, owned)
  BY OneMoreServer
<1> QED
  BY <1>1 DEF ReadUpTo

LEMMA ReadAdds ==
    ASSUME NEW n \in Nat, n # 0, n \in Pids, NEW owned, NEW s, ReadUpTo(n - 1, s, owned),
           n \notin owned, EndpointsOf(n) # <<>>,
           NEW slot \in 1 .. Len(s), On(n, s[slot])
    PROVE  ReadUpTo(n, [s EXCEPT ![slot].pids = @ \cup {n}], owned)
<1> DEFINE e == Holding(s[slot], s[slot].pids \cup {n})
           t == [s EXCEPT ![slot].pids = @ \cup {n}]
<1>1. IsList(s) /\ DOMAIN s = 1 .. Len(s) /\ Len(s) \in Nat
  BY ListDomain DEF ReadUpTo, Engines
<1>2. t = [i \in 1 .. Len(s) |-> IF i = slot THEN e ELSE s[i]]
  BY <1>1 DEF Holding
<1>3. IsRecord(s[slot]) /\ IsEngine(s[slot])
  BY DEF ReadUpTo, Engines, IsEngine
<1>4. /\ IsRecord(e) /\ e.pids = s[slot].pids \cup {n}
      /\ e.engine_type = s[slot].engine_type /\ e.endpoint = s[slot].endpoint
      /\ e.fallbacks = s[slot].fallbacks /\ e.mode = s[slot].mode
      /\ e.container = s[slot].container
  BY <1>3, HoldingIs
<1> HIDE DEF e, t
<1>5. IsList(t) /\ Len(t) = Len(s) /\ \A i \in 1 .. Len(s) : t[i] = IF i = slot THEN e ELSE s[i]
  <2>1. t = [i \in 1 .. Len(s) |-> t[i]]
    BY <1>2
  <2> QED
    BY <1>1, <1>2, <2>1, ListOf
<1>6. Engines(t)
  <2>1. Sourced(e)
    BY <1>3, <1>4, SameSource DEF IsEngine
  <2>2. IsEngine(e)
    BY <1>3, <1>4, <2>1 DEF IsEngine
  <2> QED
    BY <1>5, <2>2 DEF ReadUpTo, Engines
<1>7. \A i \in 1 .. Len(s) : /\ t[i].engine_type = s[i].engine_type /\ t[i].endpoint = s[i].endpoint
                             /\ t[i].fallbacks = s[i].fallbacks /\ t[i].container = s[i].container
                             /\ \A p : On(p, t[i]) <=> On(p, s[i])
  BY <1>4, <1>5 DEF On, Matches
<1>8. OneEach(t)
  BY <1>5, <1>7 DEF ReadUpTo, OneEach, Matches
<1>9. ServersUpTo(n, owned) = ServersUpTo(n - 1, owned) \cup {n}
  BY OneMoreServer
<1>10. ASSUME NEW i \in 1 .. Len(s), i # slot PROVE ~On(n, s[i])
  BY <1>10, SMTT(30) DEF ReadUpTo, OneEach, On, Matches
<1>11. ASSUME NEW i \in 1 .. Len(s)
       PROVE  t[i].pids = {p \in ServersUpTo(n, owned) : On(p, t[i])}
  <2>1. s[i].pids = {p \in ServersUpTo(n - 1, owned) : On(p, s[i])}
    BY DEF ReadUpTo
  <2>2. CASE i = slot
    BY <1>4, <1>5, <1>7, <1>9, <2>1, <2>2
  <2>3. CASE i # slot
    BY <1>5, <1>7, <1>9, <1>10, <2>1, <2>3
  <2> QED
    BY <2>2, <2>3
<1>13. ASSUME NEW p \in ServersUpTo(n, owned) PROVE \E i \in 1 .. Len(t) : On(p, t[i])
  BY <1>5, <1>7, <1>9 DEF ReadUpTo
<1>14. \A i \in 1 .. Len(t) : t[i].container = None
  BY <1>5, <1>7 DEF ReadUpTo
<1>15. ASSUME NEW i \in 1 .. Len(t)
       PROVE  \E p \in ServersUpTo(n, owned) : On(p, t[i]) /\ t[i].fallbacks = Tail(EndpointsOf(p))
  <2>1. PICK p \in ServersUpTo(n - 1, owned) : On(p, s[i]) /\ s[i].fallbacks = Tail(EndpointsOf(p))
    BY <1>5 DEF ReadUpTo
  <2> QED
    BY <1>5, <1>7, <1>9, <2>1
<1> QED
  <2>1. ReadUpTo(n, t, owned)
    BY <1>5, <1>6, <1>8, <1>11, <1>13, <1>14, <1>15 DEF ReadUpTo
  <2> QED
    BY <2>1 DEF t

LEMMA ReadAppends ==
    ASSUME NEW n \in Nat, n # 0, n \in Pids, NEW owned, owned = Owned,
           NEW s, ReadUpTo(n - 1, s, owned),
           n \notin owned, EndpointsOf(n) # <<>>, \A i \in 1 .. Len(s) : ~On(n, s[i])
    PROVE  ReadUpTo(n, Append(s, DetectedEngine(EngineOfProcess(n), EndpointsOf(n), "Native",
                                                ModelOf(n), {n}, None)), owned)
<1> DEFINE e == DetectedEngine(EngineOfProcess(n), EndpointsOf(n), "Native", ModelOf(n), {n}, None)
           t == Append(s, e)
<1>1. IsList(s) /\ Len(s) \in Nat
  BY ListDomain DEF ReadUpTo, Engines
<1>2. /\ IsRecord(e) /\ e.engine_type = EngineOfProcess(n) /\ e.endpoint = Head(EndpointsOf(n))
      /\ e.fallbacks = Tail(EndpointsOf(n)) /\ e.mode = "Native" /\ e.pids = {n}
      /\ e.container = None
  BY DEF DetectedEngine, IsRecord
<1> HIDE DEF e
<1>3. /\ IsList(t) /\ Len(t) = Len(s) + 1
      /\ \A i \in 1 .. Len(s) : t[i] = s[i]
      /\ t[Len(s) + 1] = e
  BY <1>1, Appended
<1> HIDE DEF t
<1>4. IsEngine(e)
  <2> DEFINE all == {EndpointsOf(n)[k] : k \in 1 .. Len(EndpointsOf(n))}
  <2>1. EngineOfProcess(n) \in EngineTypes /\ IsList(EndpointsOf(n))
    BY EndpointsAre
  <2>2. /\ IsList(Tail(EndpointsOf(n))) /\ Head(EndpointsOf(n)) \in all
        /\ \A k \in 1 .. Len(Tail(EndpointsOf(n))) : Tail(EndpointsOf(n))[k] \in all
    BY <2>1, Beheaded
  <2>3. Addresses(e) \subseteq all
    <3> HIDE DEF all
    <3> QED
      BY <1>2, <2>2 DEF Addresses
  <2>4. all \subseteq OwnNamed(e.engine_type)
    BY <1>2 DEF OwnNamed
  <2>5. Sourced(e)
    BY <1>2, <2>3, <2>4 DEF Sourced
  <2> QED
    BY <1>2, <2>1, <2>2, <2>5 DEF IsEngine
<1>5. 1 .. Len(t) = (1 .. Len(s)) \cup {Len(s) + 1}
  BY <1>1, <1>3
<1>6. Engines(t)
  BY <1>3, <1>4, <1>5 DEF ReadUpTo, Engines
<1>7. On(n, e)
  BY <1>2 DEF On, Matches
<1>8. OneEach(t)
  <2>1. ASSUME NEW i \in 1 .. Len(s)
        PROVE  ~Matches(t[i], e.engine_type, e.endpoint) /\ ~Matches(e, t[i].engine_type, t[i].endpoint)
    <3>1. ~On(n, s[i]) /\ t[i] = s[i]
      BY <1>3
    <3> QED
      BY <1>2, <3>1 DEF Matches, On
  <2>2. ASSUME NEW i \in 1 .. Len(s), NEW j \in 1 .. Len(s), i # j
        PROVE  ~Matches(t[i], t[j].engine_type, t[j].endpoint)
    BY <1>3, <2>2 DEF ReadUpTo, OneEach
  <2>3. ASSUME NEW i \in 1 .. Len(t), NEW j \in 1 .. Len(t), i # j
        PROVE  ~Matches(t[i], t[j].engine_type, t[j].endpoint)
    <3>1. CASE i \in 1 .. Len(s) /\ j \in 1 .. Len(s)
      BY <2>2, <2>3, <3>1
    <3>2. CASE i = Len(s) + 1 /\ j \in 1 .. Len(s)
      BY <1>3, <2>1, <3>2
    <3>3. CASE i \in 1 .. Len(s) /\ j = Len(s) + 1
      BY <1>3, <2>1, <3>3
    <3> QED
      BY <1>5, <2>3, <3>1, <3>2, <3>3
  <2> QED
    BY <2>3 DEF OneEach
<1>9. ServersUpTo(n, owned) = ServersUpTo(n - 1, owned) \cup {n}
  BY OneMoreServer
<1>10. ASSUME NEW p \in ServersUpTo(n - 1, owned) PROVE ~On(p, e)
  <2>1. PICK i \in 1 .. Len(s) : On(p, s[i])
    BY DEF ReadUpTo
  <2> QED
    BY <1>2, <2>1 DEF On, Matches
<1>11. ASSUME NEW i \in 1 .. Len(t)
       PROVE  /\ t[i].pids = {p \in ServersUpTo(n, owned) : On(p, t[i])}
              /\ t[i].container = None
  <2>1. CASE i \in 1 .. Len(s)
    BY <1>3, <1>9, <2>1 DEF ReadUpTo
  <2>2. CASE i = Len(s) + 1
    BY <1>2, <1>3, <1>7, <1>9, <1>10, <2>2
  <2> QED
    BY <1>5, <2>1, <2>2
<1>12. ASSUME NEW p \in ServersUpTo(n, owned) PROVE \E i \in 1 .. Len(t) : On(p, t[i])
  BY <1>3, <1>5, <1>7, <1>9 DEF ReadUpTo
<1>13. ASSUME NEW i \in 1 .. Len(t)
       PROVE  \E p \in ServersUpTo(n, owned) : On(p, t[i]) /\ t[i].fallbacks = Tail(EndpointsOf(p))
  <2>1. CASE i \in 1 .. Len(s)
    <3>1. PICK p \in ServersUpTo(n - 1, owned) : On(p, s[i]) /\ s[i].fallbacks = Tail(EndpointsOf(p))
      BY <2>1 DEF ReadUpTo
    <3> QED
      BY <1>3, <1>9, <2>1, <3>1
  <2>2. CASE i = Len(s) + 1
    BY <1>2, <1>3, <1>7, <1>9, <2>2
  <2> QED
    BY <1>5, <2>1, <2>2
<1> QED
  <2>1. ReadUpTo(n, t, owned)
    BY <1>6, <1>8, <1>11, <1>12, <1>13 DEF ReadUpTo
  <2> QED
    BY <2>1 DEF t, e

LEMMA ReadStep ==
    ASSUME NEW n \in Nat, n # 0, n \in Pids, NEW owned, owned = Owned,
           NEW s, ReadUpTo(n - 1, s, owned)
    PROVE  ReadUpTo(n, Scanned(s, n, owned), owned)
<1> DEFINE slot == Slot(s, EngineOfProcess(n), Head(EndpointsOf(n)))
<1>1. IsList(s) /\ Len(s) \in Nat
  BY ListDomain DEF ReadUpTo, Engines
<1>2. \/ slot = 0 /\ \A i \in 1 .. Len(s) : ~On(n, s[i])
      \/ slot \in 1 .. Len(s) /\ On(n, s[slot])
  BY <1>1, FirstMatch DEF On
<1> HIDE DEF slot
<1>3. CASE n \in owned \/ EndpointsOf(n) = <<>>
  BY <1>1, <1>3, ReadSkips, ScannedIs, ZenonT(30) DEF slot
<1>4. CASE ~(n \in owned \/ EndpointsOf(n) = <<>>) /\ slot = 0
  <2>1. Scanned(s, n, owned) = Append(s, DetectedEngine(EngineOfProcess(n), EndpointsOf(n),
                                                        "Native", ModelOf(n), {n}, None))
    BY <1>1, <1>4, ScannedIs DEF slot
  <2>2. \A i \in 1 .. Len(s) : ~On(n, s[i])
    BY <1>1, <1>2, <1>4
  <2> QED
    BY <1>4, <2>1, <2>2, ReadAppends
<1>5. CASE ~(n \in owned \/ EndpointsOf(n) = <<>>) /\ slot # 0
  <2>1. Scanned(s, n, owned) = [s EXCEPT ![slot].pids = @ \cup {n}]
    BY <1>1, <1>5, ScannedIs DEF slot
  <2>2. slot \in 1 .. Len(s) /\ On(n, s[slot])
    BY <1>2, <1>5
  <2>3. ReadUpTo(n, [s EXCEPT ![slot].pids = @ \cup {n}], owned)
    BY <1>5, <2>2, ReadAdds
  <2> QED
    BY <2>1, <2>3
<1> QED
  BY <1>3, <1>4, <1>5

(* The loop over the table, as the function that says where it is after     *)
(* each process.                                                             *)
Reading(h, n, owned) ==
    h = [k \in 0 .. n |-> IF k = 0 THEN <<>> ELSE Scanned(h[k - 1], k, owned)]

LEMMA ReadingExists ==
    ASSUME NEW n \in Nat, NEW owned
    PROVE  \E h : Reading(h, n, owned)
<1> DEFINE bad == {k \in Nat : ~\E h : Reading(h, k, owned)}
<1> SUFFICES ASSUME bad # {} PROVE FALSE
  OBVIOUS
<1>1. PICK m \in bad : \A k \in bad : m <= k
  BY SmallestNumber
<1>2. CASE m = 0
  <2> DEFINE h == [k \in 0 .. 0 |-> <<>>]
  <2>1. Reading(h, 0, owned)
    BY DEF Reading
  <2> QED
    BY <1>2, <2>1
<1>3. CASE m # 0
  <2>1. m - 1 \in Nat /\ m - 1 \notin bad
    BY <1>1, <1>3
  <2>2. PICK g : Reading(g, m - 1, owned)
    BY <2>1
  <2> DEFINE h == [k \in 0 .. m |-> IF k = m THEN Scanned(g[m - 1], m, owned) ELSE g[k]]
  <2>3. ASSUME NEW k \in 0 .. m
        PROVE  h[k] = IF k = 0 THEN <<>> ELSE Scanned(h[k - 1], k, owned)
    <3>1. CASE k = m
      BY <1>3, <3>1
    <3>2. CASE k # m
      <4>1. k \in 0 .. (m - 1)
        BY <3>2
      <4>2. g[k] = IF k = 0 THEN <<>> ELSE Scanned(g[k - 1], k, owned)
        BY <2>2, <4>1 DEF Reading
      <4>3. h[k] = g[k] /\ (k # 0 => h[k - 1] = g[k - 1])
        BY <3>2, <4>1
      <4> QED
        BY <4>2, <4>3
    <3> QED
      BY <3>1, <3>2
  <2>4. Reading(h, m, owned)
    BY <2>3 DEF Reading
  <2> QED
    BY <2>4
<1> QED
  BY <1>2, <1>3

LEMMA ReadingReads ==
    ASSUME IsList(world.procs), NEW owned, owned = Owned,
           NEW h, Reading(h, Len(world.procs), owned)
    PROVE  ReadUpTo(Len(world.procs), h[Len(world.procs)], owned)
<1> DEFINE N == Len(world.procs)
           bad == {k \in 0 .. N : ~ReadUpTo(k, h[k], owned)}
<1>1. N \in Nat /\ Pids = 1 .. N
  BY ListDomain DEF Pids
<1> SUFFICES ASSUME bad # {} PROVE FALSE
  BY <1>1
<1>2. PICK m \in bad : \A k \in bad : m <= k
  <2>1. bad \in SUBSET Nat
    BY <1>1
  <2> HIDE DEF bad
  <2> QED
    BY <2>1, SmallestNumber
<1>3. CASE m = 0
  <2>1. h[0] = <<>>
    BY <1>1 DEF Reading
  <2>2. ReadUpTo(0, <<>>, owned)
    BY EmptyList DEF ReadUpTo, Engines, OneEach, ServersUpTo
  <2> QED
    BY <1>3, <2>1, <2>2
<1>4. CASE m # 0
  <2>1. m - 1 \in 0 .. N /\ m - 1 \notin bad /\ m \in Pids /\ m \in Nat
    BY <1>1, <1>2, <1>4
  <2>2. ReadUpTo(m - 1, h[m - 1], owned)
    BY <2>1
  <2>3. h[m] = Scanned(h[m - 1], m, owned)
    BY <1>1, <1>4 DEF Reading
  <2>4. ReadUpTo(m, Scanned(h[m - 1], m, owned), owned)
    BY <1>4, <2>1, <2>2, ReadStep
  <2> QED
    BY <2>3, <2>4
<1> QED
  BY <1>3, <1>4

LEMMA ScanIs ==
    ASSUME IsList(world.procs)
    PROVE  \E s : /\ ReadUpTo(Len(world.procs), s, Owned)
                  /\ EnginesFromProcesses =
                       [i \in DOMAIN s |-> Holding(s[i], ExpandPidTree(s[i].pids))]
<1> DEFINE N == Len(world.procs)
           h == CHOOSE g : g = [k \in 0 .. N |-> IF k = 0 THEN <<>>
                                                 ELSE Scanned(g[k - 1], k, Owned)]
<1>1. N \in Nat
  BY ListDomain
<1>2. Reading(h, N, Owned)
  <2>1. \E g : Reading(g, N, Owned)
    BY <1>1, ReadingExists
  <2> QED
    BY <2>1 DEF Reading
<1>3. EnginesFromProcesses = [i \in DOMAIN h[N] |-> Holding(h[N][i], ExpandPidTree(h[N][i].pids))]
  BY DEF EnginesFromProcesses, Holding
<1> HIDE DEF h
<1>4. ReadUpTo(N, h[N], Owned)
  BY <1>2, ReadingReads
<1> QED
  BY <1>3, <1>4

(* No process is in two engines of a list.                                   *)
Apart(s) == \A i, j \in 1 .. Len(s) : i # j => s[i].pids \cap s[j].pids = {}

LEMMA MappedList ==
    ASSUME NEW s, IsList(s), NEW t, t = [i \in DOMAIN s |-> t[i]]
    PROVE  IsList(t) /\ Len(t) = Len(s)
BY ListDomain, ListOf

(* Where no server runs inside another's tree, no process is in two         *)
(* candidates: their trees could only meet at a server of one in the other. *)
LEMMA ScanKeepsApart ==
    ASSUME IsList(world.procs)
    PROVE  /\ Engines(EnginesFromProcesses)
           /\ OneEach(EnginesFromProcesses)
           /\ OneServerPerTree => Apart(EnginesFromProcesses)
<1> DEFINE N == Len(world.procs)
           t == EnginesFromProcesses
<1>1. PICK s : ReadUpTo(N, s, Owned) /\ t = [i \in DOMAIN s |-> Holding(s[i], ExpandPidTree(s[i].pids))]
  BY ScanIs
<1> HIDE DEF t
<1>2. IsList(s) /\ DOMAIN s = 1 .. Len(s) /\ Len(s) \in Nat
  BY <1>1, ListDomain DEF ReadUpTo, Engines
<1>3. IsList(t) /\ Len(t) = Len(s)
  BY <1>1, <1>2, MappedList
<1>4. Pids = 1 .. N
  BY ListDomain DEF Pids
<1>5. ASSUME NEW i \in 1 .. Len(s)
      PROVE  /\ IsEngine(t[i]) /\ t[i].pids = ExpandPidTree(s[i].pids)
             /\ t[i].engine_type = s[i].engine_type /\ t[i].endpoint = s[i].endpoint
  <2>1. IsEngine(s[i]) /\ IsRecord(s[i])
    BY <1>1 DEF ReadUpTo, Engines, IsEngine
  <2>2. t[i] = Holding(s[i], ExpandPidTree(s[i].pids))
    BY <1>1, <1>2
  <2>3. ExpandPidTree(s[i].pids) \subseteq Pids
    BY TreeIsOfPids
  <2>4. Sourced(t[i])
    BY <2>1, <2>2, HoldingIs, SameSource DEF IsEngine
  <2> QED
    BY <2>1, <2>2, <2>3, <2>4, HoldingIs DEF IsEngine
<1>6. Engines(t)
  BY <1>3, <1>5 DEF Engines
<1>7. OneEach(t)
  <2>1. OneEach(s)
    BY <1>1 DEF ReadUpTo
  <2> QED
    BY <1>3, <1>5, <2>1 DEF OneEach, Matches
<1>8. ASSUME OneServerPerTree, NEW i \in 1 .. Len(s), NEW j \in 1 .. Len(s), i # j
      PROVE  t[i].pids \cap t[j].pids = {}
  <2>1. ~Matches(s[i], s[j].engine_type, s[j].endpoint)
    BY <1>1, <1>8 DEF ReadUpTo, OneEach
  <2>2. ASSUME NEW k \in 1 .. Len(s), NEW p \in s[k].pids
        PROVE  p \in Pids /\ IsServer(p) /\ On(p, s[k])
    BY <1>1, <1>4 DEF ReadUpTo, ServersUpTo, IsServer
  <2>3. ASSUME NEW p \in s[i].pids, NEW q \in s[j].pids
        PROVE  p \notin ExpandPidTree({q}) /\ q \notin ExpandPidTree({p})
    <3>1. /\ p \in Pids /\ IsServer(p) /\ On(p, s[i])
          /\ q \in Pids /\ IsServer(q) /\ On(q, s[j])
      BY <2>2
    <3>2. ~OneCandidate(p, q) /\ ~OneCandidate(q, p)
      BY <2>1, <3>1 DEF OneCandidate, On, Matches
    <3> QED
      BY <1>8, <3>1, <3>2 DEF OneServerPerTree
  <2>4. s[i].pids \in SUBSET Pids /\ s[j].pids \in SUBSET Pids
    BY <2>2
  <2>5. ExpandPidTree(s[i].pids) \cap ExpandPidTree(s[j].pids) = {}
    BY <2>3, <2>4, TreesApart
  <2> QED
    BY <1>5, <2>5
<1> QED
  BY <1>3, <1>6, <1>7, <1>8 DEF Apart, t

-----------------------------------------------------------------------------
(* A container claims its processes.                                         *)

Kept(e, c) == Holding(e, e.pids \ c.pids)
Swallowed(e, c) == e.pids # {} /\ e.pids \subseteq c.pids
Naming(c, model) == [c EXCEPT !.model = model]

LEMMA NamingIs ==
    ASSUME NEW c, IsEngine(c), NEW model
    PROVE  /\ IsEngine(Naming(c, model)) /\ Naming(c, model).pids = c.pids
           /\ Naming(c, model).engine_type = c.engine_type
           /\ Naming(c, model).endpoint = c.endpoint
           /\ Naming(c, model).fallbacks = c.fallbacks
           /\ Naming(c, model).mode = c.mode
           /\ Naming(c, model).container = c.container
<1>1. Naming(c, model) =
        [engine_type |-> c.engine_type, endpoint |-> c.endpoint, fallbacks |-> c.fallbacks,
         mode |-> c.mode, model |-> model, pids |-> c.pids, container |-> c.container]
  BY DEF IsEngine, IsRecord, Naming
<1>2. /\ Naming(c, model).pids = c.pids
      /\ Naming(c, model).engine_type = c.engine_type
      /\ Naming(c, model).endpoint = c.endpoint
      /\ Naming(c, model).fallbacks = c.fallbacks
      /\ Naming(c, model).mode = c.mode
      /\ Naming(c, model).container = c.container
      /\ IsRecord(Naming(c, model))
  BY <1>1 DEF IsRecord
<1>3. Sourced(Naming(c, model))
  BY <1>2, SameSource DEF IsEngine
<1> QED
  BY <1>2, <1>3 DEF IsEngine

LEMMA KeptIs ==
    ASSUME NEW e, IsEngine(e), NEW c
    PROVE  /\ IsEngine(Kept(e, c)) /\ Kept(e, c).pids = e.pids \ c.pids
           /\ Kept(e, c).engine_type = e.engine_type
           /\ Kept(e, c).endpoint = e.endpoint
           /\ Kept(e, c).fallbacks = e.fallbacks
           /\ Kept(e, c).container = e.container
<1>1. IsRecord(e) /\ Sourced(e)
  BY DEF IsEngine
<1>2. Sourced(Kept(e, c))
  BY <1>1, HoldingIs, SameSource DEF Kept
<1> QED
  BY <1>1, <1>2, HoldingIs DEF Kept, IsEngine

LEMMA ClaimedIs ==
    ASSUME NEW cs, NEW c, IsEngine(c), NEW e
    PROVE  \/ /\ Swallowed(e, c)
              /\ \E model : Claimed([candidates |-> cs, container |-> c], e)
                              = [candidates |-> cs, container |-> Naming(c, model)]
           \/ /\ ~Swallowed(e, c)
              /\ Claimed([candidates |-> cs, container |-> c], e)
                    = [candidates |-> Append(cs, Kept(e, c)), container |-> c]
<1>1. CASE Swallowed(e, c)
  <2> DEFINE model == IF c.model = None /\ e.engine_type = c.engine_type THEN e.model ELSE c.model
  <2>1. Claimed([candidates |-> cs, container |-> c], e)
          = [candidates |-> cs, container |-> Naming(c, model)]
    BY <1>1 DEF Claimed, Swallowed, Naming, IsEngine, IsRecord
  <2> QED
    BY <1>1, <2>1
<1>2. CASE ~Swallowed(e, c)
  BY <1>2 DEF Claimed, Swallowed, Kept, Holding
<1> QED
  BY <1>1, <1>2

(* The same engine, but for the model it names.                              *)
SameButModel(d, c) ==
    /\ IsEngine(d)
    /\ d.engine_type = c.engine_type /\ d.endpoint = c.endpoint
    /\ d.fallbacks = c.fallbacks /\ d.mode = c.mode
    /\ d.pids = c.pids /\ d.container = c.container

(* What is kept comes from engines the container does not swallow, each     *)
(* from one of its own.                                                      *)
Stays(e, k, engines, c) == e = Kept(engines[k], c) /\ ~Swallowed(engines[k], c)
AbsorbedUpTo(n, cs, d, engines, c) ==
    /\ SameButModel(d, c)
    /\ Engines(cs)
    /\ \A i \in 1 .. Len(cs) : \E k \in 1 .. n : Stays(cs[i], k, engines, c)
    /\ \A i, j \in 1 .. Len(cs) :
          i # j => \E k, l \in 1 .. n :
                      k # l /\ Stays(cs[i], k, engines, c) /\ Stays(cs[j], l, engines, c)
    /\ Apart(engines) => Apart(cs)
    /\ \A k \in 1 .. n : ~Swallowed(engines[k], c) => \E i \in 1 .. Len(cs) : cs[i] = Kept(engines[k], c)

LEMMA AbsorbSwallows ==
    ASSUME NEW engines, Engines(engines), NEW c, NEW n \in 1 .. Len(engines), NEW cs, NEW d,
           AbsorbedUpTo(n - 1, cs, d, engines, c), Swallowed(engines[n], c), NEW model
    PROVE  AbsorbedUpTo(n, cs, Naming(d, model), engines, c)
<1>1. SameButModel(Naming(d, model), c)
  BY NamingIs DEF AbsorbedUpTo, SameButModel
<1>2. Len(engines) \in Nat
  BY ListDomain DEF Engines
<1>3. 1 .. n = (1 .. (n - 1)) \cup {n}
  BY <1>2
<1> QED
  BY <1>1, <1>3 DEF AbsorbedUpTo

LEMMA AbsorbKeeps ==
    ASSUME NEW engines, Engines(engines), NEW c, NEW n \in 1 .. Len(engines), NEW cs, NEW d,
           AbsorbedUpTo(n - 1, cs, d, engines, c), ~Swallowed(engines[n], c)
    PROVE  AbsorbedUpTo(n, Append(cs, Kept(engines[n], c)), d, engines, c)
<1> DEFINE e == Kept(engines[n], c)
           t == Append(cs, e)
<1>1. IsList(cs) /\ Len(cs) \in Nat /\ Len(engines) \in Nat
  BY ListDomain DEF AbsorbedUpTo, Engines
<1>2. 1 .. n = (1 .. (n - 1)) \cup {n} /\ n \notin 1 .. (n - 1) /\ 1 .. n \subseteq 1 .. Len(engines)
  BY <1>1
<1>3. /\ IsList(t) /\ Len(t) = Len(cs) + 1
      /\ \A i \in 1 .. Len(cs) : t[i] = cs[i]
      /\ t[Len(cs) + 1] = e
  BY <1>1, Appended
<1>4. 1 .. Len(t) = (1 .. Len(cs)) \cup {Len(cs) + 1} /\ Len(cs) + 1 \notin 1 .. Len(cs)
  BY <1>1, <1>3
<1>5. \A k \in 1 .. Len(engines) :
        IsEngine(Kept(engines[k], c)) /\ Kept(engines[k], c).pids = engines[k].pids \ c.pids
  BY KeptIs DEF Engines
<1> HIDE DEF t
<1>6. Engines(t)
  BY <1>2, <1>3, <1>4, <1>5 DEF AbsorbedUpTo, Engines
<1>0. Stays(e, n, engines, c)
  BY DEF Stays
<1>7. \A i \in 1 .. Len(t) : \E k \in 1 .. n : Stays(t[i], k, engines, c)
  BY <1>0, <1>2, <1>3, <1>4 DEF AbsorbedUpTo
<1>11. \A i, j \in 1 .. Len(t) :
          i # j => \E k, l \in 1 .. n :
                      k # l /\ Stays(t[i], k, engines, c) /\ Stays(t[j], l, engines, c)
  <2>1. ASSUME NEW i \in 1 .. Len(cs)
        PROVE  \E k \in 1 .. n : k # n /\ Stays(t[i], k, engines, c)
    <3>1. PICK k \in 1 .. (n - 1) : Stays(cs[i], k, engines, c)
      BY DEF AbsorbedUpTo
    <3> QED
      BY <1>2, <1>3, <3>1
  <2>2. ASSUME NEW i \in 1 .. Len(cs), NEW j \in 1 .. Len(cs), i # j
        PROVE  \E k, l \in 1 .. n :
                  k # l /\ Stays(t[i], k, engines, c) /\ Stays(t[j], l, engines, c)
    <3>1. PICK k, l \in 1 .. (n - 1) :
                  k # l /\ Stays(cs[i], k, engines, c) /\ Stays(cs[j], l, engines, c)
      BY <2>2 DEF AbsorbedUpTo
    <3> QED
      BY <1>2, <1>3, <3>1
  <2>3. Stays(t[Len(cs) + 1], n, engines, c) /\ n \in 1 .. n
    BY <1>0, <1>2, <1>3
  <2> HIDE DEF e
  <2> QED
    BY <1>4, <2>1, <2>2, <2>3
<1>8. ASSUME Apart(engines) PROVE Apart(t)
  <2>1. ASSUME NEW i \in 1 .. Len(cs) PROVE t[i].pids \cap e.pids = {}
    <3>1. PICK k \in 1 .. (n - 1) : cs[i] = Kept(engines[k], c)
      BY DEF AbsorbedUpTo, Stays
    <3>2. k # n /\ k \in 1 .. Len(engines)
      BY <1>2, <3>1
    <3>3. engines[k].pids \cap engines[n].pids = {}
      BY <1>8, <3>2 DEF Apart
    <3> QED
      BY <1>3, <1>5, <3>1, <3>2, <3>3
  <2>2. Apart(cs)
    BY <1>8 DEF AbsorbedUpTo
  <2> HIDE DEF e
  <2> QED
    BY <1>3, <1>4, <2>1, <2>2 DEF Apart
<1>9. ASSUME NEW k \in 1 .. n, ~Swallowed(engines[k], c)
      PROVE  \E i \in 1 .. Len(t) : t[i] = Kept(engines[k], c)
  <2>1. CASE k = n
    BY <1>3, <1>4, <2>1
  <2>2. CASE k # n
    <3>1. PICK i \in 1 .. Len(cs) : cs[i] = Kept(engines[k], c)
      BY <1>2, <1>9, <2>2 DEF AbsorbedUpTo
    <3> QED
      BY <1>3, <1>4, <3>1
  <2> QED
    BY <2>1, <2>2
<1>10. SameButModel(d, c)
  BY DEF AbsorbedUpTo
<1> QED
  <2>1. AbsorbedUpTo(n, t, d, engines, c)
    BY <1>6, <1>7, <1>8, <1>9, <1>10, <1>11 DEF AbsorbedUpTo
  <2> QED
    BY <2>1 DEF t

LEMMA AbsorbStep ==
    ASSUME NEW engines, Engines(engines), NEW c, NEW n \in 1 .. Len(engines), NEW cs, NEW d,
           AbsorbedUpTo(n - 1, cs, d, engines, c)
    PROVE  \E ds, f : /\ Claimed([candidates |-> cs, container |-> d], engines[n])
                           = [candidates |-> ds, container |-> f]
                     /\ AbsorbedUpTo(n, ds, f, engines, c)
<1>1. IsEngine(d) /\ d.pids = c.pids
  BY DEF AbsorbedUpTo, SameButModel
<1>2. Swallowed(engines[n], d) = Swallowed(engines[n], c) /\ Kept(engines[n], d) = Kept(engines[n], c)
  BY <1>1 DEF Swallowed, Kept
<1>3. CASE Swallowed(engines[n], c)
  <2>1. PICK model : Claimed([candidates |-> cs, container |-> d], engines[n])
                       = [candidates |-> cs, container |-> Naming(d, model)]
    BY <1>1, <1>2, <1>3, ClaimedIs
  <2>2. AbsorbedUpTo(n, cs, Naming(d, model), engines, c)
    BY <1>3, AbsorbSwallows
  <2> QED
    BY <2>1, <2>2
<1>4. CASE ~Swallowed(engines[n], c)
  <2>1. Claimed([candidates |-> cs, container |-> d], engines[n])
          = [candidates |-> Append(cs, Kept(engines[n], c)), container |-> d]
    BY <1>1, <1>2, <1>4, ClaimedIs
  <2>2. AbsorbedUpTo(n, Append(cs, Kept(engines[n], c)), d, engines, c)
    BY <1>4, AbsorbKeeps
  <2> QED
    BY <2>1, <2>2
<1> QED
  BY <1>3, <1>4

Claiming(h, n, engines, c) ==
    h = [k \in 0 .. n |-> IF k = 0 THEN [candidates |-> <<>>, container |-> c]
                         ELSE Claimed(h[k - 1], engines[k])]

LEMMA ClaimingExists ==
    ASSUME NEW n \in Nat, NEW engines, NEW c
    PROVE  \E h : Claiming(h, n, engines, c)
<1> DEFINE bad == {k \in Nat : ~\E h : Claiming(h, k, engines, c)}
<1> SUFFICES ASSUME bad # {} PROVE FALSE
  OBVIOUS
<1>1. PICK m \in bad : \A k \in bad : m <= k
  BY SmallestNumber
<1>2. CASE m = 0
  <2> DEFINE h == [k \in 0 .. 0 |-> [candidates |-> <<>>, container |-> c]]
  <2>1. Claiming(h, 0, engines, c)
    BY DEF Claiming
  <2> QED
    BY <1>2, <2>1
<1>3. CASE m # 0
  <2>1. m - 1 \in Nat /\ m - 1 \notin bad
    BY <1>1, <1>3
  <2>2. PICK g : Claiming(g, m - 1, engines, c)
    BY <2>1
  <2> DEFINE h == [k \in 0 .. m |-> IF k = m THEN Claimed(g[m - 1], engines[m]) ELSE g[k]]
  <2>3. ASSUME NEW k \in 0 .. m
        PROVE  h[k] = IF k = 0 THEN [candidates |-> <<>>, container |-> c]
                      ELSE Claimed(h[k - 1], engines[k])
    <3>1. CASE k = m
      BY <1>3, <3>1
    <3>2. CASE k # m
      <4>1. k \in 0 .. (m - 1)
        BY <3>2
      <4>2. g[k] = IF k = 0 THEN [candidates |-> <<>>, container |-> c]
                   ELSE Claimed(g[k - 1], engines[k])
        BY <2>2, <4>1 DEF Claiming
      <4>3. h[k] = g[k] /\ (k # 0 => h[k - 1] = g[k - 1])
        BY <3>2, <4>1
      <4> QED
        BY <4>2, <4>3
    <3> QED
      BY <3>1, <3>2
  <2>4. Claiming(h, m, engines, c)
    BY <2>3 DEF Claiming
  <2> QED
    BY <2>4
<1> QED
  BY <1>2, <1>3

LEMMA AbsorbedIs ==
    ASSUME NEW engines, Engines(engines), NEW c, IsEngine(c)
    PROVE  \E cs, d : /\ Absorbed(engines, c) = [candidates |-> cs, container |-> d]
                      /\ AbsorbedUpTo(Len(engines), cs, d, engines, c)
<1> DEFINE N == Len(engines)
           h == CHOOSE g : g = [k \in 0 .. N |-> IF k = 0 THEN [candidates |-> <<>>, container |-> c]
                                                 ELSE Claimed(g[k - 1], engines[k])]
           Good(k) == \E cs, d : /\ h[k] = [candidates |-> cs, container |-> d]
                                 /\ AbsorbedUpTo(k, cs, d, engines, c)
           bad == {k \in 0 .. N : ~Good(k)}
<1>1. N \in Nat
  BY ListDomain DEF Engines
<1>2. Claiming(h, N, engines, c)
  <2>1. \E g : Claiming(g, N, engines, c)
    BY <1>1, ClaimingExists
  <2> QED
    BY <2>1 DEF Claiming
<1>3. Absorbed(engines, c) = h[N]
  BY DEF Absorbed
<1> HIDE DEF h, Good
<1>4. ASSUME bad # {} PROVE FALSE
  <2>1. PICK m \in bad : \A k \in bad : m <= k
    <3>1. bad \in SUBSET Nat
      BY <1>1
    <3> HIDE DEF bad
    <3> QED
      BY <1>4, <3>1, SmallestNumber
  <2>2. CASE m = 0
    <3>1. h[0] = [candidates |-> <<>>, container |-> c]
      BY <1>1, <1>2 DEF Claiming
    <3>2. AbsorbedUpTo(0, <<>>, c, engines, c)
      BY EmptyList DEF AbsorbedUpTo, SameButModel, Engines, Apart
    <3>3. Good(0)
      BY <3>1, <3>2 DEF Good
    <3> QED
      BY <2>1, <2>2, <3>3
  <2>3. CASE m # 0
    <3>1. m - 1 \in 0 .. N /\ m - 1 \notin bad /\ m \in 1 .. N
      BY <1>1, <2>1, <2>3
    <3>2. PICK cs, d : /\ h[m - 1] = [candidates |-> cs, container |-> d]
                       /\ AbsorbedUpTo(m - 1, cs, d, engines, c)
      BY <3>1 DEF Good
    <3>3. h[m] = Claimed(h[m - 1], engines[m])
      BY <1>2, <3>1 DEF Claiming
    <3>4. Good(m)
      <4>1. PICK ds, f : /\ Claimed([candidates |-> cs, container |-> d], engines[m])
                              = [candidates |-> ds, container |-> f]
                        /\ AbsorbedUpTo(m, ds, f, engines, c)
        BY <3>1, <3>2, AbsorbStep
      <4>2. h[m] = [candidates |-> ds, container |-> f]
        BY <3>2, <3>3, <4>1
      <4> QED
        BY <4>1, <4>2 DEF Good
    <3> QED
      BY <2>1, <3>4
  <2> QED
    BY <2>2, <2>3
<1>5. Good(N)
  BY <1>1, <1>4
<1> QED
  BY <1>3, <1>5 DEF Good

-----------------------------------------------------------------------------
(* A candidate joins.                                                        *)

FallbacksUpTo(n, f, e, c) ==
    /\ IsList(f)
    /\ Len(e.fallbacks) <= Len(f) /\ \A i \in 1 .. Len(e.fallbacks) : f[i] = e.fallbacks[i]
    /\ \A i \in 1 .. Len(f) : \/ \E j \in 1 .. Len(e.fallbacks) : f[i] = e.fallbacks[j]
                             \/ \E j \in 1 .. n : f[i] = c.fallbacks[j]

LEMMA FallbackStep ==
    ASSUME NEW e, NEW c, NEW n \in Nat, n # 0, NEW f, FallbacksUpTo(n - 1, f, e, c), NEW g,
           g = f \/ g = Append(f, c.fallbacks[n])
    PROVE  FallbacksUpTo(n, g, e, c)
<1>1. 1 .. n = (1 .. (n - 1)) \cup {n}
  OBVIOUS
<1>2. FallbacksUpTo(n, f, e, c)
  BY <1>1 DEF FallbacksUpTo
<1>3. CASE g = Append(f, c.fallbacks[n])
  <2>1. IsList(f) /\ Len(f) \in Nat
    BY ListDomain DEF FallbacksUpTo
  <2>2. /\ IsList(g) /\ Len(g) = Len(f) + 1
        /\ \A i \in 1 .. Len(f) : g[i] = f[i]
        /\ g[Len(f) + 1] = c.fallbacks[n]
    BY <1>3, <2>1, Appended
  <2>3. 1 .. Len(g) = (1 .. Len(f)) \cup {Len(f) + 1}
    BY <2>1, <2>2
  <2>4. ASSUME NEW i \in 1 .. Len(g)
        PROVE  \/ \E j \in 1 .. Len(e.fallbacks) : g[i] = e.fallbacks[j]
               \/ \E j \in 1 .. n : g[i] = c.fallbacks[j]
    <3>1. CASE i \in 1 .. Len(f)
      BY <1>2, <2>2, <3>1 DEF FallbacksUpTo
    <3>2. CASE i = Len(f) + 1
      BY <1>1, <2>2, <3>2
    <3> QED
      BY <2>3, <3>1, <3>2
  <2> QED
    BY <2>2, <2>4 DEF FallbacksUpTo
<1> QED
  BY <1>2, <1>3

OneFallback(f, e, c, n) ==
    IF c.fallbacks[n] = e.endpoint \/ Contains(f, c.fallbacks[n]) THEN f
    ELSE Append(f, c.fallbacks[n])
Adding(h, n, e, c) ==
    h = [k \in 0 .. n |-> IF k = 0 THEN e.fallbacks ELSE OneFallback(h[k - 1], e, c, k)]

LEMMA AddingExists ==
    ASSUME NEW n \in Nat, NEW e, NEW c
    PROVE  \E h : Adding(h, n, e, c)
<1> DEFINE bad == {k \in Nat : ~\E h : Adding(h, k, e, c)}
<1> SUFFICES ASSUME bad # {} PROVE FALSE
  OBVIOUS
<1>1. PICK m \in bad : \A k \in bad : m <= k
  BY SmallestNumber
<1>2. CASE m = 0
  <2> DEFINE h == [k \in 0 .. 0 |-> e.fallbacks]
  <2>1. Adding(h, 0, e, c)
    BY DEF Adding
  <2> QED
    BY <1>2, <2>1
<1>3. CASE m # 0
  <2>1. m - 1 \in Nat /\ m - 1 \notin bad
    BY <1>1, <1>3
  <2>2. PICK g : Adding(g, m - 1, e, c)
    BY <2>1
  <2> DEFINE h == [k \in 0 .. m |-> IF k = m THEN OneFallback(g[m - 1], e, c, m) ELSE g[k]]
  <2>3. ASSUME NEW k \in 0 .. m
        PROVE  h[k] = IF k = 0 THEN e.fallbacks ELSE OneFallback(h[k - 1], e, c, k)
    <3>1. CASE k = m
      BY <1>3, <3>1
    <3>2. CASE k # m
      <4>1. k \in 0 .. (m - 1)
        BY <3>2
      <4>2. g[k] = IF k = 0 THEN e.fallbacks ELSE OneFallback(g[k - 1], e, c, k)
        BY <2>2, <4>1 DEF Adding
      <4>3. h[k] = g[k] /\ (k # 0 => h[k - 1] = g[k - 1])
        BY <3>2, <4>1
      <4> QED
        BY <4>2, <4>3
    <3> QED
      BY <3>1, <3>2
  <2>4. Adding(h, m, e, c)
    BY <2>3 DEF Adding
  <2> QED
    BY <2>4
<1> QED
  BY <1>2, <1>3

LEMMA FallbacksAre ==
    ASSUME NEW e, IsList(e.fallbacks), NEW c, IsList(c.fallbacks)
    PROVE  FallbacksUpTo(Len(c.fallbacks), WithFallbacks(e, c), e, c)
<1> DEFINE N == Len(c.fallbacks)
           h == CHOOSE g : g = [k \in 0 .. N |-> IF k = 0 THEN e.fallbacks
                 ELSE IF c.fallbacks[k] = e.endpoint \/ Contains(g[k - 1], c.fallbacks[k])
                   THEN g[k - 1] ELSE Append(g[k - 1], c.fallbacks[k])]
           bad == {k \in 0 .. N : ~FallbacksUpTo(k, h[k], e, c)}
<1>1. N \in Nat
  BY ListDomain
<1>2. Adding(h, N, e, c)
  <2>1. \E g : Adding(g, N, e, c)
    BY <1>1, AddingExists
  <2> QED
    BY <2>1 DEF Adding, OneFallback
<1>3. WithFallbacks(e, c) = h[N]
  BY DEF WithFallbacks
<1> HIDE DEF h
<1>4. ASSUME bad # {} PROVE FALSE
  <2>1. PICK m \in bad : \A k \in bad : m <= k
    <3>1. bad \in SUBSET Nat
      BY <1>1
    <3> HIDE DEF bad
    <3> QED
      BY <1>4, <3>1, SmallestNumber
  <2>2. CASE m = 0
    <3>1. h[0] = e.fallbacks
      BY <1>1, <1>2 DEF Adding
    <3>2. FallbacksUpTo(0, h[0], e, c)
      BY <3>1 DEF FallbacksUpTo
    <3> QED
      BY <2>1, <2>2, <3>2
  <2>3. CASE m # 0
    <3>1. m - 1 \in 0 .. N /\ m - 1 \notin bad /\ m \in 0 .. N /\ m \in Nat
      BY <1>1, <2>1, <2>3
    <3>2. FallbacksUpTo(m - 1, h[m - 1], e, c)
      BY <3>1
    <3>3. h[m] = OneFallback(h[m - 1], e, c, m)
      BY <1>2, <2>3, <3>1 DEF Adding
    <3>4. h[m] = h[m - 1] \/ h[m] = Append(h[m - 1], c.fallbacks[m])
      BY <3>3 DEF OneFallback
    <3>5. FallbacksUpTo(m, h[m], e, c)
      BY <2>3, <3>1, <3>2, <3>4, FallbackStep
    <3> QED
      BY <2>1, <3>5
  <2> QED
    BY <2>2, <2>3
<1> QED
  BY <1>1, <1>3, <1>4

LEMMA JoiningIs ==
    ASSUME NEW e, IsEngine(e), NEW c, IsEngine(c), e.engine_type = c.engine_type
    PROVE  /\ IsEngine(Joining(e, c))
           /\ Joining(e, c).engine_type = e.engine_type
           /\ Joining(e, c).endpoint = e.endpoint
           /\ Joining(e, c).pids = e.pids \cup c.pids
<1> DEFINE f == WithFallbacks(e, c)
           j == Joining(e, c)
<1>1. /\ IsRecord(j) /\ j.engine_type = e.engine_type /\ j.endpoint = e.endpoint
      /\ j.pids = e.pids \cup c.pids /\ j.fallbacks = f
      /\ j.container = IF e.container = None THEN c.container ELSE e.container
  BY DEF Joining, IsRecord
<1>2. (j.mode = "Docker") <=> (j.container # None)
  BY DEF Joining, IsEngine
<1>3. FallbacksUpTo(Len(c.fallbacks), f, e, c)
  BY FallbacksAre DEF IsEngine
<1> HIDE DEF f, j
<1>4. Addresses(j) \subseteq Addresses(e) \cup Addresses(c)
  BY <1>1, <1>3 DEF Addresses, FallbacksUpTo
<1>5. Sourced(j)
  <2>1. Sourced(e) /\ Sourced(c)
    BY DEF IsEngine
  <2>2. CASE e.container = None /\ c.container = None
    BY <1>1, <1>4, <2>1, <2>2 DEF Sourced
  <2>3. CASE e.container = None /\ c.container # None
    BY <1>1, <1>4, <2>1, <2>3 DEF Sourced
  <2>4. CASE e.container # None
    BY <1>1, <1>4, <2>1, <2>4 DEF Sourced
  <2> QED
    BY <2>2, <2>3, <2>4
<1>6. IsEngine(j)
  BY <1>1, <1>2, <1>3, <1>5 DEF IsEngine, FallbacksUpTo
<1> QED
  BY <1>1, <1>6 DEF j

(* No engine of the list has a process of P.                                 *)
Clear(s, P) == \A i \in 1 .. Len(s) : s[i].pids \cap P = {}
(* Every process of an engine of the list.                                   *)
Held(s) == UNION {s[i].pids : i \in 1 .. Len(s)}

LEMMA JoinedIs ==
    ASSUME NEW s, Engines(s), NEW c, IsEngine(c)
    PROVE  \/ /\ \A i \in 1 .. Len(s) : ~Matches(s[i], c.engine_type, c.endpoint)
              /\ Joined(s, c) = Append(s, c)
           \/ /\ IsList(Joined(s, c)) /\ Len(Joined(s, c)) = Len(s)
              /\ \E slot \in 1 .. Len(s) :
                    /\ Matches(s[slot], c.engine_type, c.endpoint)
                    /\ \A i \in 1 .. Len(s) :
                          Joined(s, c)[i] = IF i = slot THEN Joining(s[slot], c) ELSE s[i]
<1> DEFINE slot == Slot(s, c.engine_type, c.endpoint)
           t == Joined(s, c)
<1>1. IsList(s) /\ DOMAIN s = 1 .. Len(s) /\ Len(s) \in Nat
  BY ListDomain DEF Engines
<1>2. t = IF slot = 0 THEN Append(s, c) ELSE [s EXCEPT ![slot] = Joining(s[slot], c)]
  BY DEF Joined, Slot
<1>3. \/ slot = 0 /\ \A i \in 1 .. Len(s) : ~Matches(s[i], c.engine_type, c.endpoint)
      \/ slot \in 1 .. Len(s) /\ Matches(s[slot], c.engine_type, c.endpoint)
  BY <1>1, FirstMatch
<1> HIDE DEF slot, t
<1>4. CASE slot = 0
  <2>1. t = Append(s, c) /\ \A i \in 1 .. Len(s) : ~Matches(s[i], c.engine_type, c.endpoint)
    BY <1>1, <1>2, <1>3, <1>4
  <2> QED
    BY <2>1 DEF t
<1>5. CASE slot # 0
  <2>1. slot \in 1 .. Len(s)
    BY <1>3, <1>5
  <2>2. t = [i \in 1 .. Len(s) |-> IF i = slot THEN Joining(s[slot], c) ELSE s[i]]
    BY <1>1, <1>2, <1>5, <2>1
  <2>3. t = [i \in 1 .. Len(s) |-> t[i]]
    BY <2>2
  <2>4. IsList(t) /\ Len(t) = Len(s)
    BY <1>1, <2>3, ListOf
  <2>5. \A i \in 1 .. Len(s) : t[i] = IF i = slot THEN Joining(s[slot], c) ELSE s[i]
    BY <2>2
  <2> QED
    BY <1>3, <1>5, <2>1, <2>4, <2>5 DEF t
<1> QED
  BY <1>4, <1>5

(* A list that keeps its engines, but for one that takes the processes, or  *)
(* gets one more that has them.                                              *)
JoinedTo(t, s, c) ==
    /\ Engines(t)
    /\ OneEach(s) => OneEach(t)
    /\ Apart(s) /\ Clear(s, c.pids) => Apart(t)
    /\ \A P : Clear(s, P) /\ c.pids \cap P = {} => Clear(t, P)
    /\ Held(t) = Held(s) \cup c.pids
    /\ \A i \in 1 .. Len(t) : \/ Matches(t[i], c.engine_type, c.endpoint)
                              \/ \E j \in 1 .. Len(s) : Matches(t[i], s[j].engine_type, s[j].endpoint)

LEMMA AppendedJoins ==
    ASSUME NEW s, Engines(s), NEW c, IsEngine(c),
           \A i \in 1 .. Len(s) : ~Matches(s[i], c.engine_type, c.endpoint)
    PROVE  JoinedTo(Append(s, c), s, c)
<1> DEFINE t == Append(s, c)
<1>1. IsList(s) /\ Len(s) \in Nat
  BY ListDomain DEF Engines
<1>2. /\ IsList(t) /\ Len(t) = Len(s) + 1
      /\ \A i \in 1 .. Len(s) : t[i] = s[i]
      /\ t[Len(s) + 1] = c
  BY <1>1, Appended
<1>3. 1 .. Len(t) = (1 .. Len(s)) \cup {Len(s) + 1} /\ Len(s) + 1 \notin 1 .. Len(s)
  BY <1>1, <1>2
<1> HIDE DEF t
<1>4. Engines(t)
  BY <1>2, <1>3 DEF Engines
<1>5. OneEach(s) => OneEach(t)
  BY <1>2, <1>3 DEF OneEach, Matches
<1>6. Apart(s) /\ Clear(s, c.pids) => Apart(t)
  BY <1>2, <1>3 DEF Apart, Clear
<1>7. \A P : Clear(s, P) /\ c.pids \cap P = {} => Clear(t, P)
  BY <1>2, <1>3 DEF Clear
<1>8. Held(t) = Held(s) \cup c.pids
  BY <1>2, <1>3 DEF Held
<1>9. \A i \in 1 .. Len(t) : \/ Matches(t[i], c.engine_type, c.endpoint)
                             \/ \E j \in 1 .. Len(s) : Matches(t[i], s[j].engine_type, s[j].endpoint)
  BY <1>2, <1>3 DEF Matches
<1> QED
  BY <1>4, <1>5, <1>6, <1>7, <1>8, <1>9 DEF JoinedTo, t

LEMMA SlotJoins ==
    ASSUME NEW s, Engines(s), NEW c, IsEngine(c), NEW t, IsList(t), Len(t) = Len(s),
           NEW slot \in 1 .. Len(s), Matches(s[slot], c.engine_type, c.endpoint),
           \A i \in 1 .. Len(s) : t[i] = IF i = slot THEN Joining(s[slot], c) ELSE s[i]
    PROVE  JoinedTo(t, s, c)
<1>1. /\ IsEngine(Joining(s[slot], c))
      /\ Joining(s[slot], c).engine_type = s[slot].engine_type
      /\ Joining(s[slot], c).endpoint = s[slot].endpoint
      /\ Joining(s[slot], c).pids = s[slot].pids \cup c.pids
  BY JoiningIs DEF Engines, Matches
<1>2. Engines(t)
  BY <1>1 DEF Engines
<1>3. \A i \in 1 .. Len(s) : /\ t[i].engine_type = s[i].engine_type /\ t[i].endpoint = s[i].endpoint
                             /\ t[i].pids = IF i = slot THEN s[i].pids \cup c.pids ELSE s[i].pids
  BY <1>1
<1>4. OneEach(s) => OneEach(t)
  <2>1. \A i \in 1 .. Len(s) : t[i].engine_type = s[i].engine_type /\ t[i].endpoint = s[i].endpoint
    BY <1>1
  <2> HIDE <1>3
  <2> QED
    BY <2>1, SMTT(30) DEF OneEach, Matches
<1>5. \A i \in 1 .. Len(s) : \A x : x \in t[i].pids <=> x \in s[i].pids \/ (i = slot /\ x \in c.pids)
  BY <1>3
<1>6. ASSUME Apart(s), Clear(s, c.pids) PROVE Apart(t)
  <2>1. ASSUME NEW i \in 1 .. Len(s), NEW j \in 1 .. Len(s), i # j,
               NEW x, x \in t[i].pids, x \in t[j].pids
        PROVE  FALSE
    <3>1. s[i].pids \cap s[j].pids = {} /\ s[i].pids \cap c.pids = {} /\ s[j].pids \cap c.pids = {}
      BY <1>6, <2>1 DEF Apart, Clear
    <3> QED
      BY <1>5, <2>1, <3>1
  <2>2. \A i, j \in 1 .. Len(t) : i # j => t[i].pids \cap t[j].pids = {}
    BY <2>1
  <2> QED
    BY <2>2 DEF Apart
<1>7. ASSUME NEW P, Clear(s, P), c.pids \cap P = {} PROVE Clear(t, P)
  <2>1. ASSUME NEW i \in 1 .. Len(s), NEW x \in t[i].pids PROVE x \notin P
    BY <1>5, <1>7, <2>1 DEF Clear
  <2> QED
    BY <2>1 DEF Clear
<1>8. \A x : x \in Held(t) <=> x \in Held(s) \/ x \in c.pids
  <2>1. \A x : x \in Held(t) <=> \E i \in 1 .. Len(s) : x \in t[i].pids
    BY DEF Held
  <2>2. \A x : x \in Held(s) <=> \E i \in 1 .. Len(s) : x \in s[i].pids
    BY DEF Held
  <2> QED
    BY <1>5, <2>1, <2>2
<1>9. Held(t) = Held(s) \cup c.pids
  BY <1>8
<1>10. \A i \in 1 .. Len(t) : \E j \in 1 .. Len(s) : Matches(t[i], s[j].engine_type, s[j].endpoint)
  BY <1>3 DEF Matches
<1> QED
  BY <1>2, <1>4, <1>6, <1>7, <1>9, <1>10 DEF JoinedTo

LEMMA JoinedJoins ==
    ASSUME NEW s, Engines(s), NEW c, IsEngine(c)
    PROVE  JoinedTo(Joined(s, c), s, c)
<1>1. CASE /\ \A i \in 1 .. Len(s) : ~Matches(s[i], c.engine_type, c.endpoint)
           /\ Joined(s, c) = Append(s, c)
  BY <1>1, AppendedJoins
<1>2. CASE /\ IsList(Joined(s, c)) /\ Len(Joined(s, c)) = Len(s)
           /\ \E slot \in 1 .. Len(s) :
                    /\ Matches(s[slot], c.engine_type, c.endpoint)
                    /\ \A i \in 1 .. Len(s) :
                          Joined(s, c)[i] = IF i = slot THEN Joining(s[slot], c) ELSE s[i]
  BY <1>2, SlotJoins
<1> QED
  BY <1>1, <1>2, JoinedIs

-----------------------------------------------------------------------------
(* The merge: every container claims, then every container joins.           *)

LEMMA HeldIs == ASSUME NEW s, NEW x PROVE x \in Held(s) <=> \E i \in 1 .. Len(s) : x \in s[i].pids
BY DEF Held

LEMMA AbsorbedKeeps ==
    ASSUME NEW engines, Engines(engines), NEW c, IsEngine(c)
    PROVE  \E cs, d : /\ Absorbed(engines, c) = [candidates |-> cs, container |-> d]
                      /\ SameButModel(d, c) /\ Engines(cs)
                      /\ Apart(engines) => Apart(cs)
                      /\ Clear(cs, c.pids)
                      /\ \A P : Clear(engines, P) => Clear(cs, P)
                      /\ Held(cs) \cup c.pids = Held(engines) \cup c.pids
<1> DEFINE N == Len(engines)
<1>1. PICK cs, d : /\ Absorbed(engines, c) = [candidates |-> cs, container |-> d]
                   /\ AbsorbedUpTo(N, cs, d, engines, c)
  BY AbsorbedIs
<1>2. \A k \in 1 .. N : Kept(engines[k], c).pids = engines[k].pids \ c.pids
  BY KeptIs DEF Engines
<1>3. \A i \in 1 .. Len(cs) : \E k \in 1 .. N : cs[i].pids = engines[k].pids \ c.pids
  <2>1. \A i \in 1 .. Len(cs) : \E k \in 1 .. N : Stays(cs[i], k, engines, c)
    BY <1>1 DEF AbsorbedUpTo
  <2>2. \A e, k : Stays(e, k, engines, c) => e = Kept(engines[k], c)
    BY DEF Stays
  <2> HIDE DEF N
  <2> QED
    BY <1>2, <2>1, <2>2
<1>4. Clear(cs, c.pids)
  BY <1>3 DEF Clear
<1>5. ASSUME NEW P, Clear(engines, P) PROVE Clear(cs, P)
  BY <1>3, <1>5 DEF Clear
<1>6. ASSUME NEW x, x \in Held(cs) PROVE x \in Held(engines)
  <2>1. PICK i \in 1 .. Len(cs) : x \in cs[i].pids
    BY <1>6, HeldIs
  <2>2. PICK k \in 1 .. N : cs[i].pids = engines[k].pids \ c.pids
    BY <1>3
  <2> QED
    BY <2>1, <2>2, HeldIs
<1>7. ASSUME NEW x, x \in Held(engines), x \notin c.pids PROVE x \in Held(cs)
  <2>1. PICK k \in 1 .. N : x \in engines[k].pids
    BY <1>7, HeldIs
  <2>2. ~Swallowed(engines[k], c)
    BY <1>7, <2>1 DEF Swallowed
  <2>3. PICK i \in 1 .. Len(cs) : cs[i] = Kept(engines[k], c)
    BY <1>1, <2>2 DEF AbsorbedUpTo
  <2>4. x \in cs[i].pids
    BY <1>2, <1>7, <2>1, <2>3
  <2> QED
    BY <2>4, HeldIs
<1>8. Held(cs) \cup c.pids = Held(engines) \cup c.pids
  BY <1>6, <1>7
<1> QED
  BY <1>1, <1>4, <1>5, <1>8 DEF AbsorbedUpTo

(* The first loop, with the containers of the first k done.                 *)
ClaimStep(acc, c) ==
    LET a == Absorbed(acc.candidates, c)
    IN  [candidates |-> a.candidates, found |-> Append(acc.found, a.container)]
ClaimingAll(h, n, engines, found) ==
    h = [k \in 0 .. n |-> IF k = 0 THEN [candidates |-> engines, found |-> <<>>]
                         ELSE ClaimStep(h[k - 1], found[k])]
HeldUpTo(k, s) == UNION {s[i].pids : i \in 1 .. k}
ClaimedUpTo(k, cs, fs, engines, found) ==
    /\ Engines(cs) /\ Engines(fs) /\ Len(fs) = k
    /\ Apart(engines) => Apart(cs)
    /\ \A i \in 1 .. k : fs[i].pids = found[i].pids /\ Clear(cs, found[i].pids)
    /\ Held(cs) \cup HeldUpTo(k, found) = Held(engines) \cup HeldUpTo(k, found)

LEMMA OneMoreHeld ==
    ASSUME NEW s, NEW k \in Nat, k # 0
    PROVE  HeldUpTo(k, s) = HeldUpTo(k - 1, s) \cup s[k].pids
<1>1. 1 .. k = (1 .. (k - 1)) \cup {k}
  OBVIOUS
<1>2. \A x, n : x \in HeldUpTo(n, s) <=> \E i \in 1 .. n : x \in s[i].pids
  BY DEF HeldUpTo
<1>3. \A x : x \in HeldUpTo(k, s) <=> x \in HeldUpTo(k - 1, s) \/ x \in s[k].pids
  BY <1>1, <1>2
<1> QED
  BY <1>3

LEMMA ClaimAllStep ==
    ASSUME NEW engines, NEW found, Engines(found), NEW k \in 1 .. Len(found), NEW cs, NEW fs,
           ClaimedUpTo(k - 1, cs, fs, engines, found)
    PROVE  \E ds, gs : /\ ClaimStep([candidates |-> cs, found |-> fs], found[k])
                           = [candidates |-> ds, found |-> gs]
                      /\ ClaimedUpTo(k, ds, gs, engines, found)
<1> DEFINE c == found[k]
<1>0. c = found[k]
  OBVIOUS
<1>1. Engines(cs) /\ IsEngine(c) /\ Len(found) \in Nat /\ k \in Nat /\ k # 0
  BY ListDomain DEF ClaimedUpTo, Engines
<1> HIDE DEF c
<1>2. PICK ds, d : /\ Absorbed(cs, c) = [candidates |-> ds, container |-> d]
                   /\ SameButModel(d, c) /\ Engines(ds)
                   /\ Apart(cs) => Apart(ds)
                   /\ Clear(ds, c.pids)
                   /\ \A P : Clear(cs, P) => Clear(ds, P)
                   /\ Held(ds) \cup c.pids = Held(cs) \cup c.pids
  BY <1>1, AbsorbedKeeps
<1> DEFINE gs == Append(fs, d)
<1>3. ClaimStep([candidates |-> cs, found |-> fs], c) = [candidates |-> ds, found |-> gs]
  BY <1>2 DEF ClaimStep
<1>4. IsList(fs) /\ Len(fs) = k - 1
  BY DEF ClaimedUpTo, Engines
<1>5. /\ IsList(gs) /\ Len(gs) = k
      /\ \A i \in 1 .. (k - 1) : gs[i] = fs[i]
      /\ gs[k] = d
  BY <1>1, <1>4, Appended
<1>6. 1 .. k = (1 .. (k - 1)) \cup {k}
  BY <1>1
<1> HIDE DEF gs
<1>7. Engines(gs)
  BY <1>2, <1>4, <1>5, <1>6 DEF ClaimedUpTo, Engines, SameButModel
<1>8. ASSUME NEW i \in 1 .. k PROVE gs[i].pids = found[i].pids /\ Clear(ds, found[i].pids)
  <2>1. CASE i = k
    BY <1>0, <1>2, <1>5, <2>1 DEF SameButModel
  <2>2. CASE i \in 1 .. (k - 1)
    BY <1>2, <1>5, <2>2 DEF ClaimedUpTo
  <2> QED
    BY <1>6, <2>1, <2>2
<1>9. Held(ds) \cup HeldUpTo(k, found) = Held(engines) \cup HeldUpTo(k, found)
  <2>1. HeldUpTo(k, found) = HeldUpTo(k - 1, found) \cup c.pids
    BY <1>0, <1>1, OneMoreHeld
  <2>2. Held(cs) \cup HeldUpTo(k - 1, found) = Held(engines) \cup HeldUpTo(k - 1, found)
    BY DEF ClaimedUpTo
  <2> QED
    BY <1>2, <2>1, <2>2
<1>10. Apart(engines) => Apart(ds)
  BY <1>2 DEF ClaimedUpTo
<1>11. ClaimedUpTo(k, ds, gs, engines, found)
  BY <1>2, <1>5, <1>7, <1>8, <1>9, <1>10 DEF ClaimedUpTo
<1> QED
  BY <1>0, <1>3, <1>11

LEMMA ClaimingAllExists ==
    ASSUME NEW n \in Nat, NEW engines, NEW found
    PROVE  \E h : ClaimingAll(h, n, engines, found)
<1> DEFINE bad == {k \in Nat : ~\E h : ClaimingAll(h, k, engines, found)}
<1> SUFFICES ASSUME bad # {} PROVE FALSE
  OBVIOUS
<1>1. PICK m \in bad : \A k \in bad : m <= k
  BY SmallestNumber
<1>2. CASE m = 0
  <2> DEFINE h == [k \in 0 .. 0 |-> [candidates |-> engines, found |-> <<>>]]
  <2>1. ClaimingAll(h, 0, engines, found)
    BY DEF ClaimingAll
  <2> QED
    BY <1>2, <2>1
<1>3. CASE m # 0
  <2>1. m - 1 \in Nat /\ m - 1 \notin bad
    BY <1>1, <1>3
  <2>2. PICK g : ClaimingAll(g, m - 1, engines, found)
    BY <2>1
  <2> DEFINE h == [k \in 0 .. m |-> IF k = m THEN ClaimStep(g[m - 1], found[m]) ELSE g[k]]
  <2>3. ASSUME NEW k \in 0 .. m
        PROVE  h[k] = IF k = 0 THEN [candidates |-> engines, found |-> <<>>]
                      ELSE ClaimStep(h[k - 1], found[k])
    <3>1. CASE k = m
      BY <1>3, <3>1
    <3>2. CASE k # m
      <4>1. k \in 0 .. (m - 1)
        BY <3>2
      <4>2. g[k] = IF k = 0 THEN [candidates |-> engines, found |-> <<>>]
                   ELSE ClaimStep(g[k - 1], found[k])
        BY <2>2, <4>1 DEF ClaimingAll
      <4>3. h[k] = g[k] /\ (k # 0 => h[k - 1] = g[k - 1])
        BY <3>2, <4>1
      <4> QED
        BY <4>2, <4>3
    <3> QED
      BY <3>1, <3>2
  <2>4. ClaimingAll(h, m, engines, found)
    BY <2>3 DEF ClaimingAll
  <2> QED
    BY <2>4
<1> QED
  BY <1>2, <1>3

LEMMA ClaimingAllClaims ==
    ASSUME NEW engines, Engines(engines), NEW found, Engines(found), NEW h,
           ClaimingAll(h, Len(found), engines, found)
    PROVE  \E cs, fs : /\ h[Len(found)] = [candidates |-> cs, found |-> fs]
                       /\ ClaimedUpTo(Len(found), cs, fs, engines, found)
<1> DEFINE N == Len(found)
           Good(k) == \E cs, fs : /\ h[k] = [candidates |-> cs, found |-> fs]
                                  /\ ClaimedUpTo(k, cs, fs, engines, found)
           bad == {k \in 0 .. N : ~Good(k)}
<1>1. N \in Nat
  BY ListDomain DEF Engines
<1> HIDE DEF Good
<1>2. ASSUME bad # {} PROVE FALSE
  <2>1. PICK m \in bad : \A k \in bad : m <= k
    <3>1. bad \in SUBSET Nat
      BY <1>1
    <3> HIDE DEF bad
    <3> QED
      BY <1>2, <3>1, SmallestNumber
  <2>2. CASE m = 0
    <3>1. h[0] = [candidates |-> engines, found |-> <<>>]
      BY <1>1 DEF ClaimingAll
    <3>2. ClaimedUpTo(0, engines, <<>>, engines, found)
      BY EmptyList DEF ClaimedUpTo, Engines
    <3>3. Good(0)
      BY <3>1, <3>2 DEF Good
    <3> QED
      BY <2>1, <2>2, <3>3
  <2>3. CASE m # 0
    <3>1. m - 1 \in 0 .. N /\ m - 1 \notin bad /\ m \in 1 .. N
      BY <1>1, <2>1, <2>3
    <3>2. PICK cs, fs : /\ h[m - 1] = [candidates |-> cs, found |-> fs]
                        /\ ClaimedUpTo(m - 1, cs, fs, engines, found)
      BY <3>1 DEF Good
    <3>3. h[m] = ClaimStep(h[m - 1], found[m])
      BY <1>1, <3>1 DEF ClaimingAll
    <3>4. PICK ds, gs : /\ ClaimStep([candidates |-> cs, found |-> fs], found[m])
                            = [candidates |-> ds, found |-> gs]
                       /\ ClaimedUpTo(m, ds, gs, engines, found)
      BY <3>1, <3>2, ClaimAllStep
    <3>5. h[m] = [candidates |-> ds, found |-> gs]
      BY <3>2, <3>3, <3>4
    <3>6. Good(m)
      BY <3>4, <3>5 DEF Good
    <3> QED
      BY <2>1, <3>6
  <2> QED
    BY <2>2, <2>3
<1>3. Good(N)
  BY <1>1, <1>2
<1> QED
  BY <1>3 DEF Good

(* The second loop, with the first k containers joined.                     *)
JoiningAll(h, n, cs, fs) ==
    h = [k \in 0 .. n |-> IF k = 0 THEN cs ELSE Joined(h[k - 1], fs[k])]
ClearFrom(k, t, fs) == \A i \in 1 .. Len(fs) : i > k => Clear(t, fs[i].pids)
JoinedUpTo(k, t, cs, fs) ==
    /\ Engines(t)
    /\ Apart(cs) /\ Apart(fs) /\ ClearFrom(0, cs, fs) => Apart(t) /\ ClearFrom(k, t, fs)
    /\ Held(t) = Held(cs) \cup HeldUpTo(k, fs)

LEMMA JoinAllStep ==
    ASSUME NEW cs, NEW fs, Engines(fs), NEW k \in 1 .. Len(fs), NEW t,
           JoinedUpTo(k - 1, t, cs, fs)
    PROVE  JoinedUpTo(k, Joined(t, fs[k]), cs, fs)
<1>1. Engines(t) /\ IsEngine(fs[k]) /\ Len(fs) \in Nat /\ k \in Nat /\ k # 0
  BY ListDomain DEF JoinedUpTo, Engines
<1>2. JoinedTo(Joined(t, fs[k]), t, fs[k])
  BY <1>1, JoinedJoins
<1>3. Engines(Joined(t, fs[k]))
  BY <1>2 DEF JoinedTo
<1>4. Held(Joined(t, fs[k])) = Held(cs) \cup HeldUpTo(k, fs)
  <2>1. HeldUpTo(k, fs) = HeldUpTo(k - 1, fs) \cup fs[k].pids
    BY <1>1, OneMoreHeld
  <2> QED
    BY <1>2, <2>1 DEF JoinedTo, JoinedUpTo
<1>5. ASSUME Apart(cs), Apart(fs), ClearFrom(0, cs, fs)
      PROVE  Apart(Joined(t, fs[k])) /\ ClearFrom(k, Joined(t, fs[k]), fs)
  <2>1. Apart(t) /\ ClearFrom(k - 1, t, fs)
    BY <1>5 DEF JoinedUpTo
  <2>2. Clear(t, fs[k].pids)
    BY <1>1, <2>1 DEF ClearFrom
  <2>3. ASSUME NEW i \in 1 .. Len(fs), i > k PROVE Clear(Joined(t, fs[k]), fs[i].pids)
    <3>1. Clear(t, fs[i].pids)
      BY <1>1, <2>1, <2>3 DEF ClearFrom
    <3>2. fs[k].pids \cap fs[i].pids = {}
      BY <1>1, <1>5, <2>3 DEF Apart
    <3> QED
      BY <1>2, <3>1, <3>2 DEF JoinedTo
  <2> QED
    BY <1>2, <2>1, <2>2, <2>3 DEF JoinedTo, ClearFrom
<1> QED
  BY <1>3, <1>4, <1>5 DEF JoinedUpTo

LEMMA JoiningAllExists ==
    ASSUME NEW n \in Nat, NEW cs, NEW fs
    PROVE  \E h : JoiningAll(h, n, cs, fs)
<1> DEFINE bad == {k \in Nat : ~\E h : JoiningAll(h, k, cs, fs)}
<1> SUFFICES ASSUME bad # {} PROVE FALSE
  OBVIOUS
<1>1. PICK m \in bad : \A k \in bad : m <= k
  BY SmallestNumber
<1>2. CASE m = 0
  <2> DEFINE h == [k \in 0 .. 0 |-> cs]
  <2>1. JoiningAll(h, 0, cs, fs)
    BY DEF JoiningAll
  <2> QED
    BY <1>2, <2>1
<1>3. CASE m # 0
  <2>1. m - 1 \in Nat /\ m - 1 \notin bad
    BY <1>1, <1>3
  <2>2. PICK g : JoiningAll(g, m - 1, cs, fs)
    BY <2>1
  <2> DEFINE h == [k \in 0 .. m |-> IF k = m THEN Joined(g[m - 1], fs[m]) ELSE g[k]]
  <2>3. ASSUME NEW k \in 0 .. m
        PROVE  h[k] = IF k = 0 THEN cs ELSE Joined(h[k - 1], fs[k])
    <3>1. CASE k = m
      BY <1>3, <3>1
    <3>2. CASE k # m
      <4>1. k \in 0 .. (m - 1)
        BY <3>2
      <4>2. g[k] = IF k = 0 THEN cs ELSE Joined(g[k - 1], fs[k])
        BY <2>2, <4>1 DEF JoiningAll
      <4>3. h[k] = g[k] /\ (k # 0 => h[k - 1] = g[k - 1])
        BY <3>2, <4>1
      <4> QED
        BY <4>2, <4>3
    <3> QED
      BY <3>1, <3>2
  <2>4. JoiningAll(h, m, cs, fs)
    BY <2>3 DEF JoiningAll
  <2> QED
    BY <2>4
<1> QED
  BY <1>2, <1>3

LEMMA JoiningAllJoins ==
    ASSUME NEW cs, Engines(cs), NEW fs, Engines(fs), NEW h, JoiningAll(h, Len(fs), cs, fs)
    PROVE  JoinedUpTo(Len(fs), h[Len(fs)], cs, fs)
<1> DEFINE N == Len(fs)
           bad == {k \in 0 .. N : ~JoinedUpTo(k, h[k], cs, fs)}
<1>1. N \in Nat
  BY ListDomain DEF Engines
<1>2. ASSUME bad # {} PROVE FALSE
  <2>1. PICK m \in bad : \A k \in bad : m <= k
    <3>1. bad \in SUBSET Nat
      BY <1>1
    <3> HIDE DEF bad
    <3> QED
      BY <1>2, <3>1, SmallestNumber
  <2>2. CASE m = 0
    <3>1. h[0] = cs
      BY <1>1 DEF JoiningAll
    <3>2. HeldUpTo(0, fs) = {}
      BY DEF HeldUpTo
    <3>3. JoinedUpTo(0, h[0], cs, fs)
      BY <3>1, <3>2 DEF JoinedUpTo
    <3> QED
      BY <2>1, <2>2, <3>3
  <2>3. CASE m # 0
    <3>1. m - 1 \in 0 .. N /\ m - 1 \notin bad /\ m \in 1 .. N
      BY <1>1, <2>1, <2>3
    <3>2. JoinedUpTo(m - 1, h[m - 1], cs, fs)
      BY <3>1
    <3>3. h[m] = Joined(h[m - 1], fs[m])
      BY <1>1, <3>1 DEF JoiningAll
    <3>4. JoinedUpTo(m, h[m], cs, fs)
      BY <3>1, <3>2, <3>3, JoinAllStep
    <3> QED
      BY <2>1, <3>4
  <2> QED
    BY <2>2, <2>3
<1> QED
  BY <1>1, <1>2

(* The merge keeps the candidates apart when both scans did, whatever a     *)
(* container's endpoint happens to be, and it neither loses a process nor  *)
(* invents one.                                                              *)
THEOREM MergeKeepsProcesses ==
    ASSUME NEW engines, Engines(engines), NEW found, Engines(found)
    PROVE  /\ Engines(Merged(engines, found))
           /\ Apart(engines) /\ Apart(found) => Apart(Merged(engines, found))
           /\ Held(Merged(engines, found)) = Held(engines) \cup Held(found)
<1> DEFINE N == Len(found)
           g == CHOOSE h : h = [n \in 0 .. N |->
                   IF n = 0 THEN [candidates |-> engines, found |-> <<>>]
                   ELSE LET a == Absorbed(h[n - 1].candidates, found[n])
                        IN  [candidates |-> a.candidates,
                             found |-> Append(h[n - 1].found, a.container)]]
           j == CHOOSE h : h = [n \in 0 .. N |->
                   IF n = 0 THEN g[N].candidates ELSE Joined(h[n - 1], g[N].found[n])]
<1>1. N \in Nat
  BY ListDomain DEF Engines
<1>2. Merged(engines, found) = j[N]
  BY DEF Merged
<1>3. JoiningAll(j, N, g[N].candidates, g[N].found)
  <2> HIDE DEF g
  <2>1. \E h : JoiningAll(h, N, g[N].candidates, g[N].found)
    BY <1>1, JoiningAllExists
  <2> QED
    BY <2>1 DEF JoiningAll
<1> HIDE DEF j
<1>4. ClaimingAll(g, N, engines, found)
  <2>1. \E h : ClaimingAll(h, N, engines, found)
    BY <1>1, ClaimingAllExists
  <2> QED
    BY <2>1 DEF ClaimingAll, ClaimStep
<1> HIDE DEF g
<1>5. PICK cs, fs : /\ g[N] = [candidates |-> cs, found |-> fs]
                    /\ ClaimedUpTo(N, cs, fs, engines, found)
  BY <1>4, ClaimingAllClaims
<1>6. JoiningAll(j, N, cs, fs)
  BY <1>3, <1>5
<1>7. /\ Engines(cs) /\ Engines(fs) /\ Len(fs) = N
      /\ Apart(engines) => Apart(cs)
      /\ \A i \in 1 .. N : fs[i].pids = found[i].pids /\ Clear(cs, found[i].pids)
      /\ Held(cs) \cup HeldUpTo(N, found) = Held(engines) \cup HeldUpTo(N, found)
  BY <1>5 DEF ClaimedUpTo
<1>8. JoinedUpTo(N, j[N], cs, fs)
  BY <1>6, <1>7, JoiningAllJoins
<1>9. Engines(j[N])
  BY <1>8 DEF JoinedUpTo
<1>10. ASSUME Apart(engines), Apart(found) PROVE Apart(j[N])
  <2>1. Apart(fs)
    BY <1>7, <1>10 DEF Apart
  <2>2. ClearFrom(0, cs, fs)
    BY <1>7 DEF ClearFrom
  <2> QED
    BY <1>7, <1>8, <1>10, <2>1, <2>2 DEF JoinedUpTo
<1>11. Held(j[N]) = Held(engines) \cup Held(found)
  <2>1. HeldUpTo(N, fs) = HeldUpTo(N, found)
    <3>1. \A s, x : x \in HeldUpTo(N, s) <=> \E i \in 1 .. N : x \in s[i].pids
      BY DEF HeldUpTo
    <3>2. \A x : x \in HeldUpTo(N, fs) <=> x \in HeldUpTo(N, found)
      BY <1>7, <3>1
    <3> QED
      BY <3>2
  <2>2. HeldUpTo(N, found) = Held(found)
    BY DEF HeldUpTo, Held
  <2> QED
    BY <1>7, <1>8, <2>1, <2>2 DEF JoinedUpTo
<1> QED
  BY <1>2, <1>9, <1>10, <1>11

-----------------------------------------------------------------------------
(* What the Docker scan makes of a container.                                *)

MaybeTypes == EngineTypes \cup {None}

LEMMA FirstOfIs ==
    ASSUME NEW options, IsList(options), NEW S, \A i \in 1 .. Len(options) : options[i] \in S
    PROVE  FirstOf(options) \in S \cup {None}
<1> DEFINE I == {i \in 1 .. Len(options) : options[i] # None}
           first == IF I # {} THEN Min(I) ELSE 0
<1>1. I \in SUBSET Nat
  BY ListDomain
<1>2. FirstOf(options) = IF first = 0 THEN None ELSE options[first]
  BY DEF FirstOf, SelectInSeq
<1>3. CASE I = {}
  BY <1>2, <1>3
<1>4. CASE I # {}
  <2>1. first \in I
    <3> HIDE DEF I
    <3>1. Min(I) \in I
      BY <1>1, <1>4, MinIsIn
    <3> QED
      BY <1>4, <3>1
  <2>2. options[first] \in S
    BY <2>1
  <2> QED
    BY <1>2, <2>1, <2>2
<1> QED
  BY <1>3, <1>4

LEMMA CommandTypes == \A cmd : EngineOfCommand(cmd) \in MaybeTypes
<1>1. \A word : ServerNamedBy(word) \in MaybeTypes
  <2> SUFFICES ASSUME NEW word PROVE ServerNamedBy(word) \in MaybeTypes
    OBVIOUS
  <2>1. DOMAIN ServerNames \subseteq EngineTypes
    BY DEF ServerNames, EngineTypes
  <2> QED
    BY <2>1 DEF ServerNamedBy, MaybeTypes
<1> QED
  BY <1>1 DEF EngineOfCommand, MaybeTypes, EngineTypes

LEMMA ContainerTypes == \A c : ClassifyContainer(c).type \in MaybeTypes
<1> SUFFICES ASSUME NEW c PROVE ClassifyContainer(c).type \in MaybeTypes
  OBVIOUS
<1> DEFINE The(types) == IF types = {} THEN None ELSE CHOOSE t \in types : TRUE
           pair == c.image \cap {"Vllm", "Sglang"}
           said == Mentioned(c.command)
           Tied(types) == IF "Vllm" \in types THEN "Vllm" ELSE The(types \cap {"Sglang"})
           strongs == <<The(c.image \cap {"Ollama"}), The(c.image \cap {"LlamaCpp"}),
                        IF Cardinality(pair) = 1 THEN The(pair) ELSE None,
                        EngineOfCommand(c.command), Tied(said), Tied(pair)>>
           weaks == <<Tied(c.names), The(c.names \cap {"Ollama"}), The(c.names \cap {"LlamaCpp"})>>
<1>1. ClassifyContainer(c).type = FirstOf(<<FirstOf(strongs), FirstOf(weaks)>>)
  BY DEF ClassifyContainer
<1>2. \A types : types \subseteq EngineTypes => The(types) \in MaybeTypes
  BY DEF MaybeTypes
<1>3. \A types : Tied(types) \in MaybeTypes
  <2> SUFFICES ASSUME NEW types PROVE Tied(types) \in MaybeTypes
    OBVIOUS
  <2>1. types \cap {"Sglang"} \subseteq EngineTypes /\ "Vllm" \in MaybeTypes
    BY DEF EngineTypes, MaybeTypes
  <2>2. The(types \cap {"Sglang"}) \in MaybeTypes
    BY <1>2, <2>1
  <2> HIDE DEF The
  <2> QED
    BY <2>1, <2>2
<1>4. \A types : The(types \cap {"Ollama"}) \in MaybeTypes /\ The(types \cap {"LlamaCpp"}) \in MaybeTypes
  <2>1. \A types : types \cap {"Ollama"} \subseteq EngineTypes /\ types \cap {"LlamaCpp"} \subseteq EngineTypes
    BY DEF EngineTypes
  <2> HIDE DEF The
  <2> QED
    BY <1>2, <2>1
<1>5. The(pair) \in MaybeTypes
  <2>1. pair \subseteq EngineTypes
    BY DEF EngineTypes
  <2> HIDE DEF The, pair
  <2> QED
    BY <1>2, <2>1
<1>6. None \in MaybeTypes /\ MaybeTypes \cup {None} = MaybeTypes
  BY DEF MaybeTypes
<1> HIDE DEF The, pair, said, Tied
<1>7. IsList(strongs) /\ \A i \in 1 .. Len(strongs) : strongs[i] \in MaybeTypes
  <2>1. EngineOfCommand(c.command) \in MaybeTypes
    BY CommandTypes
  <2>2. (IF Cardinality(pair) = 1 THEN The(pair) ELSE None) \in MaybeTypes
    BY <1>5, <1>6
  <2>3. Tied(said) \in MaybeTypes /\ Tied(pair) \in MaybeTypes
    BY <1>3
  <2>4. strongs \in Seq(MaybeTypes)
    BY <1>4, <2>1, <2>2, <2>3
  <2> QED
    BY <2>4 DEF IsList
<1>8. IsList(weaks) /\ \A i \in 1 .. Len(weaks) : weaks[i] \in MaybeTypes
  BY <1>3, <1>4, <1>6 DEF IsList
<1> HIDE DEF strongs, weaks
<1>9. FirstOf(strongs) \in MaybeTypes /\ FirstOf(weaks) \in MaybeTypes
  BY <1>6, <1>7, <1>8, FirstOfIs
<1> DEFINE both == <<FirstOf(strongs), FirstOf(weaks)>>
<1>10. IsList(both) /\ \A i \in 1 .. Len(both) : both[i] \in MaybeTypes
  BY <1>9 DEF IsList
<1> HIDE DEF both
<1>11. FirstOf(both) \in MaybeTypes
  BY <1>6, <1>10, FirstOfIs
<1> QED
  BY <1>1, <1>11 DEF both

LEMMA ListensList ==
    ASSUME NEW listen, IsList(listen.ports)
    PROVE  IsList(ListenEndpoints(listen))
<1>1. \A q : q = ListenEndpoints(listen) => IsList(q)
  BY ListDomain, ListOf DEF ListenEndpoints
<1> QED
  BY <1>1

LEMMA OllamaList == \A c, listen : IsList(OllamaContainerEndpoints(c, listen))
<1>1. \A x : IsList(<<x>>)
  BY DEF IsList
<1> SUFFICES ASSUME NEW c, NEW listen PROVE IsList(OllamaContainerEndpoints(c, listen))
  OBVIOUS
<1> DEFINE published == SelectInSeq(c.ports, LAMBDA b : b.tcp /\ b.container = listen.port
                                                       /\ b.host # None)
           there == OllamaEndpoint([host |-> c.ports[published].ip, port |-> c.ports[published].host])
<1>3. \/ OllamaContainerEndpoints(c, listen) = <<OllamaEndpoint(listen)>>
      \/ OllamaContainerEndpoints(c, listen) = <<there>>
      \/ OllamaContainerEndpoints(c, listen) = <<>>
  BY DEF OllamaContainerEndpoints
<1> HIDE DEF there
<1> QED
  BY <1>1, <1>3, EmptyList

LEMMA LlamaCppList ==
    ASSUME NEW c, IsList(c.ports), NEW listen, IsList(listen.ports)
    PROVE  IsList(LlamaCppContainerEndpoints(c, listen))
<1> DEFINE Rank(i) ==
               LET place == SelectInSeq(listen.ports, LAMBDA port : port = c.ports[i].container)
               IN  IF place = 0 THEN Len(listen.ports) + 1 ELSE place
           Before(i, j) == Rank(i) < Rank(j) \/ (Rank(i) = Rank(j) /\ i < j)
           At(i)    == LlamaCppEndpoint(c.ports[i].ip, c.ports[i].host)
           bindings == {i \in DOMAIN c.ports : c.ports[i].tcp /\ c.ports[i].host # None}
           distinct == {i \in bindings : \A j \in bindings : Before(j, i) => At(j) # At(i)}
           Nth(n)   == CHOOSE i \in distinct : Cardinality({j \in distinct : Before(j, i)}) = n - 1
           q == [n \in 1 .. Cardinality(distinct) |-> At(Nth(n))]
<1>1. LlamaCppContainerEndpoints(c, listen) = q
      \/ LlamaCppContainerEndpoints(c, listen) = ListenEndpoints(listen)
      \/ LlamaCppContainerEndpoints(c, listen) = <<>>
  BY DEF LlamaCppContainerEndpoints
<1>2. distinct \subseteq 1 .. Len(c.ports)
  BY ListDomain
<1> HIDE DEF distinct, Nth, At
<1>3. Cardinality(distinct) \in Nat
  <2>1. Len(c.ports) \in Int /\ 1 \in Int
    BY ListDomain
  <2>2. IsFiniteSet(1 .. Len(c.ports))
    BY <2>1, FS_Interval
  <2>3. IsFiniteSet(distinct)
    BY <1>2, <2>2, FS_Subset
  <2> QED
    BY <2>3, FS_CardinalityType
<1>4. IsList(q)
  <2>1. q = [n \in 1 .. Cardinality(distinct) |-> q[n]]
    OBVIOUS
  <2> HIDE DEF q
  <2> QED
    BY <1>3, <2>1, ListOf
<1> QED
  BY <1>1, <1>4, ListensList, EmptyList

LEMMA ContainersList ==
    ASSUME NEW c, IsList(c.ports), NEW type, NEW commands, NEW env
    PROVE  IsList(ContainerEndpoints(c, type, commands, env))
<1> DEFINE listen == Listen(ContainerLaunch(c, commands, env), DefaultPorts("Docker"))
           one == <<DockerEndpoint(DockerPort(c, commands), type)>>
<1>1. \/ ContainerEndpoints(c, type, commands, env)
            = OllamaContainerEndpoints(c, OllamaHost(env.ollama_host))
      \/ ContainerEndpoints(c, type, commands, env) = <<>>
      \/ ContainerEndpoints(c, type, commands, env) = LlamaCppContainerEndpoints(c, listen)
      \/ ContainerEndpoints(c, type, commands, env) = one
  BY DEF ContainerEndpoints
<1>2. IsList(listen.ports)
  BY DEF Listen, DefaultPorts, IsList
<1>3. IsList(one)
  BY DEF IsList
<1> HIDE DEF listen, one
<1> QED
  BY <1>1, <1>2, <1>3, OllamaList, LlamaCppList, EmptyList

(* A container as Docker lists it: named, with processes of the table.      *)
IsContainer(c) == c.id # None /\ c.pids \subseteq Pids /\ IsList(c.ports)
Hosted ==
    /\ IsList(world.procs)
    /\ IsList(world.containers) /\ Len(world.containers) = 1
    /\ IsContainer(world.containers[1])

(* No candidate, or one with these processes.                                *)
AtMostOne(found, pids) ==
    found = <<>> \/ \E e : found = <<e>> /\ IsEngine(e) /\ e.pids = pids

LEMMA CandidateIs ==
    ASSUME Hosted, NEW c, c = world.containers[1],
           NEW pids \in {{}, c.pids}, NEW env \in {c.env, BlankEnv}
    PROVE  AtMostOne(DockerCandidate(c, pids, env), pids)
<1> DEFINE d == DockerCandidate(c, pids, env)
           type == ClassifyContainer(c).type
           commands == TopCommands(pids)
           endpoints == ContainerEndpoints(c, type, commands, env)
           model == ContainerModel(c, type, commands, env)
           e == DetectedEngine(type, endpoints, "Docker", model, pids, c.id)
<1>1. d = <<>> \/ (type # None /\ endpoints # <<>> /\ d = <<e>>)
  BY DEF DockerCandidate
<1>2. type \in MaybeTypes
  BY ContainerTypes
<1>3. IsContainer(c) /\ 1 \in DOMAIN world.containers
  BY ListDomain DEF Hosted
<1>4. IsList(endpoints)
  BY <1>3, ContainersList DEF IsContainer
<1>5. pids \subseteq Pids
  BY <1>3 DEF IsContainer
<1> HIDE DEF type, endpoints, model
<1>6. /\ IsRecord(e) /\ e.engine_type = type /\ e.pids = pids /\ e.mode = "Docker"
      /\ e.container = c.id /\ e.fallbacks = Tail(endpoints)
  BY DEF DetectedEngine, IsRecord
<1> HIDE DEF d, e
<1>7. ASSUME d = <<e>> PROVE Sourced(e)
  <2>1. d \in Scans(c)
    BY DEF Scans, d
  <2>2. d \in AllScans \ {<<>>}
    BY <1>3, <1>7, <2>1 DEF AllScans
  <2>3. d[1] = e
    BY <1>7
  <2>4. e \in ScannedIn(e.container, e.engine_type)
    BY <2>2, <2>3 DEF ScannedIn
  <2>5. Addresses(e) \subseteq ContainerNamed(e.container, e.engine_type)
    BY <2>4 DEF ContainerNamed
  <2>6. e.container # None /\ e.container = world.containers[1].id
    BY <1>3, <1>6 DEF IsContainer
  <2> QED
    BY <2>5, <2>6 DEF Sourced
<1>8. ASSUME d # <<>> PROVE d = <<e>> /\ IsEngine(e)
  <2>1. type \in EngineTypes /\ endpoints # <<>> /\ d = <<e>>
    BY <1>1, <1>2, <1>8 DEF MaybeTypes
  <2>2. IsList(Tail(endpoints))
    BY <1>4, <2>1, Beheaded
  <2>3. e.container # None
    BY <1>3, <1>6 DEF IsContainer
  <2> QED
    BY <1>5, <1>6, <1>7, <2>1, <2>2, <2>3 DEF IsEngine
<1> QED
  BY <1>6, <1>8 DEF AtMostOne, d

-----------------------------------------------------------------------------
(* The inductive invariant of a pass.                                        *)

(* Where the pass is.  The one container is looked at once, so no two       *)
(* candidates of Docker's share a process.                                  *)
AtItsPlace ==
    /\ pc \in {"idle", "list", "top", "probe", "done"}
    /\ trouble \subseteq {"list", "top", "inspect", "probe"}
    /\ pc = "list" => containers = <<>>
    /\ pc = "top" => /\ IsList(todo) /\ Len(containers) + Len(todo) <= 1
                     /\ \A i \in 1 .. Len(todo) : todo[i] = world.containers[1]
    /\ pc = "probe" => /\ candidates # <<>> /\ probing # <<>> /\ IsList(probing)
                       /\ \A k \in 1 .. Len(probing) : probing[k] \in Addresses(Head(candidates))
    /\ pc # "probe" => probing = <<>>
    /\ pc \in {"list", "top"} => verified = <<>>

(* The lists hold engines; what was verified has one of each type and      *)
(* endpoint; and where no server starts another, a process is in one of the *)
(* candidates left and results made, and in one only.                       *)
Separate(left, made) ==
    /\ Apart(left) /\ Apart(made)
    /\ \A i \in 1 .. Len(left) : Clear(made, left[i].pids)
Sorted ==
    /\ Engines(candidates) /\ Engines(containers) /\ Engines(verified)
    /\ OneEach(verified)
    /\ OneServerPerTree => Separate(candidates, verified)

PassInv == Hosted /\ AtItsPlace /\ Sorted

LEMMA PidsStay == ASSUME world' = world PROVE Pids' = Pids
BY DEF Pids

LEMMA TreesStay == ASSUME world' = world PROVE OneServerPerTree' = OneServerPerTree
BY PidsStay DEF OneServerPerTree, IsServer, OneCandidate, ExpandPidTree, Children, Owned, Owners,
                Pids, EngineOfProcess, EndpointsOf, LaunchOf, EnvOf

LEMMA EmptyIsSorted ==
    /\ Engines(<<>>) /\ OneEach(<<>>) /\ Apart(<<>>)
    /\ \A P : Clear(<<>>, P)
    /\ Separate(<<>>, <<>>)
BY EmptyList DEF Engines, OneEach, Apart, Clear, Separate

LEMMA HostIs ==
    ASSUME NEW native \in Natives, NEW scene \in Scenes, world = Host(native, scene)
    PROVE  Hosted
<1>1. native \in Seq(ToSet(native)) /\ scene.procs \in Seq(ToSet(scene.procs))
  BY HostAssumption
<1>2. IsList(native) /\ IsList(scene.procs)
  BY <1>1, SeqIsList
<1>3. IsList(native \o scene.procs) /\ Len(native) \in Nat /\ Len(native \o scene.procs) \in Nat
  BY <1>2, Joint, ListDomain
<1> DEFINE procs == native \o scene.procs
           c == [scene.container EXCEPT !.pids = (Len(native) + 1) .. Len(procs)]
<1>4. world = [procs |-> procs, containers |-> <<c>>]
  BY DEF Host
<1>5. c.id # None /\ c.pids = (Len(native) + 1) .. Len(procs) /\ c.ports = scene.container.ports
  BY HostAssumption
<1>10. IsList(c.ports)
  BY <1>5, HostAssumption, SeqIsList
<1> HIDE DEF c, procs
<1>6. world.procs = procs /\ world.containers = <<c>>
  BY <1>4
<1>7. Pids = 1 .. Len(procs)
  BY <1>3, <1>6, ListDomain DEF Pids, procs
<1>8. IsContainer(c)
  BY <1>3, <1>5, <1>7, <1>10 DEF IsContainer, procs
<1>9. IsList(<<c>>) /\ Len(<<c>>) = 1 /\ <<c>>[1] = c
  BY DEF IsList
<1> QED
  BY <1>3, <1>6, <1>8, <1>9 DEF Hosted, procs

LEMMA PassBegins == Init => PassInv
<1> SUFFICES ASSUME Init PROVE PassInv
  OBVIOUS
<1>1. Hosted
  BY HostIs DEF Init
<1>2. AtItsPlace
  BY DEF Init, AtItsPlace
<1>3. Sorted
  BY EmptyIsSorted DEF Init, Sorted
<1> QED
  BY <1>1, <1>2, <1>3 DEF PassInv

(* A list of engines stays one in the same world.                           *)
LEMMA HostStays == ASSUME Hosted, world' = world PROVE Hosted'
BY PidsStay DEF Hosted, IsContainer, IsList

LEMMA DockersStay ==
    ASSUME world' = world
    PROVE  \A c, pids, env : DockerCandidate(c, pids, env)' = DockerCandidate(c, pids, env)
<1>1. \A pids : TopCommands(pids)' = TopCommands(pids)
  BY DEF TopCommands
<1> SUFFICES ASSUME NEW c, NEW pids, NEW env
             PROVE  DockerCandidate(c, pids, env)' = DockerCandidate(c, pids, env)
  OBVIOUS
<1>2. TopCommands(pids)' = TopCommands(pids)
  BY <1>1
<1> QED
  BY <1>2, Zenon DEF DockerCandidate

LEMMA NamesStay ==
    ASSUME world' = world
    PROVE  /\ \A type : OwnNamed(type)' = OwnNamed(type)
           /\ \A id, type : ContainerNamed(id, type)' = ContainerNamed(id, type)
<1>1. \A type : OwnNamed(type)' = OwnNamed(type)
  BY PidsStay DEF OwnNamed, ExpandPidTree, Children, Owned, Owners, Pids, EngineOfProcess,
                  EndpointsOf, LaunchOf, EnvOf
<1>4. \A c : Scans(c)' = Scans(c)
  BY DockersStay DEF Scans
<1>5. AllScans' = AllScans
  BY <1>4 DEF AllScans
<1>6. \A id, type : ScannedIn(id, type)' = ScannedIn(id, type)
  BY <1>5 DEF ScannedIn
<1>7. \A id, type : ContainerNamed(id, type)' = ContainerNamed(id, type)
  BY <1>6 DEF ContainerNamed
<1> QED
  BY <1>1, <1>7

LEMMA CandidatesStay == ASSUME world' = world, NEW s, Engines(s), candidates' = s PROVE Engines(candidates)'
BY PidsStay, NamesStay DEF Engines, IsEngine, IsRecord, IsList, Sourced, Addresses

LEMMA ContainersStay == ASSUME world' = world, NEW s, Engines(s), containers' = s PROVE Engines(containers)'
BY PidsStay, NamesStay DEF Engines, IsEngine, IsRecord, IsList, Sourced, Addresses

LEMMA VerifiedStay == ASSUME world' = world, NEW s, Engines(s), verified' = s PROVE Engines(verified)'
BY PidsStay, NamesStay DEF Engines, IsEngine, IsRecord, IsList, Sourced, Addresses

(* The invariant after a step, from what the step makes of the lists.       *)
LEMMA SortedAgain ==
    ASSUME world' = world, NEW left, NEW found, NEW made,
           candidates' = left, containers' = found, verified' = made,
           Engines(left), Engines(found), Engines(made), OneEach(made),
           OneServerPerTree => Separate(left, made)
    PROVE  Sorted'
<1>1. Engines(candidates)' /\ Engines(containers)' /\ Engines(verified)'
  BY CandidatesStay, ContainersStay, VerifiedStay
<1>2. OneEach(verified)'
  BY DEF OneEach, Matches
<1>3. OneServerPerTree' => Separate(candidates, verified)'
  BY TreesStay DEF Separate, Apart, Clear
<1> QED
  BY <1>1, <1>2, <1>3 DEF Sorted

(* One action at a time.                                                     *)

LEMMA ScanSteps == ASSUME PassInv, ScanProcesses PROVE PassInv'
<1>1. world' = world /\ pc' = "list" /\ Hosted /\ Sorted /\ AtItsPlace
  BY DEF ScanProcesses, PassInv
<1>2. Hosted'
  BY <1>1, HostStays
<1>3. AtItsPlace'
  BY <1>1 DEF ScanProcesses, AtItsPlace
<1>4. Sorted'
  <2> DEFINE left == EnginesFromProcesses
  <2>1. candidates' = left /\ containers' = <<>> /\ verified' = <<>>
    BY DEF ScanProcesses
  <2>2. Engines(left) /\ (OneServerPerTree => Apart(left))
    BY <1>1, ScanKeepsApart DEF Hosted
  <2> HIDE DEF left
  <2>3. OneServerPerTree => Separate(left, <<>>)
    BY <2>2, EmptyIsSorted DEF Separate
  <2> QED
    BY <1>1, <2>1, <2>2, <2>3, EmptyIsSorted, SortedAgain
<1> QED
  BY <1>2, <1>3, <1>4 DEF PassInv

LEMMA ListSteps == ASSUME PassInv, ListContainers PROVE PassInv'
<1>1. /\ world' = world /\ pc = "list" /\ pc' = "top" /\ Hosted /\ Sorted /\ AtItsPlace
      /\ candidates' = candidates /\ containers' = containers /\ verified' = verified
      /\ probing' = probing
  BY DEF ListContainers, PassInv
<1>2. Hosted'
  BY <1>1, HostStays
<1>3. containers = <<>> /\ verified = <<>> /\ probing = <<>> /\ Pids' = Pids
  BY <1>1, PidsStay DEF AtItsPlace
<1>4. AtItsPlace'
  <2>1. /\ IsList(todo') /\ Len(todo') \in Nat /\ Len(todo') <= 1
        /\ \A i \in 1 .. Len(todo') : todo'[i] = world.containers[1]
    <3>1. CASE todo' = world.containers
      <4>1. IsList(world.containers) /\ Len(world.containers) = 1
        BY <1>1 DEF Hosted
      <4> QED
        BY <3>1, <4>1
    <3>2. CASE todo' = <<>>
      BY <3>2, EmptyList
    <3> QED
      BY <3>1, <3>2 DEF ListContainers
  <2>2. (Len(containers) + Len(todo) <= 1)'
    BY <1>1, <1>3, <2>1, EmptyList
  <2>3. (\A i \in 1 .. Len(todo) : todo[i] = world.containers[1])'
    BY <1>1, <2>1
  <2>4. trouble' \subseteq {"list", "top", "inspect", "probe"}
    BY <1>1 DEF ListContainers, AtItsPlace
  <2> QED
    BY <1>1, <1>3, <2>1, <2>2, <2>3, <2>4 DEF AtItsPlace, IsList
<1>5. Sorted'
  BY <1>1, SortedAgain DEF Sorted
<1> QED
  BY <1>2, <1>4, <1>5 DEF PassInv

(* A container's processes, or none, are what its candidate has.            *)
LEMMA ScannedContainer ==
    ASSUME PassInv, ScanContainer
    PROVE  \E d : /\ containers' = containers \o d
                  /\ d = <<>> \/ \E e : /\ d = <<e>> /\ IsEngine(e)
                                        /\ e.pids \subseteq world.containers[1].pids
<1> DEFINE c == Head(todo)
           type == ClassifyContainer(c).type
<1>1. Hosted /\ c = world.containers[1]
  <2>1. /\ IsList(todo) /\ todo # <<>> /\ Hosted
        /\ \A i \in 1 .. Len(todo) : todo[i] = world.containers[1]
    BY DEF ScanContainer, PassInv, AtItsPlace
  <2> QED
    BY <2>1, Beheaded
<1>2. PICK top, inspect \in BOOLEAN :
           containers' = containers \o
                  DockerCandidate(c, IF top THEN c.pids ELSE {},
                                  IF inspect THEN c.env
                                  ELSE BlankEnv)
  BY DEF ScanContainer, BlankEnv
<1> DEFINE pids == IF top THEN c.pids ELSE {}
           env == IF inspect THEN c.env ELSE BlankEnv
           d == DockerCandidate(c, pids, env)
<1>3. pids \in {{}, c.pids} /\ env \in {c.env, BlankEnv}
  OBVIOUS
<1>4. pids \subseteq world.containers[1].pids
  BY <1>1
<1> HIDE DEF pids, env, c
<1>5. AtMostOne(d, pids)
  BY <1>1, <1>3, CandidateIs
<1>6. d = <<>> \/ \E e : d = <<e>> /\ IsEngine(e) /\ e.pids = pids
  BY <1>5 DEF AtMostOne
<1>7. containers' = containers \o d
  BY <1>2 DEF pids, env
<1> HIDE DEF d
<1> QED
  BY <1>4, <1>6, <1>7

LEMMA ContainerSteps == ASSUME PassInv, ScanContainer PROVE PassInv'
<1>1. /\ world' = world /\ pc = "top" /\ pc' = "top" /\ Hosted /\ Sorted /\ AtItsPlace
      /\ candidates' = candidates /\ verified' = verified /\ probing' = probing
      /\ todo # <<>> /\ todo' = Tail(todo)
  BY DEF ScanContainer, PassInv
<1>2. Hosted'
  BY <1>1, HostStays
<1>3. /\ IsList(todo) /\ Len(containers) + Len(todo) <= 1
      /\ \A i \in 1 .. Len(todo) : todo[i] = world.containers[1]
      /\ verified = <<>> /\ probing = <<>>
  BY <1>1 DEF AtItsPlace
<1>4. /\ IsList(Tail(todo)) /\ Len(Tail(todo)) = Len(todo) - 1 /\ Len(todo) \in Nat
      /\ Head(todo) = todo[1] /\ 1 \in 1 .. Len(todo)
  BY <1>1, <1>3, Beheaded, ListDomain
<1>5. IsList(containers) /\ Len(containers) \in Nat
  BY <1>1, ListDomain DEF Sorted, Engines
<1>6. Len(todo) = 1 /\ Len(containers) = 0 /\ Len(Tail(todo)) = 0
  <2>1. \A m, n \in Nat : 1 \in 1 .. m /\ n + m <= 1 => m = 1 /\ n = 0 /\ m - 1 = 0
    OBVIOUS
  <2>2. Len(todo) = 1 /\ Len(containers) = 0
    BY <1>3, <1>4, <1>5, <2>1, Zenon
  <2> QED
    BY <1>4, <2>2
<1>8. PICK d : /\ containers' = containers \o d
               /\ d = <<>> \/ \E e : d = <<e>> /\ IsEngine(e)
  BY ScannedContainer
<1>9. IsList(d) /\ Len(d) \in Nat /\ Len(d) <= 1 /\ \A i \in 1 .. Len(d) : IsEngine(d[i])
  <2>1. CASE d = <<>>
    BY <2>1, EmptyList
  <2>2. ASSUME NEW e, d = <<e>>, IsEngine(e) PROVE IsList(d) /\ Len(d) = 1 /\ d[1] = e
    BY <2>2 DEF IsList
  <2> QED
    BY <1>8, <2>1, <2>2
<1> DEFINE found == containers \o d
<1>10. Engines(found) /\ Len(found) <= 1 /\ Len(found) \in Nat
  BY <1>5, <1>6, <1>9, Joint DEF Engines
<1> HIDE DEF found
<1>11. Sorted'
  <2>1. containers' = found
    BY <1>8 DEF found
  <2> QED
    BY <1>1, <1>10, <2>1, SortedAgain DEF Sorted
<1>12. AtItsPlace'
  <2>1. Len(containers)' + Len(todo)' <= 1
    BY <1>1, <1>6, <1>8, <1>10 DEF found
  <2>2. IsList(todo)' /\ (\A i \in 1 .. Len(todo) : todo[i] = world.containers[1])'
    <3>1. todo' = Tail(todo) /\ IsList(Tail(todo)) /\ Len(Tail(todo)) = 0
      BY <1>1, <1>4, <1>6
    <3> QED
      BY <3>1 DEF IsList
  <2>3. trouble' \subseteq {"list", "top", "inspect", "probe"}
    BY <1>1 DEF ScanContainer, AtItsPlace
  <2> QED
    BY <1>1, <1>3, <2>1, <2>2, <2>3 DEF AtItsPlace
<1> QED
  BY <1>2, <1>11, <1>12 DEF PassInv

(* What is left of a list, and its first engine, still have nothing in      *)
(* common, nor with what was made before.                                   *)
LEMMA TailSeparate ==
    ASSUME NEW s, Engines(s), s # <<>>
    PROVE  /\ Engines(Tail(s)) /\ IsEngine(Head(s))
           /\ Apart(s) => Apart(Tail(s))
           /\ Apart(s) => \A i \in 1 .. Len(Tail(s)) : Head(s).pids \cap Tail(s)[i].pids = {}
           /\ \A made : (\A i \in 1 .. Len(s) : Clear(made, s[i].pids))
                        => /\ \A i \in 1 .. Len(Tail(s)) : Clear(made, Tail(s)[i].pids)
                           /\ Clear(made, Head(s).pids)
<1>1. /\ IsList(Tail(s)) /\ Len(Tail(s)) = Len(s) - 1 /\ Len(s) \in Nat
      /\ \A i \in 1 .. Len(Tail(s)) : Tail(s)[i] = s[i + 1] /\ i + 1 \in 1 .. Len(s)
      /\ Head(s) = s[1] /\ 1 \in 1 .. Len(s)
  BY Beheaded, ListDomain DEF Engines
<1>2. Engines(Tail(s)) /\ IsEngine(Head(s))
  BY <1>1 DEF Engines
<1>3. \A i, j \in 1 .. Len(Tail(s)) : i # j => i + 1 # j + 1 /\ 1 # i + 1
  BY <1>1
<1>4. Apart(s) => Apart(Tail(s))
  BY <1>1, <1>3 DEF Apart
<1>5. ASSUME Apart(s), NEW i \in 1 .. Len(Tail(s)) PROVE Head(s).pids \cap Tail(s)[i].pids = {}
  <2>1. i + 1 # 1 /\ i + 1 \in 1 .. Len(s)
    BY <1>1
  <2> QED
    BY <1>1, <1>5, <2>1 DEF Apart
<1>6. ASSUME NEW made, \A i \in 1 .. Len(s) : Clear(made, s[i].pids)
      PROVE  /\ \A i \in 1 .. Len(Tail(s)) : Clear(made, Tail(s)[i].pids)
             /\ Clear(made, Head(s).pids)
  BY <1>1, <1>6
<1> QED
  BY <1>2, <1>4, <1>5, <1>6

LEMMA OnlyAtIs ==
    ASSUME NEW e, IsEngine(e), NEW endpoint \in Addresses(e)
    PROVE  /\ IsEngine(OnlyAt(e, endpoint)) /\ OnlyAt(e, endpoint).pids = e.pids
           /\ OnlyAt(e, endpoint).engine_type = e.engine_type
           /\ OnlyAt(e, endpoint).endpoint = endpoint
           /\ OnlyAt(e, endpoint).container = e.container
<1> DEFINE f == [e EXCEPT !.endpoint = endpoint]
           g == [f EXCEPT !.fallbacks = <<>>]
<1>1. f = [engine_type |-> e.engine_type, endpoint |-> endpoint, fallbacks |-> e.fallbacks,
           mode |-> e.mode, model |-> e.model, pids |-> e.pids, container |-> e.container]
  BY DEF IsEngine, IsRecord
<1> HIDE DEF f
<1>2. g = [engine_type |-> e.engine_type, endpoint |-> endpoint, fallbacks |-> <<>>,
           mode |-> e.mode, model |-> e.model, pids |-> e.pids, container |-> e.container]
  BY <1>1
<1> HIDE DEF g
<1>3. /\ IsRecord(g) /\ g.pids = e.pids /\ g.engine_type = e.engine_type /\ g.mode = e.mode
      /\ g.endpoint = endpoint /\ g.fallbacks = <<>> /\ g.container = e.container
  BY <1>2 DEF IsRecord
<1>4. Sourced(g)
  <2>1. Addresses(g) = {endpoint}
    BY <1>3, EmptyList DEF Addresses
  <2>2. Addresses(g) \subseteq Addresses(e) /\ Sourced(e)
    BY <2>1 DEF IsEngine
  <2> QED
    BY <1>3, <2>2 DEF Sourced
<1>5. IsEngine(g)
  BY <1>3, <1>4, EmptyList DEF IsEngine
<1> QED
  BY <1>3, <1>5 DEF OnlyAt, f, g

LEMMA BegunIsAtItsPlace ==
    ASSUME AtItsPlace, NEW engines, Engines(engines), Begin(engines),
           trouble' \subseteq {"list", "top", "inspect", "probe"}
    PROVE  AtItsPlace'
<1>1. CASE engines = <<>>
  BY <1>1 DEF AtItsPlace, Begin
<1>2. CASE engines # <<>>
  <2> DEFINE e == Head(engines)
             one == <<e.endpoint>>
             more == e.fallbacks
             all == one \o more
  <2>1. IsList(e.fallbacks)
    BY <1>2, TailSeparate DEF IsEngine
  <2>2. candidates' = engines /\ probing' = all /\ pc' = "probe"
    BY <1>2 DEF Begin
  <2>3. Head(candidates)' = e
    BY <2>2
  <2> HIDE DEF e
  <2>4. IsList(one) /\ Len(one) = 1 /\ one[1] = e.endpoint
    BY DEF IsList
  <2> HIDE DEF one, more
  <2>5. /\ IsList(all) /\ Len(all) = 1 + Len(more)
        /\ \A i \in 1 .. 1 : all[i] = one[i]
        /\ \A i \in 1 .. Len(all) :
              i \in 1 .. 1 \/ (i - 1 \in 1 .. Len(more) /\ all[i] = more[i - 1])
    <3>1. IsList(more)
      BY <2>1 DEF more
    <3>2. /\ IsList(all) /\ Len(all) = Len(one) + Len(more)
          /\ \A i \in 1 .. Len(one) : all[i] = one[i]
          /\ \A i \in 1 .. Len(all) :
                i \in 1 .. Len(one) \/ (i - Len(one) \in 1 .. Len(more) /\ all[i] = more[i - Len(one)])
      BY <2>4, <3>1, Joint, ZenonT(30)
    <3> HIDE DEF all
    <3> QED
      BY <2>4, <3>2
  <2>6. \A k \in 1 .. Len(all) : all[k] \in Addresses(e)
    <3>1. 1 \in 1 .. 1 /\ \A i \in 1 .. 1 : i = 1
      OBVIOUS
    <3>2. all[1] = e.endpoint
      BY <2>4, <2>5, <3>1, Zenon
    <3> QED
      BY <2>5, <3>1, <3>2 DEF Addresses, more
  <2>7. all # <<>>
    <3>1. Len(more) \in Nat
      BY <2>1, ListDomain DEF more
    <3> QED
      BY <2>5, <3>1, EmptyList
  <2> HIDE DEF all
  <2>8. (/\ probing # <<>> /\ IsList(probing)
         /\ \A k \in 1 .. Len(probing) : probing[k] \in Addresses(Head(candidates)))'
    BY <2>2, <2>3, <2>5, <2>6, <2>7 DEF IsList, Addresses
  <2> QED
    BY <1>2, <2>2, <2>8 DEF AtItsPlace
<1> QED
  BY <1>1, <1>2

LEMMA HeadIsProbed ==
    ASSUME IsList(probing), probing # <<>>, NEW S, \A k \in 1 .. Len(probing) : probing[k] \in S
    PROVE  Head(probing) \in S
BY Beheaded, ListDomain

LEMMA MergeSteps == ASSUME PassInv, Merge PROVE PassInv'
<1> DEFINE left == Merged(candidates, containers)
<1>1. /\ world' = world /\ pc = "top" /\ todo = <<>> /\ Hosted /\ Sorted /\ AtItsPlace
      /\ containers' = containers /\ verified' = verified /\ trouble' = trouble /\ Begin(left)
  BY DEF Merge, PassInv
<1>2. candidates' = left
  BY <1>1 DEF Begin
<1>3. /\ Engines(candidates) /\ Engines(containers) /\ Len(containers) \in Nat
      /\ Len(containers) <= 1 /\ verified = <<>>
  BY <1>1, ListDomain, EmptyList DEF Sorted, AtItsPlace, Engines
<1>4. Apart(containers)
  <2>1. \A i, j \in 1 .. Len(containers) : i = j
    BY <1>3
  <2> QED
    BY <2>1 DEF Apart
<1>5. Engines(left) /\ (Apart(candidates) => Apart(left))
  BY <1>3, <1>4, MergeKeepsProcesses
<1> HIDE DEF left
<1>6. OneServerPerTree => Separate(left, verified)
  BY <1>1, <1>3, <1>5, EmptyIsSorted DEF Sorted, Separate
<1>7. Sorted'
  BY <1>1, <1>2, <1>3, <1>5, <1>6, SortedAgain DEF Sorted
<1>8. AtItsPlace'
  BY <1>1, <1>5, BegunIsAtItsPlace DEF AtItsPlace
<1> QED
  BY <1>1, <1>7, <1>8, HostStays DEF PassInv

LEMMA AnswerSteps == ASSUME PassInv, Answers PROVE PassInv'
<1> DEFINE e == OnlyAt(Head(candidates), Head(probing))
           left == Tail(candidates)
           made == Joined(verified, e)
<1>1. /\ world' = world /\ pc = "probe" /\ Hosted /\ Sorted /\ AtItsPlace
      /\ containers' = containers /\ verified' = made /\ trouble' = trouble /\ Begin(left)
  BY DEF Answers, PassInv
<1>2. candidates' = left
  BY <1>1 DEF Begin
<1>3. /\ candidates # <<>> /\ Engines(candidates) /\ Engines(containers) /\ Engines(verified)
      /\ OneEach(verified)
  BY <1>1 DEF Sorted, AtItsPlace
<1>4. Engines(left) /\ IsEngine(e) /\ e.pids = Head(candidates).pids
  <2>1. Head(probing) \in Addresses(Head(candidates))
    BY <1>1, HeadIsProbed DEF AtItsPlace
  <2> QED
    BY <1>3, <2>1, TailSeparate, OnlyAtIs
<1> HIDE DEF e
<1>5. JoinedTo(made, verified, e)
  BY <1>3, <1>4, JoinedJoins
<1> HIDE DEF made
<1>6. Engines(made) /\ OneEach(made)
  BY <1>3, <1>5 DEF JoinedTo
<1>7. ASSUME OneServerPerTree PROVE Separate(left, made)
  <2>1. Separate(candidates, verified)
    BY <1>1, <1>7 DEF Sorted
  <2>2. /\ Apart(left) /\ Clear(verified, e.pids)
        /\ \A i \in 1 .. Len(left) : e.pids \cap left[i].pids = {} /\ Clear(verified, left[i].pids)
    BY <1>3, <1>4, <2>1, TailSeparate DEF Separate
  <2> HIDE DEF left
  <2>3. Apart(made)
    BY <1>5, <2>1, <2>2 DEF JoinedTo, Separate
  <2>4. \A i \in 1 .. Len(left) : Clear(made, left[i].pids)
    BY <1>5, <2>2 DEF JoinedTo
  <2> QED
    BY <2>2, <2>3, <2>4 DEF Separate
<1> HIDE DEF left
<1>8. Sorted'
  BY <1>1, <1>2, <1>3, <1>4, <1>6, <1>7, SortedAgain
<1>9. AtItsPlace'
  BY <1>1, <1>4, BegunIsAtItsPlace DEF AtItsPlace
<1> QED
  BY <1>1, <1>8, <1>9, HostStays DEF PassInv

LEMMA SilenceSteps == ASSUME PassInv, DoesNotAnswer PROVE PassInv'
<1>1. /\ world' = world /\ pc = "probe" /\ Hosted /\ Sorted /\ AtItsPlace
      /\ containers' = containers /\ verified' = verified
      /\ trouble' \subseteq {"list", "top", "inspect", "probe"}
  BY DEF DoesNotAnswer, PassInv, AtItsPlace
<1>2. /\ candidates # <<>> /\ Engines(candidates) /\ Engines(containers) /\ Engines(verified)
      /\ OneEach(verified)
  BY <1>1 DEF Sorted, AtItsPlace
<1>3. CASE Len(probing) > 1
  <2>1. pc' = pc /\ candidates' = candidates
    BY <1>3 DEF DoesNotAnswer
  <2>2. Sorted'
    BY <1>1, <1>2, <2>1, SortedAgain DEF Sorted
  <2>3. AtItsPlace'
    <3>1. /\ probing' = Tail(probing) /\ IsList(probing) /\ probing # <<>>
          /\ \A k \in 1 .. Len(probing) : probing[k] \in Addresses(Head(candidates))
      BY <1>1, <1>3 DEF AtItsPlace, DoesNotAnswer
    <3> DEFINE rest == Tail(probing)
    <3>2. /\ IsList(rest) /\ Len(rest) = Len(probing) - 1 /\ Len(probing) \in Nat
          /\ \A k \in 1 .. Len(rest) : rest[k] = probing[k + 1] /\ k + 1 \in 1 .. Len(probing)
      BY <3>1, Beheaded, ListDomain
    <3> HIDE DEF rest
    <3>3. rest # <<>>
      BY <1>3, <3>2, EmptyList
    <3>4. \A k \in 1 .. Len(rest) : rest[k] \in Addresses(Head(candidates))
      BY <3>1, <3>2
    <3>5. (/\ probing # <<>> /\ IsList(probing)
           /\ \A k \in 1 .. Len(probing) : probing[k] \in Addresses(Head(candidates)))'
      BY <2>1, <3>1, <3>2, <3>3, <3>4 DEF IsList, Addresses, rest
    <3> QED
      BY <1>1, <1>2, <2>1, <3>5 DEF AtItsPlace
  <2> QED
    BY <1>1, <2>2, <2>3, HostStays DEF PassInv
<1>4. CASE ~(Len(probing) > 1)
  <2> DEFINE left == Tail(candidates)
  <2>1. Begin(left) /\ candidates' = left
    BY <1>4 DEF DoesNotAnswer, Begin
  <2>2. Engines(left)
    BY <1>2, TailSeparate
  <2>3. OneServerPerTree => Separate(left, verified)
    BY <1>1, <1>2, TailSeparate DEF Sorted, Separate
  <2> HIDE DEF left
  <2>4. Sorted'
    BY <1>1, <1>2, <2>1, <2>2, <2>3, SortedAgain
  <2>5. AtItsPlace'
    BY <1>1, <2>1, <2>2, BegunIsAtItsPlace
  <2> QED
    BY <1>1, <2>4, <2>5, HostStays DEF PassInv
<1> QED
  BY <1>3, <1>4

LEMMA PassStays == ASSUME PassInv, UNCHANGED vars PROVE PassInv'
<1>1. /\ world' = world /\ pc' = pc /\ trouble' = trouble /\ probing' = probing /\ todo' = todo
      /\ candidates' = candidates /\ containers' = containers /\ verified' = verified
      /\ Hosted /\ Sorted /\ AtItsPlace
  BY DEF vars, PassInv
<1>2. Sorted'
  BY <1>1, SortedAgain DEF Sorted
<1>3. AtItsPlace'
  BY <1>1 DEF AtItsPlace, IsList, Addresses
<1> QED
  BY <1>1, <1>2, <1>3, HostStays DEF PassInv

(* The invariant of a pass holds, whatever Docker and the servers answer.   *)
THEOREM PassInvHolds == Spec => []PassInv
<1>1. PassInv /\ [Next]_vars => PassInv'
  BY ScanSteps, ListSteps, ContainerSteps, MergeSteps, AnswerSteps, SilenceSteps, PassStays
  DEF Next
<1> QED
  BY <1>1, PassBegins, PTL DEF Spec

-----------------------------------------------------------------------------
(* What the lists hold, and where results answer.                            *)

(* Every process of the servers the scan reads, with all below them; and    *)
(* with those of the container.                                              *)
ServerPids == UNION {ExpandPidTree({p}) : p \in {q \in Pids : IsServer(q)}}
Kin == ServerPids \cup world.containers[1].pids

AllAnswer(s) == \A i \in 1 .. Len(s) : ProbeEngine(s[i].endpoint, s[i].engine_type)

Traced ==
    /\ pc \in {"list", "top"} => Held(candidates) = ServerPids
    /\ Held(containers) \subseteq world.containers[1].pids
    /\ Held(candidates) \cup Held(verified) \subseteq Kin
    /\ AllAnswer(verified)

(* The candidates of the scan have the trees of the servers, all of them    *)
(* and no process else.                                                      *)
LEMMA ScanHolds ==
    ASSUME IsList(world.procs)
    PROVE  Held(EnginesFromProcesses) = ServerPids
<1> DEFINE N == Len(world.procs)
           t == EnginesFromProcesses
<1>1. PICK s : ReadUpTo(N, s, Owned) /\ t = [i \in DOMAIN s |-> Holding(s[i], ExpandPidTree(s[i].pids))]
  BY ScanIs
<1> HIDE DEF t
<1>2. IsList(s) /\ DOMAIN s = 1 .. Len(s) /\ Len(s) \in Nat
  BY <1>1, ListDomain DEF ReadUpTo, Engines
<1>3. IsList(t) /\ Len(t) = Len(s)
  BY <1>1, <1>2, MappedList
<1>4. Pids = 1 .. N
  BY ListDomain DEF Pids
<1>5. \A i \in 1 .. Len(s) : t[i].pids = ExpandPidTree(s[i].pids)
  <2> SUFFICES ASSUME NEW i \in 1 .. Len(s) PROVE t[i].pids = ExpandPidTree(s[i].pids)
    OBVIOUS
  <2>1. IsRecord(s[i])
    BY <1>1 DEF ReadUpTo, Engines, IsEngine
  <2>2. t[i] = Holding(s[i], ExpandPidTree(s[i].pids))
    BY <1>1, <1>2
  <2> QED
    BY <2>1, <2>2, HoldingIs
<1>6. \A i \in 1 .. Len(s) : s[i].pids \in SUBSET Pids /\ \A p \in s[i].pids : p \in Pids /\ IsServer(p)
  BY <1>1, <1>4 DEF ReadUpTo, ServersUpTo, IsServer
<1>7. \A p \in Pids : IsServer(p) => \E i \in 1 .. Len(s) : p \in s[i].pids
  <2> SUFFICES ASSUME NEW p \in Pids, IsServer(p) PROVE \E i \in 1 .. Len(s) : p \in s[i].pids
    OBVIOUS
  <2>1. p \in ServersUpTo(N, Owned)
    BY <1>4 DEF ServersUpTo, IsServer
  <2> QED
    BY <1>1, <2>1 DEF ReadUpTo
<1>8. ASSUME NEW x \in Held(t) PROVE x \in ServerPids
  <2>1. PICK i \in 1 .. Len(s) : x \in ExpandPidTree(s[i].pids)
    BY <1>3, <1>5, <1>8, HeldIs
  <2>2. PICK p \in s[i].pids : x \in ExpandPidTree({p})
    BY <1>6, <2>1, TreeOfOne
  <2> QED
    BY <1>6, <2>2 DEF ServerPids
<1>9. ASSUME NEW x \in ServerPids PROVE x \in Held(t)
  <2>1. PICK p \in Pids : IsServer(p) /\ x \in ExpandPidTree({p})
    BY <1>9 DEF ServerPids
  <2>2. PICK i \in 1 .. Len(s) : p \in s[i].pids
    BY <1>7, <2>1
  <2>3. ExpandPidTree({p}) \subseteq ExpandPidTree(s[i].pids)
    <3> DEFINE tree == ExpandPidTree(s[i].pids)
    <3>1. tree \in SUBSET Pids /\ {p} \subseteq tree /\ Children(tree) \subseteq tree
      BY <1>6, <2>2, TreeIsOfPids, TreeHasRoots, TreeIsClosed
    <3> HIDE DEF tree
    <3>2. ExpandPidTree({p}) \subseteq tree
      BY <3>1, TreeIsLeast
    <3> QED
      BY <3>2 DEF tree
  <2>4. x \in t[i].pids
    BY <1>5, <2>1, <2>3
  <2> QED
    BY <1>3, <2>4, HeldIs
<1>10. \A x : x \in Held(t) <=> x \in ServerPids
  BY <1>8, <1>9
<1> QED
  BY <1>10 DEF t

LEMMA ProbesStay ==
    ASSUME world' = world
    PROVE  \A endpoint, type : ProbeEngine(endpoint, type)' = ProbeEngine(endpoint, type)
<1>1. \A endpoint : ServersAt(endpoint)' = ServersAt(endpoint)
  BY PidsStay DEF ServersAt
<1>2. \A p : EngineOfProcess(p)' = EngineOfProcess(p)
  BY DEF EngineOfProcess
<1> SUFFICES ASSUME NEW endpoint, NEW type
             PROVE  ProbeEngine(endpoint, type)' = ProbeEngine(endpoint, type)
  OBVIOUS
<1>3. ServersAt(endpoint)' = ServersAt(endpoint)
  BY <1>1
<1> DEFINE routes == UNION {Routes(EngineOfProcess(p)) : p \in ServersAt(endpoint)}
<1>4. routes' = routes
  BY <1>2, <1>3
<1> QED
  BY <1>4, Zenon DEF ProbeEngine

LEMMA ServersStay == ASSUME world' = world PROVE ServerPids' = ServerPids /\ Kin' = Kin
BY PidsStay DEF ServerPids, Kin, IsServer, ExpandPidTree, Children, Owned, Owners, Pids,
                EngineOfProcess, EndpointsOf, LaunchOf, EnvOf

LEMMA TracedAgain ==
    ASSUME world' = world, NEW left, NEW found, NEW made,
           candidates' = left, containers' = found, verified' = made,
           pc' \in {"list", "top"} => Held(left) = ServerPids,
           Held(found) \subseteq world.containers[1].pids,
           Held(left) \cup Held(made) \subseteq Kin,
           AllAnswer(made)
    PROVE  Traced'
<1>1. Held(candidates)' = Held(left) /\ Held(containers)' = Held(found) /\ Held(verified)' = Held(made)
  BY DEF Held
<1>2. AllAnswer(verified)'
  BY ProbesStay DEF AllAnswer
<1> QED
  BY <1>1, <1>2, ServersStay DEF Traced

LEMMA HoldsNone == Held(<<>>) = {} /\ AllAnswer(<<>>)
BY EmptyList DEF Held, AllAnswer

LEMMA TracedBegins == Init => Traced
BY HoldsNone DEF Init, Traced

LEMMA ScanTraces == ASSUME PassInv, ScanProcesses PROVE Traced'
<1> DEFINE left == EnginesFromProcesses
<1>1. world' = world /\ candidates' = left /\ containers' = <<>> /\ verified' = <<>>
  BY DEF ScanProcesses
<1>2. Held(left) = ServerPids
  BY ScanHolds DEF PassInv, Hosted
<1> HIDE DEF left
<1>3. Held(left) \cup Held(<<>>) \subseteq Kin
  BY <1>2, HoldsNone DEF Kin
<1> QED
  BY <1>1, <1>2, <1>3, HoldsNone, TracedAgain

LEMMA ListTraces == ASSUME PassInv, Traced, ListContainers PROVE Traced'
<1>1. /\ world' = world /\ pc = "list" /\ candidates' = candidates
      /\ containers' = containers /\ verified' = verified
  BY DEF ListContainers
<1> QED
  BY <1>1, TracedAgain DEF Traced

LEMMA ContainerTraces == ASSUME PassInv, Traced, ScanContainer PROVE Traced'
<1>1. /\ world' = world /\ pc = "top" /\ candidates' = candidates /\ verified' = verified
  BY DEF ScanContainer
<1>2. PICK d : /\ containers' = containers \o d
               /\ d = <<>> \/ \E e : /\ d = <<e>> /\ IsEngine(e)
                                     /\ e.pids \subseteq world.containers[1].pids
  BY ScannedContainer
<1>3. IsList(d) /\ Held(d) \subseteq world.containers[1].pids
  <2>1. CASE d = <<>>
    BY <2>1, EmptyList, HoldsNone
  <2>2. ASSUME NEW e, d = <<e>>, e.pids \subseteq world.containers[1].pids
        PROVE  IsList(d) /\ Held(d) \subseteq world.containers[1].pids
    BY <2>2 DEF IsList, Held
  <2> QED
    BY <1>2, <2>1, <2>2
<1>4. IsList(containers) /\ Held(containers) \subseteq world.containers[1].pids
  BY DEF PassInv, Sorted, Engines, Traced
<1> DEFINE found == containers \o d
<1>5. Held(found) \subseteq Held(containers) \cup Held(d)
  <2>1. /\ IsList(found) /\ \A i \in 1 .. Len(containers) : found[i] = containers[i]
        /\ \A i \in 1 .. Len(found) :
              \/ i \in 1 .. Len(containers)
              \/ i - Len(containers) \in 1 .. Len(d) /\ found[i] = d[i - Len(containers)]
    BY <1>3, <1>4, Joint
  <2> HIDE DEF found
  <2> QED
    BY <2>1 DEF Held
<1>6. containers' = found
  BY <1>2
<1> HIDE DEF found
<1>7. Held(found) \subseteq world.containers[1].pids
  BY <1>3, <1>4, <1>5
<1> QED
  BY <1>1, <1>6, <1>7, TracedAgain DEF Traced

(* What is left and the first engine hold what the list held.               *)
LEMMA TailHolds ==
    ASSUME NEW s, Engines(s), s # <<>>
    PROVE  Held(Tail(s)) \subseteq Held(s) /\ Head(s).pids \subseteq Held(s)
<1>1. /\ Head(s) = s[1] /\ 1 \in 1 .. Len(s)
      /\ \A i \in 1 .. Len(Tail(s)) : Tail(s)[i] = s[i + 1] /\ i + 1 \in 1 .. Len(s)
  BY Beheaded DEF Engines
<1>2. ASSUME NEW x \in Held(Tail(s)) PROVE x \in Held(s)
  <2>1. PICK i \in 1 .. Len(Tail(s)) : x \in Tail(s)[i].pids
    BY <1>2, HeldIs
  <2>2. x \in s[i + 1].pids /\ i + 1 \in 1 .. Len(s)
    BY <1>1, <2>1
  <2> QED
    BY <2>2, HeldIs
<1>3. ASSUME NEW x \in Head(s).pids PROVE x \in Held(s)
  BY <1>1, <1>3, HeldIs
<1> QED
  BY <1>2, <1>3

LEMMA MergeHolds ==
    ASSUME PassInv, Merge
    PROVE  /\ candidates' = Merged(candidates, containers)
           /\ Held(candidates') = Held(candidates) \cup Held(containers)
           /\ pc = "top" /\ pc' \in {"probe", "done"}
<1>1. pc = "top" /\ Begin(Merged(candidates, containers))
  BY DEF Merge
<1>2. candidates' = Merged(candidates, containers) /\ pc' \in {"probe", "done"}
  BY <1>1 DEF Begin
<1>3. Engines(candidates) /\ Engines(containers)
  BY DEF PassInv, Sorted
<1>4. Held(Merged(candidates, containers)) = Held(candidates) \cup Held(containers)
  BY <1>3, MergeKeepsProcesses
<1> QED
  BY <1>1, <1>2, <1>4

LEMMA MergeTraces == ASSUME PassInv, Traced, Merge PROVE Traced'
<1> DEFINE left == Merged(candidates, containers)
<1>1. world' = world /\ containers' = containers /\ verified' = verified
  BY DEF Merge
<1>2. /\ candidates' = left /\ pc' \in {"probe", "done"} /\ pc = "top"
      /\ Held(left) = Held(candidates) \cup Held(containers)
  BY MergeHolds
<1> HIDE DEF left
<1>3. Held(left) \cup Held(verified) \subseteq Kin
  BY <1>2 DEF Traced, Kin
<1> QED
  BY <1>1, <1>2, <1>3, TracedAgain DEF Traced

LEMMA AnswerTraces == ASSUME PassInv, Traced, Answers PROVE Traced'
<1> DEFINE e == OnlyAt(Head(candidates), Head(probing))
           left == Tail(candidates)
           made == Joined(verified, e)
<1>1. /\ world' = world /\ pc = "probe" /\ containers' = containers /\ verified' = made
      /\ ProbeEngine(Head(probing), Head(candidates).engine_type) /\ Begin(left)
  BY DEF Answers
<1>2. candidates' = left /\ pc' \in {"probe", "done"}
  BY <1>1 DEF Begin
<1>3. /\ candidates # <<>> /\ Engines(candidates) /\ Engines(verified)
      /\ Head(probing) \in Addresses(Head(candidates))
  BY <1>1, HeadIsProbed DEF PassInv, Sorted, AtItsPlace
<1>4. /\ IsEngine(e) /\ e.pids = Head(candidates).pids
      /\ e.engine_type = Head(candidates).engine_type /\ e.endpoint = Head(probing)
  BY <1>3, TailSeparate, OnlyAtIs
<1>5. Held(left) \subseteq Held(candidates) /\ e.pids \subseteq Held(candidates)
  BY <1>3, <1>4, TailHolds
<1> HIDE DEF e, left
<1>6. JoinedTo(made, verified, e)
  BY <1>3, <1>4, JoinedJoins
<1> HIDE DEF made
<1>7. Held(left) \cup Held(made) \subseteq Kin
  BY <1>5, <1>6 DEF Traced, JoinedTo
<1>8. AllAnswer(made)
  <2> SUFFICES ASSUME NEW i \in 1 .. Len(made)
               PROVE  ProbeEngine(made[i].endpoint, made[i].engine_type)
    BY DEF AllAnswer
  <2>1. \/ Matches(made[i], e.engine_type, e.endpoint)
        \/ \E j \in 1 .. Len(verified) :
              Matches(made[i], verified[j].engine_type, verified[j].endpoint)
    BY <1>6 DEF JoinedTo
  <2> QED
    BY <1>1, <1>4, <2>1 DEF Matches, Traced, AllAnswer
<1> QED
  BY <1>1, <1>2, <1>7, <1>8, TracedAgain DEF Traced

LEMMA SilenceTraces == ASSUME PassInv, Traced, DoesNotAnswer PROVE Traced'
<1>1. /\ world' = world /\ pc = "probe" /\ containers' = containers /\ verified' = verified
  BY DEF DoesNotAnswer
<1>2. candidates # <<>> /\ Engines(candidates)
  BY <1>1 DEF PassInv, Sorted, AtItsPlace
<1>3. pc' \in {"probe", "done"} /\ (candidates' = candidates \/ candidates' = Tail(candidates))
  BY <1>1 DEF DoesNotAnswer, Begin
<1>4. Held(Tail(candidates)) \subseteq Held(candidates)
  BY <1>2, TailHolds
<1>5. CASE candidates' = candidates
  BY <1>1, <1>3, <1>5, TracedAgain DEF Traced
<1>6. CASE candidates' = Tail(candidates)
  <2> DEFINE left == Tail(candidates)
  <2>1. candidates' = left /\ Held(left) \cup Held(verified) \subseteq Kin
    BY <1>4, <1>6 DEF Traced
  <2> HIDE DEF left
  <2> QED
    BY <1>1, <1>3, <2>1, TracedAgain DEF Traced
<1> QED
  BY <1>3, <1>5, <1>6

LEMMA TracedStays == ASSUME Traced, UNCHANGED vars PROVE Traced'
<1>1. /\ world' = world /\ pc' = pc /\ candidates' = candidates
      /\ containers' = containers /\ verified' = verified
  BY DEF vars
<1> QED
  BY <1>1, TracedAgain DEF Traced

(* What the lists hold, and that results answer, is so at every await: the  *)
(* probes only ever narrow what the merge left.                             *)
THEOREM TracedHolds == Spec => []Traced
<1>1. PassInv /\ Traced /\ [Next]_vars => Traced'
  BY ScanTraces, ListTraces, ContainerTraces, MergeTraces, AnswerTraces, SilenceTraces, TracedStays
  DEF Next
<1> QED
  BY <1>1, TracedBegins, PassInvHolds, PTL DEF Spec

(* Every reachable state of a pass is well typed: the lists hold engines of *)
(* the table's processes, and one is from Docker if it has a container.     *)
THEOREM DetectionTypeOK == Spec => []TypeOK
<1>1. PassInv => TypeOK
  <2> SUFFICES ASSUME PassInv PROVE TypeOK
    OBVIOUS
  <2>1. AtItsPlace /\ Engines(candidates) /\ Engines(containers) /\ Engines(verified)
    BY DEF PassInv, Sorted
  <2> DEFINE some == candidates \o containers
             all == candidates \o containers \o verified
  <2>2. Engines(some)
    BY <2>1, Joint DEF Engines
  <2> HIDE DEF some
  <2>3. Engines(some \o verified)
    BY <2>1, <2>2, Joint DEF Engines
  <2>4. Engines(all)
    BY <2>3 DEF some
  <2> HIDE DEF all
  <2>5. ASSUME NEW e \in ToSet(all) PROVE IsEngine(e)
    BY <2>4, <2>5, ListDomain DEF Engines, ToSet
  <2> QED
    BY <2>1, <2>5 DEF AtItsPlace, TypeOK, IsEngine, all
<1> QED
  BY <1>1, PassInvHolds, PTL

(* A pass returns one engine of each type on each endpoint.                 *)
ResultsDiffer ==
    \A i, j \in DOMAIN verified :
        i # j => \/ verified[i].engine_type # verified[j].engine_type
                 \/ verified[i].endpoint # verified[j].endpoint

(* join_on_endpoint leaves no second result to be listed beside the first.  *)
THEOREM ResultsDifferHolds == Spec => []ResultsDiffer
<1>1. PassInv => ResultsDiffer
  <2> SUFFICES ASSUME PassInv PROVE ResultsDiffer
    OBVIOUS
  <2>1. OneEach(verified) /\ DOMAIN verified = 1 .. Len(verified)
    BY ListDomain DEF PassInv, Sorted, Engines
  <2> QED
    BY <2>1 DEF OneEach, Matches, ResultsDiffer
<1> QED
  BY <1>1, PassInvHolds, PTL

(* A process's GPU memory is counted for one engine, whatever failed, where *)
(* no server starts another: the scan's candidates are apart since process *)
(* trees meet at roots only, and every container claims its processes      *)
(* before any joins.                                                        *)
THEOREM ProcessHasOneEngineHolds == Spec => []ProcessHasOneEngine
<1>1. PassInv => ProcessHasOneEngine
  <2> SUFFICES ASSUME PassInv PROVE ProcessHasOneEngine
    OBVIOUS
  <2>1. DOMAIN verified = 1 .. Len(verified) /\ (OneServerPerTree => Apart(verified))
    BY ListDomain DEF PassInv, Sorted, Engines, Separate
  <2> QED
    BY <2>1 DEF Apart, ProcessHasOneEngine
<1> QED
  BY <1>1, PassInvHolds, PTL

(* Merging loses no server that the scan read, and no process below one,    *)
(* and makes none up: what the candidates held and what the containers do   *)
(* is what is probed next.                                                   *)
MergeKeepsServers ==
    [][Merge => Held(candidates') = ServerPids \cup Held(containers)]_vars

(* Every step that merges does so.                                          *)
THEOREM MergeKeepsServersHolds == Spec => MergeKeepsServers
<1>1. PassInv /\ Traced /\ [Next]_vars
      => [Merge => Held(candidates') = ServerPids \cup Held(containers)]_vars
  <2> SUFFICES ASSUME PassInv, Traced, Merge
               PROVE  Held(candidates') = ServerPids \cup Held(containers)
    OBVIOUS
  <2> QED
    BY MergeHolds DEF Traced
<1> QED
  BY <1>1, PassInvHolds, TracedHolds, PTL DEF Spec, MergeKeepsServers

(* No process is counted for an engine but those of a server the scan reads *)
(* and those of the container: a bystander's memory is nobody's.            *)
OnlyKinIsCounted == \A i \in DOMAIN verified : verified[i].pids \subseteq Kin

(* No result of a pass has a process that is nobody's.                      *)
THEOREM OnlyKinIsCountedHolds == Spec => []OnlyKinIsCounted
<1>1. PassInv /\ Traced => OnlyKinIsCounted
  <2> SUFFICES ASSUME PassInv, Traced, NEW i \in DOMAIN verified
               PROVE  verified[i].pids \subseteq Kin
    BY DEF OnlyKinIsCounted
  <2>1. i \in 1 .. Len(verified)
    BY ListDomain DEF PassInv, Sorted, Engines
  <2>2. verified[i].pids \subseteq Held(verified)
    BY <2>1, HeldIs
  <2> QED
    BY <2>2 DEF Traced
<1> QED
  BY <1>1, PassInvHolds, TracedHolds, PTL

(* Every result answers as its type where it says, and somebody entitled    *)
(* named that address: a server of that type that is nobody's child, or the *)
(* scan of the result's own container.                                       *)
ResultsAreNamed ==
    \A i \in DOMAIN verified :
        /\ ProbeEngine(verified[i].endpoint, verified[i].engine_type)
        /\ verified[i].endpoint \in
              OwnNamed(verified[i].engine_type)
              \cup ContainerNamed(verified[i].container, verified[i].engine_type)

(* No result of a pass is a guess of its own: the three layers only pass    *)
(* addresses on, and verify_candidates leaves the one that answered.        *)
THEOREM ResultsAreNamedHolds == Spec => []ResultsAreNamed
<1>1. PassInv /\ Traced => ResultsAreNamed
  <2> SUFFICES ASSUME PassInv, Traced, NEW i \in DOMAIN verified
               PROVE  /\ ProbeEngine(verified[i].endpoint, verified[i].engine_type)
                      /\ verified[i].endpoint \in
                            OwnNamed(verified[i].engine_type)
                            \cup ContainerNamed(verified[i].container, verified[i].engine_type)
    BY DEF ResultsAreNamed
  <2>1. i \in 1 .. Len(verified)
    BY ListDomain DEF PassInv, Sorted, Engines
  <2>2. ProbeEngine(verified[i].endpoint, verified[i].engine_type)
    BY <2>1 DEF Traced, AllAnswer
  <2>3. Sourced(verified[i]) /\ verified[i].endpoint \in Addresses(verified[i])
    BY <2>1 DEF PassInv, Sorted, Engines, IsEngine, Addresses
  <2> QED
    BY <2>2, <2>3 DEF Sourced
<1> QED
  BY <1>1, PassInvHolds, TracedHolds, PTL

-----------------------------------------------------------------------------
(* Children of servers.                                                      *)

(* The way up from a process.                                                *)
Climbing(h, n, p) ==
    h = [k \in 0 .. n |->
           IF k = 0 THEN p ELSE IF h[k - 1] \in Pids THEN world.procs[h[k - 1]].parent ELSE 0]

LEMMA ClimbingExists ==
    ASSUME NEW n \in Nat, NEW p
    PROVE  \E h : Climbing(h, n, p)
<1> DEFINE Up(q) == IF q \in Pids THEN world.procs[q].parent ELSE 0
           bad == {k \in Nat : ~\E h : Climbing(h, k, p)}
<1> SUFFICES ASSUME bad # {} PROVE FALSE
  OBVIOUS
<1>1. PICK m \in bad : \A k \in bad : m <= k
  BY SmallestNumber
<1>2. CASE m = 0
  <2> DEFINE h == [k \in 0 .. 0 |-> p]
  <2>1. Climbing(h, 0, p)
    BY DEF Climbing
  <2> QED
    BY <1>2, <2>1
<1>3. CASE m # 0
  <2>1. m - 1 \in Nat /\ m - 1 \notin bad
    BY <1>1, <1>3
  <2>2. PICK g : Climbing(g, m - 1, p)
    BY <2>1
  <2>3. g = [k \in 0 .. (m - 1) |-> IF k = 0 THEN p ELSE Up(g[k - 1])]
    BY <2>2 DEF Climbing
  <2> HIDE DEF Up
  <2> DEFINE h == [k \in 0 .. m |-> IF k = m THEN Up(g[m - 1]) ELSE g[k]]
  <2>4. ASSUME NEW k \in 0 .. m
        PROVE  h[k] = IF k = 0 THEN p ELSE Up(h[k - 1])
    <3>1. CASE k = m
      BY <1>3, <3>1
    <3>2. CASE k # m
      <4>1. k \in 0 .. (m - 1)
        BY <3>2
      <4>2. g[k] = IF k = 0 THEN p ELSE Up(g[k - 1])
        BY <2>3, <4>1
      <4>3. h[k] = g[k] /\ (k # 0 => h[k - 1] = g[k - 1])
        BY <3>2, <4>1
      <4> QED
        BY <4>2, <4>3
    <3> QED
      BY <3>1, <3>2
  <2>5. h = [k \in 0 .. m |-> IF k = 0 THEN p ELSE Up(h[k - 1])]
    BY <2>4
  <2>6. Climbing(h, m, p)
    BY <2>5 DEF Climbing, Up
  <2> QED
    BY <2>6
<1> QED
  BY <1>2, <1>3

(* Below an owner is owned, at any depth.                                    *)
LEMMA BelowOwnerIsOwned ==
    ASSUME NEW p \in Pids, world.procs[p].parent \in Owners \cup Owned
    PROVE  p \in Owned
<1>1. Children(Owners) \in SUBSET Pids
  BY DEF Children
<1>2. CASE world.procs[p].parent \in Owners
  BY <1>1, <1>2, TreeHasRoots DEF Owned, Children
<1>3. CASE world.procs[p].parent \in Owned
  BY <1>3, TreeIsClosed DEF Owned, Children
<1> QED
  BY <1>2, <1>3

(* So what is not owned has no server of the two owning kinds above it.     *)
LEMMA NotOwnedIsOwn ==
    ASSUME IsList(world.procs), NEW p \in Pids, p \notin Owned
    PROVE  OwnServer(p)
<1> DEFINE N == Cardinality(Pids)
           a == CHOOSE h : h = [k \in 0 .. N |->
                   IF k = 0 THEN p
                   ELSE LET q == h[k - 1] IN IF q \in Pids THEN world.procs[q].parent ELSE 0]
           owned == {k \in 0 .. N : a[k] \in Owned}
<1>1. AncestorsOf(p) = {a[k] : k \in 1 .. N} \cap Pids
  BY DEF AncestorsOf
<1>2. N \in Nat /\ 0 \notin Pids
  <2>1. Pids = 1 .. Len(world.procs) /\ Len(world.procs) \in Int /\ 1 \in Int
    BY ListDomain DEF Pids
  <2>2. IsFiniteSet(1 .. Len(world.procs))
    BY <2>1, FS_Interval
  <2>3. N \in Nat
    BY <2>1, <2>2, FS_CardinalityType
  <2> QED
    BY <2>1, <2>3
<1> HIDE DEF N
<1>3. Climbing(a, N, p)
  <2>1. \E h : Climbing(h, N, p)
    BY <1>2, ClimbingExists
  <2> QED
    BY <2>1 DEF Climbing
<1> HIDE DEF a
<1>4. a[0] = p
  BY <1>2, <1>3 DEF Climbing
<1>5. ASSUME NEW k \in 1 .. N, a[k] \in Pids, a[k] \in Owners \cup Owned
      PROVE  a[k - 1] \in Owned
  <2>1. k \in 0 .. N /\ k # 0
    BY <1>2
  <2>2. a[k] = IF a[k - 1] \in Pids THEN world.procs[a[k - 1]].parent ELSE 0
    BY <1>3, <2>1 DEF Climbing
  <2>3. a[k - 1] \in Pids /\ world.procs[a[k - 1]].parent \in Owners \cup Owned
    BY <1>2, <1>5, <2>2
  <2> QED
    BY <2>3, BelowOwnerIsOwned
<1>6. owned = {}
  <2> SUFFICES ASSUME owned # {} PROVE FALSE
    OBVIOUS
  <2>1. owned \in SUBSET Nat
    BY <1>2
  <2>2. PICK m \in owned : \A k \in owned : m <= k
    <3> HIDE DEF owned
    <3> QED
      BY <2>1, SmallestNumber
  <2>3. m \in 0 .. N /\ a[m] \in Owned
    BY <2>2
  <2>4. m # 0
    BY <1>4, <2>3
  <2>5. m \in 1 .. N /\ m - 1 \in 0 .. N /\ ~(m <= m - 1)
    BY <1>2, <2>3, <2>4
  <2>6. a[m] \in Pids
    BY <2>3, TreeIsOfPids DEF Owned
  <2>7. a[m - 1] \in Owned
    BY <1>5, <2>3, <2>5, <2>6
  <2> QED
    BY <2>2, <2>5, <2>7
<1>7. ASSUME NEW q \in AncestorsOf(p),
             IsOllamaServer(world.procs[q].cmd) \/ IsLlamaServer(world.procs[q].cmd)
      PROVE  FALSE
  <2>1. PICK k \in 1 .. N : q = a[k] /\ a[k] \in Pids
    BY <1>1, <1>7
  <2>2. q \in Owners
    BY <1>7, <2>1 DEF Owners, EngineOfProcess, EngineOfCommand
  <2>3. a[k - 1] \in Owned /\ k - 1 \in 0 .. N
    BY <1>2, <1>5, <2>1, <2>2
  <2> QED
    BY <1>6, <2>3
<1> QED
  BY <1>7 DEF OwnServer

(* What answers has a server there.                                          *)
LEMMA AnswersAreServed ==
    ASSUME NEW endpoint, NEW type \in EngineTypes, ProbeEngine(endpoint, type)
    PROVE  ServersAt(endpoint) # {}
<1> DEFINE routes == UNION {Routes(EngineOfProcess(p)) : p \in ServersAt(endpoint)}
<1>1. \E route : route \in routes
  <2> HIDE DEF routes
  <2>1. \/ type = "Vllm" \/ type = "Sglang" \/ type = "Ollama" \/ type = "LlamaCpp"
    BY DEF EngineTypes
  <2>2. /\ type = "Vllm" => "/health" \in routes
        /\ type = "Sglang" => "/model_info" \in routes
        /\ type = "Ollama" => {"/api/version", "/api/ps"} \subseteq routes
        /\ type = "LlamaCpp" => "header" \in routes
    BY Zenon DEF ProbeEngine, routes
  <2> QED
    BY <2>1, <2>2
<1> QED
  BY <1>1

(* A host where no address that a server of its own or the container names  *)
(* is one that a child of Ollama or of a llama.cpp router listens on.       *)
NoChildIsNamed ==
    /\ \A type \in EngineTypes : \A a \in OwnNamed(type) : ServersAt(a) \cap Owned = {}
    /\ \A e \in {d[1] : d \in AllScans \ {<<>>}} :
          ~Assumed(e) => \A a \in Addresses(e) : ServersAt(a) \cap Owned = {}

(* The children of Ollama and of a llama.cpp router are never engines, at   *)
(* any depth and whatever failed, though they run as engines and answer as  *)
(* such: for that, somebody else would have to name their port.             *)
THEOREM ChildIsNeverAnEngineHolds == Spec => [](NoChildIsNamed => ChildIsNeverAnEngine)
<1>1. PassInv /\ Traced => (NoChildIsNamed => ChildIsNeverAnEngine)
  <2> SUFFICES ASSUME PassInv, Traced, NoChildIsNamed, NEW i \in DOMAIN verified,
                      ~Assumed(verified[i])
               PROVE  \E p \in ServersAt(verified[i].endpoint) : OwnServer(p)
    BY DEF ChildIsNeverAnEngine
  <2> DEFINE e == verified[i]
  <2>1. i \in 1 .. Len(verified)
    BY ListDomain DEF PassInv, Sorted, Engines
  <2>2. ProbeEngine(e.endpoint, e.engine_type)
    BY <2>1 DEF Traced, AllAnswer
  <2>3. IsEngine(e) /\ ~Assumed(e)
    BY <2>1 DEF PassInv, Sorted, Engines
  <2> HIDE DEF e
  <2>4. e.endpoint \in OwnNamed(e.engine_type) \cup ContainerNamed(e.container, e.engine_type)
    BY <2>3 DEF IsEngine, Sourced, Addresses
  <2>5. ServersAt(e.endpoint) \cap Owned = {}
    <3>1. CASE e.endpoint \in OwnNamed(e.engine_type)
      BY <2>3, <3>1 DEF NoChildIsNamed, IsEngine
    <3>2. CASE e.endpoint \in ContainerNamed(e.container, e.engine_type)
      <4>1. PICK f \in ScannedIn(e.container, e.engine_type) : e.endpoint \in Addresses(f)
        BY <3>2 DEF ContainerNamed
      <4>2. /\ f \in {d[1] : d \in AllScans \ {<<>>}}
            /\ f.engine_type = e.engine_type /\ f.container = e.container
        BY <4>1 DEF ScannedIn
      <4>3. ~Assumed(f)
        BY <2>3, <4>2 DEF Assumed
      <4> QED
        BY <4>1, <4>2, <4>3 DEF NoChildIsNamed
    <3> QED
      BY <2>4, <3>1, <3>2
  <2>6. PICK p \in ServersAt(e.endpoint) : TRUE
    BY <2>2, <2>3, AnswersAreServed DEF IsEngine
  <2>7. p \in Pids /\ p \notin Owned
    BY <2>5, <2>6 DEF ServersAt
  <2>8. OwnServer(p)
    BY <2>7, NotOwnedIsOwn DEF PassInv, Hosted
  <2> QED
    BY <2>6, <2>8 DEF e
<1> QED
  BY <1>1, PassInvHolds, TracedHolds, PTL

-----------------------------------------------------------------------------
(* Ports.                                                                    *)

PortsOf(e) == {a.port : a \in Addresses(e)}

(* What Docker's scan may make of the container when its processes are      *)
(* listed, and who it then swallows.                                         *)
Listings == {DockerCandidate(world.containers[1], world.containers[1].pids, env) :
                env \in {world.containers[1].env, BlankEnv}}
Taken(e, found) == \E k \in 1 .. Len(found) : Swallowed(e, found[k])

(* A host where no two candidates name the same port: not two of the        *)
(* process scan that no container swallows, and none of those together with *)
(* the container's, unless they are joined as one.                           *)
PortsAreNamedOnce ==
    \A found \in Listings :
       LET scan == EnginesFromProcesses
       IN  /\ \A i, j \in 1 .. Len(scan) :
                 i # j /\ ~Taken(scan[i], found) /\ ~Taken(scan[j], found)
                 => PortsOf(scan[i]) \cap PortsOf(scan[j]) = {}
           /\ \A i \in 1 .. Len(scan), k \in 1 .. Len(found) :
                 \/ Taken(scan[i], found) \/ Assumed(found[k])
                 \/ Matches(scan[i], found[k].engine_type, found[k].endpoint)
                 \/ PortsOf(scan[i]) \cap PortsOf(found[k]) = {}

(* Two engines that are not looked for in one place, unless one of them has *)
(* an assumed port; in a list of what is left, and with a list of results.  *)
Foreign(e, f) == Assumed(e) \/ Assumed(f) \/ PortsOf(e) \cap PortsOf(f) = {}
AllForeign(s) == \A i, j \in 1 .. Len(s) : i # j => Foreign(s[i], s[j])
OffPort(e, f) == Assumed(e) \/ Assumed(f) \/ f.endpoint.port \notin PortsOf(e)
AllOff(s, made) == \A i \in 1 .. Len(s), j \in 1 .. Len(made) : OffPort(s[i], made[j])
OnePort(e, f) == Assumed(e) \/ Assumed(f) \/ e.endpoint.port # f.endpoint.port
AllOnePort(made) == \A i, j \in 1 .. Len(made) : i # j => OnePort(made[i], made[j])

LEMMA KeptPorts ==
    ASSUME NEW e, IsEngine(e), NEW c
    PROVE  /\ PortsOf(Kept(e, c)) = PortsOf(e) /\ Assumed(Kept(e, c)) = Assumed(e)
           /\ \A type, endpoint : Matches(Kept(e, c), type, endpoint) = Matches(e, type, endpoint)
<1>1. /\ Kept(e, c).engine_type = e.engine_type /\ Kept(e, c).endpoint = e.endpoint
      /\ Kept(e, c).fallbacks = e.fallbacks /\ Kept(e, c).container = e.container
  BY KeptIs
<1>2. Addresses(Kept(e, c)) = Addresses(e)
  BY <1>1 DEF Addresses
<1> QED
  BY <1>1, <1>2 DEF PortsOf, Assumed, Matches

LEMMA SamePorts ==
    ASSUME NEW d, NEW c, SameButModel(d, c)
    PROVE  /\ PortsOf(d) = PortsOf(c) /\ Assumed(d) = Assumed(c)
           /\ d.engine_type = c.engine_type /\ d.endpoint = c.endpoint
<1>1. /\ d.engine_type = c.engine_type /\ d.endpoint = c.endpoint
      /\ d.fallbacks = c.fallbacks /\ d.container = c.container
  BY DEF SameButModel
<1>2. Addresses(d) = Addresses(c)
  BY <1>1 DEF Addresses
<1> QED
  BY <1>1, <1>2 DEF PortsOf, Assumed

(* In one container's world, joining an engine with an assumed one of its   *)
(* type leaves an assumed one.                                               *)
LEMMA JoiningPorts ==
    ASSUME Hosted, NEW e, IsEngine(e), NEW c, IsEngine(c), e.engine_type = c.engine_type
    PROVE  /\ PortsOf(Joining(e, c)) \subseteq PortsOf(e) \cup PortsOf(c)
           /\ Assumed(e) \/ Assumed(c) => Assumed(Joining(e, c))
<1> DEFINE f == WithFallbacks(e, c)
           j == Joining(e, c)
<1>1. /\ j.engine_type = e.engine_type /\ j.endpoint = e.endpoint /\ j.fallbacks = f
      /\ j.container = IF e.container = None THEN c.container ELSE e.container
  BY DEF Joining
<1>2. FallbacksUpTo(Len(c.fallbacks), f, e, c)
  BY FallbacksAre DEF IsEngine
<1> HIDE DEF f, j
<1>3. Addresses(j) \subseteq Addresses(e) \cup Addresses(c)
  BY <1>1, <1>2 DEF Addresses, FallbacksUpTo
<1>4. PortsOf(j) \subseteq PortsOf(e) \cup PortsOf(c)
  BY <1>3 DEF PortsOf
<1>5. DOMAIN world.containers = {1} /\ world.containers[1].id # None
  <2>1. DOMAIN world.containers = 1 .. 1 /\ 1 .. 1 = {1}
    BY ListDomain DEF Hosted
  <2> QED
    BY <2>1 DEF Hosted, IsContainer
<1>6. /\ e.container \in {None, world.containers[1].id}
      /\ c.container \in {None, world.containers[1].id}
  BY DEF IsEngine, Sourced
<1>7. ASSUME Assumed(e) \/ Assumed(c) PROVE Assumed(j)
  <2>1. j.container = world.containers[1].id /\ j.engine_type = c.engine_type
    BY <1>1, <1>5, <1>6, <1>7 DEF Assumed
  <2> QED
    BY <1>1, <1>5, <1>7, <2>1 DEF Assumed
<1> QED
  BY <1>4, <1>7 DEF j

(* The two loops of the merge, of a container or none.                      *)
LEMMA MergedNone ==
    ASSUME NEW engines
    PROVE  Merged(engines, <<>>) = engines
<1> DEFINE g == CHOOSE h : h = [n \in 0 .. 0 |->
                   IF n = 0 THEN [candidates |-> engines, found |-> <<>>]
                   ELSE LET a == Absorbed(h[n - 1].candidates, <<>>[n])
                        IN  [candidates |-> a.candidates,
                             found |-> Append(h[n - 1].found, a.container)]]
           j == CHOOSE h : h = [n \in 0 .. 0 |->
                   IF n = 0 THEN g[0].candidates ELSE Joined(h[n - 1], g[0].found[n])]
<1>1. Merged(engines, <<>>) = j[0]
  BY EmptyList DEF Merged
<1>2. JoiningAll(j, 0, g[0].candidates, g[0].found)
  <2> HIDE DEF g
  <2>1. \E h : JoiningAll(h, 0, g[0].candidates, g[0].found)
    BY JoiningAllExists
  <2> QED
    BY <2>1 DEF JoiningAll
<1> HIDE DEF j
<1>3. ClaimingAll(g, 0, engines, <<>>)
  <2>1. \E h : ClaimingAll(h, 0, engines, <<>>)
    BY ClaimingAllExists
  <2> QED
    BY <2>1 DEF ClaimingAll, ClaimStep
<1> HIDE DEF g
<1>4. j[0] = g[0].candidates
  BY <1>2 DEF JoiningAll
<1>5. g[0] = [candidates |-> engines, found |-> <<>>]
  BY <1>3 DEF ClaimingAll
<1> QED
  BY <1>1, <1>4, <1>5

LEMMA MergedOne ==
    ASSUME NEW engines, NEW c, NEW cs, NEW d,
           Absorbed(engines, c) = [candidates |-> cs, container |-> d]
    PROVE  Merged(engines, <<c>>) = Joined(cs, d)
<1> DEFINE found == <<c>>
           g == CHOOSE h : h = [n \in 0 .. 1 |->
                   IF n = 0 THEN [candidates |-> engines, found |-> <<>>]
                   ELSE LET a == Absorbed(h[n - 1].candidates, found[n])
                        IN  [candidates |-> a.candidates,
                             found |-> Append(h[n - 1].found, a.container)]]
           j == CHOOSE h : h = [n \in 0 .. 1 |->
                   IF n = 0 THEN g[1].candidates ELSE Joined(h[n - 1], g[1].found[n])]
<1>1. Len(found) = 1 /\ found[1] = c
  OBVIOUS
<1> HIDE DEF found
<1>2. Merged(engines, found) = j[1]
  BY <1>1 DEF Merged
<1>3. JoiningAll(j, 1, g[1].candidates, g[1].found)
  <2> HIDE DEF g
  <2>1. \E h : JoiningAll(h, 1, g[1].candidates, g[1].found)
    BY JoiningAllExists
  <2> QED
    BY <2>1 DEF JoiningAll
<1> HIDE DEF j
<1>4. ClaimingAll(g, 1, engines, found)
  <2>1. \E h : ClaimingAll(h, 1, engines, found)
    BY ClaimingAllExists
  <2> QED
    BY <2>1 DEF ClaimingAll, ClaimStep
<1> HIDE DEF g
<1>5. g[0] = [candidates |-> engines, found |-> <<>>] /\ g[1] = ClaimStep(g[0], found[1])
  <2>1. \A k \in 0 .. 1 : g[k] = IF k = 0 THEN [candidates |-> engines, found |-> <<>>]
                                 ELSE ClaimStep(g[k - 1], found[k])
    BY <1>4 DEF ClaimingAll
  <2>2. 0 \in 0 .. 1 /\ 1 \in 0 .. 1 /\ 1 # 0 /\ 1 - 1 = 0
    OBVIOUS
  <2> QED
    BY <2>1, <2>2
<1>6. g[1] = [candidates |-> cs, found |-> <<d>>]
  <2>1. ClaimStep([candidates |-> engines, found |-> <<>>], c)
          = [candidates |-> cs, found |-> Append(<<>>, d)]
    BY DEF ClaimStep
  <2>2. Append(<<>>, d) = <<d>>
    OBVIOUS
  <2> QED
    BY <1>1, <1>5, <2>1, <2>2
<1>7. j[0] = cs /\ j[1] = Joined(j[0], <<d>>[1])
  <2>1. \A k \in 0 .. 1 : j[k] = IF k = 0 THEN g[1].candidates ELSE Joined(j[k - 1], g[1].found[k])
    BY <1>3 DEF JoiningAll
  <2>2. 0 \in 0 .. 1 /\ 1 \in 0 .. 1 /\ 1 # 0 /\ 1 - 1 = 0
    OBVIOUS
  <2> QED
    BY <1>6, <2>1, <2>2
<1> QED
  BY <1>2, <1>7 DEF found

LEMMA ForeignIs == \A e, f : Foreign(e, f) <=> Foreign(f, e)
BY DEF Foreign

(* A candidate joined to others: by its one match, or at the end.           *)
LEMMA JoinedForeign ==
    ASSUME Hosted, NEW s, Engines(s), NEW c, IsEngine(c), AllForeign(s),
           \A i \in 1 .. Len(s) : Matches(s[i], c.engine_type, c.endpoint) \/ Foreign(s[i], c),
           \A i, j \in 1 .. Len(s) :
              i # j => ~(Matches(s[i], c.engine_type, c.endpoint)
                         /\ Matches(s[j], c.engine_type, c.endpoint))
    PROVE  AllForeign(Joined(s, c))
<1> DEFINE t == Joined(s, c)
<1>1. IsList(s) /\ Len(s) \in Nat
  BY ListDomain DEF Engines
<1>2. CASE /\ \A i \in 1 .. Len(s) : ~Matches(s[i], c.engine_type, c.endpoint)
           /\ t = Append(s, c)
  <2>1. /\ IsList(t) /\ Len(t) = Len(s) + 1
        /\ \A i \in 1 .. Len(s) : t[i] = s[i]
        /\ t[Len(s) + 1] = c
    BY <1>1, <1>2, Appended
  <2>2. 1 .. Len(t) = (1 .. Len(s)) \cup {Len(s) + 1}
    BY <1>1, <2>1
  <2> HIDE DEF t
  <2>3. \A i \in 1 .. Len(s) : Foreign(s[i], c) /\ Foreign(c, s[i])
    BY <1>2, ForeignIs
  <2>4. AllForeign(t)
    BY <2>1, <2>2, <2>3 DEF AllForeign
  <2> QED
    BY <2>4 DEF t
<1>3. ASSUME Len(t) = Len(s), NEW slot \in 1 .. Len(s),
             Matches(s[slot], c.engine_type, c.endpoint),
             \A i \in 1 .. Len(s) : t[i] = IF i = slot THEN Joining(s[slot], c) ELSE s[i]
      PROVE  AllForeign(t)
  <2> DEFINE j == Joining(s[slot], c)
  <2>1. /\ PortsOf(j) \subseteq PortsOf(s[slot]) \cup PortsOf(c)
        /\ Assumed(s[slot]) \/ Assumed(c) => Assumed(j)
    BY <1>3, JoiningPorts DEF Engines, Matches
  <2>2. t[slot] = j /\ \A i \in 1 .. Len(s) : i # slot => t[i] = s[i]
    BY <1>3
  <2> HIDE DEF j, t
  <2>3. ASSUME NEW i \in 1 .. Len(s), i # slot PROVE Foreign(s[i], j) /\ Foreign(j, s[i])
    <3>1. Foreign(s[i], s[slot]) /\ Foreign(s[i], c)
      BY <1>3, <2>3 DEF AllForeign
    <3>2. Foreign(s[i], j)
      BY <2>1, <3>1 DEF Foreign
    <3> QED
      BY <3>2, ForeignIs
  <2>4. AllForeign(t)
    BY <1>3, <2>2, <2>3 DEF AllForeign
  <2> QED
    BY <2>4
<1> QED
  BY <1>2, <1>3, JoinedIs

(* After the merge no two candidates share a port.                          *)
LEMMA MergedForeign ==
    ASSUME Hosted, PortsAreNamedOnce, NEW found \in Listings
    PROVE  AllForeign(Merged(EnginesFromProcesses, found))
<1> DEFINE scan == EnginesFromProcesses
<1>1. Engines(scan) /\ OneEach(scan)
  BY ScanKeepsApart DEF Hosted
<1>2. AtMostOne(found, world.containers[1].pids)
  BY CandidateIs DEF Listings
<1>3. \A i, j \in 1 .. Len(scan) :
         i # j /\ ~Taken(scan[i], found) /\ ~Taken(scan[j], found)
         => PortsOf(scan[i]) \cap PortsOf(scan[j]) = {}
  BY DEF PortsAreNamedOnce
<1>4. \A i \in 1 .. Len(scan), k \in 1 .. Len(found) :
         \/ Taken(scan[i], found) \/ Assumed(found[k])
         \/ Matches(scan[i], found[k].engine_type, found[k].endpoint)
         \/ PortsOf(scan[i]) \cap PortsOf(found[k]) = {}
  BY DEF PortsAreNamedOnce
<1> HIDE DEF scan
<1>5. CASE found = <<>>
  <2>1. \A e : ~Taken(e, found)
    BY <1>5, EmptyList DEF Taken
  <2>2. AllForeign(scan)
    BY <1>3, <2>1 DEF AllForeign, Foreign
  <2> QED
    BY <1>5, <2>2, MergedNone DEF scan
<1>6. ASSUME NEW c, found = <<c>>, IsEngine(c) PROVE AllForeign(Merged(scan, found))
  <2>1. PICK cs, d : /\ Absorbed(scan, c) = [candidates |-> cs, container |-> d]
                     /\ AbsorbedUpTo(Len(scan), cs, d, scan, c)
    BY <1>1, <1>6, AbsorbedIs
  <2>2. Merged(scan, found) = Joined(cs, d)
    BY <1>6, <2>1, MergedOne
  <2>3. /\ Engines(cs) /\ IsEngine(d) /\ SameButModel(d, c)
        /\ \A i \in 1 .. Len(cs) : \E k \in 1 .. Len(scan) : Stays(cs[i], k, scan, c)
        /\ \A i, j \in 1 .. Len(cs) :
              i # j => \E k, l \in 1 .. Len(scan) :
                          k # l /\ Stays(cs[i], k, scan, c) /\ Stays(cs[j], l, scan, c)
    BY <2>1 DEF AbsorbedUpTo, SameButModel
  <2>4. /\ PortsOf(d) = PortsOf(c) /\ Assumed(d) = Assumed(c)
        /\ d.engine_type = c.engine_type /\ d.endpoint = c.endpoint
    BY <2>3, SamePorts
  <2>5. \A e : Taken(e, found) <=> Swallowed(e, c)
    <3>1. Len(found) = 1 /\ found[1] = c /\ 1 .. 1 = {1}
      BY <1>6
    <3> QED
      BY <3>1 DEF Taken
  <2>6. ASSUME NEW e, NEW k \in 1 .. Len(scan), Stays(e, k, scan, c)
        PROVE  /\ PortsOf(e) = PortsOf(scan[k]) /\ ~Taken(scan[k], found)
               /\ \A type, endpoint : Matches(e, type, endpoint) = Matches(scan[k], type, endpoint)
    <3>1. e = Kept(scan[k], c) /\ ~Swallowed(scan[k], c) /\ IsEngine(scan[k])
      BY <1>1, <2>6 DEF Stays, Engines
    <3> QED
      BY <2>5, <3>1, KeptPorts
  <2>7. AllForeign(cs) /\ \A i \in 1 .. Len(cs) : Matches(cs[i], d.engine_type, d.endpoint) \/ Foreign(cs[i], d)
    <3>1. ASSUME NEW i \in 1 .. Len(cs), NEW j \in 1 .. Len(cs), i # j
          PROVE  Foreign(cs[i], cs[j])
      <4>1. PICK k, l \in 1 .. Len(scan) :
                    k # l /\ Stays(cs[i], k, scan, c) /\ Stays(cs[j], l, scan, c)
        BY <2>3, <3>1
      <4> QED
        BY <1>3, <2>6, <4>1 DEF Foreign
    <3>2. ASSUME NEW i \in 1 .. Len(cs)
          PROVE  Matches(cs[i], d.engine_type, d.endpoint) \/ Foreign(cs[i], d)
      <4>1. PICK k \in 1 .. Len(scan) : Stays(cs[i], k, scan, c)
        BY <2>3
      <4>2. Len(found) = 1 /\ found[1] = c /\ 1 \in 1 .. 1
        BY <1>6
      <4>3. \/ Assumed(c) \/ Matches(scan[k], c.engine_type, c.endpoint)
            \/ PortsOf(scan[k]) \cap PortsOf(c) = {}
        BY <1>4, <2>6, <4>1, <4>2
      <4> QED
        BY <2>4, <2>6, <4>1, <4>3 DEF Foreign
    <3> QED
      BY <3>1, <3>2 DEF AllForeign
  <2>8. \A i, j \in 1 .. Len(cs) :
           i # j => ~(Matches(cs[i], d.engine_type, d.endpoint)
                      /\ Matches(cs[j], d.engine_type, d.endpoint))
    <3> SUFFICES ASSUME NEW i \in 1 .. Len(cs), NEW j \in 1 .. Len(cs), i # j,
                        Matches(cs[i], d.engine_type, d.endpoint),
                        Matches(cs[j], d.engine_type, d.endpoint)
                 PROVE  FALSE
      OBVIOUS
    <3>1. PICK k, l \in 1 .. Len(scan) :
                  k # l /\ Stays(cs[i], k, scan, c) /\ Stays(cs[j], l, scan, c)
      BY <2>3
    <3>2. /\ Matches(scan[k], d.engine_type, d.endpoint)
          /\ Matches(scan[l], d.engine_type, d.endpoint)
      BY <2>6, <3>1
    <3> QED
      BY <1>1, <3>1, <3>2 DEF OneEach, Matches
  <2>9. AllForeign(Joined(cs, d))
    BY <2>3, <2>7, <2>8, JoinedForeign
  <2> QED
    BY <2>2, <2>9
<1> QED
  BY <1>2, <1>5, <1>6 DEF AtMostOne, scan

(* What the pass does keeps the ports apart.  Only where Docker did not      *)
(* list the containers or a container's processes may a server that is in   *)
(* one be looked for twice.                                                  *)
Listed == trouble \cap {"list", "top"} = {}
PortsKept ==
    /\ pc \in {"list", "top"} => candidates = EnginesFromProcesses
    /\ Listed /\ pc = "top" /\ todo = <<>> => containers \in Listings
    /\ Listed /\ pc \in {"probe", "done"} /\ PortsAreNamedOnce
       => AllForeign(candidates) /\ AllOff(candidates, verified) /\ AllOnePort(verified)

ScannedAs(s, p, owned, type, endpoints, model) ==
    IF p \in owned \/ endpoints = <<>> THEN s
    ELSE IF Slot(s, type, Head(endpoints)) = 0
      THEN Append(s, DetectedEngine(type, endpoints, "Native", model, {p}, None))
      ELSE [s EXCEPT ![Slot(s, type, Head(endpoints))].pids = @ \cup {p}]

LEMMA ScannedBy ==
    \A s, p, owned :
       Scanned(s, p, owned) = ScannedAs(s, p, owned, EngineOfProcess(p), EndpointsOf(p), ModelOf(p))
BY DEF Scanned, Slot, ScannedAs

LEMMA ScannedByNext ==
    (\A s, p, owned :
       Scanned(s, p, owned) = ScannedAs(s, p, owned, EngineOfProcess(p), EndpointsOf(p), ModelOf(p)))'
BY ScannedBy, PTL

LEMMA ScanStays == ASSUME world' = world PROVE EnginesFromProcesses' = EnginesFromProcesses
<1>1. \A e, p, o : Scanned(e, p, o)' = Scanned(e, p, o)
  <2>1. \A p : EngineOfProcess(p)' = EngineOfProcess(p)
    BY DEF EngineOfProcess
  <2>2. \A p : EndpointsOf(p)' = EndpointsOf(p)
    BY DEF EndpointsOf, EngineOfProcess, LaunchOf, EnvOf
  <2>3. \A p : ModelOf(p)' = ModelOf(p)
    BY DEF ModelOf, EngineOfProcess, LaunchOf, EnvOf
  <2> SUFFICES ASSUME NEW e, NEW p, NEW o PROVE Scanned(e, p, o)' = Scanned(e, p, o)
    OBVIOUS
  <2>4. EngineOfProcess(p)' = EngineOfProcess(p) /\ EndpointsOf(p)' = EndpointsOf(p)
        /\ ModelOf(p)' = ModelOf(p)
    BY <2>1, <2>2, <2>3
  <2>5. Scanned(e, p, o) = ScannedAs(e, p, o, EngineOfProcess(p), EndpointsOf(p), ModelOf(p))
    BY ScannedBy
  <2>6. Scanned(e, p, o)' = ScannedAs(e, p, o, EngineOfProcess(p)', EndpointsOf(p)', ModelOf(p)')
    BY ScannedByNext
  <2> QED
    BY <2>4, <2>5, <2>6
<1>2. Owned' = Owned
  BY PidsStay DEF Owned, Owners, ExpandPidTree, Children, EngineOfProcess
<1>3. \A r : ExpandPidTree(r)' = ExpandPidTree(r)
  BY PidsStay DEF ExpandPidTree, Children
<1> DEFINE N == Len(world.procs)
           h == CHOOSE g : g = [k \in 0 .. N |-> IF k = 0 THEN <<>>
                                                 ELSE Scanned(g[k - 1], k, Owned)]
<1>4. EnginesFromProcesses = [i \in DOMAIN h[N] |-> [h[N][i] EXCEPT !.pids = ExpandPidTree(h[N][i].pids)]]
  BY DEF EnginesFromProcesses
<1>6. PICK y : y = h'[N']
  OBVIOUS
<1>5. EnginesFromProcesses' = [i \in DOMAIN y |-> [y[i] EXCEPT !.pids = ExpandPidTree(y[i].pids)']]
  BY <1>6 DEF EnginesFromProcesses
<1>7. h' = h
  BY <1>1, <1>2
<1>8. y = h[N]
  BY <1>6, <1>7
<1> HIDE DEF h, N
<1> QED
  BY <1>3, <1>4, <1>5, <1>8

LEMMA AssumedStays == ASSUME world' = world PROVE \A e : Assumed(e)' = Assumed(e)
BY DEF Assumed

LEMMA ListingsStay == ASSUME world' = world PROVE Listings' = Listings
BY DockersStay DEF Listings

LEMMA OnceStays == ASSUME world' = world PROVE PortsAreNamedOnce' = PortsAreNamedOnce
BY ScanStays, AssumedStays, ListingsStay DEF PortsAreNamedOnce

LEMMA PairsStay ==
    ASSUME world' = world, NEW left, candidates' = left, NEW made, verified' = made,
           AllForeign(left), AllOff(left, made), AllOnePort(made)
    PROVE  (AllForeign(candidates) /\ AllOff(candidates, verified) /\ AllOnePort(verified))'
<1>1. \A e : Assumed(e)' = Assumed(e)
  BY AssumedStays
<1>2. /\ \A e, f : Foreign(e, f) => Foreign(e, f)'
      /\ \A e, f : OffPort(e, f) => OffPort(e, f)'
      /\ \A e, f : OnePort(e, f) => OnePort(e, f)'
  BY <1>1 DEF Foreign, OffPort, OnePort, PortsOf, Addresses
<1>3. AllForeign(left)' /\ AllOff(left, made)' /\ AllOnePort(made)'
  BY <1>2 DEF AllForeign, AllOff, AllOnePort
<1>4. /\ AllForeign(candidates)' = AllForeign(left)'
      /\ AllOff(candidates, verified)' = AllOff(left, made)'
      /\ AllOnePort(verified)' = AllOnePort(made)'
  BY DEF AllForeign, AllOff, AllOnePort, Foreign, OffPort, OnePort
<1> QED
  BY <1>3, <1>4

LEMMA NonePair ==
    /\ AllForeign(<<>>) /\ AllOnePort(<<>>)
    /\ \A s : AllOff(s, <<>>) /\ AllOff(<<>>, s)
BY EmptyList DEF AllForeign, AllOnePort, AllOff

LEMMA PortsBegin == Init => PortsKept
BY DEF Init, PortsKept

LEMMA ScanKeepsPorts == ASSUME ScanProcesses PROVE PortsKept'
<1>1. world' = world /\ pc' = "list" /\ candidates' = EnginesFromProcesses
  BY DEF ScanProcesses
<1> QED
  BY <1>1, ScanStays DEF PortsKept

LEMMA ListKeepsPorts == ASSUME PassInv, PortsKept, ListContainers PROVE PortsKept'
<1>1. world' = world /\ pc = "list" /\ pc' = "top" /\ candidates' = candidates
  BY DEF ListContainers
<1>2. Listed' => todo' # <<>>
  <2>1. world.containers # <<>>
    BY EmptyList DEF PassInv, Hosted
  <2> QED
    BY <2>1 DEF ListContainers, Listed
<1> QED
  BY <1>1, <1>2, ScanStays DEF PortsKept

LEMMA ContainerKeepsPorts == ASSUME PassInv, PortsKept, ScanContainer PROVE PortsKept'
<1>1. world' = world /\ pc = "top" /\ pc' = "top" /\ candidates' = candidates /\ todo # <<>>
  BY DEF ScanContainer
<1>2. candidates' = EnginesFromProcesses'
  BY <1>1, ScanStays DEF PortsKept
<1>3. ASSUME Listed' PROVE containers' \in Listings
  <2> DEFINE c == Head(todo)
  <2>1. PICK top, inspect \in BOOLEAN :
             /\ containers' = containers \o
                    DockerCandidate(c, IF top THEN c.pids ELSE {},
                                    IF inspect THEN c.env ELSE BlankEnv)
             /\ trouble' = trouble \cup (IF top THEN {} ELSE {"top"})
                                   \cup (IF inspect THEN {} ELSE {"inspect"})
    BY DEF ScanContainer, BlankEnv
  <2>2. top
    BY <1>3, <2>1 DEF Listed
  <2>3. IsList(todo) /\ todo # <<>> /\ (\A i \in 1 .. Len(todo) : todo[i] = world.containers[1])
        /\ Len(containers) + Len(todo) <= 1 /\ Hosted /\ IsList(containers)
    BY <1>1 DEF PassInv, AtItsPlace, Sorted, Engines
  <2>4. c = world.containers[1] /\ 1 \in 1 .. Len(todo)
    BY <2>3, Beheaded
  <2>5. Len(containers) \in Nat /\ Len(todo) \in Nat
    BY <2>3, ListDomain
  <2>6. Len(containers) = 0
    BY <2>3, <2>4, <2>5
  <2> DEFINE env == IF inspect THEN c.env ELSE BlankEnv
             d == DockerCandidate(c, c.pids, env)
  <2>7. env \in {c.env, BlankEnv} /\ containers' = containers \o d
    BY <2>1, <2>2
  <2> HIDE DEF c, env
  <2>8. AtMostOne(d, c.pids)
    BY <2>3, <2>4, <2>7, CandidateIs
  <2>9. d \in Listings
    BY <2>4, <2>7 DEF Listings
  <2> HIDE DEF d
  <2>10. IsList(d)
    <3>1. CASE d = <<>>
      BY <3>1, EmptyList
    <3>2. ASSUME NEW e, d = <<e>> PROVE IsList(d)
      BY <3>2 DEF IsList
    <3> QED
      BY <2>8, <3>1, <3>2 DEF AtMostOne
  <2>11. containers \o d = d
    BY <2>3, <2>6, <2>10, NothingBefore
  <2> QED
    BY <2>7, <2>9, <2>11
<1> QED
  BY <1>1, <1>2, <1>3, ListingsStay DEF PortsKept

LEMMA MergeKeepsPorts == ASSUME PassInv, PortsKept, Merge PROVE PortsKept'
<1> DEFINE left == Merged(candidates, containers)
<1>1. /\ world' = world /\ verified' = verified /\ trouble' = trouble
      /\ pc = "top" /\ todo = <<>> /\ verified = <<>> /\ Hosted
  BY DEF Merge, PassInv, AtItsPlace
<1>2. candidates' = left /\ pc' \in {"probe", "done"}
  BY MergeHolds
<1>3. ASSUME Listed, PortsAreNamedOnce PROVE AllForeign(left)
  <2>1. candidates = EnginesFromProcesses /\ containers \in Listings
    BY <1>1, <1>3 DEF PortsKept
  <2> QED
    BY <1>1, <1>3, <2>1, MergedForeign
<1> HIDE DEF left
<1>4. ASSUME Listed, PortsAreNamedOnce
      PROVE  (AllForeign(candidates) /\ AllOff(candidates, verified) /\ AllOnePort(verified))'
  <2>1. AllForeign(left) /\ AllOff(left, <<>>) /\ AllOnePort(<<>>) /\ verified' = <<>>
    BY <1>1, <1>3, <1>4, NonePair
  <2> QED
    BY <1>1, <1>2, <2>1, PairsStay
<1>5. Listed' = Listed /\ PortsAreNamedOnce' = PortsAreNamedOnce
  BY <1>1, OnceStays DEF Listed
<1> QED
  BY <1>2, <1>4, <1>5 DEF PortsKept

(* What is left of a list is as far apart as the list.                      *)
LEMMA TailForeign ==
    ASSUME NEW s, Engines(s), s # <<>>, AllForeign(s)
    PROVE  /\ AllForeign(Tail(s))
           /\ \A i \in 1 .. Len(Tail(s)) : Foreign(Tail(s)[i], Head(s))
           /\ \A made : AllOff(s, made) =>
                 /\ AllOff(Tail(s), made)
                 /\ \A j \in 1 .. Len(made) : OffPort(Head(s), made[j])
<1>1. /\ IsList(Tail(s)) /\ Len(Tail(s)) = Len(s) - 1 /\ Len(s) \in Nat
      /\ \A i \in 1 .. Len(Tail(s)) : Tail(s)[i] = s[i + 1] /\ i + 1 \in 1 .. Len(s)
      /\ Head(s) = s[1] /\ 1 \in 1 .. Len(s)
  BY Beheaded, ListDomain DEF Engines
<1>2. \A i, j \in 1 .. Len(Tail(s)) : (i # j => i + 1 # j + 1) /\ i + 1 # 1
  BY <1>1
<1>3. AllForeign(Tail(s))
  BY <1>1, <1>2 DEF AllForeign
<1>4. ASSUME NEW i \in 1 .. Len(Tail(s)) PROVE Foreign(Tail(s)[i], Head(s))
  BY <1>1, <1>2 DEF AllForeign
<1>5. ASSUME NEW made, AllOff(s, made)
      PROVE  /\ AllOff(Tail(s), made)
             /\ \A j \in 1 .. Len(made) : OffPort(Head(s), made[j])
  BY <1>1, <1>5 DEF AllOff
<1> QED
  BY <1>3, <1>4, <1>5

(* A result that joins others where it is on none of their ports.           *)
LEMMA JoinedPorts ==
    ASSUME Hosted, NEW s, Engines(s), NEW c, IsEngine(c), AllOnePort(s),
           \A i \in 1 .. Len(s) : OnePort(s[i], c)
    PROVE  /\ AllOnePort(Joined(s, c))
           /\ \A x : (\A i \in 1 .. Len(s) : OffPort(x, s[i])) /\ OffPort(x, c)
                     => \A i \in 1 .. Len(Joined(s, c)) : OffPort(x, Joined(s, c)[i])
<1> DEFINE t == Joined(s, c)
           Result(u) == /\ AllOnePort(u)
                        /\ \A x : (\A i \in 1 .. Len(s) : OffPort(x, s[i])) /\ OffPort(x, c)
                                  => \A i \in 1 .. Len(u) : OffPort(x, u[i])
<1>1. IsList(s) /\ Len(s) \in Nat
  BY ListDomain DEF Engines
<1>2. CASE t = Append(s, c)
  <2>1. /\ IsList(t) /\ Len(t) = Len(s) + 1
        /\ \A i \in 1 .. Len(s) : t[i] = s[i]
        /\ t[Len(s) + 1] = c
    BY <1>1, <1>2, Appended
  <2>2. 1 .. Len(t) = (1 .. Len(s)) \cup {Len(s) + 1} /\ Len(s) + 1 \notin 1 .. Len(s)
    BY <1>1, <2>1
  <2> HIDE DEF t
  <2>3. \A i \in 1 .. Len(s) : OnePort(s[i], c) /\ OnePort(c, s[i])
    BY DEF OnePort
  <2>4. AllOnePort(t)
    BY <2>1, <2>2, <2>3 DEF AllOnePort
  <2>5. Result(t)
    BY <2>1, <2>2, <2>4
  <2> QED
    BY <2>5 DEF t
<1>3. ASSUME Len(t) = Len(s), NEW slot \in 1 .. Len(s),
             Matches(s[slot], c.engine_type, c.endpoint),
             \A i \in 1 .. Len(s) : t[i] = IF i = slot THEN Joining(s[slot], c) ELSE s[i]
      PROVE  Result(t)
  <2> DEFINE j == Joining(s[slot], c)
  <2>1. /\ Assumed(s[slot]) => Assumed(j)
        /\ j.endpoint = s[slot].endpoint
    BY <1>3, JoiningPorts, JoiningIs DEF Engines, Matches
  <2>2. t[slot] = j /\ \A i \in 1 .. Len(s) : i # slot => t[i] = s[i]
    BY <1>3
  <2> HIDE DEF j, t
  <2>3. \A i \in 1 .. Len(s) : /\ Assumed(s[i]) => Assumed(t[i])
                               /\ t[i].endpoint = s[i].endpoint
    BY <2>1, <2>2
  <2>4. AllOnePort(t)
    BY <1>3, <2>3 DEF AllOnePort, OnePort
  <2>5. \A x : (\A i \in 1 .. Len(s) : OffPort(x, s[i]))
               => \A i \in 1 .. Len(t) : OffPort(x, t[i])
    BY <1>3, <2>3 DEF OffPort
  <2> QED
    BY <2>4, <2>5
<1>4. Result(t)
  BY <1>2, <1>3, JoinedIs
<1> QED
  BY <1>4

LEMMA AnswerKeepsPorts == ASSUME PassInv, PortsKept, Answers PROVE PortsKept'
<1> DEFINE f == Head(candidates)
           e == OnlyAt(f, Head(probing))
           left == Tail(candidates)
           made == Joined(verified, e)
<1>1. /\ world' = world /\ pc = "probe" /\ verified' = made /\ trouble' = trouble
      /\ Begin(left) /\ Hosted
  BY DEF Answers, PassInv
<1>2. candidates' = left /\ pc' \in {"probe", "done"}
  BY <1>1 DEF Begin
<1>3. /\ candidates # <<>> /\ Engines(candidates) /\ Engines(verified)
      /\ Head(probing) \in Addresses(f)
  BY <1>1, HeadIsProbed DEF PassInv, Sorted, AtItsPlace
<1>4. /\ IsEngine(e) /\ e.engine_type = f.engine_type /\ e.container = f.container
      /\ e.endpoint \in Addresses(f)
  BY <1>3, TailSeparate, OnlyAtIs
<1> HIDE DEF e, f
<1>5. (Assumed(e) <=> Assumed(f)) /\ e.endpoint.port \in PortsOf(f)
  BY <1>4 DEF Assumed, PortsOf
<1>6. ASSUME Listed, PortsAreNamedOnce
      PROVE  (AllForeign(candidates) /\ AllOff(candidates, verified) /\ AllOnePort(verified))'
  <2>1. AllForeign(candidates) /\ AllOff(candidates, verified) /\ AllOnePort(verified)
    BY <1>1, <1>6 DEF PortsKept
  <2>2. /\ AllForeign(left) /\ AllOff(left, verified)
        /\ \A i \in 1 .. Len(left) : Foreign(left[i], f)
        /\ \A j \in 1 .. Len(verified) : OffPort(f, verified[j])
    BY <1>3, <2>1, TailForeign DEF f
  <2> HIDE DEF left
  <2>3. \A j \in 1 .. Len(verified) : OnePort(verified[j], e)
    BY <1>5, <2>2 DEF OffPort, OnePort
  <2>4. \A i \in 1 .. Len(left) : OffPort(left[i], e)
    BY <1>5, <2>2 DEF Foreign, OffPort
  <2>5. /\ AllOnePort(made)
        /\ \A x : (\A i \in 1 .. Len(verified) : OffPort(x, verified[i])) /\ OffPort(x, e)
                  => \A i \in 1 .. Len(made) : OffPort(x, made[i])
    BY <1>1, <1>3, <1>4, <2>1, <2>3, JoinedPorts
  <2> HIDE DEF made
  <2>6. AllOff(left, made)
    BY <2>2, <2>4, <2>5 DEF AllOff
  <2> QED
    BY <1>1, <1>2, <2>2, <2>5, <2>6, PairsStay
<1>7. Listed' = Listed /\ PortsAreNamedOnce' = PortsAreNamedOnce
  BY <1>1, OnceStays DEF Listed
<1> QED
  BY <1>2, <1>6, <1>7 DEF PortsKept

LEMMA SilenceKeepsPorts == ASSUME PassInv, PortsKept, DoesNotAnswer PROVE PortsKept'
<1>1. world' = world /\ pc = "probe" /\ verified' = verified
  BY DEF DoesNotAnswer
<1>2. candidates # <<>> /\ Engines(candidates)
  BY <1>1 DEF PassInv, Sorted, AtItsPlace
<1>3. pc' \in {"probe", "done"} /\ (candidates' = candidates \/ candidates' = Tail(candidates))
  BY <1>1 DEF DoesNotAnswer, Begin
<1>4. ASSUME Listed, PortsAreNamedOnce
      PROVE  (AllForeign(candidates) /\ AllOff(candidates, verified) /\ AllOnePort(verified))'
  <2>1. AllForeign(candidates) /\ AllOff(candidates, verified) /\ AllOnePort(verified)
    BY <1>1, <1>4 DEF PortsKept
  <2>2. CASE candidates' = candidates
    BY <1>1, <2>1, <2>2, PairsStay
  <2>3. CASE candidates' = Tail(candidates)
    <3>1. AllForeign(Tail(candidates)) /\ AllOff(Tail(candidates), verified)
      BY <1>2, <2>1, TailForeign
    <3> QED
      BY <1>1, <2>1, <2>3, <3>1, PairsStay
  <2> QED
    BY <1>3, <2>2, <2>3
<1>5. Listed' => Listed
  BY DEF DoesNotAnswer, Listed
<1>6. PortsAreNamedOnce' = PortsAreNamedOnce
  BY <1>1, OnceStays
<1> QED
  BY <1>3, <1>4, <1>5, <1>6 DEF PortsKept

LEMMA PortsStay == ASSUME PortsKept, UNCHANGED vars PROVE PortsKept'
<1>1. /\ world' = world /\ pc' = pc /\ trouble' = trouble /\ candidates' = candidates
      /\ containers' = containers /\ verified' = verified /\ todo' = todo
  BY DEF vars
<1>2. (AllForeign(candidates) /\ AllOff(candidates, verified) /\ AllOnePort(verified))
      => (AllForeign(candidates) /\ AllOff(candidates, verified) /\ AllOnePort(verified))'
  BY <1>1, PairsStay
<1>3. /\ PortsAreNamedOnce' = PortsAreNamedOnce /\ Listed' = Listed /\ Listings' = Listings
      /\ EnginesFromProcesses' = EnginesFromProcesses
  BY <1>1, OnceStays, ListingsStay, ScanStays DEF Listed
<1> QED
  BY <1>1, <1>2, <1>3 DEF PortsKept

(* Where every port is named once and Docker listed everything, what is    *)
(* left to probe and what was found stay on ports of their own.             *)
THEOREM PortsKeptHolds == Spec => []PortsKept
<1>1. PassInv /\ PortsKept /\ [Next]_vars => PortsKept'
  BY ScanKeepsPorts, ListKeepsPorts, ContainerKeepsPorts, MergeKeepsPorts, AnswerKeepsPorts,
     SilenceKeepsPorts, PortsStay
  DEF Next
<1> QED
  BY <1>1, PortsBegin, PassInvHolds, PTL DEF Spec

(* No server becomes two engines where Docker listed the processes of every *)
(* container: what the process scan read of a container's servers is        *)
(* swallowed, under whatever port they have inside, before anything joins   *)
(* or is probed.                                                             *)
THEOREM OneServerOneEngineHolds == Spec => [](PortsAreNamedOnce => OneServerOneEngine)
<1>1. PassInv /\ PortsKept => (PortsAreNamedOnce => OneServerOneEngine)
  <2> SUFFICES ASSUME PassInv, PortsKept, PortsAreNamedOnce,
                      pc = "done", trouble \cap {"list", "top"} = {},
                      NEW i \in DOMAIN verified, NEW j \in DOMAIN verified, i # j,
                      ~Assumed(verified[i]), ~Assumed(verified[j])
               PROVE  verified[i].endpoint.port # verified[j].endpoint.port
    BY DEF OneServerOneEngine
  <2>1. i \in 1 .. Len(verified) /\ j \in 1 .. Len(verified)
    BY ListDomain DEF PassInv, Sorted, Engines
  <2>2. AllOnePort(verified)
    BY DEF PortsKept, Listed
  <2> QED
    BY <2>1, <2>2 DEF AllOnePort, OnePort
<1> QED
  BY <1>1, PassInvHolds, PortsKeptHolds, PTL

-----------------------------------------------------------------------------
(* Servers that answer are found.                                            *)

(* The first of these addresses to answer as an engine of the type.         *)
Named(places) == {places[k] : k \in 1 .. Len(places)}
FirstAnswers(places, type, a) ==
    \E n \in 1 .. Len(places) :
        /\ places[n] = a /\ ProbeEngine(a, type)
        /\ \A m \in 1 .. n - 1 : ~ProbeEngine(places[m], type)

(* A candidate that must become an engine of the type, at the address and   *)
(* with the processes; and a result that is one.                            *)
Places(e) == <<e.endpoint>> \o e.fallbacks
Leads(e, type, a, P) == e.engine_type = type /\ FirstAnswers(Places(e), type, a) /\ P \subseteq e.pids
Reaches(e, type, a, P) == e.engine_type = type /\ e.endpoint = a /\ P \subseteq e.pids
SomeLeads(s, type, a, P) == \E i \in 1 .. Len(s) : Leads(s[i], type, a, P)
SomeReaches(s, type, a, P) == \E i \in 1 .. Len(s) : Reaches(s[i], type, a, P)

LEMMA OneBefore ==
    ASSUME NEW one, IsList(one), NEW more, IsList(more)
    PROVE  Len(one) = 1 =>
              /\ IsList(one \o more) /\ Len(one \o more) = Len(more) + 1
              /\ one \o more # <<>> /\ Head(one \o more) = one[1] /\ (one \o more)[1] = one[1]
              /\ \A i \in 1 .. Len(more) : (one \o more)[i + 1] = more[i]
<1> DEFINE all == one \o more
<1>1. /\ IsList(all) /\ Len(all) = Len(one) + Len(more)
      /\ \A i \in 1 .. Len(one) : all[i] = one[i]
      /\ \A i \in 1 .. Len(more) : all[Len(one) + i] = more[i]
  BY Joint
<1>2. Len(more) \in Nat
  BY ListDomain
<1> HIDE DEF all
<1> HAVE Len(one) = 1
<1>3. Len(all) = Len(more) + 1 /\ all # <<>>
  BY <1>1, <1>2, EmptyList
<1>4. Head(all) = all[1] /\ all[1] = one[1]
  BY <1>1, <1>3, Beheaded
<1>5. \A i \in 1 .. Len(more) : 1 + i = i + 1
  OBVIOUS
<1>6. \A i \in 1 .. Len(more) : all[i + 1] = more[i]
  BY <1>1, <1>5
<1> QED
  BY <1>1, <1>3, <1>4, <1>6 DEF all

LEMMA PlacesAre ==
    ASSUME NEW e, IsList(e.fallbacks)
    PROVE  /\ IsList(Places(e)) /\ Len(Places(e)) = Len(e.fallbacks) + 1
           /\ Places(e) # <<>> /\ Head(Places(e)) = e.endpoint /\ Places(e)[1] = e.endpoint
           /\ \A i \in 1 .. Len(e.fallbacks) : Places(e)[i + 1] = e.fallbacks[i]
<1> DEFINE one == <<e.endpoint>>
<1>1. IsList(one) /\ Len(one) = 1 /\ one[1] = e.endpoint
  BY DEF IsList
<1>2. Places(e) = one \o e.fallbacks
  BY DEF Places
<1> HIDE DEF one
<1> QED
  BY <1>1, <1>2, OneBefore

LEMMA FirstOfTail ==
    ASSUME NEW places, IsList(places), NEW type, NEW a, FirstAnswers(places, type, a)
    PROVE  /\ places # <<>> /\ ProbeEngine(a, type) /\ a \in Named(places)
           /\ ProbeEngine(Head(places), type) => a = Head(places)
           /\ ~ProbeEngine(Head(places), type) => FirstAnswers(Tail(places), type, a)
<1>1. PICK n \in 1 .. Len(places) :
           /\ places[n] = a /\ ProbeEngine(a, type)
           /\ \A m \in 1 .. n - 1 : ~ProbeEngine(places[m], type)
  BY DEF FirstAnswers
<1>2. places # <<>> /\ Len(places) \in Nat /\ a \in Named(places)
  BY <1>1, EmptyList, ListDomain DEF Named
<1>3. /\ IsList(Tail(places)) /\ Len(Tail(places)) = Len(places) - 1
      /\ \A i \in 1 .. Len(Tail(places)) : Tail(places)[i] = places[i + 1]
      /\ Head(places) = places[1]
  BY <1>2, Beheaded
<1>4. ASSUME ProbeEngine(Head(places), type) PROVE a = Head(places)
  <2>1. n = 1
    <3>1. ~(1 \in 1 .. n - 1)
      BY <1>1, <1>3, <1>4
    <3> QED
      BY <3>1
  <2> QED
    BY <1>1, <1>3, <2>1
<1>5. ASSUME ~ProbeEngine(Head(places), type) PROVE FirstAnswers(Tail(places), type, a)
  <2>1. n # 1
    BY <1>1, <1>3, <1>5
  <2>2. n - 1 \in 1 .. Len(Tail(places)) /\ (n - 1) + 1 = n
    BY <1>2, <1>3, <2>1
  <2>3. ASSUME NEW m \in 1 .. (n - 1) - 1 PROVE ~ProbeEngine(Tail(places)[m], type)
    <3>1. m \in 1 .. Len(Tail(places)) /\ m + 1 \in 1 .. n - 1
      BY <1>2, <1>3
    <3> QED
      BY <1>1, <1>3, <3>1
  <2>4. Tail(places)[n - 1] = a
    BY <1>1, <1>3, <2>2
  <2> QED
    BY <1>1, <2>2, <2>3, <2>4 DEF FirstAnswers
<1> QED
  BY <1>1, <1>2, <1>4, <1>5

LEMMA FirstOfMore ==
    ASSUME NEW places, IsList(places), NEW more, IsList(more), Len(places) <= Len(more),
           \A i \in 1 .. Len(places) : more[i] = places[i],
           NEW type, NEW a, FirstAnswers(places, type, a)
    PROVE  FirstAnswers(more, type, a)
<1>1. PICK n \in 1 .. Len(places) :
           /\ places[n] = a /\ ProbeEngine(a, type)
           /\ \A m \in 1 .. n - 1 : ~ProbeEngine(places[m], type)
  BY DEF FirstAnswers
<1>2. Len(places) \in Nat /\ Len(more) \in Nat
  BY ListDomain
<1>3. n \in 1 .. Len(more) /\ \A m \in 1 .. n - 1 : m \in 1 .. Len(places)
  BY <1>2
<1> QED
  BY <1>1, <1>3 DEF FirstAnswers

LEMMA FirstIsFirst ==
    ASSUME NEW places, IsList(places), places # <<>>, NEW type, ProbeEngine(Head(places), type)
    PROVE  FirstAnswers(places, type, Head(places))
<1>1. Head(places) = places[1] /\ 1 \in 1 .. Len(places)
  BY Beheaded
<1>2. ~\E m \in 1 .. 1 - 1 : TRUE
  OBVIOUS
<1> QED
  BY <1>1, <1>2 DEF FirstAnswers

(* Joining appends fallbacks, so whoever answered first still does.         *)
LEMMA JoiningLeads ==
    ASSUME NEW e, IsEngine(e), NEW c, IsEngine(c), e.engine_type = c.engine_type,
           NEW type, NEW a, NEW P, e.engine_type = type, P \subseteq e.pids \cup c.pids,
           FirstAnswers(Places(e), type, a) \/ (a = e.endpoint /\ ProbeEngine(a, type))
    PROVE  Leads(Joining(e, c), type, a, P)
<1> DEFINE f == WithFallbacks(e, c)
           j == Joining(e, c)
<1>1. /\ j.engine_type = e.engine_type /\ j.endpoint = e.endpoint
      /\ j.pids = e.pids \cup c.pids /\ j.fallbacks = f
  BY DEF Joining
<1>2. FallbacksUpTo(Len(c.fallbacks), f, e, c)
  BY FallbacksAre DEF IsEngine
<1> HIDE DEF f, j
<1>3. /\ IsList(f) /\ IsList(e.fallbacks) /\ Len(e.fallbacks) <= Len(f)
      /\ \A i \in 1 .. Len(e.fallbacks) : f[i] = e.fallbacks[i]
      /\ Len(f) \in Nat /\ Len(e.fallbacks) \in Nat
  BY <1>2, ListDomain DEF FallbacksUpTo, IsEngine
<1>4. /\ IsList(Places(e)) /\ Len(Places(e)) = Len(e.fallbacks) + 1 /\ Places(e)[1] = e.endpoint
      /\ \A i \in 1 .. Len(e.fallbacks) : Places(e)[i + 1] = e.fallbacks[i]
  BY <1>3, PlacesAre
<1>5. /\ IsList(Places(j)) /\ Len(Places(j)) = Len(f) + 1 /\ Places(j)[1] = e.endpoint
      /\ \A i \in 1 .. Len(f) : Places(j)[i + 1] = f[i]
      /\ Places(j) # <<>> /\ Head(Places(j)) = e.endpoint
  BY <1>1, <1>3, PlacesAre
<1>6. CASE FirstAnswers(Places(e), type, a)
  <2>1. ASSUME NEW i \in 1 .. Len(Places(e)) PROVE Places(j)[i] = Places(e)[i]
    <3>1. CASE i = 1
      BY <1>4, <1>5, <3>1
    <3>2. CASE i # 1
      <4>1. i - 1 \in 1 .. Len(e.fallbacks) /\ i - 1 \in 1 .. Len(f) /\ (i - 1) + 1 = i
        BY <1>3, <1>4, <3>2
      <4> QED
        BY <1>3, <1>4, <1>5, <4>1
    <3> QED
      BY <3>1, <3>2
  <2>2. Len(Places(e)) <= Len(Places(j))
    BY <1>3, <1>4, <1>5
  <2> QED
    BY <1>1, <1>4, <1>5, <1>6, <2>1, <2>2, FirstOfMore DEF Leads, j
<1>7. CASE a = e.endpoint /\ ProbeEngine(a, type)
  <2>1. FirstAnswers(Places(j), type, a)
    BY <1>5, <1>7, FirstIsFirst
  <2> QED
    BY <1>1, <2>1 DEF Leads, j
<1> QED
  BY <1>6, <1>7

LEMMA JoinedLeads ==
    ASSUME NEW s, Engines(s), NEW c, IsEngine(c), NEW type, NEW a, NEW P,
           \/ SomeLeads(s, type, a, P)
           \/ /\ Leads(c, type, a, P)
              /\ \A i \in 1 .. Len(s) : Matches(s[i], c.engine_type, c.endpoint) => a = c.endpoint
    PROVE  SomeLeads(Joined(s, c), type, a, P)
<1> DEFINE t == Joined(s, c)
<1>1. IsList(s) /\ Len(s) \in Nat /\ IsList(c.fallbacks) /\ \A i \in 1 .. Len(s) : IsEngine(s[i])
  BY ListDomain DEF Engines, IsEngine
<1>2. CASE /\ \A i \in 1 .. Len(s) : ~Matches(s[i], c.engine_type, c.endpoint)
           /\ t = Append(s, c)
  <2>1. /\ Len(t) = Len(s) + 1
        /\ \A i \in 1 .. Len(s) : t[i] = s[i]
        /\ t[Len(s) + 1] = c
    BY <1>1, <1>2, Appended
  <2>2. Len(s) + 1 \in 1 .. Len(t) /\ 1 .. Len(s) \subseteq 1 .. Len(t)
    BY <1>1, <2>1
  <2> QED
    BY <2>1, <2>2 DEF SomeLeads
<1>3. ASSUME Len(t) = Len(s), NEW slot \in 1 .. Len(s),
             Matches(s[slot], c.engine_type, c.endpoint),
             \A i \in 1 .. Len(s) : t[i] = IF i = slot THEN Joining(s[slot], c) ELSE s[i]
      PROVE  SomeLeads(t, type, a, P)
  <2>1. /\ s[slot].engine_type = c.engine_type /\ s[slot].endpoint = c.endpoint
        /\ t[slot] = Joining(s[slot], c) /\ IsEngine(s[slot])
    BY <1>1, <1>3 DEF Matches
  <2> HIDE DEF t
  <2>2. ASSUME NEW i \in 1 .. Len(s), Leads(s[i], type, a, P) PROVE Leads(t[i], type, a, P)
    <3>1. CASE i = slot
      <4>1. s[slot].engine_type = type /\ P \subseteq s[slot].pids \cup c.pids
            /\ FirstAnswers(Places(s[slot]), type, a)
        BY <2>2, <3>1 DEF Leads
      <4>2. Leads(Joining(s[slot], c), type, a, P)
        BY <2>1, <4>1, JoiningLeads
      <4> QED
        BY <2>1, <3>1, <4>2
    <3>2. CASE i # slot
      BY <1>3, <2>2, <3>2
    <3> QED
      BY <3>1, <3>2
  <2>3. ASSUME Leads(c, type, a, P), a = c.endpoint PROVE Leads(t[slot], type, a, P)
    <3>1. s[slot].engine_type = type /\ P \subseteq s[slot].pids \cup c.pids /\ a = s[slot].endpoint
      BY <2>1, <2>3 DEF Leads
    <3>2. IsList(Places(c)) /\ FirstAnswers(Places(c), type, a)
      BY <1>1, <2>3, PlacesAre DEF Leads
    <3>3. ProbeEngine(a, type)
      BY <3>2, FirstOfTail
    <3> QED
      BY <2>1, <3>1, <3>3, JoiningLeads
  <2> QED
    BY <1>3, <2>2, <2>3 DEF SomeLeads
<1> QED
  BY <1>2, <1>3, JoinedIs

LEMMA JoinedReaches ==
    ASSUME NEW s, Engines(s), NEW c, IsEngine(c), NEW type, NEW a, NEW P,
           SomeReaches(s, type, a, P) \/ Reaches(c, type, a, P)
    PROVE  SomeReaches(Joined(s, c), type, a, P)
<1> DEFINE t == Joined(s, c)
<1>1. IsList(s) /\ Len(s) \in Nat /\ \A i \in 1 .. Len(s) : IsEngine(s[i])
  BY ListDomain DEF Engines
<1>2. CASE t = Append(s, c)
  <2>1. /\ Len(t) = Len(s) + 1
        /\ \A i \in 1 .. Len(s) : t[i] = s[i]
        /\ t[Len(s) + 1] = c
    BY <1>1, <1>2, Appended
  <2>2. Len(s) + 1 \in 1 .. Len(t) /\ 1 .. Len(s) \subseteq 1 .. Len(t)
    BY <1>1, <2>1
  <2> QED
    BY <2>1, <2>2 DEF SomeReaches
<1>3. ASSUME Len(t) = Len(s), NEW slot \in 1 .. Len(s),
             Matches(s[slot], c.engine_type, c.endpoint),
             \A i \in 1 .. Len(s) : t[i] = IF i = slot THEN Joining(s[slot], c) ELSE s[i]
      PROVE  SomeReaches(t, type, a, P)
  <2>1. /\ s[slot].engine_type = c.engine_type /\ s[slot].endpoint = c.endpoint
        /\ t[slot] = Joining(s[slot], c) /\ IsEngine(s[slot])
    BY <1>1, <1>3 DEF Matches
  <2>2. /\ t[slot].engine_type = s[slot].engine_type /\ t[slot].endpoint = s[slot].endpoint
        /\ t[slot].pids = s[slot].pids \cup c.pids
    BY <2>1, JoiningIs
  <2> HIDE DEF t
  <2>3. ASSUME NEW i \in 1 .. Len(s), Reaches(s[i], type, a, P) PROVE Reaches(t[i], type, a, P)
    BY <1>3, <2>2, <2>3 DEF Reaches
  <2>4. ASSUME Reaches(c, type, a, P) PROVE Reaches(t[slot], type, a, P)
    BY <2>1, <2>2, <2>4 DEF Reaches
  <2> QED
    BY <1>3, <2>3, <2>4 DEF SomeReaches
<1> QED
  BY <1>2, <1>3, JoinedIs

(* The container, and what Docker makes of it when nothing is withheld.     *)
TheContainer == world.containers[1]
DockersView == DockerCandidate(TheContainer, TheContainer.pids, TheContainer.env)

(* A server of the host's own answers at this one of the addresses its     *)
(* launch names before any other server of its type does; and if another   *)
(* process is looked for in the same place, it names the same addresses.    *)
SaysWhere(p, a) ==
    /\ IsServer(p) /\ p \notin TheContainer.pids
    /\ FirstAnswers(EndpointsOf(p), EngineOfProcess(p), a)
    /\ \A q \in Pids : IsServer(q) /\ OneCandidate(q, p) => EndpointsOf(q) = EndpointsOf(p)

(* The container's answers at this one of those Docker tells; and if a     *)
(* server of the host's own is first looked for where it is, there.         *)
ContainerSays(a) ==
    /\ DockersView # <<>>
    /\ FirstAnswers(Places(DockersView[1]), DockersView[1].engine_type, a)
    /\ \A i \in 1 .. Len(EnginesFromProcesses) :
          /\ Matches(EnginesFromProcesses[i], DockersView[1].engine_type, DockersView[1].endpoint)
          /\ ~Swallowed(EnginesFromProcesses[i], DockersView[1])
          => a = DockersView[1].endpoint

LEMMA ScanLeads ==
    ASSUME IsList(world.procs), NEW p \in Pids, NEW a, SaysWhere(p, a)
    PROVE  \E i \in 1 .. Len(EnginesFromProcesses) :
              /\ Leads(EnginesFromProcesses[i], EngineOfProcess(p), a, ExpandPidTree({p}))
              /\ p \in EnginesFromProcesses[i].pids
<1> DEFINE N == Len(world.procs)
           t == EnginesFromProcesses
<1>1. PICK s : ReadUpTo(N, s, Owned) /\ t = [i \in DOMAIN s |-> Holding(s[i], ExpandPidTree(s[i].pids))]
  BY ScanIs
<1> HIDE DEF t
<1>2. IsList(s) /\ DOMAIN s = 1 .. Len(s) /\ IsList(t) /\ Len(t) = Len(s)
  BY <1>1, ListDomain, MappedList DEF ReadUpTo, Engines
<1>3. Pids = 1 .. N /\ p \in ServersUpTo(N, Owned)
  BY ListDomain DEF Pids, ServersUpTo, SaysWhere, IsServer
<1>4. PICK i \in 1 .. Len(s) : On(p, s[i])
  BY <1>1, <1>3 DEF ReadUpTo
<1>5. PICK q \in ServersUpTo(N, Owned) : On(q, s[i]) /\ s[i].fallbacks = Tail(EndpointsOf(q))
  BY <1>1 DEF ReadUpTo
<1>6. EndpointsOf(q) = EndpointsOf(p)
  <2>1. q \in Pids /\ IsServer(q)
    BY <1>3, <1>5 DEF ServersUpTo, IsServer
  <2>2. OneCandidate(q, p)
    BY <1>4, <1>5 DEF OneCandidate, On, Matches
  <2> QED
    BY <2>1, <2>2 DEF SaysWhere
<1>7. IsRecord(s[i]) /\ s[i].pids \in SUBSET Pids /\ p \in s[i].pids
  BY <1>1, <1>3, <1>4 DEF ReadUpTo, Engines, IsEngine
<1>8. t[i] = Holding(s[i], ExpandPidTree(s[i].pids))
  BY <1>1, <1>2
<1>9. /\ t[i].engine_type = EngineOfProcess(p) /\ t[i].endpoint = Head(EndpointsOf(p))
      /\ t[i].fallbacks = Tail(EndpointsOf(p)) /\ t[i].pids = ExpandPidTree(s[i].pids)
  BY <1>4, <1>5, <1>6, <1>7, <1>8, HoldingIs DEF On, Matches
<1>10. p \in t[i].pids /\ ExpandPidTree({p}) \subseteq t[i].pids
  <2> DEFINE tree == ExpandPidTree(s[i].pids)
  <2>1. tree \in SUBSET Pids /\ {p} \subseteq tree /\ Children(tree) \subseteq tree
    BY <1>7, TreeIsOfPids, TreeHasRoots, TreeIsClosed
  <2> HIDE DEF tree
  <2>2. ExpandPidTree({p}) \subseteq tree
    BY <2>1, TreeIsLeast
  <2> QED
    BY <1>9, <2>1, <2>2 DEF tree
<1>11. FirstAnswers(Places(t[i]), EngineOfProcess(p), a)
  <2> DEFINE said == EndpointsOf(p)
  <2>1. IsList(said) /\ said # <<>>
    BY EndpointsAre DEF SaysWhere, IsServer
  <2> HIDE DEF said
  <2>2. /\ IsList(Tail(said)) /\ Len(Tail(said)) = Len(said) - 1 /\ Len(said) \in Nat
        /\ \A k \in 1 .. Len(Tail(said)) : Tail(said)[k] = said[k + 1]
        /\ Head(said) = said[1]
    BY <2>1, Beheaded, ListDomain
  <2>3. t[i].endpoint = said[1] /\ t[i].fallbacks = Tail(said)
    BY <1>9, <2>2 DEF said
  <2>4. /\ IsList(Places(t[i])) /\ Len(Places(t[i])) = Len(Tail(said)) + 1
        /\ Places(t[i])[1] = said[1]
        /\ \A k \in 1 .. Len(Tail(said)) : Places(t[i])[k + 1] = Tail(said)[k]
    <3> DEFINE u == t[i]
    <3>1. IsList(u.fallbacks) /\ u.fallbacks = Tail(said) /\ u.endpoint = said[1]
      BY <2>2, <2>3
    <3> HIDE DEF u
    <3>2. /\ IsList(Places(u)) /\ Len(Places(u)) = Len(u.fallbacks) + 1 /\ Places(u)[1] = u.endpoint
          /\ \A k \in 1 .. Len(u.fallbacks) : Places(u)[k + 1] = u.fallbacks[k]
      BY <3>1, PlacesAre
    <3> QED
      BY <3>1, <3>2 DEF u
  <2>5. ASSUME NEW k \in 1 .. Len(said) PROVE Places(t[i])[k] = said[k]
    <3>1. CASE k = 1
      BY <2>4, <3>1
    <3>2. CASE k # 1
      <4>1. k - 1 \in 1 .. Len(Tail(said)) /\ (k - 1) + 1 = k
        BY <2>2, <3>2
      <4> QED
        BY <2>2, <2>4, <4>1
    <3> QED
      BY <3>1, <3>2
  <2>6. Len(said) <= Len(Places(t[i]))
    BY <2>2, <2>4
  <2>7. FirstAnswers(said, EngineOfProcess(p), a)
    BY DEF said, SaysWhere
  <2> QED
    BY <2>1, <2>4, <2>5, <2>6, <2>7, FirstOfMore
<1>12. Leads(t[i], EngineOfProcess(p), a, ExpandPidTree({p})) /\ p \in t[i].pids
  BY <1>9, <1>10, <1>11 DEF Leads
<1> QED
  BY <1>2, <1>12 DEF t

LEMMA KeptLeads ==
    ASSUME NEW e, IsEngine(e), NEW c, NEW type, NEW a, NEW P, Leads(e, type, a, P)
    PROVE  Leads(Kept(e, c), type, a, P \ c.pids)
<1>1. Places(Kept(e, c)) = Places(e)
  BY KeptIs DEF Places
<1> QED
  BY <1>1, KeptIs DEF Leads

(* A candidate with a process that no container claims is not swallowed,    *)
(* and leads after the merge where it led before.                           *)
LEMMA MergedLeads ==
    ASSUME NEW engines, Engines(engines), NEW found, Engines(found), Len(found) <= 1,
           NEW pids, Held(found) \subseteq pids,
           NEW i \in 1 .. Len(engines), NEW type, NEW a, NEW P, Leads(engines[i], type, a, P),
           NEW p \in engines[i].pids, p \notin pids
    PROVE  SomeLeads(Merged(engines, found), type, a, P \ pids)
<1>1. IsList(found) /\ Len(found) \in Nat /\ IsEngine(engines[i]) /\ Len(engines) \in Nat
  BY ListDomain DEF Engines
<1>2. CASE Len(found) = 0
  <2>1. found = <<>>
    BY <1>1, <1>2 DEF IsList
  <2>2. Leads(engines[i], type, a, P \ pids)
    BY DEF Leads
  <2> QED
    BY <2>1, <2>2, MergedNone DEF SomeLeads
<1>3. CASE Len(found) = 1
  <2> DEFINE c == found[1]
  <2>1. found = <<c>> /\ 1 \in 1 .. Len(found)
    BY <1>1, <1>3 DEF IsList
  <2>2. IsEngine(c) /\ c.pids \subseteq pids
    BY <2>1 DEF Engines, Held
  <2> HIDE DEF c
  <2>3. PICK cs, d : /\ Absorbed(engines, c) = [candidates |-> cs, container |-> d]
                     /\ AbsorbedUpTo(Len(engines), cs, d, engines, c)
    BY <2>2, AbsorbedIs
  <2>4. ~Swallowed(engines[i], c)
    BY <2>2 DEF Swallowed
  <2>5. PICK k \in 1 .. Len(cs) : cs[k] = Kept(engines[i], c)
    BY <2>3, <2>4 DEF AbsorbedUpTo
  <2>6. Leads(cs[k], type, a, P \ pids)
    <3>1. Leads(Kept(engines[i], c), type, a, P \ c.pids)
      BY <1>1, KeptLeads
    <3> QED
      BY <2>2, <2>5, <3>1 DEF Leads
  <2>7. SomeLeads(cs, type, a, P \ pids) /\ Engines(cs) /\ IsEngine(d)
    BY <2>3, <2>5, <2>6 DEF SomeLeads, AbsorbedUpTo, SameButModel
  <2>8. SomeLeads(Joined(cs, d), type, a, P \ pids)
    BY <2>7, JoinedLeads
  <2>9. Merged(engines, <<c>>) = Joined(cs, d)
    BY <2>3, MergedOne
  <2> QED
    BY <2>1, <2>8, <2>9
<1>4. Len(found) = 0 \/ Len(found) = 1
  <2>1. \A n \in Nat : n <= 1 => n = 0 \/ n = 1
    OBVIOUS
  <2> DEFINE n == Len(found)
  <2>2. n \in Nat /\ n <= 1
    BY <1>1
  <2> HIDE DEF n
  <2>3. n = 0 \/ n = 1
    BY <2>1, <2>2
  <2> QED
    BY <2>3 DEF n
<1> QED
  BY <1>2, <1>3, <1>4

(* So does the container's, unless it joins one that leads elsewhere.       *)
LEMMA MergedLeadsThere ==
    ASSUME NEW engines, Engines(engines), NEW c, IsEngine(c), NEW a,
           FirstAnswers(Places(c), c.engine_type, a),
           \A i \in 1 .. Len(engines) :
              Matches(engines[i], c.engine_type, c.endpoint) /\ ~Swallowed(engines[i], c)
              => a = c.endpoint
    PROVE  SomeLeads(Merged(engines, <<c>>), c.engine_type, a, c.pids)
<1>1. PICK cs, d : /\ Absorbed(engines, c) = [candidates |-> cs, container |-> d]
                   /\ AbsorbedUpTo(Len(engines), cs, d, engines, c)
  BY AbsorbedIs
<1>2. /\ Engines(cs) /\ IsEngine(d) /\ d.engine_type = c.engine_type /\ d.endpoint = c.endpoint
      /\ d.fallbacks = c.fallbacks /\ d.pids = c.pids
  BY <1>1 DEF AbsorbedUpTo, SameButModel
<1>3. Leads(d, c.engine_type, a, c.pids)
  <2>1. Places(d) = Places(c)
    BY <1>2 DEF Places
  <2> QED
    BY <1>2, <2>1 DEF Leads
<1>4. ASSUME NEW i \in 1 .. Len(cs), Matches(cs[i], d.engine_type, d.endpoint)
      PROVE  a = d.endpoint
  <2>1. PICK k \in 1 .. Len(engines) : Stays(cs[i], k, engines, c)
    BY <1>1 DEF AbsorbedUpTo
  <2>2. IsEngine(engines[k]) /\ cs[i] = Kept(engines[k], c) /\ ~Swallowed(engines[k], c)
    BY <2>1 DEF Stays, Engines
  <2>3. Matches(engines[k], c.engine_type, c.endpoint)
    BY <1>2, <1>4, <2>2, KeptIs DEF Matches
  <2> QED
    BY <1>2, <2>2, <2>3
<1>5. SomeLeads(Joined(cs, d), c.engine_type, a, c.pids)
  BY <1>2, <1>3, <1>4, JoinedLeads
<1> QED
  BY <1>1, <1>5, MergedOne

(* What became of a candidate that must be found: it is still to be probed, *)
(* or is a result.                                                           *)
Pursued(left, made, type, a, P) == SomeLeads(left, type, a, P) \/ SomeReaches(made, type, a, P)

(* What is known of every server of the host's own, when no probe failed,   *)
(* and of the container's, when nothing did.                                 *)
Promised(left, made) ==
    \A p \in Pids : \A a \in Named(EndpointsOf(p)) :
       SaysWhere(p, a) => Pursued(left, made, EngineOfProcess(p), a,
                                  ExpandPidTree({p}) \ TheContainer.pids)
PromisedThere(left, made) ==
    DockersView # <<>> =>
       \A a \in Named(Places(DockersView[1])) :
          ContainerSays(a) => Pursued(left, made, DockersView[1].engine_type, a, TheContainer.pids)

(* Whoever answers first for the first candidate has not been passed over.  *)
InTurn(left, places) ==
    left # <<>> =>
       \A a \in Named(Places(Head(left))) :
          FirstAnswers(Places(Head(left)), Head(left).engine_type, a)
          => FirstAnswers(places, Head(left).engine_type, a)

PromisesKept ==
    /\ pc = "top" /\ todo = <<>> /\ trouble = {} => containers = DockersView
    /\ pc \in {"probe", "done"} /\ "probe" \notin trouble => Promised(candidates, verified)
    /\ pc \in {"probe", "done"} /\ trouble = {} => PromisedThere(candidates, verified)
    /\ pc = "probe" /\ "probe" \notin trouble => InTurn(candidates, probing)
    /\ pc = "done" => candidates = <<>>

LEMMA PursuedFurther ==
    ASSUME NEW left, Engines(left), left # <<>>, NEW made, NEW type, NEW a, NEW P,
           Pursued(left, made, type, a, P)
    PROVE  \/ Pursued(Tail(left), made, type, a, P)
           \/ Leads(Head(left), type, a, P)
<1>1. /\ IsList(Tail(left)) /\ Len(Tail(left)) = Len(left) - 1 /\ Len(left) \in Nat
      /\ \A i \in 1 .. Len(Tail(left)) : Tail(left)[i] = left[i + 1]
      /\ Head(left) = left[1]
  BY Beheaded, ListDomain DEF Engines
<1>2. CASE SomeReaches(made, type, a, P)
  BY <1>2 DEF Pursued
<1>3. CASE SomeLeads(left, type, a, P)
  <2>1. PICK i \in 1 .. Len(left) : Leads(left[i], type, a, P)
    BY <1>3 DEF SomeLeads
  <2>2. CASE i = 1
    BY <1>1, <2>1, <2>2
  <2>3. CASE i # 1
    <3>1. i - 1 \in 1 .. Len(Tail(left)) /\ (i - 1) + 1 = i
      BY <1>1, <2>3
    <3>2. Leads(Tail(left)[i - 1], type, a, P)
      BY <1>1, <2>1, <3>1
    <3> QED
      BY <3>1, <3>2 DEF SomeLeads, Pursued
  <2> QED
    BY <2>2, <2>3
<1> QED
  BY <1>2, <1>3 DEF Pursued

LEMMA LeaderInTurn ==
    ASSUME NEW left, Engines(left), left # <<>>, NEW places, IsList(places), InTurn(left, places),
           NEW type, NEW a, NEW P, Leads(Head(left), type, a, P)
    PROVE  /\ Head(left).engine_type = type /\ P \subseteq Head(left).pids
           /\ FirstAnswers(places, type, a)
           /\ ProbeEngine(Head(places), type) => a = Head(places)
           /\ ~ProbeEngine(Head(places), type) => FirstAnswers(Tail(places), type, a)
<1> DEFINE e == Head(left)
<1>1. IsEngine(e)
  BY TailSeparate
<1>2. /\ e.engine_type = type /\ FirstAnswers(Places(e), type, a) /\ P \subseteq e.pids
      /\ \A b \in Named(Places(e)) :
            FirstAnswers(Places(e), e.engine_type, b) => FirstAnswers(places, e.engine_type, b)
  BY DEF Leads, InTurn
<1> HIDE DEF e
<1>3. IsList(Places(e))
  BY <1>1, PlacesAre DEF IsEngine
<1>4. a \in Named(Places(e))
  BY <1>2, <1>3, FirstOfTail
<1>5. FirstAnswers(places, type, a)
  BY <1>2, <1>4
<1>6. /\ ProbeEngine(Head(places), type) => a = Head(places)
      /\ ~ProbeEngine(Head(places), type) => FirstAnswers(Tail(places), type, a)
  BY <1>5, FirstOfTail
<1> QED
  BY <1>2, <1>5, <1>6 DEF e

(* One answers, one address does not, one candidate has no more.            *)
LEMMA AnswerPursues ==
    ASSUME NEW left, Engines(left), left # <<>>, NEW made, Engines(made),
           NEW places, IsList(places), Head(places) \in Addresses(Head(left)),
           ProbeEngine(Head(places), Head(left).engine_type), InTurn(left, places),
           NEW type, NEW a, NEW P, Pursued(left, made, type, a, P)
    PROVE  Pursued(Tail(left), Joined(made, OnlyAt(Head(left), Head(places))), type, a, P)
<1> DEFINE e == OnlyAt(Head(left), Head(places))
<1>1. IsEngine(Head(left))
  BY TailSeparate
<1>2. /\ IsEngine(e) /\ e.pids = Head(left).pids /\ e.engine_type = Head(left).engine_type
      /\ e.endpoint = Head(places)
  BY <1>1, OnlyAtIs
<1> HIDE DEF e
<1>3. CASE Leads(Head(left), type, a, P)
  <2>1. Head(left).engine_type = type /\ P \subseteq Head(left).pids /\ a = Head(places)
    BY <1>3, LeaderInTurn
  <2>2. Reaches(e, type, a, P)
    BY <1>2, <2>1 DEF Reaches
  <2>3. SomeReaches(Joined(made, e), type, a, P)
    BY <1>2, <2>2, JoinedReaches
  <2> QED
    BY <2>3 DEF Pursued, e
<1>4. CASE Pursued(Tail(left), made, type, a, P)
  <2>1. CASE SomeLeads(Tail(left), type, a, P)
    BY <2>1 DEF Pursued
  <2>2. CASE SomeReaches(made, type, a, P)
    <3>1. SomeReaches(Joined(made, e), type, a, P)
      BY <1>2, <2>2, JoinedReaches
    <3> QED
      BY <3>1 DEF Pursued, e
  <2> QED
    BY <1>4, <2>1, <2>2 DEF Pursued
<1> QED
  BY <1>3, <1>4, PursuedFurther

LEMMA SilencePasses ==
    ASSUME NEW left, Engines(left), left # <<>>, NEW places, IsList(places),
           ~ProbeEngine(Head(places), Head(left).engine_type), InTurn(left, places)
    PROVE  InTurn(left, Tail(places))
<1> SUFFICES ASSUME NEW a \in Named(Places(Head(left))),
                    FirstAnswers(Places(Head(left)), Head(left).engine_type, a)
             PROVE  FirstAnswers(Tail(places), Head(left).engine_type, a)
  BY DEF InTurn
<1>1. Leads(Head(left), Head(left).engine_type, a, {})
  BY DEF Leads
<1> QED
  BY <1>1, LeaderInTurn

LEMMA SilencePursues ==
    ASSUME NEW left, Engines(left), left # <<>>, NEW made,
           NEW places, IsList(places), places # <<>>, ~(Len(places) > 1),
           ~ProbeEngine(Head(places), Head(left).engine_type), InTurn(left, places),
           NEW type, NEW a, NEW P, Pursued(left, made, type, a, P)
    PROVE  Pursued(Tail(left), made, type, a, P)
<1>1. ASSUME Leads(Head(left), type, a, P) PROVE FALSE
  <2>1. FirstAnswers(Tail(places), type, a)
    BY <1>1, LeaderInTurn
  <2>2. /\ IsList(Tail(places)) /\ Len(Tail(places)) = Len(places) - 1 /\ Len(places) \in Nat
    BY Beheaded, ListDomain
  <2>3. Tail(places) # <<>>
    BY <2>1, <2>2, FirstOfTail
  <2>4. Len(Tail(places)) # 0
    <3> DEFINE rest == Tail(places)
    <3>1. IsList(rest) /\ rest # <<>>
      BY <2>2, <2>3
    <3> HIDE DEF rest
    <3>2. Len(rest) # 0
      BY <3>1 DEF IsList
    <3> QED
      BY <3>2 DEF rest
  <2> QED
    BY <2>2, <2>4
<1> QED
  BY <1>1, PursuedFurther

(* The world stands still, and so does what it promises.                    *)
LEMMA FirstStays ==
    ASSUME world' = world
    PROVE  \A places, type, a : FirstAnswers(places, type, a)' = FirstAnswers(places, type, a)
BY ProbesStay DEF FirstAnswers

LEMMA PursuedStays ==
    ASSUME world' = world
    PROVE  \A left, made, type, a, P :
              Pursued(left, made, type, a, P)' = Pursued(left, made, type, a, P)
<1>1. \A e, type, a, P : Leads(e, type, a, P)' = Leads(e, type, a, P)
  BY FirstStays DEF Leads, Places
<1>2. \A s, type, a, P : SomeLeads(s, type, a, P)' = SomeLeads(s, type, a, P)
  BY <1>1 DEF SomeLeads
<1>3. \A s, type, a, P : SomeReaches(s, type, a, P)' = SomeReaches(s, type, a, P)
  BY DEF SomeReaches, Reaches
<1> QED
  BY <1>2, <1>3 DEF Pursued

LEMMA ScannersStay ==
    ASSUME world' = world
    PROVE  /\ \A p : EngineOfProcess(p)' = EngineOfProcess(p)
           /\ \A p : EndpointsOf(p)' = EndpointsOf(p)
           /\ \A p : IsServer(p)' = IsServer(p)
           /\ \A roots : ExpandPidTree(roots)' = ExpandPidTree(roots)
           /\ TheContainer' = TheContainer
<1>1. \A p : EngineOfProcess(p)' = EngineOfProcess(p)
  BY DEF EngineOfProcess
<1>2. \A p : EndpointsOf(p)' = EndpointsOf(p)
  BY DEF EndpointsOf, EngineOfProcess, LaunchOf, EnvOf
<1>3. \A roots : ExpandPidTree(roots)' = ExpandPidTree(roots)
  BY PidsStay DEF ExpandPidTree, Children
<1>4. Owned' = Owned
  BY PidsStay DEF Owned, Owners, ExpandPidTree, Children, EngineOfProcess
<1>5. \A p : IsServer(p)' = IsServer(p)
  BY <1>2, <1>4, PidsStay DEF IsServer
<1>6. TheContainer' = TheContainer
  BY DEF TheContainer
<1> QED
  BY <1>1, <1>2, <1>3, <1>5, <1>6

LEMMA SayingsStay ==
    ASSUME world' = world
    PROVE  /\ \A p, a : SaysWhere(p, a)' = SaysWhere(p, a)
           /\ DockersView' = DockersView
           /\ \A a : ContainerSays(a)' = ContainerSays(a)
<1>1. \A p, q : OneCandidate(q, p)' = OneCandidate(q, p)
  BY ScannersStay DEF OneCandidate
<1>2. \A p, a : SaysWhere(p, a)' = SaysWhere(p, a)
  BY <1>1, ScannersStay, FirstStays, PidsStay DEF SaysWhere
<1>3. DockersView' = DockersView
  BY DockersStay, ScannersStay DEF DockersView
<1>4. \A a : ContainerSays(a)' = ContainerSays(a)
  BY <1>3, ScanStays, FirstStays DEF ContainerSays, Places, Matches, Swallowed
<1> QED
  BY <1>2, <1>3, <1>4

LEMMA PromisesStay ==
    ASSUME world' = world, NEW left, candidates' = left, NEW made, verified' = made
    PROVE  /\ Promised(left, made) => Promised(candidates, verified)'
           /\ PromisedThere(left, made) => PromisedThere(candidates, verified)'
<1>1. Promised(left, made)' = Promised(left, made)
  BY SayingsStay, ScannersStay, PursuedStays, PidsStay DEF Promised, Named
<1>2. PromisedThere(left, made)' = PromisedThere(left, made)
  BY SayingsStay, ScannersStay, PursuedStays DEF PromisedThere, Named, Places
<1>3. /\ Promised(candidates, verified)' = Promised(left, made)'
      /\ PromisedThere(candidates, verified)' = PromisedThere(left, made)'
  BY DEF Promised, PromisedThere, Pursued, SomeLeads, SomeReaches
<1> QED
  BY <1>1, <1>2, <1>3

LEMMA TurnStays ==
    ASSUME world' = world, NEW left, candidates' = left, NEW places, probing' = places
    PROVE  InTurn(left, places) => InTurn(candidates, probing)'
<1>1. InTurn(left, places)' = InTurn(left, places)
  BY FirstStays DEF InTurn, Named, Places
<1>2. InTurn(candidates, probing)' = InTurn(left, places)'
  BY DEF InTurn, FirstAnswers
<1> QED
  BY <1>1, <1>2

LEMMA TurnBegins ==
    ASSUME world' = world, NEW engines, Begin(engines)
    PROVE  InTurn(candidates, probing)'
<1>1. CASE engines = <<>>
  BY <1>1 DEF Begin, InTurn
<1>2. CASE engines # <<>>
  <2>1. candidates' = engines /\ probing' = Places(Head(engines))
    BY <1>2 DEF Begin, Places
  <2>2. InTurn(engines, Places(Head(engines)))
    BY DEF InTurn
  <2> QED
    BY <2>1, <2>2, TurnStays
<1> QED
  BY <1>1, <1>2

LEMMA PromisesBegin == Init => PromisesKept
BY DEF Init, PromisesKept

LEMMA ScanPromises == ASSUME ScanProcesses PROVE PromisesKept'
BY DEF ScanProcesses, PromisesKept

LEMMA ListPromises == ASSUME PassInv, ListContainers PROVE PromisesKept'
<1>1. world.containers # <<>>
  BY EmptyList DEF PassInv, Hosted
<1>2. pc' = "top" /\ (trouble' = {} => todo' # <<>>)
  BY <1>1 DEF ListContainers
<1> QED
  BY <1>2 DEF PromisesKept

LEMMA ContainerPromises == ASSUME PassInv, ScanContainer PROVE PromisesKept'
<1>1. world' = world /\ pc = "top" /\ pc' = "top" /\ todo # <<>>
  BY DEF ScanContainer
<1>2. ASSUME trouble' = {} PROVE containers' = DockersView
  <2> DEFINE c == Head(todo)
  <2>1. PICK top, inspect \in BOOLEAN :
             /\ containers' = containers \o
                    DockerCandidate(c, IF top THEN c.pids ELSE {},
                                    IF inspect THEN c.env ELSE BlankEnv)
             /\ trouble' = trouble \cup (IF top THEN {} ELSE {"top"})
                                   \cup (IF inspect THEN {} ELSE {"inspect"})
    BY DEF ScanContainer, BlankEnv
  <2>2. top /\ inspect
    BY <1>2, <2>1
  <2>3. IsList(todo) /\ todo # <<>> /\ (\A i \in 1 .. Len(todo) : todo[i] = world.containers[1])
        /\ Len(containers) + Len(todo) <= 1 /\ Hosted /\ IsList(containers)
    BY <1>1 DEF PassInv, AtItsPlace, Sorted, Engines
  <2>4. c = TheContainer /\ 1 \in 1 .. Len(todo)
    BY <2>3, Beheaded DEF TheContainer
  <2>5. Len(containers) \in Nat /\ Len(todo) \in Nat
    BY <2>3, ListDomain
  <2>6. Len(containers) = 0
    BY <2>3, <2>4, <2>5
  <2>7. containers' = containers \o DockersView
    BY <2>1, <2>2, <2>4 DEF DockersView
  <2>8. AtMostOne(DockersView, TheContainer.pids)
    BY <2>3, CandidateIs DEF DockersView, TheContainer
  <2> DEFINE d == DockersView
  <2> HIDE DEF d
  <2>9. AtMostOne(d, TheContainer.pids)
    BY <2>8 DEF d
  <2>10. IsList(d)
    <3>1. CASE d = <<>>
      BY <3>1, EmptyList
    <3>2. ASSUME NEW e, d = <<e>> PROVE IsList(d)
      BY <3>2 DEF IsList
    <3> QED
      BY <2>9, <3>1, <3>2 DEF AtMostOne
  <2>11. containers \o d = d
    BY <2>3, <2>6, <2>10, NothingBefore
  <2> QED
    BY <2>7, <2>11 DEF d
<1> QED
  BY <1>1, <1>2, SayingsStay DEF PromisesKept

(* The merge: whatever a candidate of the scan or Docker's view promises.   *)
LEMMA MergePromisesOwn ==
    ASSUME PassInv, Traced, pc = "top", candidates = EnginesFromProcesses, NEW made
    PROVE  Promised(Merged(candidates, containers), made)
<1> SUFFICES ASSUME NEW p \in Pids, NEW a \in Named(EndpointsOf(p)), SaysWhere(p, a)
             PROVE  Pursued(Merged(candidates, containers), made, EngineOfProcess(p), a,
                            ExpandPidTree({p}) \ TheContainer.pids)
  BY DEF Promised
<1>1. IsList(world.procs)
  BY DEF PassInv, Hosted
<1>2. PICK i \in 1 .. Len(candidates) :
           /\ Leads(candidates[i], EngineOfProcess(p), a, ExpandPidTree({p}))
           /\ p \in candidates[i].pids
  BY <1>1, ScanLeads
<1>3. /\ Engines(candidates) /\ Engines(containers) /\ Len(containers) <= 1
      /\ Held(containers) \subseteq TheContainer.pids /\ p \notin TheContainer.pids
  <2>1. Engines(candidates) /\ Engines(containers)
    BY DEF PassInv, Sorted
  <2>2. Len(containers) + Len(todo) <= 1 /\ IsList(containers) /\ IsList(todo)
    BY <2>1 DEF PassInv, AtItsPlace, Engines
  <2>3. Len(containers) <= 1
    BY <2>2, ListDomain
  <2> QED
    BY <2>1, <2>3 DEF Traced, TheContainer, SaysWhere
<1> DEFINE tree == ExpandPidTree({p})
           type == EngineOfProcess(p)
<1>4. Leads(candidates[i], type, a, tree)
  BY <1>2
<1> HIDE DEF tree, type
<1>5. SomeLeads(Merged(candidates, containers), type, a, tree \ TheContainer.pids)
  BY <1>2, <1>3, <1>4, MergedLeads
<1> QED
  BY <1>5 DEF Pursued, tree, type

LEMMA MergePromisesThere ==
    ASSUME PassInv, candidates = EnginesFromProcesses, containers = DockersView, NEW made
    PROVE  PromisedThere(Merged(candidates, containers), made)
<1> SUFFICES ASSUME DockersView # <<>>, NEW a \in Named(Places(DockersView[1])), ContainerSays(a)
             PROVE  Pursued(Merged(candidates, DockersView), made, DockersView[1].engine_type, a,
                            TheContainer.pids)
  BY DEF PromisedThere
<1>1. AtMostOne(DockersView, TheContainer.pids)
  BY CandidateIs DEF DockersView, TheContainer, PassInv
<1>2. PICK c : DockersView = <<c>> /\ IsEngine(c) /\ c.pids = TheContainer.pids
  BY <1>1 DEF AtMostOne
<1>3. DockersView[1] = c
  BY <1>2
<1>4. Engines(candidates)
  BY DEF PassInv, Sorted
<1>5. /\ FirstAnswers(Places(c), c.engine_type, a)
      /\ \A i \in 1 .. Len(candidates) :
            Matches(candidates[i], c.engine_type, c.endpoint) /\ ~Swallowed(candidates[i], c)
            => a = c.endpoint
  BY <1>3 DEF ContainerSays
<1>6. SomeLeads(Merged(candidates, <<c>>), c.engine_type, a, c.pids)
  BY <1>2, <1>4, <1>5, MergedLeadsThere
<1> QED
  BY <1>2, <1>3, <1>6 DEF Pursued

LEMMA MergePromises == ASSUME PassInv, Traced, PortsKept, PromisesKept, Merge PROVE PromisesKept'
<1> DEFINE left == Merged(candidates, containers)
<1>1. /\ world' = world /\ verified' = verified /\ trouble' = trouble
      /\ pc = "top" /\ todo = <<>> /\ Begin(left)
  BY DEF Merge
<1>2. candidates' = left /\ pc' \in {"probe", "done"} /\ (pc' = "done" => left = <<>>)
  BY <1>1 DEF Begin
<1>3. candidates = EnginesFromProcesses
  BY <1>1 DEF PortsKept
<1>4. Promised(left, verified)
  BY <1>1, <1>3, MergePromisesOwn
<1>5. trouble = {} => PromisedThere(left, verified)
  BY <1>1, <1>3, MergePromisesThere DEF PromisesKept
<1> HIDE DEF left
<1>6. Promised(candidates, verified)' /\ (trouble = {} => PromisedThere(candidates, verified)')
  BY <1>1, <1>2, <1>4, <1>5, PromisesStay
<1>7. InTurn(candidates, probing)'
  BY <1>1, TurnBegins
<1> QED
  BY <1>1, <1>2, <1>6, <1>7 DEF PromisesKept

LEMMA AnswerPromises == ASSUME PassInv, PromisesKept, Answers PROVE PromisesKept'
<1> DEFINE left == Tail(candidates)
           made == Joined(verified, OnlyAt(Head(candidates), Head(probing)))
<1>1. /\ world' = world /\ pc = "probe" /\ verified' = made /\ trouble' = trouble
      /\ Begin(left) /\ ProbeEngine(Head(probing), Head(candidates).engine_type)
  BY DEF Answers
<1>2. candidates' = left /\ pc' \in {"probe", "done"} /\ (pc' = "done" => left = <<>>)
  BY <1>1 DEF Begin
<1>3. /\ candidates # <<>> /\ Engines(candidates) /\ Engines(verified) /\ IsList(probing)
      /\ Head(probing) \in Addresses(Head(candidates))
  BY <1>1, HeadIsProbed DEF PassInv, Sorted, AtItsPlace
<1>4. ASSUME "probe" \notin trouble, NEW type, NEW a, NEW P,
             Pursued(candidates, verified, type, a, P)
      PROVE  Pursued(left, made, type, a, P)
  <2>1. InTurn(candidates, probing)
    BY <1>1, <1>4 DEF PromisesKept
  <2> QED
    BY <1>1, <1>3, <1>4, <2>1, AnswerPursues
<1>5. "probe" \notin trouble => Promised(left, made)
  <2> HIDE DEF left, made
  <2> QED
    BY <1>1, <1>4 DEF PromisesKept, Promised
<1>6. trouble = {} => PromisedThere(left, made)
  <2> HIDE DEF left, made
  <2> QED
    BY <1>1, <1>4 DEF PromisesKept, PromisedThere
<1>7. InTurn(candidates, probing)'
  BY <1>1, TurnBegins
<1> HIDE DEF left, made
<1>8. /\ "probe" \notin trouble' => Promised(candidates, verified)'
      /\ trouble' = {} => PromisedThere(candidates, verified)'
  BY <1>1, <1>2, <1>5, <1>6, PromisesStay
<1> QED
  BY <1>2, <1>7, <1>8 DEF PromisesKept

LEMMA SilencePromises == ASSUME PassInv, PromisesKept, DoesNotAnswer PROVE PromisesKept'
<1>1. /\ world' = world /\ pc = "probe" /\ verified' = verified
      /\ candidates # <<>> /\ Engines(candidates) /\ IsList(probing) /\ probing # <<>>
  BY DEF DoesNotAnswer, PassInv, Sorted, AtItsPlace
<1>2. pc' \in {"probe", "done"}
  BY <1>1 DEF DoesNotAnswer, Begin
<1>3. ASSUME "probe" \notin trouble'
      PROVE  /\ ~ProbeEngine(Head(probing), Head(candidates).engine_type)
             /\ trouble' = trouble /\ "probe" \notin trouble
             /\ Promised(candidates, verified) /\ InTurn(candidates, probing)
             /\ trouble = {} => PromisedThere(candidates, verified)
  <2>1. ~ProbeEngine(Head(probing), Head(candidates).engine_type) /\ trouble' = trouble
    BY <1>3 DEF DoesNotAnswer
  <2> QED
    BY <1>1, <1>3, <2>1 DEF PromisesKept
<1>4. CASE Len(probing) > 1
  <2>1. candidates' = candidates /\ probing' = Tail(probing) /\ pc' = "probe"
    BY <1>1, <1>4 DEF DoesNotAnswer
  <2>2. ASSUME "probe" \notin trouble' PROVE InTurn(candidates, probing)'
    BY <1>1, <1>3, <2>1, <2>2, SilencePasses, TurnStays
  <2>3. ASSUME "probe" \notin trouble'
        PROVE  Promised(candidates, verified)' /\ (trouble' = {} => PromisedThere(candidates, verified)')
    BY <1>1, <1>3, <2>1, <2>3, PromisesStay
  <2> QED
    BY <2>1, <2>2, <2>3 DEF PromisesKept
<1>5. CASE ~(Len(probing) > 1)
  <2> DEFINE left == Tail(candidates)
  <2>1. Begin(left) /\ candidates' = left /\ (pc' = "done" => left = <<>>)
    BY <1>5 DEF DoesNotAnswer, Begin
  <2>2. ASSUME "probe" \notin trouble', NEW type, NEW a, NEW P,
               Pursued(candidates, verified, type, a, P)
        PROVE  Pursued(left, verified, type, a, P)
    BY <1>1, <1>3, <1>5, <2>2, SilencePursues
  <2> HIDE DEF left
  <2>3. "probe" \notin trouble' => Promised(left, verified)
    BY <1>3, <2>2 DEF Promised
  <2>4. trouble' = {} => PromisedThere(left, verified)
    BY <1>3, <2>2 DEF PromisedThere
  <2>5. /\ "probe" \notin trouble' => Promised(candidates, verified)'
        /\ trouble' = {} => PromisedThere(candidates, verified)'
    BY <1>1, <2>1, <2>3, <2>4, PromisesStay
  <2>6. InTurn(candidates, probing)'
    BY <1>1, <2>1, TurnBegins
  <2> QED
    BY <1>2, <2>1, <2>5, <2>6 DEF PromisesKept
<1> QED
  BY <1>4, <1>5

LEMMA PromisesRest == ASSUME PromisesKept, UNCHANGED vars PROVE PromisesKept'
<1>1. /\ world' = world /\ pc' = pc /\ trouble' = trouble /\ candidates' = candidates
      /\ containers' = containers /\ verified' = verified /\ todo' = todo /\ probing' = probing
  BY DEF vars
<1>2. /\ Promised(candidates, verified) => Promised(candidates, verified)'
      /\ PromisedThere(candidates, verified) => PromisedThere(candidates, verified)'
      /\ InTurn(candidates, probing) => InTurn(candidates, probing)'
  BY <1>1, PromisesStay, TurnStays
<1>3. DockersView' = DockersView
  BY <1>1, SayingsStay
<1> QED
  BY <1>1, <1>2, <1>3 DEF PromisesKept

(* No server is lost between the scan and the results: until it is one, a   *)
(* candidate has its processes and its address among those still to be      *)
(* tried.                                                                    *)
THEOREM PromisesKeptHolds == Spec => []PromisesKept
<1>1. PassInv /\ Traced /\ PortsKept /\ PromisesKept /\ [Next]_vars => PromisesKept'
  BY ScanPromises, ListPromises, ContainerPromises, MergePromises, AnswerPromises,
     SilencePromises, PromisesRest
  DEF Next
<1> QED
  BY <1>1, PromisesBegin, PassInvHolds, TracedHolds, PortsKeptHolds, PTL DEF Spec

(* A server of the host's own is a result where no probe failed: of its     *)
(* type, at the first of its addresses that answers, with all its           *)
(* descendants but the container's.                                          *)
NativeServersAreFound ==
    pc = "done" /\ "probe" \notin trouble =>
        \A p \in Pids : \A a \in Named(EndpointsOf(p)) :
           SaysWhere(p, a) =>
              SomeReaches(verified, EngineOfProcess(p), a, ExpandPidTree({p}) \ TheContainer.pids)

(* Whatever Docker does, it costs the host's own servers nothing: neither  *)
(* the absorbing nor the joining loses a candidate that answers.            *)
THEOREM NativeServersAreFoundHolds == Spec => []NativeServersAreFound
<1>1. PassInv /\ PromisesKept => NativeServersAreFound
  <2> SUFFICES ASSUME PassInv, PromisesKept, pc = "done", "probe" \notin trouble
               PROVE  NativeServersAreFound
    BY DEF NativeServersAreFound
  <2>1. Promised(candidates, verified) /\ candidates = <<>>
    BY DEF PromisesKept, PassInv, AtItsPlace
  <2>2. \A type, a, P : ~SomeLeads(<<>>, type, a, P)
    BY EmptyList DEF SomeLeads
  <2> QED
    BY <2>1, <2>2 DEF NativeServersAreFound, Promised, Pursued
<1> QED
  BY <1>1, PassInvHolds, PromisesKeptHolds, PTL

(* A launch names the port its server is on, and no server of its type is   *)
(* on a port it names before that; and a container's processes are all of a *)
(* server's tree or none.                                                    *)
ServersAreWhereTheySay ==
    \A p \in Pids :
       world.procs[p].at # None /\ OwnServer(p) /\ Told(p) /\ ~Doubled(p) =>
          \/ /\ ExpandPidTree({p}) \cap TheContainer.pids = {}
             /\ \E a \in Named(EndpointsOf(p)) : a.port = world.procs[p].at /\ SaysWhere(p, a)
          \/ /\ ExpandPidTree({p}) \subseteq TheContainer.pids
             /\ DockersView # <<>> /\ DockersView[1].engine_type = EngineOfProcess(p)
             /\ \E a \in Named(Places(DockersView[1])) :
                   a.port = world.procs[p].at /\ ContainerSays(a)

(* Every server that answers where its launch or its container says is     *)
(* found on its port with all its descendants, over the two scans, the     *)
(* merge and the fallbacks.                                                  *)
THEOREM EveryServerIsFoundHolds == Spec => [](ServersAreWhereTheySay => EveryServerIsFound)
<1>1. PassInv /\ PromisesKept => (ServersAreWhereTheySay => EveryServerIsFound)
  <2> SUFFICES ASSUME PassInv, PromisesKept, ServersAreWhereTheySay, pc = "done", trouble = {},
                      NEW p \in Pids, world.procs[p].at # None, OwnServer(p), Told(p), ~Doubled(p)
               PROVE  \E i \in DOMAIN verified :
                         /\ verified[i].engine_type = EngineOfProcess(p)
                         /\ verified[i].endpoint.port = world.procs[p].at
                         /\ ExpandPidTree({p}) \subseteq verified[i].pids
    BY DEF EveryServerIsFound
  <2>1. /\ Promised(candidates, verified) /\ PromisedThere(candidates, verified)
        /\ candidates = <<>> /\ DOMAIN verified = 1 .. Len(verified)
    BY ListDomain DEF PromisesKept, PassInv, AtItsPlace, Sorted, Engines
  <2>2. \A type, a, P : Pursued(candidates, verified, type, a, P) => SomeReaches(verified, type, a, P)
    BY <2>1, EmptyList DEF SomeLeads, Pursued
  <2>3. \E a : /\ a.port = world.procs[p].at
               /\ SomeReaches(verified, EngineOfProcess(p), a, ExpandPidTree({p}))
    <3>1. CASE /\ ExpandPidTree({p}) \cap TheContainer.pids = {}
               /\ \E a \in Named(EndpointsOf(p)) : a.port = world.procs[p].at /\ SaysWhere(p, a)
      <4>1. PICK a \in Named(EndpointsOf(p)) : a.port = world.procs[p].at /\ SaysWhere(p, a)
        BY <3>1
      <4>2. SomeReaches(verified, EngineOfProcess(p), a, ExpandPidTree({p}) \ TheContainer.pids)
        BY <2>1, <2>2, <4>1 DEF Promised
      <4>3. ExpandPidTree({p}) \ TheContainer.pids = ExpandPidTree({p})
        BY <3>1
      <4> QED
        BY <4>1, <4>2, <4>3
    <3>2. CASE /\ ExpandPidTree({p}) \subseteq TheContainer.pids
               /\ DockersView # <<>> /\ DockersView[1].engine_type = EngineOfProcess(p)
               /\ \E a \in Named(Places(DockersView[1])) :
                     a.port = world.procs[p].at /\ ContainerSays(a)
      <4>1. PICK a \in Named(Places(DockersView[1])) : a.port = world.procs[p].at /\ ContainerSays(a)
        BY <3>2
      <4>2. SomeReaches(verified, EngineOfProcess(p), a, TheContainer.pids)
        BY <2>1, <2>2, <3>2, <4>1 DEF PromisedThere
      <4>3. SomeReaches(verified, EngineOfProcess(p), a, ExpandPidTree({p}))
        BY <3>2, <4>2 DEF SomeReaches, Reaches
      <4> QED
        BY <4>1, <4>3
    <3> QED
      BY <3>1, <3>2 DEF ServersAreWhereTheySay
  <2> QED
    BY <2>1, <2>3 DEF SomeReaches, Reaches
<1> QED
  BY <1>1, PassInvHolds, PromisesKeptHolds, PTL
=============================================================================
