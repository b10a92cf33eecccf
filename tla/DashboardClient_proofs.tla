----------------------- MODULE DashboardClient_proofs -----------------------
(* Proofs about DashboardClient, for any number of tabs and of writes.      *)
EXTENDS DashboardClient, FiniteSetTheorems, WellFoundedInduction, TLAPS

-----------------------------------------------------------------------------
(* The inductive invariant.                                                 *)

(* The pages of a document and the page on screen, by what each write was:  *)
(* PagesOf and PageAt, with the writes as a parameter.                      *)
PagesIn(w, d) ==
    ({Earlier} \cup {n \in d \ {Earlier} : w[n].op = "create"})
        \ {w[n].page : n \in {m \in d \ {Earlier} : w[m].op = "remove"}}
PageIn(w, document, at) ==
    IF at = Root THEN First(PagesIn(w, document))
    ELSE IF at \in PagesIn(w, document) THEN at ELSE None

(* A document is made of writes that were sent, and is never without pages. *)
Good(w, d) ==
    /\ d \subseteq {Earlier} \cup {n \in Writes : w[n].phase # "none"}
    /\ PagesIn(w, d) # {}

DocumentsInv ==
    /\ \A d \in past : Good(write, d)
    /\ \A c \in Requests : Good(write, call[c].doc) /\ Good(write, call[c].body)
    /\ \A t \in Tabs : Good(write, tab[t].document)

(* Success means that what was read was there, or what was written took     *)
(* effect.  Tabs read and writes write.                                     *)
ServerInv ==
    /\ doc \in past
    /\ \A c \in Requests : call[c].answer = "ok" =>
          IF call[c].op = "get" THEN call[c].body \in past ELSE call[c].doc \in past
    /\ \A t \in Tabs : call[t].op = "get"
    /\ \A n \in Writes : call[n].phase # "idle" => call[n].op # "get"

(* A session is on a page that is there.                                    *)
SessionInv ==
    \A t \in Tabs : tab[t].editing =>
        /\ tab[t].load = "loaded"
        /\ PageIn(write, tab[t].document, tab[t].at) # None

(* A write that was neither a reset nor asked for under the notice builds   *)
(* on a document the server has held.                                       *)
BuildsOn ==
    \A n \in Writes :
        call[n].phase # "idle" /\ write[n].op # "reset" /\ ~write[n].told =>
            \E d \in past : call[n].doc = d \cup {n}

IInv == TypeOK /\ DocumentsInv /\ ServerInv /\ SessionInv /\ BuildsOn /\ ShownWasStored

-----------------------------------------------------------------------------
(* Pages.                                                                   *)

(* By the well-foundedness of finite sets: of the intervals 0 .. k.         *)
LEMMA SmallestNumber ==
    ASSUME NEW S \in SUBSET Nat, S # {}
    PROVE  \E m \in S : \A k \in S : m <= k
<1> DEFINE R == StrictSubsetOrdering(Nat)
           T == {0 .. k : k \in S}
<1>1. T \subseteq FiniteSubsetsOf(Nat) /\ T # {}
  <2>1. ASSUME NEW k \in S PROVE IsFiniteSet(0 .. k) /\ 0 .. k \in SUBSET Nat
    <3>1. k \in Int /\ 0 \in Int
      OBVIOUS
    <3> QED
      BY <3>1, FS_Interval
  <2> QED
    BY <2>1 DEF FiniteSubsetsOf
<1>2. IsWellFoundedOn(R, FiniteSubsetsOf(Nat))
    BY FS_StrictSubsetOrderingWellFounded
<1>3. \E x \in T : \A y \in T : ~(<<y, x>> \in R)
  <2> HIDE DEF T, R
  <2> QED
    BY <1>1, <1>2, WFMin
<1>4. PICK m \in S : \A y \in T : ~(<<y, 0 .. m>> \in R)
    BY <1>3
<1>5. ASSUME NEW k \in S PROVE m <= k
  <2> SUFFICES ASSUME k < m PROVE FALSE
    OBVIOUS
  <2>1. 0 .. k \subseteq 0 .. m /\ m \in 0 .. m /\ m \notin 0 .. k
    OBVIOUS
  <2>2. 0 .. k \in SUBSET Nat /\ 0 .. m \in SUBSET Nat
    OBVIOUS
  <2>3. <<0 .. k, 0 .. m>> \in R
    BY <2>1, <2>2 DEF StrictSubsetOrdering
  <2> QED
    BY <1>4, <2>3
<1> QED
    BY <1>5

LEMMA FirstIsIn ==
    ASSUME NEW S \in SUBSET Nat, S # {}
    PROVE  First(S) \in S
BY SmallestNumber DEF First

LEMMA LastIsIn ==
    ASSUME NEW N \in Nat, NEW S \in SUBSET (0 .. N), S # {}
    PROVE  (CHOOSE p \in S : \A q \in S : q <= p) \in S
<1> DEFINE T == {k \in 0 .. N : N - k \in S}
<1>1. T \in SUBSET Nat /\ T # {}
  <2>1. PICK p \in S : TRUE
    OBVIOUS
  <2>2. p \in 0 .. N /\ N - p \in 0 .. N /\ N - (N - p) = p
    BY <2>1
  <2>3. N - p \in T
    BY <2>1, <2>2
  <2> QED
    BY <2>3
<1>2. PICK m \in T : \A k \in T : m <= k
    BY <1>1, SmallestNumber
<1>3. N - m \in S /\ m \in 0 .. N
    BY <1>2
<1>4. ASSUME NEW q \in S PROVE q <= N - m
  <2>1. q \in 0 .. N /\ N - q \in 0 .. N /\ N - (N - q) = q
    BY <1>4
  <2>2. N - q \in T
    BY <1>4, <2>1
  <2>3. m <= N - q
    BY <1>2, <2>2
  <2> QED
    BY <1>3, <2>1, <2>3
<1> QED
    BY <1>3, <1>4

LEMMA PagesAreNumbers ==
    /\ Pages = 0 .. MaxWrites /\ Documents = SUBSET Pages
    /\ Root \notin Pages /\ None \notin Pages /\ None # Root
BY WritesAssumption DEF Pages, Earlier, Writes, Root, None, Documents

LEMMA PagesArePages ==
    ASSUME NEW w, NEW d \in Documents
    PROVE  PagesIn(w, d) \subseteq Pages
BY DEF PagesIn, Pages, Documents

LEMMA ParametersAside ==
    /\ \A d : PagesOf(d) = PagesIn(write, d)
    /\ \A document, at : PageAt(document, at) = PageIn(write, document, at)
    /\ \A t \in Tabs : Page(t) = PageIn(write, tab[t].document, tab[t].at)
BY DEF PagesOf, PagesIn, PageAt, PageIn, Page

(* The page on screen is one of the document's, if there is one.            *)
LEMMA PageIsThere ==
    ASSUME NEW w, NEW d \in Documents, PagesIn(w, d) # {}, NEW at,
           PageIn(w, d, at) # None
    PROVE  PageIn(w, d, at) \in PagesIn(w, d) /\ PageIn(w, d, at) \in Pages
<1>1. PagesIn(w, d) \in SUBSET Nat /\ PagesIn(w, d) \subseteq Pages
    BY PagesArePages, PagesAreNumbers, WritesAssumption
<1> QED
    BY <1>1, FirstIsIn DEF PageIn

(* What a write was does not change while others are asked for and settled. *)
SameWrites(w, v) ==
    \A n \in Writes : w[n].phase # "none" =>
        /\ v[n].phase # "none" /\ v[n].op = w[n].op /\ v[n].page = w[n].page

LEMMA PagesStay ==
    ASSUME NEW w, NEW v, SameWrites(w, v), NEW d, Good(w, d)
    PROVE  /\ PagesIn(v, d) = PagesIn(w, d) /\ Good(v, d)
           /\ \A at : PageIn(v, d, at) = PageIn(w, d, at)
<1>1. \A n \in d \ {Earlier} :
        /\ n \in Writes /\ w[n].phase # "none"
        /\ v[n].phase # "none" /\ v[n].op = w[n].op /\ v[n].page = w[n].page
    BY DEF Good, SameWrites
<1>2. PagesIn(v, d) = PagesIn(w, d)
    BY <1>1 DEF PagesIn
<1>3. Good(v, d)
    BY <1>1, <1>2 DEF Good
<1> QED
    BY <1>2, <1>3 DEF PageIn

LEMMA PresetIsGood ==
    ASSUME NEW w
    PROVE  Good(w, Preset) /\ Preset \in Documents
BY DEF Good, PagesIn, Preset, Documents

-----------------------------------------------------------------------------
(* Rendering.                                                               *)

Call == [phase : {"idle", "open", "answered", "abandoned"}, op : {"get", "put", "delete"},
         doc : Documents, body : Documents,
         answer : {"none", "ok", "too-large", "read-only", "failed"}]

LEMMA NoCallIsCall ==
    /\ Server!NoCall \in Call
    /\ Server!NoCall.phase = "idle" /\ Server!NoCall.op = "get"
    /\ Server!NoCall.doc = Preset /\ Server!NoCall.body = Preset
    /\ Server!NoCall.answer = "none"
BY PresetIsGood DEF Server!NoCall, Call

(* What is on screen next, and what became of the controls.                 *)
LEMMA RenderEffect ==
    ASSUME TypeOK, NEW t \in Tabs, NEW next \in Tab,
           NEW writes \in [Writes -> Write], Renders(t, next, writes)
    PROVE  /\ tab' \in [Tabs -> Tab]
           /\ \A u \in Tabs \ {t} : tab'[u] = tab[u]
           /\ tab'[t].load = next.load /\ tab'[t].document = next.document
           /\ tab'[t].notice = next.notice /\ tab'[t].at = next.at
           /\ tab'[t].editing <=>
                /\ next.editing
                /\ PageIn(write, next.document, next.at)
                     = PageIn(write, tab[t].document, tab[t].at)
           /\ write' \in [Writes -> Write]
           /\ \A n \in Writes :
                /\ write'[n].phase = writes[n].phase /\ write'[n].tab = writes[n].tab
                /\ write'[n].op = writes[n].op /\ write'[n].page = writes[n].page
                /\ write'[n].told = writes[n].told
<1> DEFINE moved == PageAt(next.document, next.at) # Page(t)
           shown == Rendered(next, moved)
<1>1. /\ tab' = [tab EXCEPT ![t] = shown]
      /\ write' = [n \in Writes |-> [writes[n] EXCEPT !.awaited =
            @ /\ ~(/\ writes[n].tab = t
                   /\ Unmounts(Control(writes[n].op), shown.editing, moved))]]
    BY DEF Renders
<1>2. moved <=> PageIn(write, next.document, next.at)
                  # PageIn(write, tab[t].document, tab[t].at)
    BY ParametersAside
<1> HIDE DEF moved
<1>3. shown = [next EXCEPT !.editing = next.editing /\ ~moved]
    BY DEF Rendered
<1>4. /\ shown \in Tab /\ shown.load = next.load /\ shown.document = next.document
      /\ shown.notice = next.notice /\ shown.at = next.at
      /\ shown.editing <=> next.editing /\ ~moved
    BY <1>3 DEF Tab
<1> HIDE DEF shown
<1>5. /\ tab' \in [Tabs -> Tab] /\ tab'[t] = shown
      /\ \A u \in Tabs \ {t} : tab'[u] = tab[u]
    BY <1>1, <1>4 DEF TypeOK
<1>6. ASSUME NEW n \in Writes
      PROVE  /\ write'[n] \in Write
             /\ write'[n].phase = writes[n].phase /\ write'[n].tab = writes[n].tab
             /\ write'[n].op = writes[n].op /\ write'[n].page = writes[n].page
             /\ write'[n].told = writes[n].told
  <2> DEFINE awaited == writes[n].awaited /\ ~(/\ writes[n].tab = t
                   /\ Unmounts(Control(writes[n].op), shown.editing, moved))
  <2>1. write'[n] = [writes[n] EXCEPT !.awaited = awaited]
    BY <1>1
  <2>2. awaited \in BOOLEAN
    OBVIOUS
  <2> HIDE DEF awaited
  <2> QED
    BY <2>1, <2>2 DEF Write
<1>7. write' \in [Writes -> Write]
    BY <1>1, <1>6
<1> QED
    BY <1>2, <1>4, <1>5, <1>6, <1>7

(* A tab renders, and a request is over or goes on.          *)
LEMMA RenderPreserves ==
    ASSUME IInv, NEW t \in Tabs, NEW next \in Tab, NEW writes \in [Writes -> Write],
           \A n \in Writes :
               /\ write[n].phase # "none" => writes[n].phase # "none"
               /\ writes[n].op = write[n].op /\ writes[n].page = write[n].page
               /\ writes[n].told = write[n].told,
           Renders(t, next, writes),
           Good(write, next.document),
           next.load = "loaded" /\ ~next.notice => next.document \in past,
           next.editing => /\ next.load = "loaded"
                           /\ PageIn(write, tab[t].document, tab[t].at) # None,
           UNCHANGED <<doc, past, given>>,
           call' \in [Requests -> Call],
           \A c \in Requests : call'[c] = call[c] \/ call'[c] = Server!NoCall
    PROVE  IInv'
<1>1. /\ tab' \in [Tabs -> Tab] /\ write' \in [Writes -> Write]
      /\ \A u \in Tabs \ {t} : tab'[u] = tab[u]
      /\ tab'[t].load = next.load /\ tab'[t].document = next.document
      /\ tab'[t].notice = next.notice /\ tab'[t].at = next.at
      /\ tab'[t].editing <=>
           /\ next.editing
           /\ PageIn(write, next.document, next.at)
                = PageIn(write, tab[t].document, tab[t].at)
    BY RenderEffect DEF IInv
<1>2. \A n \in Writes : /\ write[n].phase # "none" => write'[n].phase # "none"
                        /\ write'[n].op = write[n].op /\ write'[n].page = write[n].page
                        /\ write'[n].told = write[n].told
    BY RenderEffect DEF IInv
<1>3. SameWrites(write, write')
    BY <1>2 DEF SameWrites
<1>4. TypeOK'
    BY <1>1 DEF IInv, TypeOK, Call, given
<1>5. DocumentsInv'
  <2>1. \A d : Good(write, d) => Good(write', d)
    BY <1>3, PagesStay
  <2>2. \A d \in past' : Good(write', d)
    BY <2>1 DEF IInv, DocumentsInv
  <2>3. \A c \in Requests : Good(write', call'[c].doc) /\ Good(write', call'[c].body)
    BY <2>1, NoCallIsCall, PresetIsGood DEF IInv, DocumentsInv
  <2>4. \A u \in Tabs : Good(write', tab'[u].document)
    BY <1>1, <2>1 DEF IInv, DocumentsInv
  <2> QED
    BY <2>2, <2>3, <2>4 DEF DocumentsInv
<1>6. ServerInv'
    BY NoCallIsCall DEF IInv, ServerInv, Requests
<1>7. SessionInv'
  <2> SUFFICES ASSUME NEW u \in Tabs, tab'[u].editing
               PROVE  /\ tab'[u].load = "loaded"
                      /\ PageIn(write', tab'[u].document, tab'[u].at) # None
    BY DEF SessionInv
  <2>1. CASE u = t
    BY <1>1, <1>3, <2>1, PagesStay
  <2>2. CASE u # t
    BY <1>1, <1>3, <2>2, PagesStay DEF IInv, SessionInv, DocumentsInv
  <2> QED
    BY <2>1, <2>2
<1>8. BuildsOn'
    BY <1>2, NoCallIsCall DEF IInv, BuildsOn, Requests
<1>9. ShownWasStored'
    BY <1>1 DEF IInv, ShownWasStored
<1> QED
    BY <1>4, <1>5, <1>6, <1>7, <1>8, <1>9 DEF IInv

-----------------------------------------------------------------------------
(* The operator.                                                            *)

(* A request asks for one of three things, of a document if it is a put.    *)
LEMMA Invoking ==
    ASSUME NEW c \in Requests, Server!Invoke(c)
    PROVE  \E op \in {"get", "put", "delete"}, d \in Documents :
             /\ op = "put" <=> d # Preset
             /\ call' = [call EXCEPT ![c] =
                            [Server!NoCall EXCEPT !.phase = "open", !.op = op, !.doc = d]]
<1>1. Server!Values = Documents
    BY PresetIsGood DEF Server!Values
<1> QED
    BY <1>1 DEF Server!Invoke

LEMMA OpensPreserves ==
    ASSUME IInv, NEW t \in Tabs, Opens(t)
    PROVE  IInv'
<1>1. PICK op \in {"get", "put", "delete"}, d \in Documents :
        /\ op = "put" <=> d # Preset
        /\ call' = [call EXCEPT ![t] =
                       [Server!NoCall EXCEPT !.phase = "open", !.op = op, !.doc = d]]
  <2>1. t \in Requests /\ Server!Invoke(t)
    BY DEF Opens, Requests
  <2> QED
    BY <2>1, Invoking
<1> DEFINE asked == [Server!NoCall EXCEPT !.phase = "open", !.op = op, !.doc = d]
<1>2. /\ asked \in Call /\ asked.op = op /\ asked.doc = d
      /\ asked.body = Preset /\ asked.answer = "none"
    BY NoCallIsCall DEF Call
<1>3. t \in Requests /\ t \notin Writes /\ call \in [Requests -> Call]
    BY TabsAssumption DEF Requests, IInv, TypeOK, Call
<1> HIDE DEF asked
<1>4. /\ call' \in [Requests -> Call] /\ call'[t] = asked
      /\ \A c \in Requests \ {t} : call'[c] = call[c]
    BY <1>1, <1>2, <1>3 DEF asked
<1>5. op = "get" /\ d = Preset
    BY <1>1, <1>2, <1>4 DEF Opens
<1>6. tab' = [tab EXCEPT ![t].load = "loading"] /\ tab[t].load = "unopened"
      /\ UNCHANGED <<doc, past, given, write>>
    BY DEF Opens, Server!Invoke
<1>7. /\ tab' \in [Tabs -> Tab]
      /\ \A u \in Tabs : /\ tab'[u].document = tab[u].document
                         /\ tab'[u].editing = tab[u].editing
                         /\ tab'[u].at = tab[u].at
                         /\ tab'[u].notice = tab[u].notice
                         /\ tab'[u].load = "loaded" <=> tab[u].load = "loaded"
    BY <1>6 DEF IInv, TypeOK, Tab
<1>8. TypeOK'
    BY <1>4, <1>6, <1>7 DEF IInv, TypeOK, Call, given
<1>9. DocumentsInv'
    BY <1>2, <1>4, <1>5, <1>6, <1>7, PresetIsGood DEF IInv, DocumentsInv
<1>10. ServerInv'
    BY <1>2, <1>3, <1>4, <1>5, <1>6 DEF IInv, ServerInv, Requests
<1>11. SessionInv'
    BY <1>6, <1>7 DEF IInv, SessionInv
<1>12. BuildsOn'
    BY <1>3, <1>4, <1>6 DEF IInv, BuildsOn, Requests
<1>13. ShownWasStored'
    BY <1>6, <1>7 DEF IInv, ShownWasStored
<1> QED
    BY <1>8, <1>9, <1>10, <1>11, <1>12, <1>13 DEF IInv

(* What a write makes of the pages: it adds one, takes the one on screen    *)
(* of several away, or leaves them.                                         *)
LEMMA PagesOfAWrite ==
    ASSUME NEW w, NEW v, SameWrites(w, v), NEW D \in Documents, Good(w, D),
           NEW n \in Writes, w[n].phase = "none", v[n].phase # "none",
           v[n].op = "remove" =>
               Cardinality(PagesIn(w, D)) > 1
    PROVE  Good(v, D \cup {n})
<1>1. n \notin D /\ n # Earlier
    BY DEF Good, Writes, Earlier
<1>2. PagesIn(v, D) = PagesIn(w, D) /\ Good(v, D)
    BY PagesStay
<1>3. D \cup {n} \subseteq {Earlier} \cup {m \in Writes : v[m].phase # "none"}
    BY <1>2 DEF Good
<1>4. PagesIn(v, D \cup {n}) # {}
  <2>1. CASE v[n].op # "remove"
    <3>1. PagesIn(v, D) # {} /\ PagesIn(v, D) \subseteq PagesIn(v, D \cup {n})
      BY <1>1, <1>2, <2>1 DEF PagesIn, Good
    <3> QED
      BY <3>1
  <2>2. CASE v[n].op = "remove"
    <3>1. PagesIn(v, D) \ {v[n].page} \subseteq PagesIn(v, D \cup {n})
      BY <1>1, <2>2 DEF PagesIn
    <3>2. PagesIn(v, D) \ {v[n].page} # {}
      <4>1. IsFiniteSet(PagesIn(v, D)) /\ Cardinality(PagesIn(v, D)) > 1
        <5>1. PagesIn(v, D) \in SUBSET (0 .. MaxWrites)
            BY PagesArePages, PagesAreNumbers
        <5>2. IsFiniteSet(0 .. MaxWrites)
            BY FS_Interval, WritesAssumption
        <5> QED
            BY <1>2, <2>2, <5>1, <5>2, FS_Subset
      <4>2. /\ IsFiniteSet(PagesIn(v, D) \ {v[n].page})
            /\ Cardinality(PagesIn(v, D) \ {v[n].page}) >= Cardinality(PagesIn(v, D)) - 1
        <5>1. Cardinality(PagesIn(v, D)) \in Nat
            BY <4>1, FS_CardinalityType
        <5> DEFINE S == PagesIn(v, D)
                   p == v[n].page
        <5> HIDE DEF S, p
        <5>2. /\ IsFiniteSet(S \ {p})
              /\ Cardinality(S \ {p}) =
                   IF p \in S THEN Cardinality(S) - 1 ELSE Cardinality(S)
            BY <4>1, FS_RemoveElement DEF S
        <5>3. Cardinality(S \ {p}) >= Cardinality(S) - 1
            BY <5>1, <5>2 DEF S
        <5> QED
            BY <5>2, <5>3 DEF S, p
      <4>3. Cardinality(PagesIn(v, D) \ {v[n].page}) > 0
        BY <4>1, <4>2, FS_CardinalityType
      <4> QED
        BY <4>3, FS_EmptySet
    <3> QED
      BY <3>1, <3>2
  <2> QED
    BY <2>1, <2>2
<1> QED
    BY <1>3, <1>4 DEF Good

LEMMA SendsPreserves ==
    ASSUME IInv, NEW t \in Tabs,
           NEW op \in {"create", "rename", "remove", "reset", "source", "layout"},
           Sends(t, op), tab[t].load = "loaded", Page(t) # None,
           op = "remove" => Cardinality(PagesOf(tab[t].document)) > 1
    PROVE  IInv'
<1> DEFINE D == tab[t].document
<1>1. PICK n \in Writes :
        /\ write[n].phase = "none"
        /\ Server!Invoke(n)
        /\ IF op = "reset" THEN call'[n].op = "delete"
                           ELSE call'[n].doc = D \cup {n}
        /\ write' = [write EXCEPT ![n] =
              [phase |-> "sent", tab |-> t, op |-> op, page |-> Page(t),
               awaited |-> TRUE, told |-> tab[t].notice]]
    BY DEF Sends
<1>2. UNCHANGED <<doc, past, given, tab>>
    BY <1>1 DEF Sends, Server!Invoke
<1>3. PICK verb \in {"get", "put", "delete"}, d \in Documents :
        /\ verb = "put" <=> d # Preset
        /\ call' = [call EXCEPT ![n] =
                       [Server!NoCall EXCEPT !.phase = "open", !.op = verb, !.doc = d]]
  <2>1. n \in Requests
    BY DEF Requests
  <2> QED
    BY <1>1, <2>1, Invoking
<1> DEFINE asked == [Server!NoCall EXCEPT !.phase = "open", !.op = verb, !.doc = d]
           sent  == [phase |-> "sent", tab |-> t, op |-> op, page |-> Page(t),
                     awaited |-> TRUE, told |-> tab[t].notice]
<1>4. /\ asked \in Call /\ asked.op = verb /\ asked.doc = d
      /\ asked.body = Preset /\ asked.answer = "none"
    BY NoCallIsCall DEF Call
<1>5. n \in Requests /\ n \notin Tabs /\ call \in [Requests -> Call]
    BY TabsAssumption DEF Requests, IInv, TypeOK, Call
<1> HIDE DEF asked
<1>6. /\ call' \in [Requests -> Call] /\ call'[n] = asked
      /\ \A c \in Requests \ {n} : call'[c] = call[c]
    BY <1>3, <1>4, <1>5 DEF asked
<1>7. D \in Documents /\ Good(write, D) /\ tab[t].notice \in BOOLEAN
    BY DEF IInv, TypeOK, Tab, DocumentsInv
<1>8. Page(t) \in Pages
    BY <1>7, ParametersAside, PageIsThere DEF Good
<1>9. sent \in Write
    BY <1>7, <1>8 DEF Write
<1>10. /\ write' \in [Writes -> Write] /\ write'[n] = sent
       /\ \A m \in Writes \ {n} : write'[m] = write[m]
    BY <1>1, <1>9 DEF IInv, TypeOK
<1>11. SameWrites(write, write')
    BY <1>1, <1>10 DEF SameWrites
<1>12. /\ op = "reset" => verb # "get" /\ d = Preset
       /\ op # "reset" => verb # "get" /\ d = D \cup {n}
    BY <1>1, <1>3, <1>4, <1>6 DEF Preset
<1>13. Good(write', d)
  <2>1. CASE op = "reset"
    BY <1>12, <2>1, PresetIsGood
  <2>2. CASE op # "reset"
    <3>1. op = "remove" => Cardinality(PagesIn(write, D)) > 1
      BY ParametersAside
    <3>2. write'[n].op = op /\ write'[n].phase # "none"
      BY <1>10
    <3> HIDE DEF D
    <3>3. Good(write', D \cup {n})
      BY <1>1, <1>7, <1>11, <3>1, <3>2, PagesOfAWrite
    <3> QED
      BY <1>12, <2>2, <3>3
  <2> QED
    BY <2>1, <2>2
<1>14. \A e : Good(write, e) => Good(write', e)
    BY <1>11, PagesStay
<1>15. TypeOK'
    BY <1>2, <1>6, <1>10 DEF IInv, TypeOK, Call, given
<1>16. DocumentsInv'
    BY <1>2, <1>4, <1>6, <1>13, <1>14, PresetIsGood DEF IInv, DocumentsInv
<1>17. ServerInv'
    BY <1>2, <1>4, <1>5, <1>6, <1>12 DEF IInv, ServerInv, Requests
<1>18. SessionInv'
    BY <1>2, <1>11, PagesStay DEF IInv, SessionInv, DocumentsInv
<1>19. BuildsOn'
  <2> SUFFICES ASSUME NEW m \in Writes, call'[m].phase # "idle",
                      write'[m].op # "reset", ~write'[m].told
               PROVE  \E e \in past : call'[m].doc = e \cup {m}
    BY <1>2 DEF BuildsOn
  <2>1. CASE m = n
    <3>1. D \in past
      BY <1>10, <2>1 DEF IInv, ShownWasStored
    <3> QED
      BY <1>4, <1>6, <1>10, <1>12, <2>1, <3>1
  <2>2. CASE m # n
    BY <1>5, <1>6, <1>10, <2>2 DEF IInv, BuildsOn, Requests
  <2> QED
    BY <2>1, <2>2
<1>20. ShownWasStored'
    BY <1>2 DEF IInv, ShownWasStored
<1> QED
    BY <1>15, <1>16, <1>17, <1>18, <1>19, <1>20 DEF IInv

(* A render of its own: no request is concerned.                            *)
LEMMA OwnRender ==
    ASSUME IInv, NEW t \in Tabs, NEW next \in Tab, Renders(t, next, write),
           next.load = tab[t].load, next.document = tab[t].document,
           next.notice = tab[t].notice,
           next.editing => /\ tab[t].load = "loaded"
                           /\ PageIn(write, tab[t].document, tab[t].at) # None,
           UNCHANGED <<server, given>>
    PROVE  IInv'
<1>1. write \in [Writes -> Write] /\ call \in [Requests -> Call]
    BY DEF IInv, TypeOK, Call
<1>2. /\ Good(write, next.document)
      /\ next.load = "loaded" /\ ~next.notice => next.document \in past
    BY DEF IInv, DocumentsInv, ShownWasStored
<1>3. UNCHANGED <<doc, past, given>> /\ call' = call
    BY DEF server
<1> QED
    BY <1>1, <1>2, <1>3, RenderPreserves

LEMMA OperatorPreserves ==
    ASSUME IInv, NEW t \in Tabs, Operator(t)
    PROVE  IInv'
<1>1. tab[t] \in Tab
    BY DEF IInv, TypeOK
<1>2. tab[t].editing => /\ tab[t].load = "loaded"
                        /\ PageIn(write, tab[t].document, tab[t].at) # None
    BY DEF IInv, SessionInv
<1>3. Page(t) = PageIn(write, tab[t].document, tab[t].at)
    BY ParametersAside
<1>4. CASE Opens(t)
    BY <1>4, OpensPreserves
<1>5. CASE EditsPages(t)
  <2>1. tab[t].load = "loaded" /\ Page(t) # None
    BY <1>5 DEF EditsPages, Ready
  <2>2. PICK op \in {"create", "rename", "remove", "reset"} :
          /\ op = "remove" => Cardinality(PagesOf(tab[t].document)) > 1
          /\ Sends(t, op)
    BY <1>5 DEF EditsPages
  <2> QED
    BY <2>1, <2>2, SendsPreserves
<1>6. CASE ChoosesSource(t)
    BY <1>6, SendsPreserves DEF ChoosesSource, Ready
<1>7. CASE Saves(t)
    BY <1>2, <1>3, <1>7, SendsPreserves DEF Saves
<1>8. ASSUME NEW editing \in BOOLEAN, Session(t, editing),
             tab[t].load = "loaded" /\ Page(t) # None
      PROVE  IInv'
  <2> DEFINE next == [tab[t] EXCEPT !.editing = editing]
  <2>1. /\ next \in Tab /\ next.load = tab[t].load /\ next.notice = tab[t].notice
        /\ next.document = tab[t].document
    BY <1>1 DEF Tab
  <2>2. Renders(t, next, write) /\ UNCHANGED <<server, given>>
    BY <1>8 DEF Session
  <2> HIDE DEF next
  <2> QED
    BY <1>3, <1>8, <2>1, <2>2, OwnRender
<1>9. CASE Begins(t) \/ Discards(t)
    BY <1>2, <1>3, <1>8, <1>9 DEF Begins, Discards, Ready
<1>10. ASSUME NEW at \in {Root} \cup Pages, Goes(t, at), tab[t].load = "loaded"
       PROVE  IInv'
  <2> DEFINE next == [tab[t] EXCEPT !.at = at]
  <2>1. /\ next \in Tab /\ next.load = tab[t].load /\ next.notice = tab[t].notice
        /\ next.document = tab[t].document /\ next.editing = tab[t].editing
    BY <1>1 DEF Tab
  <2>2. Renders(t, next, write) /\ UNCHANGED <<server, given>>
    BY <1>10 DEF Goes
  <2> HIDE DEF next
  <2> QED
    BY <1>2, <2>1, <2>2, OwnRender
<1>11. CASE Selects(t)
  <2>1. PagesOf(tab[t].document) \subseteq Pages
    BY <1>1, ParametersAside, PagesArePages DEF Tab
  <2> QED
    BY <1>10, <1>11, <2>1 DEF Selects
<1>12. CASE GoesBack(t)
  <2>1. {Opened, Earlier} \cup {n \in Writes : write[n].op = "create"}
          \subseteq {Root} \cup Pages
    BY OpenedAssumption DEF Pages
  <2> QED
    BY <1>10, <1>12, <2>1 DEF GoesBack
<1> QED
    BY <1>4, <1>5, <1>6, <1>7, <1>9, <1>11, <1>12 DEF Operator

-----------------------------------------------------------------------------
(* Loads.                                                                   *)

LEMMA LoadsPreserves ==
    ASSUME IInv, NEW t \in Tabs, NEW d \in past \cup {Preset},
           NEW notice \in BOOLEAN, NEW readOnly \in BOOLEAN,
           Loads(t, d, notice, readOnly), notice \/ d \in past,
           UNCHANGED <<doc, past>>,
           call' = call \/ call' = [call EXCEPT ![t] = Server!NoCall]
    PROVE  IInv'
<1>1. tab' = [tab EXCEPT ![t].load = "loaded", ![t].document = d,
                         ![t].notice = notice, ![t].readOnly = readOnly]
      /\ tab[t].load = "loading" /\ UNCHANGED <<given, write>>
    BY DEF Loads
<1>2. d \in Documents /\ Good(write, d)
    BY PresetIsGood DEF IInv, TypeOK, DocumentsInv
<1>3. /\ tab' \in [Tabs -> Tab]
      /\ tab'[t].document = d /\ tab'[t].notice = notice
      /\ tab'[t].editing = tab[t].editing
      /\ \A u \in Tabs \ {t} : tab'[u] = tab[u]
  <2> DEFINE loaded == [tab[t] EXCEPT !.load = "loaded", !.document = d,
                                      !.notice = notice, !.readOnly = readOnly]
  <2>1. tab \in [Tabs -> Tab] /\ tab[t] \in Tab
    BY DEF IInv, TypeOK
  <2>2. tab' = [tab EXCEPT ![t] = loaded]
    BY <1>1, <2>1 DEF Tab
  <2>3. /\ loaded \in Tab /\ loaded.document = d /\ loaded.notice = notice
        /\ loaded.editing = tab[t].editing
    BY <1>2, <2>1 DEF Tab
  <2> HIDE DEF loaded
  <2> QED
    BY <2>1, <2>2, <2>3
<1>4. ~tab[t].editing
    BY <1>1 DEF IInv, SessionInv
<1>5. /\ call \in [Requests -> Call] /\ call' \in [Requests -> Call]
      /\ \A c \in Requests : call'[c] = call[c] \/ call'[c] = Server!NoCall
    BY NoCallIsCall DEF IInv, TypeOK, Call
<1>6. TypeOK'
    BY <1>1, <1>3, <1>5 DEF IInv, TypeOK, Call, given
<1>7. DocumentsInv'
    BY <1>1, <1>2, <1>3, <1>5, NoCallIsCall, PresetIsGood DEF IInv, DocumentsInv
<1>8. ServerInv'
    BY <1>5, NoCallIsCall DEF IInv, ServerInv, Requests
<1>9. SessionInv'
    BY <1>1, <1>3, <1>4 DEF IInv, SessionInv
<1>10. BuildsOn'
    BY <1>1, <1>5, NoCallIsCall DEF IInv, BuildsOn, Requests
<1>11. ShownWasStored'
    BY <1>3 DEF IInv, ShownWasStored
<1> QED
    BY <1>6, <1>7, <1>8, <1>9, <1>10, <1>11 DEF IInv

LEMMA LoadPreserves ==
    ASSUME IInv, NEW t \in Tabs, Loaded(t) \/ NotReached(t)
    PROVE  IInv'
<1>1. CASE Loaded(t)
  <2> DEFINE d == IF Unreadable(t) THEN Preset ELSE call[t].body
  <2>1. /\ Loads(t, d, Unreadable(t), read_only)
        /\ UNCHANGED <<doc, past>> /\ call' = [call EXCEPT ![t] = Server!NoCall]
    BY <1>1 DEF Loaded, Server!Return, Server!Forget
  <2>2. ~Unreadable(t) => call[t].body \in past
    BY DEF Unreadable, IInv, ServerInv, Requests
  <2>3. read_only \in BOOLEAN /\ Unreadable(t) \in BOOLEAN
    BY DEF IInv, TypeOK, given, Unreadable
  <2> QED
    BY <2>1, <2>2, <2>3, LoadsPreserves
<1>2. CASE NotReached(t)
  <2>1. /\ Loads(t, Preset, TRUE, FALSE)
        /\ UNCHANGED <<doc, past>> /\ call' = call
    BY <1>2 DEF NotReached, server
  <2> QED
    BY <2>1, LoadsPreserves
<1> QED
    BY <1>1, <1>2

-----------------------------------------------------------------------------
(* Answers.                                                                 *)

LEMMA TargetIsPage ==
    ASSUME IInv, NEW n \in Writes
    PROVE  Target(n) \in {Root} \cup Pages
<1> DEFINE left   == PagesOf(call[n].doc)
           before == {p \in left : p < write[n].page}
<1>1. call[n].doc \in Documents /\ Good(write, call[n].doc)
    BY DEF IInv, TypeOK, DocumentsInv, Requests
<1>2. left \in SUBSET (0 .. MaxWrites) /\ left # {} /\ left \in SUBSET Nat
    BY <1>1, ParametersAside, PagesArePages, PagesAreNumbers, WritesAssumption DEF Good
<1>3. Neighbour(n) \in left
  <2>1. CASE before = {}
    BY <1>2, <2>1, FirstIsIn DEF Neighbour
  <2>2. CASE before # {}
    <3>1. before \in SUBSET (0 .. MaxWrites)
      BY <1>2
    <3>2. Neighbour(n) = CHOOSE p \in before : \A q \in before : q <= p
      BY <2>2 DEF Neighbour
    <3> HIDE DEF before
    <3>3. Neighbour(n) \in before
      BY <2>2, <3>1, <3>2, LastIsIn, WritesAssumption
    <3> QED
      BY <3>3 DEF before
  <2> QED
    BY <2>1, <2>2
<1>4. Neighbour(n) \in Pages
    BY <1>2, <1>3, PagesAreNumbers
<1>5. /\ write[n].page \in Pages /\ n \in Pages /\ Earlier \in Pages
      /\ tab[write[n].tab].at \in {Root} \cup Pages
    BY DEF IInv, TypeOK, Write, Tab, Pages
<1> QED
    BY <1>4, <1>5 DEF Target

LEMMA SettlesPreserves ==
    ASSUME IInv, NEW n \in Writes, NEW saved \in BOOLEAN, NEW readOnly \in BOOLEAN,
           Settles(n, saved, readOnly), saved => call[n].doc \in past,
           UNCHANGED <<doc, past>>,
           call' = call \/ call' = [call EXCEPT ![n] = Server!NoCall]
    PROVE  IInv'
<1> DEFINE t    == write[n].tab
           told == [tab[t] EXCEPT !.readOnly = readOnly,
                                  !.editing = @ /\ ~Closes(n, saved)]
           next == IF saved
                   THEN [told EXCEPT !.document = call[n].doc, !.notice = FALSE,
                                     !.at = Target(n)]
                   ELSE told
           over == [write EXCEPT ![n].phase = "over", ![n].awaited = FALSE]
<1>1. Renders(t, next, over) /\ UNCHANGED given
    BY DEF Settles
<1>2. t \in Tabs /\ tab[t] \in Tab /\ write[n] \in Write
      /\ call[n].doc \in Documents /\ Good(write, call[n].doc)
      /\ Good(write, tab[t].document)
    BY DEF IInv, TypeOK, Write, DocumentsInv, Requests
<1>3. told \in Tab /\ told.load = tab[t].load /\ told.document = tab[t].document
      /\ told.notice = tab[t].notice /\ (told.editing => tab[t].editing)
  <2> DEFINE editing == tab[t].editing /\ ~Closes(n, saved)
  <2>1. told = [tab[t] EXCEPT !.readOnly = readOnly, !.editing = editing]
    OBVIOUS
  <2>2. editing \in BOOLEAN /\ (editing => tab[t].editing)
    OBVIOUS
  <2> HIDE DEF editing, t, told
  <2> QED
    BY <1>2, <2>1, <2>2 DEF Tab
<1> HIDE DEF told
<1>4. /\ next \in Tab /\ next.load = tab[t].load
      /\ (next.editing => tab[t].editing)
      /\ Good(write, next.document)
      /\ next.load = "loaded" /\ ~next.notice => next.document \in past
  <2>1. CASE saved
    <3> HIDE DEF t
    <3>1. Target(n) \in {Root} \cup Pages
      BY TargetIsPage
    <3> QED
      BY <1>2, <1>3, <2>1, <3>1 DEF Tab
  <2>2. CASE ~saved
    BY <1>2, <1>3, <2>2 DEF IInv, ShownWasStored
  <2> QED
    BY <2>1, <2>2
<1>5. /\ over \in [Writes -> Write]
      /\ \A m \in Writes : /\ write[m].phase # "none" => over[m].phase # "none"
                           /\ over[m].op = write[m].op /\ over[m].page = write[m].page
                           /\ over[m].told = write[m].told
  <2> DEFINE settled == [write[n] EXCEPT !.phase = "over", !.awaited = FALSE]
  <2>1. write \in [Writes -> Write] /\ over = [write EXCEPT ![n] = settled]
    BY <1>2 DEF IInv, TypeOK, Write
  <2>2. /\ settled \in Write /\ settled.phase = "over" /\ settled.op = write[n].op
        /\ settled.page = write[n].page /\ settled.told = write[n].told
    BY <1>2 DEF Write
  <2> HIDE DEF settled, over
  <2> QED
    BY <2>1, <2>2
<1>6. tab[t].editing => /\ tab[t].load = "loaded"
                        /\ PageIn(write, tab[t].document, tab[t].at) # None
    BY <1>2 DEF IInv, SessionInv
<1>7. /\ call' \in [Requests -> Call]
      /\ \A c \in Requests : call'[c] = call[c] \/ call'[c] = Server!NoCall
    BY NoCallIsCall DEF IInv, TypeOK, Call
<1> HIDE DEF next, over, t
<1> QED
    BY <1>1, <1>2, <1>4, <1>5, <1>6, <1>7, RenderPreserves

LEMMA AnswerPreserves ==
    ASSUME IInv, NEW n \in Writes, Answered(n) \/ Unanswered(n)
    PROVE  IInv'
<1>1. CASE Answered(n)
  <2>1. /\ Settles(n, call[n].answer = "ok", read_only)
        /\ UNCHANGED <<doc, past>> /\ call' = [call EXCEPT ![n] = Server!NoCall]
        /\ call[n].phase = "answered"
    BY <1>1 DEF Answered, Server!Return, Server!Forget
  <2>2. call[n].answer = "ok" => call[n].doc \in past
    BY <2>1 DEF IInv, ServerInv, Requests
  <2>3. read_only \in BOOLEAN /\ (call[n].answer = "ok") \in BOOLEAN
    BY DEF IInv, TypeOK, given
  <2> QED
    BY <2>1, <2>2, <2>3, SettlesPreserves
<1>2. CASE Unanswered(n)
  <2>1. /\ Settles(n, FALSE, FALSE)
        /\ UNCHANGED <<doc, past>> /\ call' = call
    BY <1>2 DEF Unanswered, server
  <2> QED
    BY <2>1, SettlesPreserves
<1> QED
    BY <1>1, <1>2

-----------------------------------------------------------------------------
(* The server.                                                              *)

LEMMA ServesPreserves ==
    ASSUME IInv, Serves
    PROVE  IInv'
<1>1. UNCHANGED <<given, tab, write>>
    BY DEF Serves
<1>2. PICK c \in Requests :
        \/ Server!Abandon(c)
        \/ Server!Lapse(c)
        \/ Server!Apply(c)
        \/ Server!Decline(c)
    BY DEF Serves
<1>3. /\ call \in [Requests -> Call] /\ call[c] \in Call
      /\ doc \in past /\ past \subseteq Documents /\ Good(write, doc)
      /\ Good(write, call[c].doc)
    BY DEF IInv, TypeOK, Call, ServerInv, DocumentsInv
(* Every step of the server replaces one request's record.                  *)
<1>4. ASSUME NEW record \in Call, call' = [call EXCEPT ![c] = record],
             doc' \in past', past \subseteq past', past' \subseteq Documents,
             \A d \in past' : Good(write, d),
             Good(write, record.doc), Good(write, record.body),
             record.answer = "ok" =>
                 IF record.op = "get" THEN record.body \in past' ELSE record.doc \in past',
             \/ record.phase = "idle" /\ record.op = "get"
             \/ record.op = call[c].op /\ call[c].phase # "idle" /\ record.doc = call[c].doc
      PROVE  IInv'
  <2>1. /\ call' \in [Requests -> Call] /\ call'[c] = record
        /\ \A r \in Requests \ {c} : call'[r] = call[r]
    BY <1>3, <1>4
  <2>2. TypeOK'
    BY <1>1, <1>4, <2>1 DEF IInv, TypeOK, Call, given
  <2>3. DocumentsInv'
    BY <1>1, <1>4, <2>1 DEF IInv, DocumentsInv
  <2>4. ServerInv'
    <3>1. \A r \in Requests : call'[r].answer = "ok" =>
            IF call'[r].op = "get" THEN call'[r].body \in past' ELSE call'[r].doc \in past'
      BY <1>4, <2>1 DEF IInv, ServerInv
    <3>2. \A t \in Tabs : call'[t].op = "get"
      BY <1>4, <2>1 DEF IInv, ServerInv, Requests
    <3>3. \A n \in Writes : call'[n].phase # "idle" => call'[n].op # "get"
      BY <1>4, <2>1 DEF IInv, ServerInv, Requests
    <3> QED
      BY <1>4, <3>1, <3>2, <3>3 DEF ServerInv
  <2>5. SessionInv'
    BY <1>1 DEF IInv, SessionInv
  <2>6. BuildsOn'
    <3> SUFFICES ASSUME NEW n \in Writes, call'[n].phase # "idle",
                        write[n].op # "reset", ~write[n].told
                 PROVE  \E d \in past' : call'[n].doc = d \cup {n}
      BY <1>1 DEF BuildsOn
    <3>1. call[n].phase # "idle" /\ call'[n].doc = call[n].doc
      BY <1>4, <2>1 DEF Requests
    <3>2. \E d \in past : call[n].doc = d \cup {n}
      BY <3>1 DEF IInv, BuildsOn
    <3> QED
      BY <1>4, <3>1, <3>2
  <2>7. ShownWasStored'
    BY <1>1, <1>4 DEF IInv, ShownWasStored
  <2> QED
    BY <2>2, <2>3, <2>4, <2>5, <2>6, <2>7 DEF IInv
<1>9. ASSUME Server!Forget(c), doc' \in past', past \subseteq past',
             past' \subseteq Documents, \A d \in past' : Good(write, d)
      PROVE  IInv'
  <2>1. call' = [call EXCEPT ![c] = Server!NoCall]
    BY <1>9 DEF Server!Forget
  <2> QED
    BY <1>4, <1>9, <2>1, NoCallIsCall, PresetIsGood
<1>10. \A d \in past : Good(write, d)
  BY DEF IInv, DocumentsInv
<1>5. CASE Server!Abandon(c) \/ Server!Lapse(c)
  <2>1. CASE Server!Forget(c) /\ UNCHANGED <<doc, past>>
    BY <1>3, <1>9, <1>10, <2>1
  <2>2. CASE /\ call[c].phase = "open"
             /\ call' = [call EXCEPT ![c].phase = "abandoned"]
             /\ UNCHANGED <<doc, past>>
    <3> DEFINE record == [call[c] EXCEPT !.phase = "abandoned"]
    <3>1. /\ record \in Call /\ record.op = call[c].op
          /\ record.doc = call[c].doc /\ record.body = call[c].body
          /\ record.answer = call[c].answer
          /\ call' = [call EXCEPT ![c] = record]
      BY <1>3, <2>2 DEF Call
    <3> HIDE DEF record
    <3>2. Good(write, record.body)
      BY <3>1 DEF IInv, DocumentsInv
    <3>3. record.answer = "ok" =>
            IF record.op = "get" THEN record.body \in past' ELSE record.doc \in past'
      BY <2>2, <3>1 DEF IInv, ServerInv
    <3> QED
      BY <1>3, <1>4, <1>10, <2>2, <3>1, <3>2, <3>3
  <2> QED
    BY <1>5, <2>1, <2>2 DEF Server!Abandon, Server!Lapse
<1>6. ASSUME NEW answer \in {"ok", "too-large", "read-only", "failed"},
             NEW body \in Documents,
             call[c].phase = "open", Server!Answer(c, answer, body)
      PROVE  LET record == [call[c] EXCEPT !.phase = "answered", !.answer = answer,
                                           !.body = body]
             IN  /\ record \in Call /\ call' = [call EXCEPT ![c] = record]
                 /\ record.op = call[c].op /\ record.doc = call[c].doc
                 /\ record.answer = answer /\ record.body = body
    BY <1>3, <1>6 DEF Server!Answer, Call
<1> DEFINE Record(answer, body) == [call[c] EXCEPT !.phase = "answered",
                                        !.answer = answer, !.body = body]
<1>7. CASE Server!Apply(c)
  <2>1. CASE Server!Read(c)
    <3>1. /\ call[c].phase = "open" /\ Server!Answer(c, "ok", doc)
          /\ call[c].op = "get" /\ UNCHANGED <<doc, past>>
      BY <2>1 DEF Server!Read
    <3>2. doc \in Documents
      BY <1>3
    <3> DEFINE record == Record("ok", doc)
    <3>3. /\ record \in Call /\ call' = [call EXCEPT ![c] = record]
          /\ record.op = call[c].op /\ record.doc = call[c].doc
          /\ record.answer = "ok" /\ record.body = doc
      BY <1>6, <3>1, <3>2
    <3> HIDE DEF record
    <3>4. \A d \in past : Good(write, d)
      BY DEF IInv, DocumentsInv
    <3> QED
      BY <1>3, <1>4, <2>1, <3>1, <3>3, <3>4
  <2>2. CASE Server!Replace(c, call[c].doc)
    <3>1. /\ call[c].op # "get"
          /\ doc' = call[c].doc /\ past' = past \cup {call[c].doc}
          /\ \/ call[c].phase = "open" /\ Server!Answer(c, "ok", Preset)
             \/ Server!Forget(c)
      BY <2>2 DEF Server!Replace
    <3>2. call[c].doc \in Documents
      BY <1>3 DEF Call
    <3>3. \A d \in past' : Good(write, d)
      BY <1>3, <3>1 DEF IInv, DocumentsInv
    <3>4. CASE Server!Forget(c)
      BY <1>3, <1>9, <3>1, <3>2, <3>3, <3>4
    <3>5. CASE call[c].phase = "open" /\ Server!Answer(c, "ok", Preset)
      <4> DEFINE record == Record("ok", Preset)
      <4>1. /\ record \in Call /\ call' = [call EXCEPT ![c] = record]
            /\ record.op = call[c].op /\ record.doc = call[c].doc
            /\ record.answer = "ok" /\ record.body = Preset
        BY <1>6, <3>5, PresetIsGood
      <4> HIDE DEF record
      <4> QED
        BY <1>3, <1>4, <3>1, <3>2, <3>3, <3>5, <4>1, PresetIsGood
    <3> QED
      BY <3>1, <3>4, <3>5
  <2> QED
    BY <1>7, <2>1, <2>2 DEF Server!Apply
<1>8. CASE Server!Decline(c)
  <2>1. PICK answer \in {"too-large", "read-only", "failed"} :
          Server!Answer(c, answer, Preset)
    BY <1>8 DEF Server!Decline
  <2>2. call[c].phase = "open" /\ UNCHANGED <<doc, past>>
    BY <1>8 DEF Server!Decline
  <2> DEFINE record == Record(answer, Preset)
  <2>3. /\ record \in Call /\ call' = [call EXCEPT ![c] = record]
        /\ record.op = call[c].op /\ record.doc = call[c].doc
        /\ record.answer = answer /\ record.body = Preset
    <3>1. answer \in {"ok", "too-large", "read-only", "failed"} /\ Preset \in Documents
      BY PresetIsGood
    <3> QED
      BY <1>3, <2>1, <3>1 DEF Server!Answer, Call
  <2> HIDE DEF record
  <2>4. \A d \in past : Good(write, d)
    BY DEF IInv, DocumentsInv
  <2> QED
    BY <1>3, <1>4, <2>1, <2>2, <2>3, <2>4, PresetIsGood
<1> QED
    BY <1>2, <1>5, <1>7, <1>8

-----------------------------------------------------------------------------

LEMMA InitHolds == Init => IInv
<1> SUFFICES ASSUME Init PROVE IInv
    OBVIOUS
<1>1. /\ doc \in Documents /\ past = {doc} /\ Good(write, doc)
  <2>1. doc \in {Preset, {Earlier}} /\ past = {doc}
    BY DEF Init
  <2>2. PagesIn(write, {Earlier}) = {Earlier} /\ {Earlier} \in Documents
    BY DEF PagesIn, Documents
  <2> QED
    BY <2>1, <2>2, PresetIsGood DEF Good
<1>2. \A c \in Requests : call[c] = Server!NoCall
    BY DEF Init
<1>3. /\ call \in [Requests -> Call]
      /\ \A t \in Tabs : tab[t] =
           [load |-> "unopened", document |-> Preset, notice |-> FALSE,
            readOnly |-> FALSE, at |-> Opened, editing |-> FALSE]
    BY NoCallIsCall DEF Init
<1>4. TypeOK
  <2>1. write \in [Writes -> Write]
    BY DEF Init, Write, Pages
  <2>2. tab \in [Tabs -> Tab]
    BY PresetIsGood, OpenedAssumption DEF Init, Tab, Pages
  <2>3. given \in BOOLEAN \X BOOLEAN
    BY DEF Init, given
  <2> QED
    BY <1>1, <1>3, <2>1, <2>2, <2>3 DEF TypeOK, Call
<1>5. DocumentsInv
    BY <1>1, <1>2, <1>3, NoCallIsCall, PresetIsGood DEF DocumentsInv
<1>6. ServerInv
    BY <1>1, <1>2, NoCallIsCall DEF ServerInv, Requests
<1>7. SessionInv
    BY <1>3 DEF SessionInv
<1>8. BuildsOn
    BY <1>2, NoCallIsCall DEF BuildsOn, Requests
<1>9. ShownWasStored
    BY <1>3 DEF ShownWasStored
<1> QED
    BY <1>4, <1>5, <1>6, <1>7, <1>8, <1>9 DEF IInv

LEMMA Invariance == Spec => []IInv
<1>1. ASSUME IInv, [Next]_vars PROVE IInv'
  <2>1. CASE Next
    BY <1>1, <2>1, OperatorPreserves, LoadPreserves, AnswerPreserves,
       ServesPreserves DEF Next, Browser
  <2>2. CASE UNCHANGED vars
    BY <1>1, <2>2 DEF vars, server, given, IInv, TypeOK, DocumentsInv, ServerInv,
                      SessionInv, BuildsOn, ShownWasStored
  <2> QED
    BY <1>1, <2>1, <2>2
<1> QED
    BY InitHolds, <1>1, PTL DEF Spec

(* Every variable has its type: the operator is never sent to a page that   *)
(* is none, since no document is left without pages.                        *)
THEOREM TypeCorrect == Spec => []TypeOK
<1>1. IInv => TypeOK
    BY DEF IInv
<1> QED
    BY Invariance, <1>1, PTL

(* What a tab shows without a notice was stored, with any number of tabs    *)
(* and of writes under way: an answer of success names a document that was  *)
(* the current one, whenever it arrives.                                    *)
THEOREM WhatIsShownWasStored == Spec => []ShownWasStored
<1>1. IInv => ShownWasStored
    BY DEF IInv
<1> QED
    BY Invariance, <1>1, PTL

(* A write that was neither a reset nor asked for under the notice keeps    *)
(* all of a document the server has held, and so keeps what all of these    *)
(* have: however late it is served, and whatever was served before it.      *)
THEOREM ReplacedOnlyWhenTold == Spec => NothingIsReplacedUntold
<1>1. IInv /\ [Next]_vars =>
         [(Earlier \in doc /\ Earlier \notin doc' /\ \A d \in past : Earlier \in d)
             => \E n \in Writes : /\ call[n].phase # call'[n].phase
                                  /\ write[n].op = "reset" \/ write[n].told]_vars
  <2> SUFFICES ASSUME IInv, Next, Earlier \in doc, Earlier \notin doc',
                      \A d \in past : Earlier \in d
               PROVE  \E n \in Writes : /\ call[n].phase # call'[n].phase
                                        /\ write[n].op = "reset" \/ write[n].told
    BY DEF vars, server
  <2>1. Serves
    BY DEF Next, Operator, Browser, Opens, EditsPages, ChoosesSource, Begins,
           Discards, Saves, Selects, GoesBack, Sends, Session, Goes, Loaded,
           NotReached, Answered, Unanswered, server, Server!Invoke, Server!Return, Server!Forget
  <2>2. PICK c \in Requests : Server!Apply(c)
    BY <2>1 DEF Serves, Server!Abandon, Server!Lapse, Server!Decline
  <2>3. /\ call[c].op # "get" /\ doc' = call[c].doc
        /\ \/ call[c].phase = "open" /\ Server!Answer(c, "ok", Preset)
           \/ call[c].phase = "abandoned" /\ Server!Forget(c)
    BY <2>2 DEF Server!Apply, Server!Read, Server!Replace
  <2>4. c \in Writes
    BY <2>3 DEF IInv, ServerInv, Requests
  <2>5. write[c].op = "reset" \/ write[c].told
    BY <2>3, <2>4 DEF IInv, BuildsOn
  <2>6. call'[c].phase \in {"answered", "idle"} /\ call[c].phase # call'[c].phase
    <3>1. call \in [Requests -> Call] /\ call[c] \in Call
      BY DEF IInv, TypeOK, Call
    <3> QED
      BY <2>3, <3>1, NoCallIsCall DEF Server!Answer, Server!Forget, Call
  <2> QED
    BY <2>3, <2>4, <2>5, <2>6
<1> QED
    BY <1>1, Invariance, PTL DEF Spec, NothingIsReplacedUntold

(* A render ends a session where the page on screen stays only if it is to. *)
LEMMA RenderKeepsSession ==
    ASSUME IInv, NEW t \in Tabs, NEW next \in Tab, NEW writes \in [Writes -> Write],
           \A n \in Writes :
               /\ write[n].phase # "none" => writes[n].phase # "none"
               /\ writes[n].op = write[n].op /\ writes[n].page = write[n].page,
           Renders(t, next, writes), Good(write, next.document),
           NEW u \in Tabs, tab[u].editing, ~tab'[u].editing, Page(u)' = Page(u)
    PROVE  u = t /\ ~next.editing
<1>1. /\ \A v \in Tabs \ {t} : tab'[v] = tab[v]
      /\ tab'[t].document = next.document /\ tab'[t].at = next.at
      /\ tab'[t].editing <=>
           /\ next.editing
           /\ PageIn(write, next.document, next.at)
                = PageIn(write, tab[t].document, tab[t].at)
    BY RenderEffect DEF IInv
<1>2. SameWrites(write, write')
    BY RenderEffect DEF IInv, SameWrites
<1>3. u = t
    BY <1>1
<1>4. Page(u)' = PageIn(write', next.document, next.at)
    BY <1>1, <1>3 DEF Page, PageAt, PageIn, PagesOf, PagesIn
<1>5. PageIn(write', next.document, next.at) = PageIn(write, next.document, next.at)
    BY <1>2, PagesStay
<1> QED
    BY <1>1, <1>3, <1>4, <1>5, ParametersAside

(* "A save the server did not take leaves the session open", in every tab   *)
(* and with writes of other controls under way: on a page that stays on     *)
(* screen a session ends by being discarded, or with its layout stored.     *)
THEOREM FailureKeepsSession == Spec => SessionOutlivesFailure
<1> DEFINE Ended(t) ==
        \/ Discards(t)
        \/ \E n \in Writes : /\ write[n].op = "layout"
                             /\ write[n].tab = t
                             /\ write[n].phase # write'[n].phase
                             /\ call[n].doc \in past
<1>1. ASSUME IInv, Next, NEW u \in Tabs,
             tab[u].editing, ~tab'[u].editing, Page(u)' = Page(u)
      PROVE  Ended(u)
  <2>1. tab \in [Tabs -> Tab] /\ write \in [Writes -> Write]
    BY <1>1 DEF IInv, TypeOK
  <2>2. tab' # tab
    BY <1>1
  <2>3. ASSUME NEW t \in Tabs, NEW next \in Tab, Renders(t, next, write),
               next.document = tab[t].document, next.editing = tab[t].editing
        PROVE  FALSE
    <3>1. Good(write, next.document)
      BY <1>1, <2>3 DEF IInv, DocumentsInv
    <3> QED
      BY <1>1, <2>1, <2>3, <3>1, RenderKeepsSession
  <2>4. ASSUME NEW t \in Tabs, Operator(t) PROVE Ended(u)
    <3>1. CASE Opens(t)
      <4>1. tab'[u].editing = tab[u].editing
        BY <2>1, <3>1 DEF Opens, Tab
      <4> QED
        BY <1>1, <4>1
    <3>2. CASE EditsPages(t) \/ ChoosesSource(t) \/ Saves(t)
      BY <2>2, <3>2 DEF EditsPages, ChoosesSource, Saves, Sends
    <3>3. ASSUME NEW editing \in BOOLEAN, Session(t, editing) PROVE u = t
      <4> DEFINE next == [tab[t] EXCEPT !.editing = editing]
      <4>1. next \in Tab /\ next.document = tab[t].document
        BY <2>1 DEF Tab
      <4>2. Good(write, next.document) /\ Renders(t, next, write)
        BY <1>1, <3>3, <4>1 DEF IInv, DocumentsInv, Session
      <4> HIDE DEF next
      <4> QED
        BY <1>1, <2>1, <4>1, <4>2, RenderKeepsSession
    <3>4. CASE Begins(t)
      BY <1>1, <3>3, <3>4 DEF Begins
    <3>5. CASE Discards(t)
      BY <3>3, <3>5 DEF Discards
    <3>6. ASSUME NEW at \in {Root} \cup Pages, Goes(t, at) PROVE FALSE
      <4> DEFINE next == [tab[t] EXCEPT !.at = at]
      <4>1. /\ next \in Tab /\ next.document = tab[t].document
            /\ next.editing = tab[t].editing
        BY <2>1 DEF Tab
      <4>2. Renders(t, next, write)
        BY <3>6 DEF Goes
      <4> HIDE DEF next
      <4> QED
        BY <2>3, <4>1, <4>2
    <3>7. CASE Selects(t)
      <4>1. PagesOf(tab[t].document) \subseteq Pages
        BY <2>1, ParametersAside, PagesArePages DEF Tab
      <4> QED
        BY <3>6, <3>7, <4>1 DEF Selects
    <3>8. CASE GoesBack(t)
      BY <3>6, <3>8, OpenedAssumption DEF GoesBack, Pages
    <3> QED
      BY <2>4, <3>1, <3>2, <3>4, <3>5, <3>7, <3>8 DEF Operator
  <2>5. ASSUME NEW t \in Tabs, Loaded(t) \/ NotReached(t) PROVE Ended(u)
    <3>1. PICK d, notice, readOnly : Loads(t, d, notice, readOnly)
      BY <2>5 DEF Loaded, NotReached
    <3>2. tab'[u].editing = tab[u].editing
      BY <2>1, <3>1 DEF Loads, Tab
    <3> QED
      BY <1>1, <3>2
  <2>6. ASSUME NEW n \in Writes, NEW saved \in BOOLEAN, NEW readOnly \in BOOLEAN,
               Settles(n, saved, readOnly), saved => call[n].doc \in past,
               write[n].phase = "sent"
        PROVE  Ended(u)
    <3> DEFINE t    == write[n].tab
               told == [tab[t] EXCEPT !.readOnly = readOnly,
                                      !.editing = @ /\ ~Closes(n, saved)]
               next == IF saved
                       THEN [told EXCEPT !.document = call[n].doc, !.notice = FALSE,
                                         !.at = Target(n)]
                       ELSE told
               over == [write EXCEPT ![n].phase = "over", ![n].awaited = FALSE]
    <3>1. Renders(t, next, over)
      BY <2>6 DEF Settles
    <3>2. /\ t \in Tabs /\ tab[t] \in Tab /\ call[n].doc \in Documents
          /\ Good(write, call[n].doc) /\ Good(write, tab[t].document)
          /\ write[n] \in Write
      BY <1>1, <2>1 DEF IInv, TypeOK, Write, DocumentsInv, Requests
    <3>3. told \in Tab /\ told.document = tab[t].document
          /\ (told.editing <=> tab[t].editing /\ ~Closes(n, saved))
      <4> DEFINE editing == tab[t].editing /\ ~Closes(n, saved)
      <4>1. told = [tab[t] EXCEPT !.readOnly = readOnly, !.editing = editing]
        OBVIOUS
      <4>2. editing \in BOOLEAN
        OBVIOUS
      <4> HIDE DEF editing, t, told
      <4>3. told \in Tab /\ told.document = tab[t].document /\ told.editing = editing
        BY <2>6, <3>2, <4>1, <4>2 DEF Tab
      <4> QED
        BY <4>3 DEF editing
    <3> HIDE DEF told
    <3>4. /\ next \in Tab /\ Good(write, next.document)
          /\ (next.editing <=> tab[t].editing /\ ~Closes(n, saved))
      <4>1. CASE saved
        <5> HIDE DEF t
        <5>1. Target(n) \in {Root} \cup Pages
            BY <1>1, TargetIsPage
        <5> QED
            BY <3>2, <3>3, <4>1, <5>1 DEF Tab
      <4>2. CASE ~saved
        BY <3>2, <3>3, <4>2
      <4> QED
        BY <4>1, <4>2
    <3>5. /\ over \in [Writes -> Write] /\ over[n].phase = "over"
          /\ \A m \in Writes : /\ write[m].phase # "none" => over[m].phase # "none"
                               /\ over[m].op = write[m].op /\ over[m].page = write[m].page
      <4> DEFINE settled == [write[n] EXCEPT !.phase = "over", !.awaited = FALSE]
      <4>1. over = [write EXCEPT ![n] = settled]
        BY <2>1, <3>2 DEF Write
      <4>2. /\ settled \in Write /\ settled.phase = "over" /\ settled.op = write[n].op
            /\ settled.page = write[n].page
        BY <3>2 DEF Write
      <4> HIDE DEF settled, over
      <4> QED
        BY <2>1, <4>1, <4>2
    <3>6. write'[n].phase = "over"
      <4> HIDE DEF next, over, t
      <4> QED
        BY <1>1, <3>1, <3>2, <3>4, <3>5, RenderEffect DEF IInv
    <3>7. u = t /\ ~next.editing
      <4> HIDE DEF next, over, t
      <4> QED
        BY <1>1, <3>1, <3>2, <3>4, <3>5, RenderKeepsSession
    <3>8. Closes(n, saved)
      BY <1>1, <3>4, <3>7
    <3> QED
      BY <2>6, <3>6, <3>7, <3>8 DEF Closes
  <2>7. ASSUME NEW n \in Writes, Answered(n) \/ Unanswered(n) PROVE Ended(u)
    <3>1. CASE Answered(n)
      <4>1. /\ Settles(n, call[n].answer = "ok", read_only)
            /\ write[n].phase = "sent" /\ call[n].phase = "answered"
        BY <3>1 DEF Answered, Server!Return, Server!Forget
      <4>2. call[n].answer = "ok" => call[n].doc \in past
        BY <1>1, <4>1 DEF IInv, ServerInv, Requests
      <4>3. read_only \in BOOLEAN /\ (call[n].answer = "ok") \in BOOLEAN
        BY <1>1 DEF IInv, TypeOK, given
      <4> HIDE DEF Ended
      <4> QED
        BY <2>6, <4>1, <4>2, <4>3
    <3>2. CASE Unanswered(n)
      BY <2>6, <3>2 DEF Unanswered
    <3> QED
      BY <2>7, <3>1, <3>2
  <2>8. ~Serves
    BY <2>2 DEF Serves
  <2> HIDE DEF Ended
  <2> QED
    BY <1>1, <2>4, <2>5, <2>7, <2>8 DEF Next, Browser
<1>2. IInv /\ [Next]_vars =>
         [\A t \in Tabs :
             tab[t].editing /\ ~tab'[t].editing /\ Page(t)' = Page(t) => Ended(t)]_vars
    BY <1>1
<1> QED
    BY <1>2, Invariance, PTL DEF Spec, SessionOutlivesFailure
=============================================================================
