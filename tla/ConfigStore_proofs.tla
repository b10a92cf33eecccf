------------------------- MODULE ConfigStore_proofs -------------------------
(* Theorems about ConfigStore, for any number of connections, documents and *)
(* stores: the document is always whole, and the store implements the       *)
(* atomic document of AtomicDocument.                                       *)
EXTENDS ConfigStore, TLAPS

USE DocsAssumption, MaxStoresAssumption

Writing == {"created", "half", "written", "synced"}
Storing == Writing \cup {"failing"}

(* Names and inodes are handed out once each.                               *)
NamesInv ==
    /\ fresh <= issued + 1
    /\ \A n \in Suffixes : tmp[n] # NoFile => n <= issued

(* The document, and whatever may come back as it, is a file on disk, whole *)
(* unless the disk cut it short.                                            *)
PastInv ==
    /\ directory \in past
    /\ \A i \in past : i # NoFile =>
          /\ i <= fresh
          /\ data[i].doc \in Docs
          /\ data[i].halves = 2 \/ data[i].cut
          /\ data[i].synced

(* What a request carries.                                                  *)
RequestInv ==
    \A c \in Conns :
        /\ req[c].op = "put" <=> req[c].doc # NoDoc
        /\ req[c].phase \in Storing => req[c].op = "put"
        /\ req[c].phase \notin {"answered"} =>
              req[c].answer = "none" /\ req[c].body = NoDoc
        /\ req[c].gone => /\ req[c].op # "get"
                          /\ req[c].phase \in {"received"} \cup Storing

(* A store has its temporary file to itself, and the file holds what was    *)
(* written so far.                                                          *)
WriterInv ==
    \A c \in Conns :
        /\ req[c].phase \in Storing => req[c].suffix \in 1 .. issued
        /\ req[c].phase \in Writing =>
              /\ req[c].inode \in 1 .. fresh
              /\ req[c].inode \notin past
              /\ tmp[req[c].suffix] = req[c].inode
        /\ req[c].phase = "half" =>
              /\ data[req[c].inode].doc = req[c].doc
              /\ data[req[c].inode].halves = 1
        /\ req[c].phase \in {"written", "synced"} =>
              /\ data[req[c].inode].doc = req[c].doc
              /\ data[req[c].inode].halves = 2 \/ data[req[c].inode].cut
        /\ req[c].phase = "synced" => data[req[c].inode].synced

(* No two stores share a name or a file.                                    *)
ApartInv ==
    \A b, c \in Conns :
        /\ b # c /\ req[b].phase \in Storing /\ req[c].phase \in Storing =>
              req[b].suffix # req[c].suffix
        /\ b # c /\ req[b].phase \in Writing /\ req[c].phase \in Writing =>
              req[b].inode # req[c].inode

IInv ==
    /\ TypeOK
    /\ NamesInv
    /\ PastInv
    /\ RequestInv
    /\ WriterInv
    /\ ApartInv

-----------------------------------------------------------------------------

LEMMA PlainOK ==
    ASSUME NEW phase \in Phases, NEW op \in {"get", "put", "delete"},
           NEW doc \in Values, NEW large \in BOOLEAN,
           NEW answer \in {"none", "ok", "too-large", "read-only", "failed"},
           NEW body \in Values \cup {Torn}
    PROVE  Plain(phase, op, doc, large, answer, body) \in Request
<1>1. 0 \in 0 .. MaxStores /\ NoFile \in 0 .. MaxStores + 1
  BY DEF NoFile
<1> QED
  BY <1>1 DEF Request, Plain

LEMMA NoRequestOK == NoRequest \in Request
BY PlainOK DEF NoRequest, Phases, Values

LEMMA InitIInv == Init => IInv
<1> SUFFICES ASSUME Init PROVE IInv
  OBVIOUS
<1>1. /\ directory \in {NoFile} \cup Inodes
      /\ data \in [Inodes -> Data]
      /\ fresh \in 0 .. MaxStores + 1
      /\ PastInv
      /\ fresh <= issued + 1
  <2>1. CASE directory = NoFile /\ fresh = 0 /\ data = [i \in Inodes |-> Empty]
    BY <2>1 DEF Init, Data, Empty, Part, Values, PastInv, NoFile
  <2>2. CASE /\ directory = 1 /\ fresh = 1
             /\ \E d \in Docs :
                   data = [i \in Inodes |-> IF i = 1 THEN Whole(d) ELSE Empty]
    <3>1. 1 \in Inodes /\ 1 \in 0 .. MaxStores + 1
      BY DEF Inodes
    <3>2. Empty \in Data /\ \A d \in Docs : Whole(d) \in Data
      BY DEF Data, Empty, Part, Whole, Values
    <3>3. \A d \in Docs : Whole(d).doc = d /\ Whole(d).halves = 2 /\ Whole(d).synced
      BY DEF Whole
    <3> QED
      BY <2>2, <3>1, <3>2, <3>3 DEF Init, Values, PastInv, NoFile
  <2> QED
    BY <2>1, <2>2 DEF Init
<1>3. TypeOK
  BY <1>1, NoRequestOK DEF Init, TypeOK
<1>4. NamesInv
  BY <1>1 DEF Init, NamesInv, Suffixes
<1>5. RequestInv /\ WriterInv /\ ApartInv
  BY DEF Init, NoRequest, Plain, RequestInv, WriterInv, ApartInv, Storing, Writing
<1> QED
  BY <1>1, <1>3, <1>4, <1>5 DEF IInv

(* A step that only moves requests out of Storing, or leaves them outside,  *)
(* and touches no file, preserves what concerns stores.                     *)
LEMMA RequestOnlyStep ==
    ASSUME IInv, UNCHANGED files, writable' \in BOOLEAN, read_only' \in BOOLEAN,
           req' \in [Conns -> Request],
           \A c \in Conns : req'[c] = req[c] \/ req'[c].phase \notin Storing,
           RequestInv'
    PROVE  IInv'
<1>1. TypeOK' /\ NamesInv' /\ PastInv'
  BY DEF IInv, TypeOK, NamesInv, PastInv, files
<1>2. WriterInv' /\ ApartInv'
  BY DEF IInv, TypeOK, WriterInv, ApartInv, files, Storing, Writing
<1> QED
  BY <1>1, <1>2 DEF IInv

(* An operation ends: the request goes on, or was dropped and is over.      *)
LEMMA ProceedsOK ==
    ASSUME IInv, NEW c \in Conns, NEW next \in Request, ~req[c].gone => ~next.gone,
           next.op = req[c].op, next.doc = req[c].doc,
           next.phase \in Storing => req[c].op = "put",
           next.phase # "answered" => next.answer = "none" /\ next.body = NoDoc,
           Proceeds(c, next)
    PROVE  /\ req' \in [Conns -> Request]
           /\ RequestInv'
           /\ req'[c] = next \/ req'[c].phase = "idle"
           /\ \A b \in Conns \ {c} : req'[b] = req[b]
<1> DEFINE q == IF req[c].gone THEN NoRequest ELSE next
<1>1. req' = [req EXCEPT ![c] = q] /\ req \in [Conns -> Request]
  BY DEF Proceeds, IInv, TypeOK
<1>2. q \in Request
  BY NoRequestOK
<1>3. /\ (q = next /\ ~next.gone) \/ q = NoRequest
      /\ NoRequest.phase = "idle" /\ NoRequest.op = "get" /\ NoRequest.doc = NoDoc
      /\ NoRequest.answer = "none" /\ NoRequest.body = NoDoc /\ ~NoRequest.gone
  BY DEF NoRequest, Plain
<1> HIDE DEF q
<1>4. RequestInv'
  <2> SUFFICES ASSUME NEW b \in Conns PROVE RequestInv!(b)'
    BY DEF RequestInv
  <2>1. CASE b # c
    BY <1>1, <2>1 DEF IInv, RequestInv
  <2>2. CASE b = c /\ q = next /\ ~next.gone
    BY <1>1, <2>2 DEF IInv, RequestInv, Storing, Writing
  <2>3. CASE b = c /\ q = NoRequest
    BY <1>1, <1>3, <2>3 DEF Storing, Writing
  <2> QED
    BY <1>3, <2>1, <2>2, <2>3
<1> QED
  BY <1>1, <1>2, <1>3, <1>4

LEMMA AnswersOK ==
    ASSUME IInv, NEW c \in Conns, NEW body \in Values \cup {Torn},
           NEW answer \in {"ok", "too-large", "read-only", "failed"},
           Answers(c, answer, body)
    PROVE  /\ req' \in [Conns -> Request]
           /\ RequestInv'
           /\ req'[c].phase \in {"idle", "answered"}
           /\ \A b \in Conns \ {c} : req'[b] = req[b]
<1> DEFINE q == Plain("answered", req[c].op, req[c].doc, FALSE, answer, body)
<1>1. Proceeds(c, q)
  BY DEF Answers
<1>2. /\ q.phase = "answered" /\ q.op = req[c].op /\ q.doc = req[c].doc
      /\ ~q.gone
  BY DEF Plain
<1>3. q \in Request
  <2>1. req[c].op \in {"get", "put", "delete"} /\ req[c].doc \in Values
    BY DEF Request, IInv, TypeOK
  <2> QED
    BY <2>1, PlainOK DEF Phases
<1> HIDE DEF q
<1>4. q.phase \notin Storing
  BY <1>2 DEF Storing, Writing
<1> QED
  BY <1>1, <1>2, <1>3, <1>4, ProceedsOK

LEMMA ReceiveStep ==
    ASSUME IInv, NEW c \in Conns, Receive(c)
    PROVE  IInv'
<1>1. PICK op \in {"get", "put", "delete"}, d \in Values, large \in BOOLEAN :
        /\ op = "put" <=> d # NoDoc
        /\ req' = [req EXCEPT ![c] =
                     Plain("received", op, d, large, "none", NoDoc)]
  BY DEF Receive
<1> DEFINE q == Plain("received", op, d, large, "none", NoDoc)
<1>2. q \in Request
  BY PlainOK DEF Phases, Values
<1>3. /\ q.phase = "received" /\ q.op = op /\ q.doc = d
      /\ q.answer = "none" /\ q.body = NoDoc /\ ~q.gone
  BY DEF Plain
<1>4. req' = [req EXCEPT ![c] = q] /\ req \in [Conns -> Request]
  BY <1>1 DEF IInv, TypeOK
<1> HIDE DEF q
<1>5. RequestInv'
  BY <1>1, <1>3, <1>4 DEF IInv, RequestInv, Storing, Writing
<1>6. UNCHANGED <<files, writable, read_only>> /\ writable \in BOOLEAN
      /\ read_only \in BOOLEAN
  BY DEF Receive, IInv, TypeOK
<1>7. /\ req' \in [Conns -> Request]
      /\ \A b \in Conns : req'[b] = req[b] \/ req'[b].phase \notin Storing
  BY <1>2, <1>3, <1>4 DEF Storing, Writing
<1> QED
  BY <1>5, <1>6, <1>7, RequestOnlyStep

LEMMA AnswerOnlyStep ==
    ASSUME IInv, NEW c \in Conns, NEW body \in Values \cup {Torn},
           NEW answer \in {"ok", "too-large", "read-only", "failed"},
           Answers(c, answer, body), UNCHANGED <<files, writable, read_only>>
    PROVE  IInv'
<1>1. writable \in BOOLEAN /\ read_only \in BOOLEAN
  BY DEF IInv, TypeOK
<1> QED
  BY <1>1, AnswersOK, RequestOnlyStep DEF Storing, Writing

LEMMA DropStep ==
    ASSUME IInv, UNCHANGED files, writable' \in BOOLEAN, read_only' \in BOOLEAN,
           \A c \in Conns : req'[c] \in {req[c], NoRequest},
           req' \in [Conns -> Request]
    PROVE  IInv'
<1>1. RequestInv'
  BY DEF IInv, RequestInv, NoRequest, Plain, Storing, Writing
<1> QED
  BY <1>1, RequestOnlyStep DEF NoRequest, Plain, Storing, Writing

-----------------------------------------------------------------------------
(* The steps of a store.                                                    *)

LEMMA MovesOK ==
    ASSUME IInv, NEW c \in Conns, NEW phase \in Phases \ {"answered"},
           phase \in Storing => req[c].op = "put",
           req[c].phase # "answered", Moves(c, phase)
    PROVE  /\ req' \in [Conns -> Request]
           /\ RequestInv'
           /\ req'[c].phase # "idle" =>
                 /\ req'[c].phase = phase
                 /\ req'[c].doc = req[c].doc /\ req'[c].suffix = req[c].suffix
                 /\ req'[c].inode = req[c].inode
           /\ \A b \in Conns \ {c} : req'[b] = req[b]
<1> DEFINE q == [req[c] EXCEPT !.phase = phase]
<1>1. Proceeds(c, q) /\ req[c] \in Request
  BY DEF Moves, IInv, TypeOK
<1>2. /\ q \in Request /\ q.phase = phase /\ q.op = req[c].op
      /\ q.doc = req[c].doc /\ q.suffix = req[c].suffix
      /\ q.inode = req[c].inode /\ q.answer = req[c].answer
      /\ q.body = req[c].body /\ q.gone = req[c].gone
  BY <1>1 DEF Request
<1> HIDE DEF q
<1>3. req[c].answer = "none" /\ req[c].body = NoDoc
  BY DEF IInv, RequestInv
<1> QED
  BY <1>1, <1>2, <1>3, ProceedsOK

LEMMA WriteHalfStep ==
    ASSUME IInv, NEW c \in Conns, WriteHalf(c)
    PROVE  IInv'
<1>1. /\ req[c].phase = "created" /\ req[c].op = "put"
      /\ req[c].inode \in 1 .. fresh /\ req[c].inode \notin past
      /\ req[c].doc \in Docs
  BY DEF IInv, WriteHalf, RequestInv, WriterInv, Storing, Writing, TypeOK,
         Request, Values
<1>2. /\ req' \in [Conns -> Request] /\ RequestInv'
      /\ req'[c].phase = "half" /\ req'[c].doc = req[c].doc
      /\ req'[c].suffix = req[c].suffix /\ req'[c].inode = req[c].inode
      /\ \A b \in Conns \ {c} : req'[b] = req[b]
  <2> DEFINE q == [req[c] EXCEPT !.phase = "half"]
  <2>1. req' = [req EXCEPT ![c] = q] /\ req \in [Conns -> Request]
    BY DEF WriteHalf, IInv, TypeOK
  <2>2. /\ q \in Request /\ q.phase = "half" /\ q.op = req[c].op
        /\ q.doc = req[c].doc /\ q.suffix = req[c].suffix
        /\ q.inode = req[c].inode /\ q.answer = req[c].answer
        /\ q.body = req[c].body /\ q.gone = req[c].gone
    BY <2>1 DEF Request, Phases
  <2> HIDE DEF q
  <2>3. RequestInv'
    BY <1>1, <2>1, <2>2 DEF IInv, RequestInv, Storing, Writing
  <2> QED
    BY <2>1, <2>2, <2>3
<1>5. req[c].inode \in Inodes
  BY <1>1 DEF IInv, TypeOK, Inodes
<1>9. /\ data' \in [Inodes -> Data]
      /\ data'[req[c].inode].doc = req[c].doc
      /\ data'[req[c].inode].halves = 1
      /\ \A i \in Inodes \ {req[c].inode} : data'[i] = data[i]
  <2>1. /\ Part(req[c].doc, 1) \in Data /\ Part(req[c].doc, 1).halves = 1
        /\ Part(req[c].doc, 1).doc = req[c].doc
    BY <1>1 DEF Part, Data, Values
  <2> QED
    BY <1>5, <2>1 DEF IInv, TypeOK, WriteHalf
<1>3. TypeOK'
  BY <1>1, <1>2, <1>9 DEF IInv, TypeOK, WriteHalf
<1>4. NamesInv' /\ PastInv'
  BY <1>1, <1>9 DEF IInv, TypeOK, WriteHalf, NamesInv, PastInv, Inodes, NoFile
<1>8. ASSUME NEW b \in Conns, req'[b].phase \in Writing, b # c
      PROVE  data'[req[b].inode] = data[req[b].inode]
  BY <1>1, <1>2, <1>9, <1>8 DEF IInv, TypeOK, WriterInv, ApartInv, Storing,
                               Writing, Inodes
<1>6. ApartInv'
  BY <1>1, <1>2 DEF IInv, ApartInv, Storing, Writing
<1>7. WriterInv'
  <2> SUFFICES ASSUME NEW b \in Conns PROVE WriterInv!(b)'
    BY DEF WriterInv
  <2>1. CASE b = c
    BY <1>1, <1>2, <1>9, <2>1 DEF IInv, WriteHalf, WriterInv, Storing, Writing
  <2>2. CASE b # c
    BY <1>2, <1>8, <2>2 DEF IInv, WriteHalf, WriterInv, Storing, Writing
  <2> QED
    BY <2>1, <2>2
<1> QED
  BY <1>2, <1>3, <1>4, <1>6, <1>7 DEF IInv

(* The write is over, whole or cut short.                                   *)
LEMMA WriteRestStep ==
    ASSUME IInv, NEW c \in Conns, WriteRest(c) \/ WriteStops(c)
    PROVE  IInv'
<1>1. /\ req[c].phase = "half" /\ req[c].op = "put"
      /\ req[c].inode \in 1 .. fresh /\ req[c].inode \notin past
      /\ data[req[c].inode].doc = req[c].doc
      /\ data[req[c].inode].halves = 1 /\ req[c].doc \in Values
  BY DEF IInv, WriteRest, WriteStops, RequestInv, WriterInv, Storing, Writing,
         TypeOK, Request, Values
<1>2. /\ req' \in [Conns -> Request] /\ RequestInv'
      /\ req'[c].phase # "idle" =>
            /\ req'[c].phase = "written" /\ req'[c].doc = req[c].doc
            /\ req'[c].suffix = req[c].suffix /\ req'[c].inode = req[c].inode
      /\ \A b \in Conns \ {c} : req'[b] = req[b]
  BY <1>1, MovesOK DEF WriteRest, WriteStops, Phases, Storing, Writing
<1>3. req[c].inode \in Inodes
  BY <1>1 DEF IInv, TypeOK, Inodes
<1>4. /\ data' \in [Inodes -> Data]
      /\ data'[req[c].inode].doc = req[c].doc
      /\ data'[req[c].inode].halves = 2 \/ data'[req[c].inode].cut
      /\ \A i \in Inodes \ {req[c].inode} : data'[i] = data[i]
  <2>1. CASE WriteRest(c)
    <3>1. /\ Part(req[c].doc, 2) \in Data /\ Part(req[c].doc, 2).halves = 2
          /\ Part(req[c].doc, 2).doc = req[c].doc
      BY <1>1 DEF Part, Data
    <3>2. data' = [data EXCEPT ![req[c].inode] = Part(req[c].doc, 2)]
      BY <1>1, <2>1 DEF WriteRest
    <3> QED
      BY <1>3, <3>1, <3>2 DEF IInv, TypeOK
  <2>2. CASE WriteStops(c)
    <3> DEFINE d == [data[req[c].inode] EXCEPT !.cut = TRUE]
    <3>1. data[req[c].inode] \in Data /\ data \in [Inodes -> Data]
      BY <1>3 DEF IInv, TypeOK
    <3>2. d \in Data /\ d.doc = data[req[c].inode].doc /\ d.cut
      BY <3>1 DEF Data
    <3>3. data' = [data EXCEPT ![req[c].inode] = d]
      BY <2>2 DEF WriteStops
    <3> HIDE DEF d
    <3> QED
      BY <1>1, <1>3, <3>1, <3>2, <3>3
  <2> QED
    BY <2>1, <2>2
<1>5. UNCHANGED <<directory, tmp, past, issued, fresh, writable, read_only>>
  BY DEF WriteRest, WriteStops
<1>6. TypeOK'
  BY <1>2, <1>4, <1>5 DEF IInv, TypeOK
<1>7. NamesInv' /\ PastInv'
  BY <1>1, <1>4, <1>5 DEF IInv, TypeOK, NamesInv, PastInv, Inodes, NoFile
<1>8. ApartInv'
  BY <1>1, <1>2 DEF IInv, ApartInv, Storing, Writing
<1>9. ASSUME NEW b \in Conns, req'[b].phase \in Writing, b # c
      PROVE  data'[req[b].inode] = data[req[b].inode]
  BY <1>1, <1>2, <1>4, <1>9 DEF IInv, TypeOK, WriterInv, ApartInv, Storing,
                               Writing, Inodes
<1>10. WriterInv'
  BY <1>1, <1>2, <1>4, <1>5, <1>9 DEF IInv, TypeOK, WriterInv, Storing, Writing
<1> QED
  BY <1>2, <1>6, <1>7, <1>8, <1>10 DEF IInv

LEMMA SyncStep ==
    ASSUME IInv, NEW c \in Conns, Sync(c)
    PROVE  IInv'
<1>1. /\ req[c].phase = "written" /\ req[c].op = "put"
      /\ req[c].inode \in 1 .. fresh /\ req[c].inode \notin past
  BY DEF IInv, Sync, RequestInv, WriterInv, Storing, Writing
<1>2. /\ req' \in [Conns -> Request] /\ RequestInv'
      /\ req'[c].phase # "idle" =>
            /\ req'[c].phase = "synced" /\ req'[c].doc = req[c].doc
            /\ req'[c].suffix = req[c].suffix /\ req'[c].inode = req[c].inode
      /\ \A b \in Conns \ {c} : req'[b] = req[b]
  BY <1>1, MovesOK DEF Sync, Phases, Storing, Writing
<1>3. req[c].inode \in Inodes
  BY <1>1 DEF IInv, TypeOK, Inodes
<1>4. /\ data' \in [Inodes -> Data]
      /\ data'[req[c].inode].doc = data[req[c].inode].doc
      /\ data'[req[c].inode].halves = data[req[c].inode].halves
      /\ data'[req[c].inode].cut = data[req[c].inode].cut
      /\ data'[req[c].inode].synced
      /\ \A i \in Inodes \ {req[c].inode} : data'[i] = data[i]
  BY <1>3 DEF IInv, TypeOK, Sync, Data
<1>5. TypeOK'
  BY <1>2, <1>4 DEF IInv, TypeOK, Sync
<1>6. NamesInv' /\ PastInv'
  BY <1>1, <1>4 DEF IInv, TypeOK, Sync, NamesInv, PastInv, Inodes, NoFile
<1>7. ApartInv'
  BY <1>1, <1>2 DEF IInv, ApartInv, Storing, Writing
<1>8. ASSUME NEW b \in Conns, req'[b].phase \in Writing, b # c
      PROVE  data'[req[b].inode] = data[req[b].inode]
  BY <1>1, <1>2, <1>4, <1>8 DEF IInv, TypeOK, WriterInv, ApartInv, Storing,
                               Writing, Inodes
<1>9. WriterInv'
  BY <1>1, <1>2, <1>4, <1>8 DEF IInv, TypeOK, Sync, WriterInv, Storing, Writing
<1> QED
  BY <1>2, <1>5, <1>6, <1>7, <1>9 DEF IInv

(* A store that gives up keeps its name until it has cleaned up.            *)
LEMMA GiveUpStep ==
    ASSUME IInv, NEW c \in Conns, req[c].phase \in Writing,
           Moves(c, "failing"), UNCHANGED <<files, writable, read_only>>
    PROVE  IInv'
<1>1. req[c].op = "put"
  BY DEF IInv, RequestInv, Storing
<1>2. /\ req' \in [Conns -> Request] /\ RequestInv'
      /\ req'[c].phase # "idle" =>
            req'[c].phase = "failing" /\ req'[c].suffix = req[c].suffix
      /\ \A b \in Conns \ {c} : req'[b] = req[b]
  BY <1>1, MovesOK DEF Phases, Storing, Writing
<1>3. TypeOK' /\ NamesInv' /\ PastInv'
  BY <1>2 DEF IInv, TypeOK, NamesInv, PastInv, files
<1>4. WriterInv' /\ ApartInv'
  BY <1>2 DEF IInv, TypeOK, WriterInv, ApartInv, files, Storing, Writing
<1> QED
  BY <1>2, <1>3, <1>4 DEF IInv

LEMMA CreateStep ==
    ASSUME IInv, NEW c \in Conns, Create(c)
    PROVE  IInv'
<1> DEFINE n == issued + 1
           i == fresh + 1
           q == [req[c] EXCEPT !.phase = "created", !.suffix = n, !.inode = i]
<1>1. /\ n \in Suffixes /\ i \in Inodes /\ i \in 0 .. MaxStores + 1
      /\ tmp[n] = NoFile /\ i \notin past /\ i # NoFile /\ issued \in Nat
      /\ fresh \in Nat /\ fresh <= issued + 1
  BY DEF IInv, TypeOK, Create, NamesInv, PastInv, Suffixes, Inodes, NoFile
<1>2. /\ issued' = n /\ fresh' = i /\ tmp' = [tmp EXCEPT ![n] = i]
      /\ data' = [data EXCEPT ![i] = Empty]
      /\ Proceeds(c, q)
      /\ UNCHANGED <<directory, past, writable, read_only>>
  BY <1>1 DEF Create, NextSuffix
<1>3. /\ q \in Request /\ q.phase = "created" /\ q.suffix = n /\ q.inode = i
      /\ q.op = "put" /\ q.doc = req[c].doc /\ q.answer = req[c].answer
      /\ q.body = req[c].body /\ req[c].op = "put" /\ q.gone = req[c].gone
      /\ req[c].phase = "received"
  <2>1. /\ req[c] \in Request /\ req[c].op = "put"
        /\ req[c].phase = "received" /\ n \in 0 .. MaxStores
    BY <1>1 DEF Create, Admitted, IInv, TypeOK, Suffixes
  <2> HIDE DEF n, i
  <2> QED
    BY <1>1, <2>1 DEF Request, Phases
<1> HIDE DEF q
<1>9. /\ req' \in [Conns -> Request] /\ RequestInv'
      /\ req'[c] = q \/ req'[c].phase = "idle"
      /\ \A b \in Conns \ {c} : req'[b] = req[b]
  <2>1. req[c].answer = "none" /\ req[c].body = NoDoc
    BY <1>3 DEF IInv, RequestInv
  <2> QED
    BY <1>2, <1>3, <2>1, ProceedsOK
<1>4. TypeOK'
  <2>1. Empty \in Data
    BY DEF Empty, Part, Data, Values
  <2> QED
    BY <1>1, <1>2, <1>9, <2>1 DEF IInv, TypeOK, Suffixes, Inodes
<1>5. NamesInv'
  BY <1>1, <1>2 DEF IInv, TypeOK, NamesInv, Suffixes
<1>6. PastInv'
  BY <1>1, <1>2 DEF IInv, TypeOK, PastInv, Inodes
<1>10. ApartInv'
  BY <1>1, <1>3, <1>9 DEF IInv, TypeOK, ApartInv, WriterInv, Storing,
                               Writing
<1>11. ASSUME NEW b \in Conns, b # c, req[b].phase \in Writing
       PROVE  data'[req[b].inode] = data[req[b].inode]
              /\ tmp'[req[b].suffix] = tmp[req[b].suffix]
              /\ req[b].inode \in 1 .. fresh'
  BY <1>1, <1>2, <1>11 DEF IInv, TypeOK, WriterInv, Storing, Writing, Suffixes,
                          Inodes
<1>12. ASSUME NEW b \in Conns, req[b].phase \in Storing
       PROVE  req[b].suffix \in 1 .. issued'
  BY <1>1, <1>2, <1>12 DEF IInv, WriterInv
<1>13. tmp'[n] = i /\ n \in 1 .. issued' /\ i \in 1 .. fresh'
  BY <1>1, <1>2 DEF IInv, TypeOK
<1>14. WriterInv'
  <2> SUFFICES ASSUME NEW b \in Conns
               PROVE  WriterInv!(b)'
    BY DEF WriterInv
  <2>1. CASE b = c
    BY <1>3, <1>9, <1>1, <1>2, <1>13, <2>1 DEF Storing, Writing
  <2>2. CASE b # c
    BY <1>2, <1>9, <1>11, <1>12, <2>2 DEF IInv, WriterInv, Storing, Writing
  <2> QED
    BY <2>1, <2>2
<1> QED
  BY <1>4, <1>5, <1>6, <1>9, <1>10, <1>14 DEF IInv

LEMMA CreateFailsStep ==
    ASSUME IInv, NEW c \in Conns, CreateFails(c)
    PROVE  IInv'
<1> DEFINE n == issued + 1
           q == [req[c] EXCEPT !.phase = "failing", !.suffix = n]
<1>1. /\ n \in Suffixes /\ issued \in Nat /\ n \in 0 .. MaxStores
      /\ issued' = n /\ Proceeds(c, q)
      /\ UNCHANGED <<directory, tmp, past, data, fresh, writable, read_only>>
  <2>1. issued \in 0 .. MaxStores /\ issued < MaxStores
    BY DEF CreateFails, IInv, TypeOK
  <2> QED
    BY <2>1 DEF CreateFails, NextSuffix, Suffixes
<1>2. /\ q \in Request /\ q.phase = "failing" /\ q.suffix = n
      /\ q.op = "put" /\ q.doc = req[c].doc /\ q.answer = req[c].answer
      /\ q.body = req[c].body /\ req[c].op = "put" /\ q.gone = req[c].gone
      /\ req[c].phase = "received"
  BY <1>1 DEF CreateFails, Admitted, IInv, TypeOK, Request, Phases
<1> HIDE DEF q
<1>3. /\ req' \in [Conns -> Request] /\ RequestInv'
      /\ req'[c] = q \/ req'[c].phase = "idle"
      /\ \A b \in Conns \ {c} : req'[b] = req[b]
  <2>1. req[c].answer = "none" /\ req[c].body = NoDoc
    BY <1>2 DEF IInv, RequestInv
  <2> QED
    BY <1>1, <1>2, <2>1, ProceedsOK
<1>4. TypeOK'
  BY <1>1, <1>3 DEF IInv, TypeOK
<1>5. NamesInv' /\ PastInv'
  BY <1>1 DEF IInv, TypeOK, NamesInv, PastInv, Suffixes
<1>7. ApartInv'
  BY <1>1, <1>2, <1>3 DEF IInv, ApartInv, WriterInv, Storing, Writing
<1>8. WriterInv'
  BY <1>1, <1>2, <1>3 DEF IInv, WriterInv, Storing, Writing
<1> QED
  BY <1>3, <1>4, <1>5, <1>7, <1>8 DEF IInv

LEMMA RenameStep ==
    ASSUME IInv, NEW c \in Conns, Rename(c)
    PROVE  IInv'
<1> DEFINE i == req[c].inode
<1>1. /\ req[c].phase = "synced" /\ req[c].op = "put" /\ req[c].doc \in Docs
      /\ i \in 1 .. fresh /\ i \in Inodes /\ tmp[req[c].suffix] = i
      /\ req[c].suffix \in Suffixes
      /\ data[i].doc = req[c].doc /\ data[i].synced
      /\ data[i].halves = 2 \/ data[i].cut
  BY DEF IInv, TypeOK, Rename, RequestInv, WriterInv, Storing, Writing,
         Request, Values, Inodes, Suffixes
<1>2. /\ directory' = i /\ past' = past \cup {i}
      /\ tmp' = [tmp EXCEPT ![req[c].suffix] = NoFile]
      /\ Answers(c, "ok", NoDoc)
      /\ UNCHANGED <<data, issued, fresh, writable, read_only>>
  BY <1>1 DEF Rename
<1>3. /\ req' \in [Conns -> Request] /\ RequestInv'
      /\ req'[c].phase \in {"idle", "answered"}
      /\ \A b \in Conns \ {c} : req'[b] = req[b]
  BY <1>2, AnswersOK DEF Values
<1>4. TypeOK'
  BY <1>1, <1>2, <1>3 DEF IInv, TypeOK
<1>5. NamesInv' /\ PastInv'
  BY <1>1, <1>2 DEF IInv, TypeOK, NamesInv, PastInv, Suffixes
<1>6. ApartInv'
  BY <1>3 DEF IInv, ApartInv, Storing, Writing
<1>7. ASSUME NEW b \in Conns, req'[b].phase \in Writing
      PROVE  /\ b # c /\ req[b].inode # i
             /\ tmp'[req[b].suffix] = tmp[req[b].suffix]
  BY <1>1, <1>2, <1>3, <1>7 DEF IInv, TypeOK, ApartInv, WriterInv, Storing,
                               Writing, Suffixes
<1>8. WriterInv'
  BY <1>2, <1>3, <1>7 DEF IInv, WriterInv, Storing, Writing
<1> QED
  BY <1>3, <1>4, <1>5, <1>6, <1>8 DEF IInv

LEMMA CleanUpStep ==
    ASSUME IInv, NEW c \in Conns, CleanUp(c)
    PROVE  IInv'
<1>1. req[c].phase = "failing" /\ req[c].suffix \in Suffixes
  BY DEF IInv, TypeOK, CleanUp, WriterInv, Storing, Suffixes
<1>2. /\ req' \in [Conns -> Request] /\ RequestInv'
      /\ req'[c].phase \in {"idle", "answered"}
      /\ \A b \in Conns \ {c} : req'[b] = req[b]
  BY AnswersOK DEF CleanUp, Values
<1>3. /\ tmp' \in [Suffixes -> {NoFile} \cup Inodes]
      /\ \A n \in Suffixes : tmp'[n] # NoFile => tmp[n] # NoFile
      /\ \A n \in Suffixes \ {req[c].suffix} : tmp'[n] = tmp[n]
  BY <1>1 DEF CleanUp, IInv, TypeOK
<1>4. UNCHANGED <<directory, past, data, issued, fresh, writable, read_only>>
  BY DEF CleanUp
<1>5. TypeOK' /\ NamesInv' /\ PastInv'
  BY <1>2, <1>3, <1>4 DEF IInv, TypeOK, NamesInv, PastInv
<1>6. ApartInv'
  BY <1>2 DEF IInv, ApartInv, Storing, Writing
<1>7. ASSUME NEW b \in Conns, req'[b].phase \in Writing
      PROVE  b # c /\ tmp'[req[b].suffix] = tmp[req[b].suffix]
  BY <1>1, <1>2, <1>3, <1>7 DEF IInv, TypeOK, ApartInv, WriterInv, Storing,
                               Writing, Suffixes
<1>8. WriterInv'
  BY <1>2, <1>4, <1>7 DEF IInv, WriterInv, Storing, Writing
<1> QED
  BY <1>2, <1>5, <1>6, <1>8 DEF IInv

LEMMA StoreStep ==
    ASSUME IInv, NEW c \in Conns, Store(c)
    PROVE  IInv'
<1>1. CASE SyncFails(c)
  BY <1>1, GiveUpStep DEF SyncFails, Writing
<1>2. CASE RenameFails(c)
  BY <1>2, GiveUpStep DEF RenameFails, Writing
<1> QED
  BY <1>1, <1>2, CreateStep, CreateFailsStep, WriteHalfStep, WriteRestStep,
     SyncStep, RenameStep, CleanUpStep DEF Store

-----------------------------------------------------------------------------
(* The other steps.                                                         *)

LEMMA LoadStep ==
    ASSUME IInv, NEW c \in Conns, Load(c)
    PROVE  IInv'
<1>1. NoDoc \in Values \cup {Torn} /\ Content(directory) \in Values \cup {Torn}
  BY DEF IInv, PastInv, Values, Content
<1>2. UNCHANGED <<files, writable, read_only>>
  BY DEF Load
<1>3. PICK body \in Values \cup {Torn}, answer \in {"ok", "failed"} : Answers(c, answer, body)
  BY <1>1 DEF Load
<1> QED
  BY <1>2, <1>3, AnswerOnlyStep

LEMMA RefuseStep ==
    ASSUME IInv, NEW c \in Conns, Refuse(c) \/ DeleteFails(c)
    PROVE  IInv'
<1>1. UNCHANGED <<files, writable, read_only>> /\ NoDoc \in Values \cup {Torn}
  BY DEF Refuse, DeleteFails, Values
<1>2. PICK answer \in {"too-large", "read-only", "failed"} :
         Answers(c, answer, NoDoc)
  BY DEF Refuse, DeleteFails
<1> QED
  BY <1>1, <1>2, AnswerOnlyStep

LEMMA DeleteStep ==
    ASSUME IInv, NEW c \in Conns, Delete(c)
    PROVE  IInv'
<1>1. /\ req' \in [Conns -> Request] /\ RequestInv'
      /\ req'[c].phase \in {"idle", "answered"}
      /\ \A b \in Conns \ {c} : req'[b] = req[b]
  BY AnswersOK DEF Delete, Values
<1>2. /\ directory' = NoFile /\ past' = past \cup {NoFile}
      /\ UNCHANGED <<tmp, data, issued, fresh, writable, read_only>>
  BY DEF Delete
<1>3. TypeOK' /\ NamesInv' /\ PastInv'
  BY <1>1, <1>2 DEF IInv, TypeOK, NamesInv, PastInv
<1>4. WriterInv' /\ ApartInv'
  BY <1>1, <1>2 DEF IInv, TypeOK, WriterInv, ApartInv, Storing, Writing, NoFile
<1> QED
  BY <1>1, <1>3, <1>4 DEF IInv

(* A handler is dropped with an operation under way.                        *)
LEMMA GoneStep ==
    ASSUME IInv, NEW c \in Conns, MayBeUnderWay(c),
           req' = [req EXCEPT ![c].gone = TRUE],
           UNCHANGED <<files, writable, read_only>>
    PROVE  IInv'
<1> DEFINE q == [req[c] EXCEPT !.gone = TRUE]
<1>1. /\ req' = [req EXCEPT ![c] = q] /\ req \in [Conns -> Request]
      /\ req[c] \in Request
  BY DEF IInv, TypeOK
<1>2. /\ q \in Request /\ q.phase = req[c].phase /\ q.op = req[c].op
      /\ q.doc = req[c].doc /\ q.suffix = req[c].suffix
      /\ q.inode = req[c].inode /\ q.answer = req[c].answer
      /\ q.body = req[c].body
  BY <1>1 DEF Request
<1>3. req[c].op # "get" /\ req[c].phase \in {"received"} \cup Storing
  BY DEF MayBeUnderWay, Admitted, IInv, RequestInv, Storing, Writing
<1> HIDE DEF q
<1>4. TypeOK' /\ NamesInv' /\ PastInv'
  BY <1>1, <1>2 DEF IInv, TypeOK, NamesInv, PastInv, files
<1>5. RequestInv'
  BY <1>1, <1>2, <1>3 DEF IInv, RequestInv
<1>6. WriterInv' /\ ApartInv'
  BY <1>1, <1>2 DEF IInv, WriterInv, ApartInv, files
<1> QED
  BY <1>4, <1>5, <1>6 DEF IInv

LEMMA PowerLossStep ==
    ASSUME IInv, PowerLoss
    PROVE  IInv'
<1>1. req' = [c \in Conns |-> NoRequest] /\ NoRequest \in Request
      /\ NoRequest.phase = "idle" /\ NoRequest.op = "get"
      /\ NoRequest.doc = NoDoc /\ NoRequest.answer = "none"
      /\ NoRequest.body = NoDoc /\ ~NoRequest.gone
  BY NoRequestOK DEF PowerLoss, NoRequest, Plain
<1>2. RequestInv' /\ WriterInv' /\ ApartInv'
  BY <1>1 DEF RequestInv, WriterInv, ApartInv, Storing, Writing
<1>3. Empty \in Data
  BY DEF Empty, Part, Data, Values
<1>4. TypeOK'
  BY <1>1, <1>3 DEF IInv, TypeOK, PowerLoss
<1>5. PastInv' /\ NamesInv'
  BY DEF IInv, TypeOK, PastInv, NamesInv, PowerLoss
<1> QED
  BY <1>2, <1>4, <1>5 DEF IInv

LEMMA QuietStep ==
    ASSUME IInv, Commit \/ Remount \/ UNCHANGED vars
    PROVE  IInv'
<1>1. CASE Commit
  <2>1. /\ past' = {directory} /\ directory \in past
        /\ UNCHANGED <<directory, tmp, data, issued, fresh, writable, read_only,
                       req>>
    BY <1>1 DEF Commit, IInv, PastInv
  <2>2. TypeOK' /\ NamesInv' /\ PastInv' /\ RequestInv' /\ ApartInv'
    BY <2>1 DEF IInv, TypeOK, NamesInv, PastInv, RequestInv, ApartInv
  <2>3. WriterInv'
    BY <2>1 DEF IInv, WriterInv, Storing, Writing
  <2> QED
    BY <2>2, <2>3 DEF IInv
<1>2. CASE Remount \/ UNCHANGED vars
  <2>1. UNCHANGED <<files, read_only, req>> /\ writable' \in BOOLEAN
    BY <1>2 DEF Remount, vars, IInv, TypeOK
  <2> QED
    BY <2>1, DropStep DEF IInv, TypeOK
<1> QED
  BY <1>1, <1>2

LEMMA NextIInv ==
    ASSUME IInv, [Next]_vars
    PROVE  IInv'
<1>1. ASSUME NEW c \in Conns, Handler(c) PROVE IInv'
  <2>1. CASE Respond(c)
    BY <2>1, DropStep, NoRequestOK DEF Respond, IInv, TypeOK
  <2> QED
    BY <1>1, <2>1, LoadStep, RefuseStep, DeleteStep, StoreStep DEF Handler
<1>2. ASSUME NEW c \in Conns, Disconnect(c) PROVE IInv'
  <2>1. CASE req' = [req EXCEPT ![c] = NoRequest]
    BY <1>2, <2>1, DropStep, NoRequestOK DEF Disconnect, IInv, TypeOK
  <2>2. CASE MayBeUnderWay(c) /\ req' = [req EXCEPT ![c].gone = TRUE]
    BY <1>2, <2>2, GoneStep DEF Disconnect
  <2> QED
    BY <1>2, <2>1, <2>2 DEF Disconnect
<1>3. CASE Restart
  BY <1>3, DropStep, NoRequestOK DEF Restart, IInv, TypeOK
<1> QED
  BY <1>1, <1>2, <1>3, ReceiveStep, PowerLossStep, QuietStep DEF Next, Disk

LEMMA Invariance == Spec => []IInv
<1>1. Init => IInv
  BY InitIInv
<1>2. IInv /\ [Next]_vars => IInv'
  BY NextIInv
<1> QED
  BY <1>1, <1>2, PTL DEF Spec

-----------------------------------------------------------------------------

(* Every variable keeps its type.                                           *)
THEOREM TypeCorrect == Spec => []TypeOK
<1>1. IInv => TypeOK
  BY DEF IInv
<1> QED
  BY <1>1, Invariance, PTL

(* The document, and whatever a power failure may bring back as it, is a    *)
(* file on disk, and whole unless the disk cut it short, for any number of  *)
(* requests storing at a time, dropped ones among them.                     *)
THEOREM DocumentStaysWhole == Spec => []DocumentIsWhole
<1>1. IInv => DocumentIsWhole
  BY DEF IInv, PastInv, DocumentIsWhole
<1> QED
  BY <1>1, Invariance, PTL

(* No request that is still writing has the document open.                  *)
THEOREM WritersStayAway == Spec => []NoWriterHasTheDocument
<1>1. IInv => NoWriterHasTheDocument
  BY DEF IInv, PastInv, WriterInv, NoWriterHasTheDocument, Writing
<1> QED
  BY <1>1, Invariance, PTL

-----------------------------------------------------------------------------
(* The refinement.                                                          *)

ADoc  == Content(directory)
APast == {Content(i) : i \in past}
ACall == [c \in Conns |-> CallOf(req[c])]

(* The document and its past are what they were when no file they name      *)
(* changed.                                                                 *)
LEMMA SameDocument ==
    ASSUME IInv, UNCHANGED <<directory, past>>,
           \A i \in past : i # NoFile => data'[i] = data[i]
    PROVE  ADoc' = ADoc /\ APast' = APast
<1>1. \A i \in past : Content(i)' = Content(i)
  BY DEF Content
<1> QED
  BY <1>1 DEF ADoc, APast, IInv, PastInv

(* A call is what it was when its request only moved on.                    *)
LEMMA SameCall ==
    ASSUME NEW c \in Conns, \A b \in Conns \ {c} : req'[b] = req[b],
           CallOf(req'[c]) = CallOf(req[c])
    PROVE  ACall' = ACall
BY DEF ACall

(* A request that is dropped, or over, is no call.                          *)
LEMMA NoRequestCall ==
    ASSUME NEW c \in Conns, req \in [Conns -> Request],
           req' = [req EXCEPT ![c] = NoRequest]
    PROVE  Abstract!Forget(c)
<1>1. CallOf(NoRequest) = Abstract!NoCall
  BY DEF CallOf, NoRequest, Plain, Abstract!NoCall
<1> QED
  BY <1>1 DEF Abstract!Forget, ACall

LEMMA InitRefines == Init => Abstract!Init
<1> SUFFICES ASSUME Init PROVE Abstract!Init
  OBVIOUS
<1>2. ADoc \in Values
  BY DEF Init, ADoc, Content, Whole, Values, Inodes, NoFile
<1>3. APast = {ADoc}
  BY DEF Init, APast, ADoc
<1>4. ACall = [c \in Conns |-> Abstract!NoCall]
  BY DEF Init, ACall, CallOf, NoRequest, Plain, Abstract!NoCall
<1> QED
  BY <1>2, <1>3, <1>4 DEF Abstract!Init, Abstract!Values, Values, ADoc, APast,
                         ACall

LEMMA ReceiveRefines ==
    ASSUME IInv, NEW c \in Conns, Receive(c)
    PROVE  Abstract!Invoke(c)
<1>1. PICK op \in {"get", "put", "delete"}, d \in Values, large \in BOOLEAN :
        /\ op = "put" <=> d # NoDoc
        /\ req' = [req EXCEPT ![c] =
                     Plain("received", op, d, large, "none", NoDoc)]
  BY DEF Receive
<1>2. ADoc' = ADoc /\ APast' = APast
  BY SameDocument DEF Receive, files
<1>3. ACall[c].phase = "idle"
  BY DEF ACall, CallOf, Receive, IInv, RequestInv, Storing, Writing
<1>4. ACall' = [ACall EXCEPT ![c] =
         [Abstract!NoCall EXCEPT !.phase = "open", !.op = op, !.doc = d]]
  BY <1>1 DEF ACall, CallOf, Plain, Abstract!NoCall, IInv, TypeOK
<1> QED
  BY <1>1, <1>2, <1>3, <1>4 DEF Abstract!Invoke, Abstract!Values, Values,
                               ADoc, APast, ACall

(* An operation ends: the call is settled, or given up if its caller has    *)
(* gone.                                                                    *)
LEMMA AnswersRefine ==
    ASSUME IInv, NEW c \in Conns, req[c].phase \notin {"idle", "answered"},
           NEW body \in Values \cup {Torn},
           NEW answer \in {"ok", "too-large", "read-only", "failed"},
           Answers(c, answer, body)
    PROVE  /\ \/ ACall[c].phase = "open" /\ Abstract!Answer(c, answer, body)
              \/ /\ ACall[c].phase = "abandoned" /\ req[c].gone
                 /\ Abstract!Forget(c)
           /\ ACall[c].op = req[c].op
           /\ ACall[c].doc = req[c].doc
<1>1. CASE req[c].gone
  BY <1>1, NoRequestCall
     DEF Answers, Proceeds, ACall, CallOf, IInv, TypeOK
<1>2. CASE ~req[c].gone
  <2>1. /\ req' = [req EXCEPT ![c] =
                     Plain("answered", req[c].op, req[c].doc, FALSE, answer, body)]
        /\ req \in [Conns -> Request]
    BY <1>2 DEF Answers, Proceeds, IInv, TypeOK
  <2>2. ACall' = [ACall EXCEPT ![c].phase = "answered", ![c].answer = answer,
                               ![c].body = body]
    BY <1>2, <2>1 DEF ACall, CallOf, Plain
  <2> QED
    BY <1>2, <2>2 DEF Abstract!Answer, ACall, CallOf
<1> QED
  BY <1>1, <1>2

LEMMA DeclineRefines ==
    ASSUME IInv, NEW c \in Conns, Refuse(c) \/ DeleteFails(c) \/ CleanUp(c)
    PROVE  Abstract!Decline(c) \/ Abstract!Lapse(c)
<1>1. PICK answer \in {"too-large", "read-only", "failed"} :
         Answers(c, answer, NoDoc)
  BY DEF Refuse, DeleteFails, CleanUp
<1>2. req[c].phase \notin {"idle", "answered"} /\ NoDoc \in Values
  BY DEF Refuse, DeleteFails, CleanUp, Admitted, Values
<1>3. \/ ACall[c].phase = "open" /\ Abstract!Answer(c, answer, NoDoc)
      \/ ACall[c].phase = "abandoned" /\ Abstract!Forget(c)
  BY <1>1, <1>2, AnswersRefine
<1>4. ADoc' = ADoc /\ APast' = APast
  BY SameDocument DEF Refuse, DeleteFails, CleanUp, files
<1> QED
  BY <1>3, <1>4 DEF Abstract!Decline, Abstract!Lapse, ADoc, APast, ACall

LEMMA LoadRefines ==
    ASSUME IInv, NEW c \in Conns, Load(c)
    PROVE  Abstract!Apply(c) \/ Abstract!Decline(c)
<1>1. /\ req[c].phase \notin {"idle", "answered"} /\ req[c].op = "get"
      /\ NoDoc \in Values /\ ~req[c].gone
  BY DEF Load, Values, IInv, RequestInv
<1>2. ADoc \in Values \cup {Torn}
  BY DEF ADoc, Content, IInv, PastInv, Values
<1>3. ADoc' = ADoc /\ APast' = APast
  BY SameDocument DEF Load, files
<1>4. CASE Answers(c, "ok", ADoc)
  BY <1>1, <1>2, <1>3, <1>4, AnswersRefine
     DEF Abstract!Apply, Abstract!Read, ADoc, APast, ACall
<1>5. CASE Answers(c, "failed", NoDoc)
  BY <1>1, <1>3, <1>5, AnswersRefine
     DEF Abstract!Decline, ADoc, APast, ACall
<1> QED
  BY <1>4, <1>5 DEF Load, ADoc

(* A request that ends well replaces the document, whoever is left to hear. *)
LEMMA ReplaceRefines ==
    ASSUME IInv, NEW c \in Conns, req[c].phase \notin {"idle", "answered"},
           req[c].op # "get", Answers(c, "ok", NoDoc), NEW value,
           ADoc' = value, APast' = APast \cup {value}
    PROVE  /\ Abstract!Replace(c, value)
           /\ ACall[c].op = req[c].op /\ ACall[c].doc = req[c].doc
<1>1. NoDoc \in Values \cup {Torn}
  BY DEF Values
<1> QED
  BY <1>1, AnswersRefine DEF Abstract!Replace, ADoc, APast, ACall

LEMMA DeleteRefines ==
    ASSUME IInv, NEW c \in Conns, Delete(c)
    PROVE  Abstract!Apply(c)
<1>1. /\ req[c].phase \notin {"idle", "answered"} /\ req[c].op = "delete"
      /\ req[c].doc = NoDoc
  BY DEF Delete, Admitted, IInv, RequestInv
<1>3. ADoc' = NoDoc
  BY DEF Delete, ADoc, Content
<1>4. APast' = APast \cup {NoDoc}
  BY DEF Delete, APast, Content
<1>5. Answers(c, "ok", NoDoc)
  BY DEF Delete
<1>6. Abstract!Replace(c, NoDoc) /\ ACall[c].doc = NoDoc
  BY <1>1, <1>3, <1>4, <1>5, ReplaceRefines
<1> QED
  BY <1>6 DEF Abstract!Apply, ACall

(* What is renamed into place is the document, or what the disk left of it. *)
LEMMA RenameRefines ==
    ASSUME IInv, NEW c \in Conns, Rename(c)
    PROVE  Abstract!Apply(c) \/ Abstract!Tear(c)
<1>1. /\ req[c].phase \notin {"idle", "answered"} /\ req[c].op = "put"
      /\ req[c].inode # NoFile
      /\ directory' = req[c].inode /\ data[req[c].inode].doc = req[c].doc
      /\ past' = past \cup {req[c].inode} /\ UNCHANGED data
      /\ Answers(c, "ok", NoDoc)
  BY DEF Rename, IInv, TypeOK, RequestInv, WriterInv, Storing, Writing, NoFile
<1> DEFINE value == Content(req[c].inode)
<1>2. value \in {req[c].doc, Torn}
  BY <1>1 DEF Content
<1>3. ADoc' = value
  BY <1>1 DEF ADoc, Content
<1>4. APast' = APast \cup {value}
  BY <1>1 DEF APast, Content
<1> HIDE DEF value
<1>5. /\ Abstract!Replace(c, value)
      /\ ACall[c].op = "put" /\ ACall[c].doc = req[c].doc
  BY <1>1, <1>3, <1>4, ReplaceRefines
<1>6. CASE value = req[c].doc
  BY <1>5, <1>6 DEF Abstract!Apply, ACall
<1>7. CASE value = Torn
  BY <1>5, <1>7 DEF Abstract!Tear, ACall
<1> QED
  BY <1>2, <1>6, <1>7

(* An operation that is not the last one ends.                              *)
LEMMA ProceedsRefine ==
    ASSUME IInv, NEW c \in Conns, NEW next, Proceeds(c, next),
           CallOf(next) = CallOf(req[c])
    PROVE  \/ ACall' = ACall
           \/ ACall[c].phase = "abandoned" /\ Abstract!Forget(c)
<1>1. req \in [Conns -> Request]
  BY DEF IInv, TypeOK
<1>2. CASE req[c].gone
  BY <1>1, <1>2, NoRequestCall DEF Proceeds, ACall, CallOf
<1>3. CASE ~req[c].gone
  BY <1>1, <1>3, SameCall DEF Proceeds
<1> QED
  BY <1>2, <1>3

(* Up to its rename a store is nothing the abstract document sees.          *)
LEMMA StoreStutters ==
    ASSUME IInv, NEW c \in Conns,
           Store(c), ~Rename(c), ~CleanUp(c)
    PROVE  UNCHANGED <<ADoc, APast, ACall>> \/ Abstract!Lapse(c)
<1>1. UNCHANGED <<directory, past>>
  BY DEF Store, Create, CreateFails, WriteHalf, WriteRest, WriteStops, Sync,
         SyncFails, RenameFails, files
<1>2. \A i \in past : i # NoFile => data'[i] = data[i]
  <2>1. CASE Create(c)
    <3>1. tmp[issued + 1] = NoFile
      BY <2>1 DEF IInv, TypeOK, Create, NamesInv, Suffixes
    <3>2. data' = [data EXCEPT ![fresh + 1] = Empty]
      BY <2>1, <3>1 DEF Create, NextSuffix
    <3> QED
      BY <3>2 DEF IInv, TypeOK, PastInv
  <2>2. CASE WriteHalf(c) \/ WriteRest(c) \/ WriteStops(c) \/ Sync(c)
    <3>1. req[c].inode \notin past
      BY <2>2 DEF WriteHalf, WriteRest, WriteStops, Sync, IInv, WriterInv, Writing
    <3> QED
      BY <2>2, <3>1 DEF WriteHalf, WriteRest, WriteStops, Sync, IInv, TypeOK
  <2>3. CASE CreateFails(c) \/ SyncFails(c) \/ RenameFails(c)
    BY <2>3 DEF CreateFails, SyncFails, RenameFails, files
  <2> QED
    BY <2>1, <2>2, <2>3 DEF Store
<1>3. \/ ACall' = ACall
      \/ ACall[c].phase = "abandoned" /\ Abstract!Forget(c)
  <2> DEFINE to(phase) == [req[c] EXCEPT !.phase = phase]
  <2>0. req[c] \in Request /\ req \in [Conns -> Request]
    BY DEF IInv, TypeOK
  <2>1. CASE Create(c)
    <3>1. PICK n, i : Proceeds(c, [req[c] EXCEPT !.phase = "created",
                                               !.suffix = n, !.inode = i])
      BY <2>1 DEF Create
    <3>2. req[c].phase = "received"
      BY <2>1 DEF Create, Admitted
    <3> DEFINE next == [req[c] EXCEPT !.phase = "created", !.suffix = n,
                                      !.inode = i]
    <3>3. CallOf(next) = CallOf(req[c])
      BY <2>0, <3>2 DEF CallOf, Request
    <3> HIDE DEF next
    <3> QED
      BY <3>1, <3>3, ProceedsRefine DEF next
  <2>2. CASE CreateFails(c)
    <3> DEFINE next == [req[c] EXCEPT !.phase = "failing", !.suffix = NextSuffix]
    <3>1. Proceeds(c, next) /\ req[c].phase = "received"
      BY <2>2 DEF CreateFails, Admitted
    <3>2. CallOf(next) = CallOf(req[c])
      BY <2>0, <3>1 DEF CallOf, Request
    <3> HIDE DEF next
    <3> QED
      BY <3>1, <3>2, ProceedsRefine
  <2>3. CASE WriteHalf(c)
    <3>1. /\ \A b \in Conns \ {c} : req'[b] = req[b]
          /\ req'[c] = to("half") /\ req[c].phase = "created"
      BY <2>0, <2>3 DEF WriteHalf
    <3>2. CallOf(req'[c]) = CallOf(req[c])
      BY <2>0, <3>1 DEF CallOf, Request
    <3> QED
      BY <3>1, <3>2, SameCall
  <2>4. ASSUME NEW phase \in {"written", "synced", "failing"},
               Moves(c, phase), req[c].phase \in Writing
        PROVE  \/ ACall' = ACall
               \/ ACall[c].phase = "abandoned" /\ Abstract!Forget(c)
    <3>1. CallOf(to(phase)) = CallOf(req[c])
      BY <2>0, <2>4 DEF CallOf, Request, Writing
    <3>2. Proceeds(c, to(phase))
      BY <2>4 DEF Moves
    <3> HIDE DEF to
    <3> QED
      BY <3>1, <3>2, ProceedsRefine
  <2> QED
    BY <2>1, <2>2, <2>3, <2>4
       DEF Store, WriteRest, WriteStops, Sync, SyncFails, RenameFails, Writing
<1> QED
  BY <1>1, <1>2, <1>3, SameDocument DEF Abstract!Lapse, ADoc, APast, ACall

LEMMA DropRefines ==
    ASSUME IInv, NEW c \in Conns, Respond(c) \/ Disconnect(c)
    PROVE  Abstract!Return(c) \/ Abstract!Abandon(c)
<1>1. /\ ADoc' = ADoc /\ APast' = APast
      /\ req \in [Conns -> Request] /\ req[c] \in Request
  BY SameDocument DEF Respond, Disconnect, files, IInv, TypeOK
<1>2. ACall[c].phase \in {"open", "answered"}
  BY DEF ACall, CallOf, Respond, Disconnect, IInv, RequestInv, Storing, Writing
<1>3. CASE req' = [req EXCEPT ![c] = NoRequest]
  BY <1>1, <1>2, <1>3, NoRequestCall DEF Abstract!Abandon, ADoc, APast, ACall
<1>4. CASE Disconnect(c) /\ MayBeUnderWay(c) /\ req' = [req EXCEPT ![c].gone = TRUE]
  <2>1. ACall' = [ACall EXCEPT ![c].phase = "abandoned"]
    BY <1>1, <1>4 DEF ACall, CallOf, Request
  <2>2. ACall[c].phase = "open" /\ ACall[c].op # "get"
    BY <1>4 DEF Disconnect, MayBeUnderWay, Admitted, ACall, CallOf, IInv,
                RequestInv, Storing, Writing
  <2> QED
    BY <1>1, <2>1, <2>2 DEF Abstract!Abandon, ADoc, APast, ACall
<1> QED
  BY <1>3, <1>4 DEF Respond, Disconnect

LEMMA RestartRefines ==
    ASSUME IInv, Restart
    PROVE  Abstract!Crash
<1>1. ADoc' = ADoc /\ APast' = APast
  BY SameDocument DEF Restart, files
<1>2. ACall' = [c \in Conns |-> Abstract!NoCall]
  BY DEF Restart, ACall, CallOf, NoRequest, Plain, Abstract!NoCall
<1> QED
  BY <1>1, <1>2 DEF Abstract!Crash, ADoc, APast, ACall

LEMMA DiskRefines ==
    ASSUME IInv, Disk
    PROVE  \/ Abstract!Commit \/ Abstract!PowerLoss
           \/ UNCHANGED <<ADoc, APast, ACall>>
<1>1. CASE Commit
  <2>1. ADoc' = ADoc /\ ACall' = ACall /\ APast' = {ADoc}
    BY <1>1 DEF Commit, ADoc, APast, ACall, Content
  <2> QED
    BY <2>1 DEF Abstract!Commit, ADoc, APast, ACall
<1>2. CASE Remount
  BY <1>2 DEF Remount, files, ADoc, APast, ACall, Content
<1>3. CASE PowerLoss
  <2>1. \A i \in past : Content(i)' = Content(i)
    BY <1>3 DEF PowerLoss, IInv, TypeOK, PastInv, Content
  <2>2. directory' \in past /\ past' = {directory'}
    BY <1>3 DEF PowerLoss
  <2>3. ADoc' \in APast /\ APast' = {ADoc'}
    BY <2>1, <2>2 DEF ADoc, APast, Content
  <2>4. ACall' = [c \in Conns |-> Abstract!NoCall]
    BY <1>3 DEF PowerLoss, ACall, CallOf, NoRequest, Plain, Abstract!NoCall
  <2> QED
    BY <2>3, <2>4 DEF Abstract!PowerLoss, ADoc, APast, ACall
<1> QED
  BY <1>1, <1>2, <1>3 DEF Disk

LEMMA StepRefines ==
    ASSUME IInv, [Next]_vars
    PROVE  [Abstract!Next]_(Abstract!vars)
<1>1. CASE UNCHANGED vars
  BY <1>1 DEF vars, files, Abstract!vars, Content
<1>2. UNCHANGED <<ADoc, APast, ACall>> => UNCHANGED Abstract!vars
  BY DEF Abstract!vars, ADoc, APast, ACall
<1>3. ASSUME NEW c \in Conns, Handler(c)
      PROVE  Abstract!Next \/ UNCHANGED <<ADoc, APast, ACall>>
  BY <1>3, LoadRefines, DeclineRefines, DeleteRefines, RenameRefines,
     StoreStutters, DropRefines DEF Handler, Store, Abstract!Next
<1>4. ASSUME NEW c \in Conns, Receive(c) \/ Disconnect(c)
      PROVE  Abstract!Next
  BY <1>4, ReceiveRefines, DropRefines DEF Abstract!Next
<1>5. Restart => Abstract!Next
  BY RestartRefines DEF Abstract!Next
<1>6. Disk => Abstract!Next \/ UNCHANGED <<ADoc, APast, ACall>>
  BY DiskRefines DEF Abstract!Next
<1> QED
  BY <1>1, <1>2, <1>3, <1>4, <1>5, <1>6 DEF Next

(* The store implements the atomic document: every behaviour of the handlers *)
(* and of the disk is one the API promises.                                 *)
THEOREM Implements == Spec => ImplementsAtomicDocument
<1>1. IInv /\ [Next]_vars => [Abstract!Next]_(Abstract!vars)
  BY StepRefines
<1> QED
  BY <1>1, InitRefines, Invariance, PTL
     DEF Spec, ImplementsAtomicDocument, Abstract!Spec
=============================================================================
