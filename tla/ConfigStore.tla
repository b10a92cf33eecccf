----------------------------- MODULE ConfigStore -----------------------------
(***************************************************************************)
(* How the server keeps the dashboard configuration: the handlers of        *)
(* /api/dashboard (src/src/server.rs) over the file operations of            *)
(* src/src/config_store.rs, any number of requests at a time, through      *)
(* failing operations, aborted requests, restarts and power failures.      *)
(*                                                                         *)
(* Each file operation the code awaits is a step, done by a thread of its  *)
(* own: dropping the handler does not call it back.  A document is two     *)
(* halves, so that a write can be caught between them, and the disk may    *)
(* fill up or fail there; what was not synced is lost with the power, and  *)
(* so may be the latest changes to the directory, which the code does not  *)
(* sync.  A temporary file's name is process id and counter                *)
(* (unique_suffix): names are numbered as they are handed out, since       *)
(* processes sharing the directory are taken to have distinct ids.         *)
(***************************************************************************)
EXTENDS Naturals, FiniteSets

CONSTANTS
    Conns,      \* connections, each carrying at most one request
    Docs,       \* documents a browser may send
    NoDoc,      \* no document: what a reset returns to
    Torn,       \* what a reader gets of a file that is not whole
    MaxStores   \* how many stores one behaviour may start

ASSUME DocsAssumption ==
    /\ NoDoc \notin Docs
    /\ Torn \notin Docs \cup {NoDoc}
    /\ Docs # {}

ASSUME MaxStoresAssumption == MaxStores \in Nat \ {0}

Suffixes == 1 .. MaxStores
Inodes   == 1 .. MaxStores + 1      \* one more for a document already there
NoFile   == 0

VARIABLES
    directory,  \* the inode dashboards.json names, or NoFile
    tmp,        \* the inode each temporary name names, or NoFile
    past,       \* what dashboards.json may name after a power failure
    data,       \* what each inode holds
    issued,     \* temporary names handed out
    fresh,      \* inodes allocated
    writable,   \* whether the directory can be written to now
    read_only,  \* ConfigStore.read_only: whether it could not at startup
    req         \* per connection, the request being handled

files == <<directory, tmp, past, data, issued, fresh>>
vars  == <<files, writable, read_only, req>>

Values == Docs \cup {NoDoc}

Data == [doc : Values, halves : 0 .. 2, synced : BOOLEAN,
         cut : BOOLEAN]     \* the disk had no room for the rest

Part(d, n) == [doc |-> d, halves |-> n, synced |-> FALSE, cut |-> FALSE]

Empty == Part(NoDoc, 0)

Whole(d) == [doc |-> d, halves |-> 2, synced |-> TRUE, cut |-> FALSE]

(* The phase says what is done; the next operation may be under way.        *)
Phases == {"idle", "received", "created", "half", "written", "synced",
           "failing", "answered"}

Request == [phase : Phases, op : {"get", "put", "delete"}, doc : Values,
            large : BOOLEAN, suffix : 0 .. MaxStores, inode : 0 .. MaxStores + 1,
            answer : {"none", "ok", "too-large", "read-only", "failed"},
            body : Values \cup {Torn},
            gone : BOOLEAN]     \* its handler was dropped

(* A request with no file of its own.                                       *)
Plain(phase, op, doc, large, answer, body) ==
    [phase |-> phase, op |-> op, doc |-> doc, large |-> large,
     suffix |-> 0, inode |-> NoFile, answer |-> answer, body |-> body,
     gone |-> FALSE]

NoRequest == Plain("idle", "get", NoDoc, FALSE, "none", NoDoc)

TypeOK ==
    /\ directory \in {NoFile} \cup Inodes
    /\ tmp \in [Suffixes -> {NoFile} \cup Inodes]
    /\ past \subseteq {NoFile} \cup Inodes
    /\ data \in [Inodes -> Data]
    /\ issued \in 0 .. MaxStores
    /\ fresh \in 0 .. MaxStores + 1
    /\ writable \in BOOLEAN
    /\ read_only \in BOOLEAN
    /\ req \in [Conns -> Request]

-----------------------------------------------------------------------------
(* The handlers.                                                            *)

(* The operation under way is over.  A handler that was dropped does not    *)
(* start the next one, nor answer.                                          *)
Proceeds(c, next) ==
    req' = [req EXCEPT ![c] = IF @.gone THEN NoRequest ELSE next]

Moves(c, phase) == Proceeds(c, [req[c] EXCEPT !.phase = phase])

Answers(c, answer, body) ==
    Proceeds(c, Plain("answered", req[c].op, req[c].doc, FALSE, answer, body))

StoresUnderWay ==
    Cardinality({c \in Conns : req[c].phase = "received" /\ req[c].op = "put"})

Receive(c) ==
    /\ req[c].phase = "idle"
    /\ \E op \in {"get", "put", "delete"}, d \in Values, large \in BOOLEAN :
         /\ op = "put" <=> d # NoDoc
         /\ large => op = "put"
         /\ op = "put" => issued + StoresUnderWay < MaxStores
         /\ req' = [req EXCEPT ![c] =
                       Plain("received", op, d, large, "none", NoDoc)]
    /\ UNCHANGED <<files, writable, read_only>>

(* What a reader finds in a file.                                           *)
Content(i) ==
    IF i = NoFile THEN NoDoc
    ELSE IF data[i].halves = 2 THEN data[i].doc ELSE Torn

(* Hands over the file with what the file system knows of it.               *)
LoadRaw(c) ==
    /\ req[c].phase = "received"
    /\ req[c].op = "get"
    /\ directory # NoFile
    /\ Answers(c, "ok", data[directory])
    /\ UNCHANGED <<files, writable, read_only>>

(* get_dashboard and ConfigStore::load.                                     *)
Load(c) ==
    /\ req[c].phase = "received"
    /\ req[c].op = "get"
    /\ \/ Answers(c, "ok", Content(directory))
       \/ Answers(c, "failed", NoDoc)
    /\ UNCHANGED <<files, writable, read_only>>

(* put_dashboard and delete_dashboard before they touch the store.  The     *)
(* size is judged first.                                                    *)
Refuse(c) ==
    /\ req[c].phase = "received"
    /\ \/ req[c].large /\ Answers(c, "too-large", NoDoc)
       \/ /\ req[c].op # "get"
          /\ ~req[c].large
          /\ read_only
          /\ Answers(c, "read-only", NoDoc)
    /\ UNCHANGED <<files, writable, read_only>>

Admitted(c, op) ==
    /\ req[c].phase = "received"
    /\ req[c].op = op
    /\ ~req[c].large
    /\ ~read_only

(* ConfigStore::delete.                                                     *)
Delete(c) ==
    /\ Admitted(c, "delete")
    /\ writable \/ directory = NoFile
    /\ directory' = NoFile
    /\ past' = past \cup {NoFile}
    /\ Answers(c, "ok", NoDoc)
    /\ UNCHANGED <<tmp, data, issued, fresh, writable, read_only>>

DeleteFails(c) ==
    /\ Admitted(c, "delete")
    /\ directory # NoFile
    /\ Answers(c, "failed", NoDoc)
    /\ UNCHANGED <<files, writable, read_only>>

-----------------------------------------------------------------------------
(* ConfigStore::store.                                                      *)

(* A temporary name every writer shares.                                    *)
SharedSuffix == 1

(* unique_suffix.                                                           *)
NextSuffix == issued + 1

(* File::create: an existing file is emptied, a new name gets a new inode.  *)
Create(c) ==
    /\ Admitted(c, "put")
    /\ writable
    /\ issued < MaxStores
    /\ issued' = issued + 1
    /\ LET n == NextSuffix
           i == IF tmp[n] # NoFile THEN tmp[n] ELSE fresh + 1
       IN  /\ tmp' = [tmp EXCEPT ![n] = i]
           /\ fresh' = IF tmp[n] # NoFile THEN fresh ELSE fresh + 1
           /\ data' = [data EXCEPT ![i] = Empty]
           /\ Proceeds(c, [req[c] EXCEPT !.phase = "created",
                                        !.suffix = n, !.inode = i])
    /\ UNCHANGED <<directory, past, writable, read_only>>

CreateFails(c) ==
    /\ Admitted(c, "put")
    /\ issued < MaxStores
    /\ issued' = issued + 1
    /\ Proceeds(c, [req[c] EXCEPT !.phase = "failing", !.suffix = NextSuffix])
    /\ UNCHANGED <<directory, tmp, past, data, fresh, writable, read_only>>

(* write_all hands the document to a thread and returns; here the thread    *)
(* is caught with a part of it, or nothing, in the file.                    *)
WriteHalf(c) ==
    /\ req[c].phase = "created"
    /\ data' = [data EXCEPT ![req[c].inode] = Part(req[c].doc, 1)]
    /\ req' = [req EXCEPT ![c].phase = "half"]
    /\ UNCHANGED <<directory, tmp, past, issued, fresh, writable, read_only>>

(* The file is whole only if its first half is still this writer's.         *)
WriteRest(c) ==
    /\ req[c].phase = "half"
    /\ LET d == data[req[c].inode]
       IN  data' = [data EXCEPT ![req[c].inode] =
                       Part(req[c].doc,
                            IF d.doc = req[c].doc /\ d.halves = 1 THEN 2 ELSE 1)]
    /\ Moves(c, "written")
    /\ UNCHANGED <<directory, tmp, past, issued, fresh, writable, read_only>>

(* The disk is full or fails under the write.  sync_all waits for the write *)
(* and drops its error, so to the store the file has been written.          *)
WriteStops(c) ==
    /\ req[c].phase = "half"
    /\ data' = [data EXCEPT ![req[c].inode].cut = TRUE]
    /\ Moves(c, "written")
    /\ UNCHANGED <<directory, tmp, past, issued, fresh, writable, read_only>>

(* write_and_sync without its sync_all.                                     *)
SyncSkipped(c) ==
    /\ req[c].phase = "written"
    /\ Moves(c, "synced")
    /\ UNCHANGED <<files, writable, read_only>>

Sync(c) ==
    /\ req[c].phase = "written"
    /\ data' = [data EXCEPT ![req[c].inode].synced = TRUE]
    /\ Moves(c, "synced")
    /\ UNCHANGED <<directory, tmp, past, issued, fresh, writable, read_only>>

SyncFails(c) ==
    /\ req[c].phase = "written"
    /\ Moves(c, "failing")
    /\ UNCHANGED <<files, writable, read_only>>

(* The store answers before its rename.                                     *)
RenameLeftOut(c) ==
    /\ req[c].phase = "synced"
    /\ Answers(c, "ok", NoDoc)
    /\ UNCHANGED <<files, writable, read_only>>

Rename(c) ==
    /\ req[c].phase = "synced"
    /\ writable
    /\ tmp[req[c].suffix] # NoFile
    /\ directory' = tmp[req[c].suffix]
    /\ past' = past \cup {directory'}
    /\ tmp' = [tmp EXCEPT ![req[c].suffix] = NoFile]
    /\ Answers(c, "ok", NoDoc)
    /\ UNCHANGED <<data, issued, fresh, writable, read_only>>

RenameFails(c) ==
    /\ req[c].phase = "synced"
    /\ Moves(c, "failing")
    /\ UNCHANGED <<files, writable, read_only>>

(* Every failure removes the temporary file, if the directory lets it, and  *)
(* reports the write as failed.                                             *)
CleanUp(c) ==
    /\ req[c].phase = "failing"
    /\ tmp' = IF writable THEN [tmp EXCEPT ![req[c].suffix] = NoFile] ELSE tmp
    /\ Answers(c, "failed", NoDoc)
    /\ UNCHANGED <<directory, past, data, issued, fresh, writable, read_only>>

-----------------------------------------------------------------------------

Respond(c) ==
    /\ req[c].phase = "answered"
    /\ req' = [req EXCEPT ![c] = NoRequest]
    /\ UNCHANGED <<files, writable, read_only>>

(* A file operation a dropped handler may leave under way.  A write that    *)
(* has begun is one for certain.                                            *)
MayBeUnderWay(c) ==
    \/ req[c].phase \in {"created", "half", "written", "synced", "failing"}
    \/ Admitted(c, "put")
    \/ Admitted(c, "delete")

(* The browser goes away and the handler is dropped where it awaits.  The   *)
(* operation under way goes on without it, and no other follows: a          *)
(* temporary file may stay behind.                                          *)
Disconnect(c) ==
    /\ req[c].phase # "idle"
    /\ ~req[c].gone
    /\ \/ req[c].phase # "half" /\ req' = [req EXCEPT ![c] = NoRequest]
       \/ MayBeUnderWay(c) /\ req' = [req EXCEPT ![c].gone = TRUE]
    /\ UNCHANGED <<files, writable, read_only>>

(* The process ends and another starts.  ConfigStore::new probes the        *)
(* directory then, and never again.                                         *)
Restart ==
    /\ req' = [c \in Conns |-> NoRequest]
    /\ read_only' = ~writable
    /\ UNCHANGED <<files, writable>>

(* The host loses power: files keep what was synced, the directory any      *)
(* state it had since it was last committed.                                *)
PowerLoss ==
    /\ directory' \in past
    /\ past' = {directory'}
    /\ data' = [i \in Inodes |-> IF data[i].synced THEN data[i] ELSE Empty]
    /\ req' = [c \in Conns |-> NoRequest]
    /\ read_only' = ~writable
    /\ UNCHANGED <<tmp, issued, fresh, writable>>

(* The file system commits its directory changes in its own time.           *)
Commit ==
    /\ past # {directory}
    /\ past' = {directory}
    /\ UNCHANGED <<directory, tmp, data, issued, fresh, writable, read_only, req>>

(* The directory is remounted, or its permissions change.                   *)
Remount ==
    /\ writable' = ~writable
    /\ UNCHANGED <<files, read_only, req>>

Init ==
    /\ \/ /\ directory = NoFile
          /\ fresh = 0
          /\ data = [i \in Inodes |-> Empty]
       \/ /\ directory = 1
          /\ fresh = 1
          /\ \E d \in Docs :
                data = [i \in Inodes |-> IF i = 1 THEN Whole(d) ELSE Empty]
    /\ tmp = [n \in Suffixes |-> NoFile]
    /\ past = {directory}
    /\ issued = 0
    /\ writable \in BOOLEAN
    /\ read_only = ~writable
    /\ req = [c \in Conns |-> NoRequest]

Store(c) ==
    \/ Create(c)
    \/ CreateFails(c)
    \/ WriteHalf(c)
    \/ WriteRest(c)
    \/ WriteStops(c)
    \/ Sync(c)
    \/ SyncFails(c)
    \/ Rename(c)
    \/ RenameFails(c)
    \/ CleanUp(c)

Handler(c) ==
    \/ Load(c)
    \/ Refuse(c)
    \/ Delete(c)
    \/ DeleteFails(c)
    \/ Store(c)
    \/ Respond(c)

Disk == Commit \/ Remount \/ PowerLoss

Next ==
    \/ \E c \in Conns : Receive(c) \/ Handler(c) \/ Disconnect(c)
    \/ Restart
    \/ Disk

Spec == Init /\ [][Next]_vars

-----------------------------------------------------------------------------
(* Properties *)

(* "A crash mid-write therefore leaves either the old document or the new   *)
(* one, never a truncated file" (config_store.rs:84): what dashboards.json  *)
(* names, or would name after a power failure, is on disk, and whole unless *)
(* it was the disk that cut it short - with other writers between their     *)
(* writes, and operations of requests that were dropped still going on.     *)
DocumentIsWhole ==
    \A i \in past \cup {directory} :
        i # NoFile => data[i].synced /\ (data[i].halves = 2 \/ data[i].cut)

(* A file that is, or may come back as, the document is never the one a     *)
(* writer still has open: what was served as a whole stays what it was.     *)
NoWriterHasTheDocument ==
    \A c \in Conns :
        req[c].phase \in {"created", "half", "written"} =>
            req[c].inode \notin past \cup {directory}

(* The store implements AtomicDocument: a request is open until its answer  *)
(* is settled, and the document is what a reader finds in the file.         *)
CallOf(r) ==
    [phase  |-> IF r.gone THEN "abandoned"
                ELSE IF r.phase \in {"idle", "answered"} THEN r.phase ELSE "open",
     op     |-> r.op,
     doc    |-> r.doc,
     answer |-> r.answer,
     body   |-> r.body]

Abstract == INSTANCE AtomicDocument WITH
    doc  <- Content(directory),
    past <- {Content(i) : i \in past},
    call <- [c \in Conns |-> CallOf(req[c])]

ImplementsAtomicDocument == Abstract!Spec
=============================================================================
