--------------------------- MODULE AtomicDocument ---------------------------
(***************************************************************************)
(* What the dashboard configuration API promises (src/README.md, "Writes   *)
(* are atomic, and last write wins"; src/src/config_store.rs): one         *)
(* document, or none.  A request takes effect at one moment between the    *)
(* call and its answer, or not at all; an answer of success means it did,  *)
(* any other that it did not; a caller that got no answer cannot know, and *)
(* what it asked for may still happen once it has gone.                    *)
(* Success means the write took effect, not that it is on the platter: a   *)
(* power failure may bring back a document that was the current one since  *)
(* the file system last committed the directory.  The one exception to all *)
(* of this is a disk that fills up or fails under a write (Tear).          *)
(***************************************************************************)
CONSTANTS
    Conns, Docs, NoDoc,
    Torn    \* what is left of a document the disk had no room for

VARIABLES
    doc,    \* the current document, or NoDoc
    past,   \* what a power failure may leave as the document
    call    \* per connection, the request it carries

vars == <<doc, past, call>>

Values == Docs \cup {NoDoc}

NoCall == [phase |-> "idle", op |-> "get", doc |-> NoDoc,
           answer |-> "none", body |-> NoDoc]

Init ==
    /\ doc \in Values
    /\ past = {doc}
    /\ call = [c \in Conns |-> NoCall]

Invoke(c) ==
    /\ call[c].phase = "idle"
    /\ \E op \in {"get", "put", "delete"}, d \in Values :
         /\ op = "put" <=> d # NoDoc
         /\ call' = [call EXCEPT ![c] =
                        [NoCall EXCEPT !.phase = "open", !.op = op, !.doc = d]]
    /\ UNCHANGED <<doc, past>>

Answer(c, answer, body) ==
    call' = [call EXCEPT ![c].phase = "answered", ![c].answer = answer,
                         ![c].body = body]

(* The request is over, with nobody left to answer.                         *)
Forget(c) == call' = [call EXCEPT ![c] = NoCall]

(* The moment a request takes effect.                                       *)
Read(c) ==
    /\ call[c].phase = "open"
    /\ call[c].op = "get"
    /\ Answer(c, "ok", doc)
    /\ UNCHANGED <<doc, past>>

Replace(c, value) ==
    /\ call[c].op # "get"
    /\ \/ call[c].phase = "open" /\ Answer(c, "ok", NoDoc)
       \/ call[c].phase = "abandoned" /\ Forget(c)
    /\ doc' = value
    /\ past' = past \cup {value}

Apply(c) == Read(c) \/ Replace(c, call[c].doc)

(* The disk keeps a part of the document only, and nobody notices.          *)
Tear(c) ==
    /\ call[c].op = "put"
    /\ Replace(c, Torn)

(* A refusal or a failure, which leaves the document as it was.             *)
Decline(c) ==
    /\ call[c].phase = "open"
    /\ \E answer \in {"too-large", "read-only", "failed"} :
         Answer(c, answer, NoDoc)
    /\ UNCHANGED <<doc, past>>

Return(c) ==
    /\ call[c].phase = "answered"
    /\ Forget(c)
    /\ UNCHANGED <<doc, past>>

(* The caller goes away without an answer, and what it asked for may be     *)
(* under way.                                                               *)
Abandon(c) ==
    /\ call[c].phase \in {"open", "answered"}
    /\ \/ Forget(c)
       \/ /\ call[c].phase = "open"
          /\ call[c].op # "get"
          /\ call' = [call EXCEPT ![c].phase = "abandoned"]
    /\ UNCHANGED <<doc, past>>

(* What an absent caller asked for does not happen any more.                *)
Lapse(c) ==
    /\ call[c].phase = "abandoned"
    /\ Forget(c)
    /\ UNCHANGED <<doc, past>>

(* The server goes away, and every caller gets no answer.                   *)
Crash ==
    /\ call' = [c \in Conns |-> NoCall]
    /\ UNCHANGED <<doc, past>>

Commit ==
    /\ past' = {doc}
    /\ UNCHANGED <<doc, call>>

PowerLoss ==
    /\ doc' \in past
    /\ past' = {doc'}
    /\ call' = [c \in Conns |-> NoCall]

Next ==
    \/ \E c \in Conns :
          \/ Invoke(c) \/ Apply(c) \/ Tear(c) \/ Decline(c) \/ Return(c)
          \/ Abandon(c) \/ Lapse(c)
    \/ Crash
    \/ Commit
    \/ PowerLoss

Spec == Init /\ [][Next]_vars
=============================================================================
