--------------------------- MODULE DashboardClient ---------------------------
(***************************************************************************)
(* The browser's side of the dashboard configuration, in any number of      *)
(* tabs, over the server AtomicDocument promises: how a tab loads the       *)
(* document, what the page bar, the page's source control and the layout    *)
(* editor each write, and what becomes of an edit session meanwhile         *)
(* (src/src/frontend: App.tsx, useDashboardConfiguration.ts, PageBar.tsx,   *)
(* PageConfig.tsx, GridPageEditor.tsx).                                     *)
(*                                                                         *)
(* Each control keeps its own busy flag and writes the whole document as    *)
(* it stood when it was used; requests overlap, and their answers come in   *)
(* any order or not at all.  A document is the set of the writes it builds  *)
(* on: the empty one is the preset, which is what no document means, and    *)
(* one without pages (lib/dashboard/load.ts:97), and Earlier stands for     *)
(* what was stored before.  Names, panels and sources are left out, pages   *)
(* are kept.  A migrated document is the one stored, and a window too       *)
(* narrow to edit in is one nobody edits in.                                *)
(***************************************************************************)
EXTENDS Integers, FiniteSets

CONSTANTS
    Tabs,
    Opened,     \* the URL tabs are opened at: a page's, or the root
    MaxWrites   \* how many writes one behaviour may ask for

Writes    == 1 .. MaxWrites
Earlier   == 0
Documents == SUBSET ({Earlier} \cup Writes)
Preset    == {}

Requests == Tabs \cup Writes    \* every tab loads once

None == -2      \* no page, nor a document

VARIABLES
    doc, past, call,    \* the server: see AtomicDocument
    read_only,  \* whether the server found its directory unwritable
    legible,    \* whether this build reads the document stored before, if any
    tab,        \* what each tab shows
    write       \* the writes asked for, and by which control

server == <<doc, past, call>>
given  == <<read_only, legible>>
vars   == <<server, given, tab, write>>

Server == INSTANCE AtomicDocument WITH
    Conns <- Requests, Docs <- Documents \ {Preset}, NoDoc <- Preset,
    Torn <- {None}

(* The first page of the preset, of an earlier document, and those created. *)
Pages == {Earlier} \cup Writes
Root  == -1     \* the URL that follows the page list

ASSUME WritesAssumption == MaxWrites \in Nat
ASSUME TabsAssumption == Tabs \cap Writes = {}      \* a load is no write
ASSUME OpenedAssumption == Opened \in {Earlier, Root}

Tab == [load : {"unopened", "loading", "loaded"}, document : Documents,
        notice : BOOLEAN,       \* the banner that what is shown is the preset,
                                \* for a document not read or not reached
        readOnly : BOOLEAN, at : {Root} \cup Pages,
        editing : BOOLEAN]      \* a session is open

Write == [phase : {"none", "sent", "over"}, tab : Tabs,
          op : {"create", "rename", "remove", "reset", "source", "layout"},
          page : Pages,       \* the page it was asked on
          awaited : BOOLEAN,  \* whether the control that asked is on screen
          told : BOOLEAN]     \* whether the notice was up when it did

TypeOK ==
    /\ doc \in Documents
    /\ past \subseteq Documents
    /\ call \in [Requests ->
          [phase : {"idle", "open", "answered", "abandoned"},
           op : {"get", "put", "delete"},
           doc : Documents, body : Documents,
           answer : {"none", "ok", "too-large", "read-only", "failed"}]]
    /\ given \in BOOLEAN \X BOOLEAN
    /\ tab \in [Tabs -> Tab]
    /\ write \in [Writes -> Write]

-----------------------------------------------------------------------------
(* Documents, pages and routes.                                             *)

PagesOf(d) ==
    ({Earlier} \cup {n \in d \ {Earlier} : write[n].op = "create"})
        \ {write[n].page : n \in {m \in d \ {Earlier} : write[m].op = "remove"}}

First(pages) == CHOOSE p \in pages : \A q \in pages : p <= q

(* The page on screen: the one the URL names, if the document has it.       *)
PageAt(document, at) ==
    IF at = Root THEN First(PagesOf(document))
    ELSE IF at \in PagesOf(document) THEN at ELSE None

Page(t) == PageAt(tab[t].document, tab[t].at)

Control(op) == CASE op = "source" -> "config"
                 [] op = "layout" -> "editor"
                 [] OTHER         -> "bar"

(* A control is busy while a write it started is out and it is on screen.   *)
Busy(t, control) ==
    \E n \in Writes : /\ write[n].awaited
                      /\ write[n].tab = t
                      /\ Control(write[n].op) = control

(* A tab renders next.  The editor and the source control are keyed by the  *)
(* page: on another one they, and the session, start anew.                  *)
Rendered(next, moved) == [next EXCEPT !.editing = @ /\ ~moved]

(* The source control is off screen, too, while a session is open.          *)
Unmounts(control, editing, moved) ==
    \/ moved /\ control # "bar"
    \/ editing /\ control = "config"

Renders(t, next, writes) ==
    LET moved == PageAt(next.document, next.at) # Page(t)
        shown == Rendered(next, moved)
    IN  /\ tab' = [tab EXCEPT ![t] = shown]
        /\ write' = [n \in Writes |-> [writes[n] EXCEPT !.awaited =
              @ /\ ~(/\ writes[n].tab = t
                     /\ Unmounts(Control(writes[n].op), shown.editing, moved))]]

-----------------------------------------------------------------------------
(* Loading: useDashboardConfiguration's effect and                          *)
(* loadDashboardConfiguration.                                              *)

Opens(t) ==
    /\ tab[t].load = "unopened"
    /\ Server!Invoke(t)
    /\ call'[t].op = "get"
    /\ tab' = [tab EXCEPT ![t].load = "loading"]
    /\ UNCHANGED <<given, write>>

Loads(t, document, notice, readOnly) ==
    /\ tab[t].load = "loading"
    /\ tab' = [tab EXCEPT ![t].load = "loaded", ![t].document = document,
                          ![t].notice = notice, ![t].readOnly = readOnly]
    /\ UNCHANGED <<given, write>>

Unreadable(t) == call[t].answer # "ok" \/ (Earlier \in call[t].body /\ ~legible)

(* A document that cannot be read is taken for none.                        *)
LoadedSilently(t) ==
    /\ Server!Return(t)
    /\ Loads(t, IF Unreadable(t) THEN Preset ELSE call[t].body, FALSE, read_only)

(* Every failure is the preset and a reason; nothing stored is no failure.  *)
Loaded(t) ==
    /\ Server!Return(t)
    /\ Loads(t, IF Unreadable(t) THEN Preset ELSE call[t].body,
             Unreadable(t), read_only)

(* fetch throws.                                                            *)
NotReached(t) ==
    /\ call[t].phase = "idle"
    /\ Loads(t, Preset, TRUE, FALSE)
    /\ UNCHANGED server

-----------------------------------------------------------------------------
(* Writing.  What is sent is computed from the document on screen when the  *)
(* control is used.                                                         *)

(* The controls are there even where the URL names no page.                 *)
ReadyAnywhere(t) == tab[t].load = "loaded"

Ready(t) == tab[t].load = "loaded" /\ Page(t) # None

Sends(t, op) ==
    \E n \in Writes :
        /\ write[n].phase = "none"
        /\ \A m \in 1 .. n - 1 : write[m].phase # "none"
        /\ Server!Invoke(n)
        /\ IF op = "reset" THEN call'[n].op = "delete"
                           ELSE call'[n].doc = tab[t].document \cup {n}
        /\ write' = [write EXCEPT ![n] =
              [phase |-> "sent", tab |-> t, op |-> op, page |-> Page(t),
               awaited |-> TRUE, told |-> tab[t].notice]]
        /\ UNCHANGED <<given, tab>>

(* PageBar's menu: locked by its own write and by a session, but by no      *)
(* other control's write.                                                   *)
EditsPages(t) ==
    /\ Ready(t)
    /\ ~tab[t].editing
    /\ ~tab[t].readOnly
    /\ ~Busy(t, "bar")
    /\ \E op \in {"create", "rename", "remove", "reset"} :
          /\ op = "remove" => Cardinality(PagesOf(tab[t].document)) > 1
          /\ Sends(t, op)

(* PageConfig's choose.                                                     *)
ChoosesSource(t) ==
    /\ Ready(t)
    /\ ~tab[t].editing
    /\ ~tab[t].readOnly
    /\ ~Busy(t, "config")
    /\ Sends(t, "source")

(* GridPageEditor's session.                                                *)
Session(t, editing) ==
    /\ Renders(t, [tab[t] EXCEPT !.editing = editing], write)
    /\ UNCHANGED <<server, given>>

Begins(t) ==
    /\ Ready(t)
    /\ ~tab[t].editing
    /\ Session(t, TRUE)

Discards(t) ==
    /\ tab[t].editing
    /\ ~Busy(t, "editor")
    /\ Session(t, FALSE)

Saves(t) ==
    /\ tab[t].editing
    /\ ~tab[t].readOnly
    /\ ~Busy(t, "editor")
    /\ Sends(t, "layout")

-----------------------------------------------------------------------------
(* Going to another page.                                                   *)

Goes(t, at) ==
    /\ tab[t].at # at
    /\ Renders(t, [tab[t] EXCEPT !.at = at], write)
    /\ UNCHANGED <<server, given>>

(* The tabs hold still during a session and a page write.                   *)
Selects(t) ==
    /\ tab[t].load = "loaded"
    /\ ~tab[t].editing
    /\ ~Busy(t, "bar")
    /\ \E p \in PagesOf(tab[t].document) : Goes(t, p)

(* The browser's own buttons do not: any page there has been.               *)
GoesBack(t) ==
    /\ tab[t].load = "loaded"
    /\ \E at \in {Opened, Earlier} \cup {n \in Writes : write[n].op = "create"} :
          Goes(t, at)

-----------------------------------------------------------------------------
(* An answer arrives: save or reset, and the control that waited for it.    *)

(* The neighbour a removal leaves the operator on.                          *)
Neighbour(n) ==
    LET left   == PagesOf(call[n].doc)
        before == {p \in left : p < write[n].page}
    IN  IF before = {} THEN First(left)
        ELSE CHOOSE p \in before : \A q \in before : q <= p

(* Where the page bar goes once its write is accepted.                      *)
Target(n) ==
    CASE write[n].op = "create" -> n
      [] write[n].op = "rename" -> write[n].page
      [] write[n].op = "remove" -> Neighbour(n)
      [] write[n].op = "reset"  -> Earlier
      [] OTHER                  -> tab[write[n].tab].at

(* The editor closes whatever became of the save.                           *)
ClosesAnyway(n, saved) == write[n].op = "layout" /\ write[n].awaited

(* A save that was accepted ends the session of the editor that asked.      *)
Closes(n, saved) == saved /\ write[n].op = "layout" /\ write[n].awaited

(* The document is shown whether or not the server took it.                 *)
SettlesShowing(n, saved, readOnly) ==
    LET t == write[n].tab
    IN  /\ Renders(t, [tab[t] EXCEPT !.readOnly = readOnly,
                                     !.document = call[n].doc],
                   [write EXCEPT ![n].phase = "over", ![n].awaited = FALSE])
        /\ UNCHANGED given

Settles(n, saved, readOnly) ==
    LET t    == write[n].tab
        told == [tab[t] EXCEPT !.readOnly = readOnly,
                               !.editing = @ /\ ~Closes(n, saved)]
        next == IF saved
                THEN [told EXCEPT !.document = call[n].doc, !.notice = FALSE,
                                  !.at = Target(n)]
                ELSE told
    IN  /\ Renders(t, next,
                   [write EXCEPT ![n].phase = "over", ![n].awaited = FALSE])
        /\ UNCHANGED given

Answered(n) ==
    /\ write[n].phase = "sent"
    /\ Server!Return(n)
    /\ Settles(n, call[n].answer = "ok", read_only)

(* fetch throws: the write may have taken effect all the same, or may yet.  *)
Unanswered(n) ==
    /\ write[n].phase = "sent"
    /\ call[n].phase \in {"idle", "abandoned"}
    /\ Settles(n, FALSE, FALSE)
    /\ UNCHANGED server

-----------------------------------------------------------------------------
(* The server and the network.  The directory is never committed, the power *)
(* does not fail and the disk does not fill up, so past is every document   *)
(* the server has held.  To the client a document too large is another that *)
(* was not taken.                                                           *)

Serves ==
    /\ \E c \in Requests :
          \/ Server!Abandon(c) \/ Server!Lapse(c)
          \/ Server!Apply(c) /\ (read_only => call[c].op = "get")
          \/ /\ Server!Decline(c)
             /\ call'[c].answer = IF read_only /\ call[c].op # "get"
                                 THEN "read-only" ELSE "failed"
    /\ UNCHANGED <<given, tab, write>>

Init ==
    /\ doc \in {Preset, {Earlier}}
    /\ past = {doc}
    /\ call = [c \in Requests |-> Server!NoCall]
    /\ read_only \in BOOLEAN
    /\ legible \in BOOLEAN
    /\ doc = Preset => legible
    /\ tab = [t \in Tabs |->
                [load |-> "unopened", document |-> Preset, notice |-> FALSE,
                 readOnly |-> FALSE, at |-> Opened, editing |-> FALSE]]
    /\ \E t \in Tabs :
         write = [n \in Writes |->
                    [phase |-> "none", tab |-> t, op |-> "rename", page |-> Earlier,
                     awaited |-> FALSE, told |-> FALSE]]

Operator(t) ==
    \/ Opens(t)
    \/ EditsPages(t)
    \/ ChoosesSource(t)
    \/ Begins(t)
    \/ Discards(t)
    \/ Saves(t)
    \/ Selects(t)
    \/ GoesBack(t)

Browser ==
    \/ \E t \in Tabs : Loaded(t) \/ NotReached(t)
    \/ \E n \in Writes : Answered(n) \/ Unanswered(n)

Next ==
    \/ \E t \in Tabs : Operator(t)
    \/ Browser
    \/ Serves

Spec == Init /\ [][Next]_vars

-----------------------------------------------------------------------------
(* Properties *)

(* "The operator has to know their layout is not the one being shown"       *)
(* (lib/dashboard/load.ts:7): what a tab shows without a notice is a        *)
(* document the server has held - neither one it refused nor the preset in  *)
(* place of one that could not be read, though answers are lost, overtaken  *)
(* or come for controls that have gone.                                     *)
ShownWasStored ==
    \A t \in Tabs :
        tab[t].load = "loaded" /\ ~tab[t].notice => tab[t].document \in past

(* A document somebody stored is not replaced by one that leaves it out,    *)
(* unless by a reset or by an operator who was told that what they edited   *)
(* was not it - whatever else is under way in this tab and in others.       *)
NothingIsReplacedUntold ==
    [][(Earlier \in doc /\ Earlier \notin doc' /\ \A d \in past : Earlier \in d)
          => \E n \in Writes : /\ call[n].phase # call'[n].phase
                               /\ write[n].op = "reset" \/ write[n].told]_vars

(* "A save the server did not take leaves the session open"                 *)
(* (GridPageEditor.tsx:193): while its page stays on screen, a session ends *)
(* by being discarded or with its layout stored.                            *)
SessionOutlivesFailure ==
    [][\A t \in Tabs :
          tab[t].editing /\ ~tab'[t].editing /\ Page(t)' = Page(t)
             => \/ Discards(t)
                \/ \E n \in Writes : /\ write[n].op = "layout"
                                     /\ write[n].tab = t
                                     /\ write[n].phase # write'[n].phase
                                     /\ call[n].doc \in past]_vars

=============================================================================
