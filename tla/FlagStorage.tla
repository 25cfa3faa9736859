---------------------------- MODULE FlagStorage ----------------------------
(***************************************************************************)
(* flagd-ui: the Storage server that holds the flag document and writes it *)
(* to the file flagd watches, and its clients: dashboards that set one     *)
(* flag, and editors (the advanced page, or a client of the API) that read *)
(* the whole document and later send it back changed.                      *)
(*                                                                         *)
(* Storage handles the messages of its mailbox one at a time.  Writing the *)
(* file truncates it first; the server may be killed, or fail, in between. *)
(***************************************************************************)
EXTENDS Naturals, Sequences

CONSTANTS Flags,
          Variants,
          Editors,
          MaxSent,     \* bound on the operations sent
          MaxCrashes   \* bound on the failures of the server from outside

ASSUME FlagStorageAssumption == MaxSent \in Nat /\ MaxCrashes \in Nat

VARIABLES state,    \* the server's document; after a crash, its last one
          file,     \* the content of the file: a document, or Broken
          up,       \* whether the server runs
          mailbox,  \* messages not yet taken
          work,     \* the operation whose result is being written, if any
          view,     \* view[e]: the text editor e holds
          mode,     \* mode[e]: what editor e is doing
          sent,     \* operations sent so far
          crashes   \* failures from outside so far

vars == <<state, file, up, mailbox, work, view, mode, sent, crashes>>
clients == <<view, mode>>

Storage == INSTANCE FlagDocument WITH doc <- state, queue <- work \o mailbox

Docs == Storage!Docs
Broken == Storage!Doc("broken", Storage!NoFlags)  \* text that is not JSON
Start == {Storage!Doc("flags", m) : m \in [Flags -> Variants]}

Reads == Storage!Reads
Messages == Storage!Operations

Init ==
    /\ state \in Start
    /\ file = state
    /\ up = TRUE
    /\ mailbox = << >>
    /\ work = << >>
    /\ view = [e \in Editors |-> Broken]
    /\ mode = [e \in Editors |-> "closed"]
    /\ sent = 0
    /\ crashes = 0

-----------------------------------------------------------------------------
\* The clients.  A cast to a server that does not run is lost without notice.

Cast(m) ==
    /\ sent < MaxSent
    /\ sent' = sent + 1
    /\ mailbox' = IF up THEN Append(mailbox, m) ELSE mailbox
    /\ UNCHANGED <<state, file, up, work, crashes>>

\* Dashboard, flag_changed: the page may show a flag that is there no more.
FlagChanged(f, v) ==
    /\ Cast([op |-> "write", flag |-> f, variant |-> v])
    /\ UNCHANGED clients

\* The editor page is mounted: it asks for the document and waits.
Mount(e) ==
    /\ mode[e] = "closed"
    /\ up
    /\ Len(mailbox) < MaxSent
    /\ mailbox' = Append(mailbox, [op |-> "read", editor |-> e])
    /\ mode' = [mode EXCEPT ![e] = "reading"]
    /\ UNCHANGED <<state, file, up, work, view, sent, crashes>>

Edit(e) ==
    /\ mode[e] = "open"
    /\ \E d \in Docs \cup {Broken} : view' = [view EXCEPT ![e] = d]
    /\ UNCHANGED <<state, file, up, mailbox, work, mode, sent, crashes>>

\* Text that is not JSON is refused with a message; the page stays open.
Save(e) ==
    /\ mode[e] = "open"
    /\ view[e] # Broken
    /\ Cast([op |-> "replace", doc |-> view[e]])
    /\ UNCHANGED <<view, mode>>

Close(e) ==
    /\ mode[e] = "open"
    /\ mode' = [mode EXCEPT ![e] = "closed"]
    /\ view' = [view EXCEPT ![e] = Broken]
    /\ UNCHANGED <<state, file, up, mailbox, work, sent, crashes>>

-----------------------------------------------------------------------------
\* The server.

Take(m) == up /\ work = << >> /\ mailbox # << >> /\ m = Head(mailbox)

HandleRead ==
    \E m \in Reads :
        /\ Take(m)
        /\ mailbox' = Tail(mailbox)
        /\ view' = [view EXCEPT ![m.editor] = state]
        /\ mode' = [mode EXCEPT ![m.editor] = "open"]
        /\ UNCHANGED <<state, file, up, work, sent, crashes>>

\* The new document is computed, and File.write! has opened the file.
Handle ==
    \E m \in Messages \ Reads :
        /\ Take(m)
        /\ Storage!Applies(m, state)
        /\ mailbox' = Tail(mailbox)
        /\ work' = <<m>>
        /\ file' = Broken
        /\ UNCHANGED <<state, up, clients, sent, crashes>>

\* A mutant of Written: the document changes only when the next one is read.
WrittenToFileOnly ==
    /\ work # << >>
    /\ file' = Storage!Result(Head(work), state)
    /\ work' = << >>
    /\ UNCHANGED <<state, up, mailbox, clients, sent, crashes>>

Written ==
    /\ work # << >>
    /\ state' = Storage!Result(Head(work), state)
    /\ file' = state'
    /\ work' = << >>
    /\ UNCHANGED <<up, mailbox, clients, sent, crashes>>

\* A mutant of Stop: a page that waits for the document is not told.
StopUnnoticed ==
    /\ up' = FALSE
    /\ mailbox' = << >>
    /\ work' = << >>
    /\ UNCHANGED <<state, file, clients, sent>>

\* The server stops: its mailbox is lost and the pages that wait are closed.
Stop ==
    /\ up' = FALSE
    /\ mailbox' = << >>
    /\ work' = << >>
    /\ mode' = [e \in Editors |-> IF mode[e] = "reading" THEN "closed" ELSE mode[e]]
    /\ UNCHANGED <<state, file, view, sent>>

\* A mutant of WriteRaises: the document starts over as an empty one.
WriteStartsOver ==
    \E m \in Messages \ Reads :
        /\ Take(m)
        /\ ~Storage!Applies(m, state)
        /\ state' = Storage!Doc("flags", Storage!NoFlags)
        /\ file' = state'
        /\ mailbox' = Tail(mailbox)
        /\ UNCHANGED <<up, work, clients, sent, crashes>>

\* Map.update raises on JSON that is not an object with a map of flags.
WriteRaises ==
    \E m \in Messages \ Reads :
        /\ Take(m)
        /\ ~Storage!Applies(m, state)
        /\ Stop
        /\ UNCHANGED crashes

\* The file cannot be written, or the process is killed.
Killed ==
    /\ up
    /\ crashes < MaxCrashes
    /\ crashes' = crashes + 1
    /\ Stop

\* The supervisor starts the server again, from the file; it cannot start
\* on a file that is not JSON.
Restart ==
    /\ ~up
    /\ file # Broken
    /\ up' = TRUE
    /\ state' = file
    /\ UNCHANGED <<file, mailbox, work, clients, sent, crashes>>

Client(e) == Mount(e) \/ Edit(e) \/ Save(e) \/ Close(e)

Next ==
    \/ \E f \in Flags, v \in Variants : FlagChanged(f, v)
    \/ \E e \in Editors : Client(e)
    \/ HandleRead \/ Handle \/ Written \/ WriteRaises \/ Killed \/ Restart

Spec == Init /\ [][Next]_vars

\* A server that runs takes its messages; that it is started again is not
\* assumed.
FairSpec ==
    /\ Spec
    /\ WF_vars(HandleRead) /\ WF_vars(Handle) /\ WF_vars(Written) /\ WF_vars(WriteRaises)

-----------------------------------------------------------------------------
\* Properties.

\* Type invariant; nothing waits in the mailbox of a server that is down.
TypeOK ==
    /\ state \in Docs
    /\ file \in Docs \cup {Broken}
    /\ up \in BOOLEAN
    /\ mailbox \in Seq(Messages) /\ (up \/ mailbox = << >>)
    /\ work \in {<< >>} \cup {<<m>> : m \in Messages \ Reads}
    /\ view \in [Editors -> Docs \cup {Broken}]
    /\ mode \in [Editors -> {"closed", "reading", "open"}]
    /\ sent \in 0 .. MaxSent
    /\ crashes \in 0 .. MaxCrashes

\* Through crashes, restarts from the file and malformed documents, what
\* Storage holds is a FlagDocument: it changes only by the operations sent,
\* each at most once and in order with the reads, and a restart never changes it.
ImplementsDocument == Storage!Spec

\* Whenever the server is between two messages, flagd sees in the file what
\* the server tells its clients.
FileIsState == up /\ work = << >> => file = state

\* A page that asks for the document is answered or told that it failed.
NoPageWaitsForever == \A e \in Editors : mode[e] = "reading" ~> mode[e] # "reading"
=============================================================================
