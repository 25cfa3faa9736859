-------------------------- MODULE FlagStorageProofs --------------------------
\* Proofs about FlagStorage: the type invariant, that the file flagd watches is
\* what the server tells its clients, and that Storage implements FlagDocument.
EXTENDS FlagStorage, TLAPS

\* The document an operation leaves is a document.
LEMMA ResultIsDoc ==
  ASSUME NEW m \in Messages \ Reads, NEW d \in Docs
  PROVE  Storage!Result(m, d) \in Docs
  <1> USE DEF Docs, Storage!Docs, Storage!Doc, Storage!NoFlags
  <1>1. CASE m.op = "replace"
    BY <1>1 DEF Messages, Reads, Storage!Operations, Storage!Reads, Storage!Result
  <1>2. CASE m.op = "write"
    <2>1. m.flag \in Flags /\ m.variant \in Variants
      BY <1>2 DEF Messages, Reads, Storage!Operations, Storage!Reads
    <2>2. CASE m.flag \in DOMAIN d.flags
      <3>1. PICK S \in SUBSET Flags : d.shape = "flags" /\ d.flags \in [S -> Variants]
        BY <2>2
      <3>2. [d.flags EXCEPT ![m.flag] = m.variant] \in [S -> Variants]
        BY <2>1, <3>1
      <3>3. d = [shape |-> "flags", flags |-> d.flags]
        BY <3>1
      <3>4. Storage!Result(m, d) = [shape |-> "flags", flags |-> [d.flags EXCEPT ![m.flag] = m.variant]]
        BY <1>2, <2>2, <3>3 DEF Storage!Result
      <3> QED BY <3>2, <3>4
    <2>3. CASE m.flag \notin DOMAIN d.flags
      <3>1. Storage!Result(m, d) = [shape |-> "flags", flags |-> d.flags]
        BY <1>2, <2>3 DEF Storage!Result
      <3>2. d.flags \in UNION {[S -> Variants] : S \in SUBSET Flags}
        <4>1. [f \in {} |-> f] \in [{} -> Variants]
          OBVIOUS
        <4>2. d.flags = [f \in {} |-> f] \/ \E S \in SUBSET Flags : d.flags \in [S -> Variants]
          OBVIOUS
        <4>3. {} \in SUBSET Flags
          OBVIOUS
        <4> QED BY <4>1, <4>2, <4>3
      <3> QED BY <3>1, <3>2
    <2> QED BY <2>2, <2>3
  <1> QED BY <1>1, <1>2 DEF Messages, Reads, Storage!Operations, Storage!Reads

LEMMA StartIsDoc == Start \subseteq Docs
  BY DEF Start, Docs, Storage!Docs, Storage!Doc

LEMMA InitType == Init => TypeOK /\ FileIsState
  BY StartIsDoc, FlagStorageAssumption DEF Init, TypeOK, FileIsState, Messages

\* A cast leaves a mailbox of messages, and one of a dead server empty.
LEMMA CastType ==
  ASSUME TypeOK, NEW m \in Messages, Cast(m), UNCHANGED <<view, mode>>
  PROVE  TypeOK' /\ (FileIsState => FileIsState')
  <1>1. mailbox' \in Seq(Messages) /\ (up \/ mailbox' = << >>)
    BY DEF Cast, TypeOK
  <1>2. sent' \in 0 .. MaxSent
    BY FlagStorageAssumption DEF Cast, TypeOK
  <1> QED BY <1>1, <1>2 DEF Cast, TypeOK, FileIsState

LEMMA ClientType ==
  ASSUME TypeOK, FileIsState, NEW e \in Editors, Client(e)
  PROVE  TypeOK' /\ FileIsState'
  <1>1. CASE Mount(e)
    <2>1. [op |-> "read", editor |-> e] \in Messages
      BY DEF Messages, Reads, Storage!Operations, Storage!Reads
    <2>2. mailbox' \in Seq(Messages)
      BY <1>1, <2>1 DEF Mount, TypeOK
    <2> QED BY <1>1, <2>2 DEF Mount, TypeOK, FileIsState
  <1>2. CASE Edit(e)
    BY <1>2 DEF Edit, TypeOK, FileIsState
  <1>3. CASE Save(e)
    <2>1. view[e] \in Docs
      BY <1>3 DEF Save, TypeOK
    <2>2. [op |-> "replace", doc |-> view[e]] \in Messages
      BY <2>1 DEF Messages, Docs, Storage!Operations
    <2> QED BY <1>3, <2>2, CastType DEF Save
  <1>4. CASE Close(e)
    BY <1>4 DEF Close, TypeOK, FileIsState
  <1> QED BY <1>1, <1>2, <1>3, <1>4 DEF Client

\* What a server that takes its first message finds.
LEMMA TakeFacts ==
  ASSUME TypeOK, NEW m, Take(m)
  PROVE  m \in Messages /\ Tail(mailbox) \in Seq(Messages) /\ up /\ work = << >>
  <1>1. mailbox \in Seq(Messages) /\ mailbox # << >>
    BY DEF Take, TypeOK
  <1>2. Head(mailbox) \in Messages /\ Tail(mailbox) \in Seq(Messages)
    BY ONLY <1>1
  <1> QED BY <1>2 DEF Take

LEMMA StopType ==
  ASSUME TypeOK, Stop, crashes' \in 0 .. MaxCrashes
  PROVE  TypeOK' /\ FileIsState'
  <1>1. << >> \in Seq(Messages)
    OBVIOUS
  <1>2. mode' \in [Editors -> {"closed", "reading", "open"}]
    BY DEF Stop, TypeOK
  <1> QED BY <1>1, <1>2 DEF Stop, TypeOK, FileIsState

LEMMA ServerType ==
  ASSUME TypeOK, FileIsState,
         HandleRead \/ Handle \/ Written \/ WriteRaises \/ Killed \/ Restart
  PROVE  TypeOK' /\ FileIsState'
  <1>1. CASE HandleRead
    <2>1. PICK m \in Reads :
             /\ Take(m) /\ mailbox' = Tail(mailbox)
             /\ view' = [view EXCEPT ![m.editor] = state]
             /\ mode' = [mode EXCEPT ![m.editor] = "open"]
             /\ UNCHANGED <<state, file, up, work, sent, crashes>>
      BY <1>1 DEF HandleRead
    <2>2. mailbox' \in Seq(Messages) /\ up
      BY <2>1, TakeFacts
    <2> QED BY <2>1, <2>2 DEF TypeOK, FileIsState
  <1>2. CASE Handle
    <2>1. PICK m \in Messages \ Reads :
             /\ Take(m) /\ mailbox' = Tail(mailbox) /\ work' = <<m>> /\ file' = Broken
             /\ UNCHANGED <<state, up, clients, sent, crashes>>
      BY <1>2 DEF Handle
    <2>2. mailbox' \in Seq(Messages) /\ up
      BY <2>1, TakeFacts
    <2> QED BY <2>1, <2>2 DEF TypeOK, FileIsState, clients
  <1>3. CASE Written
    <2>1. PICK m \in Messages \ Reads : work = <<m>>
      BY <1>3 DEF Written, TypeOK
    <2>2. state' \in Docs /\ file' = state' /\ work' = << >>
      BY <1>3, <2>1, ResultIsDoc DEF Written, TypeOK
    <2> QED BY <1>3, <2>2 DEF Written, TypeOK, FileIsState, clients
  <1>4. CASE WriteRaises
    BY <1>4, StopType DEF WriteRaises, TypeOK
  <1>5. CASE Killed
    <2>1. crashes' \in 0 .. MaxCrashes
      BY <1>5, FlagStorageAssumption DEF Killed, TypeOK
    <2> QED BY <1>5, <2>1, StopType DEF Killed
  <1>6. CASE Restart
    BY <1>6 DEF Restart, TypeOK, FileIsState, clients
  <1> QED BY <1>1, <1>2, <1>3, <1>4, <1>5, <1>6

LEMMA NextType == TypeOK /\ FileIsState /\ [Next]_vars => TypeOK' /\ FileIsState'
  <1> SUFFICES ASSUME TypeOK, FileIsState, [Next]_vars PROVE TypeOK' /\ FileIsState'
    OBVIOUS
  <1>1. ASSUME NEW f \in Flags, NEW v \in Variants, FlagChanged(f, v) PROVE TypeOK' /\ FileIsState'
    <2>1. [op |-> "write", flag |-> f, variant |-> v] \in Messages
      BY DEF Messages, Storage!Operations
    <2> QED BY <1>1, <2>1, CastType DEF FlagChanged, clients
  <1>2. CASE UNCHANGED vars
    BY <1>2 DEF vars, TypeOK, FileIsState
  <1> QED BY <1>1, <1>2, ClientType, ServerType DEF Next

\* For any flags, variants, editors, crashes and malformed documents, every
\* variable keeps its set of values, and nothing waits for a server that is down.
THEOREM TypeCorrect == Spec => []TypeOK
  <1> QED BY InitType, NextType, PTL DEF Spec

\* Between two messages the file holds what the server tells its clients.
THEOREM FileShowsState == Spec => []FileIsState
  <1> QED BY InitType, NextType, PTL DEF Spec

-----------------------------------------------------------------------------
\* What restarts and writes rely on: an operation is being written only by a
\* server that runs and only if it applies, and whatever is not being written is
\* in the file, which a stopped server may have left broken.
Writing ==
  /\ work # << >> => up /\ file = Broken /\ Storage!Applies(work[1], state)
  /\ file \in {state, Broken}

DInv == TypeOK /\ FileIsState /\ Writing

\* The queue of FlagDocument.
Queue == work \o mailbox

\* Whoever sends an operation adds it to the end of the queue, or to nothing.
LEMMA AppendQueues ==
  ASSUME DInv, NEW m \in Messages, mailbox' = Append(mailbox, m), work' = work
  PROVE  Queue' = Append(Queue, m)
  <1>1. mailbox \in Seq(Messages)
    BY DEF DInv, TypeOK
  <1>2. work = << >> \/ \E w \in Messages : work = <<w>>
    BY DEF DInv, TypeOK
  <1>3. \A w \in Messages : <<w>> \in Seq(Messages)
    OBVIOUS
  <1>4. << >> \in Seq(Messages)
    OBVIOUS
  <1>5. work \in Seq(Messages)
    BY <1>2, <1>3, <1>4
  <1> QED BY <1>1, <1>5 DEF Queue

LEMMA CastRefines ==
  ASSUME DInv, NEW m \in Messages, Cast(m)
  PROVE  [Storage!Next]_(Storage!vars) /\ Writing'
  <1>1. CASE up
    <2>1. Queue' = Append(Queue, m)
      BY <1>1, AppendQueues DEF Cast
    <2>2. Storage!Send(m)
      BY <2>1 DEF Storage!Send, Cast, Queue
    <2> QED BY <2>2 DEF Storage!Next, Messages, Cast, DInv, Writing
  <1>2. CASE ~up
    BY <1>2 DEF Cast, Storage!vars, DInv, Writing
  <1> QED BY <1>1, <1>2

\* Whoever leaves the document and the queue alone stutters.
LEMMA ElseStutters ==
  ASSUME DInv, UNCHANGED <<state, file, up, work, mailbox>>
  PROVE  UNCHANGED Storage!vars /\ Writing'
  BY DEF Storage!vars, DInv, Writing

LEMMA ClientRefines ==
  ASSUME DInv, NEW e \in Editors, Client(e)
  PROVE  [Storage!Next]_(Storage!vars) /\ Writing'
  <1>1. CASE Mount(e)
    <2> DEFINE m == [op |-> "read", editor |-> e]
    <2>1. m \in Messages
      BY DEF Messages, Storage!Operations, Storage!Reads
    <2>2. Queue' = Append(Queue, m)
      BY <1>1, <2>1, AppendQueues DEF Mount
    <2>3. Storage!Send(m)
      BY <1>1, <2>2 DEF Storage!Send, Mount, Queue
    <2> QED BY <1>1, <2>1, <2>3 DEF Storage!Next, Messages, Mount, DInv, Writing
  <1>2. CASE Edit(e) \/ Close(e)
    BY <1>2, ElseStutters DEF Edit, Close
  <1>3. CASE Save(e)
    <2>1. [op |-> "replace", doc |-> view[e]] \in Messages
      BY <1>3 DEF Save, DInv, TypeOK, Messages, Docs, Storage!Operations
    <2> QED BY <1>3, <2>1, CastRefines DEF Save
  <1> QED BY <1>1, <1>2, <1>3 DEF Client

\* A server that stops loses the queue and leaves its document.
LEMMA StopRefines ==
  ASSUME DInv, Stop
  PROVE  [Storage!Next]_(Storage!vars) /\ Writing'
  <1>1. Storage!Lose
    BY DEF Stop, Storage!Lose
  <1> QED BY <1>1 DEF Storage!Next, Stop, DInv, Writing

LEMMA ServerRefines ==
  ASSUME DInv, HandleRead \/ Handle \/ Written \/ WriteRaises \/ Killed \/ Restart
  PROVE  [Storage!Next]_(Storage!vars) /\ Writing'
  <1>1. CASE HandleRead
    <2>1. PICK m \in Reads : Take(m) /\ mailbox' = Tail(mailbox) /\ UNCHANGED <<state, file, up, work>>
      BY <1>1 DEF HandleRead
    <2>2. mailbox \in Seq(Messages) /\ mailbox # << >> /\ work = << >> /\ Head(mailbox) = m
      BY <2>1 DEF DInv, TypeOK, Take
    <2>3. Queue = mailbox /\ Queue' = Tail(mailbox)
      BY <2>1, <2>2 DEF Queue
    <2>4. Storage!Applies(m, state) /\ Storage!Result(m, state) = state
      BY <2>1 DEF Reads, Storage!Reads, Storage!Applies, Storage!Result
    <2>5. Storage!Apply
      BY <2>1, <2>2, <2>3, <2>4 DEF Queue, Storage!Apply
    <2> QED BY <2>1, <2>5 DEF Storage!Next, DInv, Writing
  <1>2. CASE Handle
    <2>1. PICK m \in Messages \ Reads :
             /\ Take(m) /\ Storage!Applies(m, state) /\ mailbox' = Tail(mailbox)
             /\ work' = <<m>> /\ file' = Broken /\ UNCHANGED <<state, up>>
      BY <1>2 DEF Handle
    <2>2. mailbox \in Seq(Messages) /\ mailbox # << >> /\ work = << >> /\ Head(mailbox) = m /\ up
      BY <2>1 DEF DInv, TypeOK, Take
    <2>3. <<m>> \o Tail(mailbox) = mailbox
      BY ONLY <2>2
    <2>4. << >> \o mailbox = mailbox
      BY ONLY <2>2
    <2>5. Queue' = Queue
      BY <2>1, <2>2, <2>3, <2>4 DEF Queue
    <2> QED BY <2>1, <2>2, <2>5 DEF Queue, Storage!vars, Writing
  <1>3. CASE Written
    <2>1. PICK m \in Messages \ Reads : work = <<m>>
      BY <1>3 DEF Written, DInv, TypeOK
    <2>2. mailbox \in Seq(Messages)
      BY DEF DInv, TypeOK
    <2>3. /\ Queue # << >> /\ Head(Queue) = m /\ Tail(Queue) = mailbox
          /\ << >> \o mailbox = mailbox
      BY <2>1, <2>2 DEF Queue
    <2>4. Head(work) = m /\ work[1] = m
      BY <2>1
    <2>5. Queue' = mailbox
      BY <1>3, <2>3 DEF Written, Queue
    <2>6. Storage!Apply
      BY <1>3, <2>1, <2>3, <2>4, <2>5 DEF Written, Queue, Storage!Apply, DInv, Writing
    <2> QED BY <1>3, <2>6 DEF Storage!Next, Written, Writing
  <1>4. CASE WriteRaises \/ Killed
    BY <1>4, StopRefines DEF WriteRaises, Killed
  <1>5. CASE Restart
    BY <1>5 DEF Restart, Storage!vars, DInv, TypeOK, Writing
  <1> QED BY <1>1, <1>2, <1>3, <1>4, <1>5

LEMMA InitRefines == Init => Storage!Init /\ DInv
  BY InitType, StartIsDoc DEF Init, Storage!Init, Docs, DInv, Writing

LEMMA NextRefines == DInv /\ [Next]_vars => [Storage!Next]_(Storage!vars) /\ DInv'
  <1> SUFFICES ASSUME DInv, [Next]_vars PROVE [Storage!Next]_(Storage!vars) /\ Writing'
    BY NextType DEF DInv
  <1>1. ASSUME NEW f \in Flags, NEW v \in Variants, FlagChanged(f, v)
        PROVE  [Storage!Next]_(Storage!vars) /\ Writing'
    <2>1. [op |-> "write", flag |-> f, variant |-> v] \in Messages
      BY DEF Messages, Storage!Operations
    <2> QED BY <1>1, <2>1, CastRefines DEF FlagChanged
  <1>2. CASE UNCHANGED vars
    BY <1>2, ElseStutters DEF vars
  <1>3. ASSUME NEW e \in Editors, Client(e) PROVE [Storage!Next]_(Storage!vars) /\ Writing'
    BY <1>3, ClientRefines
  <1>4. CASE HandleRead \/ Handle \/ Written \/ WriteRaises \/ Killed \/ Restart
    BY <1>4, ServerRefines
  <1> QED BY <1>1, <1>2, <1>3, <1>4 DEF Next

\* For any flags, variants, editors, failures, restarts and malformed documents:
\* what Storage holds is the document of FlagDocument, changed by the operations
\* sent, in their order and each at most once.
THEOREM KeepsDocument == Spec => ImplementsDocument
  <1> QED BY InitRefines, NextRefines, PTL DEF Spec, ImplementsDocument, Storage!Spec
==============================================================================
