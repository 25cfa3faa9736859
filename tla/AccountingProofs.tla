--------------------------- MODULE AccountingProofs ---------------------------
(***************************************************************************)
(* Proofs about Accounting, for any number of orders, messages, restarts   *)
(* and database failures.  TypeOK is not inductive: the tables and the     *)
(* context must hold an order whole or not at all (Whole), come from the   *)
(* topic (FromTopic) and keep what the context tracks (Kept); the          *)
(* conjunct Faultless says what more holds until the first fault.          *)
(***************************************************************************)
EXTENDS Accounting, TLAPS

Rows(o) == Abstract!Rows(o)

\* An order is in the tables, and in the context, with all its rows or none.
Whole == \A o \in Orders : pending[o] \in {{}, Rows(o)} /\ db[o] \in {{}, Rows(o)}

\* Whatever the service holds or has recorded was published.
FromTopic ==
    /\ known \subseteq Range(log)
    /\ \A o \in Orders : pending[o] # {} => o \in known
    /\ \A o \in Orders : db[o] # {} => o \in Range(log)

\* The message in hand is the last one handed over to this process.
HandIsLast == hand # << >> => start < position /\ hand[1] = log[position]

\* What the context tracks is recorded or pending, and so is every message
\* the process is done with.
Kept ==
    /\ \A o \in known : db[o] # {} \/ pending[o] # {}
    /\ \A i \in start + 1 .. position : hand = << >> \/ i < position => log[i] \in known

\* Until the first restart or database failure.
Faultless ==
    crashes = 0 /\ faults = 0 =>
        /\ \A o \in Orders : db[o] # {} => o \in known
        /\ ~Poisoned(pending)
        /\ \A o \in known \cap Addressed : db[o] = Tables

IInv == TypeOK /\ Whole /\ FromTopic /\ HandIsLast /\ Kept /\ Faultless
-----------------------------------------------------------------------------
\* Lemmas.

LEMMA RowsFacts ==
    ASSUME NEW o
    PROVE  /\ Rows(o) \subseteq Tables
           /\ Rows(o) # {}
           /\ o \in Addressed => Rows(o) = Tables
BY DEF Rows, Abstract!Rows, Tables

\* A message that is published joins those on the topic.
LEMMA RangeAppend ==
    ASSUME NEW S, NEW s \in Seq(S), NEW x \in S
    PROVE  Range(Append(s, x)) = Range(s) \cup {x}
<1>1. /\ DOMAIN s = 1 .. Len(s) /\ Len(s) \in Nat
      /\ DOMAIN Append(s, x) = 1 .. Len(s) + 1
      /\ \A i \in 1 .. Len(s) : Append(s, x)[i] = s[i]
      /\ Append(s, x)[Len(s) + 1] = x
  OBVIOUS
<1>2. ASSUME NEW y \in Range(Append(s, x)) PROVE y \in Range(s) \cup {x}
  BY <1>1, <1>2 DEF Range
<1>3. ASSUME NEW y \in Range(s) PROVE y \in Range(Append(s, x))
  BY <1>1, <1>3 DEF Range
<1>4. x \in Range(Append(s, x))
  <2>1. Len(s) + 1 \in DOMAIN Append(s, x)
    BY <1>1
  <2> QED BY <1>1, <2>1 DEF Range
<1> QED BY <1>2, <1>3, <1>4

\* Offsets are numbers; a message of the topic is an order.
LEMMA Numbers ==
    ASSUME TypeOK
    PROVE  /\ position \in Nat /\ committed \in Nat /\ start \in Nat
           /\ crashes \in Nat /\ faults \in Nat /\ Len(log) \in Nat
           /\ start =< committed /\ committed =< position /\ position =< Len(log)
           /\ Range(log) \subseteq Orders
           /\ \A i \in 1 .. position : log[i] \in Range(log)
<1>1. log \in Seq(Orders) /\ DOMAIN log = 1 .. Len(log) /\ Len(log) \in Nat
  BY DEF TypeOK
<1>2. \A i \in 1 .. Len(log) : log[i] \in Orders
  BY <1>1
<1>3. Range(log) \subseteq Orders
  BY <1>1, <1>2 DEF Range
<1>4. /\ position \in Nat /\ committed \in Nat /\ start \in Nat
      /\ start =< committed /\ committed =< position /\ position =< Len(log)
  BY <1>1 DEF TypeOK
<1>5. \A i \in 1 .. position : log[i] \in Range(log)
  BY <1>1, <1>4 DEF Range
<1>6. crashes \in Nat /\ faults \in Nat
  BY AccountingAssumption DEF TypeOK
<1> QED BY <1>1, <1>3, <1>4, <1>5, <1>6

\* The message in hand is an order of the topic.
LEMMA InHand ==
    ASSUME TypeOK, HandIsLast, NEW o, hand = <<o>>
    PROVE  /\ o \in Orders /\ o \in Range(log) /\ o = log[position]
           /\ hand # << >> /\ start < position /\ position \in 1 .. position
<1>1. hand # << >> /\ hand[1] = o
  OBVIOUS
<1>2. start < position /\ o = log[position]
  BY <1>1 DEF HandIsLast
<1>3. position \in 1 .. position
  BY <1>2, Numbers
<1> QED BY <1>1, <1>2, <1>3, Numbers

\* When the message in hand is done with, everything handed over is tracked.
LEMMA DoneWith ==
    ASSUME TypeOK, HandIsLast, Kept, NEW o, hand = <<o>>,
           hand' = << >>, o \in known', known \subseteq known',
           UNCHANGED <<log, position, start>>
    PROVE  \A i \in start' + 1 .. position' : log'[i] \in known'
<1> SUFFICES ASSUME NEW i \in start + 1 .. position PROVE log[i] \in known'
  OBVIOUS
<1>1. CASE i < position
  BY <1>1 DEF Kept
<1>2. CASE i = position
  BY <1>2, InHand
<1> QED BY <1>1, <1>2, Numbers

\* The batch SaveChanges writes holds orders whole, all of them published.
LEMMA EntitiesFacts ==
    ASSUME TypeOK, Whole, FromTopic, HandIsLast, NEW o, Add(o)
    PROVE  /\ Entities(o) \in [Orders -> SUBSET Tables]
           /\ \A p \in Orders : Entities(o)[p] \in {{}, Rows(p)}
           /\ \A p \in Orders : Entities(o)[p] # {} => p \in known \cup {o}
           /\ \A p \in known \cup {o} : pending[p] # {} \/ p = o => Entities(o)[p] # {}
           /\ Entities(o)[o] = Tables
<1>1. o \in Orders /\ pending \in [Orders -> SUBSET Tables] /\ o \in Addressed
  BY InHand DEF Add, TypeOK
<1>2. \A p \in Orders : Entities(o)[p] = IF p = o THEN Tables ELSE pending[p]
  BY <1>1 DEF Entities
<1>3. Entities(o) \in [Orders -> SUBSET Tables]
  BY <1>1 DEF Entities
<1>4. \A p \in Orders : Entities(o)[p] \in {{}, Rows(p)}
  BY <1>1, <1>2, RowsFacts DEF Whole
<1>5. \A p \in Orders : Entities(o)[p] # {} => p \in known \cup {o}
  BY <1>2 DEF FromTopic
<1>6. known \subseteq Orders
  BY DEF TypeOK
<1>7. Tables # {}
  BY DEF Tables
<1> QED BY <1>1, <1>2, <1>3, <1>4, <1>5, <1>6, <1>7
-----------------------------------------------------------------------------
\* The invariant, action by action.

LEMMA InitInv == Init => IInv
<1> SUFFICES ASSUME Init PROVE IInv
  OBVIOUS
<1>1. log = << >> /\ Len(log) = 0 /\ Range(log) = {} /\ NoRows \in [Orders -> SUBSET Tables]
  BY DEF Init, Range, NoRows
<1>2. \A o \in Orders : NoRows[o] = {}
  BY DEF NoRows
<1>3. TypeOK
  BY <1>1, AccountingAssumption DEF Init, TypeOK, Hands
<1>4. Whole /\ FromTopic /\ HandIsLast /\ Kept /\ Faultless
  BY <1>1, <1>2 DEF Init, Whole, FromTopic, HandIsLast, Kept, Faultless, Poisoned
<1> QED BY <1>3, <1>4 DEF IInv

LEMMA PublishInv == ASSUME IInv, NEW o \in Orders, Publish(o) PROVE IInv'
<1> USE DEF IInv, Publish
<1>1. log \in Seq(Orders) /\ Len(log) < MaxLog /\ Len(log') = Len(log) + 1
      /\ log' \in Seq(Orders) /\ Range(log') = Range(log) \cup {o}
      /\ \A i \in 1 .. Len(log) : log'[i] = log[i]
  BY RangeAppend DEF TypeOK
<1>2. TypeOK'
  <2>1. Len(log') \in 0 .. MaxLog /\ position \in 0 .. Len(log')
    BY <1>1, Numbers, AccountingAssumption
  <2> QED BY <1>1, <2>1 DEF TypeOK
<1>3. Whole' /\ FromTopic' /\ Faultless'
  BY <1>1 DEF Whole, FromTopic, Faultless, Poisoned
<1>4. \A i \in 1 .. position : log'[i] = log[i]
  BY <1>1, Numbers
<1>5. HandIsLast'
  BY <1>4, Numbers DEF HandIsLast
<1>6. Kept'
  BY <1>4, Numbers DEF Kept
<1> QED BY <1>2, <1>3, <1>5, <1>6

LEMMA ConsumeInv == ASSUME IInv, Consume PROVE IInv'
<1> USE DEF IInv, Consume
<1>1. log[position + 1] \in Orders /\ position + 1 \in 0 .. Len(log)
  BY Numbers DEF TypeOK
<1>2. TypeOK'
  <2>1. hand' \in Hands
    BY <1>1 DEF Hands
  <2>2. committed \in 0 .. position'
    BY Numbers
  <2> QED BY <1>1, <2>1, <2>2 DEF TypeOK
<1>3. Whole' /\ FromTopic' /\ Faultless'
  BY DEF Whole, FromTopic, Faultless, Poisoned
<1>4. HandIsLast'
  BY Numbers DEF HandIsLast
<1>5. Kept'
  BY Numbers DEF Kept
<1> QED BY <1>2, <1>3, <1>4, <1>5

LEMMA AutoCommitInv == ASSUME IInv, AutoCommit PROVE IInv'
<1> USE DEF IInv, AutoCommit
<1>1. TypeOK'
  BY Numbers DEF TypeOK
<1>2. Whole' /\ FromTopic' /\ HandIsLast' /\ Kept' /\ Faultless'
  BY DEF Whole, FromTopic, HandIsLast, Kept, Faultless, Poisoned
<1> QED BY <1>1, <1>2

LEMMA CrashInv == ASSUME IInv, Crash PROVE IInv'
<1> USE DEF IInv, Crash
<1>1. NoRows \in [Orders -> SUBSET Tables] /\ \A o \in Orders : NoRows[o] = {}
  BY DEF NoRows
<1>2. TypeOK'
  <2>1. position' \in 0 .. Len(log) /\ committed \in 0 .. position' /\ start' \in 0 .. committed
        /\ crashes' \in 0 .. MaxCrashes
    BY Numbers, AccountingAssumption
  <2> QED BY <1>1, <2>1 DEF TypeOK, Hands
<1>3. Whole' /\ FromTopic' /\ HandIsLast'
  BY <1>1 DEF Whole, FromTopic, HandIsLast
<1>4. Kept'
  BY Numbers DEF Kept
<1>5. Faultless'
  BY Numbers DEF Faultless
<1> QED BY <1>2, <1>3, <1>4, <1>5

LEMMA AlreadyTrackedInv == ASSUME IInv, NEW o, AlreadyTracked(o) PROVE IInv'
<1> USE DEF IInv, AlreadyTracked
<1>1. TypeOK'
  BY DEF TypeOK, Hands
<1>2. Whole' /\ FromTopic' /\ HandIsLast' /\ Faultless'
  BY DEF Whole, FromTopic, HandIsLast, Faultless, Poisoned
<1>3. Kept'
  BY DoneWith DEF Kept
<1> QED BY <1>1, <1>2, <1>3

LEMMA NoAddressInv == ASSUME IInv, NEW o, NoAddress(o) PROVE IInv'
<1> USE DEF IInv, NoAddress
<1>1. o \in Orders /\ o \in Range(log) /\ o \notin known /\ o \notin Addressed
  BY InHand
<1>2. Rows(o) = {"order", "items"}
  BY <1>1 DEF Rows, Abstract!Rows
<1>3. \A p \in Orders : pending'[p] = IF p = o THEN Rows(o) ELSE pending[p]
  BY <1>1, <1>2 DEF TypeOK
<1>4. TypeOK'
  BY <1>1, <1>2, RowsFacts DEF TypeOK, Hands, Tables
<1>5. Whole'
  BY <1>1, <1>3 DEF Whole
<1>6. FromTopic' /\ HandIsLast'
  BY <1>1, <1>3 DEF FromTopic, HandIsLast
<1>7. Kept'
  <2>1. \A p \in known' : db'[p] # {} \/ pending'[p] # {}
    BY <1>1, <1>3, RowsFacts DEF Kept, TypeOK
  <2> QED BY <2>1, DoneWith DEF Kept
<1>8. Faultless'
  BY <1>1, <1>3 DEF Faultless, Poisoned
<1> QED BY <1>4, <1>5, <1>6, <1>7, <1>8

\* What Add does to the variables no outcome of SaveChanges touches.
LEMMA AddFrame ==
    ASSUME IInv, NEW o, Add(o)
    PROVE  /\ o \in Orders /\ o \in Range(log) /\ o \notin known /\ o \in Addressed
           /\ known' = known \cup {o} /\ known' \subseteq Orders
           /\ HandIsLast'
           /\ \A i \in start' + 1 .. position' : log'[i] \in known'
           /\ hand' \in Hands
           /\ UNCHANGED <<log, position, committed, crashes, start>>
<1> USE DEF IInv, Add
<1>1. o \in Orders /\ o \in Range(log) /\ o \notin known /\ o \in Addressed
  BY InHand
<1>2. \A i \in start' + 1 .. position' : log'[i] \in known'
  BY DoneWith
<1>3. HandIsLast' /\ hand' \in Hands /\ known' \subseteq Orders
  BY <1>1 DEF HandIsLast, Hands, TypeOK
<1> QED BY <1>1, <1>2, <1>3

LEMMA SaveChangesInv == ASSUME IInv, NEW o, SaveChanges(o) PROVE IInv'
<1> DEFINE E == Entities(o)
<1>1. Add(o) /\ ~Poisoned(E) /\ db' = [p \in Orders |-> db[p] \cup E[p]]
      /\ pending' = NoRows /\ faults' = faults
  BY DEF SaveChanges, Insert
<1>2. /\ \A p \in Orders : E[p] \in {{}, Rows(p)} /\ E[p] \in SUBSET Tables
      /\ \A p \in Orders : E[p] # {} => p \in known \cup {o}
      /\ \A p \in known \cup {o} : pending[p] # {} \/ p = o => E[p] # {}
      /\ E[o] = Tables
  BY <1>1, EntitiesFacts DEF IInv
<1> HIDE DEF E
<1>3. \A p \in Orders : pending'[p] = {}
  BY <1>1 DEF NoRows
<1>4. \A p \in Orders : db[p] = {} \/ E[p] = {}
  BY <1>1 DEF Poisoned
<1>5. \A p \in Orders : db'[p] = db[p] \cup E[p] /\ db[p] \in SUBSET Tables
  BY <1>1 DEF IInv, TypeOK
<1>6. TypeOK'
  <2>1. pending' \in [Orders -> SUBSET Tables]
    BY <1>1 DEF NoRows
  <2>2. db' \in [Orders -> SUBSET Tables]
    BY <1>1, <1>2, <1>5
  <2> QED BY <1>1, <2>1, <2>2, AddFrame DEF IInv, TypeOK
<1>7. Whole'
  BY <1>2, <1>3, <1>4, <1>5 DEF IInv, Whole
<1>8. FromTopic'
  BY <1>1, <1>2, <1>3, <1>5, AddFrame DEF IInv, FromTopic, TypeOK
<1>9. Kept'
  <2>1. \A p \in known' : p \in Orders /\ db'[p] # {}
    BY <1>1, <1>2, <1>5, AddFrame DEF IInv, Kept, Tables
  <2> QED BY <1>1, <2>1, AddFrame DEF Kept
<1>10. Faultless'
  <2> SUFFICES ASSUME crashes = 0, faults = 0
               PROVE  /\ \A p \in Orders : db'[p] # {} => p \in known'
                      /\ ~Poisoned(pending)'
                      /\ \A p \in known' \cap Addressed : db'[p] = Tables
    BY <1>1, AddFrame DEF Faultless
  <2>1. \A p \in Orders : db'[p] # {} => p \in known'
    BY <1>1, <1>2, <1>5, AddFrame DEF IInv, Faultless
  <2>2. ~Poisoned(pending)'
    BY <1>3 DEF Poisoned
  <2>3. \A p \in known' \cap Addressed : db'[p] = Tables
    BY <1>1, <1>2, <1>5, AddFrame DEF IInv, Faultless, Tables
  <2> QED BY <2>1, <2>2, <2>3
<1> QED BY <1>1, <1>6, <1>7, <1>8, <1>9, <1>10, AddFrame DEF IInv

\* A save that leaves its batch in the context; Faultless is left to the caller.
LEMMA BatchStays ==
    ASSUME IInv, NEW o, Add(o), pending' = Entities(o),
           db' = db \/ (~Poisoned(Entities(o)) /\ Insert(Entities(o))),
           faults' \in 0 .. MaxFaults
    PROVE  TypeOK' /\ Whole' /\ FromTopic' /\ HandIsLast' /\ Kept'
<1> DEFINE E == Entities(o)
<1>1. /\ E \in [Orders -> SUBSET Tables]
      /\ \A p \in Orders : E[p] \in {{}, Rows(p)}
      /\ \A p \in Orders : E[p] # {} => p \in known \cup {o}
      /\ \A p \in known \cup {o} : pending[p] # {} \/ p = o => E[p] # {}
      /\ pending' = E
  BY EntitiesFacts DEF IInv
<1>2. \A p \in Orders : \/ db'[p] = db[p]
                         \/ ((db[p] = {} \/ E[p] = {}) /\ db'[p] = db[p] \cup E[p])
  <2>1. CASE db' = db
    <3>1. \A p \in Orders : db'[p] = db[p]
      BY <2>1
    <3> QED BY <3>1
  <2>2. CASE ~Poisoned(E) /\ Insert(E)
    <3>1. \A p \in Orders : db[p] = {} \/ E[p] = {}
      BY <2>2 DEF Poisoned
    <3>2. \A p \in Orders : db'[p] = db[p] \cup E[p]
      BY <2>2 DEF Insert
    <3> QED BY <3>1, <3>2
  <2> QED BY <2>1, <2>2
<1>3. db' \in [Orders -> SUBSET Tables]
  <2>1. CASE db' = db
    BY <2>1 DEF IInv, TypeOK
  <2>2. CASE db' = [p \in Orders |-> db[p] \cup E[p]]
    BY <1>1, <2>2 DEF IInv, TypeOK
  <2> QED BY <2>1, <2>2 DEF Insert
<1> HIDE DEF E
<1>4. TypeOK'
  BY <1>1, <1>3, AddFrame DEF IInv, TypeOK
<1>5. Whole'
  BY <1>1, <1>2 DEF IInv, Whole
<1>6. FromTopic'
  BY <1>1, <1>2, AddFrame DEF IInv, FromTopic, TypeOK
<1>7. Kept'
  <2>1. \A p \in known' : db'[p] # {} \/ pending'[p] # {}
    BY <1>1, <1>2, AddFrame DEF IInv, Kept, TypeOK
  <2> QED BY <2>1, AddFrame DEF Kept
<1> QED BY <1>4, <1>5, <1>6, <1>7, AddFrame

LEMMA SaveConflictsInv == ASSUME IInv, NEW o, SaveConflicts(o) PROVE IInv'
<1>1. Add(o) /\ Poisoned(Entities(o)) /\ pending' = Entities(o) /\ db' = db /\ faults' = faults
  BY DEF SaveConflicts
<1>2. TypeOK' /\ Whole' /\ FromTopic' /\ HandIsLast' /\ Kept'
  BY <1>1, BatchStays DEF IInv, TypeOK
<1>3. Faultless'
  <2> SUFFICES ASSUME crashes = 0, faults = 0 PROVE FALSE
    BY <1>1, AddFrame DEF Faultless
  <2>1. PICK p \in Orders : Entities(o)[p] # {} /\ db[p] # {}
    BY <1>1 DEF Poisoned
  <2>2. p # o
    BY <1>1, <2>1, AddFrame DEF IInv, Faultless
  <2>3. pending[p] # {}
    BY <2>1, <2>2 DEF Entities, IInv, TypeOK
  <2> QED BY <2>1, <2>3 DEF IInv, Faultless, Poisoned
<1> QED BY <1>2, <1>3 DEF IInv

LEMMA SaveFailsInv == ASSUME IInv, NEW o, SaveFails(o) \/ SaveUnanswered(o) PROVE IInv'
<1>1. Add(o) /\ pending' = Entities(o) /\ faults' = faults + 1 /\ faults < MaxFaults
      /\ (db' = db \/ (~Poisoned(Entities(o)) /\ Insert(Entities(o))))
  BY DEF SaveFails, SaveUnanswered
<1>2. faults \in Nat /\ faults' \in 0 .. MaxFaults /\ faults' # 0
  BY <1>1, Numbers, AccountingAssumption DEF IInv
<1>3. TypeOK' /\ Whole' /\ FromTopic' /\ HandIsLast' /\ Kept'
  BY <1>1, <1>2, BatchStays
<1>4. Faultless'
  BY <1>2 DEF Faultless
<1> QED BY <1>3, <1>4 DEF IInv

LEMMA StutterInv == ASSUME IInv, UNCHANGED vars PROVE IInv'
<1>1. TypeOK'
  BY DEF IInv, vars, TypeOK
<1>2. Whole' /\ FromTopic' /\ HandIsLast' /\ Kept' /\ Faultless'
  BY DEF IInv, vars, Whole, FromTopic, HandIsLast, Kept, Faultless, Poisoned
<1> QED BY <1>1, <1>2 DEF IInv

LEMMA NextInv == IInv /\ [Next]_vars => IInv'
<1> SUFFICES ASSUME IInv, [Next]_vars PROVE IInv'
  OBVIOUS
<1>1. CASE \E o \in Orders : Publish(o)
  BY <1>1, PublishInv
<1>2. CASE \E o \in Orders : ProcessMessage(o)
  BY <1>2, AlreadyTrackedInv, NoAddressInv, SaveChangesInv, SaveConflictsInv, SaveFailsInv
     DEF ProcessMessage
<1>3. CASE Consume
  BY <1>3, ConsumeInv
<1>4. CASE AutoCommit
  BY <1>4, AutoCommitInv
<1>5. CASE Crash
  BY <1>5, CrashInv
<1>6. CASE UNCHANGED vars
  BY <1>6, StutterInv
<1> QED BY <1>1, <1>2, <1>3, <1>4, <1>5, <1>6 DEF Next

LEMMA Invariance == Spec => []IInv
<1> QED BY InitInv, NextInv, PTL DEF Spec

-----------------------------------------------------------------------------
\* Theorems.

\* Every variable of the consumer keeps its set of values; in particular no
\* offset is ever committed for a message that was not handed over.
THEOREM TypeCorrect == Spec => []TypeOK
<1>1. IInv => TypeOK
  BY DEF IInv
<1> QED BY <1>1, Invariance, PTL

\* Whatever fails, while the process lives ProcessMessage forgets no order it
\* was given: it is in the tables or still in the context.
THEOREM NoneForgotten == Spec => []NothingForgotten
<1>1. IInv => NothingForgotten
  <2> SUFFICES ASSUME IInv, NEW o \in Handled PROVE db[o] # {} \/ pending[o] # {}
    BY DEF NothingForgotten
  <2>1. PICK i \in start + 1 .. IF hand = << >> THEN position ELSE position - 1 : o = log[i]
    BY DEF Handled
  <2>2. i \in start + 1 .. position /\ (hand = << >> \/ i < position)
    BY <2>1, Numbers DEF IInv
  <2>3. o \in known
    BY <2>1, <2>2 DEF IInv, Kept
  <2> QED BY <2>3 DEF IInv, Kept
<1> QED BY <1>1, Invariance, PTL

\* Without restarts and database failures every order taken is recorded in
\* full, however often its event is on the topic.
THEOREM AllRecorded == Spec => []RecordedUnlessFaulty
<1>1. IInv => RecordedUnlessFaulty
  <2> SUFFICES ASSUME IInv, crashes = 0, faults = 0
               PROVE  ~Poisoned(pending) /\ \A o \in Handled \cap Addressed : db[o] = Tables
    BY DEF RecordedUnlessFaulty
  <2>1. ASSUME NEW o \in Handled PROVE o \in known
    <3>1. PICK i \in start + 1 .. IF hand = << >> THEN position ELSE position - 1 : o = log[i]
      BY <2>1 DEF Handled
    <3>2. i \in start + 1 .. position /\ (hand = << >> \/ i < position)
      BY <3>1, Numbers DEF IInv
    <3> QED BY <3>1, <3>2 DEF IInv, Kept
  <2> QED BY <2>1 DEF IInv, Faultless
<1> QED BY <1>1, Invariance, PTL

\* A context that holds an order which is recorded already records nothing any
\* more until the process restarts.
THEOREM Poisoning == Spec => PoisonedUntilRestart
<1> DEFINE Stays == Poisoned(pending) /\ crashes' = crashes => db' = db /\ Poisoned(pending)'
<1>1. IInv /\ [Next]_vars => [Stays]_vars
  <2> SUFFICES ASSUME IInv, Next, Poisoned(pending), crashes' = crashes
               PROVE  db' = db /\ Poisoned(pending)'
    OBVIOUS
  <2>1. PICK p \in Orders : pending[p] # {} /\ db[p] # {}
    BY DEF Poisoned
  <2>2. ASSUME NEW o, Add(o) PROVE Entities(o)[p] # {} /\ Poisoned(Entities(o))
    <3>1. Entities(o)[p] # {}
      BY <2>1, <2>2 DEF Entities, IInv, TypeOK, Tables
    <3> QED BY <2>1, <3>1 DEF Poisoned
  <2>3. CASE \E o \in Orders : Publish(o)
    BY <2>1, <2>3 DEF Publish, Poisoned
  <2>4. CASE Consume \/ AutoCommit
    BY <2>1, <2>4 DEF Consume, AutoCommit, Poisoned
  <2>5. CASE Crash
    BY <2>5, Numbers DEF Crash, IInv
  <2>6. ASSUME NEW o \in Orders, AlreadyTracked(o) \/ NoAddress(o)
        PROVE  db' = db /\ Poisoned(pending)'
    <3>1. db' = db /\ pending'[p] # {}
      BY <2>1, <2>6 DEF AlreadyTracked, NoAddress, IInv, TypeOK
    <3> QED BY <2>1, <3>1 DEF Poisoned
  <2>7. ASSUME NEW o \in Orders,
               SaveChanges(o) \/ SaveConflicts(o) \/ SaveFails(o) \/ SaveUnanswered(o)
        PROVE  db' = db /\ Poisoned(pending)'
    <3>1. Add(o)
      BY <2>7 DEF SaveChanges, SaveConflicts, SaveFails, SaveUnanswered
    <3>2. db' = db /\ pending' = Entities(o)
      BY <2>2, <2>7, <3>1 DEF SaveChanges, SaveConflicts, SaveFails, SaveUnanswered
    <3> QED BY <2>1, <2>2, <3>1, <3>2 DEF Poisoned
  <2> QED BY <2>3, <2>4, <2>5, <2>6, <2>7 DEF Next, ProcessMessage
<1> QED BY <1>1, Invariance, PTL DEF Spec, PoisonedUntilRestart

\* The tables are a Ledger: rows of published orders only, each order written
\* at one moment and never again, whole if it has an address.
THEOREM KeepsLedger == Spec => ImplementsLedger
<1>1. Init => Abstract!Init
  BY DEF Init, Abstract!Init, NoRows, Range
<1>2. IInv /\ [Next]_vars => [Abstract!Next]_(Abstract!vars)
  <2> SUFFICES ASSUME IInv, [Next]_vars
               PROVE  Abstract!Next \/ UNCHANGED <<Range(log), db>>
    BY DEF Abstract!vars
  <2>1. ASSUME NEW o \in Orders, Publish(o) PROVE Abstract!Next
    <3>1. Range(log') = Range(log) \cup {o} /\ db' = db
      BY <2>1, RangeAppend DEF IInv, TypeOK, Publish
    <3> QED BY <3>1 DEF Abstract!Next, Abstract!Publish
  <2>2. ASSUME NEW o, Add(o), ~Poisoned(Entities(o)), Insert(Entities(o))
        PROVE  Abstract!Next
    <3> DEFINE S == {p \in Orders : Entities(o)[p] # {}}
    <3>1. \A p \in Orders : Entities(o)[p] \in {{}, Rows(p)}
      BY <2>2, EntitiesFacts DEF IInv
    <3>2. S \subseteq Range(log)
      BY <2>2, EntitiesFacts, InHand DEF IInv, FromTopic, Add
    <3>3. \A p \in S : db[p] = {}
      BY <2>2 DEF Poisoned
    <3>4. db' = [p \in Orders |-> IF p \in S THEN Abstract!Rows(p) ELSE db[p]]
      BY <2>2, <3>1, <3>3 DEF Insert, Rows
    <3>5. Range(log') = Range(log)
      BY <2>2 DEF Add
    <3> QED BY <3>2, <3>3, <3>4, <3>5 DEF Abstract!Next, Abstract!Record
  <2>3. CASE \E o \in Orders : SaveChanges(o) \/ SaveUnanswered(o)
    BY <2>2, <2>3 DEF SaveChanges, SaveUnanswered
  <2>4. CASE \E o \in Orders : AlreadyTracked(o) \/ NoAddress(o) \/ SaveConflicts(o) \/ SaveFails(o)
    BY <2>4 DEF AlreadyTracked, NoAddress, SaveConflicts, SaveFails, Add
  <2>5. CASE Consume \/ AutoCommit \/ Crash \/ UNCHANGED vars
    BY <2>5 DEF Consume, AutoCommit, Crash, vars
  <2> QED BY <2>1, <2>3, <2>4, <2>5 DEF Next, ProcessMessage
<1> QED BY <1>1, <1>2, Invariance, PTL DEF Spec, ImplementsLedger, Abstract!Spec
=============================================================================
