----------------------------- MODULE Accounting -----------------------------
(***************************************************************************)
(* The accounting service: one consumer of the topic "orders" that writes  *)
(* every order to PostgreSQL through one Entity Framework context kept for *)
(* the life of the process.                                                *)
(*                                                                         *)
(* The Kafka client stores the offset of a message when it hands it over   *)
(* and commits the stored offset in the background, before or after the    *)
(* message is processed.  Nothing closes the consumer on a stop (the host  *)
(* is not running while StartListening loops), so every stop is a Crash.   *)
(***************************************************************************)
EXTENDS Naturals, Sequences, SequencesExt

CONSTANTS Orders,
          Addressed,   \* the orders that carry a shipping address
          MaxLog,      \* bound on the messages on the topic
          MaxCrashes,  \* bound on the restarts of the service
          MaxFaults    \* bound on the failures of the database

ASSUME AccountingAssumption ==
    /\ Addressed \subseteq Orders
    /\ MaxLog \in Nat
    /\ MaxCrashes \in Nat
    /\ MaxFaults \in Nat

VARIABLES log,        \* the topic: one order per message
          position,   \* messages handed over by Consume (the stored offset)
          committed,  \* the offset the broker keeps for the group
          hand,       \* the message ProcessMessage works on, if any
          known,      \* orders the context tracks an entity of
          pending,    \* pending[o]: entities of o in the context, not yet saved
          db,         \* db[o]: the tables that hold rows of o
          crashes,    \* restarts so far
          faults,     \* database failures so far
          start       \* history: the position the process started at

vars == <<log, position, committed, hand, known, pending, db, crashes, faults, start>>

Tables == {"order", "items", "shipping"}
NoRows == [o \in Orders |-> {}]
Hands == {<< >>} \cup {<<o>> : o \in Orders}

Init ==
    /\ log = << >>
    /\ position = 0
    /\ committed = 0
    /\ hand = << >>
    /\ known = {}
    /\ pending = NoRows
    /\ db = NoRows
    /\ crashes = 0
    /\ faults = 0
    /\ start = 0

-----------------------------------------------------------------------------
\* The checkout's producer; kafkaQueueProblems publishes an order again.
Publish(o) ==
    /\ Len(log) < MaxLog
    /\ log' = Append(log, o)
    /\ UNCHANGED <<position, committed, hand, known, pending, db, crashes, faults, start>>

Consume ==
    /\ hand = << >>
    /\ position < Len(log)
    /\ hand' = <<log[position + 1]>>
    /\ position' = position + 1
    /\ UNCHANGED <<log, committed, known, pending, db, crashes, faults, start>>

\* A mutant of AutoCommit: it commits the offset after the next message.
CommitAhead ==
    /\ committed < Len(log)
    /\ committed' = position + 1
    /\ UNCHANGED <<log, position, hand, known, pending, db, crashes, faults, start>>

\* The background commit of the stored offset.
AutoCommit ==
    /\ committed # position
    /\ committed' = position
    /\ UNCHANGED <<log, position, hand, known, pending, db, crashes, faults, start>>

-----------------------------------------------------------------------------
\* ProcessMessage.  Every exception is caught and logged, and the loop goes on.

\* A mutant of AlreadyTracked: the message is tried again and again.
TriedAgain(o) ==
    /\ hand = <<o>>
    /\ o \in known
    /\ UNCHANGED vars

\* Add refuses an entity whose key the context tracks already.
AlreadyTracked(o) ==
    /\ hand = <<o>>
    /\ o \in known
    /\ hand' = << >>
    /\ UNCHANGED <<log, position, committed, known, pending, db, crashes, faults, start>>

\* The order and its items are in the context when the missing address is
\* dereferenced; SaveChanges is not reached.
NoAddress(o) ==
    /\ hand = <<o>>
    /\ o \notin known
    /\ o \notin Addressed
    /\ hand' = << >>
    /\ known' = known \cup {o}
    /\ pending' = [pending EXCEPT ![o] = {"order", "items"}]
    /\ UNCHANGED <<log, position, committed, db, crashes, faults, start>>

\* A mutant of Add: it accepts an order the context tracks already.
AddAgain(o) ==
    /\ hand = <<o>>
    /\ o \in Addressed
    /\ hand' = << >>
    /\ known' = known \cup {o}
    /\ UNCHANGED <<log, position, committed, crashes, start>>

\* SaveChanges is called for o, with whatever earlier failures left pending.
Add(o) ==
    /\ hand = <<o>>
    /\ o \notin known
    /\ o \in Addressed
    /\ hand' = << >>
    /\ known' = known \cup {o}
    /\ UNCHANGED <<log, position, committed, crashes, start>>

Entities(o) == [pending EXCEPT ![o] = Tables]

\* Some pending order has rows in the database already: its INSERT breaks the
\* primary key and the transaction is rolled back.
Poisoned(batch) == \E o \in Orders : batch[o] # {} /\ db[o] # {}

\* A mutant of Insert: the shipments are left for another transaction.
InsertSome(batch) == db' = [o \in Orders |-> db[o] \cup (batch[o] \ {"shipping"})]

Insert(batch) == db' = [o \in Orders |-> db[o] \cup batch[o]]

SaveChanges(o) ==
    /\ Add(o)
    /\ ~Poisoned(Entities(o))
    /\ Insert(Entities(o))
    /\ pending' = NoRows
    /\ UNCHANGED faults

\* A mutant of SaveConflicts: every pending row the database lacks is written.
SaveTheRest(o) ==
    /\ Add(o)
    /\ Poisoned(Entities(o))
    /\ Insert(Entities(o))
    /\ pending' = Entities(o)
    /\ UNCHANGED faults

\* The entities stay in the context as added, to be tried again next time.
SaveConflicts(o) ==
    /\ Add(o)
    /\ Poisoned(Entities(o))
    /\ pending' = Entities(o)
    /\ UNCHANGED <<db, faults>>

\* A mutant of SaveFails: the context is cleared after a failure.
SaveForgets(o) ==
    /\ faults < MaxFaults
    /\ faults' = faults + 1
    /\ Add(o)
    /\ pending' = NoRows
    /\ UNCHANGED db

\* The database cannot be reached.
SaveFails(o) ==
    /\ faults < MaxFaults
    /\ faults' = faults + 1
    /\ Add(o)
    /\ pending' = Entities(o)
    /\ UNCHANGED db

\* The transaction commits but its outcome is lost.
SaveUnanswered(o) ==
    /\ faults < MaxFaults
    /\ faults' = faults + 1
    /\ Add(o)
    /\ ~Poisoned(Entities(o))
    /\ Insert(Entities(o))
    /\ pending' = Entities(o)

ProcessMessage(o) ==
    \/ AlreadyTracked(o) \/ NoAddress(o) \/ SaveChanges(o) \/ SaveConflicts(o)
    \/ SaveFails(o) \/ SaveUnanswered(o)

-----------------------------------------------------------------------------
\* The process stops and a new one starts with an empty context at the
\* committed offset.
Crash ==
    /\ crashes < MaxCrashes
    /\ crashes' = crashes + 1
    /\ position' = committed
    /\ start' = committed
    /\ hand' = << >>
    /\ known' = {}
    /\ pending' = NoRows
    /\ UNCHANGED <<log, committed, db, faults>>

Next ==
    \/ \E o \in Orders : Publish(o) \/ ProcessMessage(o)
    \/ Consume \/ AutoCommit \/ Crash

Spec == Init /\ [][Next]_vars

\* The loop of StartListening never rests while there is something to do.
FairSpec ==
    /\ Spec
    /\ WF_vars(Consume)
    /\ WF_vars(\E o \in Orders : ProcessMessage(o))
    /\ WF_vars(AutoCommit)

-----------------------------------------------------------------------------
\* Properties.

\* Type invariant; offsets are committed only for messages handed over, and
\* what the context tracks was handed over.
TypeOK ==
    /\ log \in Seq(Orders) /\ Len(log) \in 0 .. MaxLog
    /\ position \in 0 .. Len(log)
    /\ committed \in 0 .. position
    /\ hand \in Hands
    /\ known \subseteq Orders
    /\ pending \in [Orders -> SUBSET Tables]
    /\ db \in [Orders -> SUBSET Tables]
    /\ crashes \in 0 .. MaxCrashes
    /\ faults \in 0 .. MaxFaults
    /\ start \in 0 .. committed

Abstract == INSTANCE Ledger WITH published <- Range(log)

\* Whatever is redelivered, fails or stops, the tables are a Ledger: rows of
\* published orders only, each order written once, whole if it has an address.
ImplementsLedger == Abstract!Spec

\* The messages of this process that ProcessMessage is done with.
Handled == {log[i] : i \in start + 1 .. IF hand = << >> THEN position ELSE position - 1}

\* While the process lives it forgets no order it took from the topic: after
\* any number of failed saves and duplicates it is recorded or still pending.
NothingForgotten == \A o \in Handled : db[o] # {} \/ pending[o] # {}

\* Without restarts and database failures every order taken is recorded in
\* full, and an order without an address is held back or recorded without its
\* shipment; copies of an event never get in the way.
RecordedUnlessFaulty ==
    crashes = 0 /\ faults = 0 =>
        /\ ~Poisoned(pending)
        /\ \A o \in Handled \cap Addressed : db[o] = Tables

\* Once an order that is recorded already is pending again (redelivered after
\* a restart, or saved without an answer), nothing is recorded any more until
\* the process restarts, whatever arrives.
PoisonedUntilRestart ==
    [][Poisoned(pending) /\ crashes' = crashes
          => db' = db /\ Poisoned(pending)']_vars

\* No message holds the consumer up: each is taken and its offset committed.
NeverStuck == \A i \in 1 .. MaxLog : Len(log) >= i ~> committed >= i

\* ARCHITECTURE.md: accounting keeps the books of the orders.
EveryOrderRecorded == \A o \in Addressed : o \in Range(log) ~> db[o] # {}
=============================================================================
