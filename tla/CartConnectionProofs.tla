------------------------ MODULE CartConnectionProofs ------------------------
(***************************************************************************)
(* Theorems about CartConnection, for any calls and any number of          *)
(* failures: its type invariant, with the lock and its holder, and that    *)
(* one multiplexer is made for one failure.                                *)
(*                                                                         *)
(* The second is not inductive by itself.  What makes it so is that a      *)
(* lowered flag stands for a failure no multiplexer was made for yet,      *)
(* except while the call that makes one is between Connect and Open.       *)
(***************************************************************************)
EXTENDS CartConnection, TLAPS

\* At most one call is between Lock and Leave.
OneHolder == \A c, d \in lock : c = d

Making == \E c \in Calls : pc[c] \in {"test", "subscribe", "open"}

\* A failure is left to make a multiplexer for.
OneIsDue ==
    /\ ~ opened /\ ~ Making => made <= causes
    /\ (\E c \in Calls : pc[c] = "connect") => made <= causes

\* The call that makes a multiplexer finds it in the field.
Stored == \A c \in Calls : pc[c] \in {"test", "subscribe"} => redis \in Multiplexers

IInv == TypeOK /\ Stored /\ OneHolder /\ OneIsDue /\ OneThreadConnects

LEMMA InitHolds == Init => IInv
<1> SUFFICES ASSUME Init PROVE IInv
  OBVIOUS
<1>1. TypeOK
  BY CartConnectionAssumption DEF Init, TypeOK, PCs, Multiplexers
<1>2. \A c \in Calls : pc[c] = "new"
  BY DEF Init
<1>3. made <= 1 + causes /\ (~ opened => made <= causes)
  <2>1. CASE host = "valkey"
    <3>1. opened /\ made = 1
      BY <2>1 DEF Init
    <3> QED
      BY <3>1 DEF Init
  <2>2. CASE host = "badhost"
    BY <2>2 DEF Init
  <2> QED
    BY <2>1, <2>2 DEF Init
<1> QED
  BY <1>1, <1>2, <1>3 DEF Init, IInv, Stored, OneHolder, OneIsDue, OneThreadConnects

LEMMA CheckStep == ASSUME IInv, NEW c \in Calls, Check(c) PROVE IInv'
<1>1. TypeOK'
  BY CartConnectionAssumption DEF IInv, TypeOK, Check, Go, Leave, PCs, network, Multiplexers
<1>2. OneHolder'
  BY DEF IInv, OneHolder, Check, Leave
<1>3. OneIsDue'
  BY DEF IInv, TypeOK, OneHolder, OneIsDue, OneThreadConnects, Making, Check, Go
<1>4. OneThreadConnects'
  BY DEF IInv, TypeOK, OneIsDue, OneThreadConnects, Check
<1>5. Stored'
  BY DEF IInv, TypeOK, OneHolder, Stored, Check, Go, network, Multiplexers
<1> QED
  BY <1>1, <1>2, <1>3, <1>4, <1>5 DEF IInv

LEMMA LockStep == ASSUME IInv, NEW c \in Calls, Lock(c) PROVE IInv'
<1>1. TypeOK'
  BY CartConnectionAssumption DEF IInv, TypeOK, Lock, Go, Leave, PCs, network, Multiplexers
<1>2. OneHolder'
  BY DEF IInv, OneHolder, Lock, Leave
<1>3. OneIsDue'
  BY DEF IInv, TypeOK, OneHolder, OneIsDue, OneThreadConnects, Making, Lock, Go
<1>4. OneThreadConnects'
  BY DEF IInv, TypeOK, OneIsDue, OneThreadConnects, Lock
<1>5. Stored'
  BY DEF IInv, TypeOK, OneHolder, Stored, Lock, Go, network, Multiplexers
<1> QED
  BY <1>1, <1>2, <1>3, <1>4, <1>5 DEF IInv

LEMMA RecheckStep == ASSUME IInv, NEW c \in Calls, Recheck(c) PROVE IInv'
<1>1. TypeOK'
  BY CartConnectionAssumption DEF IInv, TypeOK, Recheck, Go, Leave, PCs, network, Multiplexers
<1>2. OneHolder'
  BY DEF IInv, OneHolder, Recheck, Leave
<1>3. OneIsDue'
  BY DEF IInv, TypeOK, OneHolder, OneIsDue, OneThreadConnects, Making, Recheck, Go
<1>4. OneThreadConnects'
  BY DEF IInv, TypeOK, OneIsDue, OneThreadConnects, Recheck
<1>5. Stored'
  BY DEF IInv, TypeOK, OneHolder, Stored, Recheck, Go, network, Multiplexers
<1> QED
  BY <1>1, <1>2, <1>3, <1>4, <1>5 DEF IInv

LEMMA ConnectStep == ASSUME IInv, NEW c \in Calls, Connect(c) PROVE IInv'
<1>1. TypeOK'
  BY CartConnectionAssumption DEF IInv, TypeOK, Connect, Attempt, Go, Leave, PCs, network, Multiplexers
<1>2. OneHolder'
  BY DEF IInv, OneHolder, Connect, Leave
<1>3. OneIsDue'
  BY DEF IInv, TypeOK, OneHolder, OneIsDue, OneThreadConnects, Making, Connect, Go
<1>4. OneThreadConnects'
  BY DEF IInv, TypeOK, OneIsDue, OneThreadConnects, Connect
<1>5. Stored'
  BY DEF IInv, TypeOK, OneHolder, Stored, Connect, Attempt, Go, network, Multiplexers
<1> QED
  BY <1>1, <1>2, <1>3, <1>4, <1>5 DEF IInv

LEMMA TestStep == ASSUME IInv, NEW c \in Calls, Test(c) PROVE IInv'
<1>1. TypeOK'
  BY CartConnectionAssumption DEF IInv, TypeOK, Test, Go, Leave, PCs, network, Multiplexers
<1>2. OneHolder'
  BY DEF IInv, OneHolder, Test, Leave
<1>3. OneIsDue'
  BY DEF IInv, TypeOK, OneHolder, OneIsDue, OneThreadConnects, Making, Test, Go
<1>4. OneThreadConnects'
  BY DEF IInv, TypeOK, OneIsDue, OneThreadConnects, Test
<1>5. Stored'
  BY DEF IInv, TypeOK, OneHolder, Stored, Test, Go, network, Multiplexers
<1> QED
  BY <1>1, <1>2, <1>3, <1>4, <1>5 DEF IInv

LEMMA TestFailsStep == ASSUME IInv, NEW c \in Calls, TestFails(c) PROVE IInv'
<1>1. TypeOK'
  BY CartConnectionAssumption DEF IInv, TypeOK, TestFails, Go, Leave, PCs, network, Multiplexers
<1>2. OneHolder'
  BY DEF IInv, OneHolder, TestFails, Leave
<1>3. OneIsDue'
  BY DEF IInv, TypeOK, OneHolder, OneIsDue, OneThreadConnects, Making, TestFails, Go
<1>4. OneThreadConnects'
  BY DEF IInv, TypeOK, OneIsDue, OneThreadConnects, TestFails
<1>5. Stored'
  BY DEF IInv, TypeOK, OneHolder, Stored, TestFails, Go, network, Multiplexers
<1> QED
  BY <1>1, <1>2, <1>3, <1>4, <1>5 DEF IInv

LEMMA SubscribeStep == ASSUME IInv, NEW c \in Calls, Subscribe(c) PROVE IInv'
<1>1. TypeOK'
  <2>1. hooked' \subseteq Multiplexers /\ made' = made
    BY DEF IInv, TypeOK, Stored, Subscribe
  <2>2. events' \subseteq {"failed", "restored"} \X hooked' \X (0 .. MaxDrops)
    BY DEF IInv, TypeOK, Subscribe
  <2>3. /\ pc' \in [Calls -> PCs]
        /\ lock' = {d \in Calls : pc'[d] \in {"recheck", "connect", "test", "subscribe", "open"}}
    BY DEF IInv, TypeOK, Subscribe, Go, PCs
  <2> QED
    BY <2>1, <2>2, <2>3 DEF IInv, TypeOK, Subscribe, Multiplexers
<1>2. OneHolder'
  BY DEF IInv, OneHolder, Subscribe, Leave
<1>3. OneIsDue'
  BY DEF IInv, TypeOK, OneHolder, OneIsDue, OneThreadConnects, Making, Subscribe, Go
<1>4. OneThreadConnects'
  BY DEF IInv, TypeOK, OneIsDue, OneThreadConnects, Subscribe
<1>5. Stored'
  BY DEF IInv, TypeOK, OneHolder, Stored, Subscribe, Go, network, Multiplexers
<1> QED
  BY <1>1, <1>2, <1>3, <1>4, <1>5 DEF IInv

LEMMA OpenStep == ASSUME IInv, NEW c \in Calls, Open(c) PROVE IInv'
<1>1. TypeOK'
  BY CartConnectionAssumption DEF IInv, TypeOK, Open, Go, Leave, PCs, network, Multiplexers
<1>2. OneHolder'
  BY DEF IInv, OneHolder, Open, Leave
<1>3. OneIsDue'
  BY DEF IInv, TypeOK, OneHolder, OneIsDue, OneThreadConnects, Making, Open, Go
<1>4. OneThreadConnects'
  BY DEF IInv, TypeOK, OneIsDue, OneThreadConnects, Open
<1>5. Stored'
  BY DEF IInv, TypeOK, OneHolder, Stored, Open, Go, network, Multiplexers
<1> QED
  BY <1>1, <1>2, <1>3, <1>4, <1>5 DEF IInv

LEMMA UseStep == ASSUME IInv, NEW c \in Calls, Use(c) PROVE IInv'
<1>1. TypeOK'
  BY CartConnectionAssumption DEF IInv, TypeOK, Use, Go, Leave, PCs, network, Multiplexers
<1>2. OneHolder'
  BY DEF IInv, OneHolder, Use, Leave
<1>3. OneIsDue'
  BY DEF IInv, TypeOK, OneHolder, OneIsDue, OneThreadConnects, Making, Use, Go
<1>4. OneThreadConnects'
  BY DEF IInv, TypeOK, OneIsDue, OneThreadConnects, Use
<1>5. Stored'
  BY DEF IInv, TypeOK, OneHolder, Stored, Use, Go, network, Multiplexers
<1> QED
  BY <1>1, <1>2, <1>3, <1>4, <1>5 DEF IInv

LEMMA DropStep == ASSUME IInv, NEW i, i \in Multiplexers, Drop(i) PROVE IInv'
<1>1. drops' \in 0 .. MaxDrops /\ hooked' = hooked /\ live' \subseteq Multiplexers
  BY CartConnectionAssumption DEF IInv, TypeOK, Drop
<1>2. events' \subseteq events \cup {<<"failed", j, drops'>> : j \in hooked}
  BY DEF Drop, Raise
<1>3. events' \subseteq {"failed", "restored"} \X hooked' \X (0 .. MaxDrops)
  BY <1>1, <1>2 DEF IInv, TypeOK
<1>4. TypeOK'
  BY <1>1, <1>3 DEF IInv, TypeOK, Drop, Multiplexers
<1> QED
  BY <1>4 DEF IInv, TypeOK, Stored, OneHolder, OneIsDue, OneThreadConnects, Making, Drop, Multiplexers

LEMMA ReconnectStep == ASSUME IInv, NEW i, i \in Multiplexers, Reconnect(i) PROVE IInv'
<1>1. drops' \in 0 .. MaxDrops /\ hooked' = hooked /\ live' \subseteq Multiplexers
  BY CartConnectionAssumption DEF IInv, TypeOK, Reconnect
<1>2. events' \subseteq events \cup {<<"restored", j, drops'>> : j \in hooked}
  BY DEF Reconnect, Raise
<1>3. events' \subseteq {"failed", "restored"} \X hooked' \X (0 .. MaxDrops)
  BY <1>1, <1>2 DEF IInv, TypeOK
<1>4. TypeOK'
  BY <1>1, <1>3 DEF IInv, TypeOK, Reconnect, Multiplexers
<1> QED
  BY <1>4 DEF IInv, TypeOK, Stored, OneHolder, OneIsDue, OneThreadConnects, Making, Reconnect, Multiplexers

LEMMA ConnectionFailedStep == ASSUME IInv, NEW e, e \in events, ConnectionFailed(e) PROVE IInv'
<1>1. events' \subseteq events /\ causes' \in Nat
  BY DEF IInv, TypeOK, ConnectionFailed
<1>2. TypeOK'
  BY <1>1 DEF IInv, TypeOK, ConnectionFailed, Multiplexers
<1> QED
  BY <1>2 DEF IInv, TypeOK, Stored, OneHolder, OneIsDue, OneThreadConnects, Making, ConnectionFailed, Multiplexers

LEMMA ConnectionRestoredStep == ASSUME IInv, NEW e, e \in events, ConnectionRestored(e) PROVE IInv'
<1>1. events' \subseteq events /\ causes' \in Nat
  BY DEF IInv, TypeOK, ConnectionRestored
<1>2. TypeOK'
  BY <1>1 DEF IInv, TypeOK, ConnectionRestored, Multiplexers
<1> QED
  BY <1>2 DEF IInv, TypeOK, Stored, OneHolder, OneIsDue, OneThreadConnects, Making, ConnectionRestored, Multiplexers

LEMMA StepHolds == ASSUME IInv, [Next]_vars PROVE IInv'
<1>1. ASSUME NEW c \in Calls, Call(c) PROVE IInv'
  BY <1>1, CheckStep, LockStep, RecheckStep, ConnectStep, TestStep, TestFailsStep,
     SubscribeStep, OpenStep, UseStep DEF Call, EnsureRedisConnected
<1>2. ASSUME NEW i \in Multiplexers, Drop(i) \/ Reconnect(i) PROVE IInv'
  BY <1>2, DropStep, ReconnectStep
<1>3. ASSUME Handler PROVE IInv'
  BY <1>3, ConnectionFailedStep, ConnectionRestoredStep DEF Handler
<1>4. CASE UNCHANGED vars
  BY <1>4 DEF vars, network, IInv, TypeOK, Stored, OneHolder, OneIsDue, OneThreadConnects,
              Making, Multiplexers
<1> QED
  BY <1>1, <1>2, <1>3, <1>4 DEF Next

LEMMA Invariance == Spec => []IInv
<1> QED
  BY InitHolds, StepHolds, PTL DEF Spec

\* Every variable keeps its set of values, and the lock is held by the calls
\* between Lock and Leave and by no others (EnsureRedisConnected).
THEOREM TypeCorrect == Spec => []TypeOK
<1>1. IInv => TypeOK
  BY DEF IInv
<1> QED
  BY <1>1, Invariance, PTL

\* However many calls find the connection closed, and in whatever order events
\* of old and new multiplexers arrive, one multiplexer is made for a failure.
THEOREM OneConnects == Spec => []OneThreadConnects
<1>1. IInv => OneThreadConnects
  BY DEF IInv
<1> QED
  BY <1>1, Invariance, PTL
=============================================================================
