------------------------ MODULE OrderProducerProofs ------------------------
(***************************************************************************)
(* Theorems about OrderProducer, for any orders, any overload and any      *)
(* capacity: its type invariant, and that shared answers add up.  For the  *)
(* latter to be inductive, the goroutines of an order must not have begun  *)
(* before its handler is done, or starting them would hide one that waits. *)
(***************************************************************************)
EXTENDS OrderProducer, FiniteSetTheorems, TLAPS

\* The goroutines of an order start when its handler is done with the answer.
CopiesIdle ==
    \A r \in Orders : pc[Own(r)] # "ended" => \A k \in Copies(r) : pc[k] = "idle"

\* No more errors are logged or unread than messages failed.
ErrorsCounted == Cardinality(errors) + logged <= failed

IInv == TypeOK /\ CopiesIdle /\ ErrorsCounted /\ AnswersAddUp

LEMMA MessagesFinite == IsFiniteSet(Messages)
<1>1. IsFiniteSet(0 .. Overload)
  BY FS_Interval, OrderProducerAssumption
<1> QED
  BY <1>1, FS_Product, OrderProducerAssumption DEF Messages

\* What one message more or less does to a finite set.
LEMMA OneMore ==
    ASSUME NEW S, NEW T, NEW x, IsFiniteSet(S), x \notin S, T = S \cup {x}
    PROVE  Cardinality(T) = Cardinality(S) + 1
BY FS_AddElement

LEMMA OneLess ==
    ASSUME NEW S, NEW T, NEW x, IsFiniteSet(S), x \in S, T = S \ {x}
    PROVE  Cardinality(T) = Cardinality(S) - 1
BY FS_RemoveElement

\* The sets of the invariant are finite, so their sizes are numbers.
LEMMA Sizes ==
    ASSUME TypeOK
    PROVE  /\ IsFiniteSet(Waiting) /\ Cardinality(Waiting) \in Nat
           /\ IsFiniteSet(inside) /\ Cardinality(inside) \in Nat
           /\ IsFiniteSet(successes) /\ Cardinality(successes) \in Nat
           /\ IsFiniteSet(errors) /\ Cardinality(errors) \in Nat
<1>1. /\ Waiting \in SUBSET Messages /\ inside \in SUBSET Messages
      /\ successes \in SUBSET Messages /\ errors \in SUBSET Messages
  BY DEF TypeOK, Waiting
<1>2. ASSUME NEW S \in SUBSET Messages PROVE IsFiniteSet(S) /\ Cardinality(S) \in Nat
  BY MessagesFinite, FS_Subset, FS_CardinalityType
<1> QED
  BY <1>1, <1>2

LEMMA InitHolds == Init => IInv
<1> SUFFICES ASSUME Init PROVE IInv
  OBVIOUS
<1>1. TypeOK
  BY OrderProducerAssumption DEF Init, TypeOK
<1>2. Waiting = {}
  BY DEF Init, Waiting
<1>3. CopiesIdle
  BY DEF Init, CopiesIdle, Copies, Messages
<1> QED
  BY <1>1, <1>2, <1>3, FS_EmptySet DEF Init, IInv, ErrorsCounted, AnswersAddUp

LEMMA OwnFacts ==
    ASSUME NEW r \in Orders
    PROVE  /\ Own(r) \in Messages
           /\ Copies(r) \subseteq Messages
           /\ \A q \in Orders : Own(r) \notin Copies(q) /\ (Own(r) = Own(q) => r = q)
           /\ \A q \in Orders \ {r} : Copies(r) \cap Copies(q) = {}
BY OrderProducerAssumption DEF Own, Copies, Messages

\* A sender m that waited ends; others may start.
LEMMA OneWaitsLess ==
    ASSUME TypeOK, NEW m \in Messages, pc[m] = "wait", pc'[m] = "ended",
           \A k \in Messages \ {m} : pc'[k] = pc[k] \/ (pc'[k] = "offer" /\ pc[k] # "wait")
    PROVE  Cardinality(Waiting') = Cardinality(Waiting) - 1
<1>1. Waiting' = Waiting \ {m} /\ m \in Waiting
  BY DEF Waiting
<1> QED
  BY <1>1, OneLess, Sizes

\* The handler of r goes on: one sender waits less, and no message of the
\* producer belongs to a goroutine that starts now.
LEMMA HandlerGoesOn ==
    ASSUME IInv, NEW r \in Orders, Continue(r)
    PROVE  /\ pc' \in [Messages -> {"idle", "offer", "wait", "ended"}]
           /\ \A m \in inside \cup successes \cup errors : pc'[m] \in {"wait", "ended"}
           /\ CopiesIdle'
           /\ Cardinality(Waiting') = Cardinality(Waiting) - 1
<1>1. \A k \in Copies(r) : pc[k] = "idle"
  BY DEF Continue, IInv, CopiesIdle
<1>2. /\ pc' \in [Messages -> {"idle", "offer", "wait", "ended"}]
      /\ pc'[Own(r)] = "ended" /\ pc[Own(r)] = "wait"
      /\ \A k \in Messages \ {Own(r)} :
             pc'[k] = pc[k] \/ (k \in Copies(r) /\ pc'[k] = "offer")
  BY OwnFacts DEF Continue, IInv, TypeOK
<1>3. \A m \in inside \cup successes \cup errors : pc'[m] \in {"wait", "ended"}
  BY <1>1, <1>2 DEF IInv, TypeOK
<1>4. CopiesIdle'
  <2> SUFFICES ASSUME NEW q \in Orders, pc'[Own(q)] # "ended", NEW k \in Copies(q)
               PROVE  pc'[k] = "idle"
    BY DEF CopiesIdle
  <2>1. q # r /\ Own(q) # Own(r) /\ Own(q) \in Messages /\ Own(q) \notin Copies(r)
    BY <1>2, OwnFacts
  <2>2. k \in Messages /\ k # Own(r) /\ k \notin Copies(r)
    BY <2>1, OwnFacts
  <2>3. pc[Own(q)] # "ended"
    BY <1>2, <2>1
  <2> QED
    BY <1>2, <2>2, <2>3 DEF IInv, CopiesIdle
<1>5. Cardinality(Waiting') = Cardinality(Waiting) - 1
  <2>1. \A k \in Messages \ {Own(r)} : pc'[k] = pc[k] \/ (pc'[k] = "offer" /\ pc[k] # "wait")
    BY <1>1, <1>2
  <2> QED
    BY <1>2, <2>1, OwnFacts, OneWaitsLess DEF IInv
<1> QED
  BY <1>2, <1>3, <1>4, <1>5

LEMMA OfferStep == ASSUME IInv, NEW r \in Orders, Offer(r) PROVE IInv'
<1>1. Own(r) \in Messages /\ pc'[Own(r)] = "offer" /\ pc[Own(r)] = "idle"
  BY OwnFacts DEF Offer, IInv, TypeOK
<1>2. TypeOK'
  BY <1>1 DEF Offer, IInv, TypeOK
<1>3. Waiting' = Waiting
  BY <1>1 DEF Offer, Waiting, IInv, TypeOK
<1>4. CopiesIdle'
  BY <1>1, OwnFacts DEF Offer, IInv, TypeOK, CopiesIdle
<1> QED
  BY <1>2, <1>3, <1>4 DEF Offer, IInv, ErrorsCounted, AnswersAddUp

LEMMA NotSentStep == ASSUME IInv, NEW r \in Orders, NotSent(r) PROVE IInv'
<1>1. Own(r) \in Messages /\ pc'[Own(r)] = "ended" /\ pc[Own(r)] = "offer"
  BY OwnFacts DEF NotSent, IInv, TypeOK
<1>2. TypeOK'
  BY <1>1 DEF NotSent, IInv, TypeOK
<1>3. Waiting' = Waiting
  BY <1>1 DEF NotSent, Waiting, IInv, TypeOK
<1>4. CopiesIdle'
  BY <1>1, OwnFacts DEF NotSent, IInv, TypeOK, CopiesIdle
<1> QED
  BY <1>2, <1>3, <1>4 DEF NotSent, IInv, ErrorsCounted, AnswersAddUp

LEMMA AcceptStep == ASSUME IInv, NEW m \in Messages, Accept(m) PROVE IInv'
<1>1. /\ pc[m] = "offer" /\ pc'[m] = "wait"
      /\ m \notin inside \cup successes \cup errors
  BY DEF Accept, IInv, TypeOK
<1>2. TypeOK'
  BY <1>1 DEF Accept, IInv, TypeOK
<1>3. Waiting' = Waiting \cup {m} /\ m \notin Waiting
  BY <1>1 DEF Accept, Waiting, IInv, TypeOK
<1>4. Cardinality(Waiting') = Cardinality(Waiting) + 1
  BY <1>3, OneMore, Sizes DEF IInv
<1>5. Cardinality(inside') = Cardinality(inside) + 1
  BY <1>1, OneMore, Sizes DEF Accept, IInv
<1>6. CopiesIdle'
  BY <1>1, OwnFacts DEF Accept, IInv, TypeOK, CopiesIdle
<1> QED
  BY <1>2, <1>4, <1>5, <1>6, Sizes DEF Accept, IInv, ErrorsCounted, AnswersAddUp, TypeOK

LEMMA TakeSuccessStep ==
    ASSUME IInv, NEW r \in Orders, NEW a \in Messages, TakeSuccess(r, a) PROVE IInv'
<1>1. TypeOK' /\ CopiesIdle' /\ Cardinality(Waiting') = Cardinality(Waiting) - 1
  BY HandlerGoesOn DEF TakeSuccess, IInv, TypeOK
<1>2. Cardinality(successes') = Cardinality(successes) - 1
  BY OneLess, Sizes DEF TakeSuccess, IInv
<1> QED
  BY <1>1, <1>2, Sizes DEF TakeSuccess, IInv, ErrorsCounted, AnswersAddUp, TypeOK

LEMMA TakeErrorStep ==
    ASSUME IInv, NEW r \in Orders, NEW a \in Messages, TakeError(r, a) PROVE IInv'
<1>1. TypeOK' /\ CopiesIdle' /\ Cardinality(Waiting') = Cardinality(Waiting) - 1
  BY HandlerGoesOn DEF TakeError, IInv, TypeOK
<1>2. Cardinality(errors') = Cardinality(errors) - 1
  BY OneLess, Sizes DEF TakeError, IInv
<1>3. AnswersAddUp'
  BY <1>1, <1>2, Sizes DEF TakeError, IInv, AnswersAddUp, TypeOK
<1>4. ErrorsCounted'
  BY <1>2, Sizes DEF TakeError, IInv, ErrorsCounted, TypeOK
<1> QED
  BY <1>1, <1>3, <1>4 DEF IInv

LEMMA AbandonStep == ASSUME IInv, NEW r \in Orders, Abandon(r) PROVE IInv'
<1>1. TypeOK' /\ CopiesIdle' /\ Cardinality(Waiting') = Cardinality(Waiting) - 1
  BY HandlerGoesOn DEF Abandon, IInv, TypeOK
<1>2. AnswersAddUp'
  BY <1>1, Sizes DEF Abandon, IInv, AnswersAddUp, TypeOK
<1> QED
  BY <1>1, <1>2 DEF Abandon, IInv, ErrorsCounted

LEMMA CopyEndsStep ==
    ASSUME IInv, NEW m \in Messages, NEW a \in Messages, CopyEnds(m, a) PROVE IInv'
<1>1. /\ pc[m] = "wait" /\ pc'[m] = "ended"
      /\ \A k \in Messages \ {m} : pc'[k] = pc[k]
  BY DEF CopyEnds, IInv, TypeOK
<1>2. TypeOK'
  BY <1>1 DEF CopyEnds, IInv, TypeOK
<1>3. Cardinality(Waiting') = Cardinality(Waiting) - 1
  BY <1>1, OneWaitsLess DEF IInv
<1>4. Cardinality(successes') = Cardinality(successes) - 1
  BY OneLess, Sizes DEF CopyEnds, IInv
<1>5. CopiesIdle'
  <2> SUFFICES ASSUME NEW q \in Orders, pc'[Own(q)] # "ended", NEW k \in Copies(q)
               PROVE  pc'[k] = "idle"
    BY DEF CopiesIdle
  <2>1. Own(q) \in Messages /\ Own(q) # m /\ k \in Messages
    BY OwnFacts DEF CopyEnds
  <2>2. pc[k] = "idle"
    BY <1>1, <2>1 DEF IInv, CopiesIdle
  <2> QED
    BY <1>1, <2>1, <2>2
<1> QED
  BY <1>2, <1>3, <1>4, <1>5, Sizes DEF CopyEnds, IInv, ErrorsCounted, AnswersAddUp, TypeOK

LEMMA LogErrorStep == ASSUME IInv, NEW a \in Messages, LogError(a) PROVE IInv'
<1>1. Cardinality(errors') = Cardinality(errors) - 1 /\ Cardinality(errors') \in Nat
  <2>1. errors' = errors \ {a} /\ a \in errors /\ errors' \in SUBSET Messages
    BY DEF LogError, IInv, TypeOK
  <2> QED
    BY <2>1, OneLess, Sizes, MessagesFinite, FS_Subset, FS_CardinalityType DEF IInv
<1>2. Waiting' = Waiting
  BY DEF LogError, Waiting
<1>3. TypeOK' /\ ErrorsCounted'
  BY <1>1, Sizes DEF LogError, IInv, TypeOK, ErrorsCounted
<1>4. AnswersAddUp'
  BY <1>1, <1>2, Sizes DEF LogError, IInv, TypeOK, AnswersAddUp
<1> QED
  BY <1>3, <1>4 DEF LogError, IInv, CopiesIdle

LEMMA SucceedStep == ASSUME IInv, NEW m \in Messages, Succeed(m) PROVE IInv'
<1>1. Cardinality(inside') = Cardinality(inside) - 1
  BY OneLess, Sizes DEF Succeed, IInv
<1>2. Cardinality(successes') = Cardinality(successes) + 1
  BY OneMore, Sizes DEF Succeed, IInv, TypeOK
<1>3. TypeOK'
  BY DEF Succeed, IInv, TypeOK
<1>4. AnswersAddUp'
  BY <1>1, <1>2, Sizes DEF Succeed, IInv, TypeOK, AnswersAddUp, Waiting
<1> QED
  BY <1>3, <1>4 DEF Succeed, IInv, ErrorsCounted, CopiesIdle

LEMMA FailStep == ASSUME IInv, NEW m \in Messages, Fail(m) PROVE IInv'
<1>1. Cardinality(inside') = Cardinality(inside) - 1
  BY OneLess, Sizes DEF Fail, IInv
<1>2. Cardinality(errors') = Cardinality(errors) + 1
  BY OneMore, Sizes DEF Fail, IInv, TypeOK
<1>3. TypeOK'
  BY OrderProducerAssumption DEF Fail, IInv, TypeOK
<1>4. AnswersAddUp' /\ ErrorsCounted'
  BY <1>1, <1>2, Sizes DEF Fail, IInv, TypeOK, AnswersAddUp, ErrorsCounted, Waiting
<1> QED
  BY <1>3, <1>4 DEF Fail, IInv, CopiesIdle

LEMMA StepHolds == ASSUME IInv, [Next]_vars PROVE IInv'
<1>1. ASSUME NEW r \in Orders, Offer(r) \/ NotSent(r) \/ Takes(r) \/ Abandon(r) PROVE IInv'
  BY <1>1, OfferStep, NotSentStep, TakeSuccessStep, TakeErrorStep, AbandonStep DEF Takes
<1>2. ASSUME NEW m \in Messages, NEW a \in Messages, CopyEnds(m, a) \/ LogError(a) PROVE IInv'
  BY <1>2, CopyEndsStep, LogErrorStep
<1>3. ASSUME NEW m \in Messages, Accept(m) \/ Answers(m) PROVE IInv'
  BY <1>3, AcceptStep, SucceedStep, FailStep DEF Answers
<1>4. CASE UNCHANGED vars
  BY <1>4 DEF vars, IInv, TypeOK, CopiesIdle, ErrorsCounted, AnswersAddUp, Waiting
<1> QED
  BY <1>1, <1>2, <1>3, <1>4 DEF Next

LEMMA Invariance == Spec => []IInv
<1> QED
  BY InitHolds, StepHolds, PTL DEF Spec

\* Every variable keeps its set of values, and a message is in one place of
\* the producer (sendToPostProcessor and the goroutines it starts).
THEOREM TypeCorrect == Spec => []TypeOK
<1>1. IInv => TypeOK
  BY DEF IInv
<1> QED
  BY <1>1, Invariance, PTL

\* Whoever takes whose answer on the shared channels, senders that wait or
\* gave up match the answers due, unread or logged, one for one.
THEOREM AddUp == Spec => []AnswersAddUp
<1>1. IInv => AnswersAddUp
  BY DEF IInv
<1> QED
  BY <1>1, Invariance, PTL

\* Nobody waits in vain while no error was logged: as long as a handler or
\* an overloading goroutine waits, an answer is due or unread.
THEOREM AnswerIsDue ==
    Spec => [](Waiting # {} /\ logged = 0 => inside \cup successes \cup errors # {})
<1>1. IInv => (Waiting # {} /\ logged = 0 => inside \cup successes \cup errors # {})
  <2> SUFFICES ASSUME IInv, Waiting # {}, logged = 0, inside \cup successes \cup errors = {}
               PROVE  FALSE
    OBVIOUS
  <2>1. Cardinality(Waiting) # 0
    BY Sizes, FS_EmptySet DEF IInv
  <2>2. Cardinality(Waiting) + abandoned = 0
    BY FS_EmptySet DEF IInv, AnswersAddUp
  <2> QED
    BY <2>1, <2>2, Sizes DEF IInv, TypeOK
<1> QED
  BY <1>1, Invariance, PTL
=============================================================================
