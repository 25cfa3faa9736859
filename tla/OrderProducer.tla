--------------------------- MODULE OrderProducer ---------------------------
(***************************************************************************)
(* The Kafka producer of the checkout process and everyone who uses it:    *)
(* the PlaceOrder handlers, the goroutines that overload the topic, and    *)
(* the goroutine that logs errors.  All of them share one input and two    *)
(* answer channels, and an answer goes to whoever takes it first.          *)
(* Checkout has this as one call that is answered or given up.             *)
(*                                                                         *)
(* The producer has room for some messages.  One it has written keeps its  *)
(* place until its success is taken; errors are always taken.              *)
(***************************************************************************)
EXTENDS Naturals, FiniteSets

CONSTANTS Orders,     \* the orders to publish, one handler each
          Overload,   \* value of the flag kafkaQueueProblems when it is on
          Capacity,   \* messages the producer has room for
          MaxFailed   \* bound on the messages that fail

ASSUME OrderProducerAssumption ==
    /\ IsFiniteSet(Orders)
    /\ Overload \in Nat
    /\ Capacity \in Nat \ {0}
    /\ MaxFailed \in Nat

VARIABLES pc,         \* pc[m]: where the goroutine that sends m is
          inside,     \* messages the producer took and has not answered
          successes,  \* the messages on the channel Successes
          errors,     \* the messages on the channel Errors
          failed,     \* messages that failed so far
          abandoned,  \* history: handlers that gave up waiting for an answer
          logged      \* history: errors the logging goroutine took

vars == <<pc, inside, successes, errors, failed, abandoned, logged>>

\* Message <<r, 0>> is sent by the handler of order r, <<r, i>> by its i-th
\* overloading goroutine.
Messages == Orders \X (0 .. Overload)
Own(r) == <<r, 0>>
Copies(r) == {r} \X (1 .. Overload)

Init ==
    /\ pc = [m \in Messages |-> "idle"]
    /\ inside = {}
    /\ successes = {}
    /\ errors = {}
    /\ failed = 0
    /\ abandoned = 0
    /\ logged = 0

-----------------------------------------------------------------------------
\* The handler reaches sendToPostProcessor and offers its message.
Offer(r) ==
    /\ pc[Own(r)] = "idle"
    /\ pc' = [pc EXCEPT ![Own(r)] = "offer"]
    /\ UNCHANGED <<inside, successes, errors, failed, abandoned, logged>>

\* The context ends first: nothing is sent.
NotSent(r) ==
    /\ pc[Own(r)] = "offer"
    /\ pc' = [pc EXCEPT ![Own(r)] = "ended"]
    /\ UNCHANGED <<inside, successes, errors, failed, abandoned, logged>>

\* A mutant of Accept: the sender does not notice and offers again.
AcceptUnnoticed(m) ==
    /\ pc[m] = "offer"
    /\ Cardinality(inside \cup successes) < Capacity
    /\ inside' = inside \cup {m}
    /\ UNCHANGED <<pc, successes, errors, failed, abandoned, logged>>

\* Input() <- m, of a handler or of an overloading goroutine.
Accept(m) ==
    /\ pc[m] = "offer"
    /\ Cardinality(inside \cup successes) < Capacity
    /\ pc' = [pc EXCEPT ![m] = "wait"]
    /\ inside' = inside \cup {m}
    /\ UNCHANGED <<successes, errors, failed, abandoned, logged>>

\* The handler stops waiting and, when the flag is on, starts the goroutines.
Continue(r) ==
    /\ pc[Own(r)] = "wait"
    /\ \/ pc' = [pc EXCEPT ![Own(r)] = "ended"]
       \/ pc' = [m \in Messages |-> IF m = Own(r) THEN "ended"
                                    ELSE IF m \in Copies(r) THEN "offer" ELSE pc[m]]

TakeSuccess(r, a) ==
    /\ a \in successes
    /\ Continue(r)
    /\ successes' = successes \ {a}
    /\ UNCHANGED <<inside, errors, failed, abandoned, logged>>

\* A mutant of TakeError: the handler waits on for a success.
TakeErrorAndWait(r, a) ==
    /\ a \in errors
    /\ pc[Own(r)] = "wait"
    /\ errors' = errors \ {a}
    /\ UNCHANGED <<pc, inside, successes, failed, abandoned, logged>>

TakeError(r, a) ==
    /\ a \in errors
    /\ Continue(r)
    /\ errors' = errors \ {a}
    /\ UNCHANGED <<inside, successes, failed, abandoned, logged>>

\* The context ends before an answer comes.
Abandon(r) ==
    /\ Continue(r)
    /\ abandoned' = abandoned + 1
    /\ UNCHANGED <<inside, successes, errors, failed, logged>>

\* A mutant of CopyEnds: the goroutine goes without taking its success.
CopyEndsUnread(m, a) ==
    /\ a \in successes
    /\ m \notin {Own(r) : r \in Orders}
    /\ pc[m] = "wait"
    /\ pc' = [pc EXCEPT ![m] = "ended"]
    /\ UNCHANGED <<inside, successes, errors, failed, abandoned, logged>>

\* An overloading goroutine takes a success, and nothing else, and ends.
CopyEnds(m, a) ==
    /\ a \in successes
    /\ m \notin {Own(r) : r \in Orders}
    /\ pc[m] = "wait"
    /\ pc' = [pc EXCEPT ![m] = "ended"]
    /\ successes' = successes \ {a}
    /\ UNCHANGED <<inside, errors, failed, abandoned, logged>>

LogError(a) ==
    /\ a \in errors
    /\ errors' = errors \ {a}
    /\ logged' = logged + 1
    /\ UNCHANGED <<pc, inside, successes, failed, abandoned>>

\* The library writes a message to the broker and reports it.
Succeed(m) ==
    /\ m \in inside
    /\ inside' = inside \ {m}
    /\ successes' = successes \cup {m}
    /\ UNCHANGED <<pc, errors, failed, abandoned, logged>>

\* The library gives a message up after its retries.
Fail(m) ==
    /\ m \in inside
    /\ failed < MaxFailed
    /\ failed' = failed + 1
    /\ inside' = inside \ {m}
    /\ errors' = errors \cup {m}
    /\ UNCHANGED <<pc, successes, abandoned, logged>>

-----------------------------------------------------------------------------
Takes(r) == \E a \in Messages : TakeSuccess(r, a) \/ TakeError(r, a)
Answers(m) == Succeed(m) \/ Fail(m)

Next ==
    \/ \E r \in Orders : Offer(r) \/ NotSent(r) \/ Takes(r) \/ Abandon(r)
    \/ \E m \in Messages : Accept(m) \/ Answers(m) \/ \E a \in Messages : CopyEnds(m, a)
    \/ \E a \in Messages : LogError(a)

Spec == Init /\ [][Next]_vars

\* The library takes and answers messages, and goroutines that can go on do.
FairSpec ==
    /\ Spec
    /\ \A m \in Messages :
           /\ WF_vars(Accept(m))
           /\ WF_vars(Answers(m))
           /\ WF_vars(\E a \in Messages : CopyEnds(m, a))
    /\ \A r \in Orders : WF_vars(Takes(r))
    /\ WF_vars(\E a \in Messages : LogError(a))

-----------------------------------------------------------------------------
\* Properties.

Waiting == {m \in Messages : pc[m] = "wait"}

\* Type invariant; a message is in one place, and one that was not offered
\* or is still offered is nowhere.
TypeOK ==
    /\ pc \in [Messages -> {"idle", "offer", "wait", "ended"}]
    /\ inside \subseteq Messages
    /\ successes \subseteq Messages \ inside
    /\ errors \subseteq Messages \ (inside \cup successes)
    /\ \A m \in inside \cup successes \cup errors : pc[m] \in {"wait", "ended"}
    /\ failed \in 0 .. MaxFailed
    /\ abandoned \in Nat
    /\ logged \in 0 .. failed

\* Answers are shared but they add up: every sender that waits, and every one
\* that gave up, stands for one answer that is due, unread, or was logged.
AnswersAddUp ==
    Cardinality(Waiting) + abandoned
        = Cardinality(inside) + Cardinality(successes) + Cardinality(errors) + logged

\* A handler that handed its order over is answered in the end, by its own
\* answer or by another's, unless the logging goroutine took an error.
AnsweredUnlessLogged ==
    \A r \in Orders : pc[Own(r)] = "wait" ~> pc[Own(r)] # "wait" \/ logged > 0

\* The producer takes every message that is offered in the end, unless as
\* many handlers as it has room for messages left without reading an answer.
AcceptedUnlessFull ==
    \A m \in Messages : pc[m] = "offer" ~> pc[m] # "offer" \/ abandoned >= Capacity
=============================================================================
