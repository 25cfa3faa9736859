------------------------------- MODULE Calls -------------------------------
\* A gRPC call of a stub of demo.ts, as the frontend's gateways make it: the
\* request is written, travels, is read by the server, and the answer comes back
\* the same way.  The other side may be a newer version of the program, whose
\* messages have a field that this one does not know, and may write fields in
\* another order.  What is checked is that nothing of a message is lost on the way.
EXTENDS Wire

CONSTANTS
  Services,     \* Services[m]: the types of the method's request and response
  MaxSwaps      \* how often two fields of a message in flight change places

ASSUME ServicesAssumption ==
  /\ \A m \in DOMAIN Services : Services[m].request \in Types /\ Services[m].response \in Types
  /\ "" \notin DOMAIN Services
  /\ MaxSwaps \in Nat

VARIABLES
  method,       \* the method called, "" between calls
  stage,        \* where the call is
  given,        \* the message last written: the request, then the answer
  wire,         \* its bytes, while they travel
  got,          \* what the reader made of them
  swaps

vars == <<method, stage, given, wire, got, swaps>>

Nothing == <<>>

--------------------------------------------------------------------------

Request == Services[method].request
Response == Services[method].response

\* What is written in place of a property that is missing, and the number of a
\* property that is there but does not fit.
FitsField(fits, f, msg) ==
  IF f.name \notin DOMAIN msg THEN ~f.many /\ f.kind \notin {"int32", "int64"}
  ELSE \A v \in IF f.many THEN ToSet(msg[f.name]) ELSE {msg[f.name]} :
         IF f.kind = "int32" THEN v <= MaxInt32 ELSE IsScalar(f.kind) \/ v \in fits[f.kind]

\* Messages whose every list and number is there and, but for an int64, fits, and
\* so in the messages inside.
FitsWith(fits) ==
  [type \in Within(DOMAIN fits) |->
     {msg \in Objects[type] : \A f \in Fields(type) : FitsField(fits, f, msg)}]
Fits == FitsWith(FitsWith(FitsWith(FitsWith(<<>>))))

\* Messages without an integer that a JavaScript number cannot hold, at any depth.
SafeField(safe, f, msg) ==
  f.name \in DOMAIN msg =>
    \A v \in IF f.many THEN ToSet(msg[f.name]) ELSE {msg[f.name]} :
      IF f.kind = "int64" THEN v <= MaxSafe ELSE IsScalar(f.kind) \/ v \in safe[f.kind]
SafeWith(safe) ==
  [type \in Within(DOMAIN safe) |->
     {msg \in Objects[type] : \A f \in Fields(type) : SafeField(safe, f, msg)}]
Safe == SafeWith(SafeWith(SafeWith(SafeWith(<<>>))))

--------------------------------------------------------------------------

Init ==
  /\ method = "" /\ stage = "idle" /\ given = Nothing
  /\ wire = <<>> /\ got = Nothing /\ swaps = 0

\* client.method(request, callback): requestSerialize; when it throws nothing is
\* sent and the callback is given the error.
Call ==
  /\ stage = "idle"
  /\ \E m \in DOMAIN Services, newer \in BOOLEAN :
       \E request \in Objects[Services[m].request] :
         LET w == Fns[Services[m].request].encode[newer][request]
         IN  /\ method' = m
             /\ given' = request
             /\ stage' = IF w.thrown THEN "refused" ELSE "request"
             /\ wire' = w.bytes
  /\ UNCHANGED <<got, swaps>>

\* The other side's encoder has another order of fields (repeated ones keep theirs).
Reorder ==
  /\ stage \in {"request", "response"}
  /\ swaps < MaxSwaps
  /\ \E i \in 1..(Len(wire) - 1) :
       /\ wire[i].no # wire[i + 1].no
       /\ wire' = [wire EXCEPT ![i] = wire[i + 1], ![i + 1] = wire[i]]
  /\ swaps' = swaps + 1
  /\ UNCHANGED <<method, stage, given, got>>

\* requestDeserialize or responseDeserialize; when it throws the call fails.
Deserialize(type, done, failed) ==
  /\ LET r == Decode(Nested, type, wire)
     IN  /\ got' = r.msg
         /\ stage' = IF r.thrown THEN failed ELSE done
  /\ wire' = <<>>
  /\ swaps' = 0
  /\ UNCHANGED <<method, given>>

Serve == stage = "request" /\ Deserialize(Request, "served", "badRequest")

\* The handler answers, with what its own types allow.
Answer ==
  /\ stage = "served"
  /\ \E answer \in Fits[Response], newer \in BOOLEAN :
       /\ given' = answer
       /\ wire' = Fns[Response].encode[newer][answer].bytes
  /\ stage' = "response"
  /\ got' = Nothing
  /\ UNCHANGED <<method, swaps>>

Receive == stage = "response" /\ Deserialize(Response, "resolved", "badAnswer")

\* The handler fails, the server is gone or the connection breaks.
Fail ==
  /\ stage \in {"request", "served", "response"}
  /\ stage' = "failed"
  /\ wire' = <<>> /\ swaps' = 0
  /\ UNCHANGED <<method, given, got>>

\* The callback: the gateways' promises are rejected with the error or resolved
\* with the answer, those of the reviews with its one property.
Picked == [getProductReviews |-> "productReviews",
           getAverageProductReviewScore |-> "averageScore",
           askProductAiAssistant |-> "response"]
Result(answer) == IF method \in DOMAIN Picked THEN answer[Picked[method]] ELSE answer

Settle ==
  /\ stage \in {"refused", "badRequest", "badAnswer", "failed", "resolved"}
  /\ method' = "" /\ stage' = "idle" /\ given' = Nothing /\ got' = Nothing
  /\ UNCHANGED <<wire, swaps>>

Next == Call \/ Reorder \/ Serve \/ Answer \/ Receive \/ Fail \/ Settle

Spec == Init /\ [][Next]_vars

--------------------------------------------------------------------------

\* A call is refused before anything is sent exactly when its request lacks a
\* list or a number, or has a number too large for its field, at any depth.
OnlyUnfitRefused ==
  /\ stage = "refused" => given \notin Fits[Request]
  /\ stage = "request" => given \in Fits[Request]

\* The server reads the request the caller gave, the zero of its kind where a
\* property was missing, whatever the order of the fields and however new the
\* caller: an absent message stays absent, an empty one stays a message.  Only an
\* integer beyond what a JavaScript number holds makes it unreadable.
RequestArrives ==
  /\ stage = "served" => got = Fns[Request].fromPartial[given]
  /\ stage = "badRequest" => given \notin Safe[Request]

\* The caller gets the answer the server gave, or the part of it its gateway
\* picks, unless an integer of it is beyond what a JavaScript number holds.
AnswerArrives ==
  /\ stage = "resolved" => Result(got) = Result(Fns[Response].fromPartial[given])
  /\ stage = "badAnswer" => given \notin Safe[Response]
  /\ stage = "resolved" => given \in Safe[Response]

\* A message written as JSON and read again is the message, its gaps filled.
JsonKeepsMessage ==
  stage \in {"request", "refused"} =>
    Fns[Request].fromJSON[Fns[Request].toJSON[given]] = Fns[Request].fromPartial[given]
==========================================================================
