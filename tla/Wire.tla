------------------------------- MODULE Wire -------------------------------
\* What the functions generated for every message of demo.ts do, by the list of
\* the message's fields.  A message is a function of its field names; a name
\* outside its domain is a property that is undefined.  Bytes are a sequence of
\* tokens, one per tag: the field number, the wire type and the value, which is a
\* sequence of tokens again when it is a message.
EXTENDS Integers, SequencesExt

CONSTANTS
  Schema,       \* Schema[type]: the list of the fields of a message (module DemoProto)
  Objects,      \* Objects[type]: the objects that are given for a message
  MaxInt32,     \* the largest int32 (2^31 - 1)
  MaxSafe       \* Number.MAX_SAFE_INTEGER (2^53 - 1)

Types == DOMAIN Schema
Fields(type) == ToSet(Schema[type])
Names(type) == {f.name : f \in Fields(type)}
Field(type, name) == CHOOSE f \in Fields(type) : f.name = name

IsScalar(kind) == kind \in {"string", "int32", "int64", "bool"}
Values(kind) ==
  CASE kind = "string" -> STRING
    [] kind = "bool" -> BOOLEAN
    [] kind \in {"int32", "int64"} -> Nat
    [] OTHER -> Objects[kind]

\* The messages that hold no messages but of the given types.
Within(types) ==
  {type \in Types : \A f \in Fields(type) : IsScalar(f.kind) \/ f.kind \in types}

\* A field that a newer version of the program has in every message.
NewField == [no |-> 100, type |-> 2, val |-> "new"]

ASSUME LimitsAssumption == MaxInt32 \in Nat /\ MaxSafe \in Nat /\ MaxInt32 < MaxSafe

\* Messages are nested at most four deep; two fields of a message differ in number
\* and in name.
ASSUME SchemaAssumption ==
  /\ Types = Within(Within(Within(Within({}))))
  /\ \A type \in Types :
       /\ Schema[type] \in Seq([no : Nat \ {NewField.no}, name : STRING,
                                kind : STRING, many : BOOLEAN])
       /\ \A i, j \in DOMAIN Schema[type] :
            i # j => /\ Schema[type][i].no # Schema[type][j].no
                     /\ Schema[type][i].name # Schema[type][j].name

\* A property that an object has is of its field's kind; no number is negative.
ASSUME ObjectsAssumption ==
  \A type \in Types : \A msg \in Objects[type] : \A f \in Fields(type) :
    f.name \in DOMAIN msg =>
      msg[f.name] \in IF f.many THEN Seq(Values(f.kind)) ELSE Values(f.kind)

\* A message inside another that is not in a list: it may be absent.
Optional(f) == ~f.many /\ ~IsScalar(f.kind)

Zero(kind) == CASE kind = "string" -> "" [] kind = "bool" -> FALSE [] OTHER -> 0
Default(f) == IF f.many THEN <<>> ELSE Zero(f.kind)

\* createBase...
Base(type) ==
  [name \in {f.name : f \in {g \in Fields(type) : ~Optional(g)}} |-> Default(Field(type, name))]

\* Below, fns[kind] is the record of the functions of the message kind, one for
\* each kind of the messages inside.

--------------------------------------------------------------------------
(* encode *)

Wrote(w) == [thrown |-> FALSE, bytes |-> w]
WriteThrew == [thrown |-> TRUE, bytes |-> <<>>]

Joined(parts) ==
  IF \E i \in DOMAIN parts : parts[i].thrown THEN WriteThrew
  ELSE Wrote(FlattenSeq([i \in DOMAIN parts |-> parts[i].bytes]))

\* The wire type of a tag: a varint, or bytes with their length.
Token(f, val) ==
  [no |-> f.no, type |-> IF f.kind \in {"int32", "int64", "bool"} THEN 0 ELSE 2, val |-> val]

\* writer.string, .bool, .int32 and .int64 of @bufbuild/protobuf, or the message's
\* encode between fork and join.  newer: whether the writer is of a newer version.
Tag(fns, newer, f, v) ==
  LET inside == fns[f.kind].encode[newer][v]
  IN  IF IsScalar(f.kind)
      THEN IF f.kind = "int32" /\ v > MaxInt32 THEN WriteThrew ELSE Wrote(<<Token(f, v)>>)
      ELSE IF inside.thrown THEN WriteThrew ELSE Wrote(<<Token(f, inside.bytes)>>)

\* A mutant of EncodeField: a message is written without asking whether it is there.
EncodeFieldAlways(fns, newer, f, msg) ==
  IF f.name \notin DOMAIN msg
  THEN IF ~f.many /\ f.kind \in {"string", "bool"}
       THEN Wrote(<<Token(f, Zero(f.kind))>>) ELSE WriteThrew
  ELSE IF f.many
  THEN Joined([i \in DOMAIN msg[f.name] |-> Tag(fns, newer, f, msg[f.name][i])])
  ELSE IF IsScalar(f.kind) /\ msg[f.name] = Zero(f.kind)
  THEN Wrote(<<>>)
  ELSE Tag(fns, newer, f, msg[f.name])

\* A mutant of EncodeField: it leaves out a message that has nothing set.
EncodeFieldIfSet(fns, newer, f, msg) ==
  IF f.name \notin DOMAIN msg
  THEN IF Optional(f) THEN Wrote(<<>>)
       ELSE IF f.many \/ f.kind \in {"int32", "int64"} THEN WriteThrew
       ELSE Wrote(<<Token(f, Zero(f.kind))>>)
  ELSE IF f.many
  THEN Joined([i \in DOMAIN msg[f.name] |-> Tag(fns, newer, f, msg[f.name][i])])
  ELSE IF \/ IsScalar(f.kind) /\ msg[f.name] = Zero(f.kind)
          \/ ~IsScalar(f.kind) /\ fns[f.kind].encode[newer][msg[f.name]] = Wrote(<<>>)
  THEN Wrote(<<>>)
  ELSE Tag(fns, newer, f, msg[f.name])

\* A list that is undefined cannot be iterated; a string or a bool that is is not
\* the zero it is compared with, and is written as that; a number must be one that
\* fits.
EncodeField(fns, newer, f, msg) ==
  IF f.name \notin DOMAIN msg
  THEN IF Optional(f) THEN Wrote(<<>>)
       ELSE IF f.many \/ f.kind \in {"int32", "int64"} THEN WriteThrew
       ELSE Wrote(<<Token(f, Zero(f.kind))>>)
  ELSE IF f.many
  THEN Joined([i \in DOMAIN msg[f.name] |-> Tag(fns, newer, f, msg[f.name][i])])
  ELSE IF IsScalar(f.kind) /\ msg[f.name] = Zero(f.kind)
  THEN Wrote(<<>>)
  ELSE Tag(fns, newer, f, msg[f.name])

Encode(fns, newer, type, msg) ==
  Joined([i \in DOMAIN Schema[type] |-> EncodeField(fns, newer, Schema[type][i], msg)]
           \o <<Wrote(IF newer THEN <<NewField>> ELSE <<>>)>>)

--------------------------------------------------------------------------
(* decode *)

Read(msg) == [thrown |-> FALSE, msg |-> msg]
ReadThrew == [thrown |-> TRUE, msg |-> <<>>]

\* message.name = v
Assigned(msg, name, v) == [x \in DOMAIN msg \cup {name} |-> IF x = name THEN v ELSE msg[x]]

\* One value: longToNumber refuses what a double cannot hold.
ReadValue(fns, kind, val) ==
  IF IsScalar(kind) THEN IF kind = "int64" /\ val > MaxSafe THEN ReadThrew ELSE Read(val)
  ELSE fns[kind].decode[val]

\* The field of a tag, unless the message has none with its number and wire type.
Known(type, t) == {f \in Fields(type) : Token(f, t.val) = t}

\* A turn of the loop: a tag of the message sets the property (the last one counts)
\* or is added to the list; any other is skipped.  (One that ends a group, which
\* nobody writes, would end the loop.)
ReadTag(fns, type, r, t) ==
  LET f == CHOOSE f \in Known(type, t) : TRUE
      v == ReadValue(fns, f.kind, t.val)
  IN  IF r.thrown \/ Known(type, t) = {} THEN r
      ELSE IF v.thrown THEN ReadThrew
      ELSE Read(Assigned(r.msg, f.name, IF f.many THEN Append(r.msg[f.name], v.msg) ELSE v.msg))

\* A mutant of ReadAll: the loop ends at the first tag it does not know.
ReadUntilUnknown(fns, type, r, w) ==
  LET after[i \in 0..Len(w)] ==
        IF i = 0 THEN r
        ELSE IF \E j \in 1..i : Known(type, w[j]) = {} THEN after[i - 1]
        ELSE ReadTag(fns, type, after[i - 1], w[i])
  IN  after[Len(w)]

ReadAll(fns, type, r, w) ==
  LET after[i \in 0..Len(w)] == IF i = 0 THEN r ELSE ReadTag(fns, type, after[i - 1], w[i])
  IN  after[Len(w)]

Decode(fns, type, w) == ReadAll(fns, type, Read(Base(type)), w)

--------------------------------------------------------------------------
(* fromPartial (and create), toJSON, fromJSON *)

\* A function of messages, for each kind, on the value of a field.
Through(fn, f, v) ==
  IF IsScalar(f.kind) THEN v
  ELSE IF f.many THEN [i \in DOMAIN v |-> fn[f.kind][v[i]]] ELSE fn[f.kind][v]

\* fromPartial and fromJSON: what is there, and the zeros of the rest.
Filled(fn, type, obj) ==
  [name \in DOMAIN Base(type) \cup (Names(type) \cap DOMAIN obj) |->
     IF name \in DOMAIN obj THEN Through(fn, Field(type, name), obj[name]) ELSE Base(type)[name]]

\* A mutant of ToJSON: it leaves out a message that has nothing set.
ToJSONIfSet(fn, type, msg) ==
  LET kept == {f \in Fields(type) :
                 /\ f.name \in DOMAIN msg
                 /\ IF Optional(f) THEN fn[f.kind][msg[f.name]] # <<>> ELSE msg[f.name] # Default(f)}
  IN  [name \in {f.name : f \in kept} |-> Through(fn, Field(type, name), msg[name])]

\* A property that is undefined does not reach the text, nor does a zero.
ToJSON(fn, type, msg) ==
  LET kept == {f \in Fields(type) :
                 f.name \in DOMAIN msg /\ (Optional(f) \/ msg[f.name] # Default(f))}
  IN  [name \in {f.name : f \in kept} |-> Through(fn, Field(type, name), msg[name])]

--------------------------------------------------------------------------

\* The functions of the messages that hold only those of fns.
MessageFns(fns) ==
  [type \in Within(DOMAIN fns) |->
     LET encode == [newer \in BOOLEAN |-> [msg \in Objects[type] |-> Encode(fns, newer, type, msg)]]
         written == {encode[newer][msg].bytes : newer \in BOOLEAN, msg \in Objects[type]}
         partials == [kind \in DOMAIN fns |-> fns[kind].fromPartial]
         writers == [kind \in DOMAIN fns |-> fns[kind].toJSON]
         readers == [kind \in DOMAIN fns |-> fns[kind].fromJSON]
         toJSON == [msg \in Objects[type] |-> ToJSON(writers, type, msg)]
     IN  [encode |-> encode,
          decode |-> [w \in written |-> Decode(fns, type, w)],
          fromPartial |-> [msg \in Objects[type] |-> Filled(partials, type, msg)],
          toJSON |-> toJSON,
          fromJSON |-> [obj \in {toJSON[msg] : msg \in Objects[type]} |-> Filled(readers, type, obj)]]]

\* The functions of the messages that are nested less than n deep, of those inside
\* another and of every message.
Levels[n \in 0..4] == IF n = 0 THEN <<>> ELSE MessageFns(Levels[n - 1])
Nested == Levels[3]
Fns == Levels[4]
==========================================================================
