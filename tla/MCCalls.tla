------------------------------ MODULE MCCalls ------------------------------
\* Every method of demo.ts, with requests and answers that have all fields or
\* none but for one; and the ways the code could go wrong.
EXTENDS Calls, DemoProto

\* Below, messages[type] is the set of the fields of a message.
MessageFields == [type \in DOMAIN Messages |-> ToSet(Messages[type])]

\* A value of a field that no other field of its message has.
RECURSIVE Full(_, _)
Some(messages, f) ==
  CASE f.kind = "string" -> f.name
    [] f.kind = "bool" -> TRUE
    [] f.kind \in {"int32", "int64"} -> f.no
    [] OTHER -> Full(messages, f.kind)
Full(messages, type) ==
  [name \in {f.name : f \in messages[type]} |->
     LET f == CHOOSE f \in messages[type] : f.name = name
     IN  IF f.many THEN <<Some(messages, f), Some(messages, f)>> ELSE Some(messages, f)]

\* Nothing is set.
Unset(messages, type) ==
  LET set == {f \in messages[type] : f.many \/ IsScalar(f.kind)}
  IN  [name \in {f.name : f \in set} |-> Default(CHOOSE f \in set : f.name = name)]

\* Values of a field worth telling apart; the numbers include one too large.
RECURSIVE Samples(_, _)
ValuesOf(messages, f) ==
  LET some == Some(messages, f)
  IN  IF f.many
      THEN {<<>>, <<some>>} \cup
           {<<v, some>> : v \in IF IsScalar(f.kind) THEN {Zero(f.kind)} ELSE Samples(messages, f.kind)}
      ELSE CASE f.kind = "int32" -> {0, some, MaxInt32 + 1}
             [] f.kind = "int64" -> {0, some, MaxSafe + 1}
             [] f.kind \in {"string", "bool"} -> {Zero(f.kind), some}
             [] OTHER -> Samples(messages, f.kind)

\* All fields unset or all set but for one, at every depth; or one missing.
Samples(messages, type) ==
  LET full == Full(messages, type)
      unset == Unset(messages, type)
  IN  UNION {{Assigned(msg, f.name, v) : v \in ValuesOf(messages, f)} :
               f \in messages[type], msg \in {unset, full}}
      \cup {unset, full}
      \cup {[name \in DOMAIN full \ {f.name} |-> full[name]] : f \in messages[type]}

MCObjects == [type \in DOMAIN Messages |-> Samples(MessageFields, type)]
==========================================================================
