---------------------------- MODULE FlagDocument ----------------------------
(***************************************************************************)
(* The feature flags as one document that clients change by operations:    *)
(* replace it as a whole, or give one flag another variant; or read.       *)
(* Operations take effect one at a time, each at most once, in the order   *)
(* they were sent; those that wait may be lost together.  Nothing else     *)
(* changes the document.  Module FlagStorage is shown to implement it.     *)
(***************************************************************************)
EXTENDS Sequences

CONSTANTS Flags, Variants, Editors

VARIABLES doc, queue

vars == <<doc, queue>>

\* A document is a JSON object whose "flags" give each flag its default
\* variant; an object without "flags"; or JSON of any other shape.
NoFlags == [f \in {} |-> f]
Doc(shape, flags) == [shape |-> shape, flags |-> flags]
Docs ==
    {Doc("flags", m) : m \in UNION {[S -> Variants] : S \in SUBSET Flags}}
        \cup {Doc(s, NoFlags) : s \in {"noFlags", "other"}}

Reads == [op : {"read"}, editor : Editors]
Operations == Reads \cup [op : {"write"}, flag : Flags, variant : Variants]
                    \cup [op : {"replace"}, doc : Docs]

\* A read changes nothing.  A flag that is not in the document is not added;
\* an object without flags gets an empty set of them.
Result(m, d) ==
    IF m.op = "read" THEN d
    ELSE IF m.op = "replace" THEN m.doc
    ELSE IF m.flag \in DOMAIN d.flags
    THEN [d EXCEPT !.flags = [@ EXCEPT ![m.flag] = m.variant]]
    ELSE Doc("flags", d.flags)

\* A single flag cannot be set in JSON of another shape.
Applies(m, d) == m.op # "write" \/ d.shape # "other"

Init == doc \in Docs /\ queue = << >>

Send(m) == queue' = Append(queue, m) /\ UNCHANGED doc

Apply ==
    /\ queue # << >>
    /\ Applies(Head(queue), doc)
    /\ doc' = Result(Head(queue), doc)
    /\ queue' = Tail(queue)

Lose == queue' = << >> /\ UNCHANGED doc

Next == (\E m \in Operations : Send(m)) \/ Apply \/ Lose

Spec == Init /\ [][Next]_vars
=============================================================================
