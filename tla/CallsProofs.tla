---------------------------- MODULE CallsProofs ----------------------------
(***************************************************************************)
(* Proofs about Wire and Calls, for every list of messages nested at most  *)
(* four deep and all the objects given for them: what is written is        *)
(* refused or read back whole, in any order of its fields, and so is every *)
(* request and every answer of a call.                                     *)
(***************************************************************************)
EXTENDS Calls, WellFoundedInduction, NaturalsInduction, SequenceTheorems, TLAPS

-----------------------------------------------------------------------------
(* Recursive functions *)

\* A set of naturals has a least element.
LEMMA LeastNatural ==
  ASSUME NEW S, S \subseteq Nat, S # {}
  PROVE  \E m \in S : \A k \in S : m <= k
<1> DEFINE Less == {p \in Nat \X Nat : p[1] < p[2]}
<1>1. PICK m \in S : \A k \in S : ~(<<k, m>> \in Less)
  <2>1. IsWellFoundedOn(Less, Nat)
    BY NatLessThanWellFounded DEF OpToRel
  <2> HIDE DEF Less
  <2> QED BY <2>1, WFMin
<1>2. ASSUME NEW k \in S PROVE m <= k
  <2>1. <<k, m>> \in Nat \X Nat /\ <<k, m>>[1] = k /\ <<k, m>>[2] = m
    OBVIOUS
  <2>2. ~(k < m)
    BY <1>1, <2>1
  <2> QED BY <2>2
<1> QED BY <1>2

\* What is so of the first index and of the next of each is so of all.
LEMMA IndexInduction ==
  ASSUME NEW n \in Nat, NEW P, P \subseteq 0..n, 0 \in P,
         \A i \in 1..n : i - 1 \in P => i \in P
  PROVE  n \in P /\ \A i \in 0..n : i \in P
<1> DEFINE Bad == {i \in 0..n : i \notin P}
<1> SUFFICES ASSUME Bad # {} PROVE FALSE
  <2> n \in 0..n
    OBVIOUS
  <2> QED OBVIOUS
<1>1. PICK m \in Bad : \A k \in Bad : m <= k
  <2>1. Bad \subseteq Nat
    OBVIOUS
  <2> HIDE DEF Bad
  <2> QED BY <2>1, LeastNatural
<1>2. m \in 1..n
  BY <1>1
<1>3. m - 1 \in 0..n /\ ~(m <= m - 1)
  BY <1>2
<1>4. m - 1 \notin Bad
  <2> HIDE DEF Bad
  <2> QED BY <1>1, <1>3
<1> QED BY <1>1, <1>2, <1>3, <1>4

\* The loop of decode: h[i] is what has been read after i tags.
Runs(h, fns, type, r, w) ==
  h[0] = r /\ \A i \in 1..Len(w) : h[i] = ReadTag(fns, type, h[i - 1], w[i])

LEMMA RunExists ==
  ASSUME NEW fns, NEW type, NEW r, NEW w, NEW n \in Nat, n = Len(w)
  PROVE  \E h : Runs(h, fns, type, r, w) /\ ReadAll(fns, type, r, w) = h[n]
<1> DEFINE Turns(h, m) ==
             h = [i \in 0..m |-> IF i = 0 THEN r ELSE ReadTag(fns, type, h[i - 1], w[i])]
           P == {m \in 0..n : \E h : Turns(h, m)}
<1>1. 0 \in P
  <2>1. Turns([i \in 0..0 |-> r], 0)
    OBVIOUS
  <2> HIDE DEF Turns
  <2> QED BY <2>1
<1>2. ASSUME NEW m \in 1..n, m - 1 \in P PROVE m \in P
  <2>1. PICK h : Turns(h, m - 1)
    BY <1>2
  <2> DEFINE k == [i \in 0..m |-> IF i = 0 THEN r ELSE ReadTag(fns, type, h[i - 1], w[i])]
  <2>2. ASSUME NEW i \in 0..m, i # 0 PROVE k[i - 1] = h[i - 1]
    <3>1. i - 1 \in 0..m - 1 /\ i - 1 \in 0..m
      BY <2>2
    <3> QED BY <2>1, <3>1
  <2>3. Turns(k, m)
    BY <2>2
  <2> HIDE DEF Turns, k
  <2> QED BY <2>3
<1>3. n \in P
  <2>1. P \subseteq 0..n
    OBVIOUS
  <2> HIDE DEF P
  <2> QED BY <1>1, <1>2, <2>1, IndexInduction
<1> DEFINE g == CHOOSE g : Turns(g, n)
<1>4. Turns(g, n)
  <2> HIDE DEF Turns
  <2> QED BY <1>3
<1>5. ReadAll(fns, type, r, w) = g[n]
  BY DEF ReadAll
<1>6. Runs(g, fns, type, r, w)
  <2> HIDE DEF g
  <2> QED BY <1>4 DEF Runs
<1> QED
  <2> HIDE DEF g
  <2> QED BY <1>5, <1>6

LEMMA RunEnds ==
  ASSUME NEW fns, NEW type, NEW r, NEW w, NEW n \in Nat, n = Len(w), NEW h, Runs(h, fns, type, r, w)
  PROVE  ReadAll(fns, type, r, w) = h[n]
<1>1. PICK g : Runs(g, fns, type, r, w) /\ ReadAll(fns, type, r, w) = g[n]
  BY RunExists
<1> DEFINE P == {i \in 0..n : g[i] = h[i]}
<1>2. 0 \in P
  BY <1>1 DEF Runs
<1>3. \A i \in 1..n : i - 1 \in P => i \in P
  BY <1>1 DEF Runs
<1>4. n \in P
  <2>1. P \subseteq 0..n
    OBVIOUS
  <2> HIDE DEF P
  <2> QED BY <1>2, <1>3, <2>1, IndexInduction
<1> QED BY <1>1, <1>4

-----------------------------------------------------------------------------
(* Reading one thing after another *)

IsBytes(w) == \E S : w \in Seq(S)

LEMMA BytesLen ==
  ASSUME NEW w, IsBytes(w)
  PROVE  Len(w) \in Nat /\ DOMAIN w = 1..Len(w) /\ w = [i \in 1..Len(w) |-> w[i]]
<1>1. PICK S : w \in Seq(S)
  BY DEF IsBytes
<1> QED BY <1>1, LenProperties

LEMMA ReadNone ==
  ASSUME NEW fns, NEW type, NEW r, NEW w, Len(w) = 0
  PROVE  ReadAll(fns, type, r, w) = r
<1> DEFINE h == [i \in 0..0 |-> r]
<1>1. h[0] = r /\ Runs(h, fns, type, r, w)
  BY DEF Runs
<1>2. PICK n \in Nat : n = Len(w)
  OBVIOUS
<1> HIDE DEF h
<1> QED BY <1>1, <1>2, RunEnds

LEMMA ReadOne ==
  ASSUME NEW fns, NEW type, NEW r, NEW t
  PROVE  ReadAll(fns, type, r, <<t>>) = ReadTag(fns, type, r, t)
<1> DEFINE h == [i \in 0..1 |-> IF i = 0 THEN r ELSE ReadTag(fns, type, r, t)]
           w == <<t>>
<1>1. Len(w) = 1 /\ w[1] = t
  OBVIOUS
<1>2. h[0] = r /\ h[1] = ReadTag(fns, type, r, t)
  OBVIOUS
<1> HIDE DEF h, w
<1>3. Runs(h, fns, type, r, w)
  BY <1>1, <1>2 DEF Runs
<1>4. PICK n \in Nat : n = 1
  OBVIOUS
<1>5. n = Len(w)
  BY <1>1, <1>4
<1>6. ReadAll(fns, type, r, w) = h[n]
  BY ONLY <1>3, <1>5, n \in Nat, RunEnds
<1> QED BY <1>2, <1>4, <1>6 DEF w

LEMMA ReadConcat ==
  ASSUME NEW fns, NEW type, NEW r, NEW u, IsBytes(u), NEW v, IsBytes(v)
  PROVE  /\ IsBytes(u \o v)
         /\ ReadAll(fns, type, r, u \o v) = ReadAll(fns, type, ReadAll(fns, type, r, u), v)
<1>1. PICK S, T : u \in Seq(S) /\ v \in Seq(T)
  BY DEF IsBytes
<1>2. u \in Seq(S \cup T) /\ v \in Seq(S \cup T)
  BY <1>1, SeqMonotonic
<1> DEFINE w == u \o v
<1>3. /\ w \in Seq(S \cup T)
      /\ Len(w) = Len(u) + Len(v)
      /\ \A i \in 1..(Len(u) + Len(v)) : w[i] = IF i <= Len(u) THEN u[i] ELSE v[i - Len(u)]
  BY <1>2, ConcatProperties
<1>4. PICK m \in Nat, n \in Nat : m = Len(u) /\ n = Len(v)
  BY <1>1, LenProperties
<1> HIDE DEF w
<1>5. PICK h : Runs(h, fns, type, r, u) /\ ReadAll(fns, type, r, u) = h[m]
  BY <1>4, RunExists
<1>6. PICK k : Runs(k, fns, type, h[m], v) /\ ReadAll(fns, type, h[m], v) = k[n]
  BY <1>4, RunExists
<1> DEFINE g == [i \in 0..(m + n) |-> IF i <= m THEN h[i] ELSE k[i - m]]
<1>7. g[0] = r
  BY <1>5 DEF Runs
<1>8. ASSUME NEW i \in 1..(m + n) PROVE g[i] = ReadTag(fns, type, g[i - 1], w[i])
  <2>1. CASE i <= m
    <3>1. i \in 1..m /\ i \in 0..(m + n) /\ i - 1 \in 0..(m + n) /\ i - 1 <= m
      BY <2>1
    <3>2. g[i] = h[i] /\ g[i - 1] = h[i - 1] /\ w[i] = u[i]
      BY <1>3, <1>4, <2>1, <3>1
    <3> QED BY <1>4, <1>5, <3>1, <3>2 DEF Runs
  <2>2. CASE ~(i <= m)
    <3>1. /\ i - m \in 1..n /\ i \in 0..(m + n) /\ i - 1 \in 0..(m + n)
          /\ (i - 1) - m = (i - m) - 1
          /\ i - 1 <= m => i - 1 = m /\ (i - m) - 1 = 0
      BY <2>2
    <3>2. g[i] = k[i - m] /\ w[i] = v[i - m]
      BY <1>3, <1>4, <2>2, <3>1
    <3>3. g[i - 1] = k[(i - m) - 1]
      BY <1>6, <3>1 DEF Runs
    <3> QED BY <1>4, <1>6, <3>1, <3>2, <3>3 DEF Runs
  <2> QED BY <2>1, <2>2
<1>9. g[m + n] = k[n]
  <2>1. CASE n = 0
    BY <1>6, <2>1 DEF Runs
  <2>2. CASE n # 0
    <3>1. ~(m + n <= m) /\ (m + n) - m = n /\ m + n \in 0..(m + n)
      BY <2>2
    <3> QED BY <3>1
  <2> QED BY <2>1, <2>2
<1>10. PICK s \in Nat : s = m + n
  OBVIOUS
<1> HIDE DEF g
<1>11. Runs(g, fns, type, r, w)
  BY <1>3, <1>4, <1>7, <1>8 DEF Runs
<1>12. ReadAll(fns, type, r, w) = g[s]
  BY <1>3, <1>4, <1>10, <1>11, RunEnds
<1>13. IsBytes(w)
  BY <1>3 DEF IsBytes
<1> QED BY <1>5, <1>6, <1>9, <1>10, <1>12, <1>13 DEF w

\* What was refused stays refused.
LEMMA ReadRefused ==
  ASSUME NEW fns, NEW type, NEW w, Len(w) \in Nat
  PROVE  ReadAll(fns, type, ReadThrew, w) = ReadThrew
<1> DEFINE h == [i \in 0..Len(w) |-> ReadThrew]
<1>1. PICK n \in Nat : n = Len(w)
  OBVIOUS
<1>2. \A t : ReadTag(fns, type, ReadThrew, t) = ReadThrew
  BY DEF ReadTag, ReadThrew
<1>3. \A i \in 0..n : h[i] = ReadThrew
  BY <1>1
<1>4. \A i \in 1..n : i \in 0..n /\ i - 1 \in 0..n
  OBVIOUS
<1>5. 0 \in 0..n /\ n \in 0..n
  OBVIOUS
<1> HIDE DEF h
<1>6. Runs(h, fns, type, ReadThrew, w)
  BY <1>1, <1>2, <1>3, <1>4, <1>5 DEF Runs
<1> QED BY <1>1, <1>3, <1>5, <1>6, RunEnds

\* FlattenSeq puts the sequences together one by one.
LEMMA FlattenTurns ==
  ASSUME NEW seqs, NEW n \in Nat, n = Len(seqs), n # 0
  PROVE  \E g : /\ g[1] = seqs[1]
                /\ \A i \in 2..n : g[i] = g[i - 1] \o seqs[i]
                /\ FlattenSeq(seqs) = g[n]
<1> DEFINE Turns(g, m) == g = [i \in 1..m |-> IF i = 1 THEN seqs[i] ELSE g[i - 1] \o seqs[i]]
           P == {m \in 0..n : \E g : Turns(g, m)}
<1>1. 0 \in P
  <2>1. Turns([i \in 1..0 |-> 0], 0)
    OBVIOUS
  <2> HIDE DEF Turns
  <2> QED BY <2>1
<1>2. ASSUME NEW m \in 1..n, m - 1 \in P PROVE m \in P
  <2>1. PICK g : Turns(g, m - 1)
    BY <1>2
  <2> DEFINE h == [i \in 1..m |-> IF i = 1 THEN seqs[i] ELSE g[i - 1] \o seqs[i]]
  <2>2. ASSUME NEW i \in 1..m, i # 1 PROVE h[i - 1] = g[i - 1]
    <3>1. i - 1 \in 1..m - 1 /\ i - 1 \in 1..m
      BY <2>2
    <3> QED BY <2>1, <3>1
  <2>3. Turns(h, m)
    BY <2>2
  <2> HIDE DEF Turns, h
  <2> QED BY <2>3
<1>3. n \in P
  <2>1. P \subseteq 0..n
    OBVIOUS
  <2> HIDE DEF P
  <2> QED BY <1>1, <1>2, <2>1, IndexInduction
<1> DEFINE g == CHOOSE g : Turns(g, n)
<1>4. Turns(g, n)
  <2> HIDE DEF Turns
  <2> QED BY <1>3
<1>5. FlattenSeq(seqs) = g[n]
  BY DEF FlattenSeq
<1> HIDE DEF g
<1>6. g[1] = seqs[1]
  <2>1. 1 \in 1..n
    OBVIOUS
  <2> QED BY <1>4, <2>1
<1>7. ASSUME NEW i \in 2..n PROVE g[i] = g[i - 1] \o seqs[i]
  <2>1. i \in 1..n /\ i # 1
    OBVIOUS
  <2> QED BY <1>4, <2>1
<1> QED BY <1>5, <1>6, <1>7

\* Reading sequences put together is reading one after the other: R[i] is what
\* has been read after i of them.
Reads(R, fns, type, seqs, n) ==
  /\ n = Len(seqs)
  /\ IsBytes(seqs) /\ \A i \in 1..n : IsBytes(seqs[i])
  /\ \A i \in 1..n : R[i] = ReadAll(fns, type, R[i - 1], seqs[i])

LEMMA ReadFlattened ==
  ASSUME NEW fns, NEW type, NEW seqs, NEW n \in Nat, NEW R, Reads(R, fns, type, seqs, n)
  PROVE  IsBytes(FlattenSeq(seqs)) /\ ReadAll(fns, type, R[0], FlattenSeq(seqs)) = R[n]
<1>0. /\ n = Len(seqs)
      /\ IsBytes(seqs) /\ \A i \in 1..n : IsBytes(seqs[i])
      /\ \A i \in 1..n : R[i] = ReadAll(fns, type, R[i - 1], seqs[i])
  BY DEF Reads
<1>1. CASE n = 0
  <2>1. FlattenSeq(seqs) = seqs
    BY <1>0, <1>1, EmptySeq DEF FlattenSeq, IsBytes
  <2>2. IsBytes(seqs)
    BY <1>0
  <2>3. Len(seqs) = 0
    BY <1>0, <1>1
  <2>4. ReadAll(fns, type, R[0], seqs) = R[0]
    BY ONLY <2>3, ReadNone
  <2> QED BY <1>1, <2>1, <2>2, <2>4
<1>2. CASE n # 0
  <2>1. PICK g : /\ g[1] = seqs[1]
                 /\ \A i \in 2..n : g[i] = g[i - 1] \o seqs[i]
                 /\ FlattenSeq(seqs) = g[n]
    BY <1>0, <1>2, FlattenTurns
  <2> DEFINE P == {i \in 0..n : i # 0 => IsBytes(g[i]) /\ ReadAll(fns, type, R[0], g[i]) = R[i]}
  <2>2. 0 \in P
    OBVIOUS
  <2>3. ASSUME NEW i \in 1..n, i - 1 \in P PROVE i \in P
    <3>1. CASE i = 1
      <4>1. i - 1 = 0
        BY <3>1
      <4>2. IsBytes(g[i]) /\ ReadAll(fns, type, R[0], g[i]) = R[i]
        BY <1>0, <2>1, <3>1, <4>1
      <4> QED BY <4>2
    <3>2. CASE i # 1
      <4>1. i \in 2..n /\ i - 1 # 0
        BY <3>2
      <4>2. IsBytes(g[i - 1]) /\ ReadAll(fns, type, R[0], g[i - 1]) = R[i - 1]
        BY <2>3, <4>1
      <4>3. g[i] = g[i - 1] \o seqs[i] /\ IsBytes(seqs[i])
        BY <1>0, <2>1, <4>1
      <4>4. IsBytes(g[i]) /\ ReadAll(fns, type, R[0], g[i]) = R[i]
        BY <1>0, <4>2, <4>3, ReadConcat
      <4> QED BY <4>4
    <3> QED BY <3>1, <3>2
  <2>4. n \in P
    <3>1. P \subseteq 0..n
      OBVIOUS
    <3> HIDE DEF P
    <3> QED BY <2>2, <2>3, <3>1, IndexInduction
  <2> QED BY <1>2, <2>1, <2>4
<1> QED BY <1>1, <1>2

-----------------------------------------------------------------------------
(* The tags of a message *)

LEMMA FieldTyped ==
  ASSUME NEW type \in Types, NEW f \in Fields(type)
  PROVE  /\ f.no \in Nat \ {100} /\ f.name \in STRING /\ f.kind \in STRING
         /\ f.many \in BOOLEAN
<1> DEFINE F == [no : Nat \ {100}, name : STRING, kind : STRING, many : BOOLEAN]
<1>1. Schema[type] \in Seq(F)
  BY SchemaAssumption DEF NewField
<1>2. PICK i \in DOMAIN Schema[type] : f = Schema[type][i]
  BY DEF Fields, ToSet
<1>3. f \in F
  <2> HIDE DEF F
  <2> QED BY <1>1, <1>2, LenProperties
<1> QED BY <1>3

LEMMA FieldsDiffer ==
  ASSUME NEW type \in Types, NEW f \in Fields(type), NEW g \in Fields(type), f # g
  PROVE  f.no # g.no /\ f.name # g.name
<1>1. PICK i \in DOMAIN Schema[type], j \in DOMAIN Schema[type] :
        f = Schema[type][i] /\ g = Schema[type][j]
  BY DEF Fields, ToSet
<1>2. i # j
  BY <1>1
<1> QED BY <1>1, <1>2, SchemaAssumption

LEMMA FieldNamed ==
  ASSUME NEW type \in Types, NEW f \in Fields(type)
  PROVE  Field(type, f.name) = f
<1> DEFINE g == Field(type, f.name)
<1>1. g \in Fields(type) /\ g.name = f.name
  BY DEF Field
<1> HIDE DEF g
<1>2. g = f
  BY <1>1, FieldsDiffer
<1> QED BY <1>2 DEF g

LEMMA KnownToken ==
  ASSUME NEW type \in Types, NEW f \in Fields(type), NEW val
  PROVE  Known(type, Token(f, val)) = {f} /\ Token(f, val).val = val
<1>1. Token(f, val).no = f.no /\ Token(f, val).val = val
  BY DEF Token
<1>2. ASSUME NEW g \in Fields(type), Token(g, val) = Token(f, val) PROVE g = f
  <2>1. g.no = f.no
    BY <1>2 DEF Token
  <2> QED BY <2>1, FieldsDiffer
<1> QED BY <1>1, <1>2 DEF Known

\* A field of a newer version is none of the message's.
LEMMA NewFieldUnknown ==
  ASSUME NEW type \in Types
  PROVE  Known(type, NewField) = {}
<1> SUFFICES ASSUME NEW f \in Fields(type), Token(f, NewField.val) = NewField PROVE FALSE
  BY DEF Known
<1>1. f.no = 100
  BY DEF Token, NewField
<1> QED BY <1>1, FieldTyped

\* What a token is known by has its number.
LEMMA KnownNumber ==
  ASSUME NEW type \in Types, NEW t, Known(type, t) # {}
  PROVE  \E f \in Fields(type) : Known(type, t) = {f} /\ f.no = t.no
<1>1. PICK f \in Fields(type) : Token(f, t.val) = t
  BY DEF Known
<1>2. f.no = t.no
  BY <1>1 DEF Token
<1>3. Known(type, Token(f, t.val)) = {f}
  BY KnownToken
<1> QED BY <1>1, <1>2, <1>3

\* The turn of the loop for a known tag.
LEMMA ReadKnown ==
  ASSUME NEW fns, NEW type, NEW f, NEW t, Known(type, t) = {f}, NEW r, ~r.thrown
  PROVE  LET v == ReadValue(fns, f.kind, t.val)
         IN  ReadTag(fns, type, r, t) =
               IF v.thrown THEN ReadThrew
               ELSE Read(Assigned(r.msg, f.name,
                                  IF f.many THEN Append(r.msg[f.name], v.msg) ELSE v.msg))
<1>1. (CHOOSE g \in Known(type, t) : TRUE) = f
  OBVIOUS
<1> HIDE DEF ReadValue, Assigned, Read, ReadThrew
<1> QED BY <1>1 DEF ReadTag

-----------------------------------------------------------------------------
(* Fields of different numbers may change places *)

\* The lists are there when something is added to them.
Ready(type, r) == r.thrown \/ \A f \in Fields(type) : f.many => f.name \in DOMAIN r.msg

LEMMA ReadyBase ==
  ASSUME NEW type
  PROVE  Ready(type, Read(Base(type)))
BY DEF Ready, Read, Base, Optional

LEMMA ReadyTurn ==
  ASSUME NEW fns, NEW type \in Types, NEW r, Ready(type, r), NEW t
  PROVE  Ready(type, ReadTag(fns, type, r, t))
<1>1. CASE r.thrown \/ Known(type, t) = {}
  BY <1>1 DEF ReadTag
<1>2. CASE ~(r.thrown \/ Known(type, t) = {})
  <2>1. PICK f : Known(type, t) = {f}
    BY <1>2, KnownNumber
  <2> DEFINE v == ReadValue(fns, f.kind, t.val)
             x == IF f.many THEN Append(r.msg[f.name], v.msg) ELSE v.msg
  <2>2. ReadTag(fns, type, r, t) = IF v.thrown THEN ReadThrew ELSE Read(Assigned(r.msg, f.name, x))
    BY <1>2, <2>1, ReadKnown
  <2> HIDE DEF v, x
  <2>3. Ready(type, ReadThrew)
    BY DEF Ready, ReadThrew
  <2>4. Ready(type, Read(Assigned(r.msg, f.name, x)))
    BY <1>2 DEF Ready, Read, Assigned
  <2> QED BY <2>2, <2>3, <2>4
<1> QED BY <1>1, <1>2

LEMMA TurnsCommute ==
  ASSUME NEW fns, NEW type \in Types, NEW r, Ready(type, r), NEW t, NEW u, t.no # u.no
  PROVE  ReadTag(fns, type, ReadTag(fns, type, r, t), u) =
         ReadTag(fns, type, ReadTag(fns, type, r, u), t)
<1>1. CASE r.thrown \/ Known(type, t) = {}
  BY <1>1 DEF ReadTag
<1>2. CASE Known(type, u) = {}
  BY <1>2 DEF ReadTag
<1>3. CASE ~r.thrown /\ Known(type, t) # {} /\ Known(type, u) # {}
  <2>1. PICK f \in Fields(type) : Known(type, t) = {f} /\ f.no = t.no
    BY <1>3, KnownNumber
  <2>2. PICK g \in Fields(type) : Known(type, u) = {g} /\ g.no = u.no
    BY <1>3, KnownNumber
  <2>3. f.name # g.name
    BY <2>1, <2>2, FieldsDiffer
  <2> DEFINE v == ReadValue(fns, f.kind, t.val)
             x(m) == IF f.many THEN Append(m[f.name], v.msg) ELSE v.msg
             z == ReadValue(fns, g.kind, u.val)
             y(m) == IF g.many THEN Append(m[g.name], z.msg) ELSE z.msg
             M == r.msg
  <2>4. \A s : ~s.thrown =>
          ReadTag(fns, type, s, t) =
            IF v.thrown THEN ReadThrew ELSE Read(Assigned(s.msg, f.name, x(s.msg)))
    BY <2>1, ReadKnown
  <2>5. \A s : ~s.thrown =>
          ReadTag(fns, type, s, u) =
            IF z.thrown THEN ReadThrew ELSE Read(Assigned(s.msg, g.name, y(s.msg)))
    BY <2>2, ReadKnown
  <2>6. \A s : ReadTag(fns, type, ReadThrew, s) = ReadThrew
    BY DEF ReadTag, ReadThrew
  <2>7. \A m : ~Read(m).thrown /\ Read(m).msg = m
    BY DEF Read
  <2> DEFINE A == Assigned(M, f.name, x(M))
             B == Assigned(M, g.name, y(M))
  <2>8. f.many => f.name \in DOMAIN M
    BY <1>3 DEF Ready
  <2>9. g.many => g.name \in DOMAIN M
    BY <1>3 DEF Ready
  <2> HIDE DEF v, z, M
  <2>10. x(B) = x(M)
    <3>1. f.many => B[f.name] = M[f.name]
      BY <2>3, <2>8 DEF Assigned
    <3> HIDE DEF B
    <3> QED BY <3>1
  <2>11. y(A) = y(M)
    <3>1. g.many => A[g.name] = M[g.name]
      BY <2>3, <2>9 DEF Assigned
    <3> HIDE DEF A
    <3> QED BY <3>1
  <2>12. Assigned(A, g.name, y(M)) = Assigned(B, f.name, x(M))
    <3> HIDE DEF x, y
    <3> QED BY <2>3 DEF Assigned
  <2> HIDE DEF A, B, x, y
  <2>13. ~v.thrown => ReadTag(fns, type, r, t) = Read(A)
    BY <1>3, <2>4 DEF A, M
  <2>14. ~z.thrown => ReadTag(fns, type, r, u) = Read(B)
    BY <1>3, <2>5 DEF B, M
  <2>15. v.thrown => ReadTag(fns, type, r, t) = ReadThrew
    BY <1>3, <2>4
  <2>16. z.thrown => ReadTag(fns, type, r, u) = ReadThrew
    BY <1>3, <2>5
  <2>17. ReadTag(fns, type, Read(A), u) =
           IF z.thrown THEN ReadThrew ELSE Read(Assigned(A, g.name, y(A)))
    BY <2>5, <2>7
  <2>18. ReadTag(fns, type, Read(B), t) =
           IF v.thrown THEN ReadThrew ELSE Read(Assigned(B, f.name, x(B)))
    BY <2>4, <2>7
  <2> QED BY <2>6, <2>10, <2>11, <2>12, <2>13, <2>14, <2>15, <2>16, <2>17, <2>18
<1> QED BY <1>1, <1>2, <1>3

LEMMA SwapRead ==
  ASSUME NEW fns, NEW type \in Types, NEW r, Ready(type, r), NEW w, IsBytes(w),
         NEW i \in 1..(Len(w) - 1), w[i].no # w[i + 1].no
  PROVE  LET s == [w EXCEPT ![i] = w[i + 1], ![i + 1] = w[i]]
         IN  IsBytes(s) /\ ReadAll(fns, type, r, s) = ReadAll(fns, type, r, w)
<1>1. PICK S : w \in Seq(S)
  BY DEF IsBytes
<1>2. PICK n \in Nat : n = Len(w)
  BY <1>1, LenProperties
<1> DEFINE s == [w EXCEPT ![i] = w[i + 1], ![i + 1] = w[i]]
<1>3. /\ i \in 1..n /\ i + 1 \in 1..n /\ i + 1 - 1 = i
      /\ i - 1 \in 0..n /\ i \in 0..n /\ i + 1 \in 0..n
  BY <1>2
<1>4. DOMAIN w = 1..n /\ \A j \in 1..n : w[j] \in S
  BY <1>1, <1>2
<1>5. /\ DOMAIN s = 1..n
      /\ s[i] = w[i + 1] /\ s[i + 1] = w[i]
      /\ \A j \in 1..n : j # i /\ j # i + 1 => s[j] = w[j]
  BY <1>3, <1>4
<1>6. s \in Seq(S) /\ Len(s) = n
  <2>1. s \in [1..n -> S]
    BY <1>3, <1>4
  <2> HIDE DEF s
  <2> QED BY <2>1
<1> HIDE DEF s
<1>7. PICK h : Runs(h, fns, type, r, w) /\ ReadAll(fns, type, r, w) = h[n]
  BY <1>2, RunExists
<1>8. \A j \in 1..n : h[j] = ReadTag(fns, type, h[j - 1], w[j])
  BY <1>2, <1>7 DEF Runs
<1>9. \A j \in 0..n : Ready(type, h[j])
  <2> DEFINE P == {j \in 0..n : Ready(type, h[j])}
  <2>1. 0 \in P
    BY <1>7 DEF Runs
  <2>2. \A j \in 1..n : j - 1 \in P => j \in P
    BY <1>8, ReadyTurn
  <2>3. P \subseteq 0..n
    OBVIOUS
  <2> HIDE DEF P
  <2>4. \A j \in 0..n : j \in P
    BY <2>1, <2>2, <2>3, IndexInduction
  <2> QED BY <2>4 DEF P
<1> DEFINE k == [j \in 0..n |-> IF j = i THEN ReadTag(fns, type, h[i - 1], w[i + 1]) ELSE h[j]]
<1>10. ASSUME NEW j \in 1..n PROVE k[j] = ReadTag(fns, type, k[j - 1], s[j])
  <2>1. j \in 0..n /\ j - 1 \in 0..n
    OBVIOUS
  <2>2. CASE j = i
    <3>1. k[j - 1] = h[i - 1]
      BY <2>1, <2>2
    <3>2. k[j] = ReadTag(fns, type, h[i - 1], w[i + 1])
      BY <2>1, <2>2
    <3> QED BY <1>5, <2>2, <3>1, <3>2
  <2>3. CASE j = i + 1
    <3>1. k[j - 1] = ReadTag(fns, type, h[i - 1], w[i + 1])
      BY <1>3, <2>1, <2>3
    <3>2. k[j] = h[i + 1]
      BY <2>1, <2>3
    <3>3. h[i + 1] = ReadTag(fns, type, h[i], w[i + 1]) /\ h[i] = ReadTag(fns, type, h[i - 1], w[i])
      BY <1>3, <1>8
    <3>4. s[j] = w[i]
      BY <1>5, <2>3
    <3> HIDE DEF k
    <3> QED BY <1>3, <1>9, <3>1, <3>2, <3>3, <3>4, TurnsCommute
  <2>4. CASE j # i /\ j # i + 1
    <3>1. k[j - 1] = h[j - 1] /\ k[j] = h[j]
      BY <2>1, <2>4
    <3> HIDE DEF k
    <3> QED BY <1>5, <1>8, <2>4, <3>1
  <2> QED BY <2>2, <2>3, <2>4
<1>11. k[0] = r /\ k[n] = h[n]
  <2>1. h[0] = r /\ 0 \in 0..n /\ n \in 0..n /\ i # 0 /\ i # n
    BY <1>2, <1>7 DEF Runs
  <2> QED BY <2>1
<1> HIDE DEF k
<1>12. Runs(k, fns, type, r, s)
  BY <1>6, <1>10, <1>11 DEF Runs
<1>13. ReadAll(fns, type, r, s) = k[n]
  BY <1>6, <1>12, RunEnds
<1>14. IsBytes(s)
  BY <1>6 DEF IsBytes
<1> QED BY <1>7, <1>11, <1>13, <1>14 DEF s

-----------------------------------------------------------------------------
(* A field that is written is refused or read back *)

\* One function of each message.
Partials(fns) == [kind \in DOMAIN fns |-> fns[kind].fromPartial]
Writers(fns) == [kind \in DOMAIN fns |-> fns[kind].toJSON]
Readers(fns) == [kind \in DOMAIN fns |-> fns[kind].fromJSON]

\* What the functions of one kind of message promise.
Keeps(fn, fits, safe, msg) ==
  /\ \A newer \in BOOLEAN :
       LET w == fn.encode[newer][msg]
       IN  /\ w.thrown \in BOOLEAN
           /\ w.thrown <=> msg \notin fits
           /\ ~w.thrown =>
                fn.decode[w.bytes] = IF msg \in safe THEN Read(fn.fromPartial[msg]) ELSE ReadThrew
  /\ fn.fromJSON[fn.toJSON[msg]] = fn.fromPartial[msg]

Good(fns, fits, safe) ==
  /\ DOMAIN fits = DOMAIN fns /\ DOMAIN safe = DOMAIN fns
  /\ \A kind \in DOMAIN fns : \A msg \in Objects[kind] :
       Keeps(fns[kind], fits[kind], safe[kind], msg)

\* One value of a field fits, can be held, and is read as.
FitsOne(fits, f, v) ==
  IF f.kind = "int32" THEN v <= MaxInt32 ELSE IsScalar(f.kind) \/ v \in fits[f.kind]
SafeOne(safe, f, v) ==
  IF f.kind = "int64" THEN v <= MaxSafe ELSE IsScalar(f.kind) \/ v \in safe[f.kind]
ThroughOne(fn, f, v) == IF IsScalar(f.kind) THEN v ELSE fn[f.kind][v]

\* The value v of a field, written as w, is refused or read back.
ValueKept(fns, fits, safe, f, v, w) ==
  /\ w.thrown \in BOOLEAN
  /\ w.thrown <=> ~FitsOne(fits, f, v)
  /\ ~w.thrown =>
       \E val : /\ w.bytes = <<Token(f, val)>>
                /\ ReadValue(fns, f.kind, val) =
                     IF SafeOne(safe, f, v) THEN Read(ThroughOne(Partials(fns), f, v))
                     ELSE ReadThrew

LEMMA TagGood ==
  ASSUME NEW fns, NEW fits, NEW safe, Good(fns, fits, safe),
         NEW f, IsScalar(f.kind) \/ f.kind \in DOMAIN fns, NEW v \in Values(f.kind),
         NEW newer \in BOOLEAN
  PROVE  ValueKept(fns, fits, safe, f, v, Tag(fns, newer, f, v))
<1> DEFINE w == Tag(fns, newer, f, v)
<1>0. \A b : /\ Wrote(b).thrown = FALSE /\ Wrote(b).bytes = b
             /\ WriteThrew.thrown = TRUE
  BY DEF Wrote, WriteThrew
<1>1. CASE IsScalar(f.kind)
  <2>1. f.kind \in {"int32", "int64"} => v \in Nat
    BY DEF Values
  <2>2. w = IF f.kind = "int32" /\ v > MaxInt32 THEN WriteThrew ELSE Wrote(<<Token(f, v)>>)
    BY <1>1 DEF Tag
  <2>3. FitsOne(fits, f, v) <=> ~(f.kind = "int32" /\ v > MaxInt32)
    BY <1>1, <2>1, LimitsAssumption DEF FitsOne
  <2>4. SafeOne(safe, f, v) <=> ~(f.kind = "int64" /\ v > MaxSafe)
    BY <1>1, <2>1, LimitsAssumption DEF SafeOne
  <2>5. ReadValue(fns, f.kind, v) = IF f.kind = "int64" /\ v > MaxSafe THEN ReadThrew ELSE Read(v)
    BY <1>1 DEF ReadValue
  <2>6. ThroughOne(Partials(fns), f, v) = v
    BY <1>1 DEF ThroughOne
  <2> HIDE DEF w, ValueKept
  <2> QED BY <1>0, <2>2, <2>3, <2>4, <2>5, <2>6 DEF w, ValueKept
<1>2. CASE ~IsScalar(f.kind)
  <2> DEFINE inside == fns[f.kind].encode[newer][v]
  <2>1. f.kind # "int32" /\ f.kind # "int64"
    BY <1>2 DEF IsScalar
  <2>2. v \in Objects[f.kind] /\ f.kind \in DOMAIN fns
    BY <1>2 DEF Values, IsScalar
  <2>3. Keeps(fns[f.kind], fits[f.kind], safe[f.kind], v)
    BY <2>2 DEF Good
  <2>4. w = IF inside.thrown THEN WriteThrew ELSE Wrote(<<Token(f, inside.bytes)>>)
    BY <1>2, <2>1 DEF Tag
  <2>5. FitsOne(fits, f, v) <=> v \in fits[f.kind]
    BY <1>2, <2>1 DEF FitsOne
  <2>6. SafeOne(safe, f, v) <=> v \in safe[f.kind]
    BY <1>2, <2>1 DEF SafeOne
  <2>7. ReadValue(fns, f.kind, inside.bytes) = fns[f.kind].decode[inside.bytes]
    BY <1>2, <2>1 DEF ReadValue
  <2>8. ThroughOne(Partials(fns), f, v) = fns[f.kind].fromPartial[v]
    BY <1>2, <2>2 DEF ThroughOne, Partials
  <2>9. /\ inside.thrown \in BOOLEAN
        /\ inside.thrown <=> v \notin fits[f.kind]
        /\ ~inside.thrown =>
             fns[f.kind].decode[inside.bytes] =
               IF v \in safe[f.kind] THEN Read(fns[f.kind].fromPartial[v]) ELSE ReadThrew
    BY <2>3 DEF Keeps
  <2> HIDE DEF w, inside
  <2> QED BY <1>0, <2>4, <2>5, <2>6, <2>7, <2>8, <2>9 DEF w, ValueKept
<1> QED BY <1>1, <1>2

\* A message as it is before the field is read.
Unread(m, f) ==
  /\ m = [x \in DOMAIN m |-> m[x]]
  /\ f.name \in DOMAIN m <=> ~Optional(f)
  /\ ~Optional(f) => m[f.name] = Default(f)

\* Reading the tag of a value.
LEMMA ReadToken ==
  ASSUME NEW fns, NEW type \in Types, NEW f \in Fields(type), NEW val, NEW m
  PROVE  LET v == ReadValue(fns, f.kind, val)
         IN  ReadAll(fns, type, Read(m), <<Token(f, val)>>) =
               IF v.thrown THEN ReadThrew
               ELSE Read(Assigned(m, f.name, IF f.many THEN Append(m[f.name], v.msg) ELSE v.msg))
<1> DEFINE t == Token(f, val)
           r == Read(m)
<1>1. Known(type, t) = {f} /\ t.val = val
  BY KnownToken
<1>2. r.msg = m /\ ~r.thrown
  BY DEF Read
<1> HIDE DEF t, r
<1>3. ReadAll(fns, type, r, <<t>>) = ReadTag(fns, type, r, t)
  BY ReadOne
<1> DEFINE v == ReadValue(fns, f.kind, t.val)
<1>4. ReadTag(fns, type, r, t) =
        IF v.thrown THEN ReadThrew
        ELSE Read(Assigned(r.msg, f.name, IF f.many THEN Append(r.msg[f.name], v.msg) ELSE v.msg))
  BY <1>1, <1>2, ReadKnown
<1>5. v = ReadValue(fns, f.kind, val)
  BY <1>1
<1> HIDE DEF v
<1>6. ReadAll(fns, type, r, <<t>>) =
        IF v.thrown THEN ReadThrew
        ELSE Read(Assigned(m, f.name, IF f.many THEN Append(m[f.name], v.msg) ELSE v.msg))
  BY ONLY <1>2, <1>3, <1>4
<1> QED BY ONLY <1>5, <1>6 DEF t, r

LEMMA AssignedSame ==
  ASSUME NEW m, m = [x \in DOMAIN m |-> m[x]], NEW name \in DOMAIN m
  PROVE  Assigned(m, name, m[name]) = m
BY DEF Assigned

LEMMA AppendNext ==
  ASSUME NEW g, NEW k \in Nat
  PROVE  Append([j \in 1..k |-> g[j]], g[k + 1]) = [j \in 1..(k + 1) |-> g[j]]
<1> DEFINE S == {g[j] : j \in 1..(k + 1)}
           q == [j \in 1..k |-> g[j]]
<1>1. q \in Seq(S) /\ Len(q) = k
  <2>1. q \in [1..k -> S]
    OBVIOUS
  <2>2. \A j \in 1..k : q[j] = g[j]
    OBVIOUS
  <2> HIDE DEF q, S
  <2> QED BY <2>1
<1>2. g[k + 1] \in S
  OBVIOUS
<1>3. \A j \in 1..k : q[j] = g[j]
  OBVIOUS
<1> DEFINE p == Append(q, g[k + 1])
<1> HIDE DEF q, S
<1>4. p \in Seq(S) /\ Len(p) = k + 1 /\ p[k + 1] = g[k + 1] /\ \A j \in 1..k : p[j] = q[j]
  BY <1>1, <1>2, AppendProperties
<1> HIDE DEF p
<1>5. p = [j \in 1..(k + 1) |-> p[j]]
  BY <1>4
<1>6. \A j \in 1..(k + 1) : p[j] = g[j]
  <2> SUFFICES ASSUME NEW j \in 1..(k + 1) PROVE p[j] = g[j]
    OBVIOUS
  <2>1. j \in 1..k \/ j = k + 1
    OBVIOUS
  <2> QED BY <1>3, <1>4, <2>1
<1> QED BY <1>5, <1>6 DEF p, q

\* The list s of a field, written as w, is refused or read back.
ListKept(fns, fits, safe, type, f, s, w) ==
  /\ w.thrown \in BOOLEAN
  /\ w.thrown <=> ~\A i \in DOMAIN s : FitsOne(fits, f, s[i])
  /\ ~w.thrown => IsBytes(w.bytes)
  /\ \A m : ~w.thrown /\ Unread(m, f) =>
       ReadAll(fns, type, Read(m), w.bytes) =
         IF \A i \in DOMAIN s : SafeOne(safe, f, s[i])
         THEN Read(Assigned(m, f.name, Through(Partials(fns), f, s)))
         ELSE ReadThrew

LEMMA ListWritten ==
  ASSUME NEW fns, NEW fits, NEW safe, Good(fns, fits, safe),
         NEW type \in Types, NEW f \in Fields(type), IsScalar(f.kind) \/ f.kind \in DOMAIN fns,
         f.many, NEW s \in Seq(Values(f.kind)), NEW newer \in BOOLEAN
  PROVE  ListKept(fns, fits, safe, type, f, s,
                  Joined([i \in DOMAIN s |-> Tag(fns, newer, f, s[i])]))
<1> DEFINE T == [i \in DOMAIN s |-> Tag(fns, newer, f, s[i])]
           B == [i \in DOMAIN s |-> T[i].bytes]
           w == Joined(T)
<1>1. PICK n \in Nat : n = Len(s) /\ DOMAIN s = 1..n /\ s = [i \in 1..n |-> s[i]]
  BY LenProperties
<1>2. ASSUME NEW i \in 1..n PROVE ValueKept(fns, fits, safe, f, s[i], T[i])
  <2>1. s[i] \in Values(f.kind)
    BY <1>1, ElementOfSeq
  <2>2. T[i] = Tag(fns, newer, f, s[i])
    BY <1>1
  <2> HIDE DEF T
  <2>3. ValueKept(fns, fits, safe, f, s[i], Tag(fns, newer, f, s[i]))
    BY <2>1, TagGood
  <2> QED BY <2>2, <2>3
<1>3. DOMAIN T = 1..n /\ DOMAIN B = 1..n /\ \A i \in 1..n : B[i] = T[i].bytes
  BY <1>1
<1>4. B = [i \in DOMAIN T |-> T[i].bytes]
  BY <1>1, <1>3
<1>5. Len(B) = n /\ \E S : B \in Seq(S)
  <2>1. B \in [1..n -> {B[i] : i \in 1..n}]
    BY <1>1
  <2> HIDE DEF B
  <2>2. B \in Seq({B[i] : i \in 1..n})
    BY <2>1
  <2> QED BY <1>3, <2>2
<1> HIDE DEF T, B
<1>6. w = IF \E i \in 1..n : T[i].thrown THEN WriteThrew ELSE Wrote(FlattenSeq(B))
  BY <1>3, <1>4 DEF Joined
<1>7. /\ w.thrown \in BOOLEAN
      /\ w.thrown <=> ~\A i \in 1..n : FitsOne(fits, f, s[i])
      /\ ~w.thrown => w.bytes = FlattenSeq(B)
  <2>1. /\ WriteThrew.thrown = TRUE /\ Wrote(FlattenSeq(B)).thrown = FALSE
        /\ Wrote(FlattenSeq(B)).bytes = FlattenSeq(B)
    BY DEF WriteThrew, Wrote
  <2>2. (\E i \in 1..n : T[i].thrown) <=> ~\A i \in 1..n : FitsOne(fits, f, s[i])
    BY <1>2 DEF ValueKept
  <2> HIDE DEF w
  <2> QED BY <1>6, <2>1, <2>2
<1> HIDE DEF w
<1>8. ASSUME ~w.thrown, NEW i \in 1..n
      PROVE  \E val : /\ B[i] = <<Token(f, val)>>
                      /\ ReadValue(fns, f.kind, val) =
                           IF SafeOne(safe, f, s[i]) THEN Read(ThroughOne(Partials(fns), f, s[i]))
                           ELSE ReadThrew
  BY <1>2, <1>3, <1>7, <1>8 DEF ValueKept
<1>9. \A t : IsBytes(<<t>>) /\ Len(<<t>>) = 1
  <2>1. \A t : <<t>> \in Seq({t}) /\ Len(<<t>>) = 1
    OBVIOUS
  <2> QED BY <2>1 DEF IsBytes
<1>10. ASSUME ~w.thrown, NEW i \in 1..n PROVE IsBytes(B[i])
  BY <1>8, <1>9, <1>10
<1> DEFINE g == [i \in 1..n |-> ThroughOne(Partials(fns), f, s[i])]
           Safely(i) == \A j \in 1..i : SafeOne(safe, f, s[j])
           List(m, i) == Assigned(m, f.name, [j \in 1..i |-> g[j]])
           R(m) == [i \in 0..n |-> IF Safely(i) THEN Read(List(m, i)) ELSE ReadThrew]
<1>11. ASSUME NEW m, ~w.thrown, NEW i \in 1..n
       PROVE  R(m)[i] = ReadAll(fns, type, R(m)[i - 1], B[i])
  <2>1. PICK val : /\ B[i] = <<Token(f, val)>>
                   /\ ReadValue(fns, f.kind, val) =
                        IF SafeOne(safe, f, s[i]) THEN Read(ThroughOne(Partials(fns), f, s[i]))
                        ELSE ReadThrew
    BY <1>8, <1>11
  <2>2. PICK k \in Nat : k = i - 1 /\ k \in 0..n /\ i \in 0..n /\ i = k + 1
    OBVIOUS
  <2>3. Safely(i) <=> Safely(k) /\ SafeOne(safe, f, s[i])
    <3>1. \A j \in 1..i : j \in 1..k \/ j = i
      BY <2>2
    <3>2. \A j \in 1..k : j \in 1..i
      BY <2>2
    <3>3. i \in 1..i
      OBVIOUS
    <3> QED BY <3>1, <3>2, <3>3
  <2>4. R(m)[i] = IF Safely(i) THEN Read(List(m, i)) ELSE ReadThrew
    BY <2>2
  <2>5. R(m)[k] = IF Safely(k) THEN Read(List(m, k)) ELSE ReadThrew
    BY <2>2
  <2>6. g[i] = ThroughOne(Partials(fns), f, s[i])
    OBVIOUS
  <2> DEFINE q == [j \in 1..k |-> g[j]]
  <2>7. Append(q, g[i]) = [j \in 1..i |-> g[j]]
    <3> HIDE DEF g
    <3> QED BY <2>2, AppendNext
  <2>8. List(m, k)[f.name] = q
    <3> HIDE DEF g
    <3> QED BY DEF Assigned
  <2>9. \A x : Assigned(List(m, k), f.name, x) = Assigned(m, f.name, x)
    <3> HIDE DEF q, g
    <3> QED BY DEF Assigned
  <2>10. Assigned(List(m, k), f.name, Append(List(m, k)[f.name], g[i])) = List(m, i)
    <3> DEFINE L == List(m, k)
    <3>1. List(m, i) = Assigned(m, f.name, Append(q, g[i]))
      BY <2>7
    <3>2. L[f.name] = q /\ \A x : Assigned(L, f.name, x) = Assigned(m, f.name, x)
      BY <2>8, <2>9
    <3> HIDE DEF L, q, g, List
    <3>3. Assigned(L, f.name, Append(L[f.name], g[i])) = List(m, i)
      BY <3>1, <3>2
    <3> QED BY <3>3 DEF L
  <2> HIDE DEF R, List, g, q, Safely
  <2>11. ReadAll(fns, type, Read(List(m, k)), B[i]) =
           IF SafeOne(safe, f, s[i]) THEN Read(List(m, i)) ELSE ReadThrew
    <3> DEFINE v == ReadValue(fns, f.kind, val)
               L == List(m, k)
    <3>1. ReadAll(fns, type, Read(L), B[i]) =
            IF v.thrown THEN ReadThrew
            ELSE Read(Assigned(L, f.name, IF f.many THEN Append(L[f.name], v.msg) ELSE v.msg))
      <4> HIDE DEF L
      <4> QED BY <2>1, ReadToken
    <3>2. v = IF SafeOne(safe, f, s[i]) THEN Read(g[i]) ELSE ReadThrew
      BY <2>1, <2>6
    <3>3. /\ ReadThrew.thrown = TRUE
          /\ Read(g[i]).thrown = FALSE /\ Read(g[i]).msg = g[i]
      BY DEF Read, ReadThrew
    <3>4. Assigned(L, f.name, Append(L[f.name], g[i])) = List(m, i)
      BY <2>10
    <3> HIDE DEF v, L
    <3>5. ReadAll(fns, type, Read(L), B[i]) =
            IF SafeOne(safe, f, s[i]) THEN Read(List(m, i)) ELSE ReadThrew
      BY <3>1, <3>2, <3>3, <3>4
    <3> QED BY <3>5 DEF L
  <2>12. ReadAll(fns, type, ReadThrew, B[i]) = ReadThrew
    BY <1>9, <2>1, ReadRefused
  <2> QED BY <2>2, <2>3, <2>4, <2>5, <2>11, <2>12
<1>12. ~w.thrown => IsBytes(w.bytes)
  <2> SUFFICES ASSUME ~w.thrown PROVE IsBytes(w.bytes)
    OBVIOUS
  <2> DEFINE Z == R(<<>>)
  <2>1. \A i \in 1..n : Z[i] = ReadAll(fns, type, Z[i - 1], B[i])
    BY <1>11
  <2> HIDE DEF Z
  <2>2. Reads(Z, fns, type, B, n)
    BY <1>5, <1>10, <2>1 DEF Reads, IsBytes
  <2>3. IsBytes(FlattenSeq(B))
    BY <2>2, ReadFlattened
  <2> QED BY <1>7, <2>3
<1>13. ASSUME NEW m, ~w.thrown, Unread(m, f)
       PROVE  ReadAll(fns, type, Read(m), w.bytes) =
                IF \A i \in 1..n : SafeOne(safe, f, s[i])
                THEN Read(Assigned(m, f.name, Through(Partials(fns), f, s)))
                ELSE ReadThrew
  <2> DEFINE Z == R(m)
  <2>1. \A i \in 1..n : Z[i] = ReadAll(fns, type, Z[i - 1], B[i])
    BY <1>11, <1>13
  <2>2. Z[0] = Read(m)
    <3>1. Z[0] = IF Safely(0) THEN Read(List(m, 0)) ELSE ReadThrew
      OBVIOUS
    <3>2. Safely(0)
      OBVIOUS
    <3>3. [j \in 1..0 |-> g[j]] = <<>>
      <4> HIDE DEF g
      <4> QED OBVIOUS
    <3>4. List(m, 0) = m
      <4>1. m[f.name] = <<>> /\ f.name \in DOMAIN m /\ m = [x \in DOMAIN m |-> m[x]]
        BY <1>13 DEF Unread, Default, Optional
      <4> HIDE DEF g
      <4> QED BY <3>3, <4>1, AssignedSame
    <3> HIDE DEF Safely, List, Z
    <3> QED BY <3>1, <3>2, <3>4
  <2>3. Z[n] = IF Safely(n) THEN Read(List(m, n)) ELSE ReadThrew
    <3> n \in 0..n
      OBVIOUS
    <3> QED OBVIOUS
  <2>4. [j \in 1..n |-> g[j]] = Through(Partials(fns), f, s)
    BY <1>1 DEF Through, ThroughOne
  <2> HIDE DEF Z, g
  <2>5. Reads(Z, fns, type, B, n)
    BY <1>5, <1>10, <1>13, <2>1 DEF Reads, IsBytes
  <2>6. ReadAll(fns, type, Z[0], FlattenSeq(B)) = Z[n]
    BY <2>5, ReadFlattened
  <2> QED BY <1>7, <1>13, <2>2, <2>3, <2>4, <2>6
<1>14. w = Joined([i \in DOMAIN s |-> Tag(fns, newer, f, s[i])])
  BY DEF w, T
<1>15. ListKept(fns, fits, safe, type, f, s, w)
  BY <1>1, <1>7, <1>12, <1>13 DEF ListKept
<1> QED BY ONLY <1>14, <1>15

\* A property that is there is of its field's kind.
WellTyped(f, msg) ==
  f.name \in DOMAIN msg =>
    msg[f.name] \in IF f.many THEN Seq(Values(f.kind)) ELSE Values(f.kind)

\* The message m with the field of msg read into it.
Put(fns, f, msg, m) ==
  IF f.name \in DOMAIN msg
  THEN Assigned(m, f.name, Through(Partials(fns), f, msg[f.name])) ELSE m

\* The field of msg, written as w, is refused or read back.
FieldKept(fns, fits, safe, type, f, msg, w) ==
  /\ w.thrown \in BOOLEAN
  /\ w.thrown <=> ~FitsField(fits, f, msg)
  /\ ~w.thrown => IsBytes(w.bytes)
  /\ \A m : ~w.thrown /\ Unread(m, f) =>
       ReadAll(fns, type, Read(m), w.bytes) =
         IF SafeField(safe, f, msg) THEN Read(Put(fns, f, msg, m)) ELSE ReadThrew

\* Nothing is written, and nothing was to be said.
LEMMA NothingWritten ==
  ASSUME NEW fns, NEW fits, NEW safe, NEW type, NEW f, NEW msg,
         FitsField(fits, f, msg), SafeField(safe, f, msg),
         \A m : Unread(m, f) => Put(fns, f, msg, m) = m
  PROVE  FieldKept(fns, fits, safe, type, f, msg, Wrote(<<>>))
<1> DEFINE w == Wrote(<<>>)
<1>1. w.thrown = FALSE /\ w.bytes = <<>>
  BY DEF Wrote
<1>2. IsBytes(<<>>) /\ Len(<<>>) = 0
  <2>1. <<>> \in Seq({}) /\ Len(<<>>) = 0
    OBVIOUS
  <2> QED BY <2>1 DEF IsBytes
<1>3. \A m : ReadAll(fns, type, Read(m), <<>>) = Read(m)
  BY <1>2, ReadNone
<1> HIDE DEF w
<1>4. FieldKept(fns, fits, safe, type, f, msg, w)
  BY <1>1, <1>2, <1>3 DEF FieldKept
<1> QED BY <1>4 DEF w

\* Refused as it should be.
LEMMA FieldRefused ==
  ASSUME NEW fns, NEW fits, NEW safe, NEW type, NEW f, NEW msg, ~FitsField(fits, f, msg)
  PROVE  FieldKept(fns, fits, safe, type, f, msg, WriteThrew)
<1> DEFINE w == WriteThrew
<1>1. w.thrown = TRUE
  BY DEF WriteThrew
<1> HIDE DEF w
<1>2. FieldKept(fns, fits, safe, type, f, msg, w)
  BY <1>1 DEF FieldKept
<1> QED BY <1>2 DEF w

\* A field that is not there.
LEMMA MissingWritten ==
  ASSUME NEW fns, NEW fits, NEW safe,
         NEW type \in Types, NEW f \in Fields(type), NEW newer, NEW msg, f.name \notin DOMAIN msg
  PROVE  FieldKept(fns, fits, safe, type, f, msg, EncodeField(fns, newer, f, msg))
<1> DEFINE w == EncodeField(fns, newer, f, msg)
<1>0. SafeField(safe, f, msg) /\ \A m : Put(fns, f, msg, m) = m
  BY DEF SafeField, Put
<1>1. CASE Optional(f)
  <2>1. FitsField(fits, f, msg)
    BY <1>1 DEF FitsField, Optional, IsScalar
  <2>2. w = Wrote(<<>>)
    BY <1>1 DEF EncodeField
  <2> QED BY <1>0, <2>1, <2>2, NothingWritten
<1>2. CASE ~Optional(f) /\ (f.many \/ f.kind \in {"int32", "int64"})
  <2>1. ~FitsField(fits, f, msg)
    BY <1>2 DEF FitsField
  <2>2. w = WriteThrew
    BY <1>2 DEF EncodeField
  <2> QED BY <2>1, <2>2, FieldRefused
<1>3. CASE ~Optional(f) /\ ~(f.many \/ f.kind \in {"int32", "int64"})
  <2> DEFINE t == <<Token(f, Zero(f.kind))>>
  <2>1. FitsField(fits, f, msg)
    BY <1>3 DEF FitsField
  <2>2. w = Wrote(t)
    BY <1>3 DEF EncodeField
  <2>3. w.thrown = FALSE /\ w.bytes = t
    BY <2>2 DEF Wrote
  <2>4. IsBytes(t)
    <3>1. t \in Seq({Token(f, Zero(f.kind))})
      OBVIOUS
    <3> QED BY <3>1 DEF IsBytes
  <2>5. IsScalar(f.kind) /\ ~f.many
    BY <1>3 DEF Optional
  <2>6. ReadValue(fns, f.kind, Zero(f.kind)) = Read(Zero(f.kind))
    BY <1>3, <2>5 DEF ReadValue
  <2>7. ASSUME NEW m, Unread(m, f)
        PROVE  ReadAll(fns, type, Read(m), t) = Read(m)
    <3> DEFINE v == ReadValue(fns, f.kind, Zero(f.kind))
    <3>1. v.thrown = FALSE /\ v.msg = Zero(f.kind)
      BY <2>6 DEF Read
    <3>2. ReadAll(fns, type, Read(m), t) =
            IF v.thrown THEN ReadThrew
            ELSE Read(Assigned(m, f.name, IF f.many THEN Append(m[f.name], v.msg) ELSE v.msg))
      BY ReadToken
    <3>3. f.name \in DOMAIN m /\ m[f.name] = Zero(f.kind) /\ m = [x \in DOMAIN m |-> m[x]]
      BY <1>3, <2>5, <2>7 DEF Unread, Default
    <3>4. Assigned(m, f.name, Zero(f.kind)) = m
      BY <3>3, AssignedSame
    <3> HIDE DEF v, t
    <3> QED BY <2>5, <3>1, <3>2, <3>4
  <2> HIDE DEF w, t
  <2>8. FieldKept(fns, fits, safe, type, f, msg, w)
    BY <1>0, <2>1, <2>3, <2>4, <2>7 DEF FieldKept
  <2> QED BY <2>8 DEF w
<1> QED BY <1>1, <1>2, <1>3

LEMMA FieldWritten ==
  ASSUME NEW fns, NEW fits, NEW safe, Good(fns, fits, safe),
         NEW type \in Types, NEW f \in Fields(type), IsScalar(f.kind) \/ f.kind \in DOMAIN fns,
         NEW newer \in BOOLEAN, NEW msg, WellTyped(f, msg)
  PROVE  FieldKept(fns, fits, safe, type, f, msg, EncodeField(fns, newer, f, msg))
<1> DEFINE w == EncodeField(fns, newer, f, msg)
           v == msg[f.name]
<1>1. CASE f.name \notin DOMAIN msg
  BY <1>1, MissingWritten
<1>2. CASE f.name \in DOMAIN msg /\ f.many
  <2> DEFINE x == Joined([i \in DOMAIN v |-> Tag(fns, newer, f, v[i])])
  <2>1. w = x
    BY <1>2 DEF EncodeField
  <2>2. v \in Seq(Values(f.kind))
    BY <1>2 DEF WellTyped
  <2>3. ListKept(fns, fits, safe, type, f, v, x)
    <3> HIDE DEF v
    <3> QED BY <1>2, <2>2, ListWritten
  <2>4. FitsField(fits, f, msg) <=> \A i \in DOMAIN v : FitsOne(fits, f, v[i])
    BY <1>2 DEF FitsField, FitsOne, ToSet
  <2>5. SafeField(safe, f, msg) <=> \A i \in DOMAIN v : SafeOne(safe, f, v[i])
    BY <1>2 DEF SafeField, SafeOne, ToSet
  <2>6. \A m : Put(fns, f, msg, m) = Assigned(m, f.name, Through(Partials(fns), f, v))
    BY <1>2 DEF Put
  <2> HIDE DEF w, x, v
  <2>7. FieldKept(fns, fits, safe, type, f, msg, w)
    BY <2>1, <2>3, <2>4, <2>5, <2>6 DEF FieldKept, ListKept
  <2> QED BY <2>7 DEF w
<1>3. CASE f.name \in DOMAIN msg /\ ~f.many /\ IsScalar(f.kind) /\ v = Zero(f.kind)
  <2>1. w = Wrote(<<>>)
    BY <1>3 DEF EncodeField
  <2>2. f.kind \in {"int32", "int64"} => v = 0
    BY <1>3 DEF Zero
  <2>3. FitsField(fits, f, msg) /\ SafeField(safe, f, msg)
    BY <1>3, <2>2, LimitsAssumption DEF FitsField, SafeField
  <2>4. Through(Partials(fns), f, v) = v
    BY <1>3 DEF Through
  <2>5. ASSUME NEW m, Unread(m, f) PROVE Put(fns, f, msg, m) = m
    <3>1. f.name \in DOMAIN m /\ m[f.name] = v /\ m = [y \in DOMAIN m |-> m[y]]
      BY <1>3, <2>5 DEF Unread, Default, Optional
    <3>2. Assigned(m, f.name, v) = m
      BY <3>1, AssignedSame
    <3> QED BY <1>3, <2>4, <3>2 DEF Put
  <2> QED BY <2>1, <2>3, <2>5, NothingWritten
<1>4. CASE f.name \in DOMAIN msg /\ ~f.many /\ ~(IsScalar(f.kind) /\ v = Zero(f.kind))
  <2> DEFINE x == Tag(fns, newer, f, v)
  <2>1. w = x
    BY <1>4 DEF EncodeField
  <2>2. v \in Values(f.kind)
    BY <1>4 DEF WellTyped
  <2>3. ValueKept(fns, fits, safe, f, v, x)
    <3> HIDE DEF v
    <3> QED BY <2>2, TagGood
  <2>4. FitsField(fits, f, msg) <=> FitsOne(fits, f, v)
    BY <1>4 DEF FitsField, FitsOne
  <2>5. SafeField(safe, f, msg) <=> SafeOne(safe, f, v)
    BY <1>4 DEF SafeField, SafeOne
  <2>6. \A m : Put(fns, f, msg, m) = Assigned(m, f.name, ThroughOne(Partials(fns), f, v))
    BY <1>4 DEF Put, Through, ThroughOne
  <2> HIDE DEF w, x, v
  <2>7. ASSUME ~x.thrown
        PROVE  /\ IsBytes(x.bytes)
               /\ \A m : ReadAll(fns, type, Read(m), x.bytes) =
                    IF SafeOne(safe, f, v)
                    THEN Read(Assigned(m, f.name, ThroughOne(Partials(fns), f, v))) ELSE ReadThrew
    <3>1. PICK val : /\ x.bytes = <<Token(f, val)>>
                     /\ ReadValue(fns, f.kind, val) =
                          IF SafeOne(safe, f, v) THEN Read(ThroughOne(Partials(fns), f, v))
                          ELSE ReadThrew
      BY <2>3, <2>7 DEF ValueKept
    <3>2. IsBytes(<<Token(f, val)>>)
      <4>1. <<Token(f, val)>> \in Seq({Token(f, val)})
        OBVIOUS
      <4> QED BY <4>1 DEF IsBytes
    <3> DEFINE z == ReadValue(fns, f.kind, val)
               y == ThroughOne(Partials(fns), f, v)
    <3>3. /\ ReadThrew.thrown = TRUE
          /\ Read(y).thrown = FALSE /\ Read(y).msg = y
      BY DEF Read, ReadThrew
    <3>4. \A m : ReadAll(fns, type, Read(m), <<Token(f, val)>>) =
            IF z.thrown THEN ReadThrew
            ELSE Read(Assigned(m, f.name, IF f.many THEN Append(m[f.name], z.msg) ELSE z.msg))
      BY ReadToken
    <3>5. z = IF SafeOne(safe, f, v) THEN Read(y) ELSE ReadThrew
      BY <3>1
    <3> HIDE DEF z, y
    <3>6. \A m : ReadAll(fns, type, Read(m), x.bytes) =
            IF SafeOne(safe, f, v) THEN Read(Assigned(m, f.name, y)) ELSE ReadThrew
      BY <1>4, <3>1, <3>3, <3>4, <3>5
    <3> QED BY <3>1, <3>2, <3>6 DEF y
  <2>8. x.thrown \in BOOLEAN /\ (x.thrown <=> ~FitsOne(fits, f, v))
    BY <2>3 DEF ValueKept
  <2>9. FieldKept(fns, fits, safe, type, f, msg, x)
    BY <2>4, <2>5, <2>6, <2>7, <2>8 DEF FieldKept
  <2> QED BY <2>1, <2>9 DEF w
<1> QED BY <1>1, <1>2, <1>3, <1>4

-----------------------------------------------------------------------------
(* A message that is written is refused or read back *)

LEMMA BaseFields ==
  ASSUME NEW type \in Types, NEW f \in Fields(type)
  PROVE  /\ f.name \in DOMAIN Base(type) <=> ~Optional(f)
         /\ ~Optional(f) => Base(type)[f.name] = Default(f)
<1>1. \A g \in Fields(type) : g.name = f.name => g = f
  BY FieldsDiffer
<1>2. Field(type, f.name) = f
  BY FieldNamed
<1> QED BY <1>1, <1>2 DEF Base

\* The message while it is read: the first i fields of msg are done.
Done(type, msg, i) ==
  {Schema[type][j].name : j \in {k \in DOMAIN Schema[type] : k <= i}} \cap DOMAIN msg
Partway(fns, type, msg, i) ==
  [name \in DOMAIN Base(type) \cup Done(type, msg, i) |->
     IF name \in Done(type, msg, i) THEN Through(Partials(fns), Field(type, name), msg[name])
     ELSE Base(type)[name]]

LEMMA SchemaList ==
  ASSUME NEW type \in Types
  PROVE  \E n \in Nat :
           /\ n = Len(Schema[type]) /\ DOMAIN Schema[type] = 1..n
           /\ Schema[type] = [i \in 1..n |-> Schema[type][i]]
           /\ \A i \in 1..n : Schema[type][i] \in Fields(type)
           /\ \A f \in Fields(type) : \E i \in 1..n : f = Schema[type][i]
<1> DEFINE F == [no : Nat \ {100}, name : STRING, kind : STRING, many : BOOLEAN]
<1>1. Schema[type] \in Seq(F)
  BY SchemaAssumption DEF NewField
<1> HIDE DEF F
<1>2. /\ Len(Schema[type]) \in Nat /\ DOMAIN Schema[type] = 1..Len(Schema[type])
      /\ Schema[type] = [i \in 1..Len(Schema[type]) |-> Schema[type][i]]
  BY <1>1, LenProperties
<1> QED BY <1>2 DEF Fields, ToSet

LEMMA SchemaFields ==
  ASSUME NEW type \in Types, NEW n \in Nat, n = Len(Schema[type])
  PROVE  /\ DOMAIN Schema[type] = 1..n
         /\ Schema[type] = [i \in 1..n |-> Schema[type][i]]
         /\ \A i \in 1..n : Schema[type][i] \in Fields(type)
         /\ \A f \in Fields(type) : \E i \in 1..n : f = Schema[type][i]
<1>1. PICK k \in Nat : /\ k = Len(Schema[type]) /\ DOMAIN Schema[type] = 1..k
                       /\ Schema[type] = [i \in 1..k |-> Schema[type][i]]
                       /\ \A i \in 1..k : Schema[type][i] \in Fields(type)
                       /\ \A f \in Fields(type) : \E i \in 1..k : f = Schema[type][i]
  BY SchemaList
<1>2. k = n
  BY <1>1
<1>3. DOMAIN Schema[type] = 1..n
  BY <1>1, <1>2
<1>4. Schema[type] = [i \in 1..n |-> Schema[type][i]]
  BY ONLY <1>1, <1>2
<1>5. \A i \in 1..n : Schema[type][i] \in Fields(type)
  BY ONLY <1>1, <1>2
<1>6. \A f \in Fields(type) : \E i \in 1..n : f = Schema[type][i]
  BY <1>3 DEF Fields, ToSet
<1> QED BY ONLY <1>3, <1>4, <1>5, <1>6

LEMMA PartwayFirst ==
  ASSUME NEW fns, NEW type \in Types, NEW msg
  PROVE  Partway(fns, type, msg, 0) = Base(type)
<1>1. PICK n \in Nat : n = Len(Schema[type]) /\ DOMAIN Schema[type] = 1..n
  BY SchemaList
<1>2. Done(type, msg, 0) = {}
  BY <1>1 DEF Done
<1> QED BY <1>2 DEF Partway, Base

LEMMA PartwayLast ==
  ASSUME NEW fns, NEW type \in Types, NEW msg, NEW n \in Nat, n = Len(Schema[type]),
         NEW i \in Nat, i >= n
  PROVE  Partway(fns, type, msg, i) = Filled(Partials(fns), type, msg)
<1>1. /\ DOMAIN Schema[type] = 1..n
      /\ \A j \in 1..n : Schema[type][j] \in Fields(type)
      /\ \A f \in Fields(type) : \E j \in 1..n : f = Schema[type][j]
  BY SchemaFields
<1>2. Done(type, msg, i) = Names(type) \cap DOMAIN msg
  <2>1. {k \in DOMAIN Schema[type] : k <= i} = 1..n
    BY <1>1
  <2> QED BY <1>1, <2>1 DEF Done, Names
<1>3. \A name \in DOMAIN Base(type) : name \in DOMAIN msg => name \in Names(type)
  BY DEF Base, Names
<1> QED BY <1>2, <1>3 DEF Partway, Filled

LEMMA PartwayNext ==
  ASSUME NEW fns, NEW type \in Types, NEW msg, NEW n \in Nat, n = Len(Schema[type]), NEW i \in 1..n
  PROVE  LET f == Schema[type][i]
             m == Partway(fns, type, msg, i - 1)
         IN  Unread(m, f) /\ Put(fns, f, msg, m) = Partway(fns, type, msg, i)
<1> DEFINE f == Schema[type][i]
           m == Partway(fns, type, msg, i - 1)
           D == Done(type, msg, i - 1)
<1>1. /\ DOMAIN Schema[type] = 1..n
      /\ \A j \in 1..n : Schema[type][j] \in Fields(type)
  BY SchemaFields
<1>2. f \in Fields(type) /\ Field(type, f.name) = f
  BY <1>1, FieldNamed
<1>3. f.name \notin D
  <2>1. ASSUME NEW j \in 1..n, j <= i - 1 PROVE Schema[type][j].name # f.name
    <3>1. j # i
      BY <2>1
    <3>2. j \in DOMAIN Schema[type] /\ i \in DOMAIN Schema[type]
      BY <1>1
    <3> QED BY <3>1, <3>2, SchemaAssumption
  <2> QED BY <1>1, <2>1 DEF Done
<1>4. Done(type, msg, i) = D \cup ({f.name} \cap DOMAIN msg)
  <2>1. {k \in DOMAIN Schema[type] : k <= i} = {k \in DOMAIN Schema[type] : k <= i - 1} \cup {i}
    BY <1>1
  <2> QED BY <2>1 DEF Done
<1>5. Unread(m, f)
  <2>1. DOMAIN m = DOMAIN Base(type) \cup D /\ m = [x \in DOMAIN m |-> m[x]]
    BY DEF Partway
  <2>2. f.name \in DOMAIN Base(type) => m[f.name] = Base(type)[f.name]
    BY <1>3 DEF Partway
  <2> HIDE DEF m, D, f
  <2> QED BY <1>2, <1>3, <2>1, <2>2, BaseFields DEF Unread
<1>6. Put(fns, f, msg, m) = Partway(fns, type, msg, i)
  <2>1. CASE f.name \notin DOMAIN msg
    <3>1. Done(type, msg, i) = D
      BY <1>4, <2>1
    <3> QED BY <2>1, <3>1 DEF Put, Partway
  <2>2. CASE f.name \in DOMAIN msg
    <3> DEFINE E == Done(type, msg, i)
               x == Through(Partials(fns), f, msg[f.name])
    <3>1. E = D \cup {f.name}
      BY <1>4, <2>2
    <3>2. Put(fns, f, msg, m) = [y \in DOMAIN m \cup {f.name} |-> IF y = f.name THEN x ELSE m[y]]
      BY <2>2 DEF Put, Assigned
    <3>3. m = [y \in DOMAIN Base(type) \cup D |->
                 IF y \in D THEN Through(Partials(fns), Field(type, y), msg[y]) ELSE Base(type)[y]]
      BY DEF Partway
    <3>4. Partway(fns, type, msg, i) =
            [y \in DOMAIN Base(type) \cup E |->
                 IF y \in E THEN Through(Partials(fns), Field(type, y), msg[y]) ELSE Base(type)[y]]
      BY DEF Partway
    <3>5. x = Through(Partials(fns), Field(type, f.name), msg[f.name])
      BY <1>2
    <3> HIDE DEF m, D, E, x, f
    <3>6. DOMAIN m = DOMAIN Base(type) \cup D
      BY <3>3
    <3>7. \A y \in DOMAIN m \cup {f.name} :
            (IF y = f.name THEN x ELSE m[y]) =
            IF y \in E THEN Through(Partials(fns), Field(type, y), msg[y]) ELSE Base(type)[y]
      BY <3>1, <3>3, <3>5
    <3>8. DOMAIN m \cup {f.name} = DOMAIN Base(type) \cup E
      BY <3>1, <3>6
    <3> QED BY <3>2, <3>4, <3>7, <3>8
  <2> QED BY <2>1, <2>2
<1> QED BY <1>5, <1>6

\* The message msg, written as w, is refused or read back.
MessageKept(fns, fits, safe, type, msg, w) ==
  /\ w.thrown \in BOOLEAN
  /\ w.thrown <=> ~\A f \in Fields(type) : FitsField(fits, f, msg)
  /\ ~w.thrown =>
       /\ IsBytes(w.bytes)
       /\ Decode(fns, type, w.bytes) =
            IF \A f \in Fields(type) : SafeField(safe, f, msg)
            THEN Read(Filled(Partials(fns), type, msg)) ELSE ReadThrew

\* The kinds of a message's fields are known, and its properties are of them.
Reachable(fns, type) == \A f \in Fields(type) : IsScalar(f.kind) \/ f.kind \in DOMAIN fns
AllTyped(type, msg) == \A f \in Fields(type) : WellTyped(f, msg)

\* What a newer writer adds is passed over.
LEMMA ExtraSkipped ==
  ASSUME NEW fns, NEW type \in Types, NEW r, NEW newer \in BOOLEAN
  PROVE  LET extra == IF newer THEN <<NewField>> ELSE <<>>
         IN  IsBytes(extra) /\ ReadAll(fns, type, r, extra) = r
<1>1. CASE newer
  <2>1. ReadAll(fns, type, r, <<NewField>>) = ReadTag(fns, type, r, NewField)
    BY ReadOne
  <2>2. ReadTag(fns, type, r, NewField) = r
    BY NewFieldUnknown DEF ReadTag
  <2>3. <<NewField>> \in Seq({NewField})
    OBVIOUS
  <2> QED BY <1>1, <2>1, <2>2, <2>3 DEF IsBytes
<1>2. CASE ~newer
  <2>1. <<>> \in Seq({}) /\ Len(<<>>) = 0
    OBVIOUS
  <2> QED BY <1>2, <2>1, ReadNone DEF IsBytes
<1> QED BY <1>1, <1>2

LEMMA MessageWritten ==
  ASSUME NEW fns, NEW fits, NEW safe, Good(fns, fits, safe),
         NEW type \in Types, Reachable(fns, type), NEW newer \in BOOLEAN,
         NEW msg, AllTyped(type, msg)
  PROVE  MessageKept(fns, fits, safe, type, msg, Encode(fns, newer, type, msg))
<1> DEFINE F == Schema[type]
           W == [i \in DOMAIN F |-> EncodeField(fns, newer, F[i], msg)]
           extra == IF newer THEN <<NewField>> ELSE <<>>
           last == Wrote(extra)
           all == W \o <<last>>
           B == [i \in DOMAIN all |-> all[i].bytes]
           w == Encode(fns, newer, type, msg)
<1>1. PICK n \in Nat : n = Len(F)
  BY SchemaList
<1>2. /\ DOMAIN F = 1..n
      /\ \A i \in 1..n : F[i] \in Fields(type)
      /\ \A f \in Fields(type) : \E i \in 1..n : f = F[i]
  BY <1>1, SchemaFields
<1>3. \A i \in 1..n : W[i] = EncodeField(fns, newer, F[i], msg)
  BY <1>2
<1>4. ASSUME NEW i \in 1..n PROVE FieldKept(fns, fits, safe, type, F[i], msg, W[i])
  <2>1. F[i] \in Fields(type)
    BY <1>2
  <2>2. (IsScalar(F[i].kind) \/ F[i].kind \in DOMAIN fns) /\ WellTyped(F[i], msg)
    BY <2>1 DEF Reachable, AllTyped
  <2> HIDE DEF F, W
  <2>3. FieldKept(fns, fits, safe, type, F[i], msg, EncodeField(fns, newer, F[i], msg))
    BY <2>1, <2>2, FieldWritten
  <2> QED BY <1>3, <2>3
<1> DEFINE S == {W[i] : i \in 1..n} \cup {last}
<1>5. W \in Seq(S) /\ Len(W) = n
  <2>1. W \in [1..n -> S]
    BY <1>2
  <2> HIDE DEF W, S
  <2> QED BY <2>1
<1>6. /\ all \in Seq(S) /\ Len(all) = n + 1
      /\ \A i \in 1..n : all[i] = W[i]
      /\ all[n + 1] = last
  <2>1. <<last>> \in Seq(S) /\ Len(<<last>>) = 1 /\ <<last>>[1] = last
    <3>1. last \in S
      OBVIOUS
    <3> HIDE DEF last, S
    <3> QED BY <3>1
  <2> DEFINE one == <<last>>
  <2>2. one \in Seq(S) /\ Len(one) = 1 /\ one[1] = last
    BY <2>1
  <2> HIDE DEF W, S, last, one
  <2>0. /\ W \o one \in Seq(S) /\ Len(W \o one) = Len(W) + Len(one)
        /\ \A i \in 1..(Len(W) + Len(one)) :
             (W \o one)[i] = IF i <= Len(W) THEN W[i] ELSE one[i - Len(W)]
    BY <1>5, <2>2, ConcatProperties
  <2>3. /\ W \o one \in Seq(S) /\ Len(W \o one) = n + 1
        /\ \A i \in 1..(n + 1) : (W \o one)[i] = IF i <= n THEN W[i] ELSE one[i - n]
    BY <1>5, <2>2, <2>0
  <2>4. n + 1 \in 1..(n + 1) /\ ~(n + 1 <= n) /\ (n + 1) - n = 1
    OBVIOUS
  <2>5. (W \o one)[n + 1] = last
    BY <2>2, <2>3, <2>4
  <2>6. \A i \in 1..n : i \in 1..(n + 1) /\ i <= n
    OBVIOUS
  <2>7. \A i \in 1..n : (W \o one)[i] = W[i]
    BY <2>3, <2>6
  <2> QED BY <2>3, <2>5, <2>7 DEF one
<1>7. w = Joined(all)
  BY DEF Encode
<1>8. last.thrown = FALSE /\ last.bytes = extra
  BY DEF Wrote
<1> HIDE DEF W, S, last, w
<1>9. DOMAIN all = 1..(n + 1)
  <2> HIDE DEF all
  <2> QED BY <1>6
<1>10. /\ B \in Seq({B[i] : i \in 1..(n + 1)}) /\ Len(B) = n + 1
       /\ \A i \in 1..n : B[i] = W[i].bytes
       /\ B[n + 1] = extra
  <2>1. B = [i \in 1..(n + 1) |-> all[i].bytes]
    BY <1>9
  <2> HIDE DEF all, B
  <2>2. B \in [1..(n + 1) -> {B[i] : i \in 1..(n + 1)}]
    BY <2>1
  <2>3. n + 1 \in Nat /\ n + 1 \in 1..(n + 1) /\ \A i \in 1..n : i \in 1..(n + 1)
    OBVIOUS
  <2>4. B \in Seq({B[i] : i \in 1..(n + 1)}) /\ Len(B) = n + 1
    BY <2>1, <2>2, <2>3
  <2> QED BY <1>6, <1>8, <2>1, <2>3, <2>4
<1>11. w = IF \E i \in 1..(n + 1) : all[i].thrown THEN WriteThrew ELSE Wrote(FlattenSeq(B))
  BY <1>7, <1>9 DEF Joined
<1>12. (\E i \in 1..(n + 1) : all[i].thrown) <=> \E i \in 1..n : W[i].thrown
  <2>1. \A i \in 1..(n + 1) : i \in 1..n \/ i = n + 1
    OBVIOUS
  <2>2. \A i \in 1..n : i \in 1..(n + 1)
    OBVIOUS
  <2> HIDE DEF all
  <2> QED BY <1>6, <1>8, <2>1, <2>2
<1>13. \A i \in 1..n : /\ W[i].thrown \in BOOLEAN
                       /\ W[i].thrown <=> ~FitsField(fits, F[i], msg)
  BY <1>4 DEF FieldKept
<1>14. /\ w.thrown \in BOOLEAN
       /\ w.thrown <=> ~\A f \in Fields(type) : FitsField(fits, f, msg)
       /\ ~w.thrown => w.bytes = FlattenSeq(B)
  <2>1. /\ WriteThrew.thrown = TRUE
        /\ Wrote(FlattenSeq(B)).thrown = FALSE /\ Wrote(FlattenSeq(B)).bytes = FlattenSeq(B)
    BY DEF WriteThrew, Wrote
  <2>2. (\E i \in 1..n : W[i].thrown) <=> ~\A f \in Fields(type) : FitsField(fits, f, msg)
    BY <1>2, <1>13
  <2> HIDE DEF B, all
  <2> QED BY <1>11, <1>12, <2>1, <2>2
<1> DEFINE part(i) == Partway(fns, type, msg, i)
           Safely(i) == \A j \in 1..n : j <= i => SafeField(safe, F[j], msg)
           R == [i \in 0..(n + 1) |-> IF Safely(i) THEN Read(part(i)) ELSE ReadThrew]
<1>15. ASSUME ~w.thrown, NEW i \in 1..n
       PROVE  IsBytes(B[i]) /\ R[i] = ReadAll(fns, type, R[i - 1], B[i])
  <2>1. PICK k \in Nat : k = i - 1 /\ k \in 0..(n + 1) /\ i \in 0..(n + 1)
    OBVIOUS
  <2>2. ~W[i].thrown
    BY <1>11, <1>12, <1>13, <1>14, <1>15, <1>2
  <2>3. IsBytes(B[i])
    BY <1>4, <1>10, <2>2 DEF FieldKept
  <2>4. R[i] = IF Safely(i) THEN Read(part(i)) ELSE ReadThrew
    BY <2>1
  <2>5. R[k] = IF Safely(k) THEN Read(part(k)) ELSE ReadThrew
    BY <2>1
  <2>6. Safely(i) <=> Safely(k) /\ SafeField(safe, F[i], msg)
    <3>1. \A j \in 1..n : j <= i <=> j <= k \/ j = i
      BY <2>1
    <3> QED BY <3>1
  <2>7. Unread(part(k), F[i]) /\ Put(fns, F[i], msg, part(k)) = part(i)
    BY <1>1, <2>1, PartwayNext
  <2> HIDE DEF R, part, Safely, B, F
  <2>8. ReadAll(fns, type, Read(part(k)), B[i]) =
          IF SafeField(safe, F[i], msg) THEN Read(part(i)) ELSE ReadThrew
    BY <1>4, <1>10, <2>2, <2>7 DEF FieldKept
  <2>9. ReadAll(fns, type, ReadThrew, B[i]) = ReadThrew
    <3>1. Len(B[i]) \in Nat
      BY <2>3, BytesLen
    <3> QED BY <3>1, ReadRefused
  <2> QED BY <2>1, <2>3, <2>4, <2>5, <2>6, <2>8, <2>9
<1>16. PICK l \in Nat : l = n + 1
  OBVIOUS
<1>17. R[l] = R[n] /\ R[n] = IF Safely(n) THEN Read(part(n)) ELSE ReadThrew
  <2>1. R[l] = IF Safely(l) THEN Read(part(l)) ELSE ReadThrew
    BY <1>16
  <2>2. R[n] = IF Safely(n) THEN Read(part(n)) ELSE ReadThrew
    BY <1>16
  <2>3. Safely(l) <=> Safely(n)
    BY <1>16
  <2>4. part(l) = part(n)
    <3>1. n >= n /\ l >= n
      BY <1>16
    <3>2. part(l) = Filled(Partials(fns), type, msg)
      BY <1>1, <3>1, PartwayLast
    <3>3. part(n) = Filled(Partials(fns), type, msg)
      BY <1>1, <3>1, PartwayLast
    <3> QED BY <3>2, <3>3
  <2> HIDE DEF R, part, Safely
  <2> QED BY <2>1, <2>2, <2>3, <2>4
<1>18. R[0] = Read(Base(type))
  <2>1. Safely(0)
    OBVIOUS
  <2>2. R[0] = Read(part(0))
    BY <2>1
  <2>3. part(0) = Base(type)
    BY PartwayFirst
  <2> HIDE DEF R, part
  <2> QED BY <2>2, <2>3
<1>19. part(n) = Filled(Partials(fns), type, msg)
  <2>1. n >= n
    OBVIOUS
  <2> QED BY <1>1, <2>1, PartwayLast
<1>20. Safely(n) <=> \A f \in Fields(type) : SafeField(safe, f, msg)
  BY <1>2
<1> HIDE DEF R, part, Safely, B, F
<1>21. ASSUME ~w.thrown PROVE Reads(R, fns, type, B, l)
  <2>1. IsBytes(B) /\ l = Len(B)
    BY <1>10, <1>16 DEF IsBytes
  <2>2. ASSUME NEW i \in 1..l PROVE IsBytes(B[i]) /\ R[i] = ReadAll(fns, type, R[i - 1], B[i])
    <3>1. CASE i \in 1..n
      BY <1>15, <1>21, <3>1
    <3>2. CASE i \notin 1..n
      <4>1. i = l /\ i - 1 = n
        BY <1>16, <3>2
      <4>2. B[i] = extra
        BY <1>10, <1>16, <4>1
      <4>3. IsBytes(extra) /\ ReadAll(fns, type, R[n], extra) = R[n]
        BY ExtraSkipped
      <4> HIDE DEF extra
      <4> QED BY <1>17, <4>1, <4>2, <4>3
    <3> QED BY <3>1, <3>2
  <2> QED BY <2>1, <2>2 DEF Reads
<1>22. ASSUME ~w.thrown
       PROVE  /\ IsBytes(FlattenSeq(B))
              /\ Decode(fns, type, FlattenSeq(B)) =
                   IF \A f \in Fields(type) : SafeField(safe, f, msg)
                   THEN Read(Filled(Partials(fns), type, msg)) ELSE ReadThrew
  <2>1. IsBytes(FlattenSeq(B)) /\ ReadAll(fns, type, R[0], FlattenSeq(B)) = R[l]
    BY <1>21, <1>22, ReadFlattened
  <2>2. Decode(fns, type, FlattenSeq(B)) = ReadAll(fns, type, R[0], FlattenSeq(B))
    BY <1>18 DEF Decode
  <2> QED BY <1>17, <1>19, <1>20, <2>1, <2>2
<1>23. MessageKept(fns, fits, safe, type, msg, w)
  BY <1>14, <1>22 DEF MessageKept
<1> QED BY <1>23 DEF w

-----------------------------------------------------------------------------
(* JSON, and the functions of every message *)

\* A value that is turned into JSON and back is what fromPartial makes of it.
LEMMA ThroughBack ==
  ASSUME NEW fns, NEW fits, NEW safe, Good(fns, fits, safe),
         NEW f, IsScalar(f.kind) \/ f.kind \in DOMAIN fns,
         NEW v \in IF f.many THEN Seq(Values(f.kind)) ELSE Values(f.kind)
  PROVE  Through(Readers(fns), f, Through(Writers(fns), f, v)) = Through(Partials(fns), f, v)
<1>1. CASE IsScalar(f.kind)
  BY <1>1 DEF Through
<1>2. CASE ~IsScalar(f.kind)
  <2>1. f.kind \in DOMAIN fns /\ Values(f.kind) = Objects[f.kind]
    BY <1>2 DEF Values, IsScalar
  <2>2. ASSUME NEW x \in Values(f.kind)
        PROVE  Readers(fns)[f.kind][Writers(fns)[f.kind][x]] = Partials(fns)[f.kind][x]
    <3>1. fns[f.kind].fromJSON[fns[f.kind].toJSON[x]] = fns[f.kind].fromPartial[x]
      BY <2>1 DEF Good, Keeps
    <3> QED BY <2>1, <3>1 DEF Readers, Writers, Partials
  <2>3. CASE f.many
    <3>1. \A i \in DOMAIN v : v[i] \in Values(f.kind)
      BY <2>3, ElementOfSeq, LenProperties
    <3>2. \A i \in DOMAIN v :
            Readers(fns)[f.kind][Writers(fns)[f.kind][v[i]]] = Partials(fns)[f.kind][v[i]]
      BY <2>2, <3>1
    <3> QED BY <1>2, <2>3, <3>2 DEF Through
  <2>4. CASE ~f.many
    BY <1>2, <2>2, <2>4 DEF Through
  <2> QED BY <2>3, <2>4
<1> QED BY <1>1, <1>2

LEMMA ThroughDefault ==
  ASSUME NEW fn, NEW f, ~Optional(f)
  PROVE  Through(fn, f, Default(f)) = Default(f)
<1>1. CASE IsScalar(f.kind)
  BY <1>1 DEF Through
<1>2. CASE ~IsScalar(f.kind)
  <2>1. f.many /\ Default(f) = <<>>
    BY <1>2 DEF Optional, Default
  <2>2. Through(fn, f, <<>>) = [i \in DOMAIN <<>> |-> fn[f.kind][<<>>[i]]]
    BY <1>2, <2>1 DEF Through
  <2>3. [i \in DOMAIN <<>> |-> fn[f.kind][<<>>[i]]] = <<>>
    OBVIOUS
  <2> QED BY <2>1, <2>2, <2>3
<1> QED BY <1>1, <1>2

LEMMA JsonBack ==
  ASSUME NEW fns, NEW fits, NEW safe, Good(fns, fits, safe),
         NEW type \in Types, Reachable(fns, type), NEW msg, AllTyped(type, msg)
  PROVE  Filled(Readers(fns), type, ToJSON(Writers(fns), type, msg)) =
         Filled(Partials(fns), type, msg)
<1> DEFINE J == ToJSON(Writers(fns), type, msg)
           Kept(f) == f.name \in DOMAIN msg /\ (Optional(f) \/ msg[f.name] # Default(f))
<1>1. ASSUME NEW f \in Fields(type)
      PROVE  /\ f.name \in DOMAIN J <=> Kept(f)
             /\ Kept(f) => J[f.name] = Through(Writers(fns), f, msg[f.name])
  <2>1. \A g \in Fields(type) : g.name = f.name => g = f
    BY FieldsDiffer
  <2>2. Field(type, f.name) = f
    BY FieldNamed
  <2>3. DOMAIN J = {g.name : g \in {g \in Fields(type) : Kept(g)}}
    BY DEF ToJSON
  <2>4. f.name \in DOMAIN J <=> Kept(f)
    <3> HIDE DEF J, Kept
    <3> QED BY <2>1, <2>3
  <2>5. f.name \in DOMAIN J => J[f.name] = Through(Writers(fns), Field(type, f.name), msg[f.name])
    BY DEF ToJSON
  <2> HIDE DEF J, Kept
  <2> QED BY <2>2, <2>4, <2>5
<1>2. ASSUME NEW f \in Fields(type), f.name \in DOMAIN msg
      PROVE  Through(Readers(fns), f, Through(Writers(fns), f, msg[f.name]))
               = Through(Partials(fns), f, msg[f.name])
  <2> DEFINE v == msg[f.name]
  <2>1. v \in IF f.many THEN Seq(Values(f.kind)) ELSE Values(f.kind)
    BY <1>2 DEF AllTyped, WellTyped
  <2>2. IsScalar(f.kind) \/ f.kind \in DOMAIN fns
    BY DEF Reachable
  <2> HIDE DEF v
  <2>3. Through(Readers(fns), f, Through(Writers(fns), f, v)) = Through(Partials(fns), f, v)
    BY <2>1, <2>2, ThroughBack
  <2> QED BY <2>3 DEF v
<1> DEFINE A == Filled(Readers(fns), type, J)
           B == Filled(Partials(fns), type, msg)
           D == DOMAIN Base(type)
           EJ == D \cup (Names(type) \cap DOMAIN J)
           EM == D \cup (Names(type) \cap DOMAIN msg)
<1>3. \A name \in Names(type) : \E f \in Fields(type) : f.name = name /\ Field(type, name) = f
  BY FieldNamed DEF Names
<1>4. D \subseteq Names(type)
  BY DEF Base, Names
<1>5. A = [name \in EJ |-> IF name \in DOMAIN J
                           THEN Through(Readers(fns), Field(type, name), J[name])
                           ELSE Base(type)[name]]
  BY DEF Filled
<1>6. B = [name \in EM |-> IF name \in DOMAIN msg
                           THEN Through(Partials(fns), Field(type, name), msg[name])
                           ELSE Base(type)[name]]
  BY DEF Filled
<1> HIDE DEF A, B, J
<1>7. EJ = EM
  <2>1. ASSUME NEW name \in Names(type), name \notin D
        PROVE  name \in DOMAIN J <=> name \in DOMAIN msg
    <3>1. PICK f \in Fields(type) : f.name = name
      BY <1>3
    <3>2. Optional(f)
      BY <2>1, <3>1, BaseFields
    <3> QED BY <1>1, <3>1, <3>2
  <2> HIDE DEF D
  <2> QED BY <2>1
<1>8. ASSUME NEW name \in EM
      PROVE  (IF name \in DOMAIN J THEN Through(Readers(fns), Field(type, name), J[name])
              ELSE Base(type)[name]) =
             IF name \in DOMAIN msg THEN Through(Partials(fns), Field(type, name), msg[name])
             ELSE Base(type)[name]
  <2>1. PICK f \in Fields(type) : f.name = name /\ Field(type, name) = f
    BY <1>3, <1>4
  <2>2. CASE Kept(f)
    <3>1. name \in DOMAIN J /\ name \in DOMAIN msg
      BY <1>1, <2>1, <2>2
    <3>2. J[name] = Through(Writers(fns), f, msg[name])
      BY <1>1, <2>1, <2>2
    <3> QED BY <1>2, <2>1, <3>1, <3>2
  <2>3. CASE ~Kept(f)
    <3>1. name \notin DOMAIN J
      BY <1>1, <2>1, <2>3
    <3>2. CASE name \in DOMAIN msg
      <4>1. ~Optional(f) /\ msg[name] = Default(f)
        BY <2>1, <2>3, <3>2
      <4>2. Base(type)[name] = Default(f)
        BY <2>1, <4>1, BaseFields
      <4>3. Through(Partials(fns), f, Default(f)) = Default(f)
        BY <4>1, ThroughDefault
      <4> QED BY <2>1, <3>1, <3>2, <4>1, <4>2, <4>3
    <3>3. CASE name \notin DOMAIN msg
      BY <3>1, <3>3
    <3> QED BY <3>2, <3>3
  <2> QED BY <2>2, <2>3
<1> HIDE DEF EJ, EM
<1>9. A = B
  BY <1>5, <1>6, <1>7, <1>8
<1> QED BY <1>9 DEF A, B, J

\* What MessageFns makes of each message.
LEMMA FnsOf ==
  ASSUME NEW fns, NEW type \in Within(DOMAIN fns), NEW msg \in Objects[type]
  PROVE  LET fn == MessageFns(fns)[type]
         IN  /\ \A newer \in BOOLEAN :
                  LET w == Encode(fns, newer, type, msg)
                  IN  fn.encode[newer][msg] = w /\ fn.decode[w.bytes] = Decode(fns, type, w.bytes)
             /\ fn.fromPartial[msg] = Filled(Partials(fns), type, msg)
             /\ fn.fromJSON[fn.toJSON[msg]] =
                  Filled(Readers(fns), type, ToJSON(Writers(fns), type, msg))
<1> DEFINE encode == [newer \in BOOLEAN |-> [m \in Objects[type] |-> Encode(fns, newer, type, m)]]
           written == {encode[newer][m].bytes : newer \in BOOLEAN, m \in Objects[type]}
           toJSON == [m \in Objects[type] |-> ToJSON(Writers(fns), type, m)]
           decode == [w \in written |-> Decode(fns, type, w)]
           fromPartial == [m \in Objects[type] |-> Filled(Partials(fns), type, m)]
           fromJSON ==
             [obj \in {toJSON[m] : m \in Objects[type]} |-> Filled(Readers(fns), type, obj)]
           fn == MessageFns(fns)[type]
<1>1. fn = [encode |-> encode, decode |-> decode, fromPartial |-> fromPartial,
            toJSON |-> toJSON, fromJSON |-> fromJSON]
  BY DEF MessageFns, Partials, Readers, Writers
<1>2. ASSUME NEW newer \in BOOLEAN
      PROVE  /\ encode[newer][msg] = Encode(fns, newer, type, msg)
             /\ decode[Encode(fns, newer, type, msg).bytes] =
                  Decode(fns, type, Encode(fns, newer, type, msg).bytes)
  <2>1. encode[newer][msg] = Encode(fns, newer, type, msg)
    OBVIOUS
  <2>2. encode[newer][msg].bytes \in written
    <3> HIDE DEF encode
    <3> QED OBVIOUS
  <2> HIDE DEF encode, written
  <2> QED BY <2>1, <2>2
<1>3. fromPartial[msg] = Filled(Partials(fns), type, msg)
  OBVIOUS
<1>4. fromJSON[toJSON[msg]] = Filled(Readers(fns), type, ToJSON(Writers(fns), type, msg))
  <2>1. toJSON[msg] = ToJSON(Writers(fns), type, msg)
    OBVIOUS
  <2> HIDE DEF toJSON
  <2> QED BY <2>1
<1> HIDE DEF encode, decode, fromPartial, toJSON, fromJSON, fn
<1>5. /\ fn.encode = encode /\ fn.decode = decode /\ fn.fromPartial = fromPartial
      /\ fn.toJSON = toJSON /\ fn.fromJSON = fromJSON
  BY <1>1
<1>6. /\ \A newer \in BOOLEAN :
            LET w == Encode(fns, newer, type, msg)
            IN  fn.encode[newer][msg] = w /\ fn.decode[w.bytes] = Decode(fns, type, w.bytes)
      /\ fn.fromPartial[msg] = Filled(Partials(fns), type, msg)
      /\ fn.fromJSON[fn.toJSON[msg]] = Filled(Readers(fns), type, ToJSON(Writers(fns), type, msg))
  BY <1>2, <1>3, <1>4, <1>5
<1> QED BY <1>6 DEF fn

LEMMA WithinTypes ==
  ASSUME NEW fns, NEW type \in Within(DOMAIN fns)
  PROVE  type \in Types /\ Reachable(fns, type)
BY DEF Within, Reachable

LEMMA ObjectsTyped ==
  ASSUME NEW type \in Types, NEW msg \in Objects[type]
  PROVE  AllTyped(type, msg)
BY ObjectsAssumption DEF AllTyped, WellTyped

\* Functions that keep their messages make functions that do, one level up.
LEMMA GoodAbove ==
  ASSUME NEW fns, NEW fits, NEW safe, Good(fns, fits, safe)
  PROVE  Good(MessageFns(fns), FitsWith(fits), SafeWith(safe))
<1> DEFINE up == MessageFns(fns)
<1>1. DOMAIN fits = DOMAIN fns /\ DOMAIN safe = DOMAIN fns
  BY DEF Good
<1>2. /\ DOMAIN up = Within(DOMAIN fns)
      /\ DOMAIN FitsWith(fits) = Within(DOMAIN fns)
      /\ DOMAIN SafeWith(safe) = Within(DOMAIN fns)
  BY <1>1 DEF MessageFns, FitsWith, SafeWith
<1>3. ASSUME NEW type \in Within(DOMAIN fns), NEW msg \in Objects[type]
      PROVE  Keeps(up[type], FitsWith(fits)[type], SafeWith(safe)[type], msg)
  <2> DEFINE fn == up[type]
             F == FitsWith(fits)[type]
             S == SafeWith(safe)[type]
  <2>1. type \in Types /\ Reachable(fns, type) /\ AllTyped(type, msg)
    BY WithinTypes, ObjectsTyped
  <2>2. msg \in F <=> \A f \in Fields(type) : FitsField(fits, f, msg)
    BY <1>1 DEF FitsWith
  <2>3. msg \in S <=> \A f \in Fields(type) : SafeField(safe, f, msg)
    BY <1>1 DEF SafeWith
  <2>4. /\ \A newer \in BOOLEAN :
             LET w == Encode(fns, newer, type, msg)
             IN  fn.encode[newer][msg] = w /\ fn.decode[w.bytes] = Decode(fns, type, w.bytes)
        /\ fn.fromPartial[msg] = Filled(Partials(fns), type, msg)
        /\ fn.fromJSON[fn.toJSON[msg]] = Filled(Readers(fns), type, ToJSON(Writers(fns), type, msg))
    BY FnsOf
  <2> HIDE DEF fn, F, S
  <2>5. fn.fromJSON[fn.toJSON[msg]] = fn.fromPartial[msg]
    BY <2>1, <2>4, JsonBack
  <2>6. ASSUME NEW newer \in BOOLEAN
        PROVE  LET w == fn.encode[newer][msg]
               IN  /\ w.thrown \in BOOLEAN
                   /\ w.thrown <=> msg \notin F
                   /\ ~w.thrown =>
                        fn.decode[w.bytes] =
                          IF msg \in S THEN Read(fn.fromPartial[msg]) ELSE ReadThrew
    <3> DEFINE w == Encode(fns, newer, type, msg)
    <3>1. MessageKept(fns, fits, safe, type, msg, w)
      BY <2>1, MessageWritten
    <3>2. fn.encode[newer][msg] = w /\ fn.decode[w.bytes] = Decode(fns, type, w.bytes)
      BY <2>4
    <3> HIDE DEF w
    <3>3. /\ w.thrown \in BOOLEAN
          /\ w.thrown <=> msg \notin F
          /\ ~w.thrown =>
               Decode(fns, type, w.bytes) =
                 IF msg \in S THEN Read(fn.fromPartial[msg]) ELSE ReadThrew
      BY <2>2, <2>3, <2>4, <3>1 DEF MessageKept
    <3> QED BY <3>2, <3>3
  <2>7. Keeps(fn, F, S, msg)
    BY <2>5, <2>6 DEF Keeps
  <2> QED BY <2>7 DEF fn, F, S
<1> HIDE DEF up
<1>4. Good(up, FitsWith(fits), SafeWith(safe))
  BY <1>2, <1>3 DEF Good
<1> QED BY <1>4 DEF up

\* The messages that are inside others, and all messages.
NestedFits == FitsWith(FitsWith(FitsWith(<<>>)))
NestedSafe == SafeWith(SafeWith(SafeWith(<<>>)))

\* The table of the levels is the one its definition asks for.
LEMMA LevelsAre ==
  /\ Nested = MessageFns(MessageFns(MessageFns(<<>>)))
  /\ Fns = MessageFns(Nested)
<1> DEFINE one == MessageFns(<<>>)
           two == MessageFns(one)
           three == MessageFns(two)
           four == MessageFns(three)
           IsTable(h) == h = [n \in 0..4 |-> IF n = 0 THEN <<>> ELSE MessageFns(h[n - 1])]
           table == [n \in 0..4 |-> IF n = 0 THEN <<>> ELSE IF n = 1 THEN one
                                    ELSE IF n = 2 THEN two ELSE IF n = 3 THEN three ELSE four]
<1>1. IsTable(table)
  <2> DEFINE next == [n \in 0..4 |-> IF n = 0 THEN <<>> ELSE MessageFns(table[n - 1])]
  <2>1. /\ table[0] = <<>> /\ table[1] = one /\ table[2] = two
        /\ table[3] = three /\ table[4] = four
    <3> HIDE DEF one, two, three, four
    <3> QED OBVIOUS
  <2>2. next[0] = <<>>
    OBVIOUS
  <2>3. \A n \in 1..4 : next[n] = MessageFns(table[n - 1])
    <3> HIDE DEF table
    <3> QED OBVIOUS
  <2>4. next[1] = one /\ next[2] = two /\ next[3] = three /\ next[4] = four
    <3>1. MessageFns(table[0]) = one /\ MessageFns(table[1]) = two
          /\ MessageFns(table[2]) = three /\ MessageFns(table[3]) = four
      <4> HIDE DEF table
      <4> QED BY <2>1
    <3> HIDE DEF next, table, one, two, three, four
    <3> QED BY <2>3, <3>1
  <2>5. \A n \in 0..4 : next[n] = table[n]
    <3> HIDE DEF next, table, one, two, three, four
    <3> QED BY <2>1, <2>2, <2>4
  <2>6. DOMAIN next = 0..4 /\ DOMAIN table = 0..4 /\ next = [n \in 0..4 |-> next[n]]
        /\ table = [n \in 0..4 |-> table[n]]
    OBVIOUS
  <2>7. next = table
    <3> HIDE DEF next, table
    <3> QED BY <2>5, <2>6
  <2> QED BY <2>7
<1>2. Levels = CHOOSE h : IsTable(h)
  BY DEF Levels
<1>3. IsTable(Levels)
  <2> HIDE DEF IsTable, table
  <2> QED BY <1>1, <1>2
<1>4. Levels[0] = <<>> /\ \A n \in 1..4 : Levels[n] = MessageFns(Levels[n - 1])
  BY <1>3
<1> HIDE DEF IsTable
<1>5. Levels[1] = one /\ Levels[2] = two /\ Levels[3] = three /\ Levels[4] = MessageFns(Levels[3])
  <2>1. Levels[1] = one
    BY <1>4
  <2>2. Levels[2] = two
    BY <1>4, <2>1
  <2>3. Levels[3] = three
    BY <1>4, <2>2
  <2> QED BY <1>4, <2>1, <2>2, <2>3
<1> QED BY <1>5 DEF Nested, Fns

LEMMA AllGood ==
  /\ Good(Nested, NestedFits, NestedSafe)
  /\ Good(Fns, Fits, Safe)
  /\ Within(DOMAIN Nested) = Types /\ DOMAIN Fns = Types
  /\ DOMAIN Fits = Types /\ DOMAIN Safe = Types
<1>1. Good(<<>>, <<>>, <<>>)
  BY DEF Good
<1>2. Good(MessageFns(<<>>), FitsWith(<<>>), SafeWith(<<>>))
  BY <1>1, GoodAbove
<1>3. Good(MessageFns(MessageFns(<<>>)), FitsWith(FitsWith(<<>>)), SafeWith(SafeWith(<<>>)))
  BY <1>2, GoodAbove
<1>4. Good(Nested, NestedFits, NestedSafe)
  BY <1>3, GoodAbove, LevelsAre DEF NestedFits, NestedSafe
<1>5. Good(Fns, Fits, Safe)
  <2>1. Good(MessageFns(Nested), FitsWith(NestedFits), SafeWith(NestedSafe))
    BY <1>4, GoodAbove
  <2> QED BY <2>1, LevelsAre DEF Fits, Safe, NestedFits, NestedSafe
<1>6. \A fns : DOMAIN MessageFns(fns) = Within(DOMAIN fns)
  BY DEF MessageFns
<1>7. Within(DOMAIN Nested) = Types
  <2>1. DOMAIN <<>> = {}
    OBVIOUS
  <2>2. DOMAIN MessageFns(<<>>) = Within({})
    BY <1>6, <2>1
  <2>3. DOMAIN Nested = Within(Within(Within({})))
    BY <1>6, <2>2, LevelsAre
  <2> QED BY <2>3, SchemaAssumption
<1>8. DOMAIN Fns = Types
  BY <1>6, <1>7, LevelsAre
<1> QED BY <1>4, <1>5, <1>7, <1>8 DEF Good

-----------------------------------------------------------------------------
(* The call *)

\* The bytes are those of a message that fits, in some order: what is read of them
\* is the message with its gaps filled, unless a number cannot be held.
Carries(type, w, msg) ==
  /\ msg \in Objects[type] /\ msg \in Fits[type]
  /\ IsBytes(w)
  /\ Decode(Nested, type, w) =
       IF msg \in Safe[type] THEN Read(Fns[type].fromPartial[msg]) ELSE ReadThrew

CallInv ==
  /\ stage \in {"idle", "refused", "request", "served", "badRequest",
                "response", "resolved", "badAnswer", "failed"}
  /\ stage # "idle" => method \in DOMAIN Services
  /\ stage = "refused" => given \in Objects[Request] /\ given \notin Fits[Request]
  /\ stage = "request" => Carries(Request, wire, given)
  /\ stage = "served" => got = Fns[Request].fromPartial[given]
  /\ stage = "badRequest" => given \notin Safe[Request]
  /\ stage = "response" => Carries(Response, wire, given)
  /\ stage = "resolved" => got = Fns[Response].fromPartial[given] /\ given \in Safe[Response]
  /\ stage = "badAnswer" => given \notin Safe[Response]

\* What a stub writes is refused, or carries the message.
LEMMA WrittenCarries ==
  ASSUME NEW type \in Types, NEW msg \in Objects[type], NEW newer \in BOOLEAN
  PROVE  LET w == Fns[type].encode[newer][msg]
         IN  /\ w.thrown \in BOOLEAN
             /\ w.thrown <=> msg \notin Fits[type]
             /\ ~w.thrown => Carries(type, w.bytes, msg)
<1> DEFINE w == Encode(Nested, newer, type, msg)
           fn == Fns[type]
<1>1. type \in Within(DOMAIN Nested) /\ type \in DOMAIN Fns
  BY AllGood
<1>2. fn.encode[newer][msg] = w /\ fn.decode[w.bytes] = Decode(Nested, type, w.bytes)
  BY <1>1, FnsOf, LevelsAre
<1>3. MessageKept(Nested, NestedFits, NestedSafe, type, msg, w)
  BY <1>1, AllGood, WithinTypes, ObjectsTyped, MessageWritten
<1>4. Keeps(fn, Fits[type], Safe[type], msg)
  BY <1>1, AllGood DEF Good
<1> HIDE DEF w, fn
<1>5. /\ w.thrown \in BOOLEAN
      /\ w.thrown <=> msg \notin Fits[type]
      /\ ~w.thrown =>
           Decode(Nested, type, w.bytes) =
             IF msg \in Safe[type] THEN Read(fn.fromPartial[msg]) ELSE ReadThrew
  BY <1>2, <1>4 DEF Keeps
<1>6. ~w.thrown => IsBytes(w.bytes)
  BY <1>3 DEF MessageKept
<1>7. ~w.thrown => Carries(type, w.bytes, msg)
  BY <1>5, <1>6 DEF Carries, fn
<1> QED BY <1>2, <1>5, <1>7 DEF fn

\* An answer that fits is among the objects.
LEMMA FitsObjects ==
  ASSUME NEW type \in Types
  PROVE  Fits[type] \subseteq Objects[type]
BY AllGood DEF Fits, FitsWith

\* Fields that change places carry the same message.
LEMMA SwapCarries ==
  ASSUME NEW type \in Types, NEW msg, NEW w, Carries(type, w, msg),
         NEW i \in 1..(Len(w) - 1), w[i].no # w[i + 1].no
  PROVE  Carries(type, [w EXCEPT ![i] = w[i + 1], ![i + 1] = w[i]], msg)
<1> DEFINE s == [w EXCEPT ![i] = w[i + 1], ![i + 1] = w[i]]
           r == Read(Base(type))
<1>1. Ready(type, r)
  BY ReadyBase
<1>2. IsBytes(w)
  BY DEF Carries
<1> HIDE DEF r
<1>3. IsBytes(s) /\ ReadAll(Nested, type, r, s) = ReadAll(Nested, type, r, w)
  BY <1>1, <1>2, SwapRead
<1> HIDE DEF s
<1>4. Carries(type, s, msg)
  BY <1>3 DEF Carries, Decode, r
<1> QED BY <1>4 DEF s

LEMMA CallInit == Init => CallInv
BY DEF Init, CallInv

LEMMA CallStep == CallInv /\ [Next]_vars => CallInv'
<1> SUFFICES ASSUME CallInv, [Next]_vars PROVE CallInv'
  OBVIOUS
<1>1. ASSUME Call PROVE CallInv'
  <2>1. PICK m \in DOMAIN Services, newer \in BOOLEAN :
          \E request \in Objects[Services[m].request] :
            LET w == Fns[Services[m].request].encode[newer][request]
            IN  /\ method' = m
                /\ given' = request
                /\ stage' = IF w.thrown THEN "refused" ELSE "request"
                /\ wire' = w.bytes
    BY <1>1 DEF Call
  <2> DEFINE type == Services[m].request
  <2>2. PICK request \in Objects[type] :
          LET w == Fns[type].encode[newer][request]
          IN  /\ method' = m
              /\ given' = request
              /\ stage' = IF w.thrown THEN "refused" ELSE "request"
              /\ wire' = w.bytes
    BY <2>1
  <2> DEFINE w == Fns[type].encode[newer][request]
  <2>3. type \in Types
    BY ServicesAssumption
  <2>4. /\ method' = m /\ given' = request /\ wire' = w.bytes
        /\ stage' = IF w.thrown THEN "refused" ELSE "request"
        /\ Request' = type
    BY <2>2 DEF Request
  <2>5. /\ w.thrown \in BOOLEAN
        /\ w.thrown <=> request \notin Fits[type]
        /\ ~w.thrown => Carries(type, w.bytes, request)
    BY <2>2, <2>3, WrittenCarries
  <2> HIDE DEF type, w
  <2>6. CASE w.thrown
    BY <2>2, <2>4, <2>5, <2>6 DEF CallInv
  <2>7. CASE ~w.thrown
    BY <2>4, <2>5, <2>7 DEF CallInv
  <2> QED BY <2>6, <2>7
<1>2. ASSUME Reorder PROVE CallInv'
  <2>1. PICK i \in 1..(Len(wire) - 1) :
          /\ wire[i].no # wire[i + 1].no
          /\ wire' = [wire EXCEPT ![i] = wire[i + 1], ![i + 1] = wire[i]]
    BY <1>2 DEF Reorder
  <2>2. /\ stage \in {"request", "response"} /\ method \in DOMAIN Services
        /\ UNCHANGED <<method, stage, given, got>>
    BY <1>2 DEF Reorder, CallInv
  <2>3. Request \in Types /\ Response \in Types /\ Request' = Request /\ Response' = Response
    BY <2>2, ServicesAssumption DEF Request, Response
  <2>4. ASSUME NEW type \in Types, Carries(type, wire, given) PROVE Carries(type, wire', given)
    BY <2>1, <2>4, SwapCarries
  <2>5. stage = "request" => Carries(Request, wire', given)
    BY <2>3, <2>4 DEF CallInv
  <2>6. stage = "response" => Carries(Response, wire', given)
    BY <2>3, <2>4 DEF CallInv
  <2> QED BY <2>2, <2>3, <2>5, <2>6 DEF CallInv
<1>3. ASSUME Serve PROVE CallInv'
  <2> DEFINE r == Decode(Nested, Request, wire)
  <2>1. /\ stage = "request" /\ got' = r.msg
        /\ stage' = IF r.thrown THEN "badRequest" ELSE "served"
        /\ method' = method /\ given' = given /\ Request' = Request
    BY <1>3 DEF Serve, Deserialize, Request
  <2>2. r = IF given \in Safe[Request] THEN Read(Fns[Request].fromPartial[given]) ELSE ReadThrew
    BY <2>1 DEF CallInv, Carries
  <2>3. /\ ReadThrew.thrown = TRUE
        /\ \A x : Read(x).thrown = FALSE /\ Read(x).msg = x
    BY DEF Read, ReadThrew
  <2>4. method \in DOMAIN Services
    BY <2>1 DEF CallInv
  <2> HIDE DEF r
  <2>5. CASE given \in Safe[Request]
    <3>1. stage' = "served" /\ got' = Fns[Request].fromPartial[given]
      BY <2>1, <2>2, <2>3, <2>5
    <3> QED BY <2>1, <2>4, <3>1 DEF CallInv
  <2>6. CASE given \notin Safe[Request]
    <3>1. stage' = "badRequest"
      BY <2>1, <2>2, <2>3, <2>6
    <3> QED BY <2>1, <2>4, <2>6, <3>1 DEF CallInv
  <2> QED BY <2>5, <2>6
<1>4. ASSUME Answer PROVE CallInv'
  <2>1. PICK answer \in Fits[Response], newer \in BOOLEAN :
          given' = answer /\ wire' = Fns[Response].encode[newer][answer].bytes
    BY <1>4 DEF Answer
  <2>2. /\ method \in DOMAIN Services /\ stage' = "response"
        /\ method' = method /\ Response' = Response
    BY <1>4 DEF Answer, CallInv, Response
  <2>3. Response \in Types
    BY <2>2, ServicesAssumption DEF Response
  <2>4. answer \in Objects[Response]
    BY <2>1, <2>3, FitsObjects
  <2>5. Carries(Response, wire', answer)
    BY <2>1, <2>3, <2>4, WrittenCarries
  <2> QED BY <2>1, <2>2, <2>5 DEF CallInv
<1>5. ASSUME Receive PROVE CallInv'
  <2> DEFINE r == Decode(Nested, Response, wire)
  <2>1. /\ stage = "response" /\ got' = r.msg
        /\ stage' = IF r.thrown THEN "badAnswer" ELSE "resolved"
        /\ method' = method /\ given' = given /\ Response' = Response
    BY <1>5 DEF Receive, Deserialize, Response
  <2>2. r = IF given \in Safe[Response] THEN Read(Fns[Response].fromPartial[given]) ELSE ReadThrew
    BY <2>1 DEF CallInv, Carries
  <2>3. /\ ReadThrew.thrown = TRUE
        /\ \A x : Read(x).thrown = FALSE /\ Read(x).msg = x
    BY DEF Read, ReadThrew
  <2>4. method \in DOMAIN Services
    BY <2>1 DEF CallInv
  <2> HIDE DEF r
  <2>5. CASE given \in Safe[Response]
    <3>1. stage' = "resolved" /\ got' = Fns[Response].fromPartial[given]
      BY <2>1, <2>2, <2>3, <2>5
    <3> QED BY <2>1, <2>4, <2>5, <3>1 DEF CallInv
  <2>6. CASE given \notin Safe[Response]
    <3>1. stage' = "badAnswer"
      BY <2>1, <2>2, <2>3, <2>6
    <3> QED BY <2>1, <2>4, <2>6, <3>1 DEF CallInv
  <2> QED BY <2>5, <2>6
<1>6. ASSUME Fail PROVE CallInv'
  BY <1>6 DEF Fail, CallInv
<1>7. ASSUME Settle PROVE CallInv'
  BY <1>7 DEF Settle, CallInv
<1>8. ASSUME UNCHANGED vars PROVE CallInv'
  BY <1>8 DEF vars, CallInv, Request, Response
<1> QED BY <1>1, <1>2, <1>3, <1>4, <1>5, <1>6, <1>7, <1>8 DEF Next

\* Init, every step of Next and every stutter keep the stages and the bytes of the
\* call in line with the message that is given.
THEOREM CallsInvariant == Spec => []CallInv
BY CallInit, CallStep, PTL DEF Spec

\* Only a request that lacks a list or a number, or has a number that does not fit,
\* is refused by requestSerialize: with any messages, nested to any depth allowed.
THEOREM RefusalIsJust == Spec => []OnlyUnfitRefused
<1>1. CallInv => OnlyUnfitRefused
  BY DEF CallInv, OnlyUnfitRefused, Carries
<1> QED BY <1>1, CallsInvariant, PTL

\* What the server's requestDeserialize reads is the request that the caller gave.
THEOREM RequestsArrive == Spec => []RequestArrives
<1>1. CallInv => RequestArrives
  BY DEF CallInv, RequestArrives
<1> QED BY <1>1, CallsInvariant, PTL

\* What the caller's responseDeserialize reads is the answer that the server gave.
THEOREM AnswersArrive == Spec => []AnswerArrives
<1>1. CallInv => AnswerArrives
  <2> SUFFICES ASSUME CallInv PROVE AnswerArrives
    OBVIOUS
  <2>1. stage = "resolved" => Result(got) = Result(Fns[Response].fromPartial[given])
    BY DEF CallInv
  <2> QED BY <2>1 DEF CallInv, AnswerArrives
<1> QED BY <1>1, CallsInvariant, PTL

\* A message written with toJSON and read with fromJSON is the message.
THEOREM JsonLosesNothing == Spec => []JsonKeepsMessage
<1>1. CallInv => JsonKeepsMessage
  <2> SUFFICES ASSUME CallInv, stage \in {"request", "refused"}
      PROVE  Fns[Request].fromJSON[Fns[Request].toJSON[given]] = Fns[Request].fromPartial[given]
    BY DEF JsonKeepsMessage
  <2>1. method \in DOMAIN Services /\ given \in Objects[Request]
    BY DEF CallInv, Carries
  <2>2. Request \in DOMAIN Fns
    BY <2>1, AllGood, ServicesAssumption DEF Request
  <2>3. Keeps(Fns[Request], Fits[Request], Safe[Request], given)
    BY <2>1, <2>2, AllGood DEF Good
  <2> QED BY <2>3 DEF Keeps
<1> QED BY <1>1, CallsInvariant, PTL

=============================================================================
