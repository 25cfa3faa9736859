----------------------------- MODULE PagesProofs -----------------------------
(***************************************************************************)
(* Proofs about the pages of the shop.  Pricing: the invariant of an order *)
(* from the cart page to the charge, and with it that the sums never end   *)
(* the process, are exact, and come to what the pages show.  ProductPage:  *)
(* the answers, the bars of the ratings and the products recommended on    *)
(* the page of a product.  The sums of both are over finite sets, which    *)
(* the first lemmas are about.  Session: all modules of all tabs work for  *)
(* one shopper, and no write changes whose session is stored.              *)
(***************************************************************************)
EXTENDS Pricing, ProductPage, Session, FiniteSetTheorems, SequenceTheorems, TLAPS

-----------------------------------------------------------------------------
\* Induction, said of sets instead of predicates: what the sums and the recursive
\* function of this module need.

\* A set of naturals has a least element.
LEMMA LeastNatural ==
  ASSUME NEW S, S \subseteq Nat, S # {}
  PROVE  \E m \in S : \A k \in S : m =< k
<1> DEFINE Less == {p \in Nat \X Nat : p[1] < p[2]}
<1>1. PICK m \in S : \A k \in S : ~ (<<k, m>> \in Less)
  <2>1. IsWellFoundedOn(Less, Nat)
    BY NatLessThanWellFounded DEF OpToRel
  <2> HIDE DEF Less
  <2> QED BY <2>1, WFMin
<1>2. ASSUME NEW k \in S PROVE m =< k
  <2>1. <<k, m>> \in Nat \X Nat /\ <<k, m>>[1] = k /\ <<k, m>>[2] = m
    OBVIOUS
  <2>2. ~ (k < m)
    BY <1>1, <2>1
  <2> QED BY <2>2
<1> QED BY <1>2

\* A family of subsets of a finite set has a member with no smaller one.
LEMMA LeastSubset ==
  ASSUME NEW S, IsFiniteSet(S), NEW F, F \subseteq SUBSET S, F # {}
  PROVE  \E T \in F : \A U \in SUBSET T : U # T => U \notin F
<1>1. IsWellFoundedOn(StrictSubsetOrdering(S), SUBSET S)
  BY FS_StrictSubsetOrderingWellFounded, FS_FiniteSubsetsOfFinite
<1>2. PICK T \in F : \A U \in F : ~ (<<U, T>> \in StrictSubsetOrdering(S))
  BY <1>1, WFMin
<1>3. ASSUME NEW U \in F, U \subseteq T, U # T PROVE FALSE
  <2>1. <<U, T>> \in (SUBSET S) \X (SUBSET S) /\ <<U, T>>[1] = U /\ <<U, T>>[2] = T
    OBVIOUS
  <2> QED BY <1>2, <1>3, <2>1 DEF StrictSubsetOrdering
<1> QED BY <1>3

\* What holds of the empty set, and of a set with one more element, holds of all.
LEMMA SubsetInduction ==
  ASSUME NEW S, IsFiniteSet(S), NEW F, {} \in F,
         \A T \in SUBSET S : \A x \in S \ T : T \in F => T \cup {x} \in F
  PROVE  S \in F
<1> SUFFICES ASSUME S \notin F PROVE FALSE
  OBVIOUS
<1> DEFINE Bad == {T \in SUBSET S : T \notin F}
<1>1. PICK T \in Bad : \A U \in SUBSET T : U # T => U \notin Bad
  <2>1. Bad \subseteq SUBSET S /\ Bad # {}
    OBVIOUS
  <2> HIDE DEF Bad
  <2> QED BY <2>1, LeastSubset
<1>2. PICK x \in T : TRUE
  OBVIOUS
<1>3. T \ {x} \in F /\ T = (T \ {x}) \cup {x} /\ x \in S \ (T \ {x})
  BY <1>1
<1> QED BY <1>1, <1>3

-----------------------------------------------------------------------------
\* Sums over finite sets, in whatever order SumFunctionOnSet takes the elements.

Pick(s) == CHOOSE x \in s : TRUE

LEMMA PickIn == \A s : s # {} => Pick(s) \in s
  BY DEF Pick

\* One turn of the recursion that makes up a sum, and the function that solves it.
Turn(f, g, s) == IF s = {} THEN 0 ELSE f[Pick(s)] + g[s \ {Pick(s)}]
Solves(f, g, D) == g = [s \in D |-> Turn(f, g, s)]

LEMMA SumIsTurns ==
  ASSUME NEW f, NEW S
  PROVE  SumFunctionOnSet(f, S) = (CHOOSE g : Solves(f, g, SUBSET S))[S]
  BY DEF SumFunctionOnSet, FoldFunctionOnSet, MapThenFoldSet, Solves, Turn, Pick

\* The recursion has a solution: turns on sets of at most k elements give those on
\* sets of at most k + 1.
LEMMA SumSolvable ==
  ASSUME NEW f, NEW S, IsFiniteSet(S)
  PROVE  \E g : Solves(f, g, SUBSET S)
<1> DEFINE UpTo(k) == {s \in SUBSET S : Cardinality(s) =< k}
           Bad == {k \in Nat : ~ \E g : Solves(f, g, UpTo(k))}
<1>0. \A s \in SUBSET S : IsFiniteSet(s) /\ Cardinality(s) \in Nat /\ Cardinality(s) =< Cardinality(S)
  BY FS_Subset, FS_CardinalityType
<1>1. Bad = {}
  <2> SUFFICES ASSUME Bad # {} PROVE FALSE
    OBVIOUS
  <2>1. PICK k \in Bad : \A j \in Bad : k =< j
    <3>1. Bad \subseteq Nat
      OBVIOUS
    <3> HIDE DEF Bad
    <3> QED BY <3>1, LeastNatural
  <2>2. CASE k = 0
    <3>1. \A s \in UpTo(0) : s = {}
      BY <1>0, FS_EmptySet
    <3>2. Solves(f, [s \in UpTo(0) |-> 0], UpTo(0))
      BY <3>1 DEF Solves, Turn
    <3> QED BY <2>1, <2>2, <3>2
  <2>3. CASE k # 0
    <3>1. k - 1 \in Nat /\ k - 1 \notin Bad
      <4>1. k \in Nat
        OBVIOUS
      <4>2. k - 1 \in Nat /\ ~ (k =< k - 1)
        BY <2>3, <4>1
      <4> HIDE DEF Bad
      <4> QED BY <2>1, <4>2
    <3>2. PICK g : Solves(f, g, UpTo(k - 1))
      BY <3>1
    <3> DEFINE h == [s \in UpTo(k) |-> Turn(f, g, s)]
    <3>3. ASSUME NEW s \in UpTo(k) PROVE Turn(f, g, s) = Turn(f, h, s)
      <4>1. CASE s = {}
        BY <4>1 DEF Turn
      <4>2. CASE s # {}
        <5> DEFINE t == s \ {Pick(s)}
        <5>1. t \in UpTo(k - 1) /\ t \in UpTo(k)
          <6>1. Pick(s) \in s
            BY <4>2, PickIn
          <6>2. Cardinality(t) = Cardinality(s) - 1
            BY <1>0, <6>1, FS_RemoveElement
          <6> QED BY <1>0, <6>2
        <5>2. h[t] = Turn(f, g, t)
          BY <5>1
        <5>3. g[t] = Turn(f, g, t)
          BY <3>2, <5>1 DEF Solves
        <5> QED BY <4>2, <5>2, <5>3 DEF Turn
      <4> QED BY <4>1, <4>2
    <3>4. Solves(f, h, UpTo(k))
      BY <3>3 DEF Solves
    <3> QED BY <2>1, <3>4
  <2> QED BY <2>2, <2>3
<1>2. Cardinality(S) \in Nat /\ UpTo(Cardinality(S)) = SUBSET S
  BY <1>0
<1> QED BY <1>1, <1>2

\* Two solutions agree wherever both speak.
LEMMA SolutionsAgree ==
  ASSUME NEW f, NEW S, NEW T, NEW g, NEW h, IsFiniteSet(S), T \subseteq S,
         Solves(f, g, SUBSET S), Solves(f, h, SUBSET T)
  PROVE  g[T] = h[T]
<1> DEFINE Bad == {s \in SUBSET T : g[s] # h[s]}
<1> SUFFICES ASSUME Bad # {} PROVE FALSE
  OBVIOUS
<1>1. PICK s \in Bad : \A u \in SUBSET s : u # s => u \notin Bad
  <2>1. Bad \subseteq SUBSET T /\ IsFiniteSet(T)
    BY FS_Subset
  <2> HIDE DEF Bad
  <2> QED BY <2>1, LeastSubset
<1>2. g[s] = Turn(f, g, s) /\ h[s] = Turn(f, h, s)
  BY DEF Solves
<1>3. s # {}
  BY <1>1, <1>2 DEF Turn
<1>4. g[s \ {Pick(s)}] = h[s \ {Pick(s)}]
  <2>1. Pick(s) \in s
    BY <1>3, PickIn
  <2> QED BY <1>1, <2>1
<1> QED BY <1>1, <1>2, <1>3, <1>4 DEF Turn

\* A sum is its recursion's solution, whichever the set it was taken for.
LEMMA SumSolves ==
  ASSUME NEW f, NEW S, IsFiniteSet(S)
  PROVE  \E g : Solves(f, g, SUBSET S) /\ SumFunctionOnSet(f, S) = g[S]
BY SumSolvable, SumIsTurns

LEMMA SumTurn ==
  ASSUME NEW f, NEW S, IsFiniteSet(S)
  PROVE  /\ S = {} => SumFunctionOnSet(f, S) = 0
         /\ S # {} => SumFunctionOnSet(f, S) = f[Pick(S)] + SumFunctionOnSet(f, S \ {Pick(S)})
<1>1. PICK g : Solves(f, g, SUBSET S) /\ SumFunctionOnSet(f, S) = g[S]
  BY SumSolves
<1>2. PICK T : T = S \ {Pick(S)}
  OBVIOUS
<1>3. T \subseteq S /\ IsFiniteSet(T)
  BY <1>2, FS_Subset
<1>4. PICK h : Solves(f, h, SUBSET T) /\ SumFunctionOnSet(f, T) = h[T]
  BY <1>3, SumSolves
<1>5. g[T] = h[T]
  <2>1. IsFiniteSet(S) /\ Solves(f, g, SUBSET S) /\ Solves(f, h, SUBSET T)
    BY <1>1, <1>4
  <2> QED BY ONLY <2>1, <1>3, SolutionsAgree
<1>6. g[S] = Turn(f, g, S)
  BY <1>1 DEF Solves
<1> QED BY <1>1, <1>2, <1>4, <1>5, <1>6 DEF Turn

LEMMA SumType ==
  ASSUME NEW S, IsFiniteSet(S), NEW N \in {Nat, Int}, NEW f, \A x \in S : f[x] \in N
  PROVE  SumFunctionOnSet(f, S) \in N
<1> DEFINE Bad == {T \in SUBSET S : SumFunctionOnSet(f, T) \notin N}
<1> SUFFICES ASSUME Bad # {} PROVE FALSE
  OBVIOUS
<1>1. PICK T \in Bad : \A U \in SUBSET T : U # T => U \notin Bad
  <2>1. Bad \subseteq SUBSET S
    OBVIOUS
  <2> HIDE DEF Bad
  <2> QED BY <2>1, LeastSubset
<1>2. IsFiniteSet(T)
  BY FS_Subset
<1>3. T # {}
  <2>1. 0 \in N
    OBVIOUS
  <2>2. T = {} => SumFunctionOnSet(f, T) = 0
    BY <1>2, SumTurn
  <2> QED BY <1>1, <2>1, <2>2
<1>4. Pick(T) \in T
  BY <1>3, PickIn
<1>5. SumFunctionOnSet(f, T \ {Pick(T)}) \in N
  BY <1>1, <1>4
<1>6. SumFunctionOnSet(f, T) = f[Pick(T)] + SumFunctionOnSet(f, T \ {Pick(T)}) /\ f[Pick(T)] \in N
  BY <1>2, <1>3, <1>4, SumTurn
<1> QED BY <1>1, <1>5, <1>6

\* A sum may be taken apart at any of its elements.
LEMMA SumRemove ==
  ASSUME NEW S, IsFiniteSet(S), NEW f, \A z \in S : f[z] \in Int, NEW x \in S
  PROVE  SumFunctionOnSet(f, S) = f[x] + SumFunctionOnSet(f, S \ {x})
<1> DEFINE Bad == {T \in SUBSET S : \E y \in T :
                       SumFunctionOnSet(f, T) # f[y] + SumFunctionOnSet(f, T \ {y})}
<1> SUFFICES ASSUME Bad # {} PROVE FALSE
  OBVIOUS
<1>1. PICK T \in Bad : \A U \in SUBSET T : U # T => U \notin Bad
  <2>1. Bad \subseteq SUBSET S
    OBVIOUS
  <2> HIDE DEF Bad
  <2> QED BY <2>1, LeastSubset
<1>2. PICK y \in T : SumFunctionOnSet(f, T) # f[y] + SumFunctionOnSet(f, T \ {y})
  BY <1>1
<1> DEFINE p == Pick(T)
<1>3. \A U \in SUBSET S : IsFiniteSet(U) /\ SumFunctionOnSet(f, U) \in Int
  <2> SUFFICES ASSUME NEW U \in SUBSET S PROVE IsFiniteSet(U) /\ SumFunctionOnSet(f, U) \in Int
    OBVIOUS
  <2>1. IsFiniteSet(U)
    BY FS_Subset
  <2> QED BY <2>1, SumType
<1>4. p \in T /\ SumFunctionOnSet(f, T) = f[p] + SumFunctionOnSet(f, T \ {p})
  BY <1>3, SumTurn, PickIn
<1>5. p # y
  BY <1>2, <1>4
<1>6. SumFunctionOnSet(f, T \ {p}) = f[y] + SumFunctionOnSet(f, (T \ {p}) \ {y})
  BY <1>1, <1>4, <1>5
<1>7. SumFunctionOnSet(f, T \ {y}) = f[p] + SumFunctionOnSet(f, (T \ {y}) \ {p})
  BY <1>1, <1>2, <1>4, <1>5
<1>8. (T \ {p}) \ {y} = (T \ {y}) \ {p}
  OBVIOUS
<1>9. /\ f[p] \in Int /\ f[y] \in Int
      /\ SumFunctionOnSet(f, (T \ {p}) \ {y}) \in Int
  BY <1>3, <1>4
<1> HIDE DEF p
<1> QED BY <1>2, <1>4, <1>6, <1>7, <1>8, <1>9

LEMMA SumEmpty ==
  ASSUME NEW f
  PROVE  SumFunctionOnSet(f, {}) = 0
BY SumTurn, FS_EmptySet

LEMMA SumAddElement ==
  ASSUME NEW S, IsFiniteSet(S), NEW x, x \notin S, NEW f, \A z \in S \cup {x} : f[z] \in Int
  PROVE  SumFunctionOnSet(f, S \cup {x}) = f[x] + SumFunctionOnSet(f, S)
<1>1. IsFiniteSet(S \cup {x})
  BY FS_AddElement
<1>2. (S \cup {x}) \ {x} = S
  OBVIOUS
<1>3. SumFunctionOnSet(f, S \cup {x}) = f[x] + SumFunctionOnSet(f, (S \cup {x}) \ {x})
  BY <1>1, SumRemove
<1> QED BY <1>2, <1>3

\* Sums are linear and monotone.
LEMMA SumAdds ==
  ASSUME NEW S, IsFiniteSet(S), NEW f, NEW g, NEW h, NEW c \in Int,
         \A x \in S : f[x] \in Int /\ g[x] \in Int /\ h[x] = c * f[x] + g[x]
  PROVE  SumFunctionOnSet(h, S) = c * SumFunctionOnSet(f, S) + SumFunctionOnSet(g, S)
<1> DEFINE F == {T \in SUBSET S : SumFunctionOnSet(h, T)
                                    = c * SumFunctionOnSet(f, T) + SumFunctionOnSet(g, T)}
<1>1. {} \in F
  BY SumEmpty
<1>2. ASSUME NEW T \in SUBSET S, NEW x \in S \ T, T \in F PROVE T \cup {x} \in F
  <2>1. IsFiniteSet(T)
    BY FS_Subset
  <2>2. \A z \in T \cup {x} : f[z] \in Int /\ g[z] \in Int /\ h[z] \in Int
    OBVIOUS
  <2>3. /\ SumFunctionOnSet(f, T \cup {x}) = f[x] + SumFunctionOnSet(f, T)
        /\ SumFunctionOnSet(g, T \cup {x}) = g[x] + SumFunctionOnSet(g, T)
        /\ SumFunctionOnSet(h, T \cup {x}) = h[x] + SumFunctionOnSet(h, T)
    BY <2>1, <2>2, SumAddElement
  <2>4. SumFunctionOnSet(f, T) \in Int /\ SumFunctionOnSet(g, T) \in Int
    BY <2>1, <2>2, SumType
  <2>5. \A a, b \in Int : c * (a + b) = c * a + c * b
    OBVIOUS
  <2>6. /\ f[x] \in Int /\ g[x] \in Int /\ h[x] = c * f[x] + g[x]
        /\ c * f[x] \in Int /\ c * SumFunctionOnSet(f, T) \in Int
    BY <2>4
  <2>7. SumFunctionOnSet(h, T) = c * SumFunctionOnSet(f, T) + SumFunctionOnSet(g, T)
    BY <1>2
  <2>8. SumFunctionOnSet(h, T \cup {x})
          = c * SumFunctionOnSet(f, T \cup {x}) + SumFunctionOnSet(g, T \cup {x})
    BY <2>3, <2>4, <2>5, <2>6, <2>7
  <2> QED BY <2>8
<1> HIDE DEF F
<1>3. S \in F
  BY <1>1, <1>2, SubsetInduction
<1> QED BY <1>3 DEF F

LEMMA SumMonotone ==
  ASSUME NEW S, IsFiniteSet(S), NEW f, NEW g,
         \A x \in S : f[x] \in Int /\ g[x] \in Int /\ f[x] =< g[x]
  PROVE  SumFunctionOnSet(f, S) =< SumFunctionOnSet(g, S)
<1> DEFINE F == {T \in SUBSET S : SumFunctionOnSet(f, T) =< SumFunctionOnSet(g, T)}
<1>1. {} \in F
  BY SumEmpty
<1>2. ASSUME NEW T \in SUBSET S, NEW x \in S \ T, T \in F PROVE T \cup {x} \in F
  <2>1. IsFiniteSet(T)
    BY FS_Subset
  <2>2. \A z \in T \cup {x} : f[z] \in Int /\ g[z] \in Int
    OBVIOUS
  <2>3. /\ SumFunctionOnSet(f, T \cup {x}) = f[x] + SumFunctionOnSet(f, T)
        /\ SumFunctionOnSet(g, T \cup {x}) = g[x] + SumFunctionOnSet(g, T)
    BY <2>1, <2>2, SumAddElement
  <2>4. SumFunctionOnSet(f, T) \in Int /\ SumFunctionOnSet(g, T) \in Int
    BY <2>1, <2>2, SumType
  <2>5. SumFunctionOnSet(f, T) =< SumFunctionOnSet(g, T) /\ f[x] =< g[x]
    BY <1>2
  <2>6. SumFunctionOnSet(f, T \cup {x}) =< SumFunctionOnSet(g, T \cup {x})
    BY <2>2, <2>3, <2>4, <2>5
  <2> QED BY <2>6
<1> HIDE DEF F
<1>3. S \in F
  BY <1>1, <1>2, SubsetInduction
<1> QED BY <1>3 DEF F

-----------------------------------------------------------------------------
\* Amounts of money.

LEMMA Times ==
  ASSUME NEW a \in Int, NEW b \in Int, NEW c \in Int
  PROVE  /\ a * b \in Int
         /\ a * (b + c) = a * b + a * c
         /\ a * b = b * a
         /\ a \in Nat /\ b =< c => a * b =< a * c
  OBVIOUS

LEMMA Division ==
  ASSUME NEW a \in Int, NEW b \in Int, b > 0
  PROVE  /\ a \div b \in Int /\ a % b \in 0 .. b - 1
         /\ a = b * (a \div b) + (a % b)
         /\ a \in Nat => a \div b \in Nat
<1>1. a \div b \in Int /\ a % b \in 0 .. b - 1
  OBVIOUS
<1>2. a = b * (a \div b) + (a % b)
  BY SMTT(30)
<1>3. a \in Nat => a \div b \in Nat
  OBVIOUS
<1> QED BY <1>1, <1>2, <1>3

\* A valid amount that is not negative has no negative part.
LEMMA NoNegativePart ==
  ASSUME NEW m, m.units \in Int, m.nanos \in Int, IsValid(m), Value(m) >= 0
  PROVE  /\ m.units \in Nat /\ m.nanos \in 0 .. NanosMod - 1
         /\ m.units = 0 => m.nanos = Value(m)
<1>1. NanosMod \in Nat /\ NanosMod > 1
  BY MoneyAssumption
<1>2. m.units >= 0
  <2> SUFFICES ASSUME m.units =< -1 PROVE FALSE
    OBVIOUS
  <2>1. NanosMod * m.units =< NanosMod * (-1)
    BY <1>1, Times
  <2>2. m.nanos =< 0 \/ m.nanos = 0
    BY DEF IsValid, SignMatches
  <2> QED BY <1>1, <2>1, <2>2 DEF Value
<1>3. m.units = 0 => m.nanos = Value(m)
  BY <1>1 DEF Value
<1>4. m.nanos >= 0
  BY <1>2, <1>3 DEF IsValid, SignMatches
<1> QED BY <1>1, <1>2, <1>3, <1>4 DEF IsValid, ValidNanos

\* Sums of amounts that are not negative are exact, and no 32 bits overflow.
LEMMA SumExact ==
  ASSUME NEW l, l.units \in Int, l.nanos \in Int, Value(l) >= 0,
         NEW r, r.units \in Int, r.nanos \in Int, Value(r) >= 0,
         ~ SumFails(l, r)
  PROVE  /\ MoneySum(l, r).code = l.code
         /\ MoneySum(l, r).units \in Int /\ MoneySum(l, r).nanos \in Int
         /\ Value(MoneySum(l, r)) = Value(l) + Value(r)
         /\ (\/ l.units + r.units > 0
             \/ l.nanos + r.nanos = 0
             \/ l.nanos + r.nanos >= NanosMod) => IsValid(MoneySum(l, r))
<1>0. PICK u, n0 : u = l.units + r.units /\ n0 = l.nanos + r.nanos
  OBVIOUS
<1>1. NanosMod \in Nat /\ NanosMod > 1 /\ Int32Half \in Nat /\ 2 * NanosMod =< Int32Half
  BY MoneyAssumption
<1>2. /\ u \in Nat /\ n0 \in 0 .. 2 * NanosMod - 2
      /\ l.units \in Nat /\ r.units \in Nat
  BY <1>0, <1>1, NoNegativePart DEF SumFails
<1>3. Value(l) + Value(r) = NanosMod * u + n0
  <2>1. NanosMod * u = NanosMod * l.units + NanosMod * r.units
    BY <1>0, <1>1, Times
  <2>2. NanosMod * l.units \in Int /\ NanosMod * r.units \in Int
    BY <1>1, Times
  <2> QED BY <1>0, <2>1, <2>2 DEF Value
<1>4. ASSUME NEW x \in Int, - Int32Half =< x, x < Int32Half PROVE Int32(x) = x
  BY <1>1, <1>4 DEF Int32
<1>5. MoneySum(l, r) = Normal(l.code, u, n0)
  BY <1>0, <1>1, <1>2, <1>4 DEF MoneySum
<1>6. CASE SameSign(u, n0)
  <2>1. PICK q, d : q = n0 \div NanosMod /\ d = n0 % NanosMod
    OBVIOUS
  <2>2. q \in Nat /\ d \in 0 .. NanosMod - 1 /\ n0 = NanosMod * q + d
    BY <1>1, <1>2, <2>1, Division
  <2>3. NanosMod * q \in Int /\ NanosMod * u \in Int /\ NanosMod * (u + q) = NanosMod * u + NanosMod * q
    BY <1>1, <1>2, <2>2, Times
  <2>4. Quot(n0, NanosMod) = q /\ Rem(n0, NanosMod) = d
    <3>1. Quot(n0, NanosMod) = q
      BY <1>2, <2>1 DEF Quot
    <3>2. Rem(n0, NanosMod) = n0 - NanosMod * q
      BY <3>1 DEF Rem
    <3> QED BY <1>1, <2>2, <2>3, <3>1, <3>2
  <2>5. /\ MoneySum(l, r).code = l.code
        /\ MoneySum(l, r).units = u + q
        /\ MoneySum(l, r).nanos = d
    BY <1>5, <1>6, <2>4 DEF Normal, Money
  <2>6. Value(MoneySum(l, r)) = NanosMod * u + n0
    <3>1. Value(MoneySum(l, r)) = NanosMod * (u + q) + d
      BY <2>5 DEF Value
    <3> QED BY <1>1, <2>2, <2>3, <3>1
  <2>7. IsValid(MoneySum(l, r))
    BY <1>1, <1>2, <2>2, <2>5 DEF IsValid, SignMatches, ValidNanos
  <2>8. MoneySum(l, r).units \in Int /\ MoneySum(l, r).nanos \in Int
    BY <1>1, <1>2, <2>2, <2>5
  <2> QED BY <1>3, <2>5, <2>6, <2>7, <2>8
<1>7. CASE ~ SameSign(u, n0)
  <2>1. u = 0 /\ n0 > 0
    BY <1>2, <1>7 DEF SameSign
  <2>2. Int32(n0 - NanosMod) = n0 - NanosMod
    BY <1>1, <1>2, <1>4
  <2>3. MoneySum(l, r) = Money(l.code, 1, n0 - NanosMod)
    BY <1>5, <1>7, <2>1, <2>2 DEF Normal
  <2>4. MoneySum(l, r).code = l.code /\ MoneySum(l, r).units = 1 /\ MoneySum(l, r).nanos = n0 - NanosMod
    BY <2>3 DEF Money
  <2>5. Value(MoneySum(l, r)) = NanosMod * u + n0
    BY <1>1, <1>2, <2>1, <2>4 DEF Value
  <2>6. n0 >= NanosMod => IsValid(MoneySum(l, r))
    BY <1>1, <1>2, <2>4 DEF IsValid, SignMatches, ValidNanos
  <2>7. MoneySum(l, r).units \in Int /\ MoneySum(l, r).nanos \in Int
    BY <1>1, <1>2, <2>4
  <2> QED BY <1>0, <1>3, <2>1, <2>4, <2>5, <2>6, <2>7
<1> QED BY <1>6, <1>7

-----------------------------------------------------------------------------
\* The currency service.

\* Amounts as the services send them: not negative, and valid.
Amounts(c) == [code : {c}, units : Nat, nanos : 0 .. NanosMod - 1]

LEMMA AmountValue ==
  ASSUME NEW c, NEW m \in Amounts(c)
  PROVE  /\ m.code = c /\ m.units \in Int /\ m.nanos \in Int
         /\ Value(m) \in Nat /\ IsValid(m)
         /\ Value(m) >= NanosMod => m.units > 0
         /\ Value(m) = 0 => m.units = 0 /\ m.nanos = 0
<1>1. NanosMod \in Nat /\ NanosMod > 1
  BY MoneyAssumption
<1>2. m.code = c /\ m.units \in Nat /\ m.nanos \in 0 .. NanosMod - 1
  BY DEF Amounts
<1>3. PICK p : p = NanosMod * m.units
  OBVIOUS
<1>4. p \in Nat /\ (m.units > 0 => p >= NanosMod) /\ (m.units = 0 => p = 0)
  <2>1. p \in Nat
    BY <1>1, <1>2, <1>3
  <2>2. ASSUME m.units > 0 PROVE NanosMod * 1 =< p
    <3>1. 1 =< m.units
      BY <1>2, <2>2
    <3> QED BY <1>1, <1>2, <1>3, <3>1, Times
  <2> QED BY <1>1, <1>2, <1>3, <2>1, <2>2
<1>5. Value(m) = p + m.nanos
  BY <1>3 DEF Value
<1>6. IsValid(m)
  BY <1>1, <1>2 DEF IsValid, SignMatches, ValidNanos
<1> QED BY <1>1, <1>2, <1>4, <1>5, <1>6

\* The digits of the nanos: the recursion ends, since ten times a number is more.
FractionTurn(g, x) == IF x = 0 \/ 10 * x >= NanosMod THEN x ELSE g[10 * x]

LEMMA FractionSolvable ==
  \E g : g = [x \in 0 .. NanosMod - 1 |-> FractionTurn(g, x)]
<1>1. NanosMod \in Nat /\ NanosMod > 1
  BY MoneyAssumption
<1> DEFINE From(k) == {x \in 0 .. NanosMod - 1 : x = 0 \/ x >= NanosMod - k}
           Bad == {k \in Nat : ~ \E g : g = [x \in From(k) |-> FractionTurn(g, x)]}
<1>2. Bad = {}
  <2> SUFFICES ASSUME Bad # {} PROVE FALSE
    OBVIOUS
  <2>1. PICK k \in Bad : \A j \in Bad : k =< j
    <3>1. Bad \subseteq Nat
      OBVIOUS
    <3> HIDE DEF Bad
    <3> QED BY <3>1, LeastNatural
  <2>2. k \in Nat
    OBVIOUS
  <2>3. CASE k = 0
    <3> DEFINE g == [x \in From(0) |-> x]
    <3>1. \A x \in From(0) : x = 0
      BY <1>1
    <3>2. g = [x \in From(0) |-> FractionTurn(g, x)]
      BY <3>1 DEF FractionTurn
    <3>3. \E h : h = [x \in From(0) |-> FractionTurn(h, x)]
      BY <3>2
    <3> QED BY <2>1, <2>3, <3>3
  <2>4. CASE k # 0
    <3>1. k - 1 \in Nat /\ ~ (k =< k - 1)
      BY <2>2, <2>4
    <3>2. k - 1 \notin Bad
      BY <2>1, <3>1
    <3>3. PICK g : g = [x \in From(k - 1) |-> FractionTurn(g, x)]
      BY <3>1, <3>2
    <3> DEFINE h == [x \in From(k) |-> FractionTurn(g, x)]
    <3>4. ASSUME NEW x \in From(k) PROVE FractionTurn(g, x) = FractionTurn(h, x)
      <4>1. CASE x = 0 \/ 10 * x >= NanosMod
        BY <4>1 DEF FractionTurn
      <4>2. CASE ~ (x = 0 \/ 10 * x >= NanosMod)
        <5>1. 10 * x \in From(k - 1) /\ 10 * x \in From(k)
          BY <1>1, <2>2, <4>2
        <5>2. g[10 * x] = FractionTurn(g, 10 * x)
          BY <3>3, <5>1
        <5>3. h[10 * x] = FractionTurn(g, 10 * x)
          BY <5>1
        <5>4. FractionTurn(g, x) = g[10 * x] /\ FractionTurn(h, x) = h[10 * x]
          BY <4>2 DEF FractionTurn
        <5> QED BY <5>2, <5>3, <5>4
      <4> QED BY <4>1, <4>2
    <3>5. h = [x \in From(k) |-> FractionTurn(h, x)]
      BY <3>4
    <3>6. \E f : f = [x \in From(k) |-> FractionTurn(f, x)]
      BY <3>5
    <3> QED BY <2>1, <3>6
  <2> QED BY <2>3, <2>4
<1>3. From(NanosMod) = 0 .. NanosMod - 1
  BY <1>1
<1>4. NanosMod \notin Bad
  BY <1>2
<1> QED BY <1>1, <1>3, <1>4

LEMMA FractionTurns ==
  \A x \in 0 .. NanosMod - 1 : Fraction[x] = FractionTurn(Fraction, x)
<1>1. Fraction = [x \in 0 .. NanosMod - 1 |-> FractionTurn(Fraction, x)]
  BY FractionSolvable DEF Fraction, FractionTurn
<1> QED BY <1>1

LEMMA FractionType ==
  \A x \in 0 .. NanosMod - 1 : Fraction[x] \in 0 .. NanosMod - 1
<1>1. NanosMod \in Nat /\ NanosMod > 1
  BY MoneyAssumption
<1> DEFINE Bad == {k \in Nat : k < NanosMod /\ Fraction[NanosMod - 1 - k] \notin 0 .. NanosMod - 1}
<1>2. Bad = {}
  <2> SUFFICES ASSUME Bad # {} PROVE FALSE
    OBVIOUS
  <2>1. PICK k \in Bad : \A j \in Bad : k =< j
    <3>1. Bad \subseteq Nat
      OBVIOUS
    <3> HIDE DEF Bad
    <3> QED BY <3>1, LeastNatural
  <2>2. PICK x : x = NanosMod - 1 - k
    OBVIOUS
  <2>3. x \in 0 .. NanosMod - 1 /\ Fraction[x] \notin 0 .. NanosMod - 1
    BY <1>1, <2>2
  <2>4. ~ (x = 0 \/ 10 * x >= NanosMod) /\ Fraction[x] = Fraction[10 * x]
    BY <2>3, FractionTurns DEF FractionTurn
  <2>5. PICK j : j = NanosMod - 1 - 10 * x
    OBVIOUS
  <2>6. j \in Nat /\ j < NanosMod /\ ~ (k =< j) /\ NanosMod - 1 - j = 10 * x
    BY <1>1, <2>2, <2>3, <2>4, <2>5
  <2> QED BY <2>1, <2>3, <2>4, <2>6
<1>3. ASSUME NEW x \in 0 .. NanosMod - 1 PROVE Fraction[x] \in 0 .. NanosMod - 1
  <2>1. NanosMod - 1 - x \in Nat /\ NanosMod - 1 - x < NanosMod
        /\ NanosMod - 1 - (NanosMod - 1 - x) = x
    BY <1>1
  <2> QED BY <1>2, <2>1
<1> QED BY <1>3

\* What a double makes of an amount, in nanos.
LEMMA DoubleType ==
  ASSUME NEW c, NEW m \in Amounts(c)
  PROVE  /\ Double(m) \in Nat /\ Double(m) >= NanosMod * m.units
         /\ Fraction[m.nanos] = m.nanos => Double(m) = Value(m)
<1>1. NanosMod \in Nat /\ m.units \in Nat /\ m.nanos \in 0 .. NanosMod - 1
  BY MoneyAssumption DEF Amounts
<1>2. Fraction[m.nanos] \in Nat
  BY <1>1, FractionType
<1>3. PICK p : p = NanosMod * m.units
  OBVIOUS
<1>4. p \in Nat
  BY <1>1, <1>3
<1>5. Double(m) = p + Fraction[m.nanos] /\ Value(m) = p + m.nanos
  BY <1>3 DEF Double, Value
<1> QED BY <1>2, <1>3, <1>4, <1>5

\* A conversion from dollars answers an amount, and its value is the quotient
\* rounded down or one nano less, which is never negative.
LEMMA ConvertDollars ==
  ASSUME NEW c, NEW m \in Amounts("USD")
  PROVE  /\ Convert(m, c) \in Amounts(c)
         /\ \E lost \in {0, 1} :
              Value(Convert(m, c)) = (Double(m) * RateOf(c)) \div Rate["USD"] - lost
         /\ c \notin DOMAIN Rate => Value(Convert(m, c)) = 0
<1>1. NanosMod \in Nat /\ NanosMod > 1
  BY MoneyAssumption
<1>2. PICK r : r = RateOf(c)
  OBVIOUS
<1>3. r \in Nat /\ (c \notin DOMAIN Rate => r = 0)
  BY <1>2, PricingAssumption DEF RateOf
<1>4. PICK d : d = RateOf("USD")
  OBVIOUS
<1>5. d \in Nat /\ d > 0 /\ d = Rate["USD"]
  BY <1>4, PricingAssumption DEF RateOf
<1>6. PICK exact : exact = Double(m) * r
  OBVIOUS
<1>7. exact \in Nat /\ (r = 0 => exact = 0)
  BY <1>3, <1>6, DoubleType
<1>8. PICK q : q = exact \div d
  OBVIOUS
<1>9. q \in Nat /\ exact = d * q + (exact % d) /\ (exact = 0 => q = 0)
  <2>1. q \in Nat /\ exact = d * q + (exact % d)
    BY <1>5, <1>7, <1>8, Division
  <2>2. exact = 0 => q = 0
    BY <1>5, <1>8
  <2> QED BY <2>1, <2>2
<1> DEFINE short == exact > 0 /\ exact % d = 0 /\ <<m, c>> \in ShortPrices
<1>10. PICK v : v = q - (IF short THEN 1 ELSE 0)
  OBVIOUS
<1>11. v \in Nat /\ (exact = 0 => v = 0)
  <2>1. CASE short
    <3>1. q # 0
      BY <1>5, <1>7, <1>9, <2>1
    <3> QED BY <1>9, <1>10, <2>1, <3>1
  <2>2. CASE ~ short
    BY <1>9, <1>10, <2>2
  <2> QED BY <2>1, <2>2
<1>12. Convert(m, c) = Money(c, v \div NanosMod, v % NanosMod)
  <2>1. m.code = "USD"
    BY DEF Amounts
  <2> QED BY <1>2, <1>4, <1>6, <1>8, <1>10, <2>1 DEF Convert, UnitsAndNanos
<1>13. PICK a, b : a = v \div NanosMod /\ b = v % NanosMod
  OBVIOUS
<1>14. a \in Nat /\ b \in 0 .. NanosMod - 1 /\ v = NanosMod * a + b
  BY <1>1, <1>11, <1>13, Division
<1>15. Convert(m, c) = [code |-> c, units |-> a, nanos |-> b]
  BY <1>12, <1>13 DEF Money
<1>16. Convert(m, c) \in Amounts(c) /\ Value(Convert(m, c)) = v
  BY <1>14, <1>15 DEF Amounts, Value
<1>17. \E lost \in {0, 1} : v = q - lost
  BY <1>9, <1>10
<1> QED BY <1>2, <1>3, <1>5, <1>6, <1>7, <1>8, <1>11, <1>16, <1>17

-----------------------------------------------------------------------------
\* The quote and the totals of the pages.

CartSound == cart \in Seq(Lines) /\ Len(cart) > 0

LEMMA CartLines ==
  ASSUME CartSound
  PROVE  /\ DOMAIN cart = 1 .. Len(cart) /\ Len(cart) \in Nat /\ IsFiniteSet(DOMAIN cart)
         /\ \A i \in DOMAIN cart : /\ cart[i].quantity \in Nat /\ cart[i].quantity >= 1
                                   /\ Price[cart[i].product] \in Amounts("USD")
<1>1. DOMAIN cart = 1 .. Len(cart) /\ Len(cart) \in Nat
  BY DEF CartSound
<1>2. IsFiniteSet(1 .. Len(cart))
  BY <1>1, FS_Interval
<1>3. ASSUME NEW i \in DOMAIN cart
      PROVE  /\ cart[i].quantity \in Nat /\ cart[i].quantity >= 1
             /\ Price[cart[i].product] \in Amounts("USD")
  <2>1. cart[i] \in Lines
    BY <1>1 DEF CartSound
  <2>2. cart[i].product \in Products /\ cart[i].quantity \in 1 .. MaxQuantity
    BY <2>1 DEF Lines
  <2> QED BY <2>2, PricingAssumption DEF Amounts
<1> QED BY <1>1, <1>2, <1>3

LEMMA ItemsCounted ==
  ASSUME CartSound
  PROVE  ItemCount \in Nat /\ ItemCount >= 1
<1> DEFINE S == DOMAIN cart
           f == [i \in S |-> cart[i].quantity]
<1>1. IsFiniteSet(S) /\ 1 \in S /\ IsFiniteSet(S \ {1}) /\ S \ {1} \subseteq S
  <2>1. IsFiniteSet(S) /\ 1 \in S
    BY CartLines DEF CartSound
  <2> QED BY <2>1, FS_Subset
<1>2. \A i \in S : f[i] \in Nat /\ f[i] >= 1
  BY CartLines
<1>3. ItemCount = SumFunctionOnSet(f, S)
  BY DEF ItemCount, SumFunction
<1> HIDE DEF f, S
<1>4. SumFunctionOnSet(f, S) \in Nat /\ SumFunctionOnSet(f, S \ {1}) \in Nat
  BY <1>1, <1>2, SumType
<1>5. SumFunctionOnSet(f, S) = f[1] + SumFunctionOnSet(f, S \ {1})
  BY <1>1, <1>2, SumRemove
<1> QED BY <1>1, <1>2, <1>3, <1>4, <1>5

LEMMA QuoteAmount ==
  ASSUME CartSound
  PROVE  Quote \in Amounts("USD") /\ Quote.units >= ItemCost \div 100
<1>1. NanosMod \in Nat /\ NanosMod > 1 /\ ItemCost \in Nat
  BY MoneyAssumption, PricingAssumption
<1>2. PICK cents : cents = ItemCost * ItemCount
  OBVIOUS
<1>3. cents \in Nat /\ cents >= ItemCost
  <2>1. ItemCost * ItemCount \in Nat /\ ItemCost * 1 =< ItemCost * ItemCount
    BY <1>1, ItemsCounted, Times
  <2> QED BY <1>1, <1>2, <2>1
<1>4. PICK lost : lost = (cents % 100) - (IF cents % 100 > 0 /\ ItemCount \in ShortCounts THEN 1 ELSE 0)
  OBVIOUS
<1>5. lost \in Nat /\ lost =< 99
  BY <1>3, <1>4
<1>6. PICK k : k = NanosMod \div 100
  OBVIOUS
<1>7. k \in Nat /\ 100 * k =< NanosMod
  BY <1>1, <1>6
<1>8. lost * k \in 0 .. NanosMod - 1
  <2>1. k * lost =< k * 99 /\ k * lost = lost * k /\ lost * k \in Nat
    BY <1>5, <1>7, Times
  <2> QED BY <1>1, <1>7, <2>1
<1>9. Quote = [code |-> "USD", units |-> cents \div 100, nanos |-> lost * k]
  BY <1>2, <1>4, <1>6 DEF Quote, Money
<1>10. cents \div 100 \in Nat /\ cents \div 100 >= ItemCost \div 100
  BY <1>1, <1>3
<1> QED BY <1>8, <1>9, <1>10 DEF Amounts

\* Shipping is at least one unit of a listed currency, and nothing in the others.
LEMMA ShippingWorth ==
  ASSUME CartSound, NEW c
  PROVE  /\ Convert(Quote, c) \in Amounts(c)
         /\ c \in DOMAIN Rate => Value(Convert(Quote, c)) >= NanosMod
         /\ c \notin DOMAIN Rate => Value(Convert(Quote, c)) = 0
<1>1. NanosMod \in Nat /\ NanosMod > 1 /\ ItemCost \in Nat
  BY MoneyAssumption, PricingAssumption
<1>2. Quote \in Amounts("USD")
  BY QuoteAmount
<1>3. ASSUME c \in DOMAIN Rate PROVE Value(Convert(Quote, c)) >= NanosMod
  <2>1. PICK r, d : r = RateOf(c) /\ d = Rate["USD"]
    OBVIOUS
  <2>2. r \in Nat /\ d \in Nat /\ d > 0 /\ r = Rate[c]
    BY <1>3, <2>1, PricingAssumption DEF RateOf
  <2>3. PICK b : b = NanosMod * (ItemCost \div 100)
    OBVIOUS
  <2>4. b \in Nat /\ b * r >= (NanosMod + 1) * d
    <3>1. ItemCost \div 100 \in Nat
      BY <1>1
    <3>2. b \in Nat
      BY <1>1, <2>3, <3>1
    <3> QED BY <1>3, <2>1, <2>2, <2>3, <3>2, QuoteAssumption
  <2>5. Double(Quote) \in Nat /\ b =< Double(Quote)
    <3>1. Quote.units \in Nat /\ ItemCost \div 100 \in Nat /\ ItemCost \div 100 =< Quote.units
      BY <1>1, <1>2, QuoteAmount DEF Amounts
    <3>2. b =< NanosMod * Quote.units
      BY <1>1, <2>3, <3>1, Times
    <3>3. NanosMod * Quote.units \in Int
      BY <1>1, <3>1, Times
    <3> QED BY <1>2, <2>4, <3>2, <3>3, DoubleType
  <2>6. PICK exact : exact = Double(Quote) * r
    OBVIOUS
  <2>7. PICK e : e = (NanosMod + 1) * d
    OBVIOUS
  <2>8. exact \in Nat /\ exact >= e /\ e \in Nat
    <3>1. r * b =< r * Double(Quote) /\ r * b = b * r /\ r * Double(Quote) = exact
      BY <2>2, <2>4, <2>5, <2>6, Times
    <3>2. exact \in Nat /\ b * r \in Int /\ e \in Nat
      BY <1>1, <2>2, <2>4, <2>5, <2>6, <2>7, Times
    <3> QED BY <2>4, <2>7, <3>1, <3>2
  <2>9. PICK q : q = exact \div d
    OBVIOUS
  <2>10. q >= NanosMod + 1 /\ q \in Nat
    <3>1. q \in Nat /\ exact = d * q + (exact % d) /\ exact % d \in 0 .. d - 1
      BY <2>2, <2>8, <2>9, Division
    <3>2. ASSUME q =< NanosMod PROVE FALSE
      <4>1. d * q =< d * NanosMod /\ d * (NanosMod + 1) = d * NanosMod + d * 1
        BY <1>1, <2>2, <3>1, <3>2, Times
      <4>2. d * (NanosMod + 1) = e /\ d * q \in Int /\ d * NanosMod \in Int
        BY <1>1, <2>2, <2>7, <3>1, Times
      <4> QED BY <2>2, <2>8, <3>1, <4>1, <4>2
    <3> QED BY <1>1, <3>1, <3>2
  <2>11. \E lost \in {0, 1} : Value(Convert(Quote, c)) = q - lost
    BY <1>2, <2>1, <2>6, <2>9, ConvertDollars
  <2> QED BY <1>1, <2>10, <2>11
<1> QED BY <1>2, <1>3, ConvertDollars

\* The total of a page is the exact sum of its lines and the shipping.
LEMMA PageValue ==
  ASSUME NEW lines, IsFiniteSet(DOMAIN lines),
         \A i \in DOMAIN lines : /\ lines[i].price.units \in Int /\ lines[i].price.nanos \in Int
                                 /\ lines[i].quantity \in Int,
         NEW ship, ship.units \in Int, ship.nanos \in Int,
         NEW c, NEW h,
         \A i \in DOMAIN lines : h[i] = lines[i].quantity * Value(lines[i].price)
  PROVE  Value(PageTotal(c, lines, ship)) = SumFunctionOnSet(h, DOMAIN lines) + Value(ship)
<1>1. NanosMod \in Nat /\ NanosMod > 1
  BY MoneyAssumption
<1> DEFINE S == DOMAIN lines
           f == [i \in S |-> lines[i].price.units * lines[i].quantity]
           g == [i \in S |-> lines[i].price.nanos * lines[i].quantity]
<1>2. ASSUME NEW i \in S
      PROVE  f[i] \in Int /\ g[i] \in Int /\ h[i] = NanosMod * f[i] + g[i]
  <2>1. PICK u, n0, q : /\ u = lines[i].price.units /\ n0 = lines[i].price.nanos
                        /\ q = lines[i].quantity
    OBVIOUS
  <2>2. u \in Int /\ n0 \in Int /\ q \in Int
    BY <2>1
  <2>3. f[i] = u * q /\ g[i] = n0 * q
    BY <2>1
  <2>4. h[i] = q * (NanosMod * u + n0)
    BY <2>1 DEF Value
  <2>5. NanosMod * u \in Int /\ u * q \in Int /\ n0 * q \in Int /\ q * n0 = n0 * q
    BY <1>1, <2>2, Times
  <2>6. q * (NanosMod * u + n0) = q * (NanosMod * u) + q * n0
    BY <2>2, <2>5, Times
  <2>7. q * (NanosMod * u) = NanosMod * (u * q)
    BY <1>1, <2>2, SMTT(30)
  <2> QED BY <2>3, <2>4, <2>5, <2>6, <2>7
<1>3. PICK u, n0 : /\ u = SumFunctionOnSet(f, S) + ship.units
                   /\ n0 = SumFunctionOnSet(g, S) + ship.nanos
  OBVIOUS
<1>4. PageTotal(c, lines, ship) = Money(c, u + n0 \div NanosMod, n0 % NanosMod)
  <2>1. S = DOMAIN f /\ S = DOMAIN g
    OBVIOUS
  <2>2. SumFunction(f) = SumFunctionOnSet(f, S) /\ SumFunction(g) = SumFunctionOnSet(g, S)
    BY <2>1 DEF SumFunction
  <2> QED BY <1>3, <2>2 DEF PageTotal
<1> HIDE DEF f, g
<1>5. SumFunctionOnSet(h, S) = NanosMod * SumFunctionOnSet(f, S) + SumFunctionOnSet(g, S)
  <2>1. /\ IsFiniteSet(S) /\ NanosMod \in Int
        /\ \A i \in S : f[i] \in Int /\ g[i] \in Int /\ h[i] = NanosMod * f[i] + g[i]
    BY <1>1, <1>2
  <2> QED BY ONLY <2>1, SumAdds
<1>6. SumFunctionOnSet(f, S) \in Int /\ SumFunctionOnSet(g, S) \in Int
  BY <1>2, SumType
<1>7. PICK a, b : a = n0 \div NanosMod /\ b = n0 % NanosMod
  OBVIOUS
<1>8. a \in Int /\ b \in Int /\ n0 = NanosMod * a + b
  BY <1>1, <1>3, <1>6, <1>7, Division
<1>9. Value(PageTotal(c, lines, ship)) = NanosMod * (u + a) + b
  BY <1>4, <1>7 DEF Value, Money
<1>10. /\ NanosMod * (u + a) = NanosMod * u + NanosMod * a
       /\ NanosMod * u = NanosMod * SumFunctionOnSet(f, S) + NanosMod * ship.units
       /\ NanosMod * SumFunctionOnSet(f, S) \in Int /\ NanosMod * ship.units \in Int
       /\ NanosMod * a \in Int
  BY <1>1, <1>3, <1>6, <1>8, Times
<1> QED BY <1>3, <1>5, <1>6, <1>8, <1>9, <1>10 DEF Value

-----------------------------------------------------------------------------
\* The inductive invariant of an order.

\* The costs are conversions of the cart's prices, and what was shown is kept.
Converted ==
  /\ pc \in {"browse", "prepare", "shipping", "multiply", "charge", "panic"}
  /\ costs \in Seq(Amounts(code)) /\ Len(costs) =< Len(cart)
  /\ \A i \in DOMAIN costs : costs[i] = Convert(Price[cart[i].product], code)
  /\ pc \notin {"browse", "prepare"} =>
       Len(costs) = Len(cart) /\ shipping = Convert(Quote, code)
  /\ pc # "browse" =>
       shown = [prices |-> [i \in DOMAIN cart |-> ShownPrice(cart[i].product)],
                shipping |-> Convert(Quote, code)]

NotNegative(m) ==
  m.code = code /\ m.units \in Int /\ m.nanos \in Int /\ Value(m) \in Nat

\* What the lines come to, each by itself.
LineValues == [i \in DOMAIN cart |-> cart[i].quantity * Value(costs[i])]

\* The totals are the exact sums of the turns and the lines behind them.
Added ==
  /\ NotNegative(total) /\ NotNegative(out)
  /\ Value(total) = due /\ (code \notin DOMAIN Rate => due = 0)
  /\ pc \in {"browse", "prepare", "shipping"} =>
       total = Zero(code) /\ out = Zero(code) /\ line = 1
  /\ pc = "multiply" =>
       /\ line \in DOMAIN cart /\ n \in 1 .. cart[line].quantity
       /\ Value(out) = (cart[line].quantity - n + 1) * Value(costs[line])
  /\ pc = "charge" => line = Len(cart) + 1
  /\ pc \in {"multiply", "charge"} =>
       due = Value(shipping) + SumFunctionOnSet(LineValues, 1 .. line - 1)

SoundCosts == \A i \in DOMAIN costs : Sound(costs[i])

\* From half a unit on, every result stays valid and the next Sum takes it.
Adds == SoundCosts => IsValid(total) /\ IsValid(out) /\ pc # "panic"

OrderInv == CartSound /\ Converted /\ Added /\ Adds

LEMMA ZeroAmount ==
  ASSUME NEW c
  PROVE  Zero(c) \in Amounts(c) /\ Value(Zero(c)) = 0
<1>1. NanosMod \in Nat /\ NanosMod > 1
  BY MoneyAssumption
<1> QED BY <1>1 DEF Zero, Money, Amounts, Value

LEMMA AmountFits ==
  ASSUME NEW m \in Amounts(code)
  PROVE  NotNegative(m) /\ IsValid(m)
BY AmountValue DEF NotNegative

\* Such amounts add up exactly where Sum takes them; the result is valid again when
\* it is nothing, or a unit and more.
LEMMA SumNotNegative ==
  ASSUME NEW l, NEW r, NotNegative(l), NotNegative(r), ~ SumFails(l, r)
  PROVE  /\ NotNegative(MoneySum(l, r)) /\ Value(MoneySum(l, r)) = Value(l) + Value(r)
         /\ Value(l) + Value(r) = 0 \/ Value(l) + Value(r) >= NanosMod => IsValid(MoneySum(l, r))
<1>1. /\ l.units \in Int /\ l.nanos \in Int /\ Value(l) \in Nat
      /\ r.units \in Int /\ r.nanos \in Int /\ Value(r) \in Nat
      /\ l.code = code /\ IsValid(l) /\ IsValid(r)
  BY DEF NotNegative, SumFails
<1>2. /\ MoneySum(l, r).code = l.code
      /\ MoneySum(l, r).units \in Int /\ MoneySum(l, r).nanos \in Int
      /\ Value(MoneySum(l, r)) = Value(l) + Value(r)
      /\ (\/ l.units + r.units > 0
          \/ l.nanos + r.nanos = 0
          \/ l.nanos + r.nanos >= NanosMod) => IsValid(MoneySum(l, r))
  BY <1>1, SumExact
<1>3. /\ l.units \in Nat /\ l.nanos \in Nat /\ (l.units = 0 => l.nanos = Value(l))
      /\ r.units \in Nat /\ r.nanos \in Nat /\ (r.units = 0 => r.nanos = Value(r))
  BY <1>1, NoNegativePart
<1>4. ASSUME Value(l) + Value(r) = 0 \/ Value(l) + Value(r) >= NanosMod
      PROVE  \/ l.units + r.units > 0
             \/ l.nanos + r.nanos = 0
             \/ l.nanos + r.nanos >= NanosMod
  <2>1. CASE l.units = 0 /\ r.units = 0
    BY <1>1, <1>3, <1>4, <2>1
  <2>2. CASE ~ (l.units = 0 /\ r.units = 0)
    <3>1. \A a, b \in Nat : ~ (a = 0 /\ b = 0) => a + b > 0
      OBVIOUS
    <3> QED BY <1>3, <2>2, <3>1
  <2> QED BY <2>1, <2>2
<1> QED BY <1>1, <1>2, <1>4 DEF NotNegative

\* What the invariant says of a line: its price, its cost and its value.
LEMMA LineFacts ==
  ASSUME CartSound, Converted, NEW i \in DOMAIN cart, Len(costs) = Len(cart)
  PROVE  /\ i \in DOMAIN costs
         /\ costs[i] = Convert(Price[cart[i].product], code)
         /\ costs[i] \in Amounts(code) /\ NotNegative(costs[i]) /\ IsValid(costs[i])
         /\ cart[i].quantity \in Nat /\ cart[i].quantity >= 1
<1>1. i \in DOMAIN costs /\ costs[i] \in Amounts(code)
  <2>1. costs \in Seq(Amounts(code)) /\ DOMAIN cart = 1 .. Len(cart)
    BY CartLines DEF Converted
  <2> QED BY <2>1
<1>2. costs[i] = Convert(Price[cart[i].product], code)
  BY <1>1 DEF Converted
<1>3. cart[i].quantity \in Nat /\ cart[i].quantity >= 1
  BY CartLines
<1> QED BY <1>1, <1>2, <1>3, AmountFits

LEMMA InitOrder == Init => OrderInv
<1> SUFFICES ASSUME Init PROVE OrderInv
  OBVIOUS
<1>1. CartSound
  <2>1. PICK k \in 1 .. MaxLines : cart \in [1 .. k -> Lines]
    BY DEF Init, CartLists
  <2>2. k \in Nat /\ k > 0
    BY <2>1, PricingAssumption
  <2>3. cart \in Seq(Lines) /\ Len(cart) = k
    BY <2>1, <2>2
  <2> QED BY <2>2, <2>3 DEF CartSound
<1>2. Converted
  <2>1. costs = << >> /\ Len(costs) = 0 /\ DOMAIN costs = {} /\ costs \in Seq(Amounts(code))
    BY DEF Init
  <2>2. Len(costs) =< Len(cart)
    BY <1>1, <2>1 DEF CartSound
  <2> QED BY <2>1, <2>2 DEF Init, Converted
<1>3. Added /\ Adds
  <2>1. total = Zero(code) /\ out = Zero(code) /\ due = 0 /\ pc = "browse" /\ line = 1
    BY DEF Init
  <2>2. NotNegative(Zero(code)) /\ IsValid(Zero(code)) /\ Value(Zero(code)) = 0
    BY ZeroAmount, AmountFits
  <2> QED BY <2>1, <2>2 DEF Added, Adds
<1> QED BY <1>1, <1>2, <1>3 DEF OrderInv

LEMMA ShowCartOrder == OrderInv /\ ShowCart => OrderInv'
<1> SUFFICES ASSUME OrderInv, ShowCart PROVE OrderInv'
  OBVIOUS
<1>1. /\ pc = "browse" /\ pc' = "prepare"
      /\ UNCHANGED <<code, cart, costs, shipping, total, line, out, n, due>>
      /\ shown' = [prices |-> [i \in DOMAIN cart |-> ShownPrice(cart[i].product)],
                   shipping |-> Convert(Quote, code)]
  BY DEF ShowCart
<1>2. CartSound'
  BY <1>1 DEF OrderInv, CartSound
<1>3. Converted'
  BY <1>1 DEF OrderInv, Converted, ShownPrice, Quote, ItemCount
<1>4. Added'
  BY <1>1 DEF OrderInv, Added, NotNegative
<1>5. Adds'
  BY <1>1 DEF OrderInv, Adds, SoundCosts
<1> QED BY <1>2, <1>3, <1>4, <1>5 DEF OrderInv

LEMMA PrepareOrder == OrderInv /\ PrepOrderItem => OrderInv'
<1> SUFFICES ASSUME OrderInv, PrepOrderItem PROVE OrderInv'
  OBVIOUS
<1> DEFINE k == Len(costs) + 1
           cost == Convert(Price[cart[k].product], code)
<1>1. /\ pc = "prepare" /\ pc' = "prepare" /\ Len(costs) < Len(cart)
      /\ costs' = Append(costs, cost)
      /\ UNCHANGED <<code, cart, shown, shipping, total, line, out, n, due>>
  BY DEF PrepOrderItem
<1>2. CartSound'
  BY <1>1 DEF OrderInv, CartSound
<1>3. costs \in Seq(Amounts(code)) /\ Len(costs) \in Nat /\ Len(cart) \in Nat
  BY DEF OrderInv, Converted, CartSound
<1>4. cost \in Amounts(code)
  <2>1. k \in DOMAIN cart
    BY <1>1, <1>3, CartLines DEF OrderInv
  <2> QED BY <2>1, CartLines, ConvertDollars DEF OrderInv
<1>5. /\ costs' \in Seq(Amounts(code)) /\ Len(costs') = k
      /\ DOMAIN costs' = DOMAIN costs \cup {k}
      /\ \A i \in DOMAIN costs : costs'[i] = costs[i]
      /\ costs'[k] = cost
  <2> HIDE DEF cost
  <2> QED BY <1>1, <1>3, <1>4
<1>6. Converted'
  <2>1. \A i \in DOMAIN costs' : costs'[i] = Convert(Price[cart[i].product], code)
    BY <1>5 DEF OrderInv, Converted
  <2>2. Len(costs') =< Len(cart)
    BY <1>1, <1>3, <1>5
  <2> QED BY <1>1, <1>5, <2>1, <2>2 DEF OrderInv, Converted, ShownPrice, Quote, ItemCount
<1>7. Added'
  BY <1>1 DEF OrderInv, Added, NotNegative
<1>8. Adds'
  BY <1>1, <1>5 DEF OrderInv, Adds, SoundCosts
<1> QED BY <1>2, <1>6, <1>7, <1>8 DEF OrderInv

LEMMA QuoteOrder == OrderInv /\ QuoteShipping => OrderInv'
<1> SUFFICES ASSUME OrderInv, QuoteShipping PROVE OrderInv'
  OBVIOUS
<1>1. /\ pc = "prepare" /\ pc' = "shipping" /\ Len(costs) = Len(cart)
      /\ shipping' = Convert(Quote, code)
      /\ UNCHANGED <<code, cart, shown, costs, total, line, out, n, due>>
  BY DEF QuoteShipping
<1>2. CartSound'
  BY <1>1 DEF OrderInv, CartSound
<1>3. Converted'
  BY <1>1 DEF OrderInv, Converted, ShownPrice, Quote, ItemCount
<1>4. Added'
  BY <1>1 DEF OrderInv, Added, NotNegative
<1>5. Adds'
  BY <1>1 DEF OrderInv, Adds, SoundCosts
<1> QED BY <1>2, <1>3, <1>4, <1>5 DEF OrderInv

\* The loop over the lines starts its next turn, or is left after the last.
LEMMA LineStarts ==
  ASSUME CartSound, Converted, Len(costs) = Len(cart), NotNegative(out),
         NEW k \in 1 .. Len(cart) + 1, StartLine(k)
  PROVE  /\ pc' \in {"multiply", "charge"}
         /\ NotNegative(out') /\ (IsValid(out) => IsValid(out'))
         /\ pc' = "multiply" =>
              /\ k \in DOMAIN cart /\ n' \in 1 .. cart[k].quantity
              /\ Value(out') = (cart[k].quantity - n' + 1) * Value(costs[k])
         /\ pc' = "charge" => k = Len(cart) + 1
<1>1. DOMAIN cart = 1 .. Len(cart) /\ Len(cart) \in Nat
  BY CartLines
<1>2. CASE k \in DOMAIN cart
  <2>1. out' = costs[k] /\ n' = cart[k].quantity /\ pc' = "multiply"
    BY <1>2 DEF StartLine
  <2>2. NotNegative(costs[k]) /\ IsValid(costs[k]) /\ cart[k].quantity \in Nat /\ cart[k].quantity >= 1
    BY <1>2, LineFacts
  <2>3. PICK v : v = Value(costs[k])
    OBVIOUS
  <2>4. v \in Nat /\ cart[k].quantity - n' + 1 = 1
    BY <2>1, <2>2, <2>3 DEF NotNegative
  <2>5. Value(out') = (cart[k].quantity - n' + 1) * Value(costs[k])
    BY <2>1, <2>3, <2>4
  <2> QED BY <1>2, <2>1, <2>2, <2>5
<1>3. CASE k \notin DOMAIN cart
  <2>1. out' = out /\ pc' = "charge"
    BY <1>3 DEF StartLine
  <2>2. k = Len(cart) + 1
    BY <1>1, <1>3
  <2> QED BY <2>1, <2>2
<1> QED BY <1>2, <1>3

\* Where the cart, the costs and what was shown stay as they are.
LEMMA StillConverted ==
  ASSUME CartSound, Converted, pc \in {"shipping", "multiply"},
         pc' \in {"shipping", "multiply", "charge", "panic"},
         UNCHANGED <<code, cart, shown, costs, shipping>>
  PROVE  /\ CartSound' /\ Converted' /\ (SoundCosts' <=> SoundCosts)
         /\ Len(costs) = Len(cart) /\ shipping = Convert(Quote, code)
         /\ LineValues' = LineValues
<1>1. CartSound'
  BY DEF CartSound
<1>2. Converted'
  BY DEF Converted, ShownPrice, Quote, ItemCount
<1>3. Len(costs) = Len(cart) /\ shipping = Convert(Quote, code)
  BY DEF Converted
<1>4. LineValues' = LineValues
  BY DEF LineValues
<1>5. SoundCosts' <=> SoundCosts
  BY DEF SoundCosts
<1> QED BY <1>1, <1>2, <1>3, <1>4, <1>5

LEMMA AddShippingOrder == OrderInv /\ AddShipping => OrderInv'
<1> SUFFICES ASSUME OrderInv, AddShipping PROVE OrderInv'
  OBVIOUS
<1> USE DEF OrderInv
<1>1. pc = "shipping" /\ UNCHANGED <<code, cart, shown, costs, shipping>>
  BY DEF AddShipping
<1>2. total = Zero(code) /\ out = Zero(code) /\ line = 1 /\ Value(total) = due
  BY <1>1 DEF Added
<1>3. shipping = Convert(Quote, code) /\ Len(costs) = Len(cart)
  BY <1>1 DEF Converted
<1>4. /\ NotNegative(shipping) /\ IsValid(shipping)
      /\ NotNegative(total) /\ IsValid(total) /\ Value(total) = 0
      /\ Value(shipping) = 0 \/ Value(shipping) >= NanosMod
      /\ (code \notin DOMAIN Rate => Value(shipping) = 0)
  BY <1>2, <1>3, ShippingWorth, ZeroAmount, AmountFits
<1>5. ~ SumFails(total, shipping)
  BY <1>4 DEF SumFails, NotNegative
<1>6. /\ total' = MoneySum(total, shipping) /\ due' = due + Value(shipping)
      /\ StartLine(line) /\ line' = line
  BY <1>5 DEF AddShipping, Panics
<1>7. NotNegative(total') /\ Value(total') = Value(shipping) /\ IsValid(total')
  <2>1. Value(total) + Value(shipping) = Value(shipping)
    BY <1>4 DEF NotNegative
  <2> QED BY <1>4, <1>5, <1>6, <2>1, SumNotNegative
<1>8. NotNegative(out)
  BY DEF Added
<1>9. line \in 1 .. Len(cart) + 1
  BY <1>2, CartLines
<1>10. /\ pc' \in {"multiply", "charge"}
       /\ NotNegative(out') /\ (IsValid(out) => IsValid(out'))
       /\ pc' = "multiply" =>
            /\ line \in DOMAIN cart /\ n' \in 1 .. cart[line].quantity
            /\ Value(out') = (cart[line].quantity - n' + 1) * Value(costs[line])
       /\ pc' = "charge" => line = Len(cart) + 1
  BY <1>3, <1>6, <1>8, <1>9, LineStarts
<1>11. /\ CartSound' /\ Converted' /\ (SoundCosts' <=> SoundCosts)
       /\ LineValues' = LineValues
  BY <1>1, <1>10, StillConverted
<1>12. due' = Value(shipping) /\ Value(total') = due' /\ Value(shipping) \in Nat
  <2>1. Value(shipping) \in Nat /\ due = 0
    BY <1>2, <1>4 DEF NotNegative
  <2>2. due' = Value(shipping)
    BY <1>6, <2>1
  <2>3. Value(total') = Value(shipping)
    BY <1>6, <1>7
  <2> QED BY <2>1, <2>2, <2>3
<1>13. Added'
  <2>1. NotNegative(total)' /\ NotNegative(out)'
    BY <1>1, <1>6, <1>7, <1>10, <1>12 DEF NotNegative
  <2>2. SumFunctionOnSet(LineValues, 1 .. line - 1) = 0
    <3>1. 1 .. line - 1 = {}
      BY <1>2
    <3> QED BY <3>1, SumEmpty
  <2>3. due' = Value(shipping) + SumFunctionOnSet(LineValues, 1 .. line - 1)
    BY <1>12, <2>2
  <2> HIDE DEF OrderInv
  <2>4. code \notin DOMAIN Rate => due' = 0
    BY <1>4, <1>12
  <2> QED BY <1>1, <1>6, <1>10, <1>11, <1>12, <2>1, <2>3, <2>4 DEF Added
<1>14. Adds'
  BY <1>6, <1>7, <1>10, <1>11 DEF Adds
<1> QED BY <1>11, <1>13, <1>14

LEMMA MultiplyOrder == OrderInv /\ Multiply => OrderInv'
<1> SUFFICES ASSUME OrderInv, Multiply PROVE OrderInv'
  OBVIOUS
<1> USE DEF OrderInv
<1>1. pc = "multiply" /\ n > 1 /\ UNCHANGED <<code, cart, shown, costs, shipping>>
  BY DEF Multiply
<1>2. Len(costs) = Len(cart) /\ line \in DOMAIN cart
  BY <1>1 DEF Converted, Added
<1>3. PICK cost, v, q : cost = costs[line] /\ v = Value(cost) /\ q = cart[line].quantity
  OBVIOUS
<1>4. /\ NotNegative(cost) /\ IsValid(cost) /\ v \in Nat /\ q \in Nat
      /\ NotNegative(out) /\ NotNegative(total)
  BY <1>2, <1>3, LineFacts DEF Added, NotNegative
<1>5. n \in 1 .. q /\ Value(out) = (q - n + 1) * v
  BY <1>1, <1>3 DEF Added
<1>6. CASE SumFails(out, cost)
  <2>1. pc' = "panic" /\ UNCHANGED <<total, line, out, n, due>>
    BY <1>3, <1>6 DEF Multiply, Panics
  <2>2. /\ CartSound' /\ Converted' /\ (SoundCosts' <=> SoundCosts)
    BY <1>1, <2>1, StillConverted
  <2>3. ~ SoundCosts
    BY <1>4, <1>6 DEF SumFails, Adds, NotNegative
  <2>4. Added'
    BY <1>1, <2>1 DEF Added, NotNegative
  <2> QED BY <2>2, <2>3, <2>4 DEF Adds
<1>7. CASE ~ SumFails(out, cost)
  <2>1. /\ out' = MoneySum(out, cost) /\ n' = n - 1
        /\ UNCHANGED <<pc, total, line, due>>
    BY <1>3, <1>7 DEF Multiply, Panics
  <2>2. /\ CartSound' /\ Converted' /\ (SoundCosts' <=> SoundCosts)
        /\ LineValues' = LineValues
    BY <1>1, <2>1, StillConverted
  <2>3. /\ NotNegative(out') /\ Value(out') = Value(out) + v
        /\ Value(out) + v = 0 \/ Value(out) + v >= NanosMod => IsValid(out')
    BY <1>3, <1>4, <1>7, <2>1, SumNotNegative
  <2>4. n' \in 1 .. q /\ Value(out') = (q - n' + 1) * v
    <3>1. n' \in 1 .. q /\ q - n' + 1 = (q - n + 1) + 1 /\ q - n + 1 \in Nat
      BY <1>1, <1>4, <1>5, <2>1
    <3>2. PICK k : k = q - n + 1
      OBVIOUS
    <3>3. k \in Nat /\ k + 1 \in Nat /\ q - n' + 1 = k + 1
      BY <3>1, <3>2
    <3>4. v * (k + 1) = v * k + v * 1 /\ v * (k + 1) = (k + 1) * v /\ v * k = k * v
      BY <1>4, <3>3, Times
    <3>5. Value(out') = v * k + v * 1
      BY <1>4, <1>5, <2>3, <3>2, <3>4
    <3>6. Value(out') = (k + 1) * v
      BY <3>4, <3>5
    <3> QED BY <3>1, <3>3, <3>6
  <2>5. Added'
    <3>1. NotNegative(total)' /\ NotNegative(out)'
      BY <1>1, <1>4, <2>1, <2>3 DEF NotNegative
    <3>2. Value(out)' = (cart[line].quantity - n + 1)' * Value(costs[line])'
      BY <1>1, <1>3, <2>1, <2>4
    <3>3. n' \in 1 .. cart[line].quantity
      BY <1>3, <2>4
    <3> QED BY <1>1, <2>1, <2>2, <3>1, <3>2, <3>3 DEF Added
  <2>6. ASSUME SoundCosts PROVE IsValid(out')
    <3>1. v = 0 \/ 2 * v >= NanosMod
      BY <1>2, <1>3, <2>6, LineFacts DEF SoundCosts, Sound
    <3>2. v = 0 => Value(out) = 0
      BY <1>4, <1>5
    <3>3. Value(out) >= v /\ Value(out) \in Nat
      <4>1. PICK k : k = q - n + 1
        OBVIOUS
      <4>2. k \in Nat /\ 1 =< k
        BY <1>4, <1>5, <4>1
      <4>3. v * 1 =< v * k /\ v * k = k * v /\ v * k \in Int
        BY <1>4, <4>2, Times
      <4> QED BY <1>4, <1>5, <4>1, <4>3 DEF NotNegative
    <3> QED BY <1>4, <2>3, <3>1, <3>2, <3>3, MoneyAssumption
  <2>7. Adds'
    BY <1>1, <2>1, <2>2, <2>6 DEF Adds
  <2> QED BY <2>2, <2>5, <2>7
<1> QED BY <1>6, <1>7

LEMMA AddLineOrder == OrderInv /\ AddLine => OrderInv'
<1> SUFFICES ASSUME OrderInv, AddLine PROVE OrderInv'
  OBVIOUS
<1> USE DEF OrderInv
<1>1. pc = "multiply" /\ n =< 1 /\ UNCHANGED <<code, cart, shown, costs, shipping>>
  BY DEF AddLine
<1>2. /\ Len(costs) = Len(cart) /\ shipping = Convert(Quote, code)
      /\ line \in DOMAIN cart /\ line \in 1 .. Len(cart) /\ Len(cart) \in Nat
  BY <1>1, CartLines DEF Converted, Added
<1>3. PICK v, q : v = Value(costs[line]) /\ q = cart[line].quantity
  OBVIOUS
<1>4. /\ v \in Nat /\ q \in Nat /\ NotNegative(out) /\ NotNegative(total)
      /\ (code \notin DOMAIN Rate => v = 0)
  <2>1. costs[line] = Convert(Price[cart[line].product], code) /\ Price[cart[line].product] \in Amounts("USD")
    BY <1>2, LineFacts, CartLines
  <2>2. code \notin DOMAIN Rate => v = 0
    BY <1>3, <2>1, ConvertDollars
  <2> QED BY <1>2, <1>3, <2>2, LineFacts DEF Added, NotNegative
<1>5. Value(out) = q * v /\ q * v \in Nat /\ q * v = LineValues[line]
  <2>1. n \in 1 .. q /\ Value(out) = (q - n + 1) * v
    BY <1>1, <1>3 DEF Added
  <2>2. q - n + 1 = q
    BY <1>1, <1>4, <2>1
  <2>3. q * v \in Nat
    BY <1>4
  <2> QED BY <1>2, <1>3, <2>1, <2>2, <2>3 DEF LineValues
<1>6. /\ due = Value(shipping) + SumFunctionOnSet(LineValues, 1 .. line - 1)
      /\ Value(total) = due /\ (code \notin DOMAIN Rate => due = 0)
  BY <1>1 DEF Added
<1>7. \A i \in DOMAIN cart : LineValues[i] \in Nat
  <2> SUFFICES ASSUME NEW i \in DOMAIN cart PROVE LineValues[i] \in Nat
    OBVIOUS
  <2>1. cart[i].quantity \in Nat /\ Value(costs[i]) \in Nat
    BY <1>2, LineFacts DEF NotNegative
  <2>2. LineValues[i] = cart[i].quantity * Value(costs[i])
    BY DEF LineValues
  <2> QED BY <2>1, <2>2
<1>8. SumFunctionOnSet(LineValues, 1 .. line - 1) \in Nat
  <2>1. IsFiniteSet(1 .. line - 1)
    BY <1>2, FS_Interval
  <2>2. \A i \in 1 .. line - 1 : LineValues[i] \in Nat
    BY <1>2, <1>7, CartLines
  <2> QED BY <2>1, <2>2, SumType
<1>9. CASE SumFails(total, out)
  <2>1. pc' = "panic" /\ UNCHANGED <<total, line, out, n, due>>
    BY <1>9 DEF AddLine, Panics
  <2>2. /\ CartSound' /\ Converted' /\ (SoundCosts' <=> SoundCosts)
    BY <1>1, <2>1, StillConverted
  <2>3. ~ SoundCosts
    BY <1>4, <1>9 DEF SumFails, Adds, NotNegative
  <2>4. Added'
    BY <1>1, <2>1 DEF Added, NotNegative
  <2> QED BY <2>2, <2>3, <2>4 DEF Adds
<1>10. CASE ~ SumFails(total, out)
  <2>1. /\ total' = MoneySum(total, out) /\ due' = due + q * v
        /\ line' = line + 1 /\ StartLine(line + 1)
    BY <1>3, <1>10 DEF AddLine, Panics
  <2>2. line + 1 \in 1 .. Len(cart) + 1
    BY <1>2
  <2>3. /\ pc' \in {"multiply", "charge"}
        /\ NotNegative(out') /\ (IsValid(out) => IsValid(out'))
        /\ pc' = "multiply" =>
             /\ line + 1 \in DOMAIN cart /\ n' \in 1 .. cart[line + 1].quantity
             /\ Value(out') = (cart[line + 1].quantity - n' + 1) * Value(costs[line + 1])
        /\ pc' = "charge" => line + 1 = Len(cart) + 1
    BY <1>2, <1>4, <2>1, <2>2, LineStarts
  <2>4. /\ CartSound' /\ Converted' /\ (SoundCosts' <=> SoundCosts)
        /\ LineValues' = LineValues
    BY <1>1, <2>3, StillConverted
  <2>5. /\ NotNegative(total') /\ Value(total') = due'
        /\ due' = 0 \/ due' >= NanosMod => IsValid(total')
    BY <1>4, <1>5, <1>6, <1>10, <2>1, SumNotNegative
  <2>6. SumFunctionOnSet(LineValues, 1 .. line) = q * v + SumFunctionOnSet(LineValues, 1 .. line - 1)
    <3>1. IsFiniteSet(1 .. line - 1)
      BY <1>2, FS_Interval
    <3>2. line \notin 1 .. line - 1 /\ (1 .. line - 1) \cup {line} = 1 .. line
      BY <1>2
    <3>3. \A i \in (1 .. line - 1) \cup {line} : LineValues[i] \in Int
      BY <1>2, <1>7, CartLines
    <3>4. SumFunctionOnSet(LineValues, (1 .. line - 1) \cup {line})
            = LineValues[line] + SumFunctionOnSet(LineValues, 1 .. line - 1)
      BY ONLY <3>1, <3>2, <3>3, SumAddElement
    <3> QED BY <1>5, <3>2, <3>4
  <2>7. due' = Value(shipping) + SumFunctionOnSet(LineValues, 1 .. line)
    BY <1>2, <1>5, <1>6, <1>8, <2>1, <2>6, ShippingWorth, AmountValue
  <2>8. code \notin DOMAIN Rate => due' = 0
    BY <1>4, <1>6, <2>1
  <2>9. Added'
    <3>1. NotNegative(total)' /\ NotNegative(out)'
      BY <1>1, <2>3, <2>5 DEF NotNegative
    <3>2. 1 .. line' - 1 = 1 .. line /\ line' = line + 1
      BY <1>2, <2>1
    <3>3. due' = Value(shipping) + SumFunctionOnSet(LineValues, 1 .. line' - 1)
      BY <2>7, <3>2
    <3> HIDE DEF OrderInv
    <3> QED BY <1>1, <2>3, <2>4, <2>5, <2>8, <3>1, <3>2, <3>3 DEF Added
  <2>10. IsValid(total')
    <3>1. CASE code \in DOMAIN Rate
      <4>1. Value(shipping) >= NanosMod /\ Value(shipping) \in Nat
        BY <1>2, <3>1, ShippingWorth, AmountValue
      <4> QED BY <1>5, <1>6, <1>8, <2>1, <2>5, <4>1, MoneyAssumption
    <3>2. CASE code \notin DOMAIN Rate
      BY <2>5, <2>8, <3>2
    <3> QED BY <3>1, <3>2
  <2>11. Adds'
    BY <2>3, <2>4, <2>10 DEF Adds
  <2> QED BY <2>4, <2>9, <2>11
<1> QED BY <1>9, <1>10

LEMMA NextOrder == OrderInv /\ [Next]_vars => OrderInv'
<1> SUFFICES ASSUME OrderInv, [Next]_vars PROVE OrderInv'
  OBVIOUS
<1>1. CASE UNCHANGED vars
  <2>1. UNCHANGED <<code, cart, pc, shown, costs, shipping, total, line, out, n, due>>
    BY <1>1 DEF vars
  <2>2. CartSound' /\ Converted'
    BY <2>1 DEF OrderInv, CartSound, Converted, ShownPrice, Quote, ItemCount
  <2>3. Added'
    BY <2>1 DEF OrderInv, Added, NotNegative, LineValues
  <2>4. Adds'
    BY <2>1 DEF OrderInv, Adds, SoundCosts
  <2> QED BY <2>2, <2>3, <2>4 DEF OrderInv
<1>2. CASE Next
  BY <1>2, ShowCartOrder, PrepareOrder, QuoteOrder, AddShippingOrder, MultiplyOrder, AddLineOrder DEF Next
<1> QED BY <1>1, <1>2

LEMMA Ordered == Spec => []OrderInv
BY InitOrder, NextOrder, PTL DEF Spec

-----------------------------------------------------------------------------
\* What the invariant implies at the end of an order.

LEMMA NoPanic == OrderInv => NeverPanics
BY DEF OrderInv, Adds, SoundCosts, NeverPanics

LEMMA ExactTotal == OrderInv => TotalIsExact
<1> SUFFICES ASSUME OrderInv PROVE TotalIsExact
  OBVIOUS
<1>1. Value(total) = due
  BY DEF OrderInv, Added
<1>2. ASSUME pc = "multiply"
      PROVE  Value(out) + (n - 1) * Value(costs[line]) = cart[line].quantity * Value(costs[line])
  <2>1. /\ line \in DOMAIN cart /\ n \in 1 .. cart[line].quantity
        /\ Value(out) = (cart[line].quantity - n + 1) * Value(costs[line])
    BY <1>2 DEF OrderInv, Added
  <2>2. Len(costs) = Len(cart)
    BY <1>2 DEF OrderInv, Converted
  <2>3. PICK v, q : v = Value(costs[line]) /\ q = cart[line].quantity
    OBVIOUS
  <2>4. v \in Nat /\ q \in Nat
    BY <2>1, <2>2, <2>3, LineFacts DEF OrderInv, NotNegative
  <2>5. PICK j, k : j = q - n + 1 /\ k = n - 1
    OBVIOUS
  <2>6. j \in Nat /\ k \in Nat /\ j + k = q
    <3>1. n \in 1 .. q
      BY <2>1, <2>3
    <3> QED BY <2>4, <2>5, <3>1
  <2>7. v * (j + k) = v * j + v * k /\ v * j = j * v /\ v * k = k * v /\ v * (j + k) = (j + k) * v
    BY <2>4, <2>6, Times
  <2>8. Value(out) = j * v
    BY <2>1, <2>3, <2>5
  <2>9. j * v + k * v = q * v
    BY <2>6, <2>7
  <2> QED BY <2>3, <2>5, <2>8, <2>9
<1> QED BY <1>1, <1>2 DEF TotalIsExact

\* The value of a page's total for the lines of the cart, at any amounts.
LEMMA CartTotal ==
  ASSUME CartSound, NEW prices, NEW ship \in Amounts(code),
         \A i \in DOMAIN cart : \E c : prices[i] \in Amounts(c),
         NEW h, \A i \in DOMAIN cart : h[i] = cart[i].quantity * Value(prices[i])
  PROVE  Value(PageTotal(code, LinesAt(prices), ship))
           = SumFunctionOnSet(h, DOMAIN cart) + Value(ship)
<1>1. PICK lines : lines = LinesAt(prices)
  OBVIOUS
<1>2. /\ DOMAIN lines = DOMAIN cart
      /\ \A i \in DOMAIN cart : lines[i].price = prices[i] /\ lines[i].quantity = cart[i].quantity
  BY <1>1 DEF LinesAt
<1>3. IsFiniteSet(DOMAIN lines)
  BY <1>2, CartLines
<1>4. \A i \in DOMAIN lines : /\ lines[i].price.units \in Int /\ lines[i].price.nanos \in Int
                              /\ lines[i].quantity \in Int
                              /\ h[i] = lines[i].quantity * Value(lines[i].price)
  BY <1>2, CartLines, AmountValue
<1>5. ship.units \in Int /\ ship.nanos \in Int
  BY AmountValue
<1>6. Value(PageTotal(code, lines, ship)) = SumFunctionOnSet(h, DOMAIN lines) + Value(ship)
  BY <1>3, <1>4, <1>5, PageValue
<1> QED BY <1>1, <1>2, <1>6

\* What the state is once everything is added up.
LEMMA Charged ==
  ASSUME OrderInv, pc = "charge"
  PROVE  /\ Len(costs) = Len(cart) /\ shipping = Convert(Quote, code)
         /\ shipping \in Amounts(code) /\ Value(shipping) \in Nat
         /\ shown.shipping = shipping
         /\ \A i \in DOMAIN cart : shown.prices[i] = ShownPrice(cart[i].product)
         /\ Value(total) = SumFunctionOnSet(LineValues, DOMAIN cart) + Value(shipping)
         /\ SumFunctionOnSet(LineValues, DOMAIN cart) \in Nat
         /\ Value(PageTotal(code, LinesAt(costs), shipping)) = Value(total)
<1>1. /\ CartSound /\ Converted /\ Len(costs) = Len(cart) /\ shipping = Convert(Quote, code)
      /\ shown = [prices |-> [i \in DOMAIN cart |-> ShownPrice(cart[i].product)],
                  shipping |-> Convert(Quote, code)]
  BY DEF OrderInv, Converted
<1>2. shipping \in Amounts(code) /\ Value(shipping) \in Nat
  BY <1>1, ShippingWorth, AmountValue
<1>3. /\ \A i \in DOMAIN cart : /\ costs[i] \in Amounts(code) /\ LineValues[i] \in Nat
                                /\ LineValues[i] = cart[i].quantity * Value(costs[i])
  <2> SUFFICES ASSUME NEW i \in DOMAIN cart
               PROVE  /\ costs[i] \in Amounts(code) /\ LineValues[i] \in Nat
                      /\ LineValues[i] = cart[i].quantity * Value(costs[i])
    OBVIOUS
  <2>1. costs[i] \in Amounts(code) /\ cart[i].quantity \in Nat /\ Value(costs[i]) \in Nat
    BY <1>1, LineFacts DEF NotNegative
  <2>2. LineValues[i] = cart[i].quantity * Value(costs[i])
    BY DEF LineValues
  <2> QED BY <2>1, <2>2
<1>4. SumFunctionOnSet(LineValues, DOMAIN cart) \in Nat
  <2>1. IsFiniteSet(DOMAIN cart)
    BY <1>1, CartLines
  <2> QED BY <1>3, <2>1, SumType
<1>5. Value(total) = SumFunctionOnSet(LineValues, DOMAIN cart) + Value(shipping)
  <2>1. /\ Value(total) = Value(shipping) + SumFunctionOnSet(LineValues, 1 .. line - 1)
        /\ line = Len(cart) + 1
    BY DEF OrderInv, Added
  <2>2. 1 .. line - 1 = DOMAIN cart
    <3>1. Len(cart) \in Nat /\ DOMAIN cart = 1 .. Len(cart)
      BY <1>1, CartLines
    <3>2. line - 1 = Len(cart)
      BY <2>1, <3>1
    <3> QED BY <3>1, <3>2
  <2> QED BY <1>2, <1>4, <2>1, <2>2
<1>6. Value(PageTotal(code, LinesAt(costs), shipping))
        = SumFunctionOnSet(LineValues, DOMAIN cart) + Value(shipping)
  BY <1>1, <1>2, <1>3, CartTotal
<1> QED BY <1>1, <1>2, <1>4, <1>5, <1>6

LEMMA PageAgrees == OrderInv => OrderPageAgrees
BY Charged DEF OrderPageAgrees

LEMMA ShownCharged == OrderInv => ChargedAsShown
<1> DEFINE prices == [i \in DOMAIN cart |-> AsRead(shown.prices[i])]
           page == Value(PageTotal(code, LinesAt(prices), shown.shipping))
<1> SUFFICES ASSUME OrderInv, pc = "charge"
             PROVE  Near(page, Value(total), IF code = "USD" THEN ItemCount ELSE 0)
  BY DEF ChargedAsShown
<1>1. CartSound /\ Converted /\ Len(costs) = Len(cart) /\ IsFiniteSet(DOMAIN cart)
  BY CartLines, Charged DEF OrderInv
<1>2. CASE code # "USD"
  <2>1. \A i \in DOMAIN cart : prices[i] = costs[i]
    <3> SUFFICES ASSUME NEW i \in DOMAIN cart PROVE prices[i] = costs[i]
      OBVIOUS
    <3>1. prices[i] = Convert(Price[cart[i].product], code)
      BY <1>2, Charged DEF ShownPrice, AsRead
    <3> QED BY <1>1, <3>1, LineFacts
  <2>2. LinesAt(prices) = LinesAt(costs)
    BY <2>1 DEF LinesAt
  <2>3. page = Value(total)
    BY <2>2, Charged
  <2>4. Value(total) \in Nat
    BY DEF OrderInv, Added, NotNegative
  <2> HIDE DEF page
  <2>5. Near(page, Value(total), 0)
    BY <2>3, <2>4 DEF Near
  <2> QED BY <1>2, <2>5 DEF page
<1>3. CASE code = "USD"
  <2> DEFINE h == [i \in DOMAIN cart |-> cart[i].quantity * Value(prices[i])]
             w == [i \in DOMAIN cart |->
                     cart[i].quantity * (Value(prices[i]) - Value(costs[i]))]
             q == [i \in DOMAIN cart |-> cart[i].quantity]
  <2>1. ASSUME NEW i \in DOMAIN cart
        PROVE  /\ prices[i] \in Amounts("USD")
               /\ LineValues[i] \in Nat /\ w[i] \in Nat /\ q[i] \in Nat /\ w[i] =< q[i]
               /\ h[i] = 1 * LineValues[i] + w[i]
    <3>1. PICK p : p = Price[cart[i].product]
      OBVIOUS
    <3>2. /\ p \in Amounts("USD") /\ costs[i] = Convert(p, "USD")
          /\ prices[i] \in Amounts("USD") /\ Value(prices[i]) = Double(p)
      <4>1. p \in Amounts("USD") /\ prices[i] = AsRead(p) /\ costs[i] = Convert(p, "USD")
        BY <1>1, <1>3, <3>1, CartLines, LineFacts, Charged DEF ShownPrice
      <4>2. AsRead(p) = [p EXCEPT !.nanos = Fraction[p.nanos]] /\ Fraction[p.nanos] \in 0 .. NanosMod - 1
        BY <1>3, <4>1, FractionType DEF AsRead, Amounts
      <4>3. AsRead(p) \in Amounts("USD") /\ AsRead(p).units = p.units /\ AsRead(p).nanos = Fraction[p.nanos]
        BY <4>1, <4>2 DEF Amounts
      <4> QED BY <4>1, <4>3 DEF Value, Double
    <3>3. PICK a, b, k : a = Double(p) /\ b = Value(costs[i]) /\ k = cart[i].quantity
      OBVIOUS
    <3>4. a \in Nat /\ b \in Nat /\ k \in Nat
      BY <1>1, <3>2, <3>3, DoubleType, LineFacts DEF NotNegative
    <3>5. \E lost \in {0, 1} : b = a - lost
      <4>1. Double(p) = a
        BY <3>3
      <4>2. PICK d : d = Rate["USD"]
        OBVIOUS
      <4>3. d \in Nat /\ d > 0 /\ RateOf("USD") = d
        BY <4>2, PricingAssumption DEF RateOf
      <4>4. (a * d) \div d = a
        <5>1. PICK x : x = a * d
          OBVIOUS
        <5>2. x \in Nat
          BY <3>4, <4>3, <5>1
        <5>3. PICK y, z : y = x \div d /\ z = x % d
          OBVIOUS
        <5>4. y \in Nat /\ z \in 0 .. d - 1 /\ x = d * y + z
          BY <4>3, <5>2, <5>3, Division
        <5>5. ASSUME a >= y + 1 PROVE FALSE
          <6>1. d * (y + 1) =< d * a /\ d * (y + 1) = d * y + d * 1 /\ d * a = a * d
            BY <3>4, <4>3, <5>4, <5>5, Times
          <6>2. d * y \in Int /\ d * a \in Int
            BY <3>4, <4>3, <5>4, Times
          <6> QED BY <4>3, <5>1, <5>4, <6>1, <6>2
        <5>6. ASSUME a =< y - 1 PROVE FALSE
          <6>1. d * (a + 1) =< d * y /\ d * (a + 1) = d * a + d * 1 /\ d * a = a * d
            BY <3>4, <4>3, <5>4, <5>6, Times
          <6>2. d * y \in Int /\ d * a \in Int
            BY <3>4, <4>3, <5>4, Times
          <6> QED BY <4>3, <5>1, <5>4, <6>1, <6>2
        <5>7. a = y
          BY <3>4, <5>4, <5>5, <5>6
        <5> QED BY <5>1, <5>3, <5>7
      <4>5. \E lost \in {0, 1} :
              Value(Convert(p, "USD")) = (Double(p) * RateOf("USD")) \div Rate["USD"] - lost
        BY <3>2, ConvertDollars
      <4>6. PICK lost \in {0, 1} : Value(Convert(p, "USD")) = (a * d) \div d - lost
        BY <4>1, <4>2, <4>3, <4>5
      <4>7. b = a - lost
        BY <3>2, <3>3, <4>4, <4>6
      <4> QED BY <4>7
    <3>6. /\ LineValues[i] = k * b /\ h[i] = k * a /\ w[i] = k * (a - b) /\ q[i] = k
      BY <3>2, <3>3 DEF LineValues
    <3>7. a - b \in Nat /\ a - b =< 1 /\ a = b + (a - b)
      BY <3>4, <3>5
    <3>8. PICK e : e = a - b
      OBVIOUS
    <3>9. k * b \in Nat /\ k * e \in Nat /\ k * e =< k * 1 /\ k * (b + e) = k * b + k * e
      BY <3>4, <3>7, <3>8, Times
    <3> QED BY <3>2, <3>4, <3>6, <3>7, <3>8, <3>9
  <2>2. page = SumFunctionOnSet(h, DOMAIN cart) + Value(shipping)
    <3>1. /\ shown.shipping = shipping /\ shipping \in Amounts(code)
      BY Charged
    <3>2. \A i \in DOMAIN cart : \E c : prices[i] \in Amounts(c)
      BY <2>1
    <3>3. \A i \in DOMAIN cart : h[i] = cart[i].quantity * Value(prices[i])
      OBVIOUS
    <3> HIDE DEF h, prices
    <3> QED BY <1>1, <3>1, <3>2, <3>3, CartTotal
  <2>3. ItemCount = SumFunctionOnSet(q, DOMAIN cart)
    BY DEF ItemCount, SumFunction
  <2> HIDE DEF h, w, q, prices
  <2>4. SumFunctionOnSet(h, DOMAIN cart)
          = 1 * SumFunctionOnSet(LineValues, DOMAIN cart) + SumFunctionOnSet(w, DOMAIN cart)
    <3>1. \A i \in DOMAIN cart : LineValues[i] \in Int /\ w[i] \in Int /\ h[i] = 1 * LineValues[i] + w[i]
      BY <2>1
    <3>2. \A c \in Int : (\A i \in DOMAIN cart : h[i] = c * LineValues[i] + w[i]) =>
            SumFunctionOnSet(h, DOMAIN cart)
              = c * SumFunctionOnSet(LineValues, DOMAIN cart) + SumFunctionOnSet(w, DOMAIN cart)
      BY <1>1, <3>1, SumAdds
    <3> QED BY <3>1, <3>2
  <2>5. SumFunctionOnSet(w, DOMAIN cart) \in Nat
    BY <1>1, <2>1, SumType
  <2>6. SumFunctionOnSet(w, DOMAIN cart) =< ItemCount
    BY <1>1, <2>1, <2>3, SumMonotone
  <2>7. /\ Value(total) = SumFunctionOnSet(LineValues, DOMAIN cart) + Value(shipping)
        /\ SumFunctionOnSet(LineValues, DOMAIN cart) \in Nat /\ Value(shipping) \in Nat
    BY Charged
  <2>8. page = Value(total) + SumFunctionOnSet(w, DOMAIN cart) /\ Value(total) \in Nat
    BY <2>2, <2>4, <2>5, <2>7
  <2>9. ItemCount \in Nat
    BY <1>1, ItemsCounted
  <2> HIDE DEF page
  <2>10. page - Value(total) =< ItemCount /\ Value(total) - page =< ItemCount
    BY <2>5, <2>6, <2>8, <2>9
  <2> QED BY <1>3, <2>10 DEF Near, page
<1> QED BY <1>2, <1>3

-----------------------------------------------------------------------------
\* Theorems about an order.

\* For any catalogue, rates and cart: PlaceOrder's sums never end the process,
\* as long as every item of the order costs half a unit of its currency.
THEOREM MustNeverPanics == Spec => []NeverPanics
BY Ordered, NoPanic, PTL

\* No nano is lost or counted twice, over carries, turns of MultiplySlow and lines.
THEOREM AddsExactly == Spec => []TotalIsExact
BY Ordered, ExactTotal, PTL

\* The browser's addition of the order's items gives the amount charged.
THEOREM OrderPageShowsCharge == Spec => []OrderPageAgrees
BY Ordered, PageAgrees, PTL

\* The charge is what the cart page showed; in dollars, what it showed read without
\* the zeros in front of the nanos, but for a nano an item.
THEOREM CartPageShowsCharge == Spec => []ChargedAsShown
BY Ordered, ShownCharged, PTL

-----------------------------------------------------------------------------
\* The page of a product.

\* The questions and the product they are about.
AssistantType ==
  /\ product \in Catalog
  /\ asked \in Seq(Catalog)
  /\ flight \subseteq 1..Len(asked)
  /\ tracked \in 0..Len(asked)
  /\ answer \in {"none", "pending", "success", "error"}
  /\ tracked = 0 <=> answer = "none"

AInv == AssistantType /\ AnswersThePage

LEMMA InitAnswers == PageInit => AInv
  BY DEF PageInit, AInv, AssistantType, AnswersThePage

LEMMA PutAnswers == AInv /\ Put => AInv'
  <1> SUFFICES ASSUME AInv, Put PROVE AInv'
    OBVIOUS
  <1> USE DEF AInv, AssistantType
  <1>1. /\ asked' \in Seq(Catalog)
        /\ Len(asked') = Len(asked) + 1
        /\ asked'[Len(asked')] = product
    BY DEF Put
  <1>2. /\ tracked' = Len(asked') /\ answer' = "pending"
        /\ flight' = flight \cup {Len(asked')}
        /\ product' = product
    BY DEF Put
  <1>3. Len(asked) \in Nat
    OBVIOUS
  <1>4. AssistantType'
    <2>1. flight' \subseteq 1..Len(asked') /\ tracked' \in 0..Len(asked')
      <3>1. \A k \in Nat : 1..k \subseteq 1..(k + 1) /\ k + 1 \in 1..(k + 1) /\ k + 1 \in 0..(k + 1)
        OBVIOUS
      <3>2. flight \subseteq 1..Len(asked)
        OBVIOUS
      <3> QED BY ONLY <1>1, <1>2, <1>3, <3>1, <3>2
    <2>2. tracked' # 0 /\ answer' # "none"
      BY <1>1, <1>2, <1>3
    <2> QED BY <1>1, <1>2, <2>1, <2>2
  <1>5. AnswersThePage'
    <2>1. tracked' = Len(asked') /\ asked'[tracked'] = product'
      BY <1>1, <1>2
    <2>2. tracked' \in flight'
      BY <1>2
    <2> QED BY <2>1, <2>2 DEF AnswersThePage
  <1> QED BY <1>4, <1>5

LEMMA NextAnswers == AInv /\ [PageNext]_pageVars => AInv'
  <1> SUFFICES ASSUME AInv, [PageNext]_pageVars PROVE AInv'
    OBVIOUS
  <1> USE DEF AInv, AssistantType
  <1>1. CASE Navigate
    BY <1>1 DEF Navigate, Reset, AnswersThePage
  <1>2. CASE Ask \/ QuickPrompt
    BY <1>2, PutAnswers DEF Ask, QuickPrompt
  <1>3. ASSUME NEW q \in flight, Settled(q) PROVE AInv'
    <2>1. CASE q = tracked
      BY <1>3, <2>1 DEF Settled, AnswersThePage
    <2>2. CASE q # tracked
      BY <1>3, <2>2 DEF Settled, AnswersThePage
    <2> QED BY <2>1, <2>2
  <1>4. CASE UNCHANGED <<product, assistant>>
    BY <1>4 DEF assistant, AnswersThePage
  <1>5. CASE \/ CartLoaded \/ Suggested \/ SuggestFails
             \/ ReviewsLoaded \/ ReviewsFail \/ Reconnect
    BY <1>4, <1>5 DEF CartLoaded, Suggested, SuggestFails, ReviewsLoaded,
                      ReviewsFail, Reconnect
  <1>6. CASE UNCHANGED pageVars
    BY <1>4, <1>6 DEF pageVars, assistant, AnswersThePage
  <1>7. PageNext \/ UNCHANGED pageVars
    OBVIOUS
  <1>8. CASE PageNext
    BY <1>8, <1>1, <1>2, <1>3, <1>5 DEF PageNext
  <1> QED BY <1>6, <1>7, <1>8

\* For any catalog, any number of questions and any order of their answers: what
\* the assistant shows is for the last question and for the page's product.
THEOREM AnswersTheQuestion == PageSpec => []AnswersThePage
  <1>1. AInv => AnswersThePage
    BY DEF AInv
  <1>2. PageSpec => PageInit /\ [][PageNext]_pageVars
    BY DEF PageSpec
  <1> QED BY <1>1, <1>2, InitAnswers, NextAnswers, PTL

-----------------------------------------------------------------------------
\* The bars of the ratings.

LEMMA SumsOfReviews ==
  ASSUME NEW list
  PROVE  /\ Size(list) = SumFunctionOnSet(list, DOMAIN list)
         /\ Distribution(list)
              = [r \in Ratings |->
                   SumFunctionOnSet(list, {s \in DOMAIN list : Rating(s) = r})]
<1>1. Size(list) = SumFunctionOnSet(list, DOMAIN list)
  BY DEF Size, SumFunction
<1>2. Distribution(list)
        = [r \in Ratings |-> SumFunctionOnSet(list, {s \in DOMAIN list : Rating(s) = r})]
  BY DEF Distribution
<1> QED BY <1>1, <1>2

\* What is 0 but at one place has its value there for its sum.
LEMMA SumOfOne ==
  ASSUME NEW S, IsFiniteSet(S), NEW x \in S, NEW v \in Nat, NEW f,
         \A y \in S : f[y] = IF y = x THEN v ELSE 0
  PROVE  SumFunctionOnSet(f, S) = v
<1>1. \A y \in S : f[y] \in Int
  OBVIOUS
<1>2. SumFunctionOnSet(f, S) = f[x] + SumFunctionOnSet(f, S \ {x})
  BY <1>1, SumRemove
<1>3. SumFunctionOnSet(f, S \ {x}) = 0
  <2> DEFINE F == {T \in SUBSET (S \ {x}) : SumFunctionOnSet(f, T) = 0}
  <2>1. {} \in F
    BY SumEmpty
  <2>2. ASSUME NEW T \in SUBSET (S \ {x}), NEW y \in (S \ {x}) \ T, T \in F PROVE T \cup {y} \in F
    <3>1. IsFiniteSet(T)
      BY FS_Subset
    <3>2. SumFunctionOnSet(f, T \cup {y}) = f[y] + SumFunctionOnSet(f, T)
      <4>1. y \notin T /\ \A z \in T \cup {y} : f[z] \in Int
        OBVIOUS
      <4> QED BY ONLY <3>1, <4>1, SumAddElement
    <3>3. f[y] = 0 /\ SumFunctionOnSet(f, T) = 0
      BY <2>2
    <3>4. SumFunctionOnSet(f, T \cup {y}) = 0
      BY <3>2, <3>3
    <3> QED BY <3>4
  <2> HIDE DEF F
  <2>3. IsFiniteSet(S \ {x})
    BY FS_Subset
  <2>4. S \ {x} \in F
    BY <2>1, <2>2, <2>3, SubsetInduction
  <2> QED BY <2>4 DEF F
<1> QED BY <1>2, <1>3

\* How many of a set's elements are in T.
Among(S, T) == [x \in S |-> IF x \in T THEN 1 ELSE 0]

LEMMA CardinalityIsSum ==
  ASSUME NEW S, IsFiniteSet(S), NEW T \in SUBSET S
  PROVE  Cardinality(T) = SumFunctionOnSet(Among(S, T), S)
<1> DEFINE F == {U \in SUBSET S : Cardinality(T \cap U) = SumFunctionOnSet(Among(S, T), U)}
<1>1. {} \in F
  BY SumEmpty, FS_EmptySet
<1>2. ASSUME NEW U \in SUBSET S, NEW x \in S \ U, U \in F PROVE U \cup {x} \in F
  <2>1. IsFiniteSet(U) /\ IsFiniteSet(T \cap U)
    BY FS_Subset
  <2>2. SumFunctionOnSet(Among(S, T), U \cup {x}) = Among(S, T)[x] + SumFunctionOnSet(Among(S, T), U)
    <3>1. x \notin U /\ \A z \in U \cup {x} : Among(S, T)[z] \in Int
      BY DEF Among
    <3> QED BY ONLY <2>1, <3>1, SumAddElement
  <2>3. Cardinality(T \cap U) = SumFunctionOnSet(Among(S, T), U) /\ Cardinality(T \cap U) \in Nat
    BY <1>2, <2>1, FS_CardinalityType
  <2>4. CASE x \in T
    <3>1. T \cap (U \cup {x}) = (T \cap U) \cup {x} /\ x \notin T \cap U
      BY <2>4
    <3>2. Cardinality(T \cap (U \cup {x})) = Cardinality(T \cap U) + 1
      BY <2>1, <3>1, FS_AddElement
    <3>3. Among(S, T)[x] = 1
      BY <2>4 DEF Among
    <3> QED BY <2>2, <2>3, <3>2, <3>3
  <2>5. CASE x \notin T
    <3>1. T \cap (U \cup {x}) = T \cap U
      BY <2>5
    <3>2. Among(S, T)[x] = 0
      BY <2>5 DEF Among
    <3>3. SumFunctionOnSet(Among(S, T), U \cup {x}) = SumFunctionOnSet(Among(S, T), U)
      BY <2>2, <2>3, <3>2
    <3>4. Cardinality(T \cap (U \cup {x})) = SumFunctionOnSet(Among(S, T), U \cup {x})
      BY <2>3, <3>1, <3>3
    <3> QED BY <3>4
  <2> QED BY <2>4, <2>5
<1> HIDE DEF F
<1>3. S \in F
  BY <1>1, <1>2, SubsetInduction
<1>4. T \cap S = T
  OBVIOUS
<1> QED BY <1>3, <1>4 DEF F

LEMMA RatingsFinite ==
  /\ Ratings = 1 .. 5 /\ IsFiniteSet(Ratings)
  /\ \A s \in Int : Rating(s) \in Ratings
<1>1. Ratings = 1 .. 5
  BY DEF Ratings
<1>2. IsFiniteSet(1 .. 5)
  <2>1. PICK k \in Int : k = 5
    OBVIOUS
  <2>2. IsFiniteSet(1 .. k)
    BY FS_Interval
  <2> QED BY <2>1, <2>2
<1>3. ASSUME NEW s \in Int PROVE Rating(s) \in Ratings
  BY <1>1 DEF Rating
<1> QED BY <1>1, <1>2, <1>3

\* The lists of reviews: how many there are of each score.
IsList(list) ==
  IsFiniteSet(DOMAIN list) /\ DOMAIN list \subseteq Int /\ \A s \in DOMAIN list : list[s] \in Nat

\* Every review is in one rating's count.
LEMMA DistributionAddsUp ==
  ASSUME NEW list, IsList(list)
  PROVE  /\ Size(list) \in Nat
         /\ \A r \in Ratings : Distribution(list)[r] \in Nat
         /\ SumFunctionOnSet(Distribution(list), Ratings) = Size(list)
<1> DEFINE Rated(T, r) == {s \in T : Rating(s) = r}
           Counts(T) == [r \in Ratings |-> SumFunctionOnSet(list, Rated(T, r))]
           F == {T \in SUBSET DOMAIN list :
                   SumFunctionOnSet(Counts(T), Ratings) = SumFunctionOnSet(list, T)}
<1>1. \A T \in SUBSET DOMAIN list : IsFiniteSet(T) /\ SumFunctionOnSet(list, T) \in Nat
  <2> SUFFICES ASSUME NEW T \in SUBSET DOMAIN list
               PROVE  IsFiniteSet(T) /\ SumFunctionOnSet(list, T) \in Nat
    OBVIOUS
  <2>1. IsFiniteSet(T) /\ \A s \in T : list[s] \in Nat
    BY FS_Subset DEF IsList
  <2> QED BY <2>1, SumType
<1>2. \A T \in SUBSET DOMAIN list : \A r \in Ratings :
        Rated(T, r) \in SUBSET DOMAIN list /\ Counts(T)[r] \in Nat
  BY <1>1
<1>3. {} \in F
  <2>1. \A r \in Ratings : Counts({})[r] = 0
    <3>1. \A r \in Ratings : Rated({}, r) = {}
      OBVIOUS
    <3> QED BY <3>1, SumEmpty
  <2>2. 1 \in Ratings /\ \A y \in Ratings : Counts({})[y] = IF y = 1 THEN 0 ELSE 0
    BY <2>1, RatingsFinite
  <2>3. SumFunctionOnSet(Counts({}), Ratings) = 0
    BY <2>2, RatingsFinite, SumOfOne
  <2> QED BY <2>3, SumEmpty
<1>4. ASSUME NEW T \in SUBSET DOMAIN list, NEW x \in DOMAIN list \ T, T \in F PROVE T \cup {x} \in F
  <2> DEFINE rho == Rating(x)
             new == [r \in Ratings |-> IF r = rho THEN list[x] ELSE 0]
  <2>1. rho \in Ratings /\ list[x] \in Nat
    BY RatingsFinite DEF IsList
  <2>2. ASSUME NEW r \in Ratings PROVE Counts(T \cup {x})[r] = 1 * Counts(T)[r] + new[r]
    <3>1. CASE r = rho
      <4>1. Rated(T \cup {x}, r) = Rated(T, r) \cup {x} /\ x \notin Rated(T, r)
        BY <3>1
      <4>2. IsFiniteSet(Rated(T, r)) /\ \A z \in Rated(T, r) \cup {x} : list[z] \in Int
        BY <1>1, <1>2 DEF IsList
      <4>3. SumFunctionOnSet(list, Rated(T, r) \cup {x}) = list[x] + SumFunctionOnSet(list, Rated(T, r))
        BY ONLY <4>1, <4>2, SumAddElement
      <4>4. Counts(T)[r] \in Nat
        BY <1>2
      <4>5. Counts(T \cup {x})[r] = list[x] + Counts(T)[r]
        BY <4>1, <4>3
      <4>6. new[r] = list[x]
        BY <3>1
      <4> HIDE DEF Counts, new
      <4> QED BY <2>1, <4>4, <4>5, <4>6
    <3>2. CASE r # rho
      <4>1. Rated(T \cup {x}, r) = Rated(T, r)
        BY <3>2
      <4>2. Counts(T \cup {x})[r] = Counts(T)[r]
        BY <4>1
      <4>3. Counts(T)[r] \in Nat /\ new[r] = 0
        BY <1>2, <3>2
      <4> HIDE DEF Counts, new
      <4> QED BY <4>2, <4>3
    <3> QED BY <3>1, <3>2
  <2>3. SumFunctionOnSet(Counts(T \cup {x}), Ratings)
          = 1 * SumFunctionOnSet(Counts(T), Ratings) + SumFunctionOnSet(new, Ratings)
    <3>1. \A r \in Ratings : /\ Counts(T)[r] \in Int /\ new[r] \in Int
                             /\ Counts(T \cup {x})[r] = 1 * Counts(T)[r] + new[r]
      BY <1>2, <2>1, <2>2
    <3> HIDE DEF Counts, new
    <3> QED BY <3>1, RatingsFinite, SumAdds
  <2>4. SumFunctionOnSet(new, Ratings) = list[x]
    <3>1. \A r \in Ratings : new[r] = IF r = rho THEN list[x] ELSE 0
      OBVIOUS
    <3> HIDE DEF new, rho
    <3> QED BY <2>1, <3>1, RatingsFinite, SumOfOne
  <2>5. SumFunctionOnSet(list, T \cup {x}) = list[x] + SumFunctionOnSet(list, T)
    <3>1. IsFiniteSet(T) /\ x \notin T /\ \A z \in T \cup {x} : list[z] \in Int
      BY <1>1 DEF IsList
    <3> QED BY ONLY <3>1, SumAddElement
  <2>6. SumFunctionOnSet(Counts(T), Ratings) = SumFunctionOnSet(list, T) /\ SumFunctionOnSet(list, T) \in Nat
    BY <1>1, <1>4
  <2>7. SumFunctionOnSet(Counts(T \cup {x}), Ratings) = SumFunctionOnSet(list, T \cup {x})
    BY <2>1, <2>3, <2>4, <2>5, <2>6
  <2> QED BY <2>7
<1>5. DOMAIN list \in F
  <2>1. IsFiniteSet(DOMAIN list)
    BY DEF IsList
  <2> HIDE DEF F
  <2> QED BY <1>3, <1>4, <2>1, SubsetInduction
<1>6. Distribution(list) = Counts(DOMAIN list)
  BY SumsOfReviews
<1>7. Size(list) = SumFunctionOnSet(list, DOMAIN list)
  BY SumsOfReviews
<1> QED BY <1>1, <1>2, <1>5, <1>6, <1>7

\* A share of n reviews, in n-ths of a percent: its floor and what is cut off.
LEMMA FloorAndCut ==
  ASSUME NEW c \in Nat, NEW k \in Nat, k > 0
  PROVE  /\ Floor(c, k) \in Int /\ Cut(c, k) \in 0 .. k
         /\ k * Floor(c, k) + Cut(c, k) = 100 * c
<1>1. CASE <<c, k>> \in Short
  <2>1. \/ c = 29 /\ k = 50
        \/ c = 29 /\ k = 100
        \/ c = 57 /\ k = 100
        \/ c = 58 /\ k = 100
    BY <1>1 DEF Short
  <2>2. PICK a : a = (100 * c) \div k
    OBVIOUS
  <2>3. a \in Int /\ k * a = 100 * c
    BY <2>1, <2>2
  <2>4. Floor(c, k) = a - 1 /\ Cut(c, k) = k
    BY <1>1, <2>2 DEF Floor, Cut
  <2>5. k * (a - 1) = k * a - k
    BY <2>3, SMTT(30)
  <2> QED BY <2>3, <2>4, <2>5
<1>2. CASE <<c, k>> \notin Short
  <2>1. PICK x, a, b : x = 100 * c /\ a = x \div k /\ b = x % k
    OBVIOUS
  <2>2. x \in Nat /\ a \in Int /\ b \in 0 .. k - 1 /\ x = k * a + b
    BY <2>1, Division
  <2>3. Floor(c, k) = a - 0 /\ Cut(c, k) = b
    BY <1>2, <2>1 DEF Floor, Cut
  <2> QED BY <2>1, <2>2, <2>3
<1> QED BY <1>1, <1>2

\* The ratings raised are those cut most, and as many as the percents missing: who
\* was cut by a whole percent is raised, and nobody who was not cut at all.
LEMMA RaisedByCut ==
  ASSUME NEW k \in Nat, k > 0, NEW cut, NEW raised \in SUBSET Ratings,
         \A r \in Ratings : cut[r] \in 0 .. k,
         SumFunctionOnSet(cut, Ratings) = k * Cardinality(raised),
         \A r \in raised, s \in Ratings \ raised : cut[r] >= cut[s]
  PROVE  /\ \A r \in Ratings \ raised : cut[r] < k
         /\ \A r \in raised : cut[r] > 0
<1> DEFINE Bound(T) == [r \in Ratings |-> k * Among(Ratings, T)[r] + 0]
<1>1. \A T \in SUBSET Ratings :
        /\ Cardinality(T) \in Nat /\ \A r \in Ratings : Bound(T)[r] \in Int
        /\ SumFunctionOnSet(Bound(T), Ratings) = k * Cardinality(T)
  <2> SUFFICES ASSUME NEW T \in SUBSET Ratings
               PROVE  /\ Cardinality(T) \in Nat /\ \A r \in Ratings : Bound(T)[r] \in Int
                      /\ SumFunctionOnSet(Bound(T), Ratings) = k * Cardinality(T)
    OBVIOUS
  <2> DEFINE a == Among(Ratings, T)
             z == [r \in Ratings |-> 0]
  <2>1. \A r \in Ratings : a[r] \in {0, 1} /\ z[r] = 0 /\ Bound(T)[r] = k * a[r] + z[r]
    BY DEF Among
  <2>2. \A r \in Ratings : a[r] \in Int /\ z[r] \in Int /\ Bound(T)[r] \in Int
    BY <2>1
  <2>3. IsFiniteSet(T) /\ Cardinality(T) \in Nat
    BY RatingsFinite, FS_Subset, FS_CardinalityType
  <2>4. Cardinality(T) = SumFunctionOnSet(a, Ratings)
    BY RatingsFinite, CardinalityIsSum
  <2>5. SumFunctionOnSet(z, Ratings) = 0
    <3>1. 1 \in Ratings /\ \A y \in Ratings : z[y] = IF y = 1 THEN 0 ELSE 0
      BY RatingsFinite
    <3> HIDE DEF z
    <3> QED BY <3>1, RatingsFinite, SumOfOne
  <2> HIDE DEF Bound, a, z
  <2>6. SumFunctionOnSet(Bound(T), Ratings)
          = k * SumFunctionOnSet(a, Ratings) + SumFunctionOnSet(z, Ratings)
    <3>1. /\ IsFiniteSet(Ratings) /\ k \in Int
          /\ \A r \in Ratings : a[r] \in Int /\ z[r] \in Int /\ Bound(T)[r] = k * a[r] + z[r]
      BY <2>1, <2>2, RatingsFinite
    <3> QED BY ONLY <3>1, SumAdds
  <2>7. k * Cardinality(T) \in Int
    BY <2>3
  <2> QED BY <2>2, <2>3, <2>4, <2>5, <2>6, <2>7
<1>2. ASSUME NEW r \in Ratings \ raised, cut[r] >= k PROVE FALSE
  <2> DEFINE T == raised \cup {r}
  <2>1. \A s \in Ratings : Bound(T)[s] \in Int /\ cut[s] \in Int /\ Bound(T)[s] =< cut[s]
    <3> SUFFICES ASSUME NEW s \in Ratings
                 PROVE  Bound(T)[s] \in Int /\ cut[s] \in Int /\ Bound(T)[s] =< cut[s]
      OBVIOUS
    <3>1. CASE s \in T
      <4>1. Bound(T)[s] = k
        BY <3>1 DEF Among
      <4>2. cut[s] = k
        BY <1>2, <3>1
      <4> QED BY <4>1, <4>2
    <3>2. CASE s \notin T
      <4>1. Bound(T)[s] = 0
        BY <3>2 DEF Among
      <4> QED BY <4>1
    <3> QED BY <3>1, <3>2
  <2>2. SumFunctionOnSet(Bound(T), Ratings) =< SumFunctionOnSet(cut, Ratings)
    <3> HIDE DEF Bound, T
    <3> QED BY <2>1, RatingsFinite, SumMonotone
  <2>3. Cardinality(T) = Cardinality(raised) + 1 /\ Cardinality(raised) \in Nat
    <3>1. IsFiniteSet(raised)
      BY RatingsFinite, FS_Subset
    <3> QED BY <3>1, FS_AddElement, FS_CardinalityType
  <2>4. SumFunctionOnSet(Bound(T), Ratings) = k * (Cardinality(raised) + 1)
    BY <1>1, <2>3
  <2>5. k * (Cardinality(raised) + 1) = k * Cardinality(raised) + k * 1 /\ k * Cardinality(raised) \in Int
    BY <2>3, Times
  <2> QED BY <2>2, <2>4, <2>5
<1>3. ASSUME NEW r \in raised, cut[r] =< 0 PROVE FALSE
  <2> DEFINE T == raised \ {r}
  <2>1. \A s \in Ratings : Bound(T)[s] \in Int /\ cut[s] \in Int /\ cut[s] =< Bound(T)[s]
    <3> SUFFICES ASSUME NEW s \in Ratings
                 PROVE  Bound(T)[s] \in Int /\ cut[s] \in Int /\ cut[s] =< Bound(T)[s]
      OBVIOUS
    <3>1. CASE s \in T
      <4>1. Bound(T)[s] = k
        BY <3>1 DEF Among
      <4> QED BY <4>1
    <3>2. CASE s \notin T
      <4>1. Bound(T)[s] = 0
        BY <3>2 DEF Among
      <4>2. cut[s] = 0
        BY <1>3, <3>2
      <4> QED BY <4>1, <4>2
    <3> QED BY <3>1, <3>2
  <2>2. SumFunctionOnSet(cut, Ratings) =< SumFunctionOnSet(Bound(T), Ratings)
    <3> HIDE DEF Bound, T
    <3> QED BY <2>1, RatingsFinite, SumMonotone
  <2>3. IsFiniteSet(raised) /\ Cardinality(T) = Cardinality(raised) - 1 /\ Cardinality(raised) \in Nat
    BY <1>3, RatingsFinite, FS_Subset, FS_RemoveElement, FS_CardinalityType
  <2>4. SumFunctionOnSet(Bound(T), Ratings) = k * (Cardinality(raised) - 1)
    <3>1. T \in SUBSET Ratings
      OBVIOUS
    <3> HIDE DEF Bound, T
    <3> QED BY <1>1, <2>3, <3>1
  <2>5. PICK m : m = Cardinality(raised) - 1
    OBVIOUS
  <2>6. m \in Int /\ Cardinality(raised) = m + 1
    BY <2>3, <2>5
  <2>7. k * (m + 1) = k * m + k * 1 /\ k * m \in Int
    BY <2>6, Times
  <2> QED BY <2>2, <2>4, <2>5, <2>6, <2>7
<1> QED BY <1>2, <1>3

\* The percents of a list with reviews are what PercentsAddUp says.
LEMMA PercentsOfList ==
  ASSUME NEW list, IsList(list), NEW k, k = Size(list), k > 0,
         NEW counts, counts = Distribution(list),
         NEW percents \in Percents(counts, k)
  PROVE  /\ SumFunctionOnSet(percents, Ratings) = 100
         /\ \A r \in Ratings : /\ 100 * counts[r] - k < k * percents[r]
                               /\ k * percents[r] < 100 * counts[r] + k
         /\ \A r, s \in Ratings : counts[r] > counts[s] => percents[r] >= percents[s]
<1> DEFINE floors == [r \in Ratings |-> Floor(counts[r], k)]
           cut == [r \in Ratings |-> Cut(counts[r], k)]
<1>1. /\ k \in Nat /\ IsFiniteSet(Ratings)
      /\ \A r \in Ratings : counts[r] \in Nat
      /\ SumFunctionOnSet(counts, Ratings) = k
  BY DistributionAddsUp, RatingsFinite
<1>2. PICK raised \in SUBSET Ratings :
        /\ Cardinality(raised) = 100 - SumFunctionOnSet(floors, Ratings)
        /\ \A r \in raised, s \in Ratings \ raised :
             IF counts[r] = counts[s] THEN r < s
             ELSE Cut(counts[r], k) >= Cut(counts[s], k)
        /\ percents = [r \in Ratings |-> floors[r] + (IF r \in raised THEN 1 ELSE 0)]
  <2>1. SumFunction(floors) = SumFunctionOnSet(floors, Ratings)
    BY DEF SumFunction
  <2> QED BY <2>1 DEF Percents
<1>3. \A r \in Ratings : /\ floors[r] \in Int /\ cut[r] \in 0 .. k
                         /\ 100 * counts[r] = k * floors[r] + cut[r]
  BY <1>1, FloorAndCut
<1>4. \A r \in raised, s \in Ratings \ raised : cut[r] >= cut[s]
  <2> SUFFICES ASSUME NEW r \in raised, NEW s \in Ratings \ raised PROVE cut[r] >= cut[s]
    OBVIOUS
  <2>1. CASE counts[r] = counts[s]
    <3>1. cut[r] = cut[s]
      BY <2>1
    <3> HIDE DEF cut
    <3> QED BY <1>3, <3>1
  <2>2. CASE counts[r] # counts[s]
    BY <1>2, <2>2
  <2> QED BY <2>1, <2>2
<1>5. percents = [r \in Ratings |-> 1 * floors[r] + Among(Ratings, raised)[r]]
  <2>1. \A r \in Ratings : floors[r] + (IF r \in raised THEN 1 ELSE 0)
                             = 1 * floors[r] + Among(Ratings, raised)[r]
    <3> SUFFICES ASSUME NEW r \in Ratings
                 PROVE  floors[r] + (IF r \in raised THEN 1 ELSE 0)
                          = 1 * floors[r] + Among(Ratings, raised)[r]
      OBVIOUS
    <3>1. Among(Ratings, raised)[r] = IF r \in raised THEN 1 ELSE 0
      BY DEF Among
    <3>2. floors[r] \in Int
      BY <1>3
    <3> HIDE DEF floors
    <3> QED BY <3>1, <3>2
  <2> HIDE DEF floors
  <2> QED BY <1>2, <2>1
<1>6. Cardinality(raised) \in Nat /\ SumFunctionOnSet(floors, Ratings) \in Int
  <2>1. Cardinality(raised) \in Nat
    BY <1>1, FS_Subset, FS_CardinalityType
  <2>2. SumFunctionOnSet(floors, Ratings) \in Int
    <3> HIDE DEF floors
    <3> QED BY <1>1, <1>3, SumType
  <2> QED BY <2>1, <2>2
<1> HIDE DEF floors, cut
<1>7. SumFunctionOnSet(percents, Ratings) = 100
  <2>1. \A r \in Ratings : Among(Ratings, raised)[r] \in Int
    BY DEF Among
  <2>2. \A r \in Ratings : percents[r] = 1 * floors[r] + Among(Ratings, raised)[r]
    BY <1>5
  <2>3. SumFunctionOnSet(percents, Ratings)
          = 1 * SumFunctionOnSet(floors, Ratings) + SumFunctionOnSet(Among(Ratings, raised), Ratings)
    BY <1>1, <1>3, <2>1, <2>2, SumAdds
  <2>4. Cardinality(raised) = SumFunctionOnSet(Among(Ratings, raised), Ratings)
    BY <1>1, CardinalityIsSum
  <2> QED BY <1>2, <1>6, <2>3, <2>4
<1>8. SumFunctionOnSet(cut, Ratings) = k * Cardinality(raised)
  <2> DEFINE h == [r \in Ratings |-> 100 * counts[r] + 0]
             z == [r \in Ratings |-> 0]
  <2>1. \A r \in Ratings : /\ counts[r] \in Int /\ floors[r] \in Int /\ cut[r] \in Int /\ z[r] \in Int
                           /\ h[r] = 100 * counts[r] + z[r] /\ h[r] = k * floors[r] + cut[r]
    BY <1>1, <1>3
  <2>2. SumFunctionOnSet(z, Ratings) = 0
    <3>1. 1 \in Ratings /\ \A y \in Ratings : z[y] = IF y = 1 THEN 0 ELSE 0
      BY RatingsFinite
    <3> HIDE DEF z
    <3> QED BY <1>1, <3>1, SumOfOne
  <2> HIDE DEF h, z
  <2>3. SumFunctionOnSet(h, Ratings) = 100 * SumFunctionOnSet(counts, Ratings) + SumFunctionOnSet(z, Ratings)
    <3>1. PICK w \in Int : w = 100
      OBVIOUS
    <3>2. \A r \in Ratings : counts[r] \in Int /\ z[r] \in Int /\ h[r] = w * counts[r] + z[r]
      BY <2>1, <3>1
    <3>3. SumFunctionOnSet(h, Ratings) = w * SumFunctionOnSet(counts, Ratings) + SumFunctionOnSet(z, Ratings)
      BY ONLY <1>1, <3>2, SumAdds
    <3> QED BY <3>1, <3>3
  <2>4. SumFunctionOnSet(h, Ratings) = k * SumFunctionOnSet(floors, Ratings) + SumFunctionOnSet(cut, Ratings)
    <3>1. k \in Int /\ \A r \in Ratings : floors[r] \in Int /\ cut[r] \in Int /\ h[r] = k * floors[r] + cut[r]
      BY <1>1, <2>1
    <3> QED BY ONLY <1>1, <3>1, SumAdds
  <2>5. PICK f, m : f = SumFunctionOnSet(floors, Ratings) /\ m = Cardinality(raised)
    OBVIOUS
  <2>6. SumFunctionOnSet(cut, Ratings) \in Int
    BY <1>1, <2>1, SumType
  <2>7. f \in Int /\ m \in Nat /\ f + m = 100 /\ k * f \in Int /\ k * m \in Int
    BY <1>1, <1>2, <1>6, <2>5
  <2>8. k * (f + m) = k * f + k * m
    BY <1>1, <2>7, Times
  <2>9. k * (f + m) = 100 * k
    BY <1>1, <2>7
  <2>10. 100 * k = k * f + SumFunctionOnSet(cut, Ratings)
    BY <1>1, <2>2, <2>3, <2>4, <2>5
  <2> QED BY <1>1, <2>5, <2>6, <2>7, <2>8, <2>9, <2>10
<1>9. /\ \A r \in Ratings \ raised : cut[r] < k
      /\ \A r \in raised : cut[r] > 0
  BY <1>1, <1>3, <1>4, <1>8, RaisedByCut
<1>10. ASSUME NEW r \in Ratings
       PROVE  100 * counts[r] - k < k * percents[r] /\ k * percents[r] < 100 * counts[r] + k
  <2>1. PICK f, x, y : f = floors[r] /\ x = cut[r] /\ y = counts[r]
    OBVIOUS
  <2>2. f \in Int /\ x \in 0 .. k /\ y \in Nat /\ 100 * y = k * f + x /\ k * f \in Int
    BY <1>1, <1>3, <2>1
  <2>3. CASE r \in raised
    <3>1. percents[r] = f + 1 /\ x > 0
      BY <1>2, <1>9, <2>1, <2>3
    <3>2. k * (f + 1) = k * f + k * 1
      BY <1>1, <2>2, Times
    <3> QED BY <1>1, <2>1, <2>2, <3>1, <3>2
  <2>4. CASE r \notin raised
    <3>1. percents[r] = f /\ x < k
      BY <1>2, <1>9, <2>1, <2>2, <2>4
    <3> QED BY <1>1, <2>1, <2>2, <3>1
  <2> QED BY <2>3, <2>4
<1>11. ASSUME NEW r \in Ratings, NEW s \in Ratings, counts[r] > counts[s], percents[r] < percents[s]
       PROVE  FALSE
  <2>1. PICK f, g, x, y : f = floors[r] /\ g = floors[s] /\ x = cut[r] /\ y = cut[s]
    OBVIOUS
  <2>2. /\ f \in Int /\ g \in Int /\ x \in 0 .. k /\ y \in 0 .. k
        /\ 100 * counts[r] = k * f + x /\ 100 * counts[s] = k * g + y
        /\ k * f \in Int /\ k * g \in Int
    BY <1>1, <1>3, <2>1
  <2>3. /\ percents[r] = f + (IF r \in raised THEN 1 ELSE 0)
        /\ percents[s] = g + (IF s \in raised THEN 1 ELSE 0)
    BY <1>2, <2>1
  <2>4. ASSUME f + 1 =< g PROVE FALSE
    <3>1. k * (f + 1) =< k * g /\ k * (f + 1) = k * f + k * 1
      BY <1>1, <2>2, <2>4, Times
    <3> QED BY <1>1, <1>11, <2>2, <3>1
  <2>5. f = g /\ s \in raised /\ r \notin raised
    BY <1>11, <2>2, <2>3, <2>4
  <2>6. y >= x
    BY <1>4, <2>1, <2>5
  <2> QED BY <1>1, <1>11, <2>2, <2>5, <2>6
<1>12. \A r \in Ratings : percents[r] \in Int
  BY <1>2, <1>3
<1> QED BY <1>7, <1>10, <1>11, <1>12

\* The bars are those of the reviews on the page.
BarsInv ==
  \/ reviews = Nobody
  \/ /\ reviews \in Lists
     /\ Size(reviews) # 0 => bars \in Percents(Distribution(reviews), Size(reviews))

LEMMA InitBars == PageInit => BarsInv
BY DEF PageInit, BarsInv

LEMMA NextBars == BarsInv /\ [PageNext]_pageVars => BarsInv'
<1> SUFFICES ASSUME BarsInv, [PageNext]_pageVars PROVE BarsInv'
  OBVIOUS
<1>1. CASE UNCHANGED <<reviews, bars>>
  BY <1>1 DEF BarsInv
<1>2. CASE ReviewsLoad
  BY <1>2 DEF ReviewsLoad, BarsInv
<1>3. CASE ReviewsLoaded
  BY <1>3 DEF ReviewsLoaded, BarsInv
<1>4. CASE CartLoaded \/ Suggested \/ SuggestFails \/ ReviewsFail
  BY <1>1, <1>4 DEF CartLoaded, Suggested, SuggestFails, ReviewsFail, ratings
<1>5. CASE Ask \/ QuickPrompt \/ \E q \in flight : Settled(q)
  BY <1>1, <1>5 DEF Ask, QuickPrompt, Put, Settled, ratings
<1>6. CASE Navigate \/ Reconnect
  BY <1>2, <1>6 DEF Navigate, Reconnect
<1>7. CASE UNCHANGED pageVars
  BY <1>1, <1>7 DEF pageVars, ratings
<1> QED BY <1>2, <1>3, <1>4, <1>5, <1>6, <1>7 DEF PageNext

LEMMA BarsAddUp == BarsInv => PercentsAddUp
<1> SUFFICES ASSUME BarsInv, Size(reviews) > 0
             PROVE  LET k == Size(reviews)
                        counts == Distribution(reviews)
                    IN  /\ SumFunction(bars) = 100
                        /\ \A r \in Ratings : /\ 100 * counts[r] - k < k * bars[r]
                                              /\ k * bars[r] < 100 * counts[r] + k
                        /\ \A r, s \in Ratings : counts[r] > counts[s] => bars[r] >= bars[s]
  BY DEF PercentsAddUp
<1>1. Size(Nobody) = 0
  <2>1. DOMAIN Nobody = {}
    BY DEF Nobody
  <2> QED BY <2>1, SumsOfReviews, SumEmpty
<1>2. reviews \in Lists /\ bars \in Percents(Distribution(reviews), Size(reviews))
  BY <1>1 DEF BarsInv
<1>3. IsList(reviews)
  BY <1>2, PageAssumption DEF IsList
<1>4. SumFunction(bars) = SumFunctionOnSet(bars, Ratings)
  <2>1. DOMAIN bars = Ratings
    BY <1>2 DEF Percents
  <2> QED BY <2>1 DEF SumFunction
<1> QED BY <1>2, <1>3, <1>4, PercentsOfList

\* For any lists of reviews: the percents shown add up
\* to 100, each is less than one from its share, and more reviews never get a
\* shorter bar.
THEOREM BarsShowReviews == PageSpec => []PercentsAddUp
BY InitBars, NextBars, BarsAddUp, PTL DEF PageSpec

-----------------------------------------------------------------------------
\* Recommendations: from the ids in the address to the ids of the request.

\* FlattenSeq puts the sequences together one by one.
LEMMA FlattenTurns ==
  ASSUME NEW seqs, NEW size \in Nat, size = Len(seqs), size # 0
  PROVE  \E g : /\ g = [i \in 1 .. size |-> IF i = 1 THEN seqs[i] ELSE g[i - 1] \o seqs[i]]
                /\ FlattenSeq(seqs) = g[size]
<1> DEFINE Flattens(g, m) == g = [i \in 1 .. m |-> IF i = 1 THEN seqs[i] ELSE g[i - 1] \o seqs[i]]
           Bad == {m \in Nat : ~ \E g : Flattens(g, m)}
<1>1. Bad = {}
  <2> SUFFICES ASSUME Bad # {} PROVE FALSE
    OBVIOUS
  <2>1. PICK m \in Bad : \A j \in Bad : m =< j
    <3>1. Bad \subseteq Nat
      OBVIOUS
    <3> HIDE DEF Bad
    <3> QED BY <3>1, LeastNatural
  <2>2. CASE m = 0
    <3>1. Flattens([i \in 1 .. 0 |-> 0], 0)
      OBVIOUS
    <3> HIDE DEF Flattens
    <3> QED BY <2>2, <3>1
  <2>3. CASE m # 0
    <3>1. m - 1 \in Nat /\ ~ (m =< m - 1)
      BY <2>3
    <3>2. m - 1 \notin Bad
      BY <2>1, <3>1
    <3>3. PICK g : Flattens(g, m - 1)
      BY <3>1, <3>2
    <3> DEFINE h == [i \in 1 .. m |-> IF i = 1 THEN seqs[i] ELSE g[i - 1] \o seqs[i]]
    <3>4. ASSUME NEW i \in 1 .. m PROVE i = 1 \/ h[i - 1] = g[i - 1]
      <4>1. CASE i # 1
        <5>1. i - 1 \in 1 .. m - 1 /\ i - 1 \in 1 .. m
          BY <4>1
        <5> QED BY <3>3, <5>1
      <4> QED BY <4>1
    <3>5. Flattens(h, m)
      BY <3>4
    <3> HIDE DEF Flattens, h
    <3> QED BY <3>5
  <2> QED BY <2>2, <2>3
<1>2. \E g : Flattens(g, size)
  <2> HIDE DEF Flattens
  <2> QED BY <1>1
<1>3. FlattenSeq(seqs) = (CHOOSE g : Flattens(g, size))[size]
  BY DEF FlattenSeq
<1>4. Flattens(CHOOSE g : Flattens(g, size), size)
  <2> HIDE DEF Flattens
  <2> QED BY <1>2
<1> QED BY <1>3, <1>4

\* The characters of a string, put together, are the string.
LEMMA CharactersJoin ==
  ASSUME NEW C, NEW s \in Seq(C)
  PROVE  FlattenSeq(Characters(s)) = s
<1> DEFINE seqs == [i \in 1 .. Len(s) |-> <<s[i]>>]
<1>1. Characters(s) = seqs /\ Len(s) \in Nat
  BY LenProperties DEF Characters
<1>2. Len(seqs) = Len(s) /\ \A i \in 1 .. Len(s) : seqs[i] = <<s[i]>>
  BY <1>1
<1>3. CASE Len(s) = 0
  <2>1. s = seqs
    BY <1>3, LenProperties
  <2> QED BY <1>1, <1>2, <1>3, <2>1 DEF FlattenSeq
<1>4. CASE Len(s) # 0
  <2> HIDE DEF seqs
  <2>1. PICK g : /\ g = [i \in 1 .. Len(s) |-> IF i = 1 THEN seqs[i] ELSE g[i - 1] \o seqs[i]]
                 /\ FlattenSeq(seqs) = g[Len(s)]
    <3>1. PICK m : m = Len(s)
      OBVIOUS
    <3>2. m \in Nat /\ m = Len(seqs) /\ m # 0
      BY <1>1, <1>2, <1>4, <3>1
    <3>3. \E g : /\ g = [i \in 1 .. m |-> IF i = 1 THEN seqs[i] ELSE g[i - 1] \o seqs[i]]
                 /\ FlattenSeq(seqs) = g[m]
      BY ONLY <3>2, FlattenTurns
    <3> QED BY <1>1, <3>1, <3>3
  <2> DEFINE Bad == {i \in 1 .. Len(s) : g[i] # SubSeq(s, 1, i)}
  <2>2. Bad = {}
    <3> SUFFICES ASSUME Bad # {} PROVE FALSE
      OBVIOUS
    <3>1. PICK m \in Bad : \A j \in Bad : m =< j
      <4>1. Bad \subseteq Nat
        OBVIOUS
      <4> HIDE DEF Bad
      <4> QED BY <4>1, LeastNatural
    <3>2. m \in 1 .. Len(s) /\ g[m] = IF m = 1 THEN <<s[m]>> ELSE g[m - 1] \o <<s[m]>>
      BY <1>2, <2>1
    <3>3. SubSeq(s, 1, m) = SubSeq(s, 1, m - 1) \o <<s[m]>>
      BY <1>1, <3>2, SubSeqRecursiveSecond
    <3>4. CASE m = 1
      <4>1. SubSeq(s, 1, m - 1) = <<>>
        BY <3>4, SubSeqEmpty
      <4>2. <<>> \o <<s[m]>> = <<s[m]>>
        <5>1. <<s[m]>> \in Seq(C)
          BY <3>2, ElementOfSeq
        <5> QED BY <5>1, ConcatEmptySeq
      <4> QED BY <3>2, <3>3, <3>4, <4>1, <4>2
    <3>5. CASE m # 1
      <4>1. m - 1 \in 1 .. Len(s) /\ ~ (m =< m - 1)
        BY <3>2, <3>5
      <4>2. g[m - 1] = SubSeq(s, 1, m - 1)
        BY <3>1, <4>1
      <4> QED BY <3>2, <3>3, <3>5, <4>2
    <3> QED BY <3>4, <3>5
  <2>3. g[Len(s)] = SubSeq(s, 1, Len(s))
    BY <1>1, <1>4, <2>2
  <2> QED BY <1>1, <2>1, <2>3, SubSeqFull
<1> QED BY <1>3, <1>4

\* A piece of a string from an end or a comma to an end or a comma.
Piece(s, a, id) ==
  /\ a \in 0 .. Len(s)
  /\ a = 0 \/ s[a] = Comma
  /\ a + Len(id) =< Len(s)
  /\ a + Len(id) = Len(s) \/ s[a + Len(id) + 1] = Comma
  /\ \A t \in 1 .. Len(id) : s[a + t] = id[t]

LEMMA PieceStays ==
  ASSUME NEW C, Comma \in C, NEW s \in Seq(C), NEW id \in Seq(C), NEW more \in Seq(C),
         NEW a, Piece(s, a, id)
  PROVE  Piece(s \o (<<Comma>> \o more), a, id)
<1>1. /\ <<Comma>> \in Seq(C) /\ Len(<<Comma>>) = 1
      /\ Len(s) \in Nat /\ Len(id) \in Nat /\ Len(more) \in Nat
  BY LenProperties
<1> DEFINE tail == <<Comma>> \o more
<1>2. tail \in Seq(C) /\ Len(tail) = 1 + Len(more) /\ tail[1] = Comma
  BY <1>1, ConcatProperties
<1> HIDE DEF tail
<1> DEFINE all == s \o tail
<1>3. /\ Len(all) = Len(s) + Len(tail)
      /\ \A i \in 1 .. Len(s) : all[i] = s[i]
      /\ all[Len(s) + 1] = Comma
  <2>1. \A i \in 1 .. Len(s) + Len(tail) : all[i] = IF i =< Len(s) THEN s[i] ELSE tail[i - Len(s)]
    BY <1>1, <1>2, ConcatProperties
  <2>2. Len(s) + 1 \in 1 .. Len(s) + Len(tail) /\ Len(s) + 1 - Len(s) = 1
        /\ ~ (Len(s) + 1 =< Len(s))
    BY <1>1, <1>2
  <2>3. all[Len(s) + 1] = Comma
    BY <1>2, <2>1, <2>2
  <2>4. Len(all) = Len(s) + Len(tail)
    BY <1>2, ConcatProperties
  <2> HIDE DEF all
  <2> QED BY <1>1, <1>2, <2>1, <2>3, <2>4
<1> HIDE DEF all
<1>4. PICK k : k = a + Len(id)
  OBVIOUS
<1>5. k \in Nat /\ a \in Nat /\ a =< Len(s) /\ k =< Len(s) /\ Len(s) =< Len(all)
  BY <1>1, <1>2, <1>3, <1>4 DEF Piece
<1>6. a = 0 \/ all[a] = Comma
  BY <1>3, <1>5 DEF Piece
<1>7. all[k + 1] = Comma
  <2>1. CASE k = Len(s)
    BY <1>3, <2>1
  <2>2. CASE k # Len(s)
    <3>1. k + 1 \in 1 .. Len(s)
      BY <1>1, <1>5, <2>2
    <3>2. s[k + 1] = Comma
      BY <1>4, <2>2 DEF Piece
    <3> QED BY <1>3, <3>1, <3>2
  <2> QED BY <2>1, <2>2
<1>8. ASSUME NEW t \in 1 .. Len(id) PROVE all[a + t] = id[t]
  <2>1. a + t \in 1 .. Len(s)
    BY <1>1, <1>4, <1>5
  <2>2. s[a + t] = id[t]
    BY DEF Piece
  <2> QED BY <1>3, <2>1, <2>2
<1>9. Piece(all, a, id)
  BY <1>1, <1>2, <1>3, <1>4, <1>5, <1>6, <1>7, <1>8 DEF Piece
<1> QED BY <1>9 DEF all, tail

LEMMA PieceLast ==
  ASSUME NEW C, Comma \in C, NEW s \in Seq(C), NEW id \in Seq(C)
  PROVE  Piece(s \o (<<Comma>> \o id), Len(s) + 1, id)
<1>1. /\ <<Comma>> \in Seq(C) /\ Len(<<Comma>>) = 1
      /\ Len(s) \in Nat /\ Len(id) \in Nat
  BY LenProperties
<1> DEFINE tail == <<Comma>> \o id
<1>2. /\ tail \in Seq(C) /\ Len(tail) = 1 + Len(id) /\ tail[1] = Comma
      /\ \A t \in 1 .. Len(id) : tail[1 + t] = id[t]
  <2>1. /\ tail \in Seq(C) /\ Len(tail) = 1 + Len(id)
        /\ \A i \in 1 .. 1 + Len(id) : tail[i] = IF i =< 1 THEN <<Comma>>[i] ELSE id[i - 1]
    BY <1>1, ConcatProperties
  <2> HIDE DEF tail
  <2>2. \A t \in 1 .. Len(id) : 1 + t \in 1 .. 1 + Len(id) /\ ~ (1 + t =< 1) /\ 1 + t - 1 = t
    BY <1>1
  <2>3. 1 \in 1 .. 1 + Len(id)
    BY <1>1
  <2> QED BY <2>1, <2>2, <2>3
<1> HIDE DEF tail
<1> DEFINE all == s \o tail
<1>3. /\ Len(all) = Len(s) + Len(tail)
      /\ \A i \in 1 .. Len(tail) : all[Len(s) + i] = tail[i]
  <2>1. /\ \A i \in 1 .. Len(s) + Len(tail) : all[i] = IF i =< Len(s) THEN s[i] ELSE tail[i - Len(s)]
        /\ Len(all) = Len(s) + Len(tail)
    BY <1>1, <1>2, ConcatProperties
  <2>2. \A i \in 1 .. Len(tail) : /\ Len(s) + i \in 1 .. Len(s) + Len(tail)
                                  /\ ~ (Len(s) + i =< Len(s)) /\ Len(s) + i - Len(s) = i
    BY <1>1, <1>2
  <2> HIDE DEF all
  <2> QED BY <2>1, <2>2
<1> HIDE DEF all
<1>4. all[Len(s) + 1] = Comma
  <2>1. 1 \in 1 .. Len(tail)
    BY <1>1, <1>2
  <2> QED BY <1>2, <1>3, <2>1
<1>5. ASSUME NEW t \in 1 .. Len(id) PROVE all[Len(s) + 1 + t] = id[t]
  <2>1. 1 + t \in 1 .. Len(tail) /\ Len(s) + (1 + t) = Len(s) + 1 + t
    BY <1>1, <1>2
  <2> QED BY <1>2, <1>3, <2>1
<1>6. Piece(all, Len(s) + 1, id)
  BY <1>1, <1>2, <1>3, <1>4, <1>5 DEF Piece
<1> QED BY <1>6 DEF all, tail

\* The query holds every id as a piece of it.
LEMMA QueryPieces ==
  ASSUME NEW C, Comma \in C, NEW size \in Nat, size # 0, NEW ids \in [1 .. size -> Seq(C)]
  PROVE  /\ Query(ids) \in Seq(C)
         /\ \A j \in 1 .. size : \E a : Piece(Query(ids), a, ids[j])
<1> DEFINE seqs == [i \in 1 .. size |-> IF i = 1 THEN ids[i] ELSE <<Comma>> \o ids[i]]
<1>1. Query(ids) = FlattenSeq(seqs)
  BY DEF Query
<1>2. Len(seqs) = size /\ \A i \in 1 .. size : seqs[i] = IF i = 1 THEN ids[i] ELSE <<Comma>> \o ids[i]
  OBVIOUS
<1> HIDE DEF seqs
<1>3. PICK g : /\ g = [i \in 1 .. size |-> IF i = 1 THEN seqs[i] ELSE g[i - 1] \o seqs[i]]
               /\ FlattenSeq(seqs) = g[size]
  BY <1>2, FlattenTurns
<1>4. \A i \in 1 .. size : g[i] = IF i = 1 THEN ids[1] ELSE g[i - 1] \o (<<Comma>> \o ids[i])
  BY <1>2, <1>3
<1> DEFINE Good(i) == /\ g[i] \in Seq(C)
                      /\ \A j \in 1 .. i : \E a : Piece(g[i], a, ids[j])
           Bad == {i \in 1 .. size : ~ Good(i)}
<1>5. Bad = {}
  <2> SUFFICES ASSUME Bad # {} PROVE FALSE
    OBVIOUS
  <2>1. PICK m \in Bad : \A j \in Bad : m =< j
    <3>1. Bad \subseteq Nat
      OBVIOUS
    <3> HIDE DEF Bad
    <3> QED BY <3>1, LeastNatural
  <2>2. m \in 1 .. size /\ ids[m] \in Seq(C)
    OBVIOUS
  <2>3. CASE m = 1
    <3>1. g[m] = ids[1] /\ Len(ids[1]) \in Nat
      BY <1>4, <2>2, <2>3, LenProperties
    <3>2. Piece(ids[1], 0, ids[1])
      BY <3>1 DEF Piece
    <3>3. \A j \in 1 .. m : j = 1
      BY <2>3
    <3> QED BY <2>2, <2>3, <3>1, <3>2, <3>3
  <2>4. CASE m # 1
    <3>1. m - 1 \in 1 .. size /\ ~ (m =< m - 1)
      BY <2>2, <2>4
    <3>2. Good(m - 1)
      BY <2>1, <3>1
    <3>3. g[m] = g[m - 1] \o (<<Comma>> \o ids[m])
      BY <1>4, <2>2, <2>4
    <3>4. g[m] \in Seq(C)
      <4>1. <<Comma>> \in Seq(C)
        OBVIOUS
      <4>2. <<Comma>> \o ids[m] \in Seq(C)
        BY <2>2, <4>1, ConcatProperties
      <4> QED BY <3>2, <3>3, <4>2, ConcatProperties
    <3>5. ASSUME NEW j \in 1 .. m PROVE \E a : Piece(g[m], a, ids[j])
      <4>1. CASE j = m
        BY <2>2, <3>2, <3>3, <4>1, PieceLast
      <4>2. CASE j # m
        <5>1. j \in 1 .. m - 1 /\ j \in 1 .. size
          BY <2>2, <4>2
        <5>2. PICK a : Piece(g[m - 1], a, ids[j])
          BY <3>2, <5>1
        <5>3. ids[j] \in Seq(C)
          BY <5>1
        <5> QED BY <2>2, <3>2, <3>3, <5>2, <5>3, PieceStays
      <4> QED BY <4>1, <4>2
    <3> QED BY <3>4, <3>5
  <2> QED BY <2>3, <2>4
<1>6. Good(size)
  <2>1. size \in 1 .. size
    OBVIOUS
  <2> HIDE DEF Good
  <2> QED BY <1>5, <2>1
<1> QED BY <1>1, <1>3, <1>6

\* An id without a comma that is a piece of the string comes out of it again.
LEMMA SplitPiece ==
  ASSUME NEW C, NEW s \in Seq(C), NEW id \in Seq(C), NEW a, Piece(s, a, id),
         \A t \in 1 .. Len(id) : id[t] # Comma
  PROVE  id \in Split(s)
<1>1. /\ Len(s) \in Nat /\ Len(id) \in Nat /\ DOMAIN s = 1 .. Len(s)
      /\ a \in 0 .. Len(s)
  BY LenProperties DEF Piece
<1> DEFINE cuts == {0, Len(s) + 1} \cup {i \in DOMAIN s : s[i] = Comma}
           b == a + Len(id) + 1
           p == <<a, b>>
<1>2. a \in cuts /\ b \in cuts /\ a < b /\ b =< Len(s) + 1
  <2>1. PICK k, m : k = Len(id) /\ m = Len(s)
    OBVIOUS
  <2>2. k \in Nat /\ m \in Nat /\ a \in Nat
    BY <1>1, <2>1
  <2>3. a + k =< m
    BY <2>1 DEF Piece
  <2>4. a + k = m \/ s[a + k + 1] = Comma
    BY <2>1 DEF Piece
  <2>5. /\ a < a + k + 1 /\ a + k + 1 =< m + 1
        /\ a + k = m => a + k + 1 = m + 1
        /\ a + k # m => a + k + 1 \in 1 .. m
    BY ONLY <2>2, <2>3
  <2>6. a \in cuts
    <3>1. a \in 0 .. Len(s) /\ (a = 0 \/ s[a] = Comma)
      BY DEF Piece
    <3>2. a = 0 \/ (a \in DOMAIN s /\ s[a] = Comma)
      <4>1. a = 0 \/ a \in 1 .. Len(s)
        BY ONLY <1>1
      <4> QED BY ONLY <1>1, <3>1, <4>1
    <3> QED BY ONLY <3>2
  <2>7. a + k + 1 \in cuts
    <3>1. PICK e : e = a + k + 1
      OBVIOUS
    <3>2. e = m + 1 \/ (e \in 1 .. m /\ s[e] = Comma)
      BY <2>4, <2>5, <3>1
    <3>3. e \in cuts
      BY <1>1, <2>1, <3>2
    <3> QED BY <3>1, <3>3
  <2> QED BY <2>1, <2>5, <2>6, <2>7
<1>3. ASSUME NEW c \in cuts, ~ (c =< a), ~ (c >= b) PROVE FALSE
  <2>1. c - a \in 1 .. Len(id) /\ a + (c - a) = c /\ c \in DOMAIN s
    BY <1>1, <1>2, <1>3
  <2>2. s[c] = Comma
    BY <1>1, <1>2, <1>3, <2>1
  <2> QED BY <2>1, <2>2 DEF Piece
<1>4. p \in {q \in cuts \X cuts : q[1] < q[2] /\ \A c \in cuts : c =< q[1] \/ c >= q[2]}
  BY <1>2, <1>3
<1>5. SubSeq(s, p[1] + 1, p[2] - 1) \in Split(s)
  BY <1>4 DEF Split
<1>6. SubSeq(s, a + 1, b - 1) = id
  <2>1. \A i \in a + 1 .. b - 1 : s[i] \in C
    BY <1>1, <1>2, ElementOfSeq
  <2>2. b - 1 - (a + 1) + 1 = Len(id) /\ \A t \in 1 .. Len(id) : a + 1 + t - 1 = a + t
    BY <1>1
  <2>3. /\ SubSeq(s, a + 1, b - 1) \in Seq(C)
        /\ Len(SubSeq(s, a + 1, b - 1)) = Len(id)
        /\ \A t \in 1 .. Len(id) : SubSeq(s, a + 1, b - 1)[t] = s[a + t]
    <3>1. a + 1 \in Int /\ b - 1 \in Int /\ (IF a + 1 =< b - 1 THEN b - 1 - (a + 1) + 1 ELSE 0) = Len(id)
      BY <1>1
    <3> HIDE DEF b
    <3> QED BY <2>1, <2>2, <3>1, SubSeqProperties
  <2>4. \A t \in 1 .. Len(id) : s[a + t] = id[t]
    BY DEF Piece
  <2> HIDE DEF b
  <2> QED BY <2>3, <2>4, SeqEqual
<1> QED BY <1>5, <1>6

\* A finite set as a sequence: each of its elements is in it.
LEMMA SetInSequence ==
  ASSUME NEW S, IsFiniteSet(S)
  PROVE  /\ Cardinality(S) \in Nat
         /\ SetToSeq(S) \in [1 .. Cardinality(S) -> S]
         /\ \A x \in S : \E i \in 1 .. Cardinality(S) : SetToSeq(S)[i] = x
<1> DEFINE size == Cardinality(S)
           Inj(f) == \A x, y \in DOMAIN f : f[x] = f[y] => x = y
<1>1. size \in Nat /\ \E f \in [1 .. size -> S] : Inj(f)
  <2>1. size \in Nat /\ ExistsBijection(1 .. size, S)
    BY FS_CardinalityType
  <2> QED BY <2>1 DEF ExistsBijection, Bijection, Injection, IsInjective
<1>2. SetToSeq(S) = CHOOSE f \in [1 .. size -> S] : Inj(f)
  BY DEF SetToSeq, IsInjective
<1>3. PICK f : f = SetToSeq(S) /\ f \in [1 .. size -> S] /\ Inj(f)
  BY <1>1, <1>2
<1>4. f \in Injection(1 .. size, S)
  BY <1>3 DEF Injection, IsInjective
<1>5. Cardinality(1 .. size) = size
  BY <1>1, FS_Interval
<1>6. f \in Surjection(1 .. size, S)
  BY <1>4, <1>5, FS_Injection
<1> QED BY <1>1, <1>3, <1>6 DEF Surjection

\* What is put in an address and joined again holds the product on the page and
\* those in the cart.
LEMMA RequestedAll ==
  ASSUME NEW S \in SUBSET Catalog, IsFiniteSet(S), NEW p \in Catalog
  PROVE  {p} \cup S \subseteq RequestedIds(Characters(Query(<<p>> \o SetToSeq(S))))
<1> DEFINE C == {Comma} \cup UNION {Range(id) : id \in Catalog}
           key == <<p>> \o SetToSeq(S)
<1>1. ASSUME NEW id \in Catalog
      PROVE  /\ id \in Seq(C)
             /\ \A t \in 1 .. Len(id) : id[t] # Comma
  <2>1. id \in Seq(Range(id)) /\ Range(id) \subseteq C /\ Comma \notin Range(id)
    BY PageAssumption
  <2>2. id \in Seq(C)
    <3> HIDE DEF C
    <3> QED BY <2>1, SeqMonotonic
  <2>3. \A t \in 1 .. Len(id) : id[t] \in Range(id)
    BY <2>1, ElementOfSeq
  <2> QED BY <2>1, <2>2, <2>3
<1>2. Comma \in C
  OBVIOUS
<1> HIDE DEF C
<1>3. PICK m \in Nat : m = Cardinality(S) + 1
  BY SetInSequence
<1>4. /\ key \in [1 .. m -> Catalog]
      /\ \A x \in {p} \cup S : \E i \in 1 .. m : key[i] = x
  <2> DEFINE rest == SetToSeq(S)
  <2>1. /\ Cardinality(S) \in Nat /\ rest \in [1 .. Cardinality(S) -> S]
        /\ \A x \in S : \E i \in 1 .. Cardinality(S) : rest[i] = x
    BY SetInSequence
  <2> HIDE DEF rest
  <2>2. rest \in Seq(Catalog) /\ Len(rest) = Cardinality(S)
    BY <2>1
  <2>3. <<p>> \in Seq(Catalog) /\ Len(<<p>>) = 1
    OBVIOUS
  <2> DEFINE all == <<p>> \o rest
  <2>4. /\ all \in Seq(Catalog) /\ Len(all) = 1 + Cardinality(S)
        /\ \A i \in 1 .. 1 + Cardinality(S) : all[i] = IF i =< 1 THEN <<p>>[i] ELSE rest[i - 1]
    BY <2>2, <2>3, ConcatProperties
  <2> HIDE DEF all
  <2>5. all \in [1 .. m -> Catalog]
    BY <1>3, <2>1, <2>4, LenProperties
  <2>6. all[1] = p /\ 1 \in 1 .. m
    BY <1>3, <2>1, <2>4
  <2>7. ASSUME NEW x \in S PROVE \E i \in 1 .. m : all[i] = x
    <3>1. PICK i \in 1 .. Cardinality(S) : rest[i] = x
      BY <2>1
    <3>2. i + 1 \in 1 .. m /\ i + 1 - 1 = i /\ ~ (i + 1 =< 1) /\ m = 1 + Cardinality(S)
      BY <1>3, <2>1
    <3>3. all[i + 1] = x
      BY <2>4, <3>1, <3>2
    <3> QED BY <3>2, <3>3
  <2> QED BY <2>5, <2>6, <2>7 DEF all, rest
<1> HIDE DEF key
<1>5. m # 0 /\ key \in [1 .. m -> Seq(C)]
  <2>1. m # 0
    BY <1>4
  <2>2. \A i \in 1 .. m : key[i] \in Seq(C)
    BY <1>1, <1>4
  <2> QED BY <1>4, <2>1, <2>2
<1>6. /\ Query(key) \in Seq(C)
      /\ \A j \in 1 .. m : \E a : Piece(Query(key), a, key[j])
  BY <1>2, <1>5, QueryPieces
<1>7. ASSUME NEW x \in {p} \cup S PROVE x \in Split(Query(key))
  <2>1. PICK j \in 1 .. m : key[j] = x
    BY <1>4
  <2>2. PICK a : Piece(Query(key), a, x)
    BY <1>6, <2>1
  <2>3. x \in Catalog
    BY <1>4, <2>1
  <2> QED BY <1>1, <1>6, <2>2, <2>3, SplitPiece
<1>8. RequestedIds(Characters(Query(key))) = Split(Query(key))
  BY <1>6, CharactersJoin DEF RequestedIds
<1> QED BY <1>7, <1>8 DEF key

\* What is recommended is of the catalog, but for the page and the cart.
OthersInv ==
  /\ product \in Catalog /\ inCart \subseteq Catalog
  /\ SuggestsOthers

LEMMA RecommendedOthers ==
  ASSUME NEW p \in Catalog, NEW S \in SUBSET Catalog,
         NEW some \in Recommended(<<p>> \o SetToSeq(S))
  PROVE  some \cap ({p} \cup S) = {}
<1>1. IsFiniteSet(S)
  BY FS_Subset, PageAssumption
<1>2. {p} \cup S \subseteq RequestedIds(Characters(Query(<<p>> \o SetToSeq(S))))
  BY <1>1, RequestedAll
<1>3. some \in {{}} \cup SUBSET (Catalog
                  \ RequestedIds(Characters(Query(<<p>> \o SetToSeq(S)))))
  BY DEF Recommended, kSubset
<1> QED BY <1>2, <1>3

LEMMA InitOthers == PageInit => OthersInv
BY DEF PageInit, OthersInv, SuggestsOthers

LEMMA NextOthers == OthersInv /\ [PageNext]_pageVars => OthersInv'
<1> SUFFICES ASSUME OthersInv, [PageNext]_pageVars PROVE OthersInv'
  OBVIOUS
<1>1. CASE UNCHANGED <<product, inCart, suggested>>
  BY <1>1 DEF OthersInv, SuggestsOthers
<1>2. ASSUME Rekeyed, product' \in Catalog, inCart' \in SUBSET Catalog PROVE OthersInv'
  <2>1. suggested' \in {{}} \cup Recommended(<<product'>> \o SetToSeq(inCart'))
    BY <1>2 DEF Rekeyed, Key
  <2>2. suggested' \cap ({product'} \cup inCart') = {}
    BY <1>2, <2>1, RecommendedOthers
  <2> QED BY <1>2, <2>2 DEF OthersInv, SuggestsOthers
<1>3. CASE Navigate \/ CartLoaded
  BY <1>2, <1>3 DEF Navigate, CartLoaded, OthersInv
<1>4. CASE Suggested
  <2>1. suggested' \in Recommended(<<product>> \o SetToSeq(inCart))
    BY <1>4 DEF Suggested, Key
  <2>2. suggested' \cap ({product} \cup inCart) = {}
    BY <2>1, RecommendedOthers DEF OthersInv
  <2> QED BY <1>4, <2>2 DEF Suggested, OthersInv, SuggestsOthers
<1>5. CASE \/ SuggestFails \/ ReviewsLoaded \/ ReviewsFail \/ Reconnect
           \/ UNCHANGED pageVars
  BY <1>1, <1>5 DEF SuggestFails, ReviewsLoaded, ReviewsFail, Reconnect,
                    pageVars, suggestions
<1>6. CASE Ask \/ QuickPrompt \/ \E q \in flight : Settled(q)
  BY <1>1, <1>6 DEF Ask, QuickPrompt, Put, Settled, suggestions
<1> QED BY <1>3, <1>4, <1>5, <1>6 DEF PageNext

\* For any finite catalog whose ids hold no comma, whatever characters they share: no
\* product is recommended on its own page or while it is in the cart.
THEOREM OthersSuggested == PageSpec => []SuggestsOthers
<1>1. OthersInv => SuggestsOthers
  BY DEF OthersInv
<1> QED BY <1>1, InitOthers, NextOthers, PTL DEF PageSpec

-----------------------------------------------------------------------------
(* Session: the shopper of all tabs *)

\* Where the sessions kept come from: while nothing is stored nobody keeps one or
\* is about to write one read earlier, and at most one tab founds the first; when
\* one is stored, nobody founds another and everything kept is of its shopper.
SingleUser ==
  Undisturbed =>
    /\ stored = None =>
         \A t \in Tabs : /\ \A m \in Modules : captured[t][m] = None
                         /\ doing[t].step # "set"
    /\ stored # None =>
         \A t \in Tabs : /\ ~Founding(t)
                         /\ \A m \in Modules :
                              captured[t][m] # None => captured[t][m].userId = stored.userId
                         /\ doing[t].step = "set" => doing[t].session.userId = stored.userId
    /\ \A t, u \in Tabs : Founding(t) /\ Founding(u) => t = u

SessionIInv == TypeOK /\ SingleUser

--------------------------------------------------------------------------
(* Type correctness *)

LEMMA SessionInitType == SessionInit => TypeOK
  <1> SUFFICES ASSUME SessionInit PROVE TypeOK
    OBVIOUS
  <1>1. doing \in [Tabs -> Doing]
    BY DEF SessionInit, Doing
  <1>2. loads \in 0..MaxLoads /\ clears \in 0..MaxClears /\ own \in [Tabs -> 0..MaxLoads]
    BY ConstantsAssumption DEF SessionInit
  <1> QED BY <1>1, <1>2 DEF SessionInit, TypeOK

\* An open tab's default session is a session.
LEMMA DefaultType ==
  ASSUME TypeOK, NEW t \in Tabs, own[t] # 0
  PROVE  Default(t) \in Sessions
  BY ConstantsAssumption DEF TypeOK, Default, Sessions, Users

\* A tab that is doing something is open.
LEMMA BusyIsOpen ==
  ASSUME TypeOK, NEW t \in Tabs, doing[t] # Idle
  PROVE  own[t] # 0
  BY DEF TypeOK

\* What the steps of doing look like.
LEMMA DoingCases ==
  ASSUME TypeOK, NEW t \in Tabs
  PROVE  /\ doing[t] = Idle \/ doing[t].step \in {"first", "firstThenSet", "set"}
         /\ Idle.step = "idle"
         /\ doing[t].step = "first" => doing[t].module \in Modules
         /\ doing[t].step = "firstThenSet" => doing[t].currencyCode \in Currencies
         /\ doing[t].step = "set" => /\ doing[t].currencyCode \in Currencies
                                     /\ doing[t].session \in Sessions
  <1>1. doing[t] \in Doing
    BY DEF TypeOK
  <1> QED BY <1>1 DEF Doing, Idle

LEMMA LoadType ==
  ASSUME TypeOK, NEW t \in Tabs, Load(t)
  PROVE  TypeOK'
  BY ConstantsAssumption DEF TypeOK, Load

LEMMA FoundNoneType ==
  ASSUME TypeOK, NEW t \in Tabs, NEW next \in Doing, own[t] # 0, FoundNone(t, next),
         UNCHANGED <<own, loads, clears>>
  PROVE  TypeOK'
  BY DEF TypeOK, FoundNone

LEMMA LoadModuleType ==
  ASSUME TypeOK, NEW t \in Tabs, NEW m \in Modules, LoadModule(t, m)
  PROVE  TypeOK'
  <1>1. CASE FoundNone(t, [step |-> "first", module |-> m])
    <2>1. [step |-> "first", module |-> m] \in Doing
      BY DEF Doing
    <2> QED BY <1>1, <2>1, FoundNoneType DEF LoadModule
  <1>2. CASE /\ stored # None
             /\ captured' = [captured EXCEPT ![t][m] = stored]
             /\ UNCHANGED <<stored, doing, overlapped>>
    BY <1>2 DEF TypeOK, LoadModule
  <1> QED BY <1>1, <1>2 DEF LoadModule

LEMMA SelectCurrencyType ==
  ASSUME TypeOK, NEW t \in Tabs, NEW c \in Currencies, SelectCurrency(t, c)
  PROVE  TypeOK'
  <1>1. CASE FoundNone(t, [step |-> "firstThenSet", currencyCode |-> c])
    <2>1. [step |-> "firstThenSet", currencyCode |-> c] \in Doing
      BY DEF Doing
    <2> QED BY <1>1, <2>1, FoundNoneType DEF SelectCurrency
  <1>2. CASE /\ stored # None
             /\ doing' = [doing EXCEPT ![t] = [step |-> "set", session |-> stored, currencyCode |-> c]]
             /\ UNCHANGED <<stored, captured, overlapped>>
    <2>1. [step |-> "set", session |-> stored, currencyCode |-> c] \in Doing
      BY <1>2 DEF Doing, TypeOK
    <2> QED BY <1>2, <2>1 DEF TypeOK, SelectCurrency
  <1> QED BY <1>1, <1>2 DEF SelectCurrency

LEMMA WriteDefaultType ==
  ASSUME TypeOK, NEW t \in Tabs, WriteDefault(t)
  PROVE  TypeOK'
  <1>1. own[t] # 0 /\ Default(t) \in Sessions
    BY DoingCases, BusyIsOpen, DefaultType DEF WriteDefault, Founding
  <1>2. CASE doing[t].step = "first"
    <2>1. doing[t].module \in Modules
      BY <1>2, DoingCases
    <2>2. /\ captured' = [captured EXCEPT ![t][doing[t].module] = Default(t)]
          /\ doing' = [doing EXCEPT ![t] = Idle]
      BY <1>2 DEF WriteDefault
    <2> QED BY <1>1, <2>1, <2>2 DEF TypeOK, WriteDefault, Doing
  <1>3. CASE doing[t].step = "firstThenSet"
    <2> DEFINE next == [step |-> "set", session |-> Default(t), currencyCode |-> doing[t].currencyCode]
    <2>1. next \in Doing
      BY <1>1, <1>3, DoingCases DEF Doing
    <2>2. doing' = [doing EXCEPT ![t] = next] /\ UNCHANGED captured
      BY <1>3 DEF WriteDefault
    <2> HIDE DEF next
    <2> QED BY <1>1, <2>1, <2>2 DEF TypeOK, WriteDefault
  <1> QED BY <1>2, <1>3 DEF WriteDefault, Founding

LEMMA WriteValueType ==
  ASSUME TypeOK, NEW t \in Tabs, WriteValue(t)
  PROVE  TypeOK'
  <1>1. stored' \in Sessions
    BY DoingCases DEF WriteValue, Sessions
  <1> QED BY <1>1 DEF TypeOK, WriteValue, Doing

LEMMA CloseType ==
  ASSUME TypeOK, NEW t \in Tabs, Close(t)
  PROVE  TypeOK'
  BY ConstantsAssumption DEF TypeOK, Close, Doing

LEMMA SessionNextType == TypeOK /\ [SessionNext]_sessionVars => TypeOK'
  <1> SUFFICES ASSUME TypeOK, [SessionNext]_sessionVars PROVE TypeOK'
    OBVIOUS
  <1>1. CASE Clear
    BY <1>1, ConstantsAssumption DEF Clear, TypeOK
  <1>2. ASSUME NEW t \in Tabs, TabStep(t) PROVE TypeOK'
    BY <1>2, LoadType, WriteDefaultType, WriteValueType, CloseType, LoadModuleType,
       SelectCurrencyType DEF TabStep
  <1>3. CASE UNCHANGED sessionVars
    BY <1>3 DEF sessionVars, TypeOK
  <1> QED BY <1>1, <1>2, <1>3 DEF SessionNext

\* Every variable keeps its set of values, and a closed tab does and keeps nothing.
THEOREM SessionTypeCorrect == SessionSpec => []TypeOK
  BY SessionInitType, SessionNextType, PTL DEF SessionSpec

--------------------------------------------------------------------------
(* One shopper *)

LEMMA InitSingle == SessionInit => SingleUser
  BY DEF SessionInit, SingleUser, Founding, Idle

\* A history without a disturbance stays one only by undisturbed steps.
LEMMA UndisturbedBefore ==
  ASSUME TypeOK, [SessionNext]_sessionVars, Undisturbed'
  PROVE  Undisturbed
  <1>1. CASE Clear
    BY <1>1 DEF Clear, TypeOK, Undisturbed
  <1>2. ASSUME NEW t \in Tabs, TabStep(t) PROVE Undisturbed
    <2>1. ASSUME NEW next, FoundNone(t, next), UNCHANGED clears PROVE Undisturbed
      <3>1. overlapped => overlapped'
        BY <2>1 DEF FoundNone
      <3> QED BY <2>1, <3>1 DEF Undisturbed
    <2>2. CASE \E m \in Modules : LoadModule(t, m)
      BY <2>1, <2>2 DEF LoadModule, Undisturbed
    <2>3. CASE \E c \in Currencies : SelectCurrency(t, c)
      BY <2>1, <2>3 DEF SelectCurrency, Undisturbed
    <2>4. CASE Load(t) \/ WriteDefault(t) \/ WriteValue(t) \/ Close(t)
      BY <2>4 DEF Load, WriteDefault, WriteValue, Close, Undisturbed
    <2> QED BY <1>2, <2>2, <2>3, <2>4 DEF TabStep
  <1>3. CASE UNCHANGED sessionVars
    BY <1>3 DEF sessionVars, Undisturbed
  <1> QED BY <1>1, <1>2, <1>3 DEF SessionNext

LEMMA LoadSingle ==
  ASSUME TypeOK, SingleUser, NEW t \in Tabs, Load(t), Undisturbed
  PROVE  SingleUser'
  BY DEF Load, SingleUser, Undisturbed, Founding

\* Nobody else was founding a session: that would be an overlap.
LEMMA FoundNoneSingle ==
  ASSUME TypeOK, SingleUser, Undisturbed, Undisturbed', NEW t \in Tabs, NEW next \in Doing,
         next.step \in {"first", "firstThenSet"}, FoundNone(t, next)
  PROVE  SingleUser'
  <1>1. \A u \in Tabs \ {t} : ~Founding(u)
    BY DEF FoundNone, Undisturbed
  <1>2. \A u \in Tabs : u # t => doing'[u] = doing[u]
    BY DEF FoundNone, TypeOK
  <1>3. doing'[t].step \in {"first", "firstThenSet"}
    BY DEF FoundNone, TypeOK
  <1>4. \A u \in Tabs : /\ \A m \in Modules : captured[u][m] = None
                        /\ doing[u].step # "set"
    BY DEF SingleUser, FoundNone
  <1>5. stored = None /\ UNCHANGED <<stored, captured>>
    BY DEF FoundNone
  <1> QED BY <1>1, <1>2, <1>3, <1>4, <1>5 DEF SingleUser, Founding

LEMMA LoadModuleSingle ==
  ASSUME TypeOK, SingleUser, Undisturbed, Undisturbed', NEW t \in Tabs, NEW m \in Modules,
         LoadModule(t, m)
  PROVE  SingleUser'
  <1>1. CASE FoundNone(t, [step |-> "first", module |-> m])
    <2> DEFINE next == [step |-> "first", module |-> m]
    <2>1. next \in Doing /\ next.step \in {"first", "firstThenSet"}
      BY DEF Doing
    <2>2. FoundNone(t, next)
      BY <1>1
    <2> HIDE DEF next
    <2> QED BY <2>1, <2>2, FoundNoneSingle
  <1>2. CASE /\ stored # None
             /\ captured' = [captured EXCEPT ![t][m] = stored]
             /\ UNCHANGED <<stored, doing, overlapped>>
    <2>1. \A u \in Tabs : \A k \in Modules :
             captured'[u][k] = captured[u][k] \/ captured'[u][k] = stored
      BY <1>2 DEF TypeOK
    <2> QED BY <1>2, <2>1 DEF SingleUser, Founding
  <1> QED BY <1>1, <1>2 DEF LoadModule

LEMMA SelectCurrencySingle ==
  ASSUME TypeOK, SingleUser, Undisturbed, Undisturbed', NEW t \in Tabs, NEW c \in Currencies,
         SelectCurrency(t, c)
  PROVE  SingleUser'
  <1>1. CASE FoundNone(t, [step |-> "firstThenSet", currencyCode |-> c])
    <2> DEFINE next == [step |-> "firstThenSet", currencyCode |-> c]
    <2>1. next \in Doing /\ next.step \in {"first", "firstThenSet"}
      BY DEF Doing
    <2>2. FoundNone(t, next)
      BY <1>1
    <2> HIDE DEF next
    <2> QED BY <2>1, <2>2, FoundNoneSingle
  <1>2. CASE /\ stored # None
             /\ doing' = [doing EXCEPT ![t] = [step |-> "set", session |-> stored, currencyCode |-> c]]
             /\ UNCHANGED <<stored, captured, overlapped>>
    <2>1. \A u \in Tabs : u # t => doing'[u] = doing[u]
      BY <1>2 DEF TypeOK
    <2>2. doing'[t].step = "set" /\ doing'[t].session = stored
      BY <1>2 DEF TypeOK
    <2> QED BY <1>2, <2>1, <2>2 DEF SingleUser, Founding
  <1> QED BY <1>1, <1>2 DEF SelectCurrency

\* The founder is alone, and nothing was kept before.
LEMMA WriteDefaultSingle ==
  ASSUME TypeOK, SingleUser, Undisturbed, NEW t \in Tabs, WriteDefault(t)
  PROVE  SingleUser'
  <1>1. Founding(t) /\ stored = None
    BY DEF WriteDefault, SingleUser
  <1>2. \A u \in Tabs : /\ u # t => ~Founding(u)
                        /\ \A m \in Modules : captured[u][m] = None
                        /\ doing[u].step # "set"
    BY <1>1 DEF SingleUser
  <1>3. stored' = Default(t) /\ stored' # None
    <2>1. Default(t) \in Sessions
      BY DoingCases, BusyIsOpen, DefaultType, <1>1 DEF Founding
    <2> QED BY <2>1, NoneAssumption DEF WriteDefault
  <1>4. \A u \in Tabs : u # t => doing'[u] = doing[u]
    BY DEF WriteDefault, TypeOK
  <1>5. \A u \in Tabs : \A k \in Modules :
           captured'[u][k] = captured[u][k] \/ captured'[u][k] = Default(t)
    BY DEF WriteDefault, TypeOK
  <1>6. /\ ~(doing'[t].step \in {"first", "firstThenSet"})
        /\ doing'[t].step = "set" => doing'[t].session = Default(t)
    BY DEF WriteDefault, TypeOK, Idle
  <1> QED BY <1>2, <1>3, <1>4, <1>5, <1>6 DEF SingleUser, Founding

LEMMA WriteValueSingle ==
  ASSUME TypeOK, SingleUser, Undisturbed, NEW t \in Tabs, WriteValue(t)
  PROVE  SingleUser' /\ stored # None /\ stored'.userId = stored.userId
  <1>1. stored # None /\ doing[t].session.userId = stored.userId
    BY DEF WriteValue, SingleUser
  <1>2. stored' \in Sessions /\ stored'.userId = stored.userId
    BY <1>1, DoingCases DEF WriteValue, Sessions
  <1>3. \A u \in Tabs : u # t => doing'[u] = doing[u]
    BY DEF WriteValue, TypeOK
  <1>4. doing'[t].step = "idle"
    BY DEF WriteValue, TypeOK, Idle
  <1>5. stored' # None /\ captured' = captured
    BY <1>2, NoneAssumption DEF WriteValue
  <1> QED BY <1>1, <1>2, <1>3, <1>4, <1>5 DEF SingleUser, Founding

LEMMA CloseSingle ==
  ASSUME TypeOK, SingleUser, Undisturbed, NEW t \in Tabs, Close(t)
  PROVE  SingleUser'
  <1>1. \A u \in Tabs : u # t => doing'[u] = doing[u] /\ captured'[u] = captured[u]
    BY DEF Close, TypeOK
  <1>2. doing'[t].step = "idle" /\ \A m \in Modules : captured'[t][m] = None
    BY DEF Close, TypeOK, Idle
  <1> QED BY <1>1, <1>2 DEF Close, SingleUser, Founding

LEMMA NextSingle == SessionIInv /\ [SessionNext]_sessionVars => SessionIInv'
  <1> SUFFICES ASSUME SessionIInv, [SessionNext]_sessionVars, Undisturbed' PROVE SingleUser'
    BY SessionNextType DEF SessionIInv, SingleUser
  <1>1. TypeOK /\ SingleUser /\ Undisturbed
    BY UndisturbedBefore DEF SessionIInv
  <1>2. CASE Clear
    BY <1>1, <1>2 DEF Clear, TypeOK, Undisturbed
  <1>3. ASSUME NEW t \in Tabs, TabStep(t) PROVE SingleUser'
    BY <1>1, <1>3, LoadSingle, WriteDefaultSingle, WriteValueSingle, CloseSingle,
       LoadModuleSingle, SelectCurrencySingle DEF TabStep
  <1>4. CASE UNCHANGED sessionVars
    BY <1>1, <1>4 DEF sessionVars, SingleUser, Undisturbed, Founding
  <1> QED BY <1>2, <1>3, <1>4 DEF SessionNext

LEMMA SessionInductive == SessionSpec => []SessionIInv
  BY SessionInitType, InitSingle, NextSingle, PTL DEF SessionSpec, SessionIInv

\* For any number of tabs and modules: what the modules of all tabs captured is of
\* one shopper, so an order is placed from the cart that is shown.
THEOREM OneShopper == SessionSpec => []SameUser
  <1>1. SessionIInv => SameUser
    BY DEF SessionIInv, SingleUser, SameUser
  <1> QED BY <1>1, SessionInductive, PTL

\* No write of any tab replaces the stored shopper by another.
THEOREM ShopperKept == SessionSpec => UserKept
  <1>1. SessionIInv /\ [SessionNext]_sessionVars => [Undisturbed' /\ stored # None => stored'.userId = stored.userId]_sessionVars
    <2> SUFFICES ASSUME SessionIInv, SessionNext, Undisturbed', stored # None
                 PROVE  stored'.userId = stored.userId
      BY DEF sessionVars
    <2>1. TypeOK /\ SingleUser /\ Undisturbed
      BY UndisturbedBefore DEF SessionIInv
    <2>2. CASE Clear
      BY <2>1, <2>2 DEF Clear, TypeOK, Undisturbed
    <2>3. ASSUME NEW t \in Tabs, TabStep(t) PROVE stored'.userId = stored.userId
      <3>1. CASE WriteValue(t)
        BY <2>1, <3>1, WriteValueSingle
      <3>2. ~WriteDefault(t)
        BY <2>1 DEF WriteDefault, SingleUser
      <3>3. CASE ~WriteValue(t)
        BY <2>3, <3>2, <3>3 DEF TabStep, Load, Close, LoadModule, SelectCurrency, FoundNone
      <3> QED BY <3>1, <3>3
    <2> QED BY <2>2, <2>3 DEF SessionNext
  <1> QED BY <1>1, SessionInductive, PTL DEF SessionSpec, UserKept

==============================================================================
