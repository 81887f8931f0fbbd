---------------------------- MODULE SumTheorems ----------------------------
(***************************************************************************)
(* What the ledgers' sums are, for every finite function: the library's    *)
(* fold chooses in which order it adds, so that its value is the expected  *)
(* one takes an induction.  The induction principles are stated with a set *)
(* in the place of a predicate.                                            *)
(***************************************************************************)
EXTENDS Integers, Functions, FiniteSets, FiniteSetTheorems, WellFoundedInduction, TLAPS

(* Induction over the naturals.                                            *)
LEMMA NaturalNumbers ==
    ASSUME NEW T, 0 \in T, \A n \in Nat : n \in T => n + 1 \in T
    PROVE  \A n \in Nat : n \in T
<1> DEFINE B == Nat \ T
           R == OpToRel(<, Nat)
<1>1. IsWellFoundedOn(R, Nat)
    BY NatLessThanWellFounded
<1>2. \A x, y \in Nat : x < y => <<x, y>> \in R
    BY DEF OpToRel
<1> SUFFICES ASSUME B # {} PROVE FALSE
    OBVIOUS
<1>3. B \subseteq Nat
    OBVIOUS
<1> HIDE DEF R
<1>4. PICK x \in B : \A y \in B : ~(<<y, x>> \in R)
    <2> HIDE DEF B
    <2> QED BY <1>1, <1>3, WFMin
<1>5. x \in Nat /\ x # 0 /\ x - 1 \in Nat /\ x - 1 < x
    BY <1>3
<1>6. x - 1 \notin B
    BY <1>2, <1>4, <1>5
<1>7. x - 1 + 1 \in T
    BY <1>5, <1>6
<1> QED BY <1>5, <1>7

(* Induction over the subsets of a finite set, by size.                    *)
LEMMA SubsetsBySize ==
    ASSUME NEW S, IsFiniteSet(S), NEW T,
           \A s \in SUBSET S : (\A r \in SUBSET s : r # s => r \in T) => s \in T
    PROVE  \A s \in SUBSET S : s \in T
<1> DEFINE N == {n \in Nat : \A s \in SUBSET S : Cardinality(s) <= n => s \in T}
<1>1. \A s \in SUBSET S : IsFiniteSet(s) /\ Cardinality(s) \in Nat
    BY FS_Subset, FS_CardinalityType
<1>2. \A s \in SUBSET S : \A r \in SUBSET s : r # s => r \in SUBSET S /\ Cardinality(r) < Cardinality(s)
    <2> SUFFICES ASSUME NEW s \in SUBSET S, NEW r \in SUBSET s, r # s
                 PROVE  r \in SUBSET S /\ Cardinality(r) < Cardinality(s)
        OBVIOUS
    <2>1. IsFiniteSet(s) /\ r \in SUBSET S
        BY <1>1
    <2>2. Cardinality(r) <= Cardinality(s) /\ (Cardinality(r) = Cardinality(s) => r = s)
        BY <2>1, FS_Subset
    <2> QED BY <1>1, <2>1, <2>2
<1>3. 0 \in N
    <2> SUFFICES ASSUME NEW s \in SUBSET S, Cardinality(s) <= 0 PROVE s \in T
        OBVIOUS
    <2>1. \A r \in SUBSET s : r = s
        BY <1>1, <1>2
    <2> QED BY <2>1
<1>4. ASSUME NEW n \in Nat, n \in N PROVE n + 1 \in N
    <2> SUFFICES ASSUME NEW s \in SUBSET S, Cardinality(s) <= n + 1 PROVE s \in T
        BY <1>4
    <2>1. \A r \in SUBSET s : r # s => r \in SUBSET S /\ Cardinality(r) <= n
        BY <1>1, <1>2
    <2> QED BY <1>4, <2>1
<1> HIDE DEF N
<1>5. \A n \in Nat : n \in N
    BY <1>3, <1>4, NaturalNumbers
<1> QED BY <1>1, <1>5 DEF N

(* g is the table of a fold: what it gives for each subset of S.           *)
FoldTable(S, base, pick, step, g) ==
    \A s \in SUBSET S : g[s] = IF s = {} THEN base ELSE step[<<pick[s], g[s \ {pick[s]}]>>]

(* The function a fold over the subsets of a finite set defines exists.    *)
LEMMA FoldExists ==
    ASSUME NEW S, IsFiniteSet(S), NEW A, NEW base \in A,
           NEW pick, \A s \in SUBSET S : s # {} => pick[s] \in s,
           NEW step, \A x \in S, a \in A : step[<<x, a>>] \in A
    PROVE  \E g \in [SUBSET S -> A] : FoldTable(S, base, pick, step, g)
<1> DEFINE D(n) == {s \in SUBSET S : Cardinality(s) <= n}
           Eq(g, s) == g[s] = IF s = {} THEN base ELSE step[<<pick[s], g[s \ {pick[s]}]>>]
           N == {n \in Nat : \E g \in [D(n) -> A] : \A s \in D(n) : Eq(g, s)}
<1>1. \A s \in SUBSET S : IsFiniteSet(s) /\ Cardinality(s) \in Nat
    BY FS_Subset, FS_CardinalityType
<1>2. \A s \in SUBSET S : s # {} => s \ {pick[s]} \in SUBSET S /\ Cardinality(s \ {pick[s]}) = Cardinality(s) - 1
    BY <1>1, FS_RemoveElement
<1>3. \A s \in SUBSET S : Cardinality(s) <= 0 => s = {}
    BY <1>1, FS_EmptySet
<1>4. 0 \in N
    <2>1. [s \in D(0) |-> base] \in [D(0) -> A] /\ \A s \in D(0) : Eq([r \in D(0) |-> base], s)
        BY <1>3
    <2> QED BY <2>1
<1>5. ASSUME NEW n \in Nat, n \in N PROVE n + 1 \in N
    <2>1. PICK g \in [D(n) -> A] : \A s \in D(n) : Eq(g, s)
        BY <1>5
    <2> DEFINE h == [s \in D(n + 1) |-> IF Cardinality(s) <= n THEN g[s] ELSE step[<<pick[s], g[s \ {pick[s]}]>>]]
    <2>2. \A s \in D(n + 1) : s # {} => s \ {pick[s]} \in D(n)
        BY <1>1, <1>2
    <2>3. {} \in D(n)
        BY FS_EmptySet
    <2>4. h \in [D(n + 1) -> A]
        BY <1>1, <2>1, <2>2, <2>3
    <2>5. \A s \in D(n) : s \in D(n + 1) /\ h[s] = g[s]
        BY <1>1
    <2>6. \A s \in D(n + 1) : Eq(h, s)
        <3> SUFFICES ASSUME NEW s \in D(n + 1) PROVE Eq(h, s)
            OBVIOUS
        <3>1. s # {} => h[s \ {pick[s]}] = g[s \ {pick[s]}]
            BY <2>2, <2>5
        <3>2. CASE s \in D(n)
            <4>1. Eq(g, s) /\ h[s] = g[s]
                BY <2>1, <2>5, <3>2
            <4> HIDE DEF h
            <4> QED BY <3>1, <4>1
        <3>3. CASE s \notin D(n)
            <4>1. s # {} /\ h[s] = step[<<pick[s], g[s \ {pick[s]}]>>]
                BY <2>3, <3>3
            <4> HIDE DEF h
            <4> QED BY <3>1, <4>1
        <3> QED BY <3>2, <3>3
    <2> HIDE DEF h, D, Eq
    <2> QED BY <2>4, <2>6
<1> HIDE DEF N
<1>6. \A n \in Nat : n \in N
    BY <1>4, <1>5, NaturalNumbers
<1>7. D(Cardinality(S)) = SUBSET S /\ Cardinality(S) \in Nat
    BY <1>1, FS_Subset
<1>8. PICK g \in [SUBSET S -> A] : \A s \in SUBSET S : Eq(g, s)
    <2> HIDE DEF D, Eq
    <2>1. Cardinality(S) \in N
        BY <1>6, <1>7
    <2>2. PICK g \in [D(Cardinality(S)) -> A] : \A s \in D(Cardinality(S)) : Eq(g, s)
        BY <2>1 DEF N
    <2> QED BY <1>7, <2>2
<1> QED BY <1>8 DEF FoldTable

-----------------------------------------------------------------------------
(* One element, chosen as the library does.                                *)
AnyOf(s) == CHOOSE x \in s : TRUE

(* g is the table of the sums of w over the subsets of S.                  *)
SumTable(w, S, g) ==
    g = [s \in SUBSET S |-> IF s = {} THEN 0 ELSE w[AnyOf(s)] + g[s \ {AnyOf(s)}]]

IntegersOn(w, S) == \A x \in S : w[x] \in Int

LEMMA AnyOfIn == \A s : s # {} => AnyOf(s) \in s
BY DEF AnyOf

LEMMA SumTableExists ==
    ASSUME NEW S, IsFiniteSet(S), NEW w, IntegersOn(w, S)
    PROVE  \E g : SumTable(w, S, g) /\ SumFunctionOnSet(w, S) = g[S]
<1> DEFINE pick == [s \in SUBSET S |-> AnyOf(s)]
           step == [xa \in S \X Int |-> w[xa[1]] + xa[2]]
<1>1. \A s \in SUBSET S : s # {} => pick[s] \in s
    BY AnyOfIn
<1>2. \A x \in S, a \in Int : step[<<x, a>>] \in Int /\ step[<<x, a>>] = w[x] + a
    BY DEF IntegersOn
<1>3. \A s \in SUBSET S : pick[s] = AnyOf(s)
    OBVIOUS
<1> HIDE DEF pick, step
<1>4. PICK g \in [SUBSET S -> Int] : FoldTable(S, 0, pick, step, g)
    <2>1. \A x \in S, a \in Int : step[<<x, a>>] \in Int
        BY <1>2
    <2>2. 0 \in Int
        OBVIOUS
    <2> QED BY <1>1, <2>1, <2>2, FoldExists
<1>5. ASSUME NEW s \in SUBSET S
      PROVE g[s] = IF s = {} THEN 0 ELSE w[AnyOf(s)] + g[s \ {AnyOf(s)}]
    <2>1. g[s] = IF s = {} THEN 0 ELSE step[<<pick[s], g[s \ {pick[s]}]>>]
        BY <1>4 DEF FoldTable
    <2>2. s \ {AnyOf(s)} \in SUBSET S /\ g[s \ {AnyOf(s)}] \in Int
        OBVIOUS
    <2> QED BY AnyOfIn, <1>2, <1>3, <2>1, <2>2
<1>6. SumTable(w, S, g)
    BY <1>5 DEF SumTable
<1>7. SumTable(w, S, CHOOSE h : SumTable(w, S, h))
    BY <1>6
<1>8. SumFunctionOnSet(w, S) = (CHOOSE h : SumTable(w, S, h))[S]
    BY DEF SumFunctionOnSet, FoldFunctionOnSet, MapThenFoldSet, SumTable, AnyOf
<1> QED BY <1>7, <1>8

(* In whichever order it adds, a table adds every element once.            *)
LEMMA SumTableAdds ==
    ASSUME NEW S, IsFiniteSet(S), NEW w, IntegersOn(w, S), NEW g, SumTable(w, S, g)
    PROVE  /\ g[{}] = 0
           /\ \A s \in SUBSET S : g[s] \in Int /\ \A x \in s : g[s] = g[s \ {x}] + w[x]
<1> DEFINE Good(s) == g[s] \in Int /\ \A x \in s : g[s] = g[s \ {x}] + w[x]
           T == {s \in SUBSET S : Good(s)}
<1>1. \A s \in SUBSET S : g[s] = IF s = {} THEN 0 ELSE w[AnyOf(s)] + g[s \ {AnyOf(s)}]
    BY DEF SumTable
<1>2. ASSUME NEW s \in SUBSET S, \A r \in SUBSET s : r # s => r \in T PROVE s \in T
    <2>1. CASE s = {}
        <3>1. g[s] = 0
            BY <1>1, <2>1
        <3> QED BY <2>1, <3>1
    <2>2. CASE s # {}
        <3> DEFINE c == AnyOf(s)
        <3>1. c \in s /\ g[s] = w[c] + g[s \ {c}]
            BY <1>1, <2>2, AnyOfIn
        <3> HIDE DEF c
        <3>2. \A x \in s : Good(s \ {x}) /\ w[x] \in Int
            BY <1>2 DEF IntegersOn
        <3>0. \A x \in s : g[s \ {x}] \in Int /\ w[x] \in Int
            BY <3>2
        <3>3. g[s] \in Int
            <4>1. g[s \ {c}] \in Int /\ w[c] \in Int
                BY <3>0, <3>1
            <4> QED BY <3>1, <4>1
        <3>4. ASSUME NEW x \in s PROVE g[s] = g[s \ {x}] + w[x]
            <4>0. g[s \ {c}] \in Int /\ w[c] \in Int /\ g[s \ {x}] \in Int /\ w[x] \in Int
                BY <3>0, <3>1
            <4>1. CASE x = c
                BY <3>1, <4>0, <4>1
            <4>2. CASE x # c
                <5> DEFINE r == (s \ {x}) \ {c}
                <5>1. x \in s \ {c} /\ c \in s \ {x} /\ (s \ {c}) \ {x} = r
                    BY <3>1, <4>2
                <5>2. g[s \ {c}] = g[r] + w[x] /\ g[s \ {x}] = g[r] + w[c]
                    BY <3>1, <3>2, <5>1
                <5>3. r \in SUBSET s /\ r # s
                    BY <3>1
                <5>4. g[r] \in Int
                    BY <1>2, <5>3
                <5> HIDE DEF r
                <5> QED BY <3>1, <4>0, <5>2, <5>4
            <4> QED BY <4>1, <4>2
        <3> QED BY <3>3, <3>4
    <2> QED BY <2>1, <2>2
<1> HIDE DEF T
<1>3. \A s \in SUBSET S : s \in T
    BY <1>2, SubsetsBySize
<1> QED BY <1>1, <1>3 DEF T

(* Tables of functions that agree, agree.                                  *)
LEMMA SumTablesAgree ==
    ASSUME NEW S, IsFiniteSet(S), NEW R \in SUBSET S, NEW w, NEW v, IntegersOn(w, S), \A x \in R : v[x] = w[x],
           NEW g, SumTable(w, S, g), NEW h, SumTable(v, R, h)
    PROVE  h[R] = g[R]
<1> DEFINE T == {s \in SUBSET R : h[s] = g[s]}
<1>0. IsFiniteSet(R)
    BY FS_Subset
<1>1. \A s \in SUBSET R : /\ g[s] = IF s = {} THEN 0 ELSE w[AnyOf(s)] + g[s \ {AnyOf(s)}]
                          /\ h[s] = IF s = {} THEN 0 ELSE v[AnyOf(s)] + h[s \ {AnyOf(s)}]
    BY DEF SumTable
<1>2. ASSUME NEW s \in SUBSET R, \A r \in SUBSET s : r # s => r \in T PROVE s \in T
    <2>1. s # {} => v[AnyOf(s)] = w[AnyOf(s)] /\ h[s \ {AnyOf(s)}] = g[s \ {AnyOf(s)}]
        BY <1>2, AnyOfIn
    <2>2. h[s] = g[s]
        BY <1>1, <2>1
    <2> QED BY <2>2
<1> HIDE DEF T
<1>3. \A s \in SUBSET R : s \in T
    BY <1>0, <1>2, SubsetsBySize
<1> QED BY <1>3 DEF T

-----------------------------------------------------------------------------
(* The facts the ledgers need.                                             *)
LEMMA SumNone == \A w : SumFunctionOnSet(w, {}) = 0
<1> SUFFICES ASSUME NEW w PROVE SumFunctionOnSet(w, {}) = 0
    OBVIOUS
<1>1. IsFiniteSet({}) /\ IntegersOn(w, {})
    BY FS_EmptySet DEF IntegersOn
<1>2. PICK g : SumTable(w, {}, g) /\ SumFunctionOnSet(w, {}) = g[{}]
    BY <1>1, SumTableExists
<1> QED BY <1>1, <1>2, SumTableAdds

LEMMA SumIsInt ==
    ASSUME NEW S, IsFiniteSet(S), NEW w, IntegersOn(w, S)
    PROVE  SumFunctionOnSet(w, S) \in Int
<1>1. PICK g : SumTable(w, S, g) /\ SumFunctionOnSet(w, S) = g[S]
    BY SumTableExists
<1> QED BY <1>1, SumTableAdds

LEMMA SumSame ==
    ASSUME NEW S, IsFiniteSet(S), NEW w, NEW v, IntegersOn(w, S), \A x \in S : v[x] = w[x]
    PROVE  SumFunctionOnSet(v, S) = SumFunctionOnSet(w, S)
<1>1. IntegersOn(v, S)
    BY DEF IntegersOn
<1>2. PICK g : SumTable(w, S, g) /\ SumFunctionOnSet(w, S) = g[S]
    BY SumTableExists
<1>3. PICK h : SumTable(v, S, h) /\ SumFunctionOnSet(v, S) = h[S]
    BY <1>1, SumTableExists
<1> QED BY <1>2, <1>3, SumTablesAgree

LEMMA SumRemove ==
    ASSUME NEW S, IsFiniteSet(S), NEW w, IntegersOn(w, S), NEW x \in S
    PROVE  SumFunctionOnSet(w, S) = SumFunctionOnSet(w, S \ {x}) + w[x]
<1> DEFINE R == S \ {x}
<1>0. IsFiniteSet(R) /\ IntegersOn(w, R) /\ R \in SUBSET S
    BY FS_Subset DEF IntegersOn
<1> HIDE DEF R
<1>1. PICK g : SumTable(w, S, g) /\ SumFunctionOnSet(w, S) = g[S]
    BY SumTableExists
<1>2. PICK h : SumTable(w, R, h) /\ SumFunctionOnSet(w, R) = h[R]
    BY <1>0, SumTableExists
<1>3. h[R] = g[R]
    BY <1>0, <1>1, <1>2, SumTablesAgree
<1>4. g[S] = g[S \ {x}] + w[x]
    BY <1>1, SumTableAdds
<1> QED BY <1>1, <1>2, <1>3, <1>4 DEF R

LEMMA SumAdd ==
    ASSUME NEW S, IsFiniteSet(S), NEW x, x \notin S, NEW w, IntegersOn(w, S \cup {x})
    PROVE  /\ SumFunctionOnSet(w, S) \in Int /\ w[x] \in Int
           /\ SumFunctionOnSet(w, S \cup {x}) = SumFunctionOnSet(w, S) + w[x]
<1>1. IsFiniteSet(S \cup {x}) /\ x \in S \cup {x} /\ (S \cup {x}) \ {x} = S
    BY FS_AddElement
<1>2. IntegersOn(w, S) /\ w[x] \in Int
    BY DEF IntegersOn
<1>3. SumFunctionOnSet(w, S) \in Int
    BY <1>2, SumIsInt
<1>4. SumFunctionOnSet(w, S \cup {x}) = SumFunctionOnSet(w, S) + w[x]
    BY <1>1, SumRemove
<1> QED BY <1>2, <1>3, <1>4

(* Induction over a finite set, one element at a time.                     *)
LEMMA OneAtATime ==
    ASSUME NEW S, IsFiniteSet(S), NEW T, {} \in T,
           \A s \in SUBSET S : s \in T => \A x \in S \ s : s \cup {x} \in T
    PROVE  S \in T
<1>1. ASSUME NEW s \in SUBSET S, \A r \in SUBSET s : r # s => r \in T PROVE s \in T
    <2>1. CASE s = {}
        BY <2>1
    <2>2. CASE s # {}
        <3>1. PICK x \in s : TRUE
            BY <2>2
        <3>2. s \ {x} \in SUBSET S /\ s \ {x} \in T /\ x \in S \ (s \ {x}) /\ (s \ {x}) \cup {x} = s
            BY <1>1
        <3> QED BY <3>2
    <2> QED BY <2>1, <2>2
<1> QED BY <1>1, SubsetsBySize

LEMMA SumNatural ==
    ASSUME NEW S, IsFiniteSet(S), NEW w, \A x \in S : w[x] \in Nat
    PROVE  SumFunctionOnSet(w, S) \in Nat
<1> DEFINE T == {s \in SUBSET S : SumFunctionOnSet(w, s) \in Nat}
<1>1. {} \in T
    BY SumNone
<1>2. ASSUME NEW s \in SUBSET S, s \in T, NEW x \in S \ s PROVE s \cup {x} \in T
    <2>1. IsFiniteSet(s) /\ IntegersOn(w, s \cup {x})
        BY FS_Subset DEF IntegersOn
    <2>2. SumFunctionOnSet(w, s \cup {x}) = SumFunctionOnSet(w, s) + w[x]
        BY <2>1, SumAdd
    <2> QED BY <1>2, <2>2
<1> HIDE DEF T
<1>3. S \in T
    BY <1>1, <1>2, OneAtATime
<1> QED BY <1>3 DEF T

LEMMA SumZero ==
    ASSUME NEW S, IsFiniteSet(S), NEW w, \A x \in S : w[x] = 0
    PROVE  SumFunctionOnSet(w, S) = 0
<1> DEFINE T == {s \in SUBSET S : SumFunctionOnSet(w, s) = 0}
<1>1. {} \in T
    BY SumNone
<1>2. ASSUME NEW s \in SUBSET S, s \in T, NEW x \in S \ s PROVE s \cup {x} \in T
    <2>1. IsFiniteSet(s) /\ IntegersOn(w, s \cup {x})
        BY FS_Subset DEF IntegersOn
    <2>2. SumFunctionOnSet(w, s \cup {x}) = SumFunctionOnSet(w, s) + w[x]
        BY <2>1, SumAdd
    <2> QED BY <1>2, <2>2
<1> HIDE DEF T
<1>3. S \in T
    BY <1>1, <1>2, OneAtATime
<1> QED BY <1>3 DEF T

(* Only one element counts.                                                *)
LEMMA SumOnly ==
    ASSUME NEW S, IsFiniteSet(S), NEW w, NEW x \in S, w[x] \in Int, \A y \in S \ {x} : w[y] = 0
    PROVE  SumFunctionOnSet(w, S) = w[x]
<1>1. IsFiniteSet(S \ {x}) /\ IntegersOn(w, S)
    BY FS_Subset DEF IntegersOn
<1>2. SumFunctionOnSet(w, S \ {x}) = 0
    BY <1>1, SumZero
<1>3. SumFunctionOnSet(w, S) = SumFunctionOnSet(w, S \ {x}) + w[x]
    BY <1>1, SumRemove
<1> QED BY <1>2, <1>3

LEMMA SumOne ==
    ASSUME NEW w, NEW x, w[x] \in Int
    PROVE  SumFunctionOnSet(w, {x}) = w[x]
<1>1. IsFiniteSet({x}) /\ {x} \ {x} = {}
    BY FS_EmptySet, FS_Singleton
<1> QED BY <1>1, SumOnly

LEMMA SumPlus ==
    ASSUME NEW S, IsFiniteSet(S), NEW w, NEW v, NEW u, IntegersOn(w, S), IntegersOn(v, S),
           \A x \in S : u[x] = w[x] + v[x]
    PROVE  SumFunctionOnSet(u, S) = SumFunctionOnSet(w, S) + SumFunctionOnSet(v, S)
<1> DEFINE T == {s \in SUBSET S : SumFunctionOnSet(u, s) = SumFunctionOnSet(w, s) + SumFunctionOnSet(v, s)}
<1>1. {} \in T
    BY SumNone
<1>2. ASSUME NEW s \in SUBSET S, s \in T, NEW x \in S \ s PROVE s \cup {x} \in T
    <2>1. /\ IsFiniteSet(s) /\ IntegersOn(w, s \cup {x}) /\ IntegersOn(v, s \cup {x}) /\ IntegersOn(u, s \cup {x})
          /\ IntegersOn(w, s) /\ IntegersOn(v, s)
        BY FS_Subset DEF IntegersOn
    <2>2. /\ SumFunctionOnSet(w, s \cup {x}) = SumFunctionOnSet(w, s) + w[x]
          /\ SumFunctionOnSet(v, s \cup {x}) = SumFunctionOnSet(v, s) + v[x]
          /\ SumFunctionOnSet(u, s \cup {x}) = SumFunctionOnSet(u, s) + u[x]
        BY <2>1, SumAdd
    <2>3. /\ SumFunctionOnSet(w, s) \in Int /\ SumFunctionOnSet(v, s) \in Int /\ w[x] \in Int /\ v[x] \in Int
          /\ u[x] = w[x] + v[x] /\ SumFunctionOnSet(u, s) = SumFunctionOnSet(w, s) + SumFunctionOnSet(v, s)
        BY <1>2, <2>1, SumIsInt DEF IntegersOn
    <2> QED BY <2>2, <2>3
<1> HIDE DEF T
<1>3. S \in T
    BY <1>1, <1>2, OneAtATime
<1> QED BY <1>3 DEF T

LEMMA SumUnion ==
    ASSUME NEW S, NEW R, IsFiniteSet(S), IsFiniteSet(R), S \cap R = {}, NEW w, IntegersOn(w, S \cup R)
    PROVE  SumFunctionOnSet(w, S \cup R) = SumFunctionOnSet(w, S) + SumFunctionOnSet(w, R)
<1> DEFINE T == {s \in SUBSET R : SumFunctionOnSet(w, S \cup s) = SumFunctionOnSet(w, S) + SumFunctionOnSet(w, s)}
<1>0. IntegersOn(w, S) /\ SumFunctionOnSet(w, S) \in Int
    <2>1. IntegersOn(w, S)
        BY DEF IntegersOn
    <2> QED BY <2>1, SumIsInt
<1>1. {} \in T
    <2>1. S \cup {} = S
        OBVIOUS
    <2> QED BY <1>0, <2>1, SumNone
<1>2. ASSUME NEW s \in SUBSET R, s \in T, NEW x \in R \ s PROVE s \cup {x} \in T
    <2>1. /\ IsFiniteSet(s) /\ IntegersOn(w, s \cup {x}) /\ IntegersOn(w, s) /\ w[x] \in Int
          /\ IntegersOn(w, (S \cup s) \cup {x}) /\ x \notin S \cup s /\ S \cup (s \cup {x}) = (S \cup s) \cup {x}
        BY FS_Subset DEF IntegersOn
    <2>2. IsFiniteSet(S \cup s)
        BY <2>1, FS_Union
    <2>3. /\ SumFunctionOnSet(w, s \cup {x}) = SumFunctionOnSet(w, s) + w[x]
          /\ SumFunctionOnSet(w, (S \cup s) \cup {x}) = SumFunctionOnSet(w, S \cup s) + w[x]
        BY <2>1, <2>2, SumAdd
    <2>4. SumFunctionOnSet(w, s) \in Int
        BY <2>1, SumIsInt
    <2>5. SumFunctionOnSet(w, S \cup s) = SumFunctionOnSet(w, S) + SumFunctionOnSet(w, s)
        BY <1>2
    <2>6. SumFunctionOnSet(w, S \cup (s \cup {x})) = SumFunctionOnSet(w, S) + SumFunctionOnSet(w, s \cup {x})
        <3> DEFINE U == (S \cup s) \cup {x}
        <3>1. S \cup (s \cup {x}) = U /\ SumFunctionOnSet(w, U) = SumFunctionOnSet(w, S \cup s) + w[x]
            BY <2>1, <2>3
        <3> HIDE DEF U
        <3>2. w[x] \in Int
            BY <2>1
        <3>3. SumFunctionOnSet(w, s \cup {x}) = SumFunctionOnSet(w, s) + w[x]
            BY <2>3
        <3>4. SumFunctionOnSet(w, U) = SumFunctionOnSet(w, S) + SumFunctionOnSet(w, s) + w[x]
            BY <2>5, <3>1
        <3>5. SumFunctionOnSet(w, U) = SumFunctionOnSet(w, S) + SumFunctionOnSet(w, s \cup {x})
            BY <1>0, <2>4, <3>2, <3>3, <3>4
        <3> QED BY <3>1, <3>5
    <2> QED BY <2>6
<1> HIDE DEF T
<1>3. R \in T
    BY <1>1, <1>2, OneAtATime
<1> QED BY <1>3 DEF T

(* A table of numbers by rows (m) and by columns (n); a[x] sums the row x, *)
(* b[y] the column y.                                                      *)
Matrix(S, R, m, n, a, b) ==
    /\ \A x \in S, y \in R : m[x][y] \in Int /\ n[y][x] = m[x][y]
    /\ \A x \in S : a[x] = SumFunctionOnSet(m[x], R)
    /\ \A y \in R : b[y] = SumFunctionOnSet(n[y], S)

(* The sum of a sum may be taken in either order.                          *)
LEMMA SumExchange ==
    ASSUME NEW S, NEW R, IsFiniteSet(S), IsFiniteSet(R), NEW m, NEW n, NEW a, NEW b, Matrix(S, R, m, n, a, b)
    PROVE  SumFunctionOnSet(a, S) = SumFunctionOnSet(b, R)
<1> USE DEF Matrix
<1> DEFINE part(s) == [y \in R |-> SumFunctionOnSet(n[y], s)]
           T == {s \in SUBSET S : SumFunctionOnSet(a, s) = SumFunctionOnSet(part(s), R)}
<1>0. /\ \A x \in S : IntegersOn(m[x], R) /\ a[x] \in Int
      /\ \A s \in SUBSET S : IsFiniteSet(s) /\ IntegersOn(a, s) /\ IntegersOn(part(s), R)
      /\ \A s \in SUBSET S, y \in R : IntegersOn(n[y], s) /\ part(s)[y] = SumFunctionOnSet(n[y], s)
    <2>1. \A x \in S : IntegersOn(m[x], R)
        BY DEF IntegersOn
    <2>2. \A x \in S : a[x] \in Int
        BY <2>1, SumIsInt
    <2>3. \A s \in SUBSET S, y \in R : IntegersOn(n[y], s) /\ IsFiniteSet(s)
        BY FS_Subset DEF IntegersOn
    <2>4. \A s \in SUBSET S, y \in R : SumFunctionOnSet(n[y], s) \in Int
        BY <2>3, SumIsInt
    <2>5. \A s \in SUBSET S : IntegersOn(part(s), R)
        BY <2>4 DEF IntegersOn
    <2>6. \A s \in SUBSET S : IsFiniteSet(s) /\ IntegersOn(a, s)
        BY <2>2, FS_Subset DEF IntegersOn
    <2> QED BY <2>1, <2>2, <2>3, <2>5, <2>6
<1>1. {} \in T
    <2>1. \A y \in R : part({})[y] = 0
        BY SumNone
    <2> HIDE DEF part
    <2>2. SumFunctionOnSet(part({}), R) = 0
        BY <2>1, SumZero
    <2> QED BY <2>2, SumNone
<1> HIDE DEF part
<1>2. ASSUME NEW s \in SUBSET S, s \in T, NEW x \in S \ s PROVE s \cup {x} \in T
    <2>1. s \cup {x} \in SUBSET S /\ x \notin s
        OBVIOUS
    <2>2. SumFunctionOnSet(a, s \cup {x}) = SumFunctionOnSet(a, s) + a[x]
        <3>1. IsFiniteSet(s) /\ IntegersOn(a, s \cup {x})
            BY <1>0, <2>1
        <3>2. a[x] \in Int /\ SumFunctionOnSet(a, s) \in Int
            BY <1>0, SumIsInt
        <3> QED BY <2>1, <3>1, <3>2, SumAdd
    <2>3. \A y \in R : part(s \cup {x})[y] = part(s)[y] + m[x][y]
        <3> TAKE y \in R
        <3>1. SumFunctionOnSet(n[y], s \cup {x}) = SumFunctionOnSet(n[y], s) + n[y][x]
            <4>1. IsFiniteSet(s) /\ IntegersOn(n[y], s \cup {x})
                BY <1>0, <2>1
            <4>2. n[y][x] \in Int /\ SumFunctionOnSet(n[y], s) \in Int
                BY <1>0, SumIsInt
            <4> DEFINE c == n[y]
            <4>3. IsFiniteSet(s) /\ IntegersOn(c, s \cup {x}) /\ c[x] \in Int /\ SumFunctionOnSet(c, s) \in Int
                BY <4>1, <4>2
            <4> HIDE DEF c
            <4>4. SumFunctionOnSet(c, s \cup {x}) = SumFunctionOnSet(c, s) + c[x]
                BY <2>1, <4>3, SumAdd
            <4> QED BY <4>4 DEF c
        <3> QED BY <1>0, <2>1, <3>1
    <2>4. SumFunctionOnSet(part(s \cup {x}), R) = SumFunctionOnSet(part(s), R) + SumFunctionOnSet(m[x], R)
        <3>1. IntegersOn(part(s), R) /\ IntegersOn(m[x], R)
            BY <1>0
        <3> DEFINE u == part(s \cup {x})
                   w == part(s)
                   v == m[x]
        <3>2. \A y \in R : u[y] = w[y] + v[y]
            BY <2>3
        <3>3. IntegersOn(w, R) /\ IntegersOn(v, R)
            BY <3>1
        <3> HIDE DEF u, w, v
        <3>4. SumFunctionOnSet(u, R) = SumFunctionOnSet(w, R) + SumFunctionOnSet(v, R)
            BY <3>2, <3>3, SumPlus
        <3> QED BY <3>4 DEF u, w, v
    <2>5. SumFunctionOnSet(a, s) = SumFunctionOnSet(part(s), R)
        BY <1>2
    <2> QED BY <2>1, <2>2, <2>4, <2>5
<1> HIDE DEF T
<1>3. S \in T
    BY <1>1, <1>2, OneAtATime
<1>4. SumFunctionOnSet(part(S), R) = SumFunctionOnSet(b, R)
    <2>1. \A y \in R : b[y] = part(S)[y]
        BY <1>0
    <2>2. IntegersOn(part(S), R)
        BY <1>0
    <2> QED BY <2>1, <2>2, SumSame
<1> QED BY <1>3, <1>4 DEF T

(* Sums over the positions of sequences.                                   *)
LEMMA SumLast ==
    ASSUME NEW n \in Nat, NEW w, IntegersOn(w, 1..(n + 1))
    PROVE  /\ SumFunctionOnSet(w, 1..n) \in Int
           /\ SumFunctionOnSet(w, 1..(n + 1)) = SumFunctionOnSet(w, 1..n) + w[n + 1]
<1>1. /\ 1..(n + 1) = (1..n) \cup {n + 1} /\ n + 1 \notin 1..n
      /\ IntegersOn(w, 1..n) /\ IsFiniteSet(1..n)
    <2>1. 1..(n + 1) = (1..n) \cup {n + 1} /\ n + 1 \notin 1..n
        OBVIOUS
    <2>2. IntegersOn(w, 1..n)
        BY DEF IntegersOn
    <2>3. IsFiniteSet(1..n)
        BY FS_Interval
    <2> QED BY <2>1, <2>2, <2>3
<1>2. IntegersOn(w, (1..n) \cup {n + 1})
    BY <1>1, Zenon
<1>3. SumFunctionOnSet(w, (1..n) \cup {n + 1}) = SumFunctionOnSet(w, 1..n) + w[n + 1]
    <2>1. n + 1 \notin 1..n /\ IsFiniteSet(1..n)
        BY <1>1
    <2> QED BY <1>2, <2>1, SumAdd, Zenon
<1>4. SumFunctionOnSet(w, 1..n) \in Int
    BY <1>1, SumIsInt
<1> QED BY <1>1, <1>3, <1>4

LEMMA SumConcat ==
    ASSUME NEW m \in Nat, NEW n \in Nat, NEW f, NEW g, NEW h, IntegersOn(g, 1..m), IntegersOn(h, 1..n),
           \A i \in 1..m : f[i] = g[i], \A i \in 1..n : f[m + i] = h[i]
    PROVE  SumFunctionOnSet(f, 1..(m + n)) = SumFunctionOnSet(g, 1..m) + SumFunctionOnSet(h, 1..n)
<1> DEFINE T == {k \in Nat : k <= n =>
                    SumFunctionOnSet(f, 1..(m + k)) = SumFunctionOnSet(g, 1..m) + SumFunctionOnSet(h, 1..k)}
<1>0. IsFiniteSet(1..m) /\ SumFunctionOnSet(g, 1..m) \in Int
    BY FS_Interval, SumIsInt
<1>1. 0 \in T
    <2>1. SumFunctionOnSet(f, 1..m) = SumFunctionOnSet(g, 1..m)
        BY <1>0, SumSame
    <2>2. 1..0 = {} /\ m + 0 = m
        OBVIOUS
    <2> QED BY <1>0, <2>1, <2>2, SumNone
<1>2. ASSUME NEW k \in Nat, k \in T PROVE k + 1 \in T
    <2> SUFFICES ASSUME k + 1 <= n
                 PROVE  SumFunctionOnSet(f, 1..(m + (k + 1)))
                            = SumFunctionOnSet(g, 1..m) + SumFunctionOnSet(h, 1..(k + 1))
        OBVIOUS
    <2>1. IntegersOn(h, 1..(k + 1)) /\ h[k + 1] \in Int
        BY DEF IntegersOn
    <2>2. SumFunctionOnSet(h, 1..k) \in Int /\ SumFunctionOnSet(h, 1..(k + 1)) = SumFunctionOnSet(h, 1..k) + h[k + 1]
        BY <2>1, SumLast
    <2>3. IntegersOn(f, 1..((m + k) + 1)) /\ m + k \in Nat
        <3>1. ASSUME NEW i \in 1..((m + k) + 1) PROVE f[i] \in Int
            <4>1. CASE i <= m
                BY <4>1 DEF IntegersOn
            <4>2. CASE i > m
                <5>1. i - m \in 1..n /\ i = m + (i - m)
                    BY <4>2
                <5>2. f[m + (i - m)] = h[i - m] /\ h[i - m] \in Int
                    BY <5>1 DEF IntegersOn
                <5> QED BY <5>1, <5>2
            <4> QED BY <4>1, <4>2
        <3> QED BY <3>1 DEF IntegersOn
    <2>4. SumFunctionOnSet(f, 1..((m + k) + 1)) = SumFunctionOnSet(f, 1..(m + k)) + f[(m + k) + 1]
        BY <2>3, SumLast
    <2>5. f[(m + k) + 1] = h[k + 1] /\ m + (k + 1) = (m + k) + 1
        <3>1. k + 1 \in 1..n
            OBVIOUS
        <3>2. m + (k + 1) = (m + k) + 1
            OBVIOUS
        <3>3. f[m + (k + 1)] = h[k + 1]
            BY <3>1
        <3> QED BY <3>2, <3>3
    <2>6. SumFunctionOnSet(f, 1..(m + k)) = SumFunctionOnSet(g, 1..m) + SumFunctionOnSet(h, 1..k)
        BY <1>2
    <2> QED BY <1>0, <2>1, <2>2, <2>4, <2>5, <2>6
<1> HIDE DEF T
<1>3. n \in T
    BY <1>1, <1>2, NaturalNumbers
<1> QED BY <1>3 DEF T

LEMMA SumTwo ==
    ASSUME NEW w, w[1] \in Int, w[2] \in Int
    PROVE  SumFunctionOnSet(w, 1..2) = w[1] + w[2]
<1>1. IntegersOn(w, 1..(1 + 1)) /\ 1..1 = {1} /\ 1 + 1 = 2
    BY DEF IntegersOn
<1>2. SumFunctionOnSet(w, 1..(1 + 1)) = SumFunctionOnSet(w, 1..1) + w[1 + 1]
    BY <1>1, SumLast
<1> QED BY <1>1, <1>2, SumOne

LEMMA SumThree ==
    ASSUME NEW w, w[1] \in Int, w[2] \in Int, w[3] \in Int
    PROVE  SumFunctionOnSet(w, 1..3) = w[1] + w[2] + w[3]
<1>1. IntegersOn(w, 1..(2 + 1)) /\ 2 + 1 = 3
    BY DEF IntegersOn
<1>2. SumFunctionOnSet(w, 1..(2 + 1)) = SumFunctionOnSet(w, 1..2) + w[2 + 1]
    BY <1>1, SumLast
<1> QED BY <1>1, <1>2, SumTwo

LEMMA SumFour ==
    ASSUME NEW w, w[1] \in Int, w[2] \in Int, w[3] \in Int, w[4] \in Int
    PROVE  SumFunctionOnSet(w, 1..4) = w[1] + w[2] + w[3] + w[4]
<1>1. IntegersOn(w, 1..(3 + 1)) /\ 3 + 1 = 4
    BY DEF IntegersOn
<1>2. SumFunctionOnSet(w, 1..(3 + 1)) = SumFunctionOnSet(w, 1..3) + w[3 + 1]
    BY <1>1, SumLast
<1> QED BY <1>1, <1>2, SumThree

(* The image of a finite set under a function is finite.                   *)
LEMMA ImageFinite ==
    ASSUME NEW S, IsFiniteSet(S), NEW f
    PROVE  IsFiniteSet({f[x] : x \in S}) /\ Cardinality({f[x] : x \in S}) <= Cardinality(S)
<1> DEFINE T == {f[x] : x \in S}
           g == [x \in S |-> f[x]]
<1>1. g \in Surjection(S, T)
    BY DEF Surjection
<1> HIDE DEF g, T
<1>2. IsFiniteSet(T) /\ Cardinality(T) <= Cardinality(S)
    BY <1>1, FS_Surjection
<1> QED BY <1>2 DEF T

(* A finite set of numbers has a largest one.                              *)
LEMMA LargestExists ==
    ASSUME NEW S, IsFiniteSet(S), S \subseteq Int, S # {}
    PROVE  \E x \in S : \A y \in S : x >= y
<1> DEFINE T == {s \in SUBSET S : s # {} => \E x \in s : \A y \in s : x >= y}
<1>1. {} \in T
    OBVIOUS
<1>2. ASSUME NEW s \in SUBSET S, s \in T, NEW z \in S \ s PROVE s \cup {z} \in T
    <2>1. CASE s = {}
        <3>1. z \in Int /\ s \cup {z} = {z}
            BY <2>1
        <3> QED BY <3>1
    <2>2. CASE s # {}
        <3>1. PICK x \in s : \A y \in s : x >= y
            BY <1>2, <2>2
        <3>2. CASE x >= z
            BY <3>1, <3>2
        <3>3. CASE ~(x >= z)
            <4>1. x \in Int /\ z \in Int /\ \A y \in s : y \in Int
                OBVIOUS
            <4>2. \A y \in s \cup {z} : z >= y
                BY <3>1, <3>3, <4>1
            <4> QED BY <4>2
        <3> QED BY <3>2, <3>3
    <2> QED BY <2>1, <2>2
<1> HIDE DEF T
<1>3. S \in T
    BY <1>1, <1>2, OneAtATime
<1> QED BY <1>3 DEF T
=============================================================================
