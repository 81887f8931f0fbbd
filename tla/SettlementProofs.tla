-------------------------- MODULE SettlementProofs --------------------------
(***************************************************************************)
(* Proofs about the settlement plane: for any quotes, parties, policies,   *)
(* charges, meters and posting sets, and however the parts interleave.     *)
(***************************************************************************)
EXTENDS SettlementPlane, SumTheorems

-----------------------------------------------------------------------------
(* Sequences                                                               *)

IsSequence(s) == \E S : s \in Seq(S)

LEMMA SequenceDomain ==
    ASSUME NEW s, IsSequence(s)
    PROVE  Len(s) \in Nat /\ DOMAIN s = 1..Len(s) /\ IsFiniteSet(DOMAIN s)
<1>1. PICK S : s \in Seq(S)
    BY DEF IsSequence
<1>2. Len(s) \in Nat /\ DOMAIN s = 1..Len(s)
    BY <1>1
<1> QED BY <1>2, FS_Interval

LEMMA AppendSequence ==
    ASSUME NEW s, IsSequence(s), NEW x
    PROVE  /\ IsSequence(Append(s, x)) /\ Len(s) \in Nat
           /\ Len(Append(s, x)) = Len(s) + 1
           /\ DOMAIN s = 1..Len(s) /\ DOMAIN Append(s, x) = 1..(Len(s) + 1)
           /\ \A i \in 1..Len(s) : Append(s, x)[i] = s[i]
           /\ Append(s, x)[Len(s) + 1] = x
<1>1. PICK S : s \in Seq(S)
    BY DEF IsSequence
<1>2. s \in Seq(S \cup {x})
    BY <1>1
<1>3. Append(s, x) \in Seq(S \cup {x})
    BY <1>2
<1> QED BY <1>2, <1>3 DEF IsSequence

LEMMA ConcatSequence ==
    ASSUME NEW s, IsSequence(s), NEW t, IsSequence(t)
    PROVE  /\ IsSequence(s \o t) /\ Len(s) \in Nat /\ Len(t) \in Nat
           /\ DOMAIN s = 1..Len(s) /\ DOMAIN t = 1..Len(t)
           /\ Len(s \o t) = Len(s) + Len(t) /\ DOMAIN (s \o t) = 1..(Len(s) + Len(t))
           /\ \A i \in 1..Len(s) : (s \o t)[i] = s[i]
           /\ \A i \in 1..Len(t) : (s \o t)[Len(s) + i] = t[i]
<1>1. PICK S : s \in Seq(S)
    BY DEF IsSequence
<1>2. PICK T : t \in Seq(T)
    BY DEF IsSequence
<1>3. s \in Seq(S \cup T) /\ t \in Seq(S \cup T)
    BY <1>1, <1>2
<1>4. s \o t \in Seq(S \cup T)
    BY <1>3
<1> QED BY <1>3, <1>4 DEF IsSequence

LEMMA TupleSequences ==
    /\ IsSequence(<< >>) /\ DOMAIN << >> = {}
    /\ \A a : IsSequence(<<a>>) /\ DOMAIN <<a>> = 1..1 /\ <<a>>[1] = a
    /\ \A a, b : IsSequence(<<a, b>>) /\ DOMAIN <<a, b>> = 1..2 /\ <<a, b>>[1] = a /\ <<a, b>>[2] = b
    /\ \A a, b, c : IsSequence(<<a, b, c>>) /\ DOMAIN <<a, b, c>> = 1..3
    /\ \A a, b, c, d : IsSequence(<<a, b, c, d>>) /\ DOMAIN <<a, b, c, d>> = 1..4
<1>1. << >> \in Seq({})
    OBVIOUS
<1>2. \A a : <<a>> \in Seq({a})
    OBVIOUS
<1>3. \A a, b : <<a, b>> \in Seq({a, b})
    OBVIOUS
<1>4. \A a, b, c : <<a, b, c>> \in Seq({a, b, c})
    OBVIOUS
<1>5. \A a, b, c, d : <<a, b, c, d>> \in Seq({a, b, c, d})
    OBVIOUS
<1>6. /\ IsSequence(<< >>)
      /\ \A a : IsSequence(<<a>>)
      /\ \A a, b : IsSequence(<<a, b>>)
      /\ \A a, b, c : IsSequence(<<a, b, c>>)
      /\ \A a, b, c, d : IsSequence(<<a, b, c, d>>)
    BY <1>1, <1>2, <1>3, <1>4, <1>5, Zenon DEF IsSequence
<1> QED BY <1>6

LEMMA ConcatRegroups == \A U : \A s, t, u \in Seq(U) : (s \o t) \o u = s \o (t \o u)
OBVIOUS

LEMMA TupleConcat == \A a, b, c : <<a>> \o <<b, c>> = <<a, b, c>>
<1> TAKE a, b, c
<1> DEFINE S == {a, b, c}
           s == <<a>>
           t == <<b, c>>
           u == <<a, b, c>>
<1>1. s \in Seq(S) /\ t \in Seq(S) /\ u \in Seq(S) /\ s \o t \in Seq(S)
    OBVIOUS
<1>2. Len(s) = 1 /\ Len(t) = 2 /\ Len(u) = 3 /\ Len(s \o t) = 3
    BY <1>1
<1>3. s[1] = a /\ t[1] = b /\ t[2] = c /\ u[1] = a /\ u[2] = b /\ u[3] = c
    OBVIOUS
<1> HIDE DEF s, t, u, S
<1>4. (s \o t)[1] = s[1] /\ (s \o t)[2] = t[1] /\ (s \o t)[3] = t[2]
    <2>1. IsSequence(s) /\ IsSequence(t)
        BY <1>1 DEF IsSequence
    <2>2. /\ \A i \in 1..Len(s) : (s \o t)[i] = s[i]
          /\ \A i \in 1..Len(t) : (s \o t)[Len(s) + i] = t[i]
        BY <2>1, ConcatSequence
    <2>3. /\ \A i \in 1..1 : (s \o t)[i] = s[i]
          /\ \A i \in 1..2 : (s \o t)[1 + i] = t[i]
        BY <1>2, <2>2, Zenon
    <2> DEFINE st == s \o t
    <2> HIDE DEF st
    <2>4. st[1] = s[1] /\ st[2] = t[1] /\ st[3] = t[2]
        <3>1. (\A i \in 1..1 : st[i] = s[i]) /\ \A i \in 1..2 : st[1 + i] = t[i]
            BY <2>3, Zenon DEF st
        <3>2. 1 \in 1..1 /\ 1 \in 1..2 /\ 2 \in 1..2 /\ 1 + 1 = 2 /\ 1 + 2 = 3
            OBVIOUS
        <3>3. st[1] = s[1] /\ st[1 + 1] = t[1] /\ st[1 + 2] = t[2]
            BY <3>1, <3>2, Zenon
        <3> QED BY <3>2, <3>3, Zenon
    <2> QED BY <2>4, Zenon DEF st
<1>5. ASSUME NEW i \in 1..3 PROVE (s \o t)[i] = u[i]
    <2>1. CASE i = 1
        BY <1>3, <1>4, <2>1
    <2>2. CASE i = 2
        BY <1>3, <1>4, <2>2
    <2>3. CASE i = 3
        BY <1>3, <1>4, <2>3
    <2>4. i = 1 \/ i = 2 \/ i = 3
        OBVIOUS
    <2> QED BY <2>1, <2>2, <2>3, <2>4, Zenon
<1>6. s \o t = u
    BY <1>1, <1>2, <1>5
<1> QED BY <1>6 DEF s, t, u

-----------------------------------------------------------------------------
(* Posting sets and what they move                                         *)

PostingSet(ps) == IsSequence(ps) /\ \A i \in DOMAIN ps : ps[i].units \in Int
RewardChain(es) == IsSequence(es) /\ \A i \in DOMAIN es : PostingSet(es[i].postings)

LEMMA MovesIsInt == \A p, a, c : p.units \in Int => Moves(p, a, c) \in Int
BY DEF Moves

LEMMA OnAccountIsInt ==
    ASSUME NEW ps, PostingSet(ps), NEW a, NEW c
    PROVE  OnAccount(ps, a, c) \in Int
<1> DEFINE w == [i \in DOMAIN ps |-> Moves(ps[i], a, c)]
<1>1. IntegersOn(w, DOMAIN ps) /\ DOMAIN w = DOMAIN ps
    BY MovesIsInt DEF IntegersOn, PostingSet
<1>2. IsFiniteSet(DOMAIN ps)
    BY SequenceDomain DEF PostingSet
<1>3. OnAccount(ps, a, c) = SumFunctionOnSet(w, DOMAIN ps)
    BY <1>1 DEF OnAccount, SumFunction
<1> HIDE DEF w
<1> QED BY <1>1, <1>2, <1>3, SumIsInt

LEMMA OnConcat ==
    ASSUME NEW ps, PostingSet(ps), NEW qs, PostingSet(qs), NEW a, NEW c
    PROVE  PostingSet(ps \o qs) /\ OnAccount(ps \o qs, a, c) = OnAccount(ps, a, c) + OnAccount(qs, a, c)
<1> DEFINE m == Len(ps)
           n == Len(qs)
           f == [i \in DOMAIN (ps \o qs) |-> Moves((ps \o qs)[i], a, c)]
           g == [i \in DOMAIN ps |-> Moves(ps[i], a, c)]
           h == [i \in DOMAIN qs |-> Moves(qs[i], a, c)]
<1>1. /\ IsSequence(ps \o qs) /\ m \in Nat /\ n \in Nat /\ DOMAIN ps = 1..m /\ DOMAIN qs = 1..n
      /\ DOMAIN (ps \o qs) = 1..(m + n)
      /\ \A i \in 1..m : (ps \o qs)[i] = ps[i]
      /\ \A i \in 1..n : (ps \o qs)[m + i] = qs[i]
    BY ConcatSequence DEF PostingSet
<1> HIDE DEF m, n
<1>2. \A i \in 1..(m + n) : (ps \o qs)[i].units \in Int
    <2> TAKE i \in 1..(m + n)
    <2>1. CASE i \in 1..m
        BY <1>1, <2>1 DEF PostingSet
    <2>2. CASE i \notin 1..m
        <3>1. i - m \in 1..n /\ i = m + (i - m)
            BY <1>1, <2>2
        <3>2. (ps \o qs)[m + (i - m)] = qs[i - m] /\ qs[i - m].units \in Int
            BY <1>1, <3>1 DEF PostingSet
        <3> QED BY <3>1, <3>2
    <2> QED BY <2>1, <2>2
<1>3. PostingSet(ps \o qs)
    BY <1>1, <1>2 DEF PostingSet
<1>4. /\ IntegersOn(g, 1..m) /\ IntegersOn(h, 1..n)
      /\ DOMAIN f = 1..(m + n) /\ DOMAIN g = 1..m /\ DOMAIN h = 1..n
    BY <1>1, MovesIsInt DEF IntegersOn, PostingSet
<1>5. /\ \A i \in 1..m : f[i] = g[i]
      /\ \A i \in 1..n : f[m + i] = h[i]
    <2>1. \A i \in 1..m : i \in 1..(m + n)
        BY <1>1
    <2>2. \A i \in 1..n : m + i \in 1..(m + n)
        BY <1>1
    <2> QED BY <1>1, <2>1, <2>2
<1>6. /\ OnAccount(ps \o qs, a, c) = SumFunctionOnSet(f, 1..(m + n))
      /\ OnAccount(ps, a, c) = SumFunctionOnSet(g, 1..m)
      /\ OnAccount(qs, a, c) = SumFunctionOnSet(h, 1..n)
    BY <1>1, <1>4 DEF OnAccount, SumFunction
<1> HIDE DEF f, g, h
<1>7. SumFunctionOnSet(f, 1..(m + n)) = SumFunctionOnSet(g, 1..m) + SumFunctionOnSet(h, 1..n)
    <2>1. m \in Nat /\ n \in Nat /\ IntegersOn(g, 1..m) /\ IntegersOn(h, 1..n)
        BY <1>1, <1>4
    <2>2. SumFunctionOnSet(g, 1..m) \in Int /\ SumFunctionOnSet(h, 1..n) \in Int
        BY <2>1, FS_Interval, SumIsInt
    <2> QED BY <2>1, <2>2, <1>5, SumConcat
<1> QED BY <1>3, <1>6, <1>7

LEMMA OnNothing == PostingSet(<< >>) /\ \A a, c : OnAccount(<< >>, a, c) = 0
<1>1. PostingSet(<< >>)
    BY TupleSequences DEF PostingSet
<1>2. ASSUME NEW a, NEW c PROVE OnAccount(<< >>, a, c) = 0
    <2> DEFINE w == [i \in DOMAIN << >> |-> Moves(<< >>[i], a, c)]
    <2>1. DOMAIN w = {} /\ OnAccount(<< >>, a, c) = SumFunctionOnSet(w, DOMAIN w)
        BY TupleSequences DEF OnAccount, SumFunction
    <2> HIDE DEF w
    <2> QED BY <2>1, SumNone
<1> QED BY <1>1, <1>2

LEMMA OnOne ==
    ASSUME NEW p, p.units \in Int, NEW a, NEW c
    PROVE  PostingSet(<<p>>) /\ OnAccount(<<p>>, a, c) = Moves(p, a, c)
<1> DEFINE w == [i \in DOMAIN <<p>> |-> Moves(<<p>>[i], a, c)]
<1>1. PostingSet(<<p>>)
    BY TupleSequences DEF PostingSet
<1>2. /\ w[1] = Moves(p, a, c) /\ DOMAIN w = {1} /\ w[1] \in Int
      /\ OnAccount(<<p>>, a, c) = SumFunctionOnSet(w, DOMAIN w)
    BY TupleSequences, MovesIsInt DEF OnAccount, SumFunction
<1> HIDE DEF w
<1> QED BY <1>1, <1>2, SumOne

LEMMA OnTwo ==
    ASSUME NEW p, p.units \in Int, NEW q, q.units \in Int, NEW a, NEW c
    PROVE  PostingSet(<<p, q>>) /\ OnAccount(<<p, q>>, a, c) = Moves(p, a, c) + Moves(q, a, c)
<1> DEFINE w == [i \in DOMAIN <<p, q>> |-> Moves(<<p, q>>[i], a, c)]
<1>1. PostingSet(<<p, q>>)
    BY TupleSequences DEF PostingSet
<1>2. /\ w[1] = Moves(p, a, c) /\ w[2] = Moves(q, a, c) /\ DOMAIN w = 1..2 /\ w[1] \in Int /\ w[2] \in Int
      /\ OnAccount(<<p, q>>, a, c) = SumFunctionOnSet(w, DOMAIN w)
    BY TupleSequences, MovesIsInt DEF OnAccount, SumFunction
<1> HIDE DEF w
<1> QED BY <1>1, <1>2, SumTwo

LEMMA OnThree ==
    ASSUME NEW p, p.units \in Int, NEW q, q.units \in Int, NEW r, r.units \in Int, NEW a, NEW c
    PROVE  /\ PostingSet(<<p, q, r>>)
           /\ OnAccount(<<p, q, r>>, a, c) = Moves(p, a, c) + Moves(q, a, c) + Moves(r, a, c)
<1> DEFINE w == [i \in DOMAIN <<p, q, r>> |-> Moves(<<p, q, r>>[i], a, c)]
<1>1. PostingSet(<<p, q, r>>)
    BY TupleSequences DEF PostingSet
<1>2. /\ w[1] = Moves(p, a, c) /\ w[2] = Moves(q, a, c) /\ w[3] = Moves(r, a, c) /\ DOMAIN w = 1..3
      /\ w[1] \in Int /\ w[2] \in Int /\ w[3] \in Int
      /\ OnAccount(<<p, q, r>>, a, c) = SumFunctionOnSet(w, DOMAIN w)
    BY TupleSequences, MovesIsInt DEF OnAccount, SumFunction
<1> HIDE DEF w
<1> QED BY <1>1, <1>2, SumThree

LEMMA OnFour ==
    ASSUME NEW p, p.units \in Int, NEW q, q.units \in Int, NEW r, r.units \in Int, NEW s, s.units \in Int, NEW a, NEW c
    PROVE  /\ PostingSet(<<p, q, r, s>>)
           /\ OnAccount(<<p, q, r, s>>, a, c) = Moves(p, a, c) + Moves(q, a, c) + Moves(r, a, c) + Moves(s, a, c)
<1> DEFINE w == [i \in DOMAIN <<p, q, r, s>> |-> Moves(<<p, q, r, s>>[i], a, c)]
<1>1. PostingSet(<<p, q, r, s>>)
    BY TupleSequences DEF PostingSet
<1>2. /\ w[1] = Moves(p, a, c) /\ w[2] = Moves(q, a, c) /\ w[3] = Moves(r, a, c) /\ w[4] = Moves(s, a, c)
      /\ DOMAIN w = 1..4
      /\ w[1] \in Int /\ w[2] \in Int /\ w[3] \in Int /\ w[4] \in Int
      /\ OnAccount(<<p, q, r, s>>, a, c) = SumFunctionOnSet(w, DOMAIN w)
    BY TupleSequences, MovesIsInt DEF OnAccount, SumFunction
<1> HIDE DEF w
<1> QED BY <1>1, <1>2, SumFour

-----------------------------------------------------------------------------
(* Chains and their balances                                               *)

LEMMA BalanceIsInt ==
    ASSUME NEW es, RewardChain(es), NEW a, NEW c
    PROVE  Balance(es, a, c) \in Int
<1> DEFINE w == [i \in DOMAIN es |-> OnAccount(es[i].postings, a, c)]
<1>1. IntegersOn(w, DOMAIN es) /\ DOMAIN w = DOMAIN es
    BY OnAccountIsInt DEF IntegersOn, RewardChain
<1>2. IsFiniteSet(DOMAIN es)
    BY SequenceDomain DEF RewardChain
<1>3. Balance(es, a, c) = SumFunctionOnSet(w, DOMAIN es)
    BY <1>1 DEF Balance, SumFunction
<1> HIDE DEF w
<1> QED BY <1>1, <1>2, <1>3, SumIsInt

LEMMA BalanceOfNone == RewardChain(<< >>) /\ \A a, c : Balance(<< >>, a, c) = 0
<1>1. RewardChain(<< >>)
    BY TupleSequences DEF RewardChain
<1>2. ASSUME NEW a, NEW c PROVE Balance(<< >>, a, c) = 0
    <2> DEFINE w == [i \in DOMAIN << >> |-> OnAccount(<< >>[i].postings, a, c)]
    <2>1. DOMAIN w = {} /\ Balance(<< >>, a, c) = SumFunctionOnSet(w, DOMAIN w)
        BY TupleSequences DEF Balance, SumFunction
    <2> HIDE DEF w
    <2> QED BY <2>1, SumNone
<1> QED BY <1>1, <1>2

LEMMA BalanceConcat ==
    ASSUME NEW es, RewardChain(es), NEW rs, RewardChain(rs), NEW a, NEW c
    PROVE  RewardChain(es \o rs) /\ Balance(es \o rs, a, c) = Balance(es, a, c) + Balance(rs, a, c)
<1> DEFINE m == Len(es)
           n == Len(rs)
           f == [i \in DOMAIN (es \o rs) |-> OnAccount((es \o rs)[i].postings, a, c)]
           g == [i \in DOMAIN es |-> OnAccount(es[i].postings, a, c)]
           h == [i \in DOMAIN rs |-> OnAccount(rs[i].postings, a, c)]
<1>1. /\ IsSequence(es \o rs) /\ m \in Nat /\ n \in Nat /\ DOMAIN es = 1..m /\ DOMAIN rs = 1..n
      /\ DOMAIN (es \o rs) = 1..(m + n)
      /\ \A i \in 1..m : (es \o rs)[i] = es[i]
      /\ \A i \in 1..n : (es \o rs)[m + i] = rs[i]
    <2>1. IsSequence(es) /\ IsSequence(rs)
        BY DEF RewardChain
    <2> HIDE DEF f, g, h
    <2>2. /\ IsSequence(es \o rs) /\ Len(es) \in Nat /\ Len(rs) \in Nat
          /\ DOMAIN es = 1..Len(es) /\ DOMAIN rs = 1..Len(rs)
        BY <2>1, ConcatSequence
    <2>3. /\ DOMAIN (es \o rs) = 1..(Len(es) + Len(rs))
          /\ \A i \in 1..Len(es) : (es \o rs)[i] = es[i]
          /\ \A i \in 1..Len(rs) : (es \o rs)[Len(es) + i] = rs[i]
        BY <2>1, ConcatSequence
    <2> QED BY <2>2, <2>3, Zenon
<1> HIDE DEF m, n
<1>2. \A i \in 1..(m + n) : PostingSet((es \o rs)[i].postings)
    <2> TAKE i \in 1..(m + n)
    <2>1. CASE i \in 1..m
        BY <1>1, <2>1 DEF RewardChain
    <2>2. CASE i \notin 1..m
        <3>1. i - m \in 1..n /\ i = m + (i - m)
            BY <1>1, <2>2
        <3>2. (es \o rs)[m + (i - m)] = rs[i - m] /\ PostingSet(rs[i - m].postings)
            BY <1>1, <3>1 DEF RewardChain
        <3> QED BY <3>1, <3>2
    <2> QED BY <2>1, <2>2
<1>3. RewardChain(es \o rs)
    BY <1>1, <1>2 DEF RewardChain
<1>4. /\ IntegersOn(g, 1..m) /\ IntegersOn(h, 1..n)
      /\ DOMAIN f = 1..(m + n) /\ DOMAIN g = 1..m /\ DOMAIN h = 1..n
    BY <1>1, OnAccountIsInt DEF IntegersOn, RewardChain
<1>5. /\ \A i \in 1..m : f[i] = g[i]
      /\ \A i \in 1..n : f[m + i] = h[i]
    <2>1. \A i \in 1..m : i \in 1..(m + n)
        BY <1>1
    <2>2. \A i \in 1..n : m + i \in 1..(m + n)
        BY <1>1
    <2> QED BY <1>1, <2>1, <2>2
<1>6. /\ Balance(es \o rs, a, c) = SumFunctionOnSet(f, 1..(m + n))
      /\ Balance(es, a, c) = SumFunctionOnSet(g, 1..m)
      /\ Balance(rs, a, c) = SumFunctionOnSet(h, 1..n)
    BY <1>1, <1>4 DEF Balance, SumFunction
<1> HIDE DEF f, g, h
<1>7. SumFunctionOnSet(f, 1..(m + n)) = SumFunctionOnSet(g, 1..m) + SumFunctionOnSet(h, 1..n)
    <2>1. m \in Nat /\ n \in Nat /\ IntegersOn(g, 1..m) /\ IntegersOn(h, 1..n)
        BY <1>1, <1>4
    <2>2. SumFunctionOnSet(g, 1..m) \in Int /\ SumFunctionOnSet(h, 1..n) \in Int
        BY <2>1, FS_Interval, SumIsInt
    <2> QED BY <2>1, <2>2, <1>5, SumConcat
<1> QED BY <1>3, <1>6, <1>7

LEMMA BalanceAppend ==
    ASSUME NEW es, RewardChain(es), NEW r, PostingSet(r.postings), NEW a, NEW c
    PROVE  /\ RewardChain(Append(es, r))
           /\ Balance(Append(es, r), a, c) = Balance(es, a, c) + OnAccount(r.postings, a, c)
<1>1. RewardChain(<<r>>)
    BY TupleSequences DEF RewardChain
<1>2. Append(es, r) = es \o <<r>>
    <2>1. PICK S : es \in Seq(S)
        BY DEF RewardChain, IsSequence
    <2>2. es \in Seq(S \cup {r})
        BY <2>1
    <2> QED BY <2>2
<1>3. Balance(<<r>>, a, c) = OnAccount(r.postings, a, c)
    <2> DEFINE w == [i \in DOMAIN <<r>> |-> OnAccount(<<r>>[i].postings, a, c)]
    <2>1. /\ w[1] = OnAccount(r.postings, a, c) /\ DOMAIN w = {1} /\ w[1] \in Int
          /\ Balance(<<r>>, a, c) = SumFunctionOnSet(w, DOMAIN w)
        BY TupleSequences, OnAccountIsInt DEF Balance, SumFunction
    <2> HIDE DEF w
    <2> QED BY <2>1, SumOne
<1>4. RewardChain(es \o <<r>>) /\ Balance(es \o <<r>>, a, c) = Balance(es, a, c) + Balance(<<r>>, a, c)
    <2>1. Balance(es, a, c) \in Int /\ Balance(<<r>>, a, c) \in Int
        BY <1>1, BalanceIsInt
    <2> QED BY <1>1, <2>1, BalanceConcat
<1> QED BY <1>2, <1>3, <1>4

(* The chain `post` leaves, and its balances.                              *)
LEMMA PostEffect ==
    ASSUME NEW es, RewardChain(es), NEW ps, PostingSet(ps), NEW memo
    PROVE  /\ RewardChain(post(es, ps, memo))
           /\ \A a, c : /\ Balance(es, a, c) \in Int /\ OnAccount(ps, a, c) \in Int
                        /\ Balance(post(es, ps, memo), a, c)
                              = IF is_balanced(ps) THEN Balance(es, a, c) + OnAccount(ps, a, c) ELSE Balance(es, a, c)
<1> DEFINE r == [memo |-> memo, postings |-> ps]
<1>1. PostingSet(r.postings) /\ r.postings = ps
    OBVIOUS
<1>2. post(es, ps, memo) = IF is_balanced(ps) THEN Append(es, r) ELSE es
    BY DEF post
<1> HIDE DEF r
<1>3. RewardChain(Append(es, r))
    BY <1>1, BalanceAppend
<1>4. ASSUME NEW a, NEW c
      PROVE  /\ Balance(es, a, c) \in Int /\ OnAccount(ps, a, c) \in Int
             /\ Balance(Append(es, r), a, c) = Balance(es, a, c) + OnAccount(ps, a, c)
    <2>1. Balance(es, a, c) \in Int /\ OnAccount(ps, a, c) \in Int
        BY BalanceIsInt, OnAccountIsInt
    <2>2. Balance(Append(es, r), a, c) = Balance(es, a, c) + OnAccount(r.postings, a, c)
        <3>1. OnAccount(r.postings, a, c) \in Int
            BY <1>1, <2>1
        <3> QED BY <1>1, <2>1, <3>1, BalanceAppend
    <2> QED BY <1>1, <2>1, <2>2
<1> QED BY <1>2, <1>3, <1>4

-----------------------------------------------------------------------------
(* Every posting set balanced, every pooled account in credit.             *)

Pooled == {escrow_for(q) : q \in Quotes} \cup {Hold(q) : q \in Quotes} \cup {BondAccount(q) : q \in Quotes} \cup {Credit}
PooledKind == {"escrow", "hold", "dispute-bond", "credit"}

LEMMA PooledKinds == \A a \in Pooled : a[1] \in PooledKind
BY DEF Pooled, PooledKind, escrow_for, Hold, BondAccount, Credit

Sound(es) ==
    /\ RewardChain(es)
    /\ \A i \in DOMAIN es : is_balanced(es[i].postings)
    /\ \A a \in Pooled : Balance(es, a, "USD") >= 0

(* The posting set takes out of no pooled account more than is in it.      *)
Covered(es, ps) == \A a \in Pooled : Balance(es, a, "USD") + OnAccount(ps, a, "USD") >= 0

LEMMA PostSound ==
    ASSUME NEW es, Sound(es), NEW ps, PostingSet(ps), Covered(es, ps), NEW memo
    PROVE  Sound(post(es, ps, memo))
<1>1. RewardChain(es)
    BY DEF Sound
<1>2. RewardChain(post(es, ps, memo))
    BY <1>1, PostEffect
<1>3. \A a \in Pooled : Balance(post(es, ps, memo), a, "USD") >= 0
    <2> TAKE a \in Pooled
    <2>1. /\ Balance(es, a, "USD") \in Int /\ OnAccount(ps, a, "USD") \in Int
          /\ Balance(post(es, ps, memo), a, "USD")
                = IF is_balanced(ps) THEN Balance(es, a, "USD") + OnAccount(ps, a, "USD") ELSE Balance(es, a, "USD")
        BY <1>1, PostEffect
    <2>2. Balance(es, a, "USD") >= 0 /\ Balance(es, a, "USD") + OnAccount(ps, a, "USD") >= 0
        BY DEF Sound, Covered
    <2> QED BY <2>1, <2>2
<1>4. \A i \in DOMAIN post(es, ps, memo) : is_balanced(post(es, ps, memo)[i].postings)
    <2>1. CASE is_balanced(ps)
        <3> DEFINE r == [memo |-> memo, postings |-> ps]
        <3>1. post(es, ps, memo) = Append(es, r) /\ r.postings = ps
            BY <2>1 DEF post
        <3>2. IsSequence(es)
            BY <1>1 DEF RewardChain
        <3> HIDE DEF r
        <3>3. ASSUME NEW i \in DOMAIN Append(es, r) PROVE is_balanced(Append(es, r)[i].postings)
            <4>1. /\ DOMAIN es = 1..Len(es) /\ DOMAIN Append(es, r) = 1..(Len(es) + 1) /\ Len(es) \in Nat
                  /\ \A j \in 1..Len(es) : Append(es, r)[j] = es[j]
                  /\ Append(es, r)[Len(es) + 1] = r
                BY <3>2, AppendSequence
            <4>2. CASE i \in 1..Len(es)
                BY <4>1, <4>2 DEF Sound
            <4>3. CASE i = Len(es) + 1
                BY <2>1, <3>1, <4>1, <4>3
            <4> QED BY <4>1, <4>2, <4>3
        <3> QED BY <3>1, <3>3
    <2>2. CASE ~is_balanced(ps)
        BY <2>2 DEF post, Sound
    <2> QED BY <2>1, <2>2
<1> QED BY <1>2, <1>3, <1>4 DEF Sound

-----------------------------------------------------------------------------
(* Amounts: what the roundings and the splits return.                      *)

LEMMA RoundedIsInt == \A n \in Int, d \in Nat \ {0} : RoundHalfEven(n, d) \in Int
<1> SUFFICES ASSUME NEW n \in Int, NEW d \in Nat \ {0} PROVE RoundHalfEven(n, d) \in Int
    OBVIOUS
<1> DEFINE f == n \div d
<1>1. f \in Int
    OBVIOUS
<1>2. RoundHalfEven(n, d) \in {f, f + 1}
    BY DEF RoundHalfEven
<1> HIDE DEF f
<1> QED BY <1>1, <1>2

LEMMA SplitParts ==
    ASSUME NEW units \in Int, NEW weights \in Seq(Nat), SumFunction(weights) > 0
    PROVE  /\ DOMAIN split(units, weights) = DOMAIN weights
           /\ \A i \in DOMAIN weights : split(units, weights)[i] \in Int /\ (units >= 0 => split(units, weights)[i] >= 0)
<1> DEFINE tw == SumFunction(weights)
           f(i) == (units * weights[i]) \div tw
<1>1. tw \in Nat /\ tw > 0
    <2>1. /\ \A i \in DOMAIN weights : weights[i] \in Nat
          /\ DOMAIN weights = 1..Len(weights) /\ Len(weights) \in Nat
        OBVIOUS
    <2>2. IsFiniteSet(DOMAIN weights)
        BY <2>1, FS_Interval
    <2> QED BY <2>1, <2>2, SumNatural DEF SumFunction
<1> HIDE DEF tw
<1>2. ASSUME NEW i \in DOMAIN weights PROVE f(i) \in Int /\ (units >= 0 => f(i) >= 0)
    <2> DEFINE x == units * weights[i]
    <2>1. weights[i] \in Nat
        OBVIOUS
    <2>2. x \in Int /\ (units >= 0 => x >= 0)
        BY <2>1
    <2> HIDE DEF x
    <2>3. x \div tw \in Int /\ (x >= 0 => x \div tw >= 0)
        BY <1>1, <2>2
    <2> QED BY <2>2, <2>3 DEF x
<1>3. /\ DOMAIN split(units, weights) = DOMAIN weights
      /\ \A i \in DOMAIN weights : split(units, weights)[i] \in {f(i), f(i) + 1}
    <2>1. \A i \in DOMAIN weights : f(i) \in Int
        BY <1>2
    <2> QED BY <2>1 DEF split, tw
<1> HIDE DEF f
<1>4. ASSUME NEW i \in DOMAIN weights
      PROVE  split(units, weights)[i] \in Int /\ (units >= 0 => split(units, weights)[i] >= 0)
    BY <1>2, <1>3
<1> QED BY <1>3, <1>4

LEMMA PairWeights ==
    ASSUME NEW x \in Nat, NEW y \in Nat, x + y > 0
    PROVE  <<x, y>> \in Seq(Nat) /\ SumFunction(<<x, y>>) > 0 /\ DOMAIN <<x, y>> = 1..2
<1> DEFINE w == <<x, y>>
<1>1. w[1] = x /\ w[2] = y /\ DOMAIN w = 1..2 /\ w \in Seq(Nat)
    OBVIOUS
<1>2. SumFunction(w) = SumFunctionOnSet(w, 1..2)
    BY <1>1 DEF SumFunction
<1> HIDE DEF w
<1>3. SumFunctionOnSet(w, 1..2) = w[1] + w[2]
    BY <1>1, SumTwo
<1>4. w \in Seq(Nat) /\ SumFunction(w) > 0 /\ DOMAIN w = 1..2
    BY <1>1, <1>2, <1>3
<1> QED BY <1>4 DEF w

(* The parts of an amount split two ways.                                  *)
LEMMA SplitPair ==
    ASSUME NEW units \in Int, NEW x \in Nat, NEW y \in Nat, x + y > 0
    PROVE  /\ split(units, <<x, y>>)[1] \in Int /\ split(units, <<x, y>>)[2] \in Int
           /\ units >= 0 => split(units, <<x, y>>)[1] >= 0 /\ split(units, <<x, y>>)[2] >= 0
<1> DEFINE w == <<x, y>>
<1>1. w \in Seq(Nat) /\ SumFunction(w) > 0 /\ 1 \in DOMAIN w /\ 2 \in DOMAIN w
    BY PairWeights
<1> HIDE DEF w
<1>2. \A i \in DOMAIN w : split(units, w)[i] \in Int /\ (units >= 0 => split(units, w)[i] >= 0)
    BY <1>1, SplitParts
<1>3. /\ split(units, w)[1] \in Int /\ split(units, w)[2] \in Int
      /\ units >= 0 => split(units, w)[1] >= 0 /\ split(units, w)[2] >= 0
    BY <1>1, <1>2
<1> QED BY <1>3 DEF w

LEMMA LegsAreInt ==
    ASSUME NEW q \in Quotes
    PROVE  Legs(q)[1] \in Int /\ Legs(q)[2] \in Int /\ Legs(q)[3] \in Int
<1> DEFINE w == <<2, 2, 1>>
<1>1. /\ w[1] = 2 /\ w[2] = 2 /\ w[3] = 1 /\ w \in Seq(Nat)
      /\ DOMAIN w = 1..3 /\ 1 \in DOMAIN w /\ 2 \in DOMAIN w /\ 3 \in DOMAIN w
    OBVIOUS
<1>2. SumFunction(w) = SumFunctionOnSet(w, 1..3)
    BY <1>1 DEF SumFunction
<1>0. Legs(q) = split(Amount[q], w) /\ Amount[q] \in Int
    BY SettlementAssumption DEF Legs
<1> HIDE DEF w
<1>3. SumFunctionOnSet(w, 1..3) = w[1] + w[2] + w[3]
    BY <1>1, SumThree
<1>4. SumFunction(w) > 0
    BY <1>1, <1>2, <1>3
<1>5. \A i \in DOMAIN w : split(Amount[q], w)[i] \in Int
    BY <1>0, <1>1, <1>4, SplitParts
<1> QED BY <1>0, <1>1, <1>5

-----------------------------------------------------------------------------
(* The posting sets of the plane, one lemma for each shape.                *)

LEMMA PostingMoves ==
    \A acct, u, cur : /\ _posting(acct, u, cur).units = u /\ _posting(acct, u, cur).account = acct
                      /\ _posting(acct, u, cur).cur = cur
                      /\ \A a, c : Moves(_posting(acct, u, cur), a, c) = IF acct = a /\ cur = c THEN u ELSE 0
BY DEF Moves, _posting

Plain(p) == p.units \in Int /\ p.account[1] \notin PooledKind
Untouching(ps) == PostingSet(ps) /\ \A i \in DOMAIN ps : ps[i].account[1] \notin PooledKind

LEMMA UntouchingMovesNothing ==
    ASSUME NEW ps, Untouching(ps), NEW a \in Pooled
    PROVE  OnAccount(ps, a, "USD") = 0
<1> DEFINE w == [i \in DOMAIN ps |-> Moves(ps[i], a, "USD")]
<1>1. a[1] \in PooledKind
    BY PooledKinds
<1>2. \A i \in DOMAIN ps : w[i] = 0
    BY <1>1 DEF Untouching, Moves
<1>3. DOMAIN w = DOMAIN ps /\ OnAccount(ps, a, "USD") = SumFunctionOnSet(w, DOMAIN ps)
    BY DEF OnAccount, SumFunction
<1>4. IsFiniteSet(DOMAIN ps)
    BY SequenceDomain DEF Untouching, PostingSet
<1> HIDE DEF w
<1> QED BY <1>2, <1>3, <1>4, SumZero

LEMMA UntouchingCovered ==
    ASSUME NEW es, Sound(es), NEW ps, Untouching(ps)
    PROVE  PostingSet(ps) /\ Covered(es, ps)
<1>1. RewardChain(es)
    BY DEF Sound
<1>2. ASSUME NEW a \in Pooled PROVE Balance(es, a, "USD") + OnAccount(ps, a, "USD") >= 0
    <2>1. OnAccount(ps, a, "USD") = 0 /\ Balance(es, a, "USD") \in Int /\ Balance(es, a, "USD") >= 0
        BY <1>1, UntouchingMovesNothing, BalanceIsInt DEF Sound
    <2> QED BY <2>1
<1> QED BY <1>2 DEF Covered, Untouching

LEMMA UntouchingTuples ==
    ASSUME NEW p, Plain(p), NEW q, Plain(q), NEW r, Plain(r)
    PROVE  Untouching(<< >>) /\ Untouching(<<p>>) /\ Untouching(<<p, q>>) /\ Untouching(<<p, q, r>>)
<1>1. Untouching(<< >>)
    BY OnNothing, TupleSequences DEF Untouching
<1>2. Untouching(<<p>>)
    <2>1. PostingSet(<<p>>)
        BY OnOne DEF Plain
    <2>2. ASSUME NEW i \in DOMAIN <<p>> PROVE <<p>>[i].account[1] \notin PooledKind
        BY DEF Plain
    <2> QED BY <2>1, <2>2 DEF Untouching
<1>3. Untouching(<<p, q>>)
    <2>1. PostingSet(<<p, q>>)
        BY OnTwo DEF Plain
    <2>2. ASSUME NEW i \in DOMAIN <<p, q>> PROVE <<p, q>>[i].account[1] \notin PooledKind
        BY DEF Plain
    <2> QED BY <2>1, <2>2 DEF Untouching
<1>4. Untouching(<<p, q, r>>)
    <2>1. PostingSet(<<p, q, r>>)
        BY OnThree DEF Plain
    <2>2. ASSUME NEW i \in DOMAIN <<p, q, r>> PROVE <<p, q, r>>[i].account[1] \notin PooledKind
        BY DEF Plain
    <2> QED BY <2>1, <2>2 DEF Untouching
<1> QED BY <1>1, <1>2, <1>3, <1>4

LEMMA UntouchingConcat ==
    ASSUME NEW ps, Untouching(ps), NEW qs, Untouching(qs)
    PROVE  Untouching(ps \o qs)
<1>1. PostingSet(ps) /\ PostingSet(qs) /\ IsSequence(ps) /\ IsSequence(qs)
    BY DEF Untouching, PostingSet
<1>2. PostingSet(ps \o qs)
    BY <1>1, OnConcat
<1>3. ASSUME NEW i \in DOMAIN (ps \o qs) PROVE (ps \o qs)[i].account[1] \notin PooledKind
    <2>1. /\ Len(ps) \in Nat /\ Len(qs) \in Nat
          /\ DOMAIN ps = 1..Len(ps) /\ DOMAIN qs = 1..Len(qs) /\ DOMAIN (ps \o qs) = 1..(Len(ps) + Len(qs))
          /\ \A j \in 1..Len(ps) : (ps \o qs)[j] = ps[j]
          /\ \A j \in 1..Len(qs) : (ps \o qs)[Len(ps) + j] = qs[j]
        BY <1>1, ConcatSequence
    <2>2. CASE i \in 1..Len(ps)
        BY <2>1, <2>2 DEF Untouching
    <2>3. CASE i \notin 1..Len(ps)
        <3>1. i - Len(ps) \in 1..Len(qs) /\ i = Len(ps) + (i - Len(ps))
            BY <2>1, <2>3
        <3>2. (ps \o qs)[Len(ps) + (i - Len(ps))] = qs[i - Len(ps)] /\ qs[i - Len(ps)].account[1] \notin PooledKind
            BY <2>1, <3>1 DEF Untouching
        <3> QED BY <3>1, <3>2
    <2> QED BY <2>2, <2>3
<1> QED BY <1>2, <1>3 DEF Untouching

LEMMA UntouchingIf ==
    ASSUME NEW cond, NEW p, Plain(p)
    PROVE  Untouching(If(cond, p))
<1>1. If(cond, p) = <<p>> \/ If(cond, p) = << >>
    BY DEF If
<1>2. Untouching(<<p>>) /\ Untouching(<< >>)
    BY UntouchingTuples
<1> QED BY <1>1, <1>2

(* u1 on one account and u2 on another.                                    *)
LEMMA TwoCovered ==
    ASSUME NEW es, Sound(es), NEW a1, NEW a2, a1 # a2, NEW u1 \in Int, NEW u2 \in Int,
           a1 \in Pooled => Balance(es, a1, "USD") + u1 >= 0,
           a2 \in Pooled => Balance(es, a2, "USD") + u2 >= 0
    PROVE  /\ PostingSet(<<_posting(a1, u1, "USD"), _posting(a2, u2, "USD")>>)
           /\ Covered(es, <<_posting(a1, u1, "USD"), _posting(a2, u2, "USD")>>)
<1> DEFINE p == _posting(a1, u1, "USD")
           q == _posting(a2, u2, "USD")
<1>1. /\ p.units \in Int /\ q.units \in Int
      /\ \A a : Moves(p, a, "USD") = (IF a1 = a THEN u1 ELSE 0) /\ Moves(q, a, "USD") = IF a2 = a THEN u2 ELSE 0
    BY PostingMoves
<1> HIDE DEF p, q
<1>2. PostingSet(<<p, q>>)
    BY <1>1, OnTwo
<1>3. ASSUME NEW a \in Pooled PROVE Balance(es, a, "USD") + OnAccount(<<p, q>>, a, "USD") >= 0
    <2>1. Balance(es, a, "USD") \in Int /\ Balance(es, a, "USD") >= 0
        BY BalanceIsInt DEF Sound
    <2>2. Moves(p, a, "USD") \in Int /\ Moves(q, a, "USD") \in Int
        BY <1>1
    <2>3. OnAccount(<<p, q>>, a, "USD") = Moves(p, a, "USD") + Moves(q, a, "USD")
        BY <1>1, <2>2, OnTwo
    <2> QED BY <1>1, <2>1, <2>2, <2>3
<1> QED BY <1>2, <1>3 DEF Covered, p, q

LEMMA PlainPosting == \A kind, owner, cur : \A u \in Int : kind \notin PooledKind => Plain(_posting(<<kind, owner>>, u, cur))
BY DEF Plain, _posting

LEMMA Accounts ==
    /\ \A q \in Quotes : escrow_for(q) \in Pooled /\ Hold(q) \in Pooled /\ BondAccount(q) \in Pooled
    /\ Credit \in Pooled
    /\ \A q : /\ escrow_for(q)[1] = "escrow" /\ Hold(q)[1] = "hold" /\ BondAccount(q)[1] = "dispute-bond"
    /\ Credit[1] = "credit" /\ Payee[1] = "payee" /\ Fee[1] = "fee" /\ Dust[1] = "dust"
    /\ PooledKind = {"escrow", "hold", "dispute-bond", "credit"}
BY DEF Pooled, PooledKind, escrow_for, Hold, BondAccount, Credit, Payee, Fee, Dust

LEMMA NotPooled == \A kind, owner : kind \notin PooledKind => <<kind, owner>> \notin Pooled
BY PooledKinds

LEMMA FundCovered ==
    ASSUME NEW es, Sound(es), NEW q \in Quotes, NEW f
    PROVE  /\ PostingSet(<<_posting(<<"party", f>>, -Amount[q], USD), _posting(escrow_for(q), Amount[q], USD)>>)
           /\ Covered(es, <<_posting(<<"party", f>>, -Amount[q], USD), _posting(escrow_for(q), Amount[q], USD)>>)
<1>1. Amount[q] \in Int /\ -Amount[q] \in Int /\ Amount[q] >= 0
    BY SettlementAssumption
<1>2. /\ escrow_for(q) \in Pooled /\ <<"party", f>> \notin Pooled
      /\ Balance(es, escrow_for(q), "USD") \in Int /\ Balance(es, escrow_for(q), "USD") >= 0
    BY Accounts, NotPooled, BalanceIsInt DEF Sound
<1>3. Balance(es, escrow_for(q), "USD") + Amount[q] >= 0
    BY <1>1, <1>2
<1>4. <<"party", f>> # escrow_for(q)
    BY <1>2
<1> QED BY <1>1, <1>2, <1>3, <1>4, TwoCovered DEF USD

LEMMA QuoteLine ==
    ASSUME NEW q \in Quotes, NEW a
    PROVE  OnAccount(compute_quote(q), a, USD) \in Nat
<1> DEFINE ps == compute_quote(q)
           w == [i \in DOMAIN ps |-> Moves(ps[i], a, USD)]
           parts == split(Amount[q], Policy[q].weights)
<1>1. /\ Amount[q] \in Int /\ Amount[q] >= 0
      /\ Policy[q].weights \in Seq(Nat) /\ SumFunction(Policy[q].weights) > 0
    BY SettlementAssumption
<1>2. DOMAIN parts = DOMAIN Policy[q].weights /\ \A i \in DOMAIN Policy[q].weights : parts[i] \in Int /\ parts[i] >= 0
    BY <1>1, SplitParts
<1>3. DOMAIN Policy[q].weights = 1..Len(Policy[q].weights) /\ Len(Policy[q].weights) \in Nat
    BY <1>1
<1>4. /\ DOMAIN ps \subseteq DOMAIN parts
      /\ \A i \in DOMAIN ps : ps[i] = _posting(Policy[q].accounts[i], parts[i], USD)
    BY DEF compute_quote
<1> HIDE DEF parts, ps
<1>5. IsFiniteSet(DOMAIN ps)
    <2>1. IsFiniteSet(DOMAIN parts) /\ DOMAIN ps \in SUBSET (DOMAIN parts)
        BY <1>2, <1>3, <1>4, FS_Interval
    <2> QED BY <2>1, FS_Subset
<1>6. \A i \in DOMAIN ps : w[i] \in Nat
    <2> TAKE i \in DOMAIN ps
    <2>1. ps[i].units = parts[i] /\ parts[i] \in Int /\ parts[i] >= 0
        BY <1>2, <1>4, PostingMoves
    <2> QED BY <2>1 DEF Moves
<1>7. DOMAIN w = DOMAIN ps /\ OnAccount(ps, a, USD) = SumFunctionOnSet(w, DOMAIN ps)
    BY DEF OnAccount, SumFunction
<1> HIDE DEF w
<1>8. SumFunctionOnSet(w, DOMAIN ps) \in Nat
    BY <1>5, <1>6, SumNatural
<1> QED BY <1>7, <1>8 DEF ps

LEMMA SettleCovered ==
    ASSUME NEW es, Sound(es), NEW q \in Quotes, is_funded(es, q)
    PROVE  PostingSet(SettlePostings(q)) /\ Covered(es, SettlePostings(q))
<1> DEFINE fee  == OnAccount(compute_quote(q), Fee, USD)
           pay  == OnAccount(compute_quote(q), Payee, USD)
           kept == split(pay, <<10, 90>>)
           p1 == _posting(escrow_for(q), -Amount[q], USD)
           p2 == _posting(Fee, fee, USD)
           p3 == _posting(Payee, kept[2], USD)
           p4 == _posting(Hold(q), kept[1], USD)
<1>1. SettlePostings(q) = <<p1, p2, p3, p4>>
    BY DEF SettlePostings
<1>2. fee \in Nat /\ pay \in Nat /\ Amount[q] \in Int /\ Amount[q] >= 0 /\ -Amount[q] \in Int
    BY QuoteLine, SettlementAssumption
<1> HIDE DEF fee, pay
<1>3. kept[1] \in Int /\ kept[2] \in Int /\ kept[1] >= 0
    BY <1>2, SplitPair
<1> HIDE DEF kept
<1>4. p1.units \in Int /\ p2.units \in Int /\ p3.units \in Int /\ p4.units \in Int
    BY <1>2, <1>3, PostingMoves
<1>5. ASSUME NEW a \in Pooled
      PROVE  /\ Moves(p1, a, "USD") = IF a = escrow_for(q) THEN -Amount[q] ELSE 0
             /\ Moves(p2, a, "USD") = 0 /\ Moves(p3, a, "USD") = 0
             /\ Moves(p4, a, "USD") = IF a = Hold(q) THEN kept[1] ELSE 0
    BY PostingMoves, PooledKinds, Accounts DEF USD
<1> HIDE DEF p1, p2, p3, p4
<1>6. PostingSet(<<p1, p2, p3, p4>>)
    BY <1>4, OnFour
<1>7. ASSUME NEW a \in Pooled PROVE Balance(es, a, "USD") + OnAccount(<<p1, p2, p3, p4>>, a, "USD") >= 0
    <2>1. Balance(es, a, "USD") \in Int /\ Balance(es, a, "USD") >= 0
        BY BalanceIsInt DEF Sound
    <2>2. a = escrow_for(q) => Balance(es, a, "USD") >= Amount[q]
        BY DEF is_funded, USD
    <2>3. /\ Moves(p1, a, "USD") \in Int /\ Moves(p2, a, "USD") \in Int /\ Moves(p3, a, "USD") \in Int
          /\ Moves(p4, a, "USD") \in Int
        BY <1>2, <1>3, <1>5
    <2>4. OnAccount(<<p1, p2, p3, p4>>, a, "USD")
              = Moves(p1, a, "USD") + Moves(p2, a, "USD") + Moves(p3, a, "USD") + Moves(p4, a, "USD")
        BY <1>4, <2>3, OnFour
    <2> DEFINE s == OnAccount(<<p1, p2, p3, p4>>, a, "USD")
    <2>5. s = (IF a = escrow_for(q) THEN -Amount[q] ELSE 0) + (IF a = Hold(q) THEN kept[1] ELSE 0)
        <3> DEFINE out == IF a = escrow_for(q) THEN -Amount[q] ELSE 0
                   in  == IF a = Hold(q) THEN kept[1] ELSE 0
        <3>1. s = out + 0 + 0 + in
            BY <1>5, <2>4
        <3>2. out \in Int /\ in \in Int
            BY <1>2, <1>3
        <3> HIDE DEF out, in, s
        <3>3. s = out + in
            BY <3>1, <3>2
        <3> QED BY <3>3 DEF out, in
    <2> HIDE DEF s
    <2>6. Balance(es, a, "USD") + s >= 0
        BY <1>2, <1>3, <2>1, <2>2, <2>5
    <2> QED BY <2>6 DEF s
<1> QED BY <1>1, <1>6, <1>7 DEF Covered

(* Everything an account holds moves to an account that is not pooled.     *)
LEMMA DrainCovered ==
    ASSUME NEW es, Sound(es), NEW a \in Pooled, NEW kind, kind \notin PooledKind, NEW owner
    PROVE  /\ PostingSet(<<_posting(a, -Balance(es, a, "USD"), "USD"),
                           _posting(<<kind, owner>>, Balance(es, a, "USD"), "USD")>>)
           /\ Covered(es, <<_posting(a, -Balance(es, a, "USD"), "USD"),
                            _posting(<<kind, owner>>, Balance(es, a, "USD"), "USD")>>)
<1> DEFINE b == Balance(es, a, "USD")
<1>1. b \in Int /\ -b \in Int /\ b + (-b) >= 0
    BY BalanceIsInt DEF Sound
<1>2. <<kind, owner>> \notin Pooled
    BY NotPooled
<1>3. <<kind, owner>> # a
    BY <1>2
<1>4. Balance(es, a, "USD") + (-b) >= 0
    BY <1>1
<1> HIDE DEF b
<1>5. /\ PostingSet(<<_posting(a, -b, "USD"), _posting(<<kind, owner>>, b, "USD")>>)
      /\ Covered(es, <<_posting(a, -b, "USD"), _posting(<<kind, owner>>, b, "USD")>>)
    BY <1>1, <1>2, <1>3, <1>4, TwoCovered
<1> QED BY <1>5 DEF b

LEMMA BondCovered ==
    ASSUME NEW es, Sound(es), NEW q \in Quotes, NEW f
    PROVE  /\ PostingSet(<<_posting(<<"party", f>>, -Bond, USD), _posting(BondAccount(q), Bond, USD)>>)
           /\ Covered(es, <<_posting(<<"party", f>>, -Bond, USD), _posting(BondAccount(q), Bond, USD)>>)
<1>1. Bond \in Int /\ -Bond \in Int /\ Bond >= 0
    BY SettlementAssumption
<1>2. /\ BondAccount(q) \in Pooled /\ <<"party", f>> \notin Pooled
      /\ Balance(es, BondAccount(q), "USD") \in Int /\ Balance(es, BondAccount(q), "USD") >= 0
    BY Accounts, NotPooled, BalanceIsInt DEF Sound
<1>3. Balance(es, BondAccount(q), "USD") + Bond >= 0
    BY <1>1, <1>2
<1>4. <<"party", f>> # BondAccount(q)
    BY <1>2
<1> QED BY <1>1, <1>2, <1>3, <1>4, TwoCovered DEF USD

LEMMA ResolveCovered ==
    ASSUME NEW es, Sound(es), NEW q \in Quotes, NEW f, NEW outcome
    PROVE  PostingSet(ResolvePostings(es, outcome, q, f)) /\ Covered(es, ResolvePostings(es, outcome, q, f))
<1>1. CASE outcome = "upheld"
    <2> DEFINE bond == Balance(es, BondAccount(q), USD)
               held == Balance(es, Hold(q), USD)
               p1 == _posting(Hold(q), -held, USD)
               p2 == _posting(<<"party", f>>, held, USD)
               p3 == _posting(BondAccount(q), -bond, USD)
               p4 == _posting(<<"party", f>>, bond, USD)
    <2>1. ResolvePostings(es, outcome, q, f) = <<p1, p2, p3, p4>>
        BY <1>1 DEF ResolvePostings
    <2>2. bond \in Int /\ held \in Int /\ -bond \in Int /\ -held \in Int
        BY BalanceIsInt DEF Sound
    <2>3. (bond = Balance(es, BondAccount(q), "USD")) /\ (held = Balance(es, Hold(q), "USD"))
        BY DEF USD
    <2> HIDE DEF bond, held
    <2>4. p1.units \in Int /\ p2.units \in Int /\ p3.units \in Int /\ p4.units \in Int
        BY <2>2, PostingMoves
    <2>5. ASSUME NEW a \in Pooled
          PROVE  /\ Moves(p1, a, "USD") = IF a = Hold(q) THEN -held ELSE 0
                 /\ Moves(p2, a, "USD") = 0 /\ Moves(p4, a, "USD") = 0
                 /\ Moves(p3, a, "USD") = IF a = BondAccount(q) THEN -bond ELSE 0
        BY PostingMoves, PooledKinds, Accounts DEF USD
    <2> HIDE DEF p1, p2, p3, p4
    <2>6. PostingSet(<<p1, p2, p3, p4>>)
        BY <2>4, OnFour
    <2>7. ASSUME NEW a \in Pooled PROVE Balance(es, a, "USD") + OnAccount(<<p1, p2, p3, p4>>, a, "USD") >= 0
        <3>1. Balance(es, a, "USD") \in Int /\ Balance(es, a, "USD") >= 0 /\ Hold(q) # BondAccount(q)
            BY BalanceIsInt, Accounts DEF Sound
        <3>2. /\ Moves(p1, a, "USD") \in Int /\ Moves(p2, a, "USD") \in Int /\ Moves(p3, a, "USD") \in Int
              /\ Moves(p4, a, "USD") \in Int
            BY <2>2, <2>5
        <3>3. OnAccount(<<p1, p2, p3, p4>>, a, "USD")
                  = Moves(p1, a, "USD") + Moves(p2, a, "USD") + Moves(p3, a, "USD") + Moves(p4, a, "USD")
            BY <2>4, <3>2, OnFour
        <3> DEFINE s == OnAccount(<<p1, p2, p3, p4>>, a, "USD")
        <3>4. s = (IF a = Hold(q) THEN -held ELSE 0) + (IF a = BondAccount(q) THEN -bond ELSE 0)
            BY <2>2, <2>5, <3>2, <3>3
        <3> HIDE DEF s
        <3>5. Balance(es, a, "USD") + s >= 0
            BY <2>2, <2>3, <3>1, <3>4
        <3> QED BY <3>5 DEF s
    <2> QED BY <2>1, <2>6, <2>7 DEF Covered
<1>2. CASE outcome # "upheld"
    <2>1. ResolvePostings(es, outcome, q, f)
              = <<_posting(BondAccount(q), -Balance(es, BondAccount(q), "USD"), "USD"),
                  _posting(<<"payee", "">>, Balance(es, BondAccount(q), "USD"), "USD")>>
        BY <1>2 DEF ResolvePostings, USD, Payee
    <2>2. BondAccount(q) \in Pooled /\ "payee" \notin PooledKind
        BY Accounts
    <2> QED BY <2>1, <2>2, DrainCovered
<1> QED BY <1>1, <1>2

(* A pooled account drained by the first posting of a set, whose others    *)
(* touch none.                                                             *)
LEMMA DrainFirstCovered ==
    ASSUME NEW es, Sound(es), NEW a1 \in Pooled, NEW u \in Int, Balance(es, a1, "USD") + u >= 0, NEW qs, Untouching(qs)
    PROVE  /\ PostingSet(<<_posting(a1, u, "USD")>> \o qs)
           /\ Covered(es, <<_posting(a1, u, "USD")>> \o qs)
<1> DEFINE p == _posting(a1, u, "USD")
<1>1. p.units \in Int /\ \A a : Moves(p, a, "USD") = IF a1 = a THEN u ELSE 0
    BY PostingMoves
<1> HIDE DEF p
<1>2. PostingSet(<<p>>) /\ PostingSet(qs)
    BY <1>1, OnOne DEF Untouching
<1>3. PostingSet(<<p>> \o qs)
    BY <1>2, OnConcat
<1>4. ASSUME NEW a \in Pooled PROVE Balance(es, a, "USD") + OnAccount(<<p>> \o qs, a, "USD") >= 0
    <2>1. Balance(es, a, "USD") \in Int /\ Balance(es, a, "USD") >= 0
        BY BalanceIsInt DEF Sound
    <2>2. OnAccount(qs, a, "USD") = 0 /\ OnAccount(<<p>>, a, "USD") = IF a1 = a THEN u ELSE 0
        BY <1>1, UntouchingMovesNothing, OnOne
    <2>3. OnAccount(<<p>>, a, "USD") \in Int /\ OnAccount(qs, a, "USD") \in Int
        BY <2>2
    <2>4. OnAccount(<<p>> \o qs, a, "USD") = OnAccount(<<p>>, a, "USD") + OnAccount(qs, a, "USD")
        BY <1>2, <2>3, OnConcat
    <2>5. OnAccount(<<p>> \o qs, a, "USD") = IF a1 = a THEN u ELSE 0
        BY <2>2, <2>4
    <2> HIDE DEF p
    <2> QED BY <2>1, <2>5
<1> QED BY <1>3, <1>4 DEF Covered, p

LEMMA IntelligencePosts ==
    ASSUME Sound(entries), NEW q \in Quotes, NEW f, NEW pass \in BOOLEAN,
           NEW refund \in {<<100, 0>>, <<50, 50>>}, settle_intelligence(q, f, pass, refund)
    PROVE  \E ps : entries' = post(entries, ps, <<"intel", q>>) /\ PostingSet(ps) /\ Covered(entries, ps)
<1> DEFINE leg    == Legs(q)
           esc    == escrow_for(q)
           funded == Balance(entries, esc, USD)
           back   == split(leg[2], refund)
           party  == <<"party", f>>
           first  == <<_posting(esc, -funded, USD), _posting(<<"provider", "">>, leg[1], USD), _posting(Fee, leg[3], USD)>>
           rest   == <<_posting(<<"provider", "">>, leg[1], USD), _posting(Fee, leg[3], USD)>>
           paid   == IF pass THEN <<_posting(Payee, leg[2], USD)>>
                     ELSE If(back[2] > 0, _posting(Fee, back[2], USD)) \o If(back[1] > 0, _posting(party, back[1], USD))
           change == If(funded > Amount[q], _posting(party, funded - Amount[q], USD))
<1>1. entries' = post(entries, first \o paid \o change, <<"intel", q>>)
    BY DEF settle_intelligence
<1>2. /\ leg[1] \in Int /\ leg[2] \in Int /\ leg[3] \in Int /\ Amount[q] \in Int
      /\ funded \in Int /\ funded = Balance(entries, esc, "USD") /\ esc \in Pooled
    BY LegsAreInt, SettlementAssumption, BalanceIsInt, Accounts DEF Sound, USD
<1> HIDE DEF leg, funded, esc
<1>3. back[1] \in Int /\ back[2] \in Int
    <2>1. CASE refund = <<100, 0>>
        BY <1>2, <2>1, SplitPair
    <2>2. CASE refund = <<50, 50>>
        BY <1>2, <2>2, SplitPair
    <2> QED BY <2>1, <2>2
<1> HIDE DEF back
<1>4. /\ Plain(_posting(<<"provider", "">>, leg[1], USD)) /\ Plain(_posting(Fee, leg[3], USD))
      /\ Plain(_posting(Payee, leg[2], USD)) /\ Plain(_posting(Fee, back[2], USD))
      /\ Plain(_posting(party, back[1], USD)) /\ Plain(_posting(party, funded - Amount[q], USD))
    <2>1. /\ "provider" \notin PooledKind /\ "fee" \notin PooledKind /\ "payee" \notin PooledKind
          /\ "party" \notin PooledKind
          /\ Fee = <<"fee", "">> /\ Payee = <<"payee", "">> /\ funded - Amount[q] \in Int
        BY <1>2 DEF PooledKind, Fee, Payee
    <2> QED BY <1>2, <1>3, <2>1, PlainPosting
<1>5. Untouching(rest) /\ Untouching(paid) /\ Untouching(change)
    <2>1. Untouching(rest)
        BY <1>4, UntouchingTuples
    <2>2. Untouching(change)
        BY <1>4, UntouchingIf
    <2>3. CASE pass
        <3>1. Untouching(<<_posting(Payee, leg[2], USD)>>)
            BY <1>4, UntouchingTuples
        <3> QED BY <2>1, <2>2, <2>3, <3>1
    <2>4. CASE ~pass
        <3> DEFINE x == If(back[2] > 0, _posting(Fee, back[2], USD))
                   y == If(back[1] > 0, _posting(party, back[1], USD))
        <3>1. Untouching(x) /\ Untouching(y)
            BY <1>4, UntouchingIf
        <3>2. paid = x \o y
            BY <2>4
        <3> HIDE DEF x, y
        <3>3. Untouching(x \o y)
            BY <3>1, UntouchingConcat
        <3> QED BY <2>1, <2>2, <3>2, <3>3
    <2> QED BY <2>3, <2>4
<1> DEFINE head == <<_posting(esc, -funded, USD)>>
           tail == (rest \o paid) \o change
<1>6. first \o paid \o change = head \o tail
    <2>1. first = head \o rest
        BY TupleConcat
    <2> HIDE DEF first, rest, paid, change, head
    <2>2. IsSequence(rest) /\ IsSequence(paid) /\ IsSequence(change) /\ IsSequence(head)
        BY <1>5, TupleSequences DEF Untouching, PostingSet, head
    <2> HIDE DEF head
    <2>3. PICK A : head \in Seq(A)
        BY <2>2 DEF IsSequence
    <2>4. PICK B : rest \in Seq(B)
        BY <2>2 DEF IsSequence
    <2>5. PICK C : paid \in Seq(C)
        BY <2>2 DEF IsSequence
    <2>6. PICK E : change \in Seq(E)
        BY <2>2 DEF IsSequence
    <2> DEFINE U == A \cup B \cup C \cup E
    <2>7. head \in Seq(U) /\ rest \in Seq(U) /\ paid \in Seq(U) /\ change \in Seq(U)
        BY <2>3, <2>4, <2>5, <2>6
    <2> HIDE DEF U
    <2>8. ((head \o rest) \o paid) \o change = head \o ((rest \o paid) \o change)
        <3>1. (head \o rest) \o paid = head \o (rest \o paid)
            BY <2>7, ConcatRegroups
        <3>2. rest \o paid \in Seq(U)
            BY <2>7
        <3>3. (head \o (rest \o paid)) \o change = head \o ((rest \o paid) \o change)
            <4> DEFINE middle == rest \o paid
            <4>1. middle \in Seq(U) /\ head \in Seq(U) /\ change \in Seq(U)
                BY <2>7, <3>2
            <4> HIDE DEF middle
            <4>2. (head \o middle) \o change = head \o (middle \o change)
                BY <4>1, ConcatRegroups
            <4> QED BY <4>2 DEF middle
        <3> QED BY <3>1, <3>3
    <2> QED BY <2>1, <2>8
<1> HIDE DEF rest, paid, change
<1>7. Untouching(tail)
    BY <1>5, UntouchingConcat
<1> HIDE DEF tail
<1>8. -funded \in Int /\ Balance(entries, esc, "USD") + (-funded) >= 0
    BY <1>2
<1>9. PostingSet(head \o tail) /\ Covered(entries, head \o tail)
    BY <1>2, <1>7, <1>8, DrainFirstCovered DEF USD
<1> HIDE DEF head, first
<1> QED BY <1>1, <1>6, <1>9

-----------------------------------------------------------------------------
(* The memos of the chain: the trail the audit and every retry go by.      *)

AdapterKind == {"adapter-fund", "adapter-payout"}
OnceKind == {"settle", "tax", "usage"} \cup AdapterKind

OnceEach(es) == \A i, j \in DOMAIN es : i < j /\ es[i].memo[1] \in OnceKind => es[i].memo # es[j].memo

(* Every settlement was authorized by a receipt ...                        *)
Authorized(memo, rs) == memo = <<"settle", memo[2]>> /\ memo[2] \in authorized_quote_shas(rs)
PaidForWork(es, rs) == \A i \in DOMAIN es : es[i].memo[1] = "settle" => Authorized(es[i].memo, rs)

(* ... and a live adapter has seen every record an adapter ever posted.    *)
AdapterKnows(es, sn) == sn # None => \A i \in DOMAIN es : es[i].memo[1] \in AdapterKind => es[i].memo \in sn

Trail(es, rs, sn) == OnceEach(es) /\ PaidForWork(es, rs) /\ AdapterKnows(es, sn)

(* A record that may be added under this memo.                             *)
Fresh(es, memo, rs, sn) ==
    /\ memo[1] \in OnceKind => ~Posted(es, memo)
    /\ memo[1] = "settle" => Authorized(memo, rs)
    /\ memo[1] \in AdapterKind /\ sn # None => memo \in sn

LEMMA RecordTrail ==
    ASSUME NEW es, IsSequence(es), NEW rs, NEW sn, Trail(es, rs, sn), NEW r, Fresh(es, r.memo, rs, sn)
    PROVE  Trail(Append(es, r), rs, sn)
<1> DEFINE n == Len(es)
           fs == Append(es, r)
<1>1. /\ n \in Nat /\ DOMAIN es = 1..n /\ DOMAIN fs = 1..(n + 1)
      /\ \A i \in 1..n : fs[i] = es[i]
      /\ fs[n + 1] = r
    BY AppendSequence
<1> HIDE DEF n, fs
<1>2. OnceEach(fs)
    <2> SUFFICES ASSUME NEW i \in DOMAIN fs, NEW j \in DOMAIN fs, i < j, fs[i].memo[1] \in OnceKind
                 PROVE  fs[i].memo # fs[j].memo
        BY DEF OnceEach
    <2>1. i \in 1..n /\ fs[i] = es[i]
        BY <1>1
    <2>2. CASE j \in 1..n
        <3>1. fs[j] = es[j] /\ i \in DOMAIN es /\ j \in DOMAIN es
            BY <1>1, <2>1, <2>2
        <3> QED BY <2>1, <3>1 DEF Trail, OnceEach
    <2>3. CASE j = n + 1
        <3>1. fs[j] = r
            BY <1>1, <2>3
        <3>2. ASSUME es[i].memo = r.memo PROVE FALSE
            BY <1>1, <2>1, <3>2 DEF Fresh, Posted
        <3> QED BY <2>1, <3>1, <3>2
    <2> QED BY <1>1, <2>2, <2>3
<1>3. PaidForWork(fs, rs)
    <2> SUFFICES ASSUME NEW i \in DOMAIN fs, fs[i].memo[1] = "settle" PROVE Authorized(fs[i].memo, rs)
        BY DEF PaidForWork
    <2>1. CASE i \in 1..n
        BY <1>1, <2>1 DEF Trail, PaidForWork
    <2>2. CASE i = n + 1
        BY <1>1, <2>2 DEF Fresh
    <2> QED BY <1>1, <2>1, <2>2
<1>4. AdapterKnows(fs, sn)
    <2> SUFFICES ASSUME sn # None, NEW i \in DOMAIN fs, fs[i].memo[1] \in AdapterKind PROVE fs[i].memo \in sn
        BY DEF AdapterKnows
    <2>1. CASE i \in 1..n
        BY <1>1, <2>1 DEF Trail, AdapterKnows
    <2>2. CASE i = n + 1
        BY <1>1, <2>2 DEF Fresh
    <2> QED BY <1>1, <2>1, <2>2
<1> QED BY <1>2, <1>3, <1>4 DEF Trail, fs

-----------------------------------------------------------------------------
(* The inductive invariant, and the step of a part that posts one record.  *)

AllGroup(es) == \A i \in DOMAIN es : es[i].memo = <<"group">>

WriterFields == {"pc", "staged", "at", "bal", "committed", "nstaged", "raised"}

WriterExact(es, w) ==
    /\ w = [f \in WriterFields |-> w[f]]
    /\ IsSequence(w.staged) /\ \A i \in DOMAIN w.staged : w.staged[i] \in StagedSets
    /\ AllGroup(es) => w.bal = balances(es)

PlaneOK(es, rs, sn, w) == Sound(es) /\ Trail(es, rs, sn) /\ WriterExact(es, w)

Posts(es, fs, rs, sn) ==
    \E ps, memo : /\ fs = post(es, ps, memo) /\ PostingSet(ps) /\ Covered(es, ps)
                  /\ Fresh(es, memo, rs, sn) /\ memo[1] # "group"

LEMMA PostKeeps ==
    ASSUME NEW es, NEW fs, NEW rs, NEW sn, NEW w, PlaneOK(es, rs, sn, w), Posts(es, fs, rs, sn)
    PROVE  PlaneOK(fs, rs, sn, w)
<1>1. PICK ps, memo : /\ fs = post(es, ps, memo) /\ PostingSet(ps) /\ Covered(es, ps)
                      /\ Fresh(es, memo, rs, sn) /\ memo[1] # "group"
    BY DEF Posts
<1>2. Sound(fs)
    BY <1>1, PostSound DEF PlaneOK
<1>3. CASE is_balanced(ps)
    <2> DEFINE r == [memo |-> memo, postings |-> ps]
    <2>1. fs = Append(es, r) /\ r.memo = memo
        BY <1>1, <1>3 DEF post
    <2> HIDE DEF r
    <2>2. IsSequence(es)
        BY DEF PlaneOK, Sound, RewardChain
    <2>3. Trail(fs, rs, sn)
        BY <1>1, <2>1, <2>2, RecordTrail DEF PlaneOK
    <2>4. ~AllGroup(fs)
        <3>1. Len(es) + 1 \in DOMAIN fs /\ fs[Len(es) + 1].memo[1] # "group"
            BY <1>1, <2>1, <2>2, AppendSequence
        <3> QED BY <3>1 DEF AllGroup
    <2> QED BY <1>2, <2>3, <2>4 DEF PlaneOK, WriterExact
<1>4. CASE ~is_balanced(ps)
    BY <1>1, <1>4 DEF post
<1> QED BY <1>3, <1>4

(* A record whose memo needs no guard.                                     *)
LEMMA PostsPlainly ==
    ASSUME NEW es, NEW ps, NEW memo, PostingSet(ps), Covered(es, ps), memo[1] \notin OnceKind, memo[1] # "group",
           NEW rs, NEW sn
    PROVE  Posts(es, post(es, ps, memo), rs, sn)
<1>1. Fresh(es, memo, rs, sn)
    BY DEF Fresh, OnceKind
<1> QED BY <1>1 DEF Posts

-----------------------------------------------------------------------------
(* The functions of the paid run                                           *)

LEMMA FundPosts ==
    ASSUME Sound(entries), NEW q \in Quotes, NEW f, NEW memo, memo[1] \notin OnceKind, memo[1] # "group",
           entries' = fund_escrow(entries, <<"party", f>>, Amount[q], USD, escrow_for(q), memo)
    PROVE  Posts(entries, entries', receipts, seen)
<1> DEFINE ps == <<_posting(<<"party", f>>, -Amount[q], USD), _posting(escrow_for(q), Amount[q], USD)>>
<1>1. entries' = post(entries, ps, memo)
    BY DEF fund_escrow
<1>2. PostingSet(ps) /\ Covered(entries, ps)
    BY FundCovered
<1> HIDE DEF ps
<1> QED BY <1>1, <1>2, PostsPlainly

LEMMA SettlePosts ==
    ASSUME Sound(entries), NEW r \in receipts, NEW env \in Envelopes, settle(r, env)
    PROVE  Posts(entries, entries', receipts, seen)
<1> DEFINE q == env.quote
           memo == <<"settle", q>>
<1>0. q \in Quotes
    BY DEF Envelopes
<1>1. /\ settle_refusal(entries, r, env) = "ok"
      /\ entries' = post(entries, SettlePostings(q), memo)
    BY DEF settle
<1>2. /\ verify_receipt(r) /\ r.validation = "pass" /\ verify_quote(env) /\ r.quote = q
      /\ ~_already_settled(entries, q) /\ is_funded(entries, q)
    BY <1>1 DEF settle_refusal
<1>3. PostingSet(SettlePostings(q)) /\ Covered(entries, SettlePostings(q))
    BY <1>0, <1>2, SettleCovered
<1>4. q \in authorized_quote_shas(receipts)
    BY <1>2 DEF authorized_quote_shas, verify_quote
<1>5. memo[1] = "settle" /\ memo[2] = q
    OBVIOUS
<1>6. Fresh(entries, memo, receipts, seen)
    BY <1>2, <1>4, <1>5 DEF Fresh, Authorized, AdapterKind, _already_settled
<1> HIDE DEF memo, q
<1> QED BY <1>1, <1>3, <1>5, <1>6 DEF Posts

LEMMA ReleasePosts ==
    ASSUME Sound(entries), NEW q \in Quotes, release_holdback(q)
    PROVE  Posts(entries, entries', receipts, seen)
<1> DEFINE a == Hold(q)
           ps == <<_posting(a, -Balance(entries, a, "USD"), "USD"), _posting(<<"payee", "">>, Balance(entries, a, "USD"), "USD")>>
           memo == <<"release-hold", q>>
<1>1. entries' = post(entries, ps, memo)
    BY DEF release_holdback, USD, Payee
<1>2. a \in Pooled /\ "payee" \notin PooledKind
    BY Accounts
<1>3. memo[1] \notin OnceKind /\ memo[1] # "group"
    BY DEF OnceKind, AdapterKind
<1> HIDE DEF a, memo
<1>4. PostingSet(ps) /\ Covered(entries, ps)
    BY <1>2, DrainCovered
<1> HIDE DEF ps
<1> QED BY <1>1, <1>3, <1>4, PostsPlainly

LEMMA DisputePosts ==
    ASSUME Sound(entries), NEW q \in Quotes, NEW f, open_dispute(q, f)
    PROVE  Posts(entries, entries', receipts, seen)
<1> DEFINE ps == <<_posting(<<"party", f>>, -Bond, USD), _posting(BondAccount(q), Bond, USD)>>
           memo == <<"dispute-open", q>>
<1>1. entries' = post(entries, ps, memo)
    BY DEF open_dispute
<1>2. PostingSet(ps) /\ Covered(entries, ps)
    BY BondCovered
<1>3. memo[1] \notin OnceKind /\ memo[1] # "group"
    BY DEF OnceKind, AdapterKind
<1> HIDE DEF ps, memo
<1> QED BY <1>1, <1>2, <1>3, PostsPlainly

LEMMA ResolvePosts ==
    ASSUME Sound(entries), NEW q \in Quotes, NEW f, NEW doc, NEW approvals, NEW m, resolve(doc, approvals, m, q, f)
    PROVE  Posts(entries, entries', receipts, seen)
<1> DEFINE ps == ResolvePostings(entries, doc, q, f)
           memo == <<"dispute-resolve", doc, q>>
<1>1. entries' = post(entries, ps, memo)
    BY DEF resolve
<1>2. PostingSet(ps) /\ Covered(entries, ps)
    BY ResolveCovered
<1>3. memo[1] \notin OnceKind /\ memo[1] # "group"
    BY DEF OnceKind, AdapterKind
<1> HIDE DEF ps, memo
<1> QED BY <1>1, <1>2, <1>3, PostsPlainly

LEMMA IntelligenceKeeps ==
    ASSUME Sound(entries), NEW q \in Quotes, NEW f, NEW pass \in BOOLEAN,
           NEW refund \in {<<100, 0>>, <<50, 50>>}, settle_intelligence(q, f, pass, refund)
    PROVE  Posts(entries, entries', receipts, seen)
<1> DEFINE memo == <<"intel", q>>
<1>1. PICK ps : entries' = post(entries, ps, memo) /\ PostingSet(ps) /\ Covered(entries, ps)
    BY IntelligencePosts
<1>2. memo[1] \notin OnceKind /\ memo[1] # "group"
    BY DEF OnceKind, AdapterKind
<1> HIDE DEF memo
<1> QED BY <1>1, <1>2, PostsPlainly

-----------------------------------------------------------------------------
(* Collecting, markets and the adapters                                    *)

LEMMA BreakdownUntouching ==
    ASSUME NEW c \in Charges
    PROVE  Untouching(c.breakdown) /\ c.total \in Int
<1> DEFINE x == c.breakdown[1].units
           y == c.breakdown[2].units
           z == c.breakdown[3].units
           pq == [total |-> c.total, llm |-> x, tool_fee |-> y, marketplace_fee |-> z]
<1>1. x \in Int /\ y \in Int /\ z \in Int /\ c.total \in Int /\ c = charge_from_price(pq)
    BY CollectionAssumption
<1>2. charge_from_price(pq).breakdown
          = <<_posting(<<"substrate", "">>, x, "USD"), _posting(<<"skill_author", "">>, y, "USD"),
              _posting(<<"marketplace", "">>, z, "USD")>>
    BY DEF charge_from_price
<1> HIDE DEF x, y, z, pq
<1>3. /\ Plain(_posting(<<"substrate", "">>, x, "USD")) /\ Plain(_posting(<<"skill_author", "">>, y, "USD"))
      /\ Plain(_posting(<<"marketplace", "">>, z, "USD"))
    BY <1>1, PlainPosting DEF PooledKind
<1>4. Untouching(charge_from_price(pq).breakdown)
    BY <1>2, <1>3, UntouchingTuples
<1> QED BY <1>1, <1>4

LEMMA CollectPosts ==
    ASSUME Sound(entries), NEW c \in Charges, NEW k, collect_ledger(c, k)
    PROVE  Posts(entries, entries', receipts, seen)
<1> DEFINE p == _posting(<<"operator", "">>, -c.total, USDollar)
           memo == <<"tax", k>>
<1>1. entries' = post(entries, <<p>> \o c.breakdown, memo) /\ ~Posted(entries, memo)
    BY DEF collect_ledger, SplitPostings
<1>2. Untouching(c.breakdown) /\ -c.total \in Int
    BY BreakdownUntouching
<1>3. Plain(p)
    BY <1>2, PlainPosting DEF PooledKind
<1>4. Untouching(<<p>>)
    BY <1>3, UntouchingTuples
<1> DEFINE ps == <<p>> \o c.breakdown
<1> HIDE DEF p
<1>5. Untouching(ps)
    BY <1>2, <1>4, UntouchingConcat
<1>6. PostingSet(ps) /\ Covered(entries, ps)
    BY <1>5, UntouchingCovered
<1>7. memo[1] = "tax"
    OBVIOUS
<1> HIDE DEF memo, ps
<1>8. Fresh(entries, memo, receipts, seen)
    BY <1>1, <1>7 DEF Fresh, AdapterKind
<1> QED BY <1>1, <1>6, <1>7, <1>8 DEF Posts, ps

LEMMA DebitPosts ==
    ASSUME Sound(entries), NEW c \in Charges, NEW k, debit_usage(c, k)
    PROVE  Posts(entries, entries', receipts, seen)
<1> DEFINE u == -c.total
           qs == c.breakdown
           ps == <<_posting(Credit, u, "USD")>> \o qs
           memo == <<"usage", k>>
<1>1. entries' = post(entries, ps, memo) /\ ~Posted(entries, memo)
    BY DEF debit_usage, SplitPostings, USDollar
<1>2. Untouching(qs) /\ u \in Int /\ c.total \in Int
    BY BreakdownUntouching
<1>3. Balance(entries, Credit, "USD") >= c.total /\ Balance(entries, Credit, "USD") \in Int
    BY BalanceIsInt DEF debit_usage, admits, CreditBalance, USDollar, Sound
<1>4. Balance(entries, Credit, "USD") + u >= 0
    BY <1>2, <1>3
<1>5. memo[1] = "usage" /\ Credit \in Pooled
    BY Accounts
<1> HIDE DEF memo, u, qs
<1>6. PostingSet(ps) /\ Covered(entries, ps)
    BY <1>2, <1>4, <1>5, DrainFirstCovered
<1> HIDE DEF ps
<1>7. Fresh(entries, memo, receipts, seen)
    BY <1>1, <1>5 DEF Fresh, AdapterKind
<1> QED BY <1>1, <1>5, <1>6, <1>7 DEF Posts

LEMMA TopUpPosts ==
    ASSUME Sound(entries), NEW ref, topup(TopUpUnits, ref)
    PROVE  Posts(entries, entries', receipts, seen)
<1> DEFINE u == TopUpUnits
           b == <<"topup", "stripe">>
           ps == <<_posting(Credit, u, "USD"), _posting(b, -u, "USD")>>
           memo == <<"topup", IF ref = None THEN "stripe" ELSE ref>>
<1>1. entries' = post(entries, ps, memo)
    BY DEF topup, USDollar
<1>2. u \in Int /\ u >= 0 /\ -u \in Int
    BY CollectionAssumption
<1>3. Credit \in Pooled /\ b \notin Pooled
    BY Accounts, NotPooled
<1>4. memo[1] \notin OnceKind /\ memo[1] # "group"
    BY DEF OnceKind, AdapterKind
<1> HIDE DEF u, b, memo
<1>5. Balance(entries, Credit, "USD") + u >= 0
    <2>1. Balance(entries, Credit, "USD") \in Int /\ Balance(entries, Credit, "USD") >= 0
        BY <1>3, BalanceIsInt DEF Sound
    <2> QED BY <1>2, <2>1
<1>6. PostingSet(ps) /\ Covered(entries, ps)
    BY <1>2, <1>3, <1>5, TwoCovered
<1> HIDE DEF ps
<1> QED BY <1>1, <1>4, <1>6, PostsPlainly

(* The adapter's set grows by the memo it posts under.                     *)
LEMMA AdapterKeeps ==
    ASSUME PlaneOK(entries, receipts, seen, writer), NEW memo, memo[1] \in AdapterKind, NEW ps, Untouching(ps),
           _post(memo, ps)
    PROVE  PlaneOK(entries', receipts, seen', writer)
<1>1. /\ seen # None /\ memo \notin seen /\ entries' = post(entries, ps, memo) /\ seen' = seen \cup {memo}
    BY DEF _post
<1>2. PlaneOK(entries, receipts, seen', writer)
    BY <1>1 DEF PlaneOK, Trail, AdapterKnows
<1>3. PostingSet(ps) /\ Covered(entries, ps)
    BY UntouchingCovered DEF PlaneOK
<1>4. ~Posted(entries, memo)
    BY <1>1 DEF PlaneOK, Trail, AdapterKnows, Posted
<1>5. memo[1] # "settle" /\ memo[1] # "group" /\ memo \in seen'
    BY <1>1 DEF AdapterKind
<1>6. Fresh(entries, memo, receipts, seen')
    BY <1>4, <1>5 DEF Fresh
<1>7. Posts(entries, entries', receipts, seen')
    BY <1>1, <1>3, <1>5, <1>6 DEF Posts
<1> QED BY <1>2, <1>7, PostKeeps

LEMMA FundPayoutKeeps ==
    ASSUME PlaneOK(entries, receipts, seen, writer), NEW k, NEW u \in Units, fund(k, u) \/ payout(k, u)
    PROVE  PlaneOK(entries', receipts, seen', writer)
<1>0. u \in Int /\ -u \in Int
    BY CollectionAssumption
<1>1. CASE fund(k, u)
    <2> DEFINE memo == <<"adapter-fund", k>>
               p == _posting(<<"party", "p">>, u, USDollar)
               q == _posting(<<"fund", "external">>, -u, USDollar)
    <2>1. _post(memo, <<p, q>>) /\ memo[1] \in AdapterKind
        BY <1>1 DEF fund, AdapterKind
    <2>2. Plain(p) /\ Plain(q)
        BY <1>0, PlainPosting DEF PooledKind
    <2> HIDE DEF memo, p, q
    <2>3. Untouching(<<p, q>>)
        BY <2>2, UntouchingTuples
    <2> QED BY <2>1, <2>3, AdapterKeeps
<1>2. CASE payout(k, u)
    <2> DEFINE memo == <<"adapter-payout", k>>
               p == _posting(<<"party", "p">>, u, USDollar)
               q == _posting(<<"payout", "external">>, -u, USDollar)
    <2>1. _post(memo, <<p, q>>) /\ memo[1] \in AdapterKind
        BY <1>2 DEF payout, AdapterKind
    <2>2. Plain(p) /\ Plain(q)
        BY <1>0, PlainPosting DEF PooledKind
    <2> HIDE DEF memo, p, q
    <2>3. Untouching(<<p, q>>)
        BY <2>2, UntouchingTuples
    <2> QED BY <2>1, <2>3, AdapterKeeps
<1> QED BY <1>1, <1>2

(* A record that touches no pooled account and needs no guard.             *)
LEMMA UntouchingPosts ==
    ASSUME Sound(entries), NEW ps, Untouching(ps), NEW memo, memo[1] \notin OnceKind, memo[1] # "group",
           entries' = post(entries, ps, memo)
    PROVE  Posts(entries, entries', receipts, seen)
<1>1. PostingSet(ps) /\ Covered(entries, ps)
    BY UntouchingCovered
<1> QED BY <1>1, PostsPlainly

LEMMA BoundaryPosts ==
    ASSUME Sound(entries), NEW u \in Units, settle_at_boundary(u)
    PROVE  Posts(entries, entries', receipts, seen)
<1> DEFINE b == split_cents(u)
           p == _posting(<<"party", "p">>, -u, USDollar)
           q == _posting(<<"party", "d">>, b.cents, USDollar)
           d == _posting(Dust, b.dust, USDollar)
           ps == <<p, q>> \o If(b.dust # 0, d)
           memo == <<"boundary">>
<1>0. u \in Int /\ -u \in Int
    BY CollectionAssumption
<1>1. b.cents \in Int /\ b.dust \in Int
    <2> DEFINE n == RoundHalfEven(u, 100)
    <2>1. n \in Int
        BY <1>0, RoundedIsInt
    <2>2. b.cents = 100 * n /\ b.dust = u - 100 * n
        BY DEF split_cents
    <2> HIDE DEF n
    <2> QED BY <1>0, <2>1, <2>2
<1>2. entries' = post(entries, ps, memo)
    BY DEF settle_at_boundary, boundary_posting
<1>3. memo[1] \notin OnceKind /\ memo[1] # "group"
    BY DEF OnceKind, AdapterKind
<1> HIDE DEF b, memo
<1>4. Plain(p) /\ Plain(q) /\ Plain(d)
    BY <1>0, <1>1, PlainPosting DEF PooledKind, Dust
<1> HIDE DEF p, q, d
<1>5. Untouching(<<p, q>>) /\ Untouching(If(b.dust # 0, d))
    BY <1>4, UntouchingTuples, UntouchingIf
<1>6. Untouching(ps)
    BY <1>5, UntouchingConcat
<1> HIDE DEF ps
<1> QED BY <1>2, <1>3, <1>6, UntouchingPosts

LEMMA SweepDustPosts ==
    ASSUME Sound(entries), sweep_dust
    PROVE  Posts(entries, entries', receipts, seen)
<1> DEFINE bal == Balance(entries, Dust, USDollar)
           p == _posting(Dust, -bal, USDollar)
           q == _posting(<<"treasury", "">>, bal, USDollar)
           memo == <<"dust-sweep">>
<1>1. entries' = post(entries, <<p, q>>, memo)
    BY DEF sweep_dust
<1>2. bal \in Int /\ -bal \in Int
    BY BalanceIsInt DEF Sound
<1>3. memo[1] \notin OnceKind /\ memo[1] # "group"
    BY DEF OnceKind, AdapterKind
<1> HIDE DEF bal, memo
<1>4. Plain(p) /\ Plain(q)
    BY <1>2, PlainPosting DEF PooledKind, Dust
<1> HIDE DEF p, q
<1>5. Untouching(<<p, q>>)
    BY <1>4, UntouchingTuples
<1> QED BY <1>1, <1>3, <1>5, UntouchingPosts

LEMMA CostIsInt ==
    ASSUME NEW n \in Int, NEW m \in Int, NEW rate, rate.in_per_1k \in Int, rate.out_per_1k \in Int
    PROVE  llm_cost(n, m, rate) \in Int
<1> DEFINE x == rate.in_per_1k * n
           y == rate.out_per_1k * m
<1>1. x \in Int /\ y \in Int
    OBVIOUS
<1>2. llm_cost(n, m, rate) = RoundHalfEven(x * 1, 1000) + RoundHalfEven(y * 1, 1000)
    BY DEF llm_cost, scale
<1> HIDE DEF x, y
<1>3. RoundHalfEven(x * 1, 1000) \in Int /\ RoundHalfEven(y * 1, 1000) \in Int
    BY <1>1, RoundedIsInt
<1> QED BY <1>2, <1>3

LEMMA SettleableUnits ==
    ASSUME NEW m \in Meters, NEW b \in ProviderBills, NEW r \in Rates, NEW tol, NEW cost_tol,
           settleable(m, b, r.rate, r.floor, r.cap, tol, cost_tol).settleable
    PROVE  settleable(m, b, r.rate, r.floor, r.cap, tol, cost_tol).units \in Int
<1> DEFINE est == llm_cost(m.in, m.out, r.rate)
           yes(u) == [settleable |-> TRUE, reason |-> "ok", units |-> _clamp(u, r.floor, r.cap)]
           no(why) == [settleable |-> FALSE, reason |-> why, units |-> 0]
           v == settleable(m, b, r.rate, r.floor, r.cap, tol, cost_tol)
<1>1. /\ m.in \in Int /\ m.out \in Int /\ r.floor \in Int /\ r.cap \in Int
      /\ r.rate.in_per_1k \in Int /\ r.rate.out_per_1k \in Int
      /\ b = None \/ b.cost = None \/ b.cost \in Int
    BY CollectionAssumption
<1>2. est \in Int
    BY <1>1, CostIsInt
<1>3. v = yes(est) \/ (v = yes(b.cost) /\ b # None /\ b.cost # None) \/ \E why : v = no(why)
    BY DEF settleable
<1>4. \A u \in Int : _clamp(u, r.floor, r.cap) \in Int
    BY <1>1 DEF _clamp
<1>5. CASE v = yes(est)
    BY <1>2, <1>4, <1>5
<1>6. CASE v = yes(b.cost) /\ b # None /\ b.cost # None
    BY <1>1, <1>4, <1>6
<1>7. CASE \E why : v = no(why)
    BY <1>7
<1> QED BY <1>3, <1>5, <1>6, <1>7

LEMMA ReimbursePosts ==
    ASSUME Sound(entries), NEW m \in Meters, NEW b \in ProviderBills, NEW r \in Rates, reimburse(m, b, r)
    PROVE  Posts(entries, entries', receipts, seen)
<1> DEFINE v == settleable(m, b, r.rate, r.floor, r.cap, <<5, 100>>, <<10, 100>>)
           p == _posting(<<"party", "p">>, -v.units, USDollar)
           q == _posting(<<"provider", "">>, v.units, USDollar)
           memo == <<"reimburse", m, b>>
<1>1. entries' = post(entries, <<p, q>>, memo) /\ v.settleable
    BY DEF reimburse
<1>2. v.units \in Int
    BY <1>1, SettleableUnits
<1>3. memo[1] \notin OnceKind /\ memo[1] # "group"
    BY DEF OnceKind, AdapterKind
<1> HIDE DEF v, memo
<1>4. Plain(p) /\ Plain(q)
    <2>1. -v.units \in Int
        BY <1>2
    <2> QED BY <1>2, <2>1, PlainPosting DEF PooledKind
<1> HIDE DEF p, q
<1>5. Untouching(<<p, q>>)
    BY <1>4, UntouchingTuples
<1> QED BY <1>1, <1>3, <1>5, UntouchingPosts

LEMMA RoyaltyPosts ==
    ASSUME Sound(entries), NEW u \in Units, NEW admit, publish_with_royalty(u, admit)
    PROVE  Posts(entries, entries', receipts, seen)
<1> DEFINE parts == split(u, <<15, 85>>)
           p == _posting(<<"publish-revenue", "">>, -u, USDollar)
           q == _posting(<<"alchemy", "lineage">>, parts[1], USDollar)
           r == _posting(<<"party", "p">>, parts[2], USDollar)
           memo == <<"lineage-royalty">>
<1>1. entries' = post(entries, <<p, q, r>>, memo)
    BY DEF publish_with_royalty
<1>2. u \in Int /\ -u \in Int
    BY CollectionAssumption
<1>3. parts[1] \in Int /\ parts[2] \in Int
    BY <1>2, SplitPair
<1>4. memo[1] \notin OnceKind /\ memo[1] # "group"
    BY DEF OnceKind, AdapterKind
<1> HIDE DEF parts, memo
<1>5. Plain(p) /\ Plain(q) /\ Plain(r)
    BY <1>2, <1>3, PlainPosting DEF PooledKind
<1> HIDE DEF p, q, r
<1>6. Untouching(<<p, q, r>>)
    BY <1>5, UntouchingTuples
<1> QED BY <1>1, <1>4, <1>6, UntouchingPosts

LEMMA BountyKeeps ==
    ASSUME PlaneOK(entries, receipts, seen, writer), NEW id, NEW u \in Units, NEW field, NEW select,
           award_bounty(id, u, field, select)
    PROVE  PlaneOK(entries', receipts, seen, writer)
<1> DEFINE acct   == <<"bounty", id>>
           winner == BountyWinner(field, select)
           to     == IF winner = None THEN <<"party", "p">> ELSE <<"payee", winner>>
           first  == <<_posting(<<"party", "p">>, -u, USDollar), _posting(acct, u, USDollar)>>
           second == <<_posting(acct, -u, USDollar), _posting(to, u, USDollar)>>
           memo1  == <<"fund-bounty", id>>
           memo2  == <<"award-bounty", id>>
           funded == post(entries, first, memo1)
<1>1. entries' = post(funded, second, memo2)
    BY DEF award_bounty, fund_escrow
<1>2. u \in Int /\ -u \in Int
    BY CollectionAssumption
<1>3. /\ memo1[1] \notin OnceKind /\ memo1[1] # "group"
      /\ memo2[1] \notin OnceKind /\ memo2[1] # "group"
    BY DEF OnceKind, AdapterKind
<1>4. to[1] \notin PooledKind /\ acct[1] \notin PooledKind
    BY DEF PooledKind
<1> HIDE DEF to, acct
<1>5. /\ Plain(_posting(<<"party", "p">>, -u, USDollar)) /\ Plain(_posting(acct, u, USDollar))
      /\ Plain(_posting(acct, -u, USDollar)) /\ Plain(_posting(to, u, USDollar))
    BY <1>2, <1>4, PlainPosting DEF PooledKind, Plain, _posting
<1>6. Untouching(first) /\ Untouching(second)
    BY <1>5, UntouchingTuples
<1> HIDE DEF first, second, memo1, memo2
<1>7. PostingSet(first) /\ Covered(entries, first)
    BY <1>6, UntouchingCovered DEF PlaneOK
<1>8. Posts(entries, funded, receipts, seen)
    BY <1>3, <1>7, PostsPlainly
<1> HIDE DEF funded
<1>9. PlaneOK(funded, receipts, seen, writer)
    BY <1>8, PostKeeps
<1>10. PostingSet(second) /\ Covered(funded, second)
    BY <1>6, <1>9, UntouchingCovered DEF PlaneOK
<1>11. Posts(funded, entries', receipts, seen)
    BY <1>1, <1>3, <1>10, PostsPlainly
<1> QED BY <1>9, <1>11, PostKeeps

-----------------------------------------------------------------------------
(* The expiry sweep: a record for every key that is due.                   *)

LEMMA ListOfSet ==
    ASSUME NEW S, IsFiniteSet(S)
    PROVE  /\ Cardinality(S) \in Nat /\ SetToSeq(S) \in [1..Cardinality(S) -> S]
           /\ \A i, j \in 1..Cardinality(S) : SetToSeq(S)[i] = SetToSeq(S)[j] => i = j
           /\ \A x \in S : \E i \in 1..Cardinality(S) : SetToSeq(S)[i] = x
<1> DEFINE n == Cardinality(S)
           f == SetToSeq(S)
<1>1. n \in Nat /\ ExistsBijection(1..n, S)
    BY FS_CardinalityType
<1>2. \E g \in [1..n -> S] : IsInjective(g)
    BY <1>1 DEF ExistsBijection, Bijection, Injection
<1>3. f \in [1..n -> S] /\ IsInjective(f)
    BY <1>2 DEF SetToSeq
<1>4. IsFiniteSet(1..n) /\ Cardinality(1..n) = n
    BY <1>1, FS_Interval
<1> HIDE DEF f
<1>5. f \in Injection(1..n, S)
    BY <1>3 DEF Injection
<1>6. f \in Surjection(1..n, S)
    BY <1>4, <1>5, FS_Injection
<1>7. \A x \in S : \E i \in 1..n : f[i] = x
    BY <1>6 DEF Surjection
<1>8. \A i, j \in 1..n : f[i] = f[j] => i = j
    BY <1>3 DEF IsInjective
<1> QED BY <1>1, <1>3, <1>7, <1>8 DEF f

LEMMA ExpiredFinite ==
    ASSUME NEW es, IsSequence(es), NEW t
    PROVE  IsFiniteSet(Expired(es, t)) /\ Expired(es, t) \subseteq Quotes
<1> DEFINE g == [i \in DOMAIN es |-> es[i].memo[2]]
           R == {g[i] : i \in DOMAIN es}
<1>1. IsFiniteSet(DOMAIN es)
    BY SequenceDomain
<1>2. \A q \in Expired(es, t) : q \in Quotes /\ \E i \in DOMAIN es : es[i].memo[2] = q
    BY DEF Expired, _fundings
<1>3. Expired(es, t) \subseteq R
    BY <1>2
<1> HIDE DEF g
<1>4. IsFiniteSet(R)
    BY <1>1, ImageFinite
<1> HIDE DEF R
<1>5. IsFiniteSet(Expired(es, t))
    BY <1>3, <1>4, FS_Subset
<1> QED BY <1>2, <1>5

LEMMA InTwo ==
    ASSUME NEW p, p.units \in Int, NEW q, q.units \in Int, NEW c
    PROVE  InCurrency(<<p, q>>, c) = (IF p.cur = c THEN p.units ELSE 0) + (IF q.cur = c THEN q.units ELSE 0)
<1> DEFINE w == [i \in DOMAIN <<p, q>> |-> IF <<p, q>>[i].cur = c THEN <<p, q>>[i].units ELSE 0]
<1>1. /\ w[1] = (IF p.cur = c THEN p.units ELSE 0) /\ w[2] = (IF q.cur = c THEN q.units ELSE 0)
      /\ DOMAIN w = 1..2 /\ w[1] \in Int /\ w[2] \in Int
      /\ InCurrency(<<p, q>>, c) = SumFunctionOnSet(w, DOMAIN w)
    BY TupleSequences DEF InCurrency, SumFunction
<1> HIDE DEF w
<1> QED BY <1>1, SumTwo

LEMMA RefundRecord ==
    ASSUME NEW es, RewardChain(es), NEW q
    PROVE  /\ PostingSet(Refund(es, q).postings) /\ is_balanced(Refund(es, q).postings)
           /\ Refund(es, q).memo = <<"escrow-refund", q>>
           /\ \A a \in Pooled : OnAccount(Refund(es, q).postings, a, "USD")
                                    = IF a = escrow_for(q) THEN -Balance(es, a, "USD") ELSE 0
<1> DEFINE held == Balance(es, escrow_for(q), USD)
           to == <<"party", _fundings(es)[q].funder>>
           p1 == _posting(escrow_for(q), -held, USD)
           p2 == _posting(to, held, USD)
<1>1. Refund(es, q).postings = <<p1, p2>> /\ Refund(es, q).memo = <<"escrow-refund", q>>
    BY DEF Refund
<1>2. held \in Int /\ -held \in Int /\ held = Balance(es, escrow_for(q), "USD")
    BY BalanceIsInt DEF USD
<1>3. to[1] = "party"
    OBVIOUS
<1> HIDE DEF held, to
<1>4. p1.units = -held /\ p2.units = held /\ p1.cur = "USD" /\ p2.cur = "USD"
    BY PostingMoves DEF USD
<1>5. ASSUME NEW a \in Pooled
      PROVE  Moves(p1, a, "USD") = (IF a = escrow_for(q) THEN -held ELSE 0) /\ Moves(p2, a, "USD") = 0
    BY <1>3, PostingMoves, PooledKinds DEF USD, PooledKind
<1> HIDE DEF p1, p2
<1>6. PostingSet(<<p1, p2>>)
    BY <1>2, <1>4, OnTwo
<1>7. is_balanced(<<p1, p2>>)
    <2>1. \A c \in {p.cur : p \in ToSet(<<p1, p2>>)} : c = "USD"
        BY <1>4, TupleSequences DEF ToSet
    <2>2. InCurrency(<<p1, p2>>, "USD") = -held + held
        <3>1. p1.units \in Int /\ p2.units \in Int
            BY <1>2, <1>4
        <3>2. InCurrency(<<p1, p2>>, "USD") = p1.units + p2.units
            BY <1>4, <3>1, InTwo
        <3> QED BY <1>4, <3>2
    <2>3. InCurrency(<<p1, p2>>, "USD") = 0
        BY <1>2, <2>2
    <2> QED BY <2>1, <2>3 DEF is_balanced
<1>8. ASSUME NEW a \in Pooled
      PROVE  OnAccount(<<p1, p2>>, a, "USD") = IF a = escrow_for(q) THEN -Balance(es, a, "USD") ELSE 0
    <2>1. p1.units \in Int /\ p2.units \in Int /\ Moves(p1, a, "USD") \in Int /\ Moves(p2, a, "USD") \in Int
        BY <1>2, <1>4, <1>5
    <2>2. OnAccount(<<p1, p2>>, a, "USD") = Moves(p1, a, "USD") + Moves(p2, a, "USD")
        BY <2>1, OnTwo
    <2> QED BY <1>2, <1>5, <2>1, <2>2
<1> QED BY <1>1, <1>6, <1>7, <1>8

(* The records of one sweep: well formed, balanced, and each drains its    *)
(* own escrow.                                                             *)
Refunds(es, due) == [i \in DOMAIN due |-> Refund(es, due[i])]

RefundList(es, due, n, rs) ==
    /\ RewardChain(rs) /\ Len(rs) = n /\ DOMAIN rs = 1..n
    /\ \A i \in 1..n : is_balanced(rs[i].postings) /\ rs[i].memo = <<"escrow-refund", due[i]>>
    /\ \A a \in Pooled : Balance(rs, a, "USD")
           = IF \E i \in 1..n : a = escrow_for(due[i]) THEN -Balance(es, a, "USD") ELSE 0

LEMMA SweepRecords ==
    ASSUME NEW es, RewardChain(es), NEW n \in Nat, NEW D, NEW due \in [1..n -> D],
           \A i, j \in 1..n : due[i] = due[j] => i = j
    PROVE  RefundList(es, due, n, Refunds(es, due))
<1> DEFINE rs == Refunds(es, due)
<1>1. DOMAIN due = 1..n /\ DOMAIN rs = 1..n /\ \A i \in 1..n : rs[i] = Refund(es, due[i])
    BY DEF Refunds
<1>2. rs \in Seq({rs[i] : i \in 1..n}) /\ Len(rs) = n
    <2>1. rs = [i \in 1..n |-> rs[i]]
        BY <1>1 DEF Refunds
    <2> QED BY <2>1
<1> HIDE DEF rs
<1>3. IsSequence(rs)
    BY <1>2 DEF IsSequence
<1>4. \A i \in 1..n : /\ PostingSet(rs[i].postings) /\ is_balanced(rs[i].postings)
                      /\ rs[i].memo = <<"escrow-refund", due[i]>>
    BY <1>1, RefundRecord
<1>5. RewardChain(rs)
    BY <1>1, <1>3, <1>4 DEF RewardChain
<1>6. ASSUME NEW a \in Pooled
      PROVE  Balance(rs, a, "USD") = IF \E i \in 1..n : a = escrow_for(due[i]) THEN -Balance(es, a, "USD") ELSE 0
    <2> DEFINE w == [i \in DOMAIN rs |-> OnAccount(rs[i].postings, a, "USD")]
               S == 1..n
    <2>1. \A i \in S : w[i] = IF a = escrow_for(due[i]) THEN -Balance(es, a, "USD") ELSE 0
        BY <1>1, RefundRecord
    <2>2. Balance(rs, a, "USD") = SumFunctionOnSet(w, S)
        BY <1>1 DEF Balance, SumFunction
    <2>3. IsFiniteSet(S) /\ -Balance(es, a, "USD") \in Int
        BY FS_Interval, BalanceIsInt
    <2> HIDE DEF w
    <2>4. CASE \E i \in S : a = escrow_for(due[i])
        <3>1. PICK i \in S : a = escrow_for(due[i])
            BY <2>4
        <3>2. ASSUME NEW j \in S \ {i} PROVE w[j] = 0
            <4>1. due[j] # due[i]
                OBVIOUS
            <4>2. escrow_for(due[j]) # escrow_for(due[i])
                BY <4>1 DEF escrow_for
            <4> QED BY <2>1, <3>1, <4>2
        <3>3. w[i] = -Balance(es, a, "USD")
            BY <2>1, <3>1
        <3> HIDE DEF S
        <3>4. SumFunctionOnSet(w, S) = w[i]
            BY <2>3, <3>2, <3>3, SumOnly
        <3> QED BY <2>2, <2>4, <3>3, <3>4 DEF S
    <2>5. CASE ~\E i \in S : a = escrow_for(due[i])
        <3>1. \A i \in S : w[i] = 0
            BY <2>1, <2>5
        <3> HIDE DEF S
        <3>2. SumFunctionOnSet(w, S) = 0
            BY <2>3, <3>1, SumZero
        <3> QED BY <2>2, <2>5, <3>2 DEF S
    <2> QED BY <2>4, <2>5
<1>7. RefundList(es, due, n, rs)
    BY <1>1, <1>2, <1>4, <1>5, <1>6 DEF RefundList
<1> QED BY <1>7 DEF rs

(* What one sweep does to the chain, D the keys that were due.             *)
Swept(es, fs, D) ==
    /\ RewardChain(fs) /\ Len(es) \in Nat /\ Len(fs) \in Nat /\ Len(fs) > Len(es)
    /\ DOMAIN es = 1..Len(es) /\ DOMAIN fs = 1..Len(fs)
    /\ \A i \in 1..Len(es) : fs[i] = es[i]
    /\ \A i \in (Len(es) + 1)..Len(fs) : /\ is_balanced(fs[i].postings)
                                         /\ \E q \in D : fs[i].memo = <<"escrow-refund", q>>
    /\ \A q \in D : Posted(fs, <<"escrow-refund", q>>)
    /\ \A a \in Pooled : Balance(fs, a, "USD") = IF \E q \in D : a = escrow_for(q) THEN 0 ELSE Balance(es, a, "USD")

LEMMA SweepEffect ==
    ASSUME RewardChain(entries), sweep_expired
    PROVE  Swept(entries, entries', Expired(entries, now))
<1> DEFINE es  == entries
           fs  == entries'
           D   == Expired(es, now)
           due == SetToSeq(D)
           n   == Cardinality(D)
           m   == Len(es)
           rs  == Refunds(es, due)
<1>1. due # << >> /\ fs = es \o rs
    BY DEF sweep_expired, Refunds
<1>2. RewardChain(es) /\ IsSequence(es)
    BY DEF RewardChain
<1>3. IsFiniteSet(D)
    BY <1>2, ExpiredFinite
<1> HIDE DEF D, es, fs
<1>4. /\ n \in Nat /\ due \in [1..n -> D]
      /\ \A i, j \in 1..n : due[i] = due[j] => i = j
      /\ \A x \in D : \E i \in 1..n : due[i] = x
    BY <1>3, ListOfSet
<1>5. n > 0
    <2>1. CASE n = 0
        <3>1. DOMAIN due = {}
            BY <1>4, <2>1
        <3>2. due = << >>
            BY <1>4, <3>1
        <3> QED BY <1>1, <3>2
    <2> QED BY <1>4, <2>1
<1> HIDE DEF due, n
<1>5a. RefundList(es, due, n, rs)
    BY <1>2, <1>4, SweepRecords
<1> HIDE DEF rs
<1>6. /\ RewardChain(rs) /\ Len(rs) = n /\ DOMAIN rs = 1..n
      /\ \A i \in 1..n : is_balanced(rs[i].postings) /\ rs[i].memo = <<"escrow-refund", due[i]>>
      /\ \A a \in Pooled : Balance(rs, a, "USD")
             = IF \E i \in 1..n : a = escrow_for(due[i]) THEN -Balance(es, a, "USD") ELSE 0
    BY <1>5a DEF RefundList
<1>7. IsSequence(rs)
    BY <1>6 DEF RewardChain
<1>8. /\ m \in Nat /\ DOMAIN es = 1..m /\ Len(fs) = m + n /\ DOMAIN fs = 1..(m + n)
      /\ \A i \in 1..m : fs[i] = es[i]
      /\ \A i \in 1..n : fs[m + i] = rs[i]
    <2>1. /\ m \in Nat /\ DOMAIN es = 1..m /\ DOMAIN rs = 1..Len(rs)
          /\ Len(es \o rs) = m + Len(rs) /\ DOMAIN (es \o rs) = 1..(m + Len(rs))
          /\ \A i \in 1..m : (es \o rs)[i] = es[i]
          /\ \A i \in 1..Len(rs) : (es \o rs)[m + i] = rs[i]
        BY <1>2, <1>7, ConcatSequence
    <2> QED BY <1>1, <1>6, <2>1
<1>9. RewardChain(fs)
    BY <1>1, <1>2, <1>6, BalanceConcat
<1>10. ASSUME NEW i \in (m + 1)..(m + n)
       PROVE  is_balanced(fs[i].postings) /\ \E q \in D : fs[i].memo = <<"escrow-refund", q>>
    <2>1. i - m \in 1..n /\ m + (i - m) = i
        BY <1>4, <1>8
    <2>2. fs[i] = rs[i - m]
        BY <1>8, <2>1
    <2>3. due[i - m] \in D
        BY <1>4, <2>1
    <2> QED BY <1>6, <2>1, <2>2, <2>3
<1>11. ASSUME NEW q \in D PROVE Posted(fs, <<"escrow-refund", q>>)
    <2>1. PICK i \in 1..n : due[i] = q
        BY <1>4
    <2>2. fs[m + i].memo = <<"escrow-refund", q>>
        BY <1>6, <1>8, <2>1
    <2>3. m + i \in DOMAIN fs
        BY <1>4, <1>8
    <2> QED BY <2>2, <2>3 DEF Posted
<1>12. ASSUME NEW a \in Pooled
       PROVE  Balance(fs, a, "USD") = IF \E q \in D : a = escrow_for(q) THEN 0 ELSE Balance(es, a, "USD")
    <2>1. Balance(es, a, "USD") \in Int /\ Balance(rs, a, "USD") \in Int
        BY <1>2, <1>6, BalanceIsInt
    <2>2. Balance(fs, a, "USD") = Balance(es, a, "USD") + Balance(rs, a, "USD")
        BY <1>1, <1>2, <1>6, BalanceConcat
    <2>3. (\E q \in D : a = escrow_for(q)) <=> \E i \in 1..n : a = escrow_for(due[i])
        BY <1>4
    <2> QED BY <1>6, <2>1, <2>2, <2>3
<1>13. Len(fs) \in Nat /\ Len(fs) > m
    BY <1>4, <1>5, <1>8
<1>14. Swept(es, fs, D)
    BY <1>8, <1>9, <1>10, <1>11, <1>12, <1>13 DEF Swept
<1> QED BY <1>14 DEF D, es, fs

LEMMA SweepKeeps ==
    ASSUME NEW es, NEW fs, NEW D, NEW rs, NEW sn, NEW w, PlaneOK(es, rs, sn, w), Swept(es, fs, D)
    PROVE  PlaneOK(fs, rs, sn, w)
<1> DEFINE m == Len(es)
           n == Len(fs)
<1>1. /\ m \in Nat /\ n \in Nat /\ n > m /\ DOMAIN es = 1..m /\ DOMAIN fs = 1..n
      /\ \A i \in 1..m : fs[i] = es[i]
      /\ \A i \in (m + 1)..n : is_balanced(fs[i].postings) /\ \E q \in D : fs[i].memo = <<"escrow-refund", q>>
    BY DEF Swept
<1>2. \A i \in 1..n : (i \in 1..m /\ fs[i] = es[i]) \/ i \in (m + 1)..n
    BY <1>1
<1>3. \A i \in (m + 1)..n : fs[i].memo[1] = "escrow-refund" /\ fs[i].memo # <<"group">>
    BY <1>1
<1>4. "escrow-refund" \notin OnceKind /\ "escrow-refund" # "settle" /\ "escrow-refund" \notin AdapterKind
    BY DEF OnceKind, AdapterKind
<1>5. Sound(es) /\ Trail(es, rs, sn) /\ WriterExact(es, w)
    BY DEF PlaneOK
<1> HIDE DEF m, n
<1>6. Sound(fs)
    <2>1. RewardChain(fs)
        BY DEF Swept
    <2>2. \A i \in DOMAIN fs : is_balanced(fs[i].postings)
        BY <1>1, <1>2, <1>5 DEF Sound
    <2>3. \A a \in Pooled : Balance(fs, a, "USD") >= 0
        BY <1>5 DEF Sound, Swept
    <2> QED BY <2>1, <2>2, <2>3 DEF Sound
<1>7. OnceEach(fs)
    <2> SUFFICES ASSUME NEW i \in 1..n, NEW j \in 1..n, i < j, fs[i].memo[1] \in OnceKind
                 PROVE  fs[i].memo # fs[j].memo
        BY <1>1 DEF OnceEach
    <2>1. i \in 1..m /\ fs[i] = es[i]
        BY <1>2, <1>3, <1>4
    <2>2. CASE j \in 1..m
        BY <1>1, <1>5, <2>1, <2>2 DEF Trail, OnceEach
    <2>3. CASE j \in (m + 1)..n
        BY <1>3, <1>4, <2>3
    <2> QED BY <1>2, <2>2, <2>3
<1>8. PaidForWork(fs, rs)
    BY <1>1, <1>2, <1>3, <1>4, <1>5 DEF Trail, PaidForWork
<1>9. AdapterKnows(fs, sn)
    BY <1>1, <1>2, <1>3, <1>4, <1>5 DEF Trail, AdapterKnows
<1>10. ~AllGroup(fs)
    <2>1. n \in (m + 1)..n /\ n \in DOMAIN fs
        BY <1>1
    <2> QED BY <1>3, <2>1 DEF AllGroup
<1>11. WriterExact(fs, w)
    BY <1>5, <1>10 DEF WriterExact
<1> QED BY <1>6, <1>7, <1>8, <1>9, <1>11 DEF PlaneOK, Trail

(* The sweep funds nothing: which key expires when is what it was.         *)
LEMMA SweepFundings ==
    ASSUME NEW es, NEW fs, NEW D, Swept(es, fs, D)
    PROVE  _fundings(fs) = _fundings(es) /\ _settled_or_refunded(es) \subseteq _settled_or_refunded(fs)
<1> DEFINE m == Len(es)
           n == Len(fs)
           funds(s, q) == {i \in DOMAIN s : s[i].memo[1] = "escrow-fund" /\ s[i].memo[2] = q}
           last(s, q) == LET mm == s[Max(funds(s, q))].memo IN [exp |-> mm[3], funder |-> mm[4]]
<1>1. /\ m \in Nat /\ n \in Nat /\ n > m /\ DOMAIN es = 1..m /\ DOMAIN fs = 1..n
      /\ \A i \in 1..m : fs[i] = es[i]
      /\ \A i \in (m + 1)..n : \E q \in D : fs[i].memo = <<"escrow-refund", q>>
    BY DEF Swept
<1>2. \A i \in 1..n : (i \in 1..m /\ fs[i] = es[i]) \/ i \in (m + 1)..n
    BY <1>1
<1>3. \A i \in (m + 1)..n : fs[i].memo[1] = "escrow-refund"
    BY <1>1
<1>4. \A i \in 1..m : i \in 1..n
    BY <1>1
<1> HIDE DEF m, n
<1>5. IsFiniteSet(1..m)
    <2>1. m \in Int /\ 1 \in Int
        BY <1>1
    <2> QED BY <2>1, FS_Interval
<1>6. ASSUME NEW q PROVE funds(fs, q) = funds(es, q)
    BY <1>1, <1>2, <1>3, <1>4
<1>7. ASSUME NEW q, funds(es, q) # {} PROVE last(fs, q) = last(es, q)
    <2> DEFINE S == funds(es, q)
    <2>1. IsFiniteSet(S) /\ S \subseteq 1..m /\ S \subseteq Int
        BY <1>1, <1>5, FS_Subset
    <2>2. S # {}
        BY <1>7
    <2> HIDE DEF S
    <2>3. Max(S) \in S
        BY <2>1, <2>2, LargestExists DEF Max
    <2>4. fs[Max(S)] = es[Max(S)]
        BY <1>1, <2>1, <2>3
    <2> USE DEF S
    <2>5. funds(fs, q) = funds(es, q)
        BY <1>6
    <2> HIDE DEF funds
    <2> QED BY <2>4, <2>5
<1>8. _fundings(fs) = _fundings(es)
    <2>1. \A s : _fundings(s) = [q \in {q \in Quotes : funds(s, q) # {}} |-> last(s, q)]
        BY DEF _fundings
    <2> HIDE DEF funds, last
    <2>2. {q \in Quotes : funds(fs, q) # {}} = {q \in Quotes : funds(es, q) # {}}
        BY <1>6
    <2> QED BY <1>7, <2>1, <2>2
<1>9. \A memo : Posted(es, memo) => Posted(fs, memo)
    BY <1>1, <1>4 DEF Posted
<1> QED BY <1>8, <1>9 DEF _settled_or_refunded

LEMMA SweepLeaves ==
    ASSUME NEW es, NEW fs, NEW t, Swept(es, fs, Expired(es, t))
    PROVE  /\ stale_escrow_keys(fs, t) = {}
           /\ \A q \in DOMAIN _fundings(fs) : (_fundings(fs)[q].exp <= t /\ Balance(fs, escrow_for(q), USD) # 0)
                                                  => q \in _settled_or_refunded(es)
<1> DEFINE D == Expired(es, t)
           F == _fundings(es)
<1>1. _fundings(fs) = F /\ _settled_or_refunded(es) \subseteq _settled_or_refunded(fs)
    BY SweepFundings
<1>2. DOMAIN F \subseteq Quotes
    BY DEF _fundings
<1>3. D = {q \in DOMAIN F \ _settled_or_refunded(es) : F[q].exp <= t /\ Balance(es, escrow_for(q), "USD") # 0}
    BY DEF Expired, USD
<1>4. \A a \in Pooled : Balance(fs, a, "USD") = IF \E q \in D : a = escrow_for(q) THEN 0 ELSE Balance(es, a, "USD")
    BY DEF Swept
<1> HIDE DEF D, F
<1>5. ASSUME NEW q \in DOMAIN F, F[q].exp <= t, Balance(fs, escrow_for(q), "USD") # 0
      PROVE  q \in _settled_or_refunded(es)
    <2>1. escrow_for(q) \in Pooled
        BY <1>2, Accounts
    <2>2. q \notin D /\ Balance(es, escrow_for(q), "USD") # 0
        BY <1>4, <1>5, <2>1
    <2> QED BY <1>3, <1>5, <2>2
<1>6. stale_escrow_keys(fs, t) = {}
    <2> SUFFICES ASSUME NEW q \in stale_escrow_keys(fs, t) PROVE FALSE
        OBVIOUS
    <2>1. /\ q \in DOMAIN F /\ q \notin _settled_or_refunded(fs) /\ t >= F[q].exp
          /\ Balance(fs, escrow_for(q), "USD") # 0
        BY <1>1 DEF stale_escrow_keys, USD
    <2>2. F[q].exp <= t
        BY <2>1
    <2> QED BY <1>1, <1>5, <2>1, <2>2
<1> QED BY <1>1, <1>5, <1>6 DEF USD

-----------------------------------------------------------------------------
(* The group-commit writer: folding a set is folding the longer chain.     *)

LEMMA NotTouched ==
    ASSUME NEW ps, PostingSet(ps), NEW a, NEW c, <<a, c>> \notin Touched(ps)
    PROVE  OnAccount(ps, a, c) = 0
<1> DEFINE S == DOMAIN ps
           w == [i \in S |-> Moves(ps[i], a, c)]
<1>1. \A i \in S : <<ps[i].account, ps[i].cur>> \in Touched(ps)
    BY DEF Touched, ToSet
<1>2. \A i \in S : w[i] = 0
    BY <1>1 DEF Moves
<1>3. OnAccount(ps, a, c) = SumFunctionOnSet(w, S)
    BY DEF OnAccount, SumFunction
<1>4. IsFiniteSet(S)
    BY SequenceDomain DEF PostingSet
<1> HIDE DEF w, S
<1> QED BY <1>2, <1>3, <1>4, SumZero

LEMMA TouchedPairs == \A ps : \A k \in Touched(ps) : k = <<k[1], k[2]>>
BY DEF Touched

KeysOf(es) == UNION {Touched(es[i].postings) : i \in DOMAIN es}

LEMMA FoldedExact ==
    ASSUME NEW es, RewardChain(es), NEW ps, PostingSet(ps), NEW r, r.postings = ps
    PROVE  Folded(balances(es), ps) = balances(Append(es, r))
<1> DEFINE n  == Len(es)
           fs == Append(es, r)
           B  == balances(es)
<1>1. IsSequence(es)
    BY DEF RewardChain
<1>2. /\ n \in Nat /\ DOMAIN es = 1..n /\ DOMAIN fs = 1..(n + 1)
      /\ \A i \in 1..n : fs[i] = es[i]
      /\ fs[n + 1] = r
    BY <1>1, AppendSequence
<1>3. \A a, c : Balance(fs, a, c) = Balance(es, a, c) + OnAccount(ps, a, c)
    BY BalanceAppend
<1>4. \A a, c : Balance(es, a, c) \in Int /\ OnAccount(ps, a, c) \in Int
    BY BalanceIsInt, OnAccountIsInt
<1> HIDE DEF n, fs
<1>5. \A i \in 1..(n + 1) : i \in 1..n \/ i = n + 1
    BY <1>2
<1>6. \A i \in 1..n : i \in 1..(n + 1)
    BY <1>2
<1>7. n + 1 \in 1..(n + 1)
    BY <1>2
<1>8. KeysOf(fs) = KeysOf(es) \cup Touched(ps)
    BY <1>2, <1>5, <1>6, <1>7 DEF KeysOf
<1>9. DOMAIN B = KeysOf(es) /\ \A k \in KeysOf(es) : B[k] = Balance(es, k[1], k[2])
    BY DEF balances, KeysOf
<1>10. balances(fs) = [k \in KeysOf(fs) |-> Balance(fs, k[1], k[2])]
    BY DEF balances, KeysOf
<1>11. Folded(B, ps) = [k \in DOMAIN B \cup Touched(ps) |->
                            (IF k \in DOMAIN B THEN B[k] ELSE 0) + OnAccount(ps, k[1], k[2])]
    BY DEF Folded
<1> HIDE DEF B
<1>12. ASSUME NEW k \in KeysOf(fs)
       PROVE  (IF k \in DOMAIN B THEN B[k] ELSE 0) + OnAccount(ps, k[1], k[2]) = Balance(fs, k[1], k[2])
    <2>1. CASE k \in KeysOf(es)
        BY <1>3, <1>9, <2>1
    <2>2. CASE k \notin KeysOf(es)
        <3> DEFINE w == [i \in DOMAIN es |-> OnAccount(es[i].postings, k[1], k[2])]
        <3>1. k = <<k[1], k[2]>>
            BY <1>8, <2>2, TouchedPairs
        <3>2. ASSUME NEW i \in DOMAIN es PROVE w[i] = 0
            <4>1. <<k[1], k[2]>> \notin Touched(es[i].postings)
                BY <2>2, <3>1 DEF KeysOf
            <4>2. PostingSet(es[i].postings)
                BY DEF RewardChain
            <4> QED BY <4>1, <4>2, NotTouched
        <3>3. Balance(es, k[1], k[2]) = SumFunctionOnSet(w, DOMAIN es)
            BY DEF Balance, SumFunction
        <3>4. IsFiniteSet(DOMAIN es)
            BY <1>1, SequenceDomain
        <3> HIDE DEF w
        <3>5. Balance(es, k[1], k[2]) = 0
            BY <3>2, <3>3, <3>4, SumZero
        <3> QED BY <1>3, <1>9, <2>2, <3>5
    <2> QED BY <2>1, <2>2
<1>13. Folded(B, ps) = balances(fs)
    <2>1. DOMAIN B \cup Touched(ps) = KeysOf(fs)
        BY <1>8, <1>9
    <2> HIDE DEF fs
    <2> QED BY <1>10, <1>11, <1>12, <2>1
<1> QED BY <1>13 DEF B, fs

LEMMA StagedUntouching ==
    ASSUME NEW ps \in StagedSets
    PROVE  Untouching(ps)
<1> DEFINE P == [account : {"party"} \X STRING, units : Int, cur : STRING]
<1>1. ps \in Seq(P)
    BY CollectionAssumption
<1>2. IsSequence(ps)
    BY <1>1 DEF IsSequence
<1>3. ASSUME NEW i \in DOMAIN ps PROVE ps[i].units \in Int /\ ps[i].account[1] = "party"
    <2>1. ps[i] \in P
        <3> HIDE DEF P
        <3> QED BY <1>1
    <2>2. ps[i].units \in Int /\ ps[i].account \in {"party"} \X STRING
        BY <2>1
    <2> QED BY <2>2
<1>4. "party" \notin PooledKind
    BY DEF PooledKind
<1> QED BY <1>2, <1>3, <1>4 DEF Untouching, PostingSet

LEMMA AppendKeeps ==
    ASSUME PlaneOK(entries, receipts, seen, writer), AppendOne
    PROVE  PlaneOK(entries', receipts, seen, writer')
<1> DEFINE es == entries
           ps == writer.staged[writer.at]
           r  == [memo |-> <<"group">>, postings |-> ps]
<1>1. Sound(es) /\ Trail(es, receipts, seen) /\ WriterExact(es, writer) /\ RewardChain(es) /\ IsSequence(es)
    BY DEF PlaneOK, Sound, RewardChain
<1>2. writer = [f \in WriterFields |-> writer[f]] /\ ps \in StagedSets
    BY <1>1 DEF WriterExact, AppendOne
<1>3. CASE is_balanced(ps)
    <2>1. /\ entries' = post(es, ps, <<"group">>)
          /\ writer' = [writer EXCEPT !.at = @ + 1, !.bal = Folded(@, ps)]
        BY <1>3 DEF AppendOne
    <2>2. writer'.bal = Folded(writer.bal, ps) /\ writer'.staged = writer.staged
        BY <1>2, <2>1 DEF WriterFields
    <2>3. writer' = [f \in WriterFields |-> writer'[f]]
        BY <1>2, <2>1
    <2>4. entries' = Append(es, r)
        BY <1>3, <2>1 DEF post
    <2>5. r.memo = <<"group">> /\ r.postings = ps
        OBVIOUS
    <2> HIDE DEF ps, r, es
    <2>6. PostingSet(ps) /\ Covered(es, ps)
        BY <1>1, <1>2, StagedUntouching, UntouchingCovered
    <2>7. Sound(entries')
        BY <1>1, <2>1, <2>6, PostSound
    <2>8. Fresh(es, r.memo, receipts, seen)
        BY <2>5 DEF Fresh, OnceKind, AdapterKind
    <2>9. Trail(entries', receipts, seen)
        BY <1>1, <2>4, <2>8, RecordTrail
    <2>10. AllGroup(entries') => AllGroup(es)
        <3>1. /\ Len(es) \in Nat /\ DOMAIN es = 1..Len(es) /\ DOMAIN entries' = 1..(Len(es) + 1)
              /\ \A i \in 1..Len(es) : entries'[i] = es[i]
            BY <1>1, <2>4, AppendSequence
        <3>2. \A i \in DOMAIN es : i \in DOMAIN entries' /\ entries'[i] = es[i]
            BY <3>1
        <3> QED BY <3>2 DEF AllGroup
    <2>11. Folded(balances(es), ps) = balances(entries')
        BY <1>1, <2>4, <2>5, <2>6, FoldedExact
    <2>12. WriterExact(entries', writer')
        BY <1>1, <2>2, <2>3, <2>10, <2>11 DEF WriterExact
    <2> QED BY <2>7, <2>9, <2>12 DEF PlaneOK
<1>4. CASE ~is_balanced(ps)
    <2>1. /\ entries' = es
          /\ writer' = [writer EXCEPT !.pc = "idle", !.at = 0, !.raised = @ + 1]
        BY <1>4 DEF AppendOne
    <2>2. writer'.bal = writer.bal /\ writer'.staged = writer.staged
        BY <1>2, <2>1 DEF WriterFields
    <2>3. writer' = [f \in WriterFields |-> writer'[f]]
        BY <1>2, <2>1
    <2>4. WriterExact(entries', writer')
        BY <1>1, <2>1, <2>2, <2>3 DEF WriterExact
    <2> QED BY <1>1, <2>1, <2>4 DEF PlaneOK
<1> QED BY <1>3, <1>4

LEMMA StagingKeeps ==
    ASSUME PlaneOK(entries, receipts, seen, writer),
           (\E ps \in StagedSets : stage(ps)) \/ Validate \/ EndLoop \/ Count
    PROVE  PlaneOK(entries', receipts, seen, writer')
<1>1. Sound(entries) /\ Trail(entries, receipts, seen) /\ WriterExact(entries, writer)
    BY DEF PlaneOK
<1>2. /\ writer = [f \in WriterFields |-> writer[f]] /\ IsSequence(writer.staged)
      /\ \A i \in DOMAIN writer.staged : writer.staged[i] \in StagedSets
    BY <1>1 DEF WriterExact
<1>3. entries' = entries
    BY DEF stage, Validate, EndLoop, Count
<1>4. writer' = [f \in WriterFields |-> writer'[f]] /\ writer'.bal = writer.bal
    <2>1. CASE \E ps \in StagedSets : stage(ps)
        BY <1>2, <2>1 DEF stage, WriterFields
    <2>2. CASE Validate
        BY <1>2, <2>2 DEF Validate, WriterFields
    <2>3. CASE EndLoop \/ Count
        BY <1>2, <2>3 DEF EndLoop, Count, WriterFields
    <2> QED BY <2>1, <2>2, <2>3
<1>5. IsSequence(writer'.staged) /\ \A i \in DOMAIN writer'.staged : writer'.staged[i] \in StagedSets
    <2>1. CASE \E ps \in StagedSets : stage(ps)
        <3>1. PICK ps \in StagedSets : stage(ps)
            BY <2>1
        <3>2. writer'.staged = Append(writer.staged, ps)
            BY <1>2, <3>1 DEF stage, WriterFields
        <3> DEFINE s == writer.staged
        <3>3. IsSequence(s) /\ \A i \in DOMAIN s : s[i] \in StagedSets
            BY <1>2
        <3> HIDE DEF s
        <3>4. /\ IsSequence(Append(s, ps)) /\ Len(s) \in Nat /\ DOMAIN s = 1..Len(s)
              /\ DOMAIN Append(s, ps) = 1..(Len(s) + 1)
              /\ \A i \in 1..Len(s) : Append(s, ps)[i] = s[i]
              /\ Append(s, ps)[Len(s) + 1] = ps
            BY <3>3, AppendSequence
        <3>5. \A i \in 1..(Len(s) + 1) : i \in 1..Len(s) \/ i = Len(s) + 1
            BY <3>4
        <3>6. \A i \in DOMAIN Append(s, ps) : Append(s, ps)[i] \in StagedSets
            BY <3>3, <3>4, <3>5
        <3> QED BY <3>2, <3>4, <3>6 DEF s
    <2>2. CASE writer'.staged = writer.staged
        BY <1>2, <2>2
    <2>3. CASE writer'.staged = << >>
        BY <2>3, TupleSequences
    <2>4. CASE Validate
        <3>1. writer'.staged = writer.staged \/ writer'.staged = << >>
            BY <1>2, <2>4 DEF Validate, WriterFields
        <3> QED BY <2>2, <2>3, <3>1
    <2>5. CASE EndLoop
        <3>1. writer'.staged = writer.staged
            BY <1>2, <2>5 DEF EndLoop, WriterFields
        <3> QED BY <2>2, <3>1
    <2>6. CASE Count
        <3>1. writer'.staged = << >>
            BY <1>2, <2>6 DEF Count, WriterFields
        <3> QED BY <2>3, <3>1
    <2> QED BY <2>1, <2>4, <2>5, <2>6
<1>6. WriterExact(entries', writer')
    BY <1>1, <1>3, <1>4, <1>5 DEF WriterExact
<1> QED BY <1>1, <1>3, <1>6 DEF PlaneOK

-----------------------------------------------------------------------------
(* Conservation: a chain of balanced records sums to zero, in each         *)
(* currency, over the accounts.  Sums by record and by account are the     *)
(* same sum in another order.                                              *)

LEMMA RecordCancels ==
    ASSUME NEW ps, PostingSet(ps), is_balanced(ps), NEW c, NEW K, IsFiniteSet(K),
           \A k \in K : k = <<k[1], c>>, \A k \in Touched(ps) : k[2] = c => k \in K,
           NEW v, \A k \in K : v[k] = OnAccount(ps, k[1], k[2])
    PROVE  SumFunctionOnSet(v, K) = 0
<1> DEFINE I == DOMAIN ps
           m == [k \in K |-> [i \in I |-> Moves(ps[i], k[1], k[2])]]
           n == [i \in I |-> [k \in K |-> Moves(ps[i], k[1], k[2])]]
           b == [i \in I |-> IF ps[i].cur = c THEN ps[i].units ELSE 0]
<1>1. IsFiniteSet(I)
    BY SequenceDomain DEF PostingSet
<1>2. \A k \in K, i \in I : m[k][i] \in Int /\ n[i][k] = m[k][i]
    BY MovesIsInt DEF PostingSet
<1>3. \A k \in K : v[k] = SumFunctionOnSet(m[k], I)
    BY DEF OnAccount, SumFunction
<1>4. ASSUME NEW i \in I PROVE b[i] = SumFunctionOnSet(n[i], K)
    <2> DEFINE w == n[i]
    <2>1. \A k \in K : w[k] = IF ps[i].account = k[1] /\ ps[i].cur = c THEN ps[i].units ELSE 0
        BY DEF Moves
    <2>2. ps[i].units \in Int
        BY DEF PostingSet
    <2> HIDE DEF w
    <2>3. CASE ps[i].cur = c
        <3> DEFINE x == <<ps[i].account, ps[i].cur>>
        <3>1. x \in Touched(ps) /\ x[1] = ps[i].account /\ x[2] = c
            BY <2>3 DEF Touched, ToSet
        <3>2. x \in K
            BY <3>1
        <3>3. w[x] = ps[i].units
            BY <2>1, <2>3, <3>1, <3>2
        <3> HIDE DEF x
        <3>4. ASSUME NEW y \in K \ {x} PROVE w[y] = 0
            <4>1. y[1] # x[1]
                BY <3>2
            <4> QED BY <2>1, <3>1, <4>1
        <3>5. SumFunctionOnSet(w, K) = w[x]
            BY <2>2, <3>2, <3>3, <3>4, SumOnly
        <3> QED BY <2>3, <3>3, <3>5 DEF w
    <2>4. CASE ps[i].cur # c
        <3>1. \A k \in K : w[k] = 0
            BY <2>1, <2>4
        <3>2. SumFunctionOnSet(w, K) = 0
            BY <3>1, SumZero
        <3> QED BY <2>4, <3>2 DEF w
    <2> QED BY <2>3, <2>4
<1>5. SumFunctionOnSet(b, I) = 0
    <2>1. SumFunctionOnSet(b, I) = InCurrency(ps, c)
        BY DEF InCurrency, SumFunction
    <2>2. CASE \E i \in I : ps[i].cur = c
        <3>1. c \in {p.cur : p \in ToSet(ps)}
            BY <2>2 DEF ToSet
        <3> QED BY <2>1, <3>1 DEF is_balanced
    <2>3. CASE \A i \in I : ps[i].cur # c
        <3>1. \A i \in I : b[i] = 0
            BY <2>3
        <3> HIDE DEF b, I
        <3> QED BY <1>1, <3>1, SumZero
    <2> QED BY <2>2, <2>3
<1> HIDE DEF I, m, n, b
<1>6. SumFunctionOnSet(v, K) = SumFunctionOnSet(b, I)
    <2>1. \A i \in I : b[i] = SumFunctionOnSet(n[i], K)
        BY <1>4
    <2>2. Matrix(K, I, m, n, v, b)
        BY <1>2, <1>3, <2>1 DEF Matrix
    <2> QED BY <1>1, <2>2, SumExchange
<1> QED BY <1>5, <1>6

LEMMA KeysFinite ==
    ASSUME NEW es, RewardChain(es)
    PROVE  IsFiniteSet(KeysOf(es))
<1> DEFINE I == DOMAIN es
           T == [i \in I |-> Touched(es[i].postings)]
           U == {T[i] : i \in I}
<1>1. IsFiniteSet(I)
    BY SequenceDomain DEF RewardChain
<1>2. ASSUME NEW i \in I PROVE IsFiniteSet(T[i])
    <2> DEFINE ps == es[i].postings
               J  == DOMAIN ps
               f  == [j \in J |-> <<ps[j].account, ps[j].cur>>]
    <2>1. IsFiniteSet(J)
        BY SequenceDomain DEF RewardChain, PostingSet
    <2>2. T[i] = {f[j] : j \in J}
        BY DEF Touched, ToSet
    <2> HIDE DEF f, J
    <2>3. IsFiniteSet({f[j] : j \in J})
        BY <2>1, ImageFinite
    <2> QED BY <2>2, <2>3
<1>3. KeysOf(es) = UNION U
    BY DEF KeysOf
<1> HIDE DEF I, T
<1>4. IsFiniteSet(U)
    BY <1>1, ImageFinite
<1>5. \A t \in U : IsFiniteSet(t)
    BY <1>2
<1> HIDE DEF U
<1>6. IsFiniteSet(UNION U)
    BY <1>4, <1>5, FS_UNION
<1> QED BY <1>3, <1>6

LEMMA ChainConserves ==
    ASSUME NEW es, RewardChain(es), \A i \in DOMAIN es : is_balanced(es[i].postings)
    PROVE  Conserved(balances(es))
<1> DEFINE B == balances(es)
           I == DOMAIN es
<1>1. DOMAIN B = KeysOf(es) /\ \A k \in KeysOf(es) : B[k] = Balance(es, k[1], k[2])
    BY DEF balances, KeysOf
<1>2. \A k \in KeysOf(es) : k = <<k[1], k[2]>>
    BY TouchedPairs DEF KeysOf
<1>3. IsFiniteSet(I)
    BY SequenceDomain DEF RewardChain
<1> HIDE DEF B
<1>4. ASSUME NEW c PROVE SumFunctionOnSet(B, {k \in DOMAIN B : k[2] = c}) = 0
    <2> DEFINE K == {k \in DOMAIN B : k[2] = c}
               m == [k \in K |-> [i \in I |-> OnAccount(es[i].postings, k[1], k[2])]]
               n == [i \in I |-> [k \in K |-> OnAccount(es[i].postings, k[1], k[2])]]
               b == [i \in I |-> 0]
    <2>1. IsFiniteSet(K)
        <3>1. K \subseteq KeysOf(es)
            BY <1>1
        <3> HIDE DEF K
        <3> QED BY <3>1, KeysFinite, FS_Subset
    <2>2. \A k \in K, i \in I : m[k][i] \in Int /\ n[i][k] = m[k][i]
        BY OnAccountIsInt DEF RewardChain
    <2>3. \A k \in K : B[k] = SumFunctionOnSet(m[k], I)
        BY <1>1 DEF Balance, SumFunction
    <2>4. ASSUME NEW i \in I PROVE b[i] = SumFunctionOnSet(n[i], K)
        <3> DEFINE ps == es[i].postings
                   v  == n[i]
        <3>1. PostingSet(ps) /\ is_balanced(ps)
            BY DEF RewardChain
        <3>2. \A k \in K : k = <<k[1], c>>
            BY <1>1, <1>2
        <3>3. \A k \in Touched(ps) : k[2] = c => k \in K
            BY <1>1 DEF KeysOf
        <3>4. \A k \in K : v[k] = OnAccount(ps, k[1], k[2])
            OBVIOUS
        <3> HIDE DEF K, ps, v
        <3>5. SumFunctionOnSet(v, K) = 0
            BY <2>1, <3>1, <3>2, <3>3, <3>4, RecordCancels
        <3> QED BY <3>5 DEF v
    <2>5. SumFunctionOnSet(b, I) = 0
        <3>1. \A i \in I : b[i] = 0
            OBVIOUS
        <3> HIDE DEF b, I
        <3> QED BY <1>3, <3>1, SumZero
    <2> HIDE DEF I, K, m, n, b
    <2>6. SumFunctionOnSet(B, K) = SumFunctionOnSet(b, I)
        <3>1. \A i \in I : b[i] = SumFunctionOnSet(n[i], K)
            BY <2>4
        <3>2. Matrix(K, I, m, n, B, b)
            BY <2>2, <2>3, <3>1 DEF Matrix
        <3> QED BY <1>3, <2>1, <3>2, SumExchange
    <2> QED BY <2>5, <2>6 DEF K
<1>5. Conserved(B)
    BY <1>4 DEF Conserved
<1> QED BY <1>5 DEF B

-----------------------------------------------------------------------------
(* The quorum: however the list is made up, a vote counts one physical     *)
(* signer.                                                                 *)

(* The keys of the registered arbiters who signed this very document.      *)
Signs(doc, a) == a.doc = doc /\ a.arb \in DOMAIN Roster /\ Roster[a.arb] = a.key
Signers(doc, as) == {as[i].key : i \in {j \in DOMAIN as : Signs(doc, as[j])}}

(* One turn of count_approvals' loop, and the table its fold defines.      *)
Counted(doc, r, a) ==
    IF a.arb \in DOMAIN Roster /\ a.arb \notin r.ids /\ Roster[a.arb] \notin r.keys
       /\ a.key = Roster[a.arb] /\ a.doc = doc
    THEN [ids |-> r.ids \cup {a.arb}, keys |-> r.keys \cup {Roster[a.arb]}]
    ELSE r
CountTable(doc, as, h) ==
    h = [s \in SUBSET DOMAIN as |-> IF s = {} THEN [ids |-> {}, keys |-> {}]
                                    ELSE Counted(doc, h[s \ {Max(s)}], as[Max(s)])]

(* As many ids as keys, and only keys of signers.                          *)
Tallies(doc, as) ==
    {r \in [ids : SUBSET {as[i].arb : i \in DOMAIN as}, keys : SUBSET Signers(doc, as)] :
        IsFiniteSet(r.ids) /\ IsFiniteSet(r.keys) /\ Cardinality(r.ids) = Cardinality(r.keys)}

LEMMA CountedTallies ==
    ASSUME NEW doc, NEW as, NEW i \in DOMAIN as, NEW r \in Tallies(doc, as)
    PROVE  Counted(doc, r, as[i]) \in Tallies(doc, as)
<1> DEFINE a == as[i]
           V == {as[j].arb : j \in DOMAIN as}
           x == a.arb
           y == Roster[a.arb]
<1>1. /\ r.ids \subseteq V /\ r.keys \subseteq Signers(doc, as)
      /\ IsFiniteSet(r.ids) /\ IsFiniteSet(r.keys) /\ Cardinality(r.ids) = Cardinality(r.keys)
    BY DEF Tallies
<1>2. CASE /\ a.arb \in DOMAIN Roster /\ x \notin r.ids /\ y \notin r.keys
           /\ a.key = y /\ a.doc = doc
    <2>1. Counted(doc, r, a) = [ids |-> r.ids \cup {x}, keys |-> r.keys \cup {y}]
        BY <1>2 DEF Counted
    <2>2. x \in V /\ y \in Signers(doc, as)
        BY <1>2 DEF Signers, Signs
    <2>3. /\ IsFiniteSet(r.ids \cup {x}) /\ Cardinality(r.ids \cup {x}) = Cardinality(r.ids) + 1
          /\ IsFiniteSet(r.keys \cup {y}) /\ Cardinality(r.keys \cup {y}) = Cardinality(r.keys) + 1
        <3> HIDE DEF x, y, a
        <3> QED BY <1>1, <1>2, FS_AddElement
    <2> HIDE DEF x, y, a
    <2>4. [ids |-> r.ids \cup {x}, keys |-> r.keys \cup {y}] \in Tallies(doc, as)
        BY <1>1, <2>2, <2>3 DEF Tallies
    <2> QED BY <2>1, <2>4 DEF a
<1>3. CASE ~(/\ a.arb \in DOMAIN Roster /\ x \notin r.ids /\ y \notin r.keys
             /\ a.key = y /\ a.doc = doc)
    <2>1. Counted(doc, r, a) = r
        BY <1>3 DEF Counted
    <2> QED BY <2>1
<1> QED BY <1>2, <1>3

LEMMA CountTableExists ==
    ASSUME NEW doc, NEW as, IsSequence(as)
    PROVE  /\ \A s \in SUBSET DOMAIN as : s # {} => Max(s) \in s
           /\ [ids |-> {}, keys |-> {}] \in Tallies(doc, as)
           /\ \E h : CountTable(doc, as, h)
<1> DEFINE S == DOMAIN as
           A == Tallies(doc, as)
           base == [ids |-> {}, keys |-> {}]
           pick == [s \in SUBSET S |-> Max(s)]
           step == [ia \in S \X A |-> Counted(doc, ia[2], as[ia[1]])]
<1>1. IsFiniteSet(S) /\ S \subseteq Int
    <2>1. Len(as) \in Nat /\ S = 1..Len(as) /\ IsFiniteSet(S)
        BY SequenceDomain
    <2>2. \A n \in Nat : \A i \in 1..n : i \in Int
        OBVIOUS
    <2>3. \A i \in S : i \in Int
        BY <2>1, <2>2
    <2> QED BY <2>1, <2>3
<1>2. ASSUME NEW s \in SUBSET S, s # {} PROVE Max(s) \in s
    <2>1. IsFiniteSet(s) /\ s \subseteq Int
        BY <1>1, FS_Subset
    <2> QED BY <1>2, <2>1, LargestExists DEF Max
<1>3. base \in A
    BY FS_EmptySet DEF Tallies
<1>4. \A i \in S, r \in A : step[<<i, r>>] = Counted(doc, r, as[i])
    OBVIOUS
<1>5. \A i \in S, r \in A : step[<<i, r>>] \in A
    BY <1>4, CountedTallies
<1>6. \A s \in SUBSET S : s # {} => pick[s] \in s
    BY <1>2
<1>7. \A s \in SUBSET S : pick[s] = Max(s)
    OBVIOUS
<1> HIDE DEF base, pick, step, A, S
<1>8. PICK g \in [SUBSET S -> A] : FoldTable(S, base, pick, step, g)
    BY <1>1, <1>3, <1>5, <1>6, FoldExists
<1>9. ASSUME NEW s \in SUBSET S
      PROVE  g[s] = IF s = {} THEN base ELSE Counted(doc, g[s \ {Max(s)}], as[Max(s)])
    <2>1. g[s] = IF s = {} THEN base ELSE step[<<Max(s), g[s \ {Max(s)}]>>]
        BY <1>7, <1>8 DEF FoldTable
    <2>2. s \ {Max(s)} \in SUBSET S /\ g[s \ {Max(s)}] \in A
        OBVIOUS
    <2> QED BY <1>2, <1>4, <2>1, <2>2
<1>10. CountTable(doc, as, g)
    BY <1>9 DEF CountTable, base, S
<1> QED BY <1>2, <1>3, <1>10 DEF base, A, S

LEMMA ApprovalsCount ==
    ASSUME NEW doc, NEW as, IsSequence(as)
    PROVE  /\ count_approvals(doc, as) \in Nat /\ Cardinality(Signers(doc, as)) \in Nat
           /\ count_approvals(doc, as) <= Cardinality(Signers(doc, as))
<1> DEFINE h == CHOOSE g : CountTable(doc, as, g)
           S == DOMAIN as
           T == {s \in SUBSET S : h[s] \in Tallies(doc, as)}
           G == Signers(doc, as)
<1>1. CountTable(doc, as, h)
    BY CountTableExists
<1>2. count_approvals(doc, as) = Cardinality(h[S].ids)
    BY DEF count_approvals, FoldLeft, MapThenFoldSet, CountTable, Counted
<1> HIDE DEF h
<1>3. IsFiniteSet(S)
    BY SequenceDomain
<1>4. ASSUME NEW s \in SUBSET S, \A r \in SUBSET s : r # s => r \in T PROVE s \in T
    <2>1. h[s] = IF s = {} THEN [ids |-> {}, keys |-> {}] ELSE Counted(doc, h[s \ {Max(s)}], as[Max(s)])
        BY <1>1 DEF CountTable
    <2>2. CASE s = {}
        <3>1. h[s] \in Tallies(doc, as)
            <4>1. [ids |-> {}, keys |-> {}] \in Tallies(doc, as)
                BY CountTableExists
            <4>2. h[s] = [ids |-> {}, keys |-> {}]
                BY <2>1, <2>2
            <4> QED BY <4>1, <4>2
        <3> QED BY <3>1
    <2>3. CASE s # {}
        <3>1. Max(s) \in s
            BY <2>3, CountTableExists
        <3>2. h[s \ {Max(s)}] \in Tallies(doc, as)
            BY <1>4, <3>1
        <3>3. Counted(doc, h[s \ {Max(s)}], as[Max(s)]) \in Tallies(doc, as)
            BY <3>1, <3>2, CountedTallies
        <3> QED BY <2>1, <2>3, <3>3
    <2> QED BY <2>2, <2>3
<1>5. h[S] \in Tallies(doc, as)
    <2> HIDE DEF T, S
    <2>1. \A s \in SUBSET S : s \in T
        BY <1>3, <1>4, SubsetsBySize
    <2> QED BY <2>1 DEF T
<1>6. IsFiniteSet(G)
    <2> DEFINE f == [i \in S |-> as[i].key]
               J == {j \in S : Signs(doc, as[j])}
    <2>1. G = {f[i] : i \in J}
        BY DEF Signers
    <2>2. IsFiniteSet(J)
        BY <1>3, FS_Subset
    <2> HIDE DEF f, J
    <2>3. IsFiniteSet({f[i] : i \in J})
        BY <2>2, ImageFinite
    <2> QED BY <2>1, <2>3
<1> HIDE DEF S, G
<1>7. h[S].keys \subseteq G /\ IsFiniteSet(h[S].ids) /\ Cardinality(h[S].ids) = Cardinality(h[S].keys)
    BY <1>5 DEF Tallies, G
<1>8. Cardinality(h[S].keys) <= Cardinality(G)
    BY <1>6, <1>7, FS_Subset
<1>9. Cardinality(h[S].ids) \in Nat /\ Cardinality(G) \in Nat
    BY <1>6, <1>7, FS_CardinalityType
<1> QED BY <1>2, <1>7, <1>8, <1>9 DEF G

LEMMA ResolveQuorum ==
    ASSUME QuorumOfSigners, NEW doc, NEW as \in ApprovalLists, NEW m \in 1..2, NEW q, NEW f, resolve(doc, as, m, q, f)
    PROVE  QuorumOfSigners'
<1> DEFINE v == [quote |-> q, doc |-> doc, approvals |-> as]
           Quorate(u) == Cardinality(Signers(u.doc, u.approvals)) >= 2
<1>1. IsSequence(as)
    BY SettlementAssumption DEF IsSequence
<1>2. verdicts' = verdicts \cup {v} /\ count_approvals(doc, as) >= m /\ m >= 2
    BY DEF resolve
<1>3. Quorate(v)
    <2>1. Cardinality(Signers(doc, as)) >= 2
        <3> DEFINE x == count_approvals(doc, as)
                   y == Cardinality(Signers(doc, as))
        <3>1. x \in Nat /\ y \in Nat /\ x <= y
            BY <1>1, ApprovalsCount
        <3> HIDE DEF x, y
        <3>2. x >= m
            BY <1>2 DEF x
        <3>3. m = 2
            BY <1>2
        <3>4. y >= 2
            BY <3>1, <3>2, <3>3
        <3> QED BY <3>4 DEF y
    <2> QED BY <2>1
<1>4. QuorumOfSigners <=> \A u \in verdicts : Quorate(u)
    BY DEF QuorumOfSigners, Signers, Signs
<1>5. QuorumOfSigners' <=> \A u \in verdicts' : Quorate(u)
    BY DEF QuorumOfSigners, Signers, Signs
<1> HIDE DEF Quorate, v
<1> QED BY <1>2, <1>3, <1>4, <1>5

-----------------------------------------------------------------------------
(* The invariant and its preservation                                      *)

PlaneInv == PlaneOK(entries, receipts, seen, writer) /\ QuorumOfSigners

LEMMA PostsKeep ==
    ASSUME PlaneOK(entries, receipts, seen, writer), Posts(entries, entries', receipts, seen),
           receipts' = receipts, seen' = seen, writer' = writer
    PROVE  PlaneOK(entries', receipts', seen', writer')
<1>1. PlaneOK(entries', receipts, seen, writer)
    BY PostKeeps
<1> QED BY <1>1

LEMMA ReceiptKeeps ==
    ASSUME NEW es, NEW rs, NEW sn, NEW w, PlaneOK(es, rs, sn, w), NEW qs, rs \subseteq qs
    PROVE  PlaneOK(es, qs, sn, w)
<1>1. authorized_quote_shas(rs) \subseteq authorized_quote_shas(qs)
    BY DEF authorized_quote_shas
<1>2. PaidForWork(es, rs) => PaidForWork(es, qs)
    BY <1>1 DEF PaidForWork, Authorized
<1> QED BY <1>2 DEF PlaneOK, Trail

LEMMA OpenKeeps ==
    ASSUME PlaneOK(entries, receipts, seen, writer), OpenAdapter
    PROVE  PlaneOK(entries', receipts, seen', writer')
<1>1. entries' = entries /\ writer' = writer /\ seen' = {entries[i].memo : i \in DOMAIN entries}
    BY DEF OpenAdapter
<1>2. AdapterKnows(entries, {entries[i].memo : i \in DOMAIN entries})
    BY DEF AdapterKnows
<1>3. AdapterKnows(entries', seen')
    BY <1>1, <1>2
<1> QED BY <1>1, <1>3 DEF PlaneOK, Trail

LEMMA PlaneStarts == PlaneInit => PlaneInv
<1> SUFFICES ASSUME PlaneInit PROVE PlaneInv
    OBVIOUS
<1>1. entries = << >> /\ verdicts = {} /\ writer = NewWriter(<< >>) /\ seen = None
    BY DEF PlaneInit, SettlementInit, CollectionInit, open_ledger
<1>2. DOMAIN << >> = {} /\ IsSequence(<< >>)
    BY TupleSequences
<1>3. Sound(<< >>)
    BY <1>2, BalanceOfNone DEF Sound
<1>4. Trail(<< >>, receipts, seen)
    BY <1>1, <1>2 DEF Trail, OnceEach, PaidForWork, AdapterKnows
<1>5. WriterExact(<< >>, NewWriter(<< >>))
    <2> DEFINE w == NewWriter(<< >>)
    <2>1. w = [f \in WriterFields |-> w[f]] /\ w.staged = << >> /\ w.bal = balances(<< >>)
        BY DEF NewWriter, WriterFields
    <2> HIDE DEF w
    <2>2. WriterExact(<< >>, w)
        BY <1>2, <2>1 DEF WriterExact
    <2> QED BY <2>2 DEF w
<1>6. QuorumOfSigners
    BY <1>1 DEF QuorumOfSigners
<1> QED BY <1>1, <1>3, <1>4, <1>5, <1>6 DEF PlaneInv, PlaneOK

LEMMA QuotesKeep ==
    ASSUME PlaneOK(entries, receipts, seen, writer), QuorumOfSigners, QuotesLane
    PROVE  PlaneOK(entries', receipts', seen', writer') /\ QuorumOfSigners'
<1>1. Sound(entries) /\ RewardChain(entries)
    BY DEF PlaneOK, Sound
<1>2. seen' = seen /\ writer' = writer
    BY DEF QuotesLane, cvars
<1>3. verdicts' = verdicts => QuorumOfSigners'
    BY DEF QuorumOfSigners
<1>4. ASSUME NEW q \in Quotes, NEW f \in Funders, fund_quote(q, f)
      PROVE  PlaneOK(entries', receipts', seen', writer') /\ QuorumOfSigners'
    <2> DEFINE memo == <<"fund-quote", q>>
    <2>1. /\ entries' = fund_escrow(entries, <<"party", f>>, Amount[q], USD, escrow_for(q), memo)
          /\ receipts' = receipts /\ verdicts' = verdicts
        BY <1>4 DEF fund_quote
    <2>2. memo[1] \notin OnceKind /\ memo[1] # "group"
        BY DEF OnceKind, AdapterKind
    <2> HIDE DEF memo
    <2>3. Posts(entries, entries', receipts, seen)
        BY <1>1, <2>1, <2>2, FundPosts
    <2> QED BY <1>2, <1>3, <2>1, <2>3, PostsKeep
<1>5. ASSUME NEW q \in Quotes, NEW f \in Funders, NEW exp, fund_with_expiry(q, f, exp)
      PROVE  PlaneOK(entries', receipts', seen', writer') /\ QuorumOfSigners'
    <2> DEFINE memo == <<"escrow-fund", q, exp, f>>
    <2>1. /\ entries' = fund_escrow(entries, <<"party", f>>, Amount[q], USD, escrow_for(q), memo)
          /\ receipts' = receipts /\ verdicts' = verdicts
        BY <1>5 DEF fund_with_expiry
    <2>2. memo[1] \notin OnceKind /\ memo[1] # "group"
        BY DEF OnceKind, AdapterKind
    <2> HIDE DEF memo
    <2>3. Posts(entries, entries', receipts, seen)
        BY <1>1, <2>1, <2>2, FundPosts
    <2> QED BY <1>2, <1>3, <2>1, <2>3, PostsKeep
<1>6. ASSUME NEW q \in Quotes, NEW f \in Funders, NEW pass \in BOOLEAN, NEW refund \in {<<100, 0>>, <<50, 50>>},
             settle_intelligence(q, f, pass, refund)
      PROVE  PlaneOK(entries', receipts', seen', writer') /\ QuorumOfSigners'
    <2>1. Posts(entries, entries', receipts, seen)
        BY <1>1, <1>6, IntelligenceKeeps
    <2>2. receipts' = receipts /\ verdicts' = verdicts
        BY <1>6 DEF settle_intelligence
    <2> QED BY <1>2, <1>3, <2>1, <2>2, PostsKeep
<1>7. ASSUME NEW q \in Quotes, NEW f \in Funders, open_dispute(q, f)
      PROVE  PlaneOK(entries', receipts', seen', writer') /\ QuorumOfSigners'
    <2>1. Posts(entries, entries', receipts, seen)
        BY <1>1, <1>7, DisputePosts
    <2>2. receipts' = receipts /\ verdicts' = verdicts
        BY <1>7 DEF open_dispute
    <2> QED BY <1>2, <1>3, <2>1, <2>2, PostsKeep
<1>8. ASSUME NEW q \in Quotes, NEW f \in Funders, NEW doc \in Outcomes, NEW as \in ApprovalLists, NEW m \in 1..2,
             resolve(doc, as, m, q, f)
      PROVE  PlaneOK(entries', receipts', seen', writer') /\ QuorumOfSigners'
    <2>1. Posts(entries, entries', receipts, seen)
        BY <1>1, <1>8, ResolvePosts
    <2>2. receipts' = receipts
        BY <1>8 DEF resolve
    <2>3. QuorumOfSigners'
        BY <1>8, ResolveQuorum
    <2> QED BY <1>2, <2>1, <2>2, <2>3, PostsKeep
<1>9. ASSUME NEW env, NEW plan, Grant(env, plan) \/ Tick
      PROVE  PlaneOK(entries', receipts', seen', writer') /\ QuorumOfSigners'
    <2>1. entries' = entries /\ receipts' = receipts /\ verdicts' = verdicts
        BY <1>9 DEF Grant, Tick
    <2> QED BY <1>2, <1>3, <2>1
<1>10. ASSUME NEW r \in Receipt, build_receipt(r)
       PROVE  PlaneOK(entries', receipts', seen', writer') /\ QuorumOfSigners'
    <2>1. entries' = entries /\ receipts \subseteq receipts' /\ verdicts' = verdicts
        BY <1>10 DEF build_receipt
    <2>2. PlaneOK(entries, receipts', seen, writer)
        BY <2>1, ReceiptKeeps
    <2> QED BY <1>2, <1>3, <2>1, <2>2
<1>11. ASSUME NEW r \in receipts, NEW env \in Envelopes, settle(r, env)
       PROVE  PlaneOK(entries', receipts', seen', writer') /\ QuorumOfSigners'
    <2>1. Posts(entries, entries', receipts, seen)
        BY <1>1, <1>11, SettlePosts
    <2>2. receipts' = receipts /\ verdicts' = verdicts
        BY <1>11 DEF settle
    <2> QED BY <1>2, <1>3, <2>1, <2>2, PostsKeep
<1>12. ASSUME NEW q \in Quotes, release_holdback(q)
       PROVE  PlaneOK(entries', receipts', seen', writer') /\ QuorumOfSigners'
    <2>1. Posts(entries, entries', receipts, seen)
        BY <1>1, <1>12, ReleasePosts
    <2>2. receipts' = receipts /\ verdicts' = verdicts
        BY <1>12 DEF release_holdback
    <2> QED BY <1>2, <1>3, <2>1, <2>2, PostsKeep
<1>13. ASSUME sweep_expired
       PROVE  PlaneOK(entries', receipts', seen', writer') /\ QuorumOfSigners'
    <2>1. Swept(entries, entries', Expired(entries, now))
        BY <1>1, <1>13, SweepEffect
    <2>2. receipts' = receipts /\ verdicts' = verdicts
        BY <1>13 DEF sweep_expired
    <2>3. PlaneOK(entries', receipts, seen, writer)
        BY <2>1, SweepKeeps
    <2> QED BY <1>2, <1>3, <2>2, <2>3
<1>14. SettlementNext
    BY DEF QuotesLane
<1> QED BY <1>4, <1>5, <1>6, <1>7, <1>8, <1>9, <1>10, <1>11, <1>12, <1>13, <1>14 DEF SettlementNext

LEMMA OthersKeep ==
    ASSUME PlaneOK(entries, receipts, seen, writer), RailsLane \/ AdapterLane \/ MarketLane \/ WriterLane
    PROVE  PlaneOK(entries', receipts', seen', writer')
<1>1. Sound(entries)
    BY DEF PlaneOK
<1>2. receipts' = receipts
    BY DEF RailsLane, AdapterLane, MarketLane, WriterLane
<1>3. CASE RailsLane
    <2>1. RailsNext
        BY <1>3 DEF RailsLane
    <2>2. ASSUME NEW k \in Keys, NEW c \in Charges, collect_ledger(c, k) PROVE PlaneOK(entries', receipts', seen', writer')
        <3>1. Posts(entries, entries', receipts, seen)
            BY <1>1, <2>2, CollectPosts
        <3>2. seen' = seen /\ writer' = writer
            BY <2>2 DEF collect_ledger, cvars
        <3> QED BY <1>2, <3>1, <3>2, PostsKeep
    <2>3. ASSUME NEW k \in Keys, NEW c \in Charges, debit_usage(c, k) PROVE PlaneOK(entries', receipts', seen', writer')
        <3>1. Posts(entries, entries', receipts, seen)
            BY <1>1, <2>3, DebitPosts
        <3>2. seen' = seen /\ writer' = writer
            BY <2>3 DEF debit_usage, cvars
        <3> QED BY <1>2, <3>1, <3>2, PostsKeep
    <2>4. ASSUME NEW k \in Keys, NEW c \in Charges, NEW a \in BOOLEAN, collect_stripe(c, k, a)
          PROVE  PlaneOK(entries', receipts', seen', writer')
        BY <1>2, <2>4 DEF collect_stripe
    <2>5. ASSUME NEW ref, topup(TopUpUnits, ref) PROVE PlaneOK(entries', receipts', seen', writer')
        <3>1. Posts(entries, entries', receipts, seen)
            BY <1>1, <2>5, TopUpPosts
        <3>2. seen' = seen /\ writer' = writer
            BY <2>5 DEF topup, cvars
        <3> QED BY <1>2, <3>1, <3>2, PostsKeep
    <2> QED BY <2>1, <2>2, <2>3, <2>4, <2>5 DEF RailsNext
<1>4. CASE AdapterLane
    <2>1. AdapterNext
        BY <1>4 DEF AdapterLane
    <2>2. CASE OpenAdapter
        BY <1>2, <2>2, OpenKeeps
    <2>3. ASSUME NEW k \in Keys, NEW u \in Units, fund(k, u) \/ payout(k, u) PROVE PlaneOK(entries', receipts', seen', writer')
        <3>1. PlaneOK(entries', receipts, seen', writer)
            BY <2>3, FundPayoutKeeps
        <3>2. writer' = writer
            BY <2>3 DEF fund, payout, _post
        <3> QED BY <1>2, <3>1, <3>2
    <2>4. ASSUME NEW k \in Keys, NEW u \in Units, NEW op, NEW a, stripe_move(op, k, u, a)
          PROVE  PlaneOK(entries', receipts', seen', writer')
        BY <1>2, <2>4 DEF stripe_move
    <2> QED BY <2>1, <2>2, <2>3, <2>4 DEF AdapterNext
<1>5. CASE MarketLane
    <2>1. MarketNext
        BY <1>5 DEF MarketLane
    <2>2. ASSUME NEW u \in Units, settle_at_boundary(u) PROVE PlaneOK(entries', receipts', seen', writer')
        <3>1. Posts(entries, entries', receipts, seen)
            BY <1>1, <2>2, BoundaryPosts
        <3>2. seen' = seen /\ writer' = writer
            BY <2>2 DEF settle_at_boundary, cvars
        <3> QED BY <1>2, <3>1, <3>2, PostsKeep
    <2>3. ASSUME NEW u \in Units, NEW ok \in BOOLEAN, publish_with_royalty(u, ok)
          PROVE  PlaneOK(entries', receipts', seen', writer')
        <3>1. Posts(entries, entries', receipts, seen)
            BY <1>1, <2>3, RoyaltyPosts
        <3>2. seen' = seen /\ writer' = writer
            BY <2>3 DEF publish_with_royalty, cvars
        <3> QED BY <1>2, <3>1, <3>2, PostsKeep
    <2>4. ASSUME NEW u \in Units, NEW f, NEW s, NEW id, award_bounty(id, u, f, s)
          PROVE  PlaneOK(entries', receipts', seen', writer')
        <3>1. PlaneOK(entries', receipts, seen, writer)
            BY <2>4, BountyKeeps
        <3>2. seen' = seen /\ writer' = writer
            BY <2>4 DEF award_bounty, cvars
        <3> QED BY <1>2, <3>1, <3>2
    <2>5. CASE sweep_dust
        <3>1. Posts(entries, entries', receipts, seen)
            BY <1>1, <2>5, SweepDustPosts
        <3>2. seen' = seen /\ writer' = writer
            BY <2>5 DEF sweep_dust, cvars
        <3> QED BY <1>2, <3>1, <3>2, PostsKeep
    <2>6. ASSUME NEW m \in Meters, NEW b \in ProviderBills, NEW r \in Rates, reimburse(m, b, r)
          PROVE  PlaneOK(entries', receipts', seen', writer')
        <3>1. Posts(entries, entries', receipts, seen)
            BY <1>1, <2>6, ReimbursePosts
        <3>2. seen' = seen /\ writer' = writer
            BY <2>6 DEF reimburse, cvars
        <3> QED BY <1>2, <3>1, <3>2, PostsKeep
    <2> QED BY <2>1, <2>2, <2>3, <2>4, <2>5, <2>6 DEF MarketNext
<1>6. CASE WriterLane
    <2>1. WriterNext
        BY <1>6 DEF WriterLane
    <2>2. CASE AppendOne
        <3>1. PlaneOK(entries', receipts, seen, writer')
            BY <2>2, AppendKeeps
        <3>2. seen' = seen
            BY <2>2 DEF AppendOne
        <3> QED BY <1>2, <3>1, <3>2
    <2>3. CASE (\E ps \in StagedSets : stage(ps)) \/ Validate \/ EndLoop \/ Count
        <3>1. PlaneOK(entries', receipts, seen, writer')
            BY <2>3, StagingKeeps
        <3>2. seen' = seen
            BY <2>3 DEF stage, Validate, EndLoop, Count
        <3> QED BY <1>2, <3>1, <3>2
    <2> QED BY <2>1, <2>2, <2>3 DEF WriterNext
<1> QED BY <1>3, <1>4, <1>5, <1>6

LEMMA PlaneStep == PlaneInv /\ [PlaneNext]_planeVars => PlaneInv'
<1> SUFFICES ASSUME PlaneInv, [PlaneNext]_planeVars PROVE PlaneInv'
    OBVIOUS
<1>1. PlaneOK(entries, receipts, seen, writer) /\ QuorumOfSigners
    BY DEF PlaneInv
<1>2. CASE UNCHANGED planeVars
    <2>1. entries' = entries /\ receipts' = receipts /\ seen' = seen /\ writer' = writer /\ verdicts' = verdicts
        BY <1>2 DEF planeVars
    <2>2. QuorumOfSigners'
        BY <1>1, <2>1 DEF QuorumOfSigners
    <2> QED BY <1>1, <2>1, <2>2 DEF PlaneInv
<1>3. CASE QuotesLane
    BY <1>1, <1>3, QuotesKeep DEF PlaneInv
<1>4. CASE RailsLane \/ AdapterLane \/ MarketLane \/ WriterLane
    <2>1. PlaneOK(entries', receipts', seen', writer')
        BY <1>1, <1>4, OthersKeep
    <2>2. verdicts' = verdicts
        BY <1>4 DEF RailsLane, AdapterLane, MarketLane, WriterLane
    <2>3. QuorumOfSigners'
        BY <1>1, <2>2 DEF QuorumOfSigners
    <2> QED BY <2>1, <2>3 DEF PlaneInv
<1> QED BY <1>2, <1>3, <1>4 DEF PlaneNext

LEMMA PlaneInvariant == PlaneSpec => []PlaneInv
BY PlaneStarts, PlaneStep, PTL DEF PlaneSpec

-----------------------------------------------------------------------------
(* What it implies                                                         *)

LEMMA LedgerFact == PlaneInv => LedgerSound
<1> SUFFICES ASSUME PlaneInv PROVE LedgerSound
    OBVIOUS
<1>1. Sound(entries)
    BY DEF PlaneInv, PlaneOK
<1>2. RewardChain(entries) /\ \A i \in DOMAIN entries : is_balanced(entries[i].postings)
    BY <1>1 DEF Sound
<1>3. global_zero(entries)
    BY <1>2, ChainConserves DEF global_zero
<1>4. \A q \in Quotes : \A a \in {escrow_for(q), Hold(q), BondAccount(q)} : Balance(entries, a, USD) >= 0
    BY <1>1, Accounts DEF Sound, USD
<1> QED BY <1>2, <1>3, <1>4 DEF LedgerSound

LEMMA AtMostOne ==
    ASSUME NEW S, \A x, y \in S : x = y
    PROVE  ~(Cardinality(S) > 1)
<1>1. CASE S = {}
    BY <1>1, FS_EmptySet
<1>2. CASE S # {}
    <2>1. PICK x : x \in S
        BY <1>2
    <2>2. S = {x}
        BY <2>1
    <2>3. Cardinality(S) = 1
        BY <2>2, FS_Singleton
    <2> QED BY <2>3
<1> QED BY <1>1, <1>2

LEMMA WorkFact == PlaneInv => MoneyHasWork
<1> SUFFICES ASSUME PlaneInv PROVE MoneyHasWork
    OBVIOUS
<1> DEFINE money == settled_quote_shas(entries)
           work  == authorized_quote_shas(receipts)
           paid(q) == {i \in settlements(entries) : entries[i].memo[2] = q}
<1>1. RewardChain(entries) /\ OnceEach(entries) /\ PaidForWork(entries, receipts)
    BY DEF PlaneInv, PlaneOK, Trail, Sound
<1>2. \A i \in settlements(entries) : /\ i \in DOMAIN entries /\ entries[i].memo[1] = "settle"
                                      /\ entries[i].memo = <<"settle", entries[i].memo[2]>>
                                      /\ entries[i].memo[2] \in work
    BY <1>1 DEF settlements, PaidForWork, Authorized
<1>3. money \ work = {}
    BY <1>2 DEF settled_quote_shas
<1>4. ASSUME NEW q PROVE ~(Cardinality(paid(q)) > 1)
    <2>1. ASSUME NEW i \in paid(q), NEW j \in paid(q) PROVE i = j
        <3>1. i \in DOMAIN entries /\ j \in DOMAIN entries /\ entries[i].memo = entries[j].memo
            BY <1>2
        <3>2. entries[i].memo[1] \in OnceKind /\ entries[j].memo[1] \in OnceKind
            BY <1>2 DEF OnceKind
        <3>3. ~(i < j) /\ ~(j < i)
            BY <1>1, <3>1, <3>2 DEF OnceEach
        <3>4. i \in Nat /\ j \in Nat
            <4>1. Len(entries) \in Nat /\ DOMAIN entries = 1..Len(entries)
                BY <1>1, SequenceDomain DEF RewardChain
            <4> QED BY <3>1, <4>1
        <3> QED BY <3>3, <3>4
    <2> HIDE DEF paid
    <2> QED BY <2>1, AtMostOne
<1>5. {q \in money : Cardinality(paid(q)) > 1} = {}
    BY <1>4
<1>6. /\ reward_verify(entries, receipts).money_without_work = money \ work
      /\ reward_verify(entries, receipts).double_settled = {q \in money : Cardinality(paid(q)) > 1}
    BY DEF reward_verify
<1> QED BY <1>3, <1>5, <1>6 DEF MoneyHasWork

LEMMA OnceFact == PlaneInv => OncePerKey
<1> SUFFICES ASSUME PlaneInv PROVE OncePerKey
    OBVIOUS
<1>1. Sound(entries) /\ OnceEach(entries)
    BY DEF PlaneInv, PlaneOK, Trail
<1>2. CreditBalance(entries) >= 0
    BY <1>1, Accounts DEF Sound, CreditBalance, USDollar
<1>3. {"tax", "usage", "adapter-fund", "adapter-payout"} \subseteq OnceKind
    BY DEF OnceKind, AdapterKind
<1> QED BY <1>1, <1>2, <1>3 DEF OncePerKey, OnceEach

LEMMA BalancesFact == PlaneInv => RunningBalancesExact
<1> SUFFICES ASSUME PlaneInv, AllGroup(entries)
             PROVE  writer.bal = balances(entries) /\ resume_verify(checkpoint(writer.bal))
    BY DEF RunningBalancesExact, AllGroup
<1>1. writer.bal = balances(entries)
    BY DEF PlaneInv, PlaneOK, WriterExact
<1>2. Conserved(writer.bal)
    <2>1. RewardChain(entries) /\ \A i \in DOMAIN entries : is_balanced(entries[i].postings)
        BY DEF PlaneInv, PlaneOK, Sound
    <2> QED BY <1>1, <2>1, ChainConserves
<1> QED BY <1>1, <1>2 DEF resume_verify, checkpoint

(* Whatever the quotes, policies, charges and staged sets, and in whatever *)
(* order the settlement functions, the rails, the adapters, the markets    *)
(* and the group-commit writer post: every record and the whole reward     *)
(* chain sum to zero in every currency, and no escrow, hold or bond is     *)
(* ever overdrawn.                                                         *)
THEOREM LedgerIsSound == PlaneSpec => []LedgerSound
BY PlaneInvariant, LedgerFact, PTL

(* reward_verify's audit always comes out clean: nothing is paid without a *)
(* dual-signed passing receipt, and engine.settle pays no quote twice.     *)
THEOREM NoMoneyWithoutWork == PlaneSpec => []MoneyHasWork
BY PlaneInvariant, WorkFact, PTL

(* rails.collect, credits.debit_usage and adapter._post move value at most *)
(* once per idempotency key, also after the adapter restarts and rebuilds  *)
(* its set of seen memos, and the prepaid credit is never overdrawn.       *)
THEOREM NothingMovesTwice == PlaneSpec => []OncePerKey
BY PlaneInvariant, OnceFact, PTL

(* disputes.resolve: behind every verdict stand two different registered   *)
(* keys that signed that outcome, for every roster, aliases included, and  *)
(* every list of approvals.                                                *)
THEOREM TwoSignersPerVerdict == PlaneSpec => []QuorumOfSigners
<1>1. PlaneInv => QuorumOfSigners
    BY DEF PlaneInv
<1> QED BY <1>1, PlaneInvariant, PTL

(* GroupCommitWriter: as long as it alone posts, its running balances are  *)
(* the fold of the chain after every single append, and the checkpoint it  *)
(* would write passes resume_verify.                                       *)
THEOREM RunningBalancesAreExact == PlaneSpec => []RunningBalancesExact
BY PlaneInvariant, BalancesFact, PTL

(* escrow_expiry.sweep_expired: whenever a sweep runs, it leaves no stale  *)
(* escrow, and any expired balance still there belongs to a key that had   *)
(* been settled or refunded before.                                        *)
THEOREM SweepIsThorough == PlaneSpec => SweepLeavesOnlyRefunded
<1> DEFINE Leaves == sweep_expired =>
              /\ stale_escrow_keys(entries', now) = {}
              /\ \A q \in DOMAIN _fundings(entries') :
                    (_fundings(entries')[q].exp <= now /\ Balance(entries', escrow_for(q), USD) # 0)
                        => q \in _settled_or_refunded(entries)
<1>1. PlaneInv => Leaves
    <2> SUFFICES ASSUME PlaneInv, sweep_expired PROVE Leaves
        OBVIOUS
    <2>1. RewardChain(entries)
        BY DEF PlaneInv, PlaneOK, Sound
    <2>2. Swept(entries, entries', Expired(entries, now))
        BY <2>1, SweepEffect
    <2> QED BY <2>2, SweepLeaves
<1>2. PlaneInv => [Leaves]_planeVars
    BY <1>1
<1>3. SweepLeavesOnlyRefunded <=> [][Leaves]_planeVars
    BY DEF SweepLeavesOnlyRefunded
<1> HIDE DEF Leaves
<1> QED BY <1>2, <1>3, PlaneInvariant, PTL
=============================================================================
