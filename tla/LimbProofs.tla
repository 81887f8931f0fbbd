----------------------------- MODULE LimbProofs -----------------------------
(***************************************************************************)
(* Proofs about the limb and the identity checks: a bearer assertion is    *)
(* accepted once per process, a principal stays within its quota, a grant  *)
(* is spent once, in exod's memory and in the run's ledger file, and what  *)
(* ran stayed within the operator's ceiling, in the box its grant          *)
(* describes.                                                              *)
(***************************************************************************)
EXTENDS Limb, Identity, SumTheorems

-----------------------------------------------------------------------------
(* Sequences whose elements come from no particular set.                   *)
IsSequence(s) == \E S : s \in Seq(S)

LEMMA EmptySequence == IsSequence(<< >>) /\ DOMAIN << >> = {}
<1>1. << >> \in Seq({})
    OBVIOUS
<1> QED BY <1>1 DEF IsSequence

LEMMA AppendSequence ==
    ASSUME NEW s, IsSequence(s), NEW x
    PROVE  /\ IsSequence(Append(s, x)) /\ Len(s) \in Nat
           /\ Len(Append(s, x)) = Len(s) + 1
           /\ DOMAIN s = 1..Len(s) /\ DOMAIN Append(s, x) = 1..(Len(s) + 1)
           /\ \A i \in 1..Len(s) : Append(s, x)[i] = s[i]
           /\ Append(s, x)[Len(s) + 1] = x
<1>1. PICK S : s \in Seq(S)
    BY DEF IsSequence
<1>2. s \in Seq(S \cup {x})
    BY <1>1
<1>3. Append(s, x) \in Seq(S \cup {x})
    BY <1>2
<1> QED BY <1>2, <1>3 DEF IsSequence

-----------------------------------------------------------------------------
(* One process that authenticates and throttles its callers: every handler *)
(* thread may be at either check.                                          *)
identityVars == <<time, thread, authVars, bucketVars>>
IdentityNext == AuthNext \/ RateNext
IdentitySpec == IdentityInit /\ [][IdentityNext]_identityVars

Verifying(t) == thread[t].pc = "verify"

(* An assertion once accepted is remembered for as long as it lives, and a *)
(* thread that is past the look-up is the only one with its nonce, unless  *)
(* two threads were at it together.                                        *)
Remembered ==
    \A a \in accepted :
      \/ a.nonce \in overlapped
      \/ a.exp <= time
      \/ a.nonce \in DOMAIN seen /\ seen[a.nonce] \in Int /\ seen[a.nonce] >= a.exp
PastLookup ==
    \A t \in Threads : Verifying(t) =>
      \/ thread[t].a.nonce \in overlapped
      \/ \A b \in accepted : b.nonce = thread[t].a.nonce => b # thread[t].a /\ b.exp <= time
OverlapSeen ==
    \A t, u \in Threads :
      t # u /\ Verifying(t) /\ Verifying(u) /\ thread[t].a.nonce = thread[u].a.nonce
        => thread[t].a.nonce \in overlapped

AuthInv ==
    /\ time \in Int /\ DOMAIN thread = Threads /\ thread = [t \in Threads |-> thread[t]]
    /\ accepted \subseteq Assertions
    /\ \A t \in Threads : Verifying(t) => thread[t].a \in Assertions
    /\ Remembered /\ PastLookup /\ OverlapSeen
    /\ twice = {}

LEMMA AuthInit == IdentityInit => AuthInv
BY DEF IdentityInit, AuthInv, Free, Remembered, PastLookup, OverlapSeen, Verifying

(* Pruning forgets no nonce that is still live.                            *)
LEMMA PruneKeepsLive ==
    ASSUME AuthInv, NEW n, n \in DOMAIN seen, seen[n] > time
    PROVE  n \in DOMAIN Pruned /\ Pruned[n] = seen[n]
BY DEF Pruned

LEMMA VerifyKeeps ==
    ASSUME AuthInv, NEW t \in Threads, NEW a \in Assertions, Verify(t, a)
    PROVE  AuthInv'
<1>0. a.exp \in Int /\ a.exp > time /\ (\A b \in accepted : b.exp \in Int) /\ time \in Int
    BY IdentityAssumption DEF Verify, WellFormed, AuthInv
<1>1. UNCHANGED <<time, accepted, twice>> /\ seen' = Pruned
    BY DEF Verify
<1>2. Remembered'
    <2> SUFFICES ASSUME NEW b \in accepted, b.nonce \notin overlapped', ~(b.exp <= time)
                 PROVE  b.nonce \in DOMAIN seen' /\ seen'[b.nonce] \in Int /\ seen'[b.nonce] >= b.exp
        BY <1>1 DEF Remembered
    <2>1. b.nonce \notin overlapped
        BY DEF Verify
    <2>2. b.nonce \in DOMAIN seen /\ seen[b.nonce] \in Int /\ seen[b.nonce] >= b.exp
        BY <2>1 DEF AuthInv, Remembered
    <2>3. seen[b.nonce] > time
        BY <1>0, <2>2
    <2> QED BY <1>1, <2>2, <2>3, PruneKeepsLive
<1>3. CASE UNCHANGED <<thread, overlapped>>
    BY <1>1, <1>2, <1>3 DEF AuthInv, PastLookup, OverlapSeen, Verifying
<1>4. CASE /\ ~(a.nonce \in DOMAIN Pruned /\ Pruned[a.nonce] > time)
           /\ thread' = [thread EXCEPT ![t] = [pc |-> "verify", a |-> a]]
           /\ overlapped' = overlapped \cup
                {x.a.nonce : x \in {thread[u] : u \in {v \in Threads : thread[v].pc = "verify" /\ thread[v].a.nonce = a.nonce}}}
    <2>1. /\ thread'[t] = [pc |-> "verify", a |-> a] /\ thread'[t].a = a /\ thread[t].pc = "free"
          /\ \A u \in Threads \ {t} : thread'[u] = thread[u]
        BY <1>4 DEF AuthInv, Verify
    <2>2. \A u \in Threads : Verifying(u) /\ thread[u].a.nonce = a.nonce => a.nonce \in overlapped'
        BY <1>4 DEF Verifying
    <2>3. \A b \in accepted : b.nonce = a.nonce => b.nonce \in overlapped \/ b.exp <= time
        <3> SUFFICES ASSUME NEW b \in accepted, b.nonce = a.nonce, b.nonce \notin overlapped, ~(b.exp <= time)
                     PROVE  FALSE
            OBVIOUS
        <3>1. b.nonce \in DOMAIN seen /\ seen[b.nonce] \in Int /\ seen[b.nonce] >= b.exp
            BY DEF AuthInv, Remembered
        <3>2. seen[b.nonce] > time
            BY <1>0, <3>1
        <3> QED BY <1>4, <3>1, <3>2, PruneKeepsLive
    <2>4. overlapped \subseteq overlapped'
        BY <1>4
    <2>5. PastLookup'
        <3> SUFFICES ASSUME NEW u \in Threads, Verifying(u)'
                     PROVE  \/ thread'[u].a.nonce \in overlapped'
                            \/ \A b \in accepted : b.nonce = thread'[u].a.nonce => b # thread'[u].a /\ b.exp <= time
            BY <1>1 DEF PastLookup
        <3>1. CASE u = t
            <4>1. \A b \in accepted : b.nonce = a.nonce => a.nonce \in overlapped' \/ (b # a /\ b.exp <= time)
                BY <1>0, <2>3, <2>4
            <4> QED BY <2>1, <3>1, <4>1
        <3>2. CASE u # t
            BY <2>1, <2>4, <3>2 DEF AuthInv, PastLookup, Verifying
        <3> QED BY <3>1, <3>2
    <2>6. OverlapSeen'
        BY <2>1, <2>2, <2>4 DEF AuthInv, OverlapSeen, Verifying
    <2>7. /\ DOMAIN thread' = Threads /\ thread' = [u \in Threads |-> thread'[u]]
          /\ \A u \in Threads : Verifying(u)' => thread'[u].a \in Assertions
        BY <1>4, <2>1 DEF AuthInv, Verifying
    <2> QED BY <1>1, <1>2, <2>5, <2>6, <2>7 DEF AuthInv
<1> QED BY <1>3, <1>4 DEF Verify

LEMMA RememberKeeps ==
    ASSUME AuthInv, NEW t \in Threads, Remember(t)
    PROVE  AuthInv'
<1> DEFINE a == thread[t].a
           known == resolve_principal(None, "ed25519", a.pub) # None
<1>1. /\ a \in Assertions /\ a.exp \in Int /\ time \in Int /\ \A b \in accepted : b.exp \in Int
      /\ Verifying(t)
    BY IdentityAssumption DEF Remember, AuthInv, Verifying
<1>2. /\ seen' = [n \in DOMAIN seen \cup {a.nonce} |-> IF n = a.nonce THEN a.exp ELSE seen[n]]
      /\ twice' = IF a.nonce \in overlapped \/ ~known THEN twice ELSE twice \cup ({a} \cap accepted)
      /\ accepted' = IF known THEN accepted \cup {a} ELSE accepted
      /\ thread' = [thread EXCEPT ![t] = Free]
      /\ UNCHANGED <<time, overlapped>>
    BY DEF Remember
<1> HIDE DEF known
<1>3. /\ thread'[t] = Free /\ ~Verifying(t)'
      /\ \A u \in Threads \ {t} : thread'[u] = thread[u]
    BY <1>2 DEF AuthInv, Free, Verifying
<1>4. accepted' \subseteq accepted \cup {a} /\ accepted' \subseteq Assertions
    BY <1>1, <1>2 DEF AuthInv
<1>5. a.nonce \in overlapped \/ \A b \in accepted : b.nonce = a.nonce => b # a /\ b.exp <= time
    BY <1>1 DEF AuthInv, PastLookup
<1>6. Remembered'
    <2> SUFFICES ASSUME NEW b \in accepted', b.nonce \notin overlapped, ~(b.exp <= time)
                 PROVE  b.nonce \in DOMAIN seen' /\ seen'[b.nonce] \in Int /\ seen'[b.nonce] >= b.exp
        BY <1>2 DEF Remembered
    <2> HIDE DEF a
    <2>1. CASE b = a
        BY <1>1, <1>2, <2>1
    <2>2. CASE b # a
        <3>1. b \in accepted /\ b.nonce # a.nonce
            BY <1>4, <1>5, <2>2
        <3>2. b.nonce \in DOMAIN seen /\ seen[b.nonce] \in Int /\ seen[b.nonce] >= b.exp
            BY <3>1 DEF AuthInv, Remembered
        <3> QED BY <1>2, <3>1, <3>2
    <2> QED BY <2>1, <2>2
<1>7. PastLookup'
    <2> SUFFICES ASSUME NEW u \in Threads, u # t, Verifying(u), thread'[u] = thread[u],
                        thread[u].a.nonce \notin overlapped
                 PROVE  \A b \in accepted' : b.nonce = thread[u].a.nonce => b # thread[u].a /\ b.exp <= time
        BY <1>2, <1>3 DEF PastLookup, Verifying
    <2>1. a.nonce # thread[u].a.nonce
        BY <1>1 DEF AuthInv, OverlapSeen
    <2> QED BY <1>4, <2>1 DEF AuthInv, PastLookup
<1>8. OverlapSeen' /\ \A u \in Threads : Verifying(u)' => thread'[u].a \in Assertions
    BY <1>2, <1>3 DEF AuthInv, OverlapSeen, Verifying
<1>9. twice' = {}
    BY <1>2, <1>5 DEF AuthInv
<1>10. DOMAIN thread' = Threads /\ thread' = [u \in Threads |-> thread'[u]]
    BY <1>2 DEF AuthInv
<1> QED BY <1>1, <1>2, <1>4, <1>6, <1>7, <1>8, <1>9, <1>10 DEF AuthInv

LEMMA AuthStep ==
    ASSUME AuthInv, [IdentityNext]_identityVars
    PROVE  AuthInv'
<1>1. CASE UNCHANGED identityVars
    BY <1>1 DEF identityVars, authVars, AuthInv, Remembered, PastLookup, OverlapSeen, Verifying
<1>2. CASE Pass
    <2>1. time' = time + 1 /\ time \in Int /\ \A b \in accepted : b.exp \in Int
        BY <1>2, IdentityAssumption DEF Pass, AuthInv
    <2> QED BY <1>2, <2>1 DEF Pass, authVars, AuthInv, Remembered, PastLookup, OverlapSeen, Verifying
<1>3. CASE Reboot
    BY <1>3 DEF Reboot, Free, AuthInv, Remembered, PastLookup, OverlapSeen, Verifying
<1>4. ASSUME NEW t \in Threads, RateRead(t) \/ RateWrite(t) PROVE AuthInv'
    <2>1. /\ UNCHANGED <<time, seen, accepted, twice, overlapped>>
          /\ \A u \in Threads : Verifying(u)' => Verifying(u) /\ thread'[u] = thread[u]
          /\ DOMAIN thread' = Threads /\ thread' = [u \in Threads |-> thread'[u]]
        BY <1>4 DEF RateRead, RateWrite, authVars, AuthInv, Verifying, Free
    <2> QED BY <2>1 DEF AuthInv, Remembered, PastLookup, OverlapSeen
<1>5. ASSUME NEW t \in Threads, Remember(t) PROVE AuthInv'
    BY <1>5, RememberKeeps
<1>6. ASSUME NEW t \in Threads, NEW a \in Assertions, Verify(t, a) PROVE AuthInv'
    BY <1>6, VerifyKeeps
<1> QED BY <1>1, <1>2, <1>3, <1>4, <1>5, <1>6 DEF IdentityNext, AuthNext, RateNext

(* ed25519_auth.Verifier: for any number of threads and assertions and any *)
(* size of the cache, one process accepts an assertion a second time only  *)
(* if two threads were checking its nonce at the same moment.              *)
THEOREM AssertionsAcceptedOnce == IdentitySpec => []AssertionAcceptedOnce
<1>1. AuthInv => AssertionAcceptedOnce
    BY DEF AuthInv, AssertionAcceptedOnce
<1> QED BY <1>1, AuthInit, AuthStep, PTL DEF IdentitySpec

-----------------------------------------------------------------------------
(* The token bucket.  With k tokens in the bucket at time ts, the requests *)
(* let through since any earlier one, that one included, and the k still   *)
(* to come are within the quota of the stretch from it to ts.              *)
Within(k, ts) ==
    /\ k \in Int /\ ts \in Int /\ k <= Burst /\ ts <= time
    /\ \A i \in 1..Len(admitted) :
         /\ admitted[i] <= ts
         /\ Len(admitted) - i + 1 + k <= Burst + Rate * (ts - admitted[i])

AtRate(t) == thread[t].pc = "rate"

QuotaInv ==
    /\ time \in Int /\ thread = [t \in Threads |-> thread[t]] /\ admitted \in Seq(Int)
    /\ contended => admitted = << >>
    /\ ~contended => \A t, u \in Threads : AtRate(t) /\ AtRate(u) => t = u
    /\ \A t \in Threads : AtRate(t) => Within(thread[t].tokens, thread[t].now)
    /\ IF bucket = None THEN admitted = << >> ELSE Within(bucket.tokens, bucket.ts)
    /\ \A i, j \in 1..Len(admitted) : i <= j => j - i + 1 <= Burst + Rate * (admitted[j] - admitted[i])

LEMMA Distributes == \A r, a, b \in Int : r * (a + b) = r * a + r * b
OBVIOUS

LEMMA Products == \A r, a \in Int : r * a \in Int
OBVIOUS

LEMMA Commutes == \A r, a \in Int : r * a = a * r
OBVIOUS

(* Tokens refilled over a while are covered by the quota of that while.    *)
LEMMA RefillWithin ==
    ASSUME QuotaInv
    PROVE  Within(Refilled, time)
<1>0. time \in Int /\ Burst \in Nat /\ Rate \in Nat /\ admitted \in Seq(Int) /\ Len(admitted) \in Nat
      /\ \A i \in 1..Len(admitted) : admitted[i] \in Int
    BY IdentityAssumption DEF QuotaInv
<1>1. CASE bucket = None
    BY <1>0, <1>1 DEF QuotaInv, Refilled, Within
<1>2. CASE bucket # None
    <2> DEFINE k == bucket.tokens
               ts == bucket.ts
               gain == (time - ts) * Rate
    <2>1. Within(k, ts)
        BY <1>2 DEF QuotaInv
    <2>2. k \in Int /\ ts \in Int /\ ts <= time /\ gain \in Int
        BY <1>0, <2>1 DEF Within
    <2>3. Refilled = Lower(Burst, k + gain)
        <3>1. CASE time > ts
            BY <1>2, <3>1 DEF Refilled
        <3>2. CASE time = ts
            BY <1>0, <1>2, <2>2, <3>2 DEF Refilled
        <3> QED BY <1>0, <2>2, <3>1, <3>2
    <2>4. /\ Refilled \in Int /\ Refilled <= Burst /\ Refilled <= k + gain
        BY <1>0, <2>2, <2>3 DEF Lower
    <2>5. ASSUME NEW i \in 1..Len(admitted)
          PROVE  /\ admitted[i] <= time
                 /\ Len(admitted) - i + 1 + Refilled <= Burst + Rate * (time - admitted[i])
        <3>1. /\ admitted[i] \in Int /\ admitted[i] <= ts
              /\ Len(admitted) - i + 1 + k <= Burst + Rate * (ts - admitted[i])
            BY <1>0, <2>1 DEF Within
        <3>0. admitted[i] \in Int /\ ts \in Int /\ time \in Int
            BY <1>0, <2>2, <3>1
        <3>2. Rate * (time - admitted[i]) = Rate * (ts - admitted[i]) + gain
            <4>0. Rate \in Int /\ ts - admitted[i] \in Int /\ time - ts \in Int
                BY <1>0, <3>0
            <4>1. Rate * ((ts - admitted[i]) + (time - ts)) = Rate * (ts - admitted[i]) + Rate * (time - ts)
                BY <4>0, Distributes
            <4>2. (ts - admitted[i]) + (time - ts) = time - admitted[i]
                BY <3>0
            <4>3. Rate * (time - ts) = gain
                BY <4>0, Commutes
            <4> QED BY <4>1, <4>2, <4>3
        <3> DEFINE before == Rate * (ts - admitted[i])
                   after == Rate * (time - admitted[i])
        <3>3. before \in Int /\ after = before + gain /\ i \in Int
              /\ Len(admitted) - i + 1 + k <= Burst + before
            <4>1. ts - admitted[i] \in Int /\ Rate \in Int
                BY <1>0, <3>0
            <4>2. before \in Int
                BY <4>1, Products
            <4> QED BY <3>1, <3>2, <4>2
        <3> HIDE DEF gain, k, ts, before, after
        <3>4. Len(admitted) - i + 1 + Refilled <= Burst + after
            BY <1>0, <2>2, <2>4, <3>3
        <3> QED BY <1>0, <2>2, <3>1, <3>4 DEF after
    <2> QED BY <1>0, <2>4, <2>5 DEF Within
<1> QED BY <1>1, <1>2

LEMMA QuotaInit == IdentityInit => QuotaInv
BY DEF IdentityInit, QuotaInv, Free, AtRate

(* An overlap starts the count anew, and an empty count is within any quota*)
(* the bucket stands for.                                                  *)
LEMMA EmptyWithin ==
    ASSUME NEW k, NEW ts, Within(k, ts), admitted' = << >>, time' = time
    PROVE  Within(k, ts)'
BY DEF Within

LEMMA ReadKeepsQuota ==
    ASSUME QuotaInv, NEW t \in Threads, RateRead(t)
    PROVE  QuotaInv'
<1>1. /\ thread' = [thread EXCEPT ![t] = [pc |-> "rate", tokens |-> Refilled, now |-> time]]
      /\ contended' = (contended \/ \E u \in Threads : AtRate(u))
      /\ admitted' = IF contended' THEN << >> ELSE admitted
      /\ UNCHANGED <<time, bucket>>
    BY DEF RateRead, AtRate
<1>2. /\ thread' = [u \in Threads |-> thread'[u]]
      /\ thread'[t] = [pc |-> "rate", tokens |-> Refilled, now |-> time]
      /\ \A u \in Threads \ {t} : thread'[u] = thread[u]
    BY <1>1 DEF QuotaInv
<1>3. \A k, ts : Within(k, ts) => Within(k, ts)'
    <2>1. CASE contended'
        BY <1>1, <2>1, EmptyWithin
    <2>2. CASE ~contended'
        BY <1>1, <2>2 DEF Within
    <2> QED BY <2>1, <2>2
<1>4. Within(Refilled, time)
    BY RefillWithin
<1>5. \A u \in Threads : AtRate(u)' => Within(thread[u].tokens, thread[u].now)'
    <2>1. \A u \in Threads \ {t} : AtRate(u)' => Within(thread[u].tokens, thread[u].now)'
        BY <1>2, <1>3 DEF QuotaInv, AtRate
    <2>2. Within(thread[t].tokens, thread[t].now)'
        <3>1. thread'[t].tokens = Refilled /\ thread'[t].now = time
            BY <1>2
        <3>2. Within(thread'[t].tokens, thread'[t].now)
            BY <1>4, <3>1
        <3> QED BY <1>3, <3>2
    <2> QED BY <2>1, <2>2
<1>6. ~contended' => \A u, v \in Threads : AtRate(u)' /\ AtRate(v)' => u = v
    BY <1>1, <1>2 DEF AtRate
<1>7. admitted' \in Seq(Int) /\ (contended' => admitted' = << >>)
    BY <1>1 DEF QuotaInv
<1>8. IF bucket' = None THEN admitted' = << >> ELSE Within(bucket.tokens, bucket.ts)'
    BY <1>1, <1>3 DEF QuotaInv
<1>9. \A i, j \in 1..Len(admitted') : i <= j => j - i + 1 <= Burst + Rate * (admitted'[j] - admitted'[i])
    BY <1>1 DEF QuotaInv
<1> QED BY <1>1, <1>2, <1>5, <1>6, <1>7, <1>8, <1>9 DEF QuotaInv

LEMMA WriteKeepsQuota ==
    ASSUME QuotaInv, NEW t \in Threads, RateWrite(t)
    PROVE  QuotaInv'
<1> DEFINE k == thread[t].tokens
           at == thread[t].now
<1>1. /\ bucket' = [tokens |-> IF k >= 1 THEN k - 1 ELSE k, ts |-> at]
      /\ admitted' = IF k >= 1 /\ ~contended THEN Append(admitted, at) ELSE admitted
      /\ contended' = (contended /\ \E u \in Threads \ {t} : AtRate(u))
      /\ thread' = [thread EXCEPT ![t] = Free]
      /\ time' = time /\ AtRate(t)
    BY DEF RateWrite, AtRate
<1>2. thread' = [u \in Threads |-> thread'[u]] /\ thread'[t] = Free /\ \A u \in Threads \ {t} : thread'[u] = thread[u]
    BY <1>1 DEF QuotaInv
<1>3. ASSUME ~contended PROVE QuotaInv'
    <2>0. /\ Within(k, at) /\ k \in Int /\ at \in Int /\ time \in Int /\ Burst \in Nat /\ Rate \in Nat
          /\ admitted \in Seq(Int) /\ Len(admitted) \in Nat /\ \A i \in 1..Len(admitted) : admitted[i] \in Int
          /\ at <= time /\ k <= Burst
        BY <1>1, IdentityAssumption DEF QuotaInv, Within
    <2>1. (\A u \in Threads : ~AtRate(u)') /\ ~contended'
        BY <1>1, <1>2, <1>3 DEF QuotaInv, AtRate, Free
    <2>2. bucket' # None /\ bucket'.tokens = (IF k >= 1 THEN k - 1 ELSE k) /\ bucket'.ts = at
        BY <1>1, <2>0, IdentityAssumption
    <2> HIDE DEF k, at
    <2>3. CASE k >= 1
        <3>1. /\ admitted' \in Seq(Int) /\ Len(admitted') = Len(admitted) + 1
              /\ admitted'[Len(admitted) + 1] = at
              /\ \A i \in 1..Len(admitted) : admitted'[i] = admitted[i]
            BY <1>1, <1>3, <2>0, <2>3
        <3>2. ASSUME NEW i \in 1..Len(admitted)
              PROVE  /\ admitted[i] <= at
                     /\ Len(admitted) - i + 1 + k <= Burst + Rate * (at - admitted[i])
                     /\ Rate * (at - admitted[i]) \in Int
            BY <2>0 DEF Within
        <3>3. Rate * (at - at) = 0
            BY <2>0
        <3>4. ASSUME NEW i \in 1..Len(admitted')
              PROVE  /\ admitted'[i] <= at
                     /\ Len(admitted') - i + 1 + (k - 1) <= Burst + Rate * (at - admitted'[i])
            <4>1. CASE i = Len(admitted) + 1
                BY <2>0, <3>1, <3>3, <4>1
            <4>2. CASE i \in 1..Len(admitted)
                <5> DEFINE q == Rate * (at - admitted[i])
                <5>1. q \in Int /\ i \in Int /\ Len(admitted) - i + 1 + k <= Burst + q /\ admitted[i] <= at
                    BY <3>2, <4>2
                <5>2. admitted'[i] = admitted[i]
                    BY <3>1, <4>2
                <5> HIDE DEF q
                <5>3. Len(admitted') - i + 1 + (k - 1) <= Burst + q
                    BY <2>0, <3>1, <5>1
                <5> QED BY <5>1, <5>2, <5>3 DEF q
            <4> QED BY <2>0, <3>1, <4>1, <4>2
        <3>5. Within(bucket.tokens, bucket.ts)'
            BY <1>1, <2>0, <2>2, <2>3, <3>4 DEF Within
        <3>6. ASSUME NEW i \in 1..Len(admitted'), NEW j \in 1..Len(admitted'), i <= j
              PROVE  j - i + 1 <= Burst + Rate * (admitted'[j] - admitted'[i])
            <4>1. CASE j = Len(admitted) + 1
                <5>1. Len(admitted') - i + 1 + (k - 1) <= Burst + Rate * (at - admitted'[i])
                    BY <3>4
                <5>2. i \in Int /\ admitted'[i] \in Int /\ Rate * (at - admitted'[i]) \in Int
                    BY <2>0, <3>1
                <5> QED BY <2>0, <2>3, <3>1, <4>1, <5>1, <5>2
            <4>2. CASE j \in 1..Len(admitted)
                <5>1. i \in 1..Len(admitted)
                    BY <2>0, <3>1, <3>6, <4>2
                <5> QED BY <3>1, <3>6, <4>2, <5>1 DEF QuotaInv
            <4> QED BY <2>0, <3>1, <4>1, <4>2
        <3> QED BY <1>1, <1>2, <2>0, <2>1, <2>2, <3>1, <3>5, <3>6 DEF QuotaInv
    <2>4. CASE ~(k >= 1)
        <3>1. Within(bucket.tokens, bucket.ts)'
            BY <1>1, <2>0, <2>2, <2>4 DEF Within
        <3> QED BY <1>1, <1>2, <2>0, <2>1, <2>2, <2>4, <3>1 DEF QuotaInv
    <2> QED BY <2>3, <2>4
<1>4. ASSUME contended PROVE QuotaInv'
    <2>0. Within(k, at) /\ k \in Int /\ admitted = << >> /\ admitted' = << >>
        BY <1>1, <1>4 DEF QuotaInv, Within
    <2>1. \A c, ts : Within(c, ts) => Within(c, ts)'
        BY <1>1, <2>0, EmptyWithin
    <2>2. ~contended' => \A u \in Threads : ~AtRate(u)'
        BY <1>1, <1>2, <1>4 DEF AtRate, Free
    <2>3. \A u \in Threads : AtRate(u)' => Within(thread[u].tokens, thread[u].now)'
        BY <1>2, <2>1 DEF QuotaInv, AtRate, Free
    <2>4. bucket' # None /\ bucket'.tokens = (IF k >= 1 THEN k - 1 ELSE k) /\ bucket'.ts = at
        BY <1>1, <2>0, IdentityAssumption DEF Within
    <2>5. Within(bucket.tokens, bucket.ts)'
        <3> HIDE DEF k, at
        <3> QED BY <1>1, <2>0, <2>4, IdentityAssumption DEF Within
    <2> QED BY <1>1, <1>2, <2>0, <2>2, <2>3, <2>4, <2>5 DEF QuotaInv
<1> QED BY <1>3, <1>4

LEMMA QuotaStep ==
    ASSUME QuotaInv, [IdentityNext]_identityVars
    PROVE  QuotaInv'
<1>1. CASE UNCHANGED identityVars
    BY <1>1 DEF identityVars, bucketVars, QuotaInv, AtRate, Within
<1>2. CASE Pass
    <2>1. time' = time + 1 /\ time \in Int /\ UNCHANGED <<thread, bucket, admitted, contended>>
        BY <1>2 DEF Pass, QuotaInv, bucketVars
    <2>2. \A k, ts : Within(k, ts) => Within(k, ts)'
        BY <2>1 DEF Within
    <2> QED BY <2>1, <2>2 DEF QuotaInv, AtRate
<1>3. CASE Reboot
    BY <1>3 DEF Reboot, Free, QuotaInv, AtRate
<1>4. ASSUME NEW t \in Threads, NEW a \in Assertions, Verify(t, a) PROVE QuotaInv'
    <2>1. /\ UNCHANGED <<time, bucket, admitted, contended>> /\ thread' = [u \in Threads |-> thread'[u]]
          /\ \A u \in Threads : AtRate(u)' => AtRate(u) /\ thread'[u] = thread[u]
        BY <1>4 DEF Verify, bucketVars, QuotaInv, AtRate
    <2>2. \A k, ts : Within(k, ts) => Within(k, ts)'
        BY <2>1 DEF Within
    <2> QED BY <2>1, <2>2 DEF QuotaInv
<1>5. ASSUME NEW t \in Threads, Remember(t) PROVE QuotaInv'
    <2>1. /\ UNCHANGED <<time, bucket, admitted, contended>> /\ thread' = [u \in Threads |-> thread'[u]]
          /\ \A u \in Threads : AtRate(u)' => AtRate(u) /\ thread'[u] = thread[u]
        BY <1>5 DEF Remember, Free, bucketVars, QuotaInv, AtRate
    <2>2. \A k, ts : Within(k, ts) => Within(k, ts)'
        BY <2>1 DEF Within
    <2> QED BY <2>1, <2>2 DEF QuotaInv
<1> QED BY <1>1, <1>2, <1>3, <1>4, <1>5, ReadKeepsQuota, WriteKeepsQuota DEF IdentityNext, AuthNext, RateNext

(* principals.rate_ok: for any number of threads, whatever the rate and    *)
(* the burst, and across restarts that empty the bucket, the requests a    *)
(* process lets through in any stretch of time without two threads inside  *)
(* the check at once stay within the quota of that stretch; what an overlap*)
(* let through beyond it does not outlast the overlap.                     *)
THEOREM QuotasHold == IdentitySpec => []QuotaHolds
<1>1. QuotaInv => QuotaHolds
    <2>1. admitted \in Seq(Int) => DOMAIN admitted = 1..Len(admitted)
        OBVIOUS
    <2> QED BY <2>1 DEF QuotaInv, QuotaHolds
<1> QED BY <1>1, QuotaInit, QuotaStep, PTL DEF IdentitySpec

-----------------------------------------------------------------------------
(* exod and the recorders of one ledger file.  Whatever is asked of exod,  *)
(* whatever profile its factory makes of a workspace, whatever lies there  *)
(* and whatever envelope a recorder is handed; only that an envelope names *)
(* the run it is about, that a path is a sequence of names, and that the   *)
(* list an attestation carries is one (attested_acl builds it), with text  *)
(* for its keys.                                                           *)
exodVars == <<limbVars, recVars>>
IsPath(w) == IsSequence(w) /\ w # << >>
ProfilesMade ==
    \A w \in DOMAIN conf.factory :
        \E ws, ro : \E network \in BOOLEAN :
            IsPath(ws) /\ IsSequence(ro) /\ conf.factory[w] = SandboxProfile(ws, ro, network)
Readable(req) ==
    /\ req.workspace = None \/ req.workspace \in DOMAIN conf.factory
    /\ req.attestation # None => req.attestation.acl # None /\ None \notin DOMAIN req.attestation.acl.perks
ExodNext ==
    \/ Tick \/ Restart \/ (\E files : Stage(files)) \/ (\E req : Readable(req) /\ run_step(req))
    \/ RunnerStarts \/ (\E raised \in BOOLEAN : RunnerEnds(raised))
    \/ \E p \in Recorders :
         \/ RecordOpen(p) \/ RecordDump(p) \/ RecordCrash(p)
         \/ \E env, expect : env.run # None /\ RecordRead(p, env, expect)
ExodSpec == LimbInit /\ ProfilesMade /\ [][ExodNext]_exodVars

(* The step in hand, before and after its runner started it.               *)
Waiting == running # None /\ ~running.started
InHand ==
    running # None =>
        LET e == running.step
        IN  /\ running = [step |-> e, started |-> running.started]
            /\ e = [req |-> e.req, boot |-> e.boot, at |-> e.at, code |-> e.code, swapped |-> e.swapped, backend |-> e.backend,
                    profile |-> e.profile, secrets |-> e.secrets]

(* A grant that ran since exod started is in its cache, and so is the one  *)
(* of the step in hand, which has not run since.                           *)
SpentInCache ==
    /\ IsSequence(executions) /\ boot \in Nat /\ InHand
    /\ \A i \in DOMAIN executions :
         LET e == executions[i]
         IN  /\ e.boot \in Nat /\ e.boot <= boot
             /\ e.boot = boot => e.req.grant.nonce \in grant_nonces
    /\ \A i, j \in DOMAIN executions :
         i # j /\ executions[i].req.grant.nonce = executions[j].req.grant.nonce => executions[i].boot # executions[j].boot
    /\ Waiting =>
         /\ running.step.boot = boot /\ running.step.req.grant.nonce \in grant_nonces
         /\ \A i \in DOMAIN executions :
              executions[i].boot = boot => executions[i].req.grant.nonce # running.step.req.grant.nonce

(* What a ledger file may hold, on disk or as a recorder read it.          *)
Sound(l) ==
    /\ IsSequence(l.runs)
    /\ \A i \in DOMAIN l.runs :
         l.runs[i].nonce # None /\ ~l.runs[i].asked => l.runs[i].run = l.run /\ l.run # None
    /\ \A i, j \in DOMAIN l.runs :
         i # j /\ l.runs[i].nonce # None => l.runs[i].nonce # l.runs[j].nonce

Reading(r) ==
    /\ r = [pc |-> r.pc, env |-> r.env, expect |-> r.expect, snap |-> r.snap, dirty |-> r.dirty]
    /\ Sound(r.snap) /\ r.env.run # None

FileSound ==
    /\ Sound(ledger)
    /\ recorder = [p \in Recorders |-> recorder[p]]
    /\ \A p \in Recorders : recorder[p] = Idle \/ Reading(recorder[p])

LEMMA ExodInit == LimbInit => SpentInCache /\ FileSound
BY EmptySequence DEF LimbInit, SpentInCache, InHand, Waiting, FileSound, Sound, Absent

LEMMA TornIsSound == Sound(Torn)
BY EmptySequence DEF Sound, Torn

(* How the step in hand changes.                                           *)
LEMMA RunInHand ==
    ASSUME NEW req, run_step(req)
    PROVE  /\ running = None
           /\ \/ running' = None
              \/ /\ running' = [step |-> Execution(req), started |-> FALSE]
                 /\ verify_grant(GrantKey, req.grant, now, req) /\ Authorised(req)
                 /\ req.grant.nonce \notin grant_nonces /\ req.workspace # None /\ CanRun(req)
BY DEF run_step

LEMMA InHandStep ==
    ASSUME InHand, [ExodNext]_exodVars
    PROVE  InHand'
<1>1. CASE running' \in {running, None}
    BY <1>1 DEF InHand
<1>2. ASSUME NEW req, run_step(req) PROVE InHand'
    <2> DEFINE e == Execution(req)
    <2>1. e = [req |-> e.req, boot |-> e.boot, at |-> e.at, code |-> e.code, swapped |-> e.swapped, backend |-> e.backend,
               profile |-> e.profile, secrets |-> e.secrets]
        BY DEF Execution
    <2> HIDE DEF e
    <2>2. CASE running' = [step |-> e, started |-> FALSE]
        BY <2>1, <2>2 DEF InHand
    <2>3. CASE running' = None
        BY <2>3 DEF InHand
    <2> QED BY <1>2, <2>2, <2>3, RunInHand DEF e
<1>3. CASE RunnerStarts
    <2>1. running # None /\ (running' = None \/ running' = [running EXCEPT !.started = TRUE])
        BY <1>3 DEF RunnerStarts
    <2> QED BY <2>1 DEF InHand
<1>4. ASSUME NEW files, Stage(files) PROVE InHand'
    <2>1. running' = running \/ (running # None /\ running' = [running EXCEPT !.step.swapped = TRUE])
        BY <1>4 DEF Stage
    <2> QED BY <2>1 DEF InHand
<1> QED BY <1>1, <1>2, <1>3, <1>4
    DEF ExodNext, exodVars, limbVars, Tick, Restart, RunnerEnds, RecordRead, RecordOpen, RecordDump, RecordCrash

LEMMA RunSpends ==
    ASSUME SpentInCache, InHand', NEW req, run_step(req)
    PROVE  SpentInCache'
<1> DEFINE e == Execution(req)
<1>1. UNCHANGED <<boot, executions>> /\ grant_nonces \subseteq grant_nonces'
    BY DEF run_step
<1>2. CASE running' = None
    BY <1>1, <1>2 DEF SpentInCache, Waiting
<1>3. CASE running' = [step |-> e, started |-> FALSE] /\ Authorised(req) /\ req.grant.nonce \notin grant_nonces
           /\ verify_grant(GrantKey, req.grant, now, req)
    <2>1. req.grant.nonce \in grant_nonces'
        BY <1>3 DEF run_step
    <2>2. e.boot = boot /\ e.req = req
        BY DEF Execution
    <2> HIDE DEF e
    <2>3. running'.step = e
        BY <1>3
    <2>4. ASSUME NEW i \in DOMAIN executions, executions[i].boot = boot
          PROVE  executions[i].req.grant.nonce # req.grant.nonce
        BY <1>3, <2>4 DEF SpentInCache
    <2> QED BY <1>1, <2>1, <2>2, <2>3, <2>4 DEF SpentInCache, Waiting
<1> QED BY <1>2, <1>3, RunInHand

LEMMA StartSpends ==
    ASSUME SpentInCache, InHand', RunnerStarts
    PROVE  SpentInCache'
<1> DEFINE e == [running.step EXCEPT !.code = staged]
           nonce == running.step.req.grant.nonce
<1>1. UNCHANGED <<boot, grant_nonces>> /\ Waiting
    BY DEF RunnerStarts, Waiting
<1>2. CASE running' = None /\ UNCHANGED executions
    BY <1>1, <1>2 DEF SpentInCache, Waiting
<1>3. CASE executions' = Append(executions, e) /\ running' = [running EXCEPT !.started = TRUE]
    <2>1. e.boot = boot /\ e.req.grant.nonce = nonce /\ nonce \in grant_nonces /\ ~Waiting'
        BY <1>1, <1>3 DEF SpentInCache, InHand, Waiting
    <2>2. \A i \in DOMAIN executions : executions[i].boot = boot => executions[i].req.grant.nonce # nonce
        BY <1>1 DEF SpentInCache
    <2> HIDE DEF e, nonce
    <2>3. /\ IsSequence(executions') /\ Len(executions) \in Nat
          /\ DOMAIN executions = 1..Len(executions) /\ DOMAIN executions' = 1..(Len(executions) + 1)
          /\ \A i \in 1..Len(executions) : executions'[i] = executions[i]
          /\ executions'[Len(executions) + 1] = e
        BY <1>3, AppendSequence DEF SpentInCache
    <2>4. \A i \in 1..(Len(executions) + 1) : i \in 1..Len(executions) \/ i = Len(executions) + 1
        BY <2>3
    <2>5. ASSUME NEW i \in DOMAIN executions'
          PROVE  /\ executions'[i].boot \in Nat /\ executions'[i].boot <= boot
                 /\ executions'[i].boot = boot => executions'[i].req.grant.nonce \in grant_nonces'
        <3>1. CASE i = Len(executions) + 1
            BY <1>1, <2>1, <2>3, <3>1 DEF SpentInCache
        <3>2. CASE i \in 1..Len(executions)
            BY <1>1, <2>3, <3>2 DEF SpentInCache
        <3> QED BY <2>3, <2>4, <3>1, <3>2
    <2>6. ASSUME NEW i \in DOMAIN executions', NEW j \in DOMAIN executions', i # j,
                 executions'[i].req.grant.nonce = executions'[j].req.grant.nonce
          PROVE  executions'[i].boot # executions'[j].boot
        <3>1. CASE i \in 1..Len(executions) /\ j \in 1..Len(executions)
            BY <2>3, <2>6, <3>1 DEF SpentInCache
        <3>2. CASE i \in 1..Len(executions) /\ j = Len(executions) + 1
            BY <2>1, <2>2, <2>3, <2>6, <3>2
        <3>3. CASE i = Len(executions) + 1 /\ j \in 1..Len(executions)
            BY <2>1, <2>2, <2>3, <2>6, <3>3
        <3> QED BY <2>3, <2>4, <2>6, <3>1, <3>2, <3>3
    <2> QED BY <1>1, <2>1, <2>3, <2>5, <2>6 DEF SpentInCache
<1> QED BY <1>2, <1>3 DEF RunnerStarts

(* A recorder's answer to a sound file is a sound file.                    *)
LEMMA RecordedSound ==
    ASSUME NEW p \in Recorders, Reading(recorder[p])
    PROVE  Sound(Recorded(p))
<1> DEFINE r == recorder[p]
           s == r.snap
           ok == Accepts(r.env, r.expect, s)
           x == IF ok THEN [run |-> r.env.run, nonce |-> r.env.nonce, asked |-> r.expect # None] ELSE Refused
           run == IF ok /\ s.run = None THEN r.env.run ELSE s.run
           l == Recorded(p)
<1>1. l.run = run /\ l.runs = Append(s.runs, x)
    BY DEF Recorded
<1>2. Sound(s) /\ r.env.run # None
    BY DEF Reading
<1>3. ~ok => x.nonce = None
    BY DEF Refused
<1>4. ok => /\ x.nonce = r.env.nonce /\ x.run = r.env.run /\ (x.asked <=> r.expect # None)
            /\ \A i \in DOMAIN s.runs : s.runs[i].nonce # x.nonce
            /\ r.expect = None => s.run \in {None, r.env.run}
    BY DEF Accepts, verify_step_result
<1> HIDE DEF x, l, ok
<1>5. /\ IsSequence(l.runs) /\ Len(s.runs) \in Nat
      /\ DOMAIN s.runs = 1..Len(s.runs) /\ DOMAIN l.runs = 1..(Len(s.runs) + 1)
      /\ \A i \in 1..Len(s.runs) : l.runs[i] = s.runs[i]
      /\ l.runs[Len(s.runs) + 1] = x
    BY <1>1, <1>2, AppendSequence DEF Sound
<1>6. \A i \in 1..(Len(s.runs) + 1) : i \in 1..Len(s.runs) \/ i = Len(s.runs) + 1
    BY <1>5
<1>7. ASSUME NEW i \in DOMAIN l.runs, l.runs[i].nonce # None, ~l.runs[i].asked
      PROVE  l.runs[i].run = l.run /\ l.run # None
    <2>1. CASE i = Len(s.runs) + 1
        BY <1>1, <1>2, <1>3, <1>4, <1>5, <1>7, <2>1
    <2>2. CASE i \in 1..Len(s.runs)
        <3>1. s.runs[i].run = s.run /\ s.run # None
            BY <1>2, <1>5, <1>7, <2>2 DEF Sound
        <3> QED BY <1>1, <1>5, <2>2, <3>1
    <2> QED BY <1>5, <1>6, <2>1, <2>2
<1>8. ASSUME NEW i \in DOMAIN l.runs, NEW j \in DOMAIN l.runs, i # j, l.runs[i].nonce # None
      PROVE  l.runs[i].nonce # l.runs[j].nonce
    <2>1. CASE i \in 1..Len(s.runs) /\ j \in 1..Len(s.runs)
        BY <1>2, <1>5, <1>8, <2>1 DEF Sound
    <2>2. CASE i \in 1..Len(s.runs) /\ j = Len(s.runs) + 1
        BY <1>3, <1>4, <1>5, <1>8, <2>2
    <2>3. CASE i = Len(s.runs) + 1 /\ j \in 1..Len(s.runs)
        BY <1>3, <1>4, <1>5, <1>8, <2>3
    <2> QED BY <1>5, <1>6, <1>8, <2>1, <2>2, <2>3
<1> QED BY <1>5, <1>7, <1>8 DEF Sound, l

LEMMA MarkedReading ==
    ASSUME NEW r, Reading(r), NEW d
    PROVE  Reading([r EXCEPT !.dirty = d])
BY DEF Reading

LEMMA FileStep ==
    ASSUME FileSound, [ExodNext]_exodVars
    PROVE  FileSound'
<1>1. CASE UNCHANGED recVars
    BY <1>1 DEF recVars, FileSound
<1>2. ASSUME NEW p \in Recorders, NEW env, NEW expect, env.run # None, RecordRead(p, env, expect)
      PROVE  FileSound'
    <2> DEFINE r == [pc |-> "open", env |-> env, expect |-> expect, snap |-> ledger, dirty |-> FALSE]
    <2>1. recorder' = [recorder EXCEPT ![p] = r] /\ UNCHANGED ledger
        BY <1>2 DEF RecordRead
    <2>2. Reading(r)
        BY <1>2 DEF FileSound, Reading
    <2> HIDE DEF r
    <2> QED BY <2>1, <2>2 DEF FileSound
<1>3. ASSUME NEW p \in Recorders, RecordOpen(p) PROVE FileSound'
    <2> DEFINE r == [recorder[p] EXCEPT !.pc = "dump"]
    <2>1. recorder' = [recorder EXCEPT ![p] = r] /\ ledger' = Torn
        BY <1>3 DEF RecordOpen
    <2>2. Reading(recorder[p])
        BY <1>3 DEF RecordOpen, FileSound, Idle
    <2>3. Reading(r)
        BY <2>2 DEF Reading
    <2> HIDE DEF r
    <2> QED BY <2>1, <2>3, TornIsSound DEF FileSound
<1>4. ASSUME NEW p \in Recorders, RecordDump(p) PROVE FileSound'
    <2>1. Reading(recorder[p])
        BY <1>4 DEF RecordDump, FileSound, Idle
    <2>2. Sound(ledger')
        BY <1>4, <2>1, RecordedSound, TornIsSound DEF RecordDump
    <2>3. ASSUME NEW q \in Recorders, Reading(recorder[q])
          PROVE  Reading([recorder[q] EXCEPT !.dirty = TRUE])
        BY <2>3, MarkedReading
    <2>4. ASSUME NEW q \in Recorders
          PROVE  recorder'[q] \in {Idle, recorder[q]} \/ (Reading(recorder[q]) /\ recorder'[q] = [recorder[q] EXCEPT !.dirty = TRUE])
        BY <1>4 DEF RecordDump, FileSound, Idle
    <2>5. recorder' = [q \in Recorders |-> recorder'[q]]
        BY <1>4 DEF RecordDump
    <2> QED BY <2>2, <2>3, <2>4, <2>5 DEF FileSound
<1>5. ASSUME NEW p \in Recorders, RecordCrash(p) PROVE FileSound'
    BY <1>5 DEF RecordCrash, FileSound
<1> QED BY <1>1, <1>2, <1>3, <1>4, <1>5 DEF ExodNext, exodVars, Tick, Restart, Stage, run_step, RunnerStarts, RunnerEnds

LEMMA SpendStep ==
    ASSUME SpentInCache, [ExodNext]_exodVars
    PROVE  SpentInCache'
<1>0. InHand'
    BY InHandStep DEF SpentInCache
<1>1. CASE UNCHANGED <<boot, grant_nonces, executions>> /\ running' \in {running, None}
    BY <1>0, <1>1 DEF SpentInCache, Waiting
<1>2. CASE Restart
    <2>1. boot' = boot + 1 /\ running' = None /\ UNCHANGED executions
        BY <1>2 DEF Restart
    <2> QED BY <1>0, <2>1 DEF SpentInCache, Waiting
<1>3. ASSUME NEW req, run_step(req) PROVE SpentInCache'
    BY <1>0, <1>3, RunSpends
<1>4. CASE RunnerStarts
    BY <1>0, <1>4, StartSpends
<1>5. ASSUME NEW files, Stage(files) PROVE SpentInCache'
    <2>1. UNCHANGED <<boot, grant_nonces, executions>>
        BY <1>5 DEF Stage
    <2>2. CASE UNCHANGED running
        BY <1>0, <2>1, <2>2 DEF SpentInCache, Waiting
    <2>3. CASE running # None /\ running' = [running EXCEPT !.step.swapped = TRUE]
        <3>1. running'.started = running.started /\ running'.step.boot = running.step.boot /\ running'.step.req = running.step.req
            BY <2>3 DEF SpentInCache, InHand
        <3>2. Waiting' => Waiting
            BY <2>3, <3>1 DEF Waiting
        <3> QED BY <1>0, <2>1, <3>1, <3>2 DEF SpentInCache
    <2> QED BY <1>5, <2>2, <2>3 DEF Stage
<1> QED BY <1>1, <1>2, <1>3, <1>4, <1>5
    DEF ExodNext, exodVars, limbVars, Tick, RunnerEnds, RecordRead, RecordOpen, RecordDump, RecordCrash

(* NonceCache, record_step_result: whatever exod is asked and however      *)
(* often it restarts, a grant runs once per start; and however many        *)
(* recorders read, truncate, tear and rewrite one ledger file, it holds at *)
(* most one accepted result per nonce, of the run it is bound to.          *)
THEOREM GrantsSpentOnce == ExodSpec => []OneResultPerNonce
<1>1. SpentInCache /\ FileSound => OneResultPerNonce
    BY DEF SpentInCache, FileSound, Sound, OneResultPerNonce
<1>2. LimbInit => SpentInCache /\ FileSound
    BY ExodInit
<1>3. SpentInCache /\ FileSound /\ [ExodNext]_exodVars => (SpentInCache /\ FileSound)'
    BY FileStep, SpendStep
<1> QED BY <1>1, <1>2, <1>3, PTL DEF ExodSpec

-----------------------------------------------------------------------------
(* What a rendering mounts, as a set.                                      *)

(* The library's listing of a finite set lists that set.                   *)
LEMMA ListingOfSet ==
    ASSUME NEW S, IsFiniteSet(S)
    PROVE  SetToSeq(S) \in Seq(S) /\ Range(SetToSeq(S)) = S
<1> DEFINE n == Cardinality(S)
           P(f) == f \in [1..n -> S] /\ IsInjective(f)
<1>1. n \in Nat
    BY FS_CardinalityType
<1>2. IsFiniteSet(1..n) /\ Cardinality(1..n) = n
    <2>1. 1 \in Int /\ n \in Int /\ n - 1 + 1 = n
        BY <1>1
    <2>2. IsFiniteSet(1..n) /\ Cardinality(1..n) = IF 1 > n THEN 0 ELSE n - 1 + 1
        BY <2>1, FS_Interval
    <2> QED BY <1>1, <2>2
<1>3. PICK b : b \in Bijection(1..n, S)
    BY <1>2, FS_SameCardinalityBij DEF ExistsBijection
<1>4. P(b)
    BY <1>3 DEF Bijection, Injection
<1>5. P(SetToSeq(S))
    BY <1>4, Zenon DEF SetToSeq
<1> DEFINE f == SetToSeq(S)
<1>6. f \in Injection(1..n, S)
    BY <1>5 DEF Injection
<1> HIDE DEF f, n
<1>7. f \in Surjection(1..n, S)
    BY <1>2, <1>6, FS_Injection DEF n
<1>8. f \in [1..n -> S] /\ \A x \in S : \E i \in 1..n : f[i] = x
    BY <1>7 DEF Surjection
<1>9. f \in Seq(S)
    BY <1>1, <1>8
<1>10. DOMAIN f = 1..n
    BY <1>8
<1>11. Range(f) = S
    BY <1>8, <1>10 DEF Range
<1> QED BY <1>9, <1>11 DEF f

LEMMA RangeConcat ==
    ASSUME NEW A, NEW s \in Seq(A), NEW t \in Seq(A)
    PROVE  s \o t \in Seq(A) /\ Range(s \o t) = Range(s) \cup Range(t)
<1>1. /\ s \o t \in Seq(A) /\ Len(s) \in Nat /\ Len(t) \in Nat
      /\ DOMAIN s = 1..Len(s) /\ DOMAIN t = 1..Len(t) /\ DOMAIN (s \o t) = 1..(Len(s) + Len(t))
      /\ \A i \in 1..(Len(s) + Len(t)) : (s \o t)[i] = IF i <= Len(s) THEN s[i] ELSE t[i - Len(s)]
    OBVIOUS
<1>2. ASSUME NEW x \in Range(s \o t) PROVE x \in Range(s) \cup Range(t)
    <2>1. PICK i \in 1..(Len(s) + Len(t)) : x = (s \o t)[i]
        BY <1>1, <1>2 DEF Range
    <2>2. CASE i <= Len(s)
        BY <1>1, <2>1, <2>2 DEF Range
    <2>3. CASE i > Len(s)
        <3>1. i - Len(s) \in 1..Len(t) /\ x = t[i - Len(s)]
            BY <1>1, <2>1, <2>3
        <3> QED BY <1>1, <3>1 DEF Range
    <2> QED BY <1>1, <2>1, <2>2, <2>3
<1>3. ASSUME NEW x \in Range(s) PROVE x \in Range(s \o t)
    <2>1. PICK i \in 1..Len(s) : x = s[i]
        BY <1>1, <1>3 DEF Range
    <2>2. i \in 1..(Len(s) + Len(t)) /\ (s \o t)[i] = x
        BY <1>1, <2>1
    <2> QED BY <1>1, <2>2 DEF Range
<1>4. ASSUME NEW x \in Range(t) PROVE x \in Range(s \o t)
    <2>1. PICK i \in 1..Len(t) : x = t[i]
        BY <1>1, <1>4 DEF Range
    <2>2. Len(s) + i \in 1..(Len(s) + Len(t)) /\ (s \o t)[Len(s) + i] = x
        BY <1>1, <2>1
    <2> QED BY <1>1, <2>2 DEF Range
<1> QED BY <1>1, <1>2, <1>3, <1>4

LEMMA RangeSingle ==
    ASSUME NEW A, NEW x \in A
    PROVE  <<x>> \in Seq(A) /\ Range(<<x>>) = {x}
<1>1. <<x>> \in Seq(A) /\ DOMAIN <<x>> = 1..1 /\ <<x>>[1] = x
    OBVIOUS
<1> QED BY <1>1 DEF Range

LEMMA RangeOfList ==
    ASSUME NEW A, NEW s \in Seq(A)
    PROVE  Range(s) \subseteq A /\ IsFiniteSet(Range(s))
<1>1. DOMAIN s = 1..Len(s) /\ Len(s) \in Nat /\ \A i \in 1..Len(s) : s[i] \in A
    OBVIOUS
<1>2. IsFiniteSet(1..Len(s))
    BY <1>1, FS_Interval
<1>3. IsFiniteSet({s[i] : i \in 1..Len(s)})
    BY <1>2, ImageFinite
<1> QED BY <1>1, <1>3 DEF Range

SysMount == Mount("ro", <<"proc", "sys">>, <<"proc", "sys">>)
Masks == {Mount("ro", <<"dev", "null">>, f) : f \in ProcFiles \cap Exists}
SpecialMount(kind, dir) == Mount(kind, <<kind>>, <<dir>>)
ReadOnly(p) == {Mount("ro", b, b) : b \in Range(p.ro_binds) \cap Exists}
Shared(p) == IF p.cargo \in {"ro", "rw"} /\ CargoPath \in Exists THEN {Mount(p.cargo, CargoPath, CargoPath)} ELSE {}
Work(p) == Mount("rw", p.workspace, p.workspace)
AllMounts(p) ==
    ReadOnly(p) \cup {SpecialMount("tmpfs", "tmp")} \cup {Work(p)} \cup Shared(p) \cup {SpecialMount("proc", "proc")}
    \cup {SysMount} \cup Masks \cup {SpecialMount("dev", "dev")}

(* A profile whose paths are paths.                                        *)
WellMade(p) == IsPath(p.workspace) /\ IsSequence(p.ro_binds)

LEMMA ListedMounts ==
    ASSUME NEW p, WellMade(p)
    PROVE  /\ RoBinds(p, Exists) \in Seq(AllMounts(p)) /\ Range(RoBinds(p, Exists)) = ReadOnly(p)
           /\ Cargo(p, Exists) \in Seq(AllMounts(p)) /\ Range(Cargo(p, Exists)) = Shared(p)
           /\ <<Work(p)>> \in Seq(AllMounts(p)) /\ Range(<<Work(p)>>) = {Work(p)}
           /\ <<SysMount>> \in Seq(AllMounts(p)) /\ Range(<<SysMount>>) = {SysMount}
           /\ SetToSeq(Masks) \in Seq(AllMounts(p)) /\ Range(SetToSeq(Masks)) = Masks
           /\ \A x \in {SpecialMount("tmpfs", "tmp"), SpecialMount("proc", "proc"), SpecialMount("dev", "dev")} :
                 <<x>> \in Seq(AllMounts(p)) /\ Range(<<x>>) = {x}
<1> DEFINE A == AllMounts(p)
<1>1. IsFiniteSet(Range(p.ro_binds))
    BY RangeOfList DEF WellMade, IsSequence
<1>2. \A S \in SUBSET A : Seq(S) \subseteq Seq(A)
    OBVIOUS
<1>3. IsFiniteSet(ReadOnly(p))
    <2> DEFINE B == Range(p.ro_binds) \cap Exists
               f == [b \in B |-> Mount("ro", b, b)]
    <2>1. IsFiniteSet(B)
        BY <1>1, FS_Subset
    <2>2. IsFiniteSet({f[b] : b \in B})
        BY <2>1, ImageFinite
    <2>3. {f[b] : b \in B} = ReadOnly(p)
        BY DEF ReadOnly
    <2> QED BY <2>2, <2>3
<1>4. IsFiniteSet(Masks)
    <2> DEFINE B == ProcFiles \cap Exists
               f == [b \in B |-> Mount("ro", <<"dev", "null">>, b)]
    <2>1. IsFiniteSet(ProcFiles)
        <3>1. IsFiniteSet({<<"proc", "kcore">>})
            BY FS_Singleton
        <3>2. IsFiniteSet({<<"proc", "kcore">>} \cup {<<"proc", "keys">>})
            BY <3>1, FS_AddElement
        <3>3. ProcFiles = {<<"proc", "kcore">>} \cup {<<"proc", "keys">>}
            BY DEF ProcFiles
        <3> QED BY <3>2, <3>3
    <2>2. IsFiniteSet(B)
        BY <2>1, FS_Subset
    <2>3. IsFiniteSet({f[b] : b \in B})
        BY <2>2, ImageFinite
    <2>4. {f[b] : b \in B} = Masks
        BY DEF Masks
    <2> QED BY <2>3, <2>4
<1>5. /\ ReadOnly(p) \in SUBSET A /\ Masks \in SUBSET A /\ Shared(p) \subseteq A /\ Work(p) \in A /\ SysMount \in A
      /\ \A x \in {SpecialMount("tmpfs", "tmp"), SpecialMount("proc", "proc"), SpecialMount("dev", "dev")} : x \in A
    BY DEF AllMounts
<1> HIDE DEF A
<1>6. RoBinds(p, Exists) \in Seq(A) /\ Range(RoBinds(p, Exists)) = ReadOnly(p)
    <2>1. RoBinds(p, Exists) = SetToSeq(ReadOnly(p))
        BY DEF RoBinds, ReadOnly
    <2> QED BY <1>2, <1>3, <1>5, <2>1, ListingOfSet
<1>7. SetToSeq(Masks) \in Seq(A) /\ Range(SetToSeq(Masks)) = Masks
    BY <1>2, <1>4, <1>5, ListingOfSet
<1>8. \A x \in A : <<x>> \in Seq(A) /\ Range(<<x>>) = {x}
    BY RangeSingle
<1>9. Cargo(p, Exists) \in Seq(A) /\ Range(Cargo(p, Exists)) = Shared(p)
    <2>1. CASE p.cargo \in {"ro", "rw"} /\ CargoPath \in Exists
        <3> DEFINE m == Mount(p.cargo, CargoPath, CargoPath)
        <3>1. Cargo(p, Exists) = <<m>> /\ Shared(p) = {m}
            BY <2>1 DEF Cargo, Shared
        <3> HIDE DEF m
        <3> QED BY <1>5, <1>8, <3>1
    <2>2. CASE ~(p.cargo \in {"ro", "rw"} /\ CargoPath \in Exists)
        <3>1. << >> \in Seq(A) /\ Range(<< >>) = {}
            BY DEF Range
        <3> QED BY <2>2, <3>1 DEF Cargo, Shared
    <2> QED BY <2>1, <2>2
<1>10. /\ <<Work(p)>> \in Seq(A) /\ Range(<<Work(p)>>) = {Work(p)}
       /\ <<SysMount>> \in Seq(A) /\ Range(<<SysMount>>) = {SysMount}
    BY <1>5, <1>8
<1>11. \A x \in {SpecialMount("tmpfs", "tmp"), SpecialMount("proc", "proc"), SpecialMount("dev", "dev")} :
           <<x>> \in Seq(A) /\ Range(<<x>>) = {x}
    BY <1>5, <1>8
<1> QED BY <1>6, <1>7, <1>9, <1>10, <1>11 DEF A

(* Both renderings, as sets of mounts.                                     *)
LEMMA RenderedMounts ==
    ASSUME NEW p, WellMade(p)
    PROVE  /\ bwrap_argv(p, Exists).mounts \in Seq(AllMounts(p)) /\ Range(bwrap_argv(p, Exists).mounts) = AllMounts(p)
           /\ oci_config(p, Exists).mounts \in Seq(AllMounts(p))
           /\ Range(oci_config(p, Exists).mounts) =
                  {SpecialMount("tmpfs", "tmp")} \cup {SpecialMount("proc", "proc")} \cup ReadOnly(p) \cup {Work(p)} \cup Shared(p)
<1> DEFINE A == AllMounts(p)
           ro == RoBinds(p, Exists)
           tmp == Special("tmpfs", <<"tmp">>)
           work == <<Work(p)>>
           cargo == Cargo(p, Exists)
           proc == Special("proc", <<"proc">>)
           sys == <<SysMount>>
           masks == SetToSeq(Masks)
           dev == Special("dev", <<"dev">>)
<1>1. bwrap_argv(p, Exists).mounts = ro \o tmp \o work \o cargo \o proc \o sys \o masks \o dev
    BY DEF bwrap_argv, Work, SysMount, Masks
<1>2. oci_config(p, Exists).mounts = tmp \o proc \o ro \o work \o cargo
    BY DEF oci_config, Work
<1>3. /\ ro \in Seq(A) /\ cargo \in Seq(A) /\ work \in Seq(A) /\ sys \in Seq(A) /\ masks \in Seq(A)
      /\ Range(ro) = ReadOnly(p) /\ Range(cargo) = Shared(p) /\ Range(work) = {Work(p)} /\ Range(sys) = {SysMount}
      /\ Range(masks) = Masks
      /\ tmp \in Seq(A) /\ Range(tmp) = {SpecialMount("tmpfs", "tmp")}
      /\ proc \in Seq(A) /\ Range(proc) = {SpecialMount("proc", "proc")}
      /\ dev \in Seq(A) /\ Range(dev) = {SpecialMount("dev", "dev")}
    BY ListedMounts DEF Special, SpecialMount
<1> HIDE DEF A, ro, tmp, work, cargo, proc, sys, masks, dev
<1>4. \A s, t \in Seq(A) : s \o t \in Seq(A) /\ Range(s \o t) = Range(s) \cup Range(t)
    BY RangeConcat
<1>5. /\ ro \o tmp \in Seq(A) /\ Range(ro \o tmp) = Range(ro) \cup Range(tmp)
      /\ tmp \o proc \in Seq(A) /\ Range(tmp \o proc) = Range(tmp) \cup Range(proc)
    BY <1>3, <1>4
<1>6. /\ ro \o tmp \o work \in Seq(A)
      /\ Range(ro \o tmp \o work) = Range(ro) \cup Range(tmp) \cup Range(work)
    <2> DEFINE s == ro \o tmp
    <2>1. s \in Seq(A) /\ Range(s) = Range(ro) \cup Range(tmp)
        BY <1>5
    <2> HIDE DEF s
    <2>2. s \o work \in Seq(A) /\ Range(s \o work) = Range(s) \cup Range(work)
        BY <1>3, <1>4, <2>1
    <2> QED BY <2>1, <2>2 DEF s
<1>7. /\ ro \o tmp \o work \o cargo \in Seq(A)
      /\ Range(ro \o tmp \o work \o cargo) = Range(ro) \cup Range(tmp) \cup Range(work) \cup Range(cargo)
    BY <1>3, <1>4, <1>6
<1>8. /\ ro \o tmp \o work \o cargo \o proc \in Seq(A)
      /\ Range(ro \o tmp \o work \o cargo \o proc) = Range(ro) \cup Range(tmp) \cup Range(work) \cup Range(cargo) \cup Range(proc)
    BY <1>3, <1>4, <1>7
<1>9. /\ ro \o tmp \o work \o cargo \o proc \o sys \in Seq(A)
      /\ Range(ro \o tmp \o work \o cargo \o proc \o sys) =
             Range(ro) \cup Range(tmp) \cup Range(work) \cup Range(cargo) \cup Range(proc) \cup Range(sys)
    BY <1>3, <1>4, <1>8
<1>10. /\ ro \o tmp \o work \o cargo \o proc \o sys \o masks \in Seq(A)
       /\ Range(ro \o tmp \o work \o cargo \o proc \o sys \o masks) =
             Range(ro) \cup Range(tmp) \cup Range(work) \cup Range(cargo) \cup Range(proc) \cup Range(sys) \cup Range(masks)
    BY <1>3, <1>4, <1>9
<1>11. /\ ro \o tmp \o work \o cargo \o proc \o sys \o masks \o dev \in Seq(A)
       /\ Range(ro \o tmp \o work \o cargo \o proc \o sys \o masks \o dev) =
             Range(ro) \cup Range(tmp) \cup Range(work) \cup Range(cargo) \cup Range(proc) \cup Range(sys) \cup Range(masks)
             \cup Range(dev)
    BY <1>3, <1>4, <1>10
<1>12. /\ tmp \o proc \o ro \in Seq(A)
       /\ Range(tmp \o proc \o ro) = Range(tmp) \cup Range(proc) \cup Range(ro)
    <2> DEFINE s == tmp \o proc
    <2>1. s \in Seq(A) /\ Range(s) = Range(tmp) \cup Range(proc)
        BY <1>5
    <2> HIDE DEF s
    <2>2. s \o ro \in Seq(A) /\ Range(s \o ro) = Range(s) \cup Range(ro)
        BY <1>3, <1>4, <2>1
    <2> QED BY <2>1, <2>2 DEF s
<1>13. /\ tmp \o proc \o ro \o work \in Seq(A)
       /\ Range(tmp \o proc \o ro \o work) = Range(tmp) \cup Range(proc) \cup Range(ro) \cup Range(work)
    BY <1>3, <1>4, <1>12
<1>14. /\ tmp \o proc \o ro \o work \o cargo \in Seq(A)
       /\ Range(tmp \o proc \o ro \o work \o cargo) =
              Range(tmp) \cup Range(proc) \cup Range(ro) \cup Range(work) \cup Range(cargo)
    BY <1>3, <1>4, <1>13
<1>15. /\ bwrap_argv(p, Exists).mounts \in Seq(A)
       /\ Range(bwrap_argv(p, Exists).mounts) =
              ReadOnly(p) \cup {SpecialMount("tmpfs", "tmp")} \cup {Work(p)} \cup Shared(p) \cup {SpecialMount("proc", "proc")}
              \cup {SysMount} \cup Masks \cup {SpecialMount("dev", "dev")}
    BY <1>1, <1>3, <1>11, Zenon
<1>16. /\ oci_config(p, Exists).mounts \in Seq(A)
       /\ Range(oci_config(p, Exists).mounts) =
              {SpecialMount("tmpfs", "tmp")} \cup {SpecialMount("proc", "proc")} \cup ReadOnly(p) \cup {Work(p)} \cup Shared(p)
    BY <1>2, <1>3, <1>14, Zenon
<1> QED BY <1>15, <1>16 DEF A, AllMounts

LEMMA PathFacts ==
    /\ Head(<<"proc", "sys">>) = "proc" /\ Head(<<"dev", "null">>) = "dev"
    /\ \A f \in ProcFiles : Head(f) = "proc" /\ f # <<"dev", "null">> /\ f # <<"proc", "sys">>
    /\ Head(CargoPath) = "cargo"
    /\ Range(_CORE_RO) = {<<"usr">>, <<"lib">>, <<"etc">>}
    /\ \A b \in Range(_CORE_RO) : Head(b) # "proc" /\ b # <<"dev", "null">> /\ b # CargoPath
<1>1. Head(<<"proc", "sys">>) = "proc" /\ Head(<<"dev", "null">>) = "dev"
    OBVIOUS
<1>2. \A f \in ProcFiles : Head(f) = "proc" /\ f[2] # "sys"
    BY DEF ProcFiles
<1>3. \A f \in ProcFiles : f # <<"dev", "null">> /\ f # <<"proc", "sys">>
    BY <1>1, <1>2
<1>4. Head(CargoPath) = "cargo"
    BY DEF CargoPath
<1>5. Range(_CORE_RO) = {<<"usr">>, <<"lib">>, <<"etc">>}
    <2> DEFINE s == << <<"usr">>, <<"lib">>, <<"etc">> >>
    <2>1. DOMAIN s = {1, 2, 3} /\ s[1] = <<"usr">> /\ s[2] = <<"lib">> /\ s[3] = <<"etc">>
        OBVIOUS
    <2> QED BY <2>1 DEF _CORE_RO, Range
<1>6. Head(<<"usr">>) = "usr" /\ Head(<<"lib">>) = "lib" /\ Head(<<"etc">>) = "etc"
    OBVIOUS
<1>7. \A b \in Range(_CORE_RO) : Head(b) \in {"usr", "lib", "etc"}
    BY <1>5, <1>6
<1>8. \A b \in Range(_CORE_RO) : Head(b) # "proc" /\ b # <<"dev", "null">> /\ b # CargoPath
    BY <1>1, <1>4, <1>7
<1> QED BY <1>1, <1>2, <1>3, <1>4, <1>5, <1>8

(* The host paths a rendering binds, whichever backend it is for.          *)
Bound(p) ==
    {[path |-> b, mode |-> "ro"] : b \in {x \in Range(p.ro_binds) \cap Exists : Head(x) # "proc"}}
    \cup (IF Head(p.workspace) # "proc" THEN {[path |-> p.workspace, mode |-> "rw"]} ELSE {})
    \cup (IF p.cargo \in {"ro", "rw"} /\ CargoPath \in Exists THEN {[path |-> CargoPath, mode |-> p.cargo]} ELSE {})

LEMMA SameBinds ==
    ASSUME NEW p, WellMade(p), NEW mounts,
           Range(mounts) \subseteq AllMounts(p), ReadOnly(p) \cup {Work(p)} \cup Shared(p) \subseteq Range(mounts)
    PROVE  BindsOf(mounts) = Bound(p)
<1> DEFINE Binding(x) == x.mode \in {"ro", "rw"} /\ x.src = x.dst /\ Head(x.dst) # "proc"
           Bind(x) == [path |-> x.dst, mode |-> x.mode]
<1>1. BindsOf(mounts) = {Bind(x) : x \in {y \in Range(mounts) : Binding(y)}}
    BY DEF BindsOf
<1>2. /\ ~Binding(SpecialMount("tmpfs", "tmp")) /\ ~Binding(SpecialMount("proc", "proc"))
      /\ ~Binding(SpecialMount("dev", "dev")) /\ ~Binding(SysMount)
    BY PathFacts DEF SpecialMount, SysMount, Mount
<1>3. \A x \in Masks : ~Binding(x)
    BY PathFacts DEF Masks, Mount
<1>4. \A x \in AllMounts(p) : Binding(x) => x \in ReadOnly(p) \cup {Work(p)} \cup Shared(p)
    BY <1>2, <1>3 DEF AllMounts
<1>5. BindsOf(mounts) = {Bind(x) : x \in {y \in ReadOnly(p) \cup {Work(p)} \cup Shared(p) : Binding(y)}}
    BY <1>1, <1>4
<1>6. {Bind(x) : x \in {y \in ReadOnly(p) : Binding(y)}} =
          {[path |-> b, mode |-> "ro"] : b \in {x \in Range(p.ro_binds) \cap Exists : Head(x) # "proc"}}
    <2>1. \A b : /\ Bind(Mount("ro", b, b)) = [path |-> b, mode |-> "ro"]
                 /\ Binding(Mount("ro", b, b)) <=> Head(b) # "proc"
        BY DEF Mount
    <2> HIDE DEF Bind, Binding
    <2> QED BY <2>1 DEF ReadOnly
<1>7. Bind(Work(p)) = [path |-> p.workspace, mode |-> "rw"] /\ (Binding(Work(p)) <=> Head(p.workspace) # "proc")
    BY DEF Work, Mount
<1>8. \A x \in Shared(p) : Bind(x) = [path |-> CargoPath, mode |-> p.cargo] /\ Binding(x)
    BY PathFacts DEF Shared, Mount
<1>9. Shared(p) # {} <=> (p.cargo \in {"ro", "rw"} /\ CargoPath \in Exists)
    BY DEF Shared
<1> HIDE DEF Bind, Binding
<1>10. {Bind(x) : x \in {y \in ReadOnly(p) \cup {Work(p)} \cup Shared(p) : Binding(y)}} =
           {Bind(x) : x \in {y \in ReadOnly(p) : Binding(y)}} \cup {Bind(x) : x \in {y \in {Work(p)} : Binding(y)}}
           \cup {Bind(x) : x \in {y \in Shared(p) : Binding(y)}}
    OBVIOUS
<1>11. {Bind(x) : x \in {y \in {Work(p)} : Binding(y)}} =
           IF Head(p.workspace) # "proc" THEN {[path |-> p.workspace, mode |-> "rw"]} ELSE {}
    BY <1>7
<1>12. {Bind(x) : x \in {y \in Shared(p) : Binding(y)}} =
           IF p.cargo \in {"ro", "rw"} /\ CargoPath \in Exists THEN {[path |-> CargoPath, mode |-> p.cargo]} ELSE {}
    BY <1>8, <1>9
<1> QED BY <1>5, <1>6, <1>10, <1>11, <1>12 DEF Bound

LEMMA BothBind ==
    ASSUME NEW p, WellMade(p)
    PROVE  /\ BindsOf(bwrap_argv(p, Exists).mounts) = Bound(p) /\ BindsOf(oci_config(p, Exists).mounts) = Bound(p)
           /\ \A backend : capability_mounts(p, backend, Exists) = Bound(p)
           /\ materialized_mounts(p, Exists) = Bound(p)
<1> DEFINE b == bwrap_argv(p, Exists).mounts
           o == oci_config(p, Exists).mounts
<1>1. /\ Range(b) \subseteq AllMounts(p) /\ ReadOnly(p) \cup {Work(p)} \cup Shared(p) \subseteq Range(b)
      /\ Range(o) \subseteq AllMounts(p) /\ ReadOnly(p) \cup {Work(p)} \cup Shared(p) \subseteq Range(o)
    BY RenderedMounts DEF AllMounts
<1> HIDE DEF b, o
<1>2. BindsOf(b) = Bound(p) /\ BindsOf(o) = Bound(p)
    BY <1>1, SameBinds
<1> QED BY <1>2 DEF b, o, capability_mounts, Rendering, materialized_mounts

(* Both backends confine alike where nothing but the core tree, or what is *)
(* shown under proc anyway, is bound read-only.                            *)
LEMMA ConfinedAlike ==
    ASSUME NEW p, WellMade(p), \A b \in Range(p.ro_binds) \cap Exists : Head(b) = "proc" \/ b \in Range(_CORE_RO)
    PROVE  confinement(p, "bwrap", Exists) = confinement(p, "runsc", Exists)
<1> DEFINE b == bwrap_argv(p, Exists)
           o == oci_config(p, Exists)
           sys == <<"proc", "sys">>
           null == <<"dev", "null">>
           Masked(x) == x.mode = "ro" /\ (x.src = null \/ x.dst = sys)
<1>1. /\ b.namespaces = Namespaces(p) /\ b.uid = Nobody
      /\ o.namespaces = Namespaces(p) \cup {"mount"} /\ o.uid = Nobody /\ o.noNewPrivileges = TRUE /\ o.capabilities = {}
      /\ o.maskedPaths = ProcFiles \cap Exists /\ o.readonlyPaths = {sys}
    BY DEF bwrap_argv, oci_config
<1>2. "user" \in Namespaces(p)
    BY DEF Namespaces
<1>3. _namespaces(p, "bwrap", Exists) = _namespaces(p, "runsc", Exists)
    BY <1>1 DEF _namespaces
<1>4. Range(b.mounts) = AllMounts(p)
    BY RenderedMounts
<1> HIDE DEF b, o
<1>5. _masked_proc(p, "bwrap", Exists) = {x.dst : x \in {y \in AllMounts(p) : Masked(y)}}
    BY <1>4 DEF _masked_proc, b
<1>6. \A x \in ReadOnly(p) : Masked(x) => x.dst = sys
    <2>1. ASSUME NEW c \in Range(p.ro_binds) \cap Exists PROVE c # null
        BY <2>1, PathFacts
    <2> QED BY <2>1 DEF ReadOnly, Mount
<1>7. ~Masked(Work(p)) /\ ~Masked(SpecialMount("tmpfs", "tmp")) /\ ~Masked(SpecialMount("proc", "proc"))
      /\ ~Masked(SpecialMount("dev", "dev"))
    BY DEF Work, SpecialMount, Mount
<1>8. \A x \in Shared(p) : ~Masked(x)
    BY PathFacts DEF Shared, Mount
<1>9. Masked(SysMount) /\ SysMount.dst = sys
    BY DEF SysMount, Mount
<1>10. \A x \in Masks : Masked(x) /\ x.dst \in ProcFiles \cap Exists
    BY DEF Masks, Mount
<1>11. \A f \in ProcFiles \cap Exists : \E x \in Masks : x.dst = f
    <2>1. \A f \in ProcFiles \cap Exists : Mount("ro", null, f) \in Masks
        BY DEF Masks
    <2>2. \A f : Mount("ro", null, f).dst = f
        BY DEF Mount
    <2> QED BY <2>1, <2>2
<1> HIDE DEF Masked, sys, null
<1>12. {x.dst : x \in {y \in AllMounts(p) : Masked(y)}} = (ProcFiles \cap Exists) \cup {sys}
    BY <1>6, <1>7, <1>8, <1>9, <1>10, <1>11 DEF AllMounts
<1>13. _masked_proc(p, "runsc", Exists) = (ProcFiles \cap Exists) \cup {sys}
    BY <1>1 DEF _masked_proc, o
<1>14. _masked_proc(p, "bwrap", Exists) = _masked_proc(p, "runsc", Exists)
    BY <1>5, <1>12, <1>13
<1>15. capability_mounts(p, "bwrap", Exists) = capability_mounts(p, "runsc", Exists)
    BY BothBind
<1> DEFINE C(mounts, nss, masked) ==
               [mounts |-> mounts, namespaces |-> nss, net_isolated |-> "network" \in nss,
                readonly_root |-> {m.path : m \in {x \in mounts : x.mode = "rw"}} = {p.workspace},
                masked_proc |-> masked]
           D(uid, nnp, caps) == [uid |-> uid, no_new_privs |-> nnp, caps_dropped |-> caps]
<1>16. confinement(p, "bwrap", Exists) =
           C(capability_mounts(p, "bwrap", Exists), _namespaces(p, "bwrap", Exists), _masked_proc(p, "bwrap", Exists))
           @@ D(b.uid, "user" \in b.namespaces, "user" \in b.namespaces)
    BY DEF confinement, b
<1>17. confinement(p, "runsc", Exists) =
           C(capability_mounts(p, "runsc", Exists), _namespaces(p, "runsc", Exists), _masked_proc(p, "runsc", Exists))
           @@ D(o.uid, o.noNewPrivileges, o.capabilities = {})
    BY DEF confinement, o
<1> HIDE DEF C, D
<1>18. ("user" \in b.namespaces) = TRUE /\ (o.capabilities = {}) = TRUE /\ b.uid = o.uid
    BY <1>1, <1>2
<1> QED BY <1>3, <1>14, <1>15, <1>16, <1>17, <1>18, <1>1

(* Bound at some place of a list, with only members of a set after it.     *)
LastBefore(s, x, G) == \E k \in DOMAIN s : s[k] = x /\ \A l \in DOMAIN s : l > k => s[l] \in G

LEMMA BoundLast ==
    ASSUME NEW A, NEW s \in Seq(A), NEW x \in A, NEW G
    PROVE  LastBefore(s \o <<x>>, x, G)
<1>1. /\ Len(s) \in Nat /\ DOMAIN (s \o <<x>>) = 1..(Len(s) + 1) /\ (s \o <<x>>)[Len(s) + 1] = x
    OBVIOUS
<1>2. Len(s) + 1 \in DOMAIN (s \o <<x>>) /\ \A l \in DOMAIN (s \o <<x>>) : ~(l > Len(s) + 1)
    BY <1>1
<1> QED BY <1>1, <1>2 DEF LastBefore

LEMMA StillBefore ==
    ASSUME NEW A, NEW s \in Seq(A), NEW t \in Seq(A), NEW x, NEW G, LastBefore(s, x, G), Range(t) \subseteq G
    PROVE  LastBefore(s \o t, x, G)
<1>1. /\ Len(s) \in Nat /\ Len(t) \in Nat
      /\ DOMAIN s = 1..Len(s) /\ DOMAIN t = 1..Len(t) /\ DOMAIN (s \o t) = 1..(Len(s) + Len(t))
      /\ \A i \in 1..(Len(s) + Len(t)) : (s \o t)[i] = IF i <= Len(s) THEN s[i] ELSE t[i - Len(s)]
    OBVIOUS
<1>2. PICK k \in 1..Len(s) : s[k] = x /\ \A l \in 1..Len(s) : l > k => s[l] \in G
    BY <1>1 DEF LastBefore
<1>3. k \in DOMAIN (s \o t) /\ (s \o t)[k] = x
    BY <1>1, <1>2
<1>4. ASSUME NEW l \in DOMAIN (s \o t), l > k PROVE (s \o t)[l] \in G
    <2>1. CASE l <= Len(s)
        BY <1>1, <1>2, <1>4, <2>1
    <2>2. CASE l > Len(s)
        <3>1. l - Len(s) \in 1..Len(t) /\ (s \o t)[l] = t[l - Len(s)]
            BY <1>1, <1>4, <2>2
        <3> QED BY <1>1, <3>1 DEF Range
    <2> QED BY <1>1, <1>4, <2>1, <2>2
<1> QED BY <1>3, <1>4 DEF LastBefore

LEMMA ElsewhereIsNoPrefix ==
    ASSUME NEW d, NEW w, IsPath(d), IsPath(w), Head(d) # Head(w)
    PROVE  ~IsPrefix(d, w)
<1>1. PICK S : d \in Seq(S)
    BY DEF IsPath, IsSequence
<1>2. PICK T : w \in Seq(T)
    BY DEF IsPath, IsSequence
<1>3. Len(d) \in Nat /\ Len(w) \in Nat /\ Len(d) > 0 /\ Len(w) > 0 /\ Head(d) = d[1] /\ Head(w) = w[1]
    BY <1>1, <1>2 DEF IsPath
<1>4. Len(d) <= Len(w) => SubSeq(d, 1, Len(d))[1] = d[1] /\ SubSeq(w, 1, Len(d))[1] = w[1]
    BY <1>1, <1>2, <1>3
<1> QED BY <1>3, <1>4 DEF IsPrefix

LEMMA LaterPaths ==
    /\ IsPath(CargoPath) /\ IsPath(<<"proc">>) /\ IsPath(<<"proc", "sys">>) /\ IsPath(<<"dev">>)
    /\ \A f \in ProcFiles : IsPath(f)
<1>1. ASSUME NEW s PROVE IsPath(<<s>>)
    <2>1. <<s>> \in Seq({s}) /\ <<s>> # << >>
        OBVIOUS
    <2> QED BY <2>1 DEF IsPath, IsSequence
<1>2. ASSUME NEW s, NEW t PROVE IsPath(<<s, t>>)
    <2>1. <<s, t>> \in Seq({s, t}) /\ <<s, t>> # << >>
        OBVIOUS
    <2> QED BY <2>1 DEF IsPath, IsSequence
<1>3. \A f \in ProcFiles : \E s, t : f = <<s, t>>
    BY DEF ProcFiles
<1> QED BY <1>1, <1>2, <1>3 DEF CargoPath

(* The workspace is bound after everything it could lie under.             *)
LEMMA WorkspaceOnTop ==
    ASSUME NEW p, WellMade(p), Head(p.workspace) \notin {"proc", "cargo", "dev"}, NEW backend
    PROVE  LET mounts == Rendering(p, backend, Exists)
           IN  \E k \in DOMAIN mounts :
                   /\ mounts[k] = Mount("rw", p.workspace, p.workspace)
                   /\ \A l \in DOMAIN mounts : l > k => ~IsPrefix(mounts[l].dst, p.workspace)
<1> DEFINE A == AllMounts(p)
           G == {m \in A : ~IsPrefix(m.dst, p.workspace)}
           ro == RoBinds(p, Exists)
           tmp == Special("tmpfs", <<"tmp">>)
           w == Work(p)
           cargo == Cargo(p, Exists)
           proc == Special("proc", <<"proc">>)
           sys == <<SysMount>>
           masks == SetToSeq(Masks)
           dev == Special("dev", <<"dev">>)
<1>1. bwrap_argv(p, Exists).mounts = ro \o tmp \o <<w>> \o cargo \o proc \o sys \o masks \o dev
    BY DEF bwrap_argv, Work, SysMount, Masks
<1>2. oci_config(p, Exists).mounts = tmp \o proc \o ro \o <<w>> \o cargo
    BY DEF oci_config, Work
<1>3. /\ ro \in Seq(A) /\ tmp \in Seq(A) /\ cargo \in Seq(A) /\ proc \in Seq(A) /\ sys \in Seq(A) /\ masks \in Seq(A)
      /\ dev \in Seq(A) /\ w \in A
      /\ Range(cargo) = Shared(p) /\ Range(proc) = {SpecialMount("proc", "proc")} /\ Range(sys) = {SysMount}
      /\ Range(masks) = Masks /\ Range(dev) = {SpecialMount("dev", "dev")}
    BY ListedMounts DEF Special, SpecialMount, AllMounts
<1>4. \A d : IsPath(d) /\ Head(d) \in {"proc", "cargo", "dev"} => ~IsPrefix(d, p.workspace)
    BY ElsewhereIsNoPrefix DEF WellMade
<1>5. /\ \A x \in Shared(p) : x.dst = CargoPath
      /\ SpecialMount("proc", "proc").dst = <<"proc">> /\ SpecialMount("dev", "dev").dst = <<"dev">>
      /\ SysMount.dst = <<"proc", "sys">> /\ \A x \in Masks : x.dst \in ProcFiles
    BY DEF Shared, SpecialMount, SysMount, Masks, Mount
<1>6. Head(<<"proc">>) = "proc" /\ Head(<<"dev">>) = "dev"
    OBVIOUS
<1>7. /\ \A x \in Shared(p) : ~IsPrefix(x.dst, p.workspace)
      /\ ~IsPrefix(SpecialMount("proc", "proc").dst, p.workspace) /\ ~IsPrefix(SpecialMount("dev", "dev").dst, p.workspace)
      /\ ~IsPrefix(SysMount.dst, p.workspace) /\ \A x \in Masks : ~IsPrefix(x.dst, p.workspace)
    BY <1>4, <1>5, <1>6, PathFacts, LaterPaths
<1>8. Range(cargo) \subseteq G /\ Range(proc) \subseteq G /\ Range(sys) \subseteq G /\ Range(masks) \subseteq G /\ Range(dev) \subseteq G
    BY <1>3, <1>7 DEF AllMounts
<1> HIDE DEF A, G, ro, tmp, w, cargo, proc, sys, masks, dev
<1>9. \A s, t \in Seq(A) : s \o t \in Seq(A)
    OBVIOUS
<1>10. \A s \in Seq(A) : s \o <<w>> \in Seq(A) /\ LastBefore(s \o <<w>>, w, G)
    BY <1>3, BoundLast
<1>11. \A s, t \in Seq(A) : LastBefore(s, w, G) /\ Range(t) \subseteq G => s \o t \in Seq(A) /\ LastBefore(s \o t, w, G)
    BY <1>9, StillBefore
<1>12. LastBefore(ro \o tmp \o <<w>> \o cargo \o proc \o sys \o masks \o dev, w, G)
    <2> DEFINE s1 == ro \o tmp
               s2 == s1 \o <<w>>
               s3 == s2 \o cargo
               s4 == s3 \o proc
               s5 == s4 \o sys
               s6 == s5 \o masks
               s7 == s6 \o dev
    <2>1. s1 \in Seq(A)
        BY <1>3, <1>9
    <2> HIDE DEF s1
    <2>2. s2 \in Seq(A) /\ LastBefore(s2, w, G)
        BY <1>10, <2>1
    <2> HIDE DEF s2
    <2>3. s3 \in Seq(A) /\ LastBefore(s3, w, G)
        BY <1>3, <1>8, <1>11, <2>2
    <2> HIDE DEF s3
    <2>4. s4 \in Seq(A) /\ LastBefore(s4, w, G)
        BY <1>3, <1>8, <1>11, <2>3
    <2> HIDE DEF s4
    <2>5. s5 \in Seq(A) /\ LastBefore(s5, w, G)
        BY <1>3, <1>8, <1>11, <2>4
    <2> HIDE DEF s5
    <2>6. s6 \in Seq(A) /\ LastBefore(s6, w, G)
        BY <1>3, <1>8, <1>11, <2>5
    <2> HIDE DEF s6
    <2>7. LastBefore(s7, w, G)
        BY <1>3, <1>8, <1>11, <2>6
    <2> QED BY <2>7 DEF s1, s2, s3, s4, s5, s6, s7
<1>13. LastBefore(tmp \o proc \o ro \o <<w>> \o cargo, w, G)
    <2> DEFINE s1 == tmp \o proc
               s2 == s1 \o ro
               s3 == s2 \o <<w>>
               s4 == s3 \o cargo
    <2>1. s1 \in Seq(A)
        BY <1>3, <1>9
    <2> HIDE DEF s1
    <2>2. s2 \in Seq(A)
        BY <1>3, <1>9, <2>1
    <2> HIDE DEF s2
    <2>3. s3 \in Seq(A) /\ LastBefore(s3, w, G)
        BY <1>10, <2>2
    <2> HIDE DEF s3
    <2>4. LastBefore(s4, w, G)
        BY <1>3, <1>8, <1>11, <2>3
    <2> QED BY <2>4 DEF s1, s2, s3, s4
<1>14. LastBefore(Rendering(p, backend, Exists), w, G)
    BY <1>1, <1>2, <1>12, <1>13 DEF Rendering
<1> QED BY <1>14 DEF LastBefore, G, w, Work

-----------------------------------------------------------------------------
(* What the gates leave of a request that runs.                            *)

(* The profile passed the manifest check: its workspace is the granted one *)
(* and what it binds is the core tree.                                     *)
Checked(p, g) ==
    /\ WellMade(p) /\ p.network = FALSE
    /\ Head(p.workspace) # "proc"
    /\ \A b \in Range(p.ro_binds) \cap Exists : Head(b) = "proc" \/ b \in Range(_CORE_RO)
    /\ Range(_CORE_RO) \cap Exists \subseteq Range(p.ro_binds)
    /\ g.workspace \in {None, p.workspace}

LEMMA ProfileChecked ==
    ASSUME ProfilesMade, NEW req, Readable(req), req.workspace # None, CanRun(req)
    PROVE  LET p == Execution(req).profile
               g == req.grant
           IN  /\ Checked(p, g)
               /\ p.env = {"PATH"} \cup req.env
               /\ p.cargo = IF g.cargo \in {"ro", "rw"} THEN g.cargo ELSE None
<1> DEFINE g == req.grant
           prof == conf.factory[req.workspace]
           cargo == IF g.cargo \in {"ro", "rw"} THEN g.cargo ELSE None
           gws == IF g.workspace # None THEN g.workspace ELSE req.workspace
           m == CapabilityManifest(gws, "community", << >>)
           p == Execution(req).profile
<1>1. PICK ws, ro, net : net \in BOOLEAN /\ IsPath(ws) /\ IsSequence(ro) /\ prof = SandboxProfile(ws, ro, net)
    BY DEF ProfilesMade, Readable
<1>2. /\ prof.workspace = ws /\ prof.ro_binds = ro /\ prof.network = net /\ prof.env = {"PATH"} /\ prof.cargo = None
    BY <1>1 DEF SandboxProfile
<1>3. p = [prof EXCEPT !.env = @ \cup req.env, !.cargo = cargo]
    BY DEF Execution
<1>4. p.workspace = ws /\ p.ro_binds = ro /\ p.network = net /\ p.env = {"PATH"} \cup req.env /\ p.cargo = cargo
    BY <1>1, <1>2, <1>3 DEF SandboxProfile
<1>5. verify_materialized(prof, m, Exists)
    BY DEF CanRun
<1>6. m.workspace = gws /\ m.ro_binds = _CORE_RO /\ m.network = FALSE
    BY DEF CapabilityManifest
<1> HIDE DEF m, prof, p
<1>7. WellMade(prof)
    BY <1>1, <1>2 DEF WellMade
<1>8. net = FALSE /\ Bound(prof) = declared_mounts(m, Exists)
    BY <1>2, <1>5, <1>6, <1>7, BothBind DEF verify_materialized
<1> DEFINE Read == {[path |-> b, mode |-> "ro"] : b \in {x \in Range(ro) \cap Exists : Head(x) # "proc"}}
           Core == {[path |-> b, mode |-> "ro"] : b \in Range(_CORE_RO) \cap Exists}
<1>9. Bound(prof) = Read \cup (IF Head(ws) # "proc" THEN {[path |-> ws, mode |-> "rw"]} ELSE {})
    BY <1>2, AbsentIsNoMode DEF Bound
<1>10. declared_mounts(m, Exists) = {[path |-> gws, mode |-> "rw"]} \cup Core
    BY <1>6 DEF declared_mounts
<1>11. Head(ws) # "proc" /\ ws = gws
    <2>1. [path |-> gws, mode |-> "rw"] \in Read \cup (IF Head(ws) # "proc" THEN {[path |-> ws, mode |-> "rw"]} ELSE {})
        BY <1>8, <1>9, <1>10
    <2>2. [path |-> gws, mode |-> "rw"] \notin Read
        OBVIOUS
    <2>3. Head(ws) # "proc" /\ [path |-> gws, mode |-> "rw"] = [path |-> ws, mode |-> "rw"]
        BY <2>1, <2>2
    <2> QED BY <2>3
<1>12. ASSUME NEW b \in Range(ro) \cap Exists, Head(b) # "proc" PROVE b \in Range(_CORE_RO)
    <2>1. [path |-> b, mode |-> "ro"] \in Core
        <3>1. [path |-> b, mode |-> "ro"] \in Read
            BY <1>12
        <3>2. [path |-> b, mode |-> "ro"] # [path |-> gws, mode |-> "rw"]
            OBVIOUS
        <3> QED BY <1>8, <1>9, <1>10, <3>1, <3>2
    <2>2. PICK c \in Range(_CORE_RO) \cap Exists : [path |-> b, mode |-> "ro"] = [path |-> c, mode |-> "ro"]
        BY <2>1
    <2> QED BY <2>2
<1>13. ASSUME NEW b \in Range(_CORE_RO) \cap Exists PROVE b \in Range(ro)
    <2>1. [path |-> b, mode |-> "ro"] \in Read
        <3>1. [path |-> b, mode |-> "ro"] # [path |-> ws, mode |-> "rw"]
            OBVIOUS
        <3> QED BY <1>8, <1>9, <1>10, <3>1
    <2>2. PICK c \in Range(ro) \cap Exists : [path |-> b, mode |-> "ro"] = [path |-> c, mode |-> "ro"]
        BY <2>1
    <2> QED BY <2>2
<1>14. WellMade(p) /\ p.network = FALSE
    BY <1>1, <1>4, <1>8 DEF WellMade
<1>15. g.workspace \in {None, p.workspace}
    BY <1>4, <1>11
<1>16. Checked(p, g)
    BY <1>4, <1>11, <1>12, <1>13, <1>14, <1>15 DEF Checked
<1> QED BY <1>4, <1>16 DEF p

(* The paths a checked profile binds.                                      *)
LEMMA CheckedBinds ==
    ASSUME NEW p, NEW g, Checked(p, g)
    PROVE  Bound(p) = {[path |-> p.workspace, mode |-> "rw"]}
                      \cup {[path |-> b, mode |-> "ro"] : b \in Range(_CORE_RO) \cap Exists}
                      \cup (IF p.cargo \in {"ro", "rw"} /\ CargoPath \in Exists
                            THEN {[path |-> CargoPath, mode |-> p.cargo]} ELSE {})
<1>1. {x \in Range(p.ro_binds) \cap Exists : Head(x) # "proc"} = Range(_CORE_RO) \cap Exists
    BY PathFacts DEF Checked
<1>2. Head(p.workspace) # "proc"
    BY DEF Checked
<1> QED BY <1>1, <1>2, Zenon DEF Bound

(* A manifest for a workspace that is not under proc renders as declared.  *)
LEMMA ManifestRenders ==
    ASSUME NEW w, IsPath(w), Head(w) # "proc", NEW tier, NEW creds
    PROVE  LET m == CapabilityManifest(w, tier, creds) IN verify_materialized(materialize(m), m, Exists)
<1> DEFINE m == CapabilityManifest(w, tier, creds)
           q == materialize(m)
<1>1. /\ q.workspace = w /\ q.ro_binds = _CORE_RO /\ q.network = FALSE /\ q.cargo = None
      /\ m.workspace = w /\ m.ro_binds = _CORE_RO /\ m.network = FALSE
    BY DEF materialize, CapabilityManifest, SandboxProfile
<1>2. IsSequence(_CORE_RO)
    <2>1. _CORE_RO \in Seq({<<"usr">>, <<"lib">>, <<"etc">>})
        BY DEF _CORE_RO
    <2> QED BY <2>1 DEF IsSequence
<1> HIDE DEF m, q
<1>3. Checked(q, [workspace |-> None])
    BY <1>1, <1>2 DEF Checked, WellMade
<1>4. Bound(q) = {[path |-> w, mode |-> "rw"]} \cup {[path |-> b, mode |-> "ro"] : b \in Range(_CORE_RO) \cap Exists}
    BY <1>1, <1>3, CheckedBinds, AbsentIsNoMode
<1>5. materialized_mounts(q, Exists) = Bound(q)
    BY <1>3, BothBind DEF Checked
<1>6. declared_mounts(m, Exists) = {[path |-> w, mode |-> "rw"]} \cup {[path |-> b, mode |-> "ro"] : b \in Range(_CORE_RO) \cap Exists}
    BY <1>1 DEF declared_mounts
<1>7. verify_materialized(q, m, Exists)
    BY <1>1, <1>4, <1>5, <1>6 DEF verify_materialized
<1> QED BY <1>7 DEF q, m

(* The secrets that reach the step are those of the grant.                 *)
LEMMA SecretsAreGranted ==
    ASSUME NEW vault, NEW cids, inject_step_env(vault, cids) # None
    PROVE  Range(inject_step_env(vault, cids)) = Range(cids)
<1> DEFINE V == {step_env_var(cids[i]) : i \in DOMAIN cids}
           f == [var \in V |-> CHOOSE c \in Range(cids) : step_env_var(c) = var]
<1>1. /\ inject_step_env(vault, cids) = f
      /\ \A i, j \in DOMAIN cids : step_env_var(cids[i]) = step_env_var(cids[j]) => cids[i] = cids[j]
    BY DEF inject_step_env
<1>2. \A c, d \in Range(cids) : step_env_var(c) = step_env_var(d) => c = d
    BY <1>1 DEF Range
<1>3. \A var \in V : \E c \in Range(cids) : step_env_var(c) = var
    BY DEF Range
<1>4. \A var \in V : f[var] \in Range(cids) /\ step_env_var(f[var]) = var
    BY <1>3
<1>5. \A c \in Range(cids) : step_env_var(c) \in V
    BY DEF Range
<1>6. DOMAIN f = V
    OBVIOUS
<1> HIDE DEF f, V
<1>7. \A c \in Range(cids) : f[step_env_var(c)] = c
    BY <1>2, <1>4, <1>5
<1>8. Range(f) = {f[var] : var \in V}
    BY <1>6 DEF Range
<1> QED BY <1>1, <1>4, <1>5, <1>7, <1>8

LEMMA NothingGiven == Range(<< >>) = {} /\ DOMAIN << >> = {}
BY EmptySequence DEF Range

(* Exod.run_step: what passed its gates ran in the box its grant describes.*)
LEMMA RunIsBoxed ==
    ASSUME ProfilesMade, NEW req, Readable(req), req.workspace # None, CanRun(req), Authorised(req)
    PROVE  BoxGranted(Execution(req), conf.floor)
<1> DEFINE e == Execution(req)
           g == req.grant
           p == e.profile
           manifest == CapabilityManifest(p.workspace, g.tier, g.credentials)
<1>1. Checked(p, g) /\ p.cargo = IF g.cargo \in {"ro", "rw"} THEN g.cargo ELSE None
    BY ProfileChecked
<1>2. e.req = req /\ e.code = staged /\ e.swapped = FALSE /\ e.backend = Backend(g)
    BY DEF Execution
<1>3. e.secrets = IF g.credentials = << >> THEN << >> ELSE inject_step_env(conf.vault, g.credentials)
    BY DEF Execution
<1> HIDE DEF e
<1>4. capability_mounts(p, e.backend, Exists) =
               {[path |-> p.workspace, mode |-> "rw"]}
               \cup {[path |-> b, mode |-> "ro"] : b \in Range(_CORE_RO) \cap Exists}
               \cup (IF g.cargo \in {"ro", "rw"} /\ CargoPath \in Exists THEN {[path |-> CargoPath, mode |-> g.cargo]} ELSE {})
    <2>1. capability_mounts(p, e.backend, Exists) = Bound(p)
        BY <1>1, BothBind DEF Checked
    <2>2. (p.cargo \in {"ro", "rw"} <=> g.cargo \in {"ro", "rw"}) /\ (g.cargo \in {"ro", "rw"} => p.cargo = g.cargo)
        BY <1>1, AbsentIsNoMode
    <2>3. Bound(p) = {[path |-> p.workspace, mode |-> "rw"]}
                     \cup {[path |-> b, mode |-> "ro"] : b \in Range(_CORE_RO) \cap Exists}
                     \cup (IF p.cargo \in {"ro", "rw"} /\ CargoPath \in Exists
                           THEN {[path |-> CargoPath, mode |-> p.cargo]} ELSE {})
        BY <1>1, CheckedBinds
    <2> QED BY <2>1, <2>2, <2>3
<1>5. g.workspace \in {None, p.workspace}
    BY <1>1 DEF Checked
<1>6. Head(p.workspace) \notin {"cargo", "dev"} =>
          LET mounts == Rendering(p, e.backend, Exists)
          IN  \E k \in DOMAIN mounts :
                  /\ mounts[k] = Mount("rw", p.workspace, p.workspace)
                  /\ \A l \in DOMAIN mounts : l > k => ~IsPrefix(mounts[l].dst, p.workspace)
    BY <1>1, WorkspaceOnTop DEF Checked
<1>7. "network" \in _namespaces(p, e.backend, Exists)
    <2>1. "network" \in Namespaces(p)
        BY <1>1 DEF Checked, Namespaces
    <2>2. bwrap_argv(p, Exists).namespaces = Namespaces(p) /\ oci_config(p, Exists).namespaces = Namespaces(p) \cup {"mount"}
        BY DEF bwrap_argv, oci_config
    <2> QED BY <2>1, <2>2 DEF _namespaces
<1>8. confinement(p, "bwrap", Exists) = confinement(p, "runsc", Exists)
    BY <1>1, ConfinedAlike DEF Checked
<1>9. (g.sandbox_tier = "community" \/ conf.floor = "runsc") => e.backend = "runsc"
    BY <1>2, AbsentIsNoMode DEF Backend, strongest, Strength, backend_for_tier
<1>10. CodePinned(e)
    BY <1>2 DEF Authorised, closure_decision, CodePinned
<1>11. verify_materialized(materialize(manifest), manifest, Exists)
    BY <1>1, ManifestRenders DEF Checked, WellMade
<1>12. g.credentials # << >> => g.tier = "trusted" /\ inject_step_env(conf.vault, g.credentials) # None
    BY DEF CanRun
<1>13. g.tier \in {"community", "trusted"} =>
           /\ community_no_secrets(manifest)
           /\ validate_manifest_schema([workspace |-> p.workspace, tier |-> g.tier, credentials |-> g.credentials])
    BY <1>12 DEF community_no_secrets, validate_manifest_schema, CapabilityManifest
<1>14. Range(e.secrets) = Range(g.credentials)
    BY <1>3, <1>12, SecretsAreGranted
<1>15. BoxGranted(e, conf.floor)
    BY <1>2, <1>4, <1>5, <1>6, <1>7, <1>8, <1>9, <1>10, <1>11, <1>13, <1>14 DEF BoxGranted
<1> QED BY <1>15 DEF e

(* Exod._acl_check: what passed it under --acl-strict stayed within what   *)
(* the operator attested.                                                  *)
LEMMA RunIsWithin ==
    ASSUME ProfilesMade, NEW req, Readable(req), req.workspace # None, CanRun(req), conf.strict, _acl_check(req)
    PROVE  WithinAttestation(Execution(req))
<1> DEFINE e == Execution(req)
           g == req.grant
           a == req.attestation
           acl == a.acl
           c == Claim(req)
           key == _pmap_entry(g.skill, acl.perks)
           p == e.profile
<1>1. g.acl_sha # None /\ Attested(req)
    BY DEF _acl_check
<1>2. a # None /\ conf.acl_pinned /\ verify_acl_attestation(AclKey, a, now, g.acl_sha) /\ acl_allows(acl, c, None, FALSE)
    BY <1>1 DEF Attested
<1>3. acl # None /\ None \notin DOMAIN acl.perks
    BY <1>2 DEF Readable
<1>4. a.signer = AclKey /\ g.acl_sha = acl_sha(a.pid, a.token, acl) /\ a.nbf - SKEW <= now /\ now <= a.exp + SKEW
    BY <1>2 DEF verify_acl_attestation, InWindow
<1>5. /\ c.skill = g.skill /\ c.perk = g.perk /\ c.tier = g.sandbox_tier /\ c.destructive = g.destructive
      /\ c.credentialed = (g.credentials # << >>) /\ c.parameterized = Parameterized(req) /\ c.cargo = g.cargo
    BY DEF Claim
<1> HIDE DEF c
<1>6. LET listed == key # None /\ c.perk \in acl.perks[key]
      IN  /\ acl.skills = {Star} \/ _skill_listed(c.skill, acl.skills) \/ key # None
          /\ key # None => listed
          /\ c.destructive => listed
          /\ c.credentialed => acl.secrets
          /\ c.parameterized => acl.params
          /\ c.cargo # None => acl.cargo \in {"ro", "rw"}
          /\ c.cargo = "rw" => acl.cargo = "rw"
          /\ acl.max_tier # None => TierRank(c.tier, 2) <= TierRank(acl.max_tier, 0)
    BY <1>2, <1>3, <1>5 DEF acl_allows
<1>7. /\ Checked(p, g) /\ p.env = {"PATH"} \cup req.env
      /\ p.cargo = IF g.cargo \in {"ro", "rw"} THEN g.cargo ELSE None
    BY ProfileChecked
<1>8. e.req = req /\ e.at = now
    BY DEF Execution
<1>9. e.secrets = IF g.credentials = << >> THEN << >> ELSE inject_step_env(conf.vault, g.credentials)
    BY DEF Execution
<1> HIDE DEF e
<1>10. ASSUME NEW m \in capability_mounts(p, e.backend, Exists), m.path = CargoPath, m.path # p.workspace
       PROVE  acl.cargo = "rw" \/ (acl.cargo = "ro" /\ m.mode = "ro")
    <2>1. m \in {[path |-> p.workspace, mode |-> "rw"]}
                \cup {[path |-> b, mode |-> "ro"] : b \in Range(_CORE_RO) \cap Exists}
                \cup (IF p.cargo \in {"ro", "rw"} /\ CargoPath \in Exists
                      THEN {[path |-> CargoPath, mode |-> p.cargo]} ELSE {})
        BY <1>7, <1>10, BothBind, CheckedBinds DEF Checked
    <2>2. m # [path |-> p.workspace, mode |-> "rw"]
        BY <1>10
    <2>3. m \notin {[path |-> b, mode |-> "ro"] : b \in Range(_CORE_RO) \cap Exists}
        BY <1>10, PathFacts
    <2>4. p.cargo \in {"ro", "rw"} /\ m.mode = p.cargo
        BY <2>1, <2>2, <2>3
    <2>5. g.cargo = p.cargo /\ g.cargo # None
        BY <1>7, <2>4, AbsentIsNoMode
    <2> QED BY <1>5, <1>6, <2>4, <2>5
<1>11. DOMAIN e.secrets # {} => acl.secrets
    BY <1>5, <1>6, <1>9, NothingGiven
<1>12. CallerValues(p.env) # {} => acl.params
    <2>1. CallerValues(p.env) = req.env \ {"PATH", "SNIP", "RECORD_STORE"}
        BY <1>7 DEF CallerValues
    <2> QED BY <1>5, <1>6, <2>1 DEF Parameterized
<1>13. \A x \in DOMAIN acl.perks : Governs(x, g.skill, acl.perks) => key = x /\ key # None
    BY <1>3 DEF Governs, _pmap_entry
<1>14. key # None => key \in DOMAIN acl.perks /\ Governs(key, g.skill, acl.perks)
    BY DEF Governs, _pmap_entry
<1>15. \/ acl.skills = {Star} \/ \E x \in acl.skills : Covers(x, g.skill)
       \/ \E x \in DOMAIN acl.perks : Governs(x, g.skill, acl.perks)
    <2>1. _skill_listed(g.skill, acl.skills) => \E x \in acl.skills : Covers(x, g.skill)
        BY DEF _skill_listed, Covers
    <2> HIDE DEF key
    <2> QED BY <1>5, <1>6, <1>14, <2>1
<1>16. \A x \in DOMAIN acl.perks : Governs(x, g.skill, acl.perks) => g.perk \in acl.perks[x]
    <2> HIDE DEF key
    <2> QED BY <1>5, <1>6, <1>13
<1>17. g.destructive => \E x \in DOMAIN acl.perks : Governs(x, g.skill, acl.perks)
    <2> HIDE DEF key
    <2> QED BY <1>5, <1>6, <1>14
<1>18. acl.max_tier # None => TierRank(g.sandbox_tier, 2) <= TierRank(acl.max_tier, 0)
    BY <1>5, <1>6
<1>19. a.proof_pubkey # None => /\ req.token_proof.signer = a.proof_pubkey
                                /\ a.proof_pubkey \notin {GrantKey, ExodKey, AclKey}
    BY <1>1, <1>2 DEF _acl_check, ProvesPossession, verify_token_proof, banned_proof_pubs
<1> HIDE DEF p
<1>20. WithinAttestation(e)
    BY <1>4, <1>8, <1>10, <1>11, <1>12, <1>15, <1>16, <1>17, <1>18, <1>19 DEF WithinAttestation, p
<1> QED BY <1>20 DEF e

(* A step as it was let through, whatever became of its code.              *)
LEMMA SameBox ==
    ASSUME NEW e, NEW f, NEW floor, BoxGranted(e, floor), ~f.swapped => CodePinned(f),
           f.req = e.req, f.profile = e.profile, f.backend = e.backend, f.secrets = e.secrets
    PROVE  BoxGranted(f, floor)
BY DEF BoxGranted

LEMMA SameCeiling ==
    ASSUME NEW e, NEW f, WithinAttestation(e),
           f.req = e.req, f.at = e.at, f.profile = e.profile, f.backend = e.backend, f.secrets = e.secrets
    PROVE  WithinAttestation(f)
BY DEF WithinAttestation

(* What ran so far; and under --acl-strict a proof that let a step run     *)
(* since exod started is in its cache.                                     *)
ProofBound(e) == e.req.attestation.proof_pubkey # None
RanSound ==
    /\ \A i \in DOMAIN executions : BoxGranted(executions[i], conf.floor)
    /\ conf.strict =>
         /\ \A i \in DOMAIN executions :
              /\ WithinAttestation(executions[i])
              /\ executions[i].boot \in Nat /\ executions[i].boot <= boot
              /\ ProofBound(executions[i]) /\ executions[i].boot = boot => ProofKey(executions[i].req) \in proof_nonces
         /\ \A i, j \in DOMAIN executions :
              i # j /\ executions[i].boot = executions[j].boot /\ ProofBound(executions[i]) /\ ProofBound(executions[j]) =>
                  ProofKey(executions[i].req) # ProofKey(executions[j].req)

(* A step let through and not started will run as it was let through, but  *)
(* for its code once that is replaced; its proof is spent and nothing ran  *)
(* on it since exod started.                                               *)
WaitingSound(e) ==
    /\ BoxGranted(e, conf.floor) /\ e.boot = boot
    /\ ~e.swapped => staged = e.code
    /\ conf.strict =>
         /\ WithinAttestation(e)
         /\ ProofBound(e) =>
              /\ ProofKey(e.req) \in proof_nonces
              /\ \A i \in DOMAIN executions :
                   executions[i].boot = boot /\ ProofBound(executions[i]) => ProofKey(executions[i].req) # ProofKey(e.req)

LimbInv ==
    /\ IsSequence(executions) /\ boot \in Nat /\ ProfilesMade /\ InHand
    /\ RanSound
    /\ Waiting => WaitingSound(running.step)

(* A longer cache and the steps that ran.                                  *)
LEMMA RanKept ==
    ASSUME RanSound, UNCHANGED <<conf, boot, executions>>, proof_nonces \subseteq proof_nonces'
    PROVE  RanSound'
BY DEF RanSound

LEMMA RunKeepsLimb ==
    ASSUME LimbInv, InHand', NEW req, Readable(req), run_step(req)
    PROVE  LimbInv'
<1> DEFINE e == Execution(req)
           bound == req.attestation.proof_pubkey # None
<1>1. UNCHANGED <<boot, conf, staged, executions>> /\ proof_nonces \subseteq proof_nonces'
    BY DEF run_step
<1>2. ProfilesMade' /\ RanSound'
    BY <1>1, RanKept DEF LimbInv, ProfilesMade
<1>3. CASE running' = None
    BY <1>1, <1>2, <1>3 DEF LimbInv, Waiting
<1>4. CASE /\ running' = [step |-> e, started |-> FALSE]
           /\ verify_grant(GrantKey, req.grant, now, req) /\ Authorised(req) /\ req.workspace # None /\ CanRun(req)
    <2>1. e.boot = boot /\ e.req = req /\ e.code = staged
        BY DEF Execution
    <2>2. BoxGranted(e, conf.floor)
        BY <1>4, RunIsBoxed DEF LimbInv
    <2>3. conf.strict => _acl_check(req) /\ WithinAttestation(e)
        BY <1>4, RunIsWithin DEF LimbInv, Authorised
    <2>4. conf.strict /\ bound => ProofKey(req) \notin proof_nonces /\ ProofKey(req) \in proof_nonces'
        <3>1. conf.strict => _acl_check(req) /\ req.grant.acl_sha # None /\ Attested(req)
            BY <2>3 DEF _acl_check
        <3>2. conf.strict /\ bound => SpendsProof(req) /\ ProofKey(req) \notin proof_nonces
            BY <3>1 DEF _acl_check, SpendsProof
        <3> QED BY <1>4, <3>2 DEF run_step
    <2> HIDE DEF e, bound
    <2>5. running'.step = e
        BY <1>4
    <2>6. ProofBound(e) <=> bound
        BY <2>1 DEF ProofBound, bound
    <2>7. ASSUME conf.strict, bound, NEW i \in DOMAIN executions, executions[i].boot = boot, ProofBound(executions[i])
          PROVE  ProofKey(executions[i].req) # ProofKey(req)
        BY <2>4, <2>7 DEF LimbInv, RanSound
    <2>8. WaitingSound(running.step)'
        BY <1>1, <2>1, <2>2, <2>3, <2>4, <2>5, <2>6, <2>7 DEF WaitingSound, ProofBound
    <2> QED BY <1>1, <1>2, <2>8 DEF LimbInv
<1> QED BY <1>3, <1>4, RunInHand

LEMMA StartKeepsLimb ==
    ASSUME LimbInv, InHand', RunnerStarts
    PROVE  LimbInv'
<1> DEFINE s == running.step
           e == [s EXCEPT !.code = staged]
           n == Len(executions)
<1>1. UNCHANGED <<boot, conf, proof_nonces, staged>> /\ Waiting /\ ~Waiting'
    BY DEF RunnerStarts, Waiting, LimbInv, InHand
<1>2. ProfilesMade'
    BY <1>1 DEF LimbInv, ProfilesMade
<1>3. CASE UNCHANGED executions
    BY <1>1, <1>2, <1>3, RanKept DEF LimbInv
<1>4. CASE executions' = Append(executions, e)
    <2>1. /\ e.req = s.req /\ e.boot = s.boot /\ e.at = s.at /\ e.code = staged /\ e.swapped = s.swapped
          /\ e.backend = s.backend /\ e.profile = s.profile /\ e.secrets = s.secrets
        BY <1>1 DEF LimbInv, InHand, Waiting
    <2>2. WaitingSound(s)
        BY <1>1 DEF LimbInv
    <2> HIDE DEF e, s
    <2>3. ~s.swapped => CodePinned(s) /\ staged = s.code
        BY <2>2 DEF WaitingSound, BoxGranted
    <2>4. ~e.swapped => CodePinned(e)
        BY <2>1, <2>3 DEF CodePinned
    <2>5. BoxGranted(e, conf.floor)
        BY <2>1, <2>2, <2>4, SameBox DEF WaitingSound
    <2>6. conf.strict => WithinAttestation(e)
        BY <2>1, <2>2, SameCeiling DEF WaitingSound
    <2>7. e.boot = boot
        BY <2>1, <2>2 DEF WaitingSound
    <2>8. conf.strict /\ ProofBound(e) =>
              /\ ProofKey(e.req) \in proof_nonces
              /\ \A i \in DOMAIN executions :
                   executions[i].boot = boot /\ ProofBound(executions[i]) => ProofKey(executions[i].req) # ProofKey(e.req)
        BY <2>1, <2>2 DEF WaitingSound, ProofBound
    <2>9. /\ IsSequence(executions') /\ n \in Nat
          /\ DOMAIN executions = 1..n /\ DOMAIN executions' = 1..(n + 1)
          /\ \A i \in 1..n : executions'[i] = executions[i]
          /\ executions'[n + 1] = e
        BY <1>4, AppendSequence DEF LimbInv
    <2>10. \A i \in 1..(n + 1) : i \in 1..n \/ i = n + 1
        BY <2>9
    <2>11. ASSUME NEW i \in DOMAIN executions' PROVE BoxGranted(executions'[i], conf.floor)
        BY <2>5, <2>9, <2>10 DEF LimbInv, RanSound
    <2>12. ASSUME conf.strict, NEW i \in DOMAIN executions'
           PROVE  /\ WithinAttestation(executions'[i])
                  /\ executions'[i].boot \in Nat /\ executions'[i].boot <= boot
                  /\ ProofBound(executions'[i]) /\ executions'[i].boot = boot => ProofKey(executions'[i].req) \in proof_nonces
        <3>1. CASE i = n + 1
            BY <2>6, <2>7, <2>8, <2>9, <2>12, <3>1 DEF LimbInv
        <3>2. CASE i \in 1..n
            BY <2>9, <2>12, <3>2 DEF LimbInv, RanSound
        <3> QED BY <2>9, <2>10, <3>1, <3>2
    <2>13. ASSUME conf.strict, NEW i \in DOMAIN executions', NEW j \in DOMAIN executions', i # j,
                  executions'[i].boot = executions'[j].boot, ProofBound(executions'[i]), ProofBound(executions'[j])
           PROVE  ProofKey(executions'[i].req) # ProofKey(executions'[j].req)
        <3>1. CASE i \in 1..n /\ j \in 1..n
            BY <2>9, <2>13, <3>1 DEF LimbInv, RanSound
        <3>2. CASE i \in 1..n /\ j = n + 1
            BY <2>7, <2>8, <2>9, <2>13, <3>2
        <3>3. CASE i = n + 1 /\ j \in 1..n
            BY <2>7, <2>8, <2>9, <2>13, <3>3
        <3> QED BY <2>9, <2>10, <2>13, <3>1, <3>2, <3>3
    <2>14. RanSound'
        BY <1>1, <2>11, <2>12, <2>13 DEF RanSound
    <2> QED BY <1>1, <1>2, <2>9, <2>14 DEF LimbInv
<1> QED BY <1>3, <1>4 DEF RunnerStarts

LEMMA StageKeepsLimb ==
    ASSUME LimbInv, InHand', NEW files, Stage(files)
    PROVE  LimbInv'
<1> DEFINE s == running.step
           e == [s EXCEPT !.swapped = TRUE]
<1>1. UNCHANGED <<conf, boot, proof_nonces, executions>>
    BY DEF Stage
<1>2. ProfilesMade' /\ RanSound'
    BY <1>1, RanKept DEF LimbInv, ProfilesMade
<1>3. CASE UNCHANGED running /\ ~Waiting
    BY <1>1, <1>2, <1>3 DEF LimbInv, Waiting
<1>4. CASE Waiting /\ running' = [running EXCEPT !.step.swapped = TRUE]
    <2>1. running'.step = e
        BY <1>4 DEF LimbInv, InHand, Waiting
    <2>2. /\ e.req = s.req /\ e.boot = s.boot /\ e.at = s.at /\ e.swapped
          /\ e.backend = s.backend /\ e.profile = s.profile /\ e.secrets = s.secrets
        BY <1>4 DEF LimbInv, InHand, Waiting
    <2>3. WaitingSound(s)
        BY <1>4 DEF LimbInv
    <2> HIDE DEF e, s
    <2>4. BoxGranted(e, conf.floor)
        BY <2>2, <2>3, SameBox DEF WaitingSound
    <2>5. conf.strict => WithinAttestation(e)
        BY <2>2, <2>3, SameCeiling DEF WaitingSound
    <2>6. WaitingSound(running.step)'
        BY <1>1, <2>1, <2>2, <2>3, <2>4, <2>5 DEF WaitingSound, ProofBound
    <2> QED BY <1>1, <1>2, <2>6 DEF LimbInv
<1> QED BY <1>3, <1>4 DEF Stage, Waiting

LEMMA LimbStep ==
    ASSUME LimbInv, [ExodNext]_exodVars
    PROVE  LimbInv'
<1>0. InHand'
    BY InHandStep DEF LimbInv
<1>1. CASE UNCHANGED <<conf, boot, proof_nonces, executions, staged>> /\ running' \in {running, None}
    <2>1. ProfilesMade' /\ RanSound'
        BY <1>1, RanKept DEF LimbInv, ProfilesMade
    <2>2. Waiting' => Waiting /\ UNCHANGED running
        BY <1>1 DEF Waiting
    <2>3. Waiting' => WaitingSound(running.step)'
        BY <1>1, <2>2 DEF LimbInv, WaitingSound
    <2> QED BY <1>0, <1>1, <2>1, <2>3 DEF LimbInv
<1>2. CASE Restart
    <2>1. boot' = boot + 1 /\ boot \in Nat /\ running' = None /\ UNCHANGED <<executions, conf>>
        BY <1>2 DEF Restart, LimbInv
    <2>2. ProfilesMade' /\ ~Waiting'
        BY <2>1 DEF LimbInv, ProfilesMade, Waiting
    <2>3. ASSUME conf.strict, NEW i \in DOMAIN executions
          PROVE  executions[i].boot \in Nat /\ executions[i].boot <= boot' /\ executions[i].boot # boot'
        BY <2>1, <2>3 DEF LimbInv, RanSound
    <2>4. RanSound'
        BY <2>1, <2>3 DEF LimbInv, RanSound
    <2> QED BY <1>0, <2>1, <2>2, <2>4 DEF LimbInv
<1>3. ASSUME NEW req, Readable(req), run_step(req) PROVE LimbInv'
    BY <1>0, <1>3, RunKeepsLimb
<1>4. CASE RunnerStarts
    BY <1>0, <1>4, StartKeepsLimb
<1>5. ASSUME NEW files, Stage(files) PROVE LimbInv'
    BY <1>0, <1>5, StageKeepsLimb
<1> QED BY <1>1, <1>2, <1>3, <1>4, <1>5
    DEF ExodNext, exodVars, limbVars, Tick, RunnerEnds, RecordRead, RecordOpen, RecordDump, RecordCrash

LEMMA LimbStarts == LimbInit /\ ProfilesMade => LimbInv
BY EmptySequence DEF LimbInit, LimbInv, InHand, Waiting, RanSound

(* Exod._acl_check and run_step: for every set of start-up options, every  *)
(* request and every way the profile factory renders a workspace, a step   *)
(* that ran under --acl-strict touched only what the operator attested,    *)
(* and a possession proof let one step run per start of exod.              *)
THEOREM CeilingHolds == ExodSpec => []RunsWithinCeiling
<1>1. LimbInv => RunsWithinCeiling
    BY DEF LimbInv, RanSound, ProofBound, RunsWithinCeiling
<1> QED BY <1>1, LimbStarts, LimbStep, PTL DEF ExodSpec

(* sandbox.confinement, capmanifest.verify_materialized: whichever backend *)
(* renders it and whatever profile the factory made of the workspace, the  *)
(* box a step ran in is the one its grant describes; and whatever is       *)
(* staged and whenever, the code it opened is the pinned code unless it was*)
(* replaced after exod checked it and before the command opened it.        *)
THEOREM BoxIsGranted == ExodSpec => []ReachIsGranted
<1>1. LimbInv => ReachIsGranted
    BY DEF LimbInv, RanSound, ReachIsGranted
<1> QED BY <1>1, LimbStarts, LimbStep, PTL DEF ExodSpec
=============================================================================
