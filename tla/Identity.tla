------------------------------ MODULE Identity ------------------------------
(***************************************************************************)
(* Who a request comes from and how many it may send: the bearer schemes   *)
(* of principals, the Ed25519 assertion verifier with its replay           *)
(* cache, and the token bucket.  govd and fleetd serve every connection on *)
(* a thread of its own and hold no lock around either.                     *)
(***************************************************************************)
EXTENDS Gates

CONSTANTS
    Threads,            \* handler threads
    Assertions,         \* bearer assertions that were minted: [pub, signer, iat, exp, nonce]
    Principals,         \* the registry: id -> [token, subject]
    Rate, Burst,        \* a principal's quota
    CacheMax, MaxTtl, AuthSkew,   \* the verifier's bounds
    MaxTime, MaxRestarts, MaxAdmitted   \* bounds on the model: clock, restarts, requests counted

\* A bucket is never mistaken for the bucket that is not there yet.
ASSUME IdentityAssumption ==
    /\ \A a \in Assertions : a.exp \in Int
    /\ Rate \in Nat /\ Burst \in Nat
    /\ None \notin [tokens : Int, ts : Int]

VARIABLES
    time,       \* the clock
    thread,     \* what each handler thread has read and not yet written
    seen,       \* Verifier._seen: nonce -> exp
    starts,     \* restarts of the process
    accepted,   \* assertions this process took for a principal's
    twice,      \* assertions one process accepted twice, no other thread checking them meanwhile
    overlapped, \* nonces two threads were checking at once
    bucket,     \* the token bucket: {} until first used
    admitted,   \* the times requests were let through since two threads last overlapped
    contended   \* two threads overlap in rate_ok

authVars == <<seen, starts, accepted, twice, overlapped>>
bucketVars == <<bucket, admitted, contended>>

Free == [pc |-> "free"]

IdentityInit ==
    /\ time = 0 /\ thread = [t \in Threads |-> Free]
    /\ seen = << >> /\ starts = 0 /\ accepted = {} /\ twice = {} /\ overlapped = {}
    /\ bucket = None /\ admitted = << >> /\ contended = FALSE

Pass == time < MaxTime /\ time' = time + 1 /\ UNCHANGED <<thread, authVars, bucketVars>>

-----------------------------------------------------------------------------
(* Bearer tokens                                                           *)
authenticate(bearer) ==
    IF \E p \in DOMAIN Principals : bearer # None /\ Principals[p].token = bearer
    THEN CHOOSE p \in DOMAIN Principals : Principals[p].token = bearer ELSE None

\* A subject only ever matches a principal that declares one.
PrincipalOf(subject) ==
    IF \E p \in DOMAIN Principals : subject # None /\ Principals[p].subject = subject
    THEN CHOOSE p \in DOMAIN Principals : Principals[p].subject = subject ELSE None

resolve_principal(bearer, verifier, subject) ==
    IF verifier \in {None, "token_sha"} THEN authenticate(bearer) ELSE PrincipalOf(subject)

-----------------------------------------------------------------------------
(* The Ed25519 verifier                                                    *)
\* ttl is clamped to the ceiling when an assertion is minted.
mint_assertion(key, iat, ttl, nonce) ==
    LET clamped == IF ttl > MaxTtl THEN MaxTtl ELSE IF ttl < 1 THEN 1 ELSE ttl
    IN  [pub |-> key, signer |-> key, iat |-> iat, exp |-> iat + clamped, nonce |-> nonce]

WellFormed(a) ==
    /\ a.nonce # None
    /\ a.exp > time /\ a.exp - a.iat <= MaxTtl
    /\ a.iat <= time + AuthSkew
    /\ a.signer = a.pub

(* Mutant: at its limit the cache is cleared.                              *)
Pruned_clears == IF Cardinality(DOMAIN seen) < CacheMax THEN seen ELSE << >>

\* At its limit the cache first drops what has expired.
Pruned == IF Cardinality(DOMAIN seen) < CacheMax THEN seen
          ELSE [n \in {m \in DOMAIN seen : seen[m] > time} |-> seen[n]]

\* _replayed up to the write: full of live nonces, or seen and still live.
Verify(t, a) ==
    /\ thread[t].pc = "free" /\ WellFormed(a)
    /\ seen' = Pruned
    /\ IF Cardinality(DOMAIN Pruned) >= CacheMax \/ (a.nonce \in DOMAIN Pruned /\ Pruned[a.nonce] > time)
       THEN UNCHANGED <<thread, overlapped>>
       ELSE /\ thread' = [thread EXCEPT ![t] = [pc |-> "verify", a |-> a]]
            /\ overlapped' = overlapped \cup
                   {x.a.nonce : x \in {thread[u] : u \in {v \in Threads : thread[v].pc = "verify" /\ thread[v].a.nonce = a.nonce}}}
    /\ UNCHANGED <<time, starts, accepted, twice, bucketVars>>

Remember(t) ==
    /\ thread[t].pc = "verify"
    /\ LET a == thread[t].a
           known == resolve_principal(None, "ed25519", a.pub) # None
       IN  /\ seen' = [n \in DOMAIN seen \cup {a.nonce} |-> IF n = a.nonce THEN a.exp ELSE seen[n]]
           /\ twice' = IF a.nonce \in overlapped \/ ~known THEN twice ELSE twice \cup ({a} \cap accepted)
           /\ accepted' = IF known THEN accepted \cup {a} ELSE accepted
    /\ thread' = [thread EXCEPT ![t] = Free]
    /\ UNCHANGED <<time, starts, overlapped, bucketVars>>

\* The process is restarted: the cache and the buckets are gone, and what
\* was in flight too.
Reboot ==
    /\ starts < MaxRestarts /\ starts' = starts + 1
    /\ seen' = << >> /\ thread' = [t \in Threads |-> Free]
    /\ accepted' = {} /\ overlapped' = {}
    /\ bucket' = None /\ admitted' = << >> /\ contended' = FALSE
    /\ UNCHANGED <<time, twice>>

-----------------------------------------------------------------------------
(* The token bucket: read and refill, then write.                          *)
Lower(a, b) == IF a < b THEN a ELSE b
(* Mutant: an idle bucket keeps filling.                                   *)
Refilled_unbounded ==
    IF bucket = None THEN Burst
    ELSE bucket.tokens + (IF time > bucket.ts THEN time - bucket.ts ELSE 0) * Rate

Refilled ==
    IF bucket = None THEN Burst
    ELSE Lower(Burst, bucket.tokens + (IF time > bucket.ts THEN time - bucket.ts ELSE 0) * Rate)

RateRead(t) ==
    /\ thread[t].pc = "free" /\ Len(admitted) < MaxAdmitted
    /\ thread' = [thread EXCEPT ![t] = [pc |-> "rate", tokens |-> Refilled, now |-> time]]
    /\ contended' = (contended \/ \E u \in Threads : thread[u].pc = "rate")
    /\ admitted' = IF contended' THEN << >> ELSE admitted
    /\ UNCHANGED <<time, bucket, authVars>>

RateWrite(t) ==
    /\ thread[t].pc = "rate"
    /\ LET allowed == thread[t].tokens >= 1
       IN  /\ bucket' = [tokens |-> IF allowed THEN thread[t].tokens - 1 ELSE thread[t].tokens, ts |-> thread[t].now]
           /\ admitted' = IF allowed /\ ~contended THEN Append(admitted, thread[t].now) ELSE admitted
    /\ thread' = [thread EXCEPT ![t] = Free]
    /\ contended' = (contended /\ \E u \in Threads \ {t} : thread[u].pc = "rate")
    /\ UNCHANGED <<time, authVars>>

AuthNext ==
    \/ Pass \/ Reboot
    \/ \E t \in Threads : Remember(t) \/ \E a \in Assertions : Verify(t, a)

RateNext ==
    \/ Pass
    \/ \E t \in Threads : RateRead(t) \/ RateWrite(t)

-----------------------------------------------------------------------------
(* ed25519_auth.Verifier: a bearer assertion is accepted while it is valid *)
(* and, in one process, a second time only when two threads checked it at  *)
(* the same moment; the cache's pruning never forgets a live one.          *)
AssertionAcceptedOnce ==
    twice = {}

(* principals.rate_ok (principals.py:6): "a principal over its token-bucket*)
(* quota is throttled".  Threads that overlap in the unlocked read and     *)
(* write of a bucket spend a token twice and may write back an older       *)
(* bucket; that ends with the overlap.  In every stretch of time with no   *)
(* overlap in it, also one right after an overlap, a principal gets at     *)
(* most its burst and what the rate refills.                               *)
QuotaHolds ==
    \A i, j \in DOMAIN admitted : i <= j => j - i + 1 <= Burst + Rate * (admitted[j] - admitted[i])
=============================================================================
