--------------------------- MODULE AssuranceProofs ---------------------------
(***************************************************************************)
(* Proofs about what vouches for a run: the revocation gates, the sealed   *)
(* values, the executor and the store tiers.  The parts share no state;    *)
(* each has a specification of its own here.                               *)
(***************************************************************************)
EXTENDS StoreTiers, ValueLedger, Revocation, Pipeline, Erasure, Concord, SumTheorems, FiniteSetTheorems, TLAPS

-----------------------------------------------------------------------------
(* Revocation: the publisher, the clock and the gates.                     *)
RevocationSpec == RevocationInit /\ [][RevocationNext]_feedVars

(* What the publisher has signed so far: numbered, dated in order, and     *)
(* each listing what the earlier ones listed.                              *)
FeedsOrdered ==
    /\ clock \in Int /\ feeds \in Seq(Feed)
    /\ \A i \in 1..Len(feeds) :
         /\ feeds[i].payload.seq = i /\ feeds[i].payload.issued <= clock
         /\ \A j \in 1..Len(feeds) :
              i <= j => /\ feeds[i].payload.issued <= feeds[j].payload.issued
                        /\ feeds[i].payload.revoked \subseteq feeds[j].payload.revoked

(* The pinning consumer knows of the revocation from a feed it is past.    *)
PinnedKnows ==
    /\ last_seq \in Int
    /\ knew # None => \E i \in 1..Len(feeds) : i <= last_seq /\ Artifact \in feeds[i].payload.revoked

RevocationInv ==
    /\ FeedsOrdered /\ PinnedKnows
    /\ verdict.time \in Int /\ verdict.time <= clock
    /\ RevokedStaysRefused

LEMMA FeedFields ==
    ASSUME NEW f \in Feed
    PROVE  /\ f.payload.seq \in Int /\ f.payload.issued \in Int /\ f.payload.expires \in Int
           /\ f.payload.revoked \subseteq {Artifact} /\ f # None
BY RevocationAssumption DEF Feed, FeedBody

LEMMA SignedFeed ==
    ASSUME NEW seq \in Int, NEW revoked \in SUBSET {Artifact}, NEW issued \in Int, NEW ttl \in Int,
           NEW key \in {Root, "stranger"}
    PROVE  LET f == sign_feed(seq, revoked, issued, ttl, key)
           IN  /\ f \in Feed
               /\ f.payload.seq = seq /\ f.payload.issued = issued /\ f.payload.revoked = revoked
               /\ key # Root => ~VerifiedAs(f, "feed", Root)
<1> DEFINE b == [seq |-> seq, issued |-> issued, expires |-> issued + ttl, revoked |-> revoked]
           s == [keyid |-> "publisher-root", sig |-> [key |-> key, over |-> [type |-> "feed", payload |-> b]]]
           f == sign_feed(seq, revoked, issued, ttl, key)
<1>1. b \in FeedBody /\ b.seq = seq /\ b.issued = issued /\ b.revoked = revoked
    BY DEF FeedBody
<1>2. f = [type |-> "feed", payload |-> b, sigs |-> {s}]
    BY DEF sign_feed, sign_ph, Envelope, ph_sign, pae
<1>3. s.sig.key = key
    OBVIOUS
<1> HIDE DEF b
<1>4. s \in [keyid : {"publisher-root"}, sig : [key : {Root, "stranger"}, over : [type : {"feed"}, payload : FeedBody]]]
    BY <1>1
<1>5. f \in Feed /\ f.payload = b /\ f.sigs = {s}
    BY <1>2, <1>4, <1>1 DEF Feed
<1>6. key # Root => ~VerifiedAs(f, "feed", Root)
    BY <1>3, <1>5 DEF VerifiedAs, verify_ph, ph_verify
<1> QED BY <1>1, <1>5, <1>6

(* A feed that a gate takes for the publisher's is one the publisher       *)
(* published.                                                              *)
LEMMA DeliveredFeeds ==
    ASSUME FeedsOrdered, NEW f \in Delivered
    PROVE  f \in Feed /\ (VerifiedAs(f, "feed", Root) => \E i \in 1..Len(feeds) : f = feeds[i])
<1>1. DOMAIN feeds = 1..Len(feeds) /\ \A i \in 1..Len(feeds) : feeds[i] \in Feed
    BY DEF FeedsOrdered
<1>2. CASE f = sign_feed(9, {}, clock, 1, "stranger")
  <2>1. clock \in Int /\ {} \in SUBSET {Artifact} /\ "stranger" # Root
    BY RevocationAssumption DEF FeedsOrdered
  <2>2. f \in Feed /\ ~VerifiedAs(f, "feed", Root)
    BY <1>2, <2>1, SignedFeed
  <2> QED BY <2>2
<1> QED BY <1>1, <1>2 DEF Delivered

(* A gate that allowed the artifact on a fresh feed did so in time.        *)
LEMMA AllowedInTime ==
    ASSUME FeedsOrdered, NEW f \in Delivered, VerifiedAs(f, "feed", Root), Artifact \notin f.payload.revoked,
           NEW age \in Int, clock - f.payload.issued <= age
    PROVE  \A i \in 1..Len(feeds) : Artifact \in feeds[i].payload.revoked => clock <= feeds[i].payload.issued + age
<1>1. PICK k \in 1..Len(feeds) : f = feeds[k]
    BY DeliveredFeeds
<1> TAKE i \in 1..Len(feeds)
<1> HAVE Artifact \in feeds[i].payload.revoked
<1>2. feeds[i] \in Feed /\ feeds[k] \in Feed /\ Len(feeds) \in Nat
    BY DEF FeedsOrdered
<1>3. ~(i <= k)
    BY <1>1 DEF FeedsOrdered
<1>4. feeds[k].payload.issued <= feeds[i].payload.issued
    BY <1>2, <1>3 DEF FeedsOrdered
<1> QED BY <1>1, <1>2, <1>4, FeedFields DEF FeedsOrdered

(* What an answer has to satisfy for the invariant to hold of it.          *)
Justified(gate, allow) ==
    allow =>
      /\ gate \notin {"inflight", "rotation"}
      /\ gate = "pinned" => knew = None
      /\ \A i \in 1..Len(feeds) : Artifact \in feeds[i].payload.revoked =>
           clock <= feeds[i].payload.issued + Latency(gate)

LEMMA AnswerKeeps ==
    ASSUME RevocationInv, NEW gate, NEW allow, Say(gate, allow), Justified(gate, allow),
           UNCHANGED <<clock, feeds>>, PinnedKnows'
    PROVE  RevocationInv'
<1>1. /\ verdict'.gate = gate /\ verdict'.time = clock /\ verdict'.known = knew
      /\ verdict'.allow <=> allow
    BY DEF Say
<1>2. FeedsOrdered'
    BY DEF RevocationInv, FeedsOrdered
<1>3. DOMAIN feeds = 1..Len(feeds) /\ clock \in Int
    BY DEF RevocationInv, FeedsOrdered
<1>4. RevokedStaysRefused'
    BY <1>1, <1>3 DEF RevokedStaysRefused, Justified, Latency
<1> QED BY <1>1, <1>2, <1>3, <1>4 DEF RevocationInv

LEMMA AskPinnedKeeps ==
    ASSUME RevocationInv, NEW f \in Delivered, AskPinned(f)
    PROVE  RevocationInv'
<1> DEFINE allow == revocation_decision(f, Artifact, clock, last_seq)
           ok == verify_feed(f, clock, last_seq)
<1>0. FeedsOrdered /\ PinnedKnows /\ clock \in Int /\ last_seq \in Int /\ f \in Feed /\ Len(feeds) \in Nat
    BY DeliveredFeeds DEF RevocationInv, FeedsOrdered, PinnedKnows
<1>1. /\ Say("pinned", allow) /\ UNCHANGED <<clock, feeds>>
      /\ last_seq' = IF ok THEN f.payload.seq ELSE last_seq
      /\ knew' = IF knew = None /\ (ok /\ Artifact \in f.payload.revoked) THEN clock ELSE knew
    BY DEF AskPinned, is_revoked
<1>2. ok => \E k \in 1..Len(feeds) : f = feeds[k] /\ f.payload.seq = k /\ k > last_seq
    BY <1>0, DeliveredFeeds DEF verify_feed, FeedsOrdered
<1>3. allow => ok /\ Artifact \notin f.payload.revoked
    BY DEF revocation_decision
<1>4. ok => VerifiedAs(f, "feed", Root) /\ clock - f.payload.issued <= MaxAge
    BY DEF verify_feed
<1> HIDE DEF allow, ok
<1>5. ASSUME allow PROVE knew = None
    <2> SUFFICES ASSUME knew # None PROVE FALSE
        OBVIOUS
    <2>1. PICK i \in 1..Len(feeds) : i <= last_seq /\ Artifact \in feeds[i].payload.revoked
        BY <1>0 DEF PinnedKnows
    <2>2. PICK k \in 1..Len(feeds) : f = feeds[k] /\ k > last_seq
        BY <1>2, <1>3, <1>5
    <2> QED BY <1>0, <1>3, <1>5, <2>1, <2>2 DEF FeedsOrdered
<1>6. Justified("pinned", allow)
    <2>1. MaxAge \in Int /\ Latency("pinned") = MaxAge
        BY DEF MaxAge, Latency
    <2> QED BY <1>0, <1>3, <1>4, <1>5, <2>1, AllowedInTime DEF Justified
<1>7. PinnedKnows'
    <2>1. last_seq' \in Int /\ last_seq' >= last_seq
        BY <1>0, <1>1, <1>2
    <2>2. CASE knew' = knew
        BY <1>0, <1>1, <2>1, <2>2 DEF PinnedKnows
    <2>3. CASE ok /\ Artifact \in f.payload.revoked
        BY <1>0, <1>1, <1>2, <2>1, <2>3 DEF PinnedKnows
    <2> QED BY <1>1, <2>2, <2>3
<1> QED BY <1>1, <1>6, <1>7, AnswerKeeps

LEMMA AskTiersKeeps ==
    ASSUME RevocationInv, NEW f \in Delivered, NEW destructive \in BOOLEAN, AskTiers(f, destructive)
    PROVE  RevocationInv'
<1> DEFINE gate == IF destructive THEN "destructive" ELSE "read-only"
           allow == decision(f, destructive, clock, Artifact)
           age == clock - f.payload.issued
<1>0. FeedsOrdered /\ PinnedKnows /\ age \in Int /\ Latency(gate) \in Int
    BY DeliveredFeeds, FeedFields DEF RevocationInv, FeedsOrdered, Latency, MaxAge, Grace1, Grace2
<1>1. Say(gate, allow) /\ UNCHANGED <<clock, feeds, last_seq, knew>>
    BY DEF AskTiers
<1>2. PinnedKnows'
    BY <1>0, <1>1 DEF PinnedKnows
<1>3. ASSUME allow
      PROVE  VerifiedAs(f, "feed", Root) /\ Artifact \notin f.payload.revoked /\ age <= Latency(gate)
    BY <1>0, <1>3 DEF decision, tier_for, Latency, MaxAge, Grace1, Grace2
<1> HIDE DEF allow
<1>4. Justified(gate, allow)
    BY <1>0, <1>3, AllowedInTime DEF Justified
<1> HIDE DEF gate
<1> QED BY <1>1, <1>2, <1>4, AnswerKeeps

LEMMA AskGrantKeeps ==
    ASSUME RevocationInv, NEW f \in Delivered, AskGrant(f)
    PROVE  RevocationInv'
<1> DEFINE allow == verify_grant(sign_grant("doc", "old"), [k \in {Artifact, "new"} |-> IF k = "new" THEN k ELSE "old"],
                                 clock, f)
<1>0. FeedsOrdered /\ PinnedKnows /\ f # None /\ MaxAge \in Int /\ Latency("grant") = MaxAge
    BY DeliveredFeeds, FeedFields DEF RevocationInv, Latency, MaxAge
<1>1. Say("grant", allow) /\ UNCHANGED <<clock, feeds, last_seq, knew>>
    BY DEF AskGrant
<1>2. PinnedKnows'
    BY <1>0, <1>1 DEF PinnedKnows
<1>3. \A s \in sign_grant("doc", "old").sigs : s.keyid = Artifact
    BY DEF sign_grant, sign_ph, Envelope, kid
<1>4. ASSUME allow PROVE VerifiedAs(f, "feed", Root) /\ Artifact \notin f.payload.revoked /\ clock - f.payload.issued <= MaxAge
    BY <1>0, <1>3, <1>4 DEF verify_grant, revocation_decision, verify_feed
<1> HIDE DEF allow
<1>5. Justified("grant", allow)
    BY <1>0, <1>4, AllowedInTime DEF Justified
<1> QED BY <1>1, <1>2, <1>5, AnswerKeeps

(* A run stops where the revocation meets it.                              *)
LEMMA StopsInTime ==
    ASSUME NEW clean, NEW revoke, NEW at \in {0, 1}, NEW critical \in BOOLEAN, Artifact \in revoke.payload.revoked
    PROVE  ~(run_inflight(2, Artifact, clean, revoke, at, clock, critical) > (IF critical THEN at ELSE at + 1))
<1> DEFINE Allows(i) == revocation_decision(IF i > at THEN revoke ELSE clean, Artifact, clock, 0)
           Killed(i) == i = at /\ critical /\ ~revocation_decision(revoke, Artifact, clock, 0)
           stops == {i \in 0..1 : ~Allows(i) \/ Killed(i)}
           first == CHOOSE i \in stops : \A k \in stops : i <= k
<1>1. run_inflight(2, Artifact, clean, revoke, at, clock, critical) = IF stops = {} THEN 2 ELSE first
    BY DEF run_inflight
<1>2. ~revocation_decision(revoke, Artifact, clock, 0)
    BY DEF revocation_decision
<1>3. stops \subseteq {0, 1}
    OBVIOUS
<1>4. critical => at \in stops
    BY <1>2
<1>5. at = 0 => 1 \in stops
    BY <1>2
<1> HIDE DEF stops
<1>6. ASSUME stops # {} PROVE first \in stops /\ \A k \in stops : first <= k
    <2>1. \E i \in stops : \A k \in stops : i <= k
        <3>1. CASE 0 \in stops
            <4>1. \A k \in stops : 0 <= k
                BY <1>3
            <4> QED BY <3>1, <4>1
        <3>2. CASE 0 \notin stops
            <4>1. stops = {1}
                BY <1>3, <1>6, <3>2
            <4> QED BY <4>1
        <3> QED BY <3>1, <3>2
    <2> QED BY <2>1
<1> HIDE DEF first
<1>7. CASE stops = {}
    BY <1>1, <1>4, <1>5, <1>7
<1>8. CASE stops # {}
    <2>1. first \in {0, 1} /\ (critical => first <= at) /\ (at = 0 => first <= 1)
        BY <1>3, <1>4, <1>5, <1>6, <1>8
    <2>2. run_inflight(2, Artifact, clean, revoke, at, clock, critical) = first
        BY <1>1, <1>8
    <2>3. CASE critical
        <3>1. first \in Int /\ at \in Int /\ first <= at
            BY <2>1, <2>3
        <3>2. ~(first > at)
            BY <3>1
        <3> QED BY <2>2, <2>3, <3>2
    <2>4. CASE ~critical
        BY <2>1, <2>2, <2>4
    <2> QED BY <2>3, <2>4
<1> QED BY <1>7, <1>8

LEMMA RevocationStep ==
    ASSUME RevocationInv, [RevocationNext]_feedVars
    PROVE  RevocationInv'
<1>0. FeedsOrdered /\ PinnedKnows /\ clock \in Int /\ Len(feeds) \in Nat /\ DOMAIN feeds = 1..Len(feeds)
    BY DEF RevocationInv, FeedsOrdered
<1>1. CASE UNCHANGED feedVars
    BY <1>1 DEF feedVars, RevocationInv, FeedsOrdered, PinnedKnows, RevokedStaysRefused, Latency
<1>2. ASSUME NEW a \in {"old", "new", "stranger"}, NEW b \in {"old", "new", "stranger"}, AskRotation(a, b)
      PROVE  RevocationInv'
    <2> DEFINE allow == verify_rotation(cross_sign_rotation(a, b), "old", "new") /\ <<a, b>> # <<"old", "new">>
    <2>1. ~allow
        BY DEF verify_rotation, cross_sign_rotation, ph_verify, ph_sign
    <2>2. Say("rotation", allow) /\ UNCHANGED <<clock, feeds, last_seq, knew>>
        BY <1>2 DEF AskRotation
    <2> HIDE DEF allow
    <2> QED BY <1>0, <2>1, <2>2, AnswerKeeps DEF Justified, PinnedKnows
<1>3. ASSUME NEW lists \in SUBSET {Artifact}, NEW ttl \in {0, 3}, Publish(lists, ttl) PROVE RevocationInv'
    <2> DEFINE before == IF feeds = << >> THEN {} ELSE feeds[Len(feeds)].payload.revoked
               f == sign_feed(Len(feeds) + 1, before \cup lists, clock, ttl, Root)
    <2>0. \A i \in 1..Len(feeds) : feeds[i] \in Feed
        BY <1>0 DEF FeedsOrdered
    <2>1. feeds = << >> \/ Len(feeds) \in 1..Len(feeds)
        BY <1>0 DEF FeedsOrdered
    <2>2. before \in SUBSET {Artifact} /\ \A i \in 1..Len(feeds) : feeds[i].payload.revoked \subseteq before
        <3>1. CASE feeds = << >>
            BY <3>1
        <3>2. CASE Len(feeds) \in 1..Len(feeds)
            BY <1>0, <2>0, <3>2, FeedFields DEF FeedsOrdered
        <3> QED BY <2>1, <3>1, <3>2
    <2> HIDE DEF before
    <2>3. /\ f \in Feed /\ f.payload.seq = Len(feeds) + 1 /\ f.payload.issued = clock
          /\ f.payload.revoked = before \cup lists
        BY <1>0, <2>2, SignedFeed
    <2>4. feeds' = Append(feeds, f) /\ UNCHANGED <<clock, last_seq, knew, verdict>>
        BY <1>3 DEF Publish, before
    <2> HIDE DEF f
    <2>5. /\ feeds' \in Seq(Feed) /\ Len(feeds') = Len(feeds) + 1 /\ feeds'[Len(feeds) + 1] = f
          /\ \A i \in 1..Len(feeds) : feeds'[i] = feeds[i]
          /\ DOMAIN feeds' = 1..Len(feeds')
        BY <1>0, <2>3, <2>4 DEF FeedsOrdered
    <2>6. \A i \in 1..Len(feeds') : i \in 1..Len(feeds) \/ i = Len(feeds) + 1
        BY <1>0, <2>5
    <2>7. FeedsOrdered'
        <3>1. ASSUME NEW i \in 1..Len(feeds') PROVE feeds'[i].payload.seq = i /\ feeds'[i].payload.issued <= clock
            BY <1>0, <2>3, <2>5, <2>6 DEF FeedsOrdered
        <3>2. ASSUME NEW i \in 1..Len(feeds'), NEW j \in 1..Len(feeds'), i <= j
              PROVE  /\ feeds'[i].payload.issued <= feeds'[j].payload.issued
                     /\ feeds'[i].payload.revoked \subseteq feeds'[j].payload.revoked
            <4>1. CASE j = Len(feeds) + 1
                BY <2>2, <2>3, <2>5, <2>6, <3>1, <4>1
            <4>2. CASE j \in 1..Len(feeds)
                BY <1>0, <2>5, <3>2, <4>2 DEF FeedsOrdered
            <4> QED BY <2>6, <4>1, <4>2
        <3> QED BY <1>0, <2>4, <2>5, <3>1, <3>2 DEF FeedsOrdered
    <2>8. PinnedKnows'
        BY <1>0, <2>4, <2>5 DEF PinnedKnows
    <2>9. RevokedStaysRefused'
        <3> SUFFICES ASSUME verdict.allow, NEW i \in 1..Len(feeds'), Artifact \in feeds'[i].payload.revoked
                     PROVE  verdict.time <= feeds'[i].payload.issued + Latency(verdict.gate)
            BY <2>4, <2>5 DEF RevokedStaysRefused, RevocationInv, Latency
        <3>1. CASE i \in 1..Len(feeds)
            BY <1>0, <2>5, <3>1 DEF RevokedStaysRefused, RevocationInv
        <3>2. CASE i = Len(feeds) + 1
            BY <1>0, <2>3, <2>5, <3>2 DEF RevocationInv, Latency, MaxAge, Grace1, Grace2
        <3> QED BY <2>6, <3>1, <3>2
    <2> QED BY <2>4, <2>7, <2>8, <2>9 DEF RevocationInv
<1>4. CASE TickClock
    <2>1. clock' = clock + 1 /\ UNCHANGED <<feeds, last_seq, knew, verdict>>
        BY <1>4 DEF TickClock
    <2>2. \A i \in 1..Len(feeds) : feeds[i].payload.issued \in Int
        BY <1>0, FeedFields DEF FeedsOrdered
    <2> QED BY <1>0, <2>1, <2>2 DEF RevocationInv, FeedsOrdered, PinnedKnows, RevokedStaysRefused, Latency
<1>5. ASSUME NEW f \in Delivered, NEW g \in Delivered, NEW at \in {0, 1}, NEW critical \in BOOLEAN,
             AskInflight(f, g, at, critical)
      PROVE  RevocationInv'
    <2> DEFINE allow == /\ run_inflight(2, Artifact, f, g, at, clock, critical) > (IF critical THEN at ELSE at + 1)
                        /\ Artifact \in g.payload.revoked
    <2>1. ~allow
        BY StopsInTime
    <2>2. Say("inflight", allow) /\ UNCHANGED <<clock, feeds, last_seq, knew>>
        BY <1>5 DEF AskInflight
    <2> HIDE DEF allow
    <2> QED BY <1>0, <2>1, <2>2, AnswerKeeps DEF Justified, PinnedKnows
<1> QED BY <1>1, <1>2, <1>3, <1>4, <1>5, AskPinnedKeeps, AskTiersKeeps, AskGrantKeeps DEF RevocationNext

LEMMA RevocationStart == RevocationInit => RevocationInv
<1> SUFFICES ASSUME RevocationInit PROVE RevocationInv
    OBVIOUS
<1>1. feeds = << >> /\ << >> \in Seq(Feed) /\ Len(feeds) = 0
    BY DEF RevocationInit
<1> QED BY <1>1 DEF RevocationInit, RevocationInv, FeedsOrdered, PinnedKnows, RevokedStaysRefused

(* revocation, feed_tiers, keyrotation, revoke_inflight: whatever feeds    *)
(* the network delivers, and in whatever order, a consumer that has        *)
(* accepted the revocation of an artifact never allows it again, and every *)
(* other gate stops allowing it when the last feed without it has aged     *)
(* out.                                                                    *)
THEOREM RevocationHolds == RevocationSpec => []RevokedStaysRefused
<1>1. RevocationInv => RevokedStaysRefused
    BY DEF RevocationInv
<1> QED BY <1>1, RevocationStart, RevocationStep, PTL DEF RevocationSpec

-----------------------------------------------------------------------------
(* The sealed values of a step.                                            *)
ValueSpec == ValueInit /\ [][ValueNext]_valueVars

ValueKey == <<"run", 1>>
Attempt == [values : Values \cup {NoValues}, ran : BOOLEAN]
Job == [op : {"values"}, blob : Blob] \cup [op : {"record"}, sha : Commitment]
Hand == [pc : {"idle", "seal", "append", "persist", "mirror"}, sha : Commitment \cup {None}]

ValueTypeOK ==
    /\ hand \in Hand /\ attempts \in Seq(Attempt) /\ jobs \in Seq(Job) /\ events \in Seq(Commitment)
    /\ mem \in Commitment \cup {None} /\ disk \in Commitment \cup {None}
    /\ keyfile \in Nat /\ hole \in BOOLEAN
    /\ sealed = [origin |-> sealed.origin, rows |-> sealed.rows, decisions |-> sealed.decisions,
                 values |-> sealed.values, leases |-> sealed.leases, budget |-> sealed.budget]
    /\ sealed.values = [k \in DOMAIN sealed.values |-> sealed.values[k]]
    /\ DOMAIN sealed.values \subseteq {ValueKey}

(* A blob that seals what an attempt ran with, given the attempts at.      *)
Genuine(b, at) ==
    /\ b \in Blob /\ b.ct = b.sha
    /\ \E n \in 1..Len(at) : at[n].ran /\ b.sha = <<n, at[n].values>>

(* The commitment s is in the table v, or in the queue q ahead of place i. *)
Stored(s, v) == ValueKey \in DOMAIN v /\ v[ValueKey].sha = s
Ahead(s, i, q) == \E k \in 1..Len(q) : k < i /\ q[k].op = "values" /\ q[k].blob.sha = s
Coming(s, i, q, v) == Stored(s, v) \/ (ValueKey \notin DOMAIN v /\ Ahead(s, i, q))

EventsFollow(q, v) == \A i \in 1..Len(q) : q[i].op = "record" /\ q[i].sha # NoSha => Coming(q[i].sha, i, q, v)
OneSealed(q, v) ==
    \A i \in 1..Len(q) : q[i].op = "values" =>
      ValueKey \notin DOMAIN v /\ \A k \in 1..Len(q) : q[k].op = "values" => k = i
ChainFollows(ev, v) == \A i \in 1..Len(ev) : ev[i] # NoSha => Stored(ev[i], v)
HandFollows(h, m, q, v) ==
    /\ h.pc = "seal" \/ (h.pc = "idle" /\ m = None) => q = << >> /\ ValueKey \notin DOMAIN v
    /\ h.pc \in {"append", "persist", "mirror"} /\ h.sha # None => Coming(h.sha, Len(q) + 1, q, v)
    /\ h.pc \in {"persist", "mirror"} => m # None

(* With no job lost and no crash, the values of the one attempt that ran   *)
(* are always ahead of the event that commits to them.                     *)
Orderly(h, m, q, v, ev) == EventsFollow(q, v) /\ OneSealed(q, v) /\ ChainFollows(ev, v) /\ HandFollows(h, m, q, v)

AllGenuine(q, v, at) ==
    /\ ValueKey \in DOMAIN v => Genuine(v[ValueKey], at)
    /\ \A i \in 1..Len(q) : q[i].op = "values" => Genuine(q[i].blob, at)

ValueInv ==
    /\ ValueTypeOK
    /\ AllGenuine(jobs, sealed.values, attempts)
    /\ hand.pc = "seal" => Len(attempts) \in 1..Len(attempts) /\ attempts[Len(attempts)].ran
    /\ ~hole => Orderly(hand, mem, jobs, sealed.values, events)

LEMMA NoShaFacts == NoSha \in Commitment /\ NoSha # None
BY ValueAssumption DEF NoSha, Commitment

LEMMA JobFields ==
    ASSUME NEW j \in Job
    PROVE  /\ j.op \in {"values", "record"}
           /\ j.op = "values" => j.blob \in Blob
           /\ j.op = "record" => j.sha \in Commitment
<1>1. CASE j \in [op : {"values"}, blob : Blob]
    BY <1>1
<1>2. CASE j \in [op : {"record"}, sha : Commitment]
    BY <1>2
<1> QED BY <1>1, <1>2 DEF Job

LEMMA ComingStays ==
    ASSUME NEW q \in Seq(Job), NEW j \in Job, NEW s, NEW i, NEW v, Coming(s, i, q, v)
    PROVE  Coming(s, i, Append(q, j), v)
<1>1. /\ Len(Append(q, j)) = Len(q) + 1 /\ Len(q) \in Nat
      /\ \A k \in 1..Len(q) : Append(q, j)[k] = q[k] /\ k \in 1..(Len(q) + 1)
    OBVIOUS
<1>2. Ahead(s, i, q) => Ahead(s, i, Append(q, j))
    BY <1>1 DEF Ahead
<1> QED BY <1>2 DEF Coming

(* A genuine blob opens to the values it commits to.                       *)
LEMMA GenuineOpens ==
    ASSUME NEW b, NEW at, Genuine(b, at), NEW k
    PROVE  decrypt(b, k) = IF k \in b.wraps THEN b.sha[2] ELSE None
<1>1. b.sha \in Commitment /\ b.ct = b.sha
    BY DEF Genuine, Blob
<1>2. b.sha = <<b.sha[1], b.sha[2]>>
    BY <1>1 DEF Commitment
<1> QED BY <1>1, <1>2 DEF decrypt, commit

LEMMA GenuineStays ==
    ASSUME NEW b, NEW at \in Seq(Attempt), Genuine(b, at), NEW a \in Attempt
    PROVE  Genuine(b, Append(at, a))
<1>1. PICK n \in 1..Len(at) : at[n].ran /\ b.sha = <<n, at[n].values>>
    BY DEF Genuine
<1>2. n \in 1..Len(Append(at, a)) /\ Append(at, a)[n] = at[n]
    OBVIOUS
<1> QED BY <1>1, <1>2 DEF Genuine

LEMMA GenuineRewrapped ==
    ASSUME NEW b, NEW at, Genuine(b, at), NEW k, NEW extra \in SUBSET Nat
    PROVE  Genuine(rewrap(b, k, extra), at) /\ rewrap(b, k, extra).sha = b.sha
<1> DEFINE c == [b EXCEPT !.wraps = @ \cup extra]
<1>1. b \in Blob
    BY DEF Genuine
<1>2. c \in Blob /\ c.sha = b.sha /\ c.ct = b.ct
    BY <1>1 DEF Blob
<1> HIDE DEF c
<1>3. rewrap(b, k, extra) = b \/ rewrap(b, k, extra) = c
    BY DEF rewrap, c
<1> QED BY <1>2, <1>3 DEF Genuine

LEMMA ValueTyped ==
    ASSUME ValueInv
    PROVE  /\ jobs \in Seq(Job) /\ Len(jobs) \in Nat /\ attempts \in Seq(Attempt) /\ Len(attempts) \in Nat
           /\ events \in Seq(Commitment) /\ Len(events) \in Nat
           /\ hand \in Hand /\ hand.pc \in {"idle", "seal", "append", "persist", "mirror"}
           /\ hand.sha \in Commitment \cup {None}
           /\ Committed \in Commitment /\ Committed # None
BY NoShaFacts DEF ValueInv, ValueTypeOK, Hand, Committed

LEMMA ExecuteKeeps ==
    ASSUME ValueInv, NEW values \in Values \cup {NoValues}, NEW outcome \in {"refused", "ok"}, Execute(values, outcome)
    PROVE  ValueInv'
<1> DEFINE a == [values |-> values, ran |-> outcome # "refused"]
<1>1. /\ hand.pc = "idle" /\ mem = None /\ attempts' = Append(attempts, a)
      /\ UNCHANGED <<mem, disk, jobs, sealed, events, keyfile, restarts, hole>>
      /\ hand' = IF outcome = "refused" THEN Idle ELSE [pc |-> IF values = NoValues THEN "append" ELSE "seal", sha |-> None]
    BY DEF Execute
<1>2. a \in Attempt /\ (outcome # "refused" => a.ran)
    BY DEF Attempt
<1> HIDE DEF a
<1>3. /\ attempts' \in Seq(Attempt) /\ Len(attempts') = Len(attempts) + 1 /\ attempts'[Len(attempts')] = a
      /\ Len(attempts') \in 1..Len(attempts')
    BY <1>1, <1>2, ValueTyped
<1>4. /\ hand' \in Hand /\ hand'.pc \in {"idle", "seal", "append"} /\ hand'.sha = None
      /\ hand'.pc = "seal" => outcome # "refused"
    BY <1>1 DEF Hand, Idle
<1>5. ValueTypeOK'
    BY <1>1, <1>3, <1>4 DEF ValueInv, ValueTypeOK
<1>6. AllGenuine(jobs', sealed'.values, attempts')
    BY <1>1, <1>2, ValueTyped, GenuineStays DEF ValueInv, AllGenuine
<1>7. ~hole => Orderly(hand', mem', jobs', sealed'.values, events')
    BY <1>1, <1>4 DEF ValueInv, Orderly, HandFollows
<1> QED BY <1>1, <1>2, <1>3, <1>4, <1>5, <1>6, <1>7 DEF ValueInv

(* Only the handler's place and the copy in memory or on disk change.      *)
LEMMA HandKeeps ==
    ASSUME ValueInv, UNCHANGED <<attempts, jobs, sealed, events, keyfile, hole>>,
           hand' \in Hand, hand'.pc # "seal", mem' \in Commitment \cup {None}, disk' \in Commitment \cup {None},
           ~hole => HandFollows(hand', mem', jobs, sealed.values)
    PROVE  ValueInv'
<1>1. ValueTypeOK'
    BY DEF ValueInv, ValueTypeOK
<1>2. AllGenuine(jobs', sealed'.values, attempts') /\ (~hole => Orderly(hand', mem', jobs', sealed'.values, events'))
    BY DEF ValueInv, Orderly
<1> QED BY <1>1, <1>2 DEF ValueInv

LEMMA AppendKeeps ==
    ASSUME ValueInv, AppendMemory \/ AppendEvicted \/ \E works \in BOOLEAN : PersistEvent(works)
    PROVE  ValueInv'
<1>0. ~hole => HandFollows(hand, mem, jobs, sealed.values)
    BY DEF ValueInv, Orderly
<1>1. CASE AppendMemory
    <2>1. /\ UNCHANGED <<attempts, disk, jobs, sealed, events, keyfile, hole>>
          /\ hand.pc = "append" /\ mem' = Committed /\ hand' = [hand EXCEPT !.pc = "persist"]
        BY <1>1 DEF AppendMemory
    <2>2. hand' \in Hand /\ hand'.pc = "persist" /\ hand'.sha = hand.sha
        BY <2>1, ValueTyped DEF Hand
    <2> QED BY <1>0, <2>1, <2>2, ValueTyped, HandKeeps DEF HandFollows, ValueInv, ValueTypeOK
<1>2. CASE AppendEvicted
    <2>1. /\ UNCHANGED <<attempts, disk, jobs, sealed, events, keyfile, hole>>
          /\ mem' = NoSha /\ hand' = Idle
        BY <1>2 DEF AppendEvicted
    <2>2. hand' \in Hand /\ hand'.pc = "idle"
        BY <2>1 DEF Hand, Idle
    <2> QED BY <1>0, <2>1, <2>2, NoShaFacts, HandKeeps DEF HandFollows, ValueInv, ValueTypeOK
<1>3. ASSUME NEW works \in BOOLEAN, PersistEvent(works) PROVE ValueInv'
    <2>1. /\ UNCHANGED <<attempts, mem, jobs, sealed, events, keyfile, hole>>
          /\ hand.pc = "persist" /\ disk' \in {mem, disk} /\ hand' \in {[hand EXCEPT !.pc = "mirror"], Idle}
        BY <1>3 DEF PersistEvent
    <2>2. hand' \in Hand /\ ((hand'.pc = "mirror" /\ hand'.sha = hand.sha) \/ hand'.pc = "idle")
        BY <2>1, ValueTyped DEF Hand, Idle
    <2>3. ~hole => HandFollows(hand', mem', jobs, sealed.values)
        BY <1>0, <2>1, <2>2 DEF HandFollows
    <2> QED BY <2>1, <2>2, <2>3, HandKeeps DEF ValueInv, ValueTypeOK
<1> QED BY <1>1, <1>2, <1>3

(* What a queue with one more job holds.                                   *)
LEMMA QueueGrows ==
    ASSUME NEW q \in Seq(Job), NEW j \in Job, NEW v
    PROVE  /\ Append(q, j) \in Seq(Job) /\ Len(Append(q, j)) = Len(q) + 1 /\ Len(q) \in Nat
           /\ Append(q, j)[Len(q) + 1] = j
           /\ \A k \in 1..Len(q) : Append(q, j)[k] = q[k]
           /\ \A k \in 1..Len(Append(q, j)) : k \in 1..Len(q) \/ k = Len(q) + 1
OBVIOUS

LEMMA SealKeeps ==
    ASSUME ValueInv, SealValues
    PROVE  ValueInv'
<1> DEFINE n == Len(attempts)
           blob == encrypt(attempts[n].values, n, {keyfile})
           j == [op |-> "values", blob |-> blob]
<1>0. /\ hand.pc = "seal" /\ n \in 1..Len(attempts) /\ attempts[n].ran /\ attempts[n] \in Attempt
      /\ keyfile \in Nat /\ jobs \in Seq(Job)
    BY ValueTyped DEF SealValues, ValueInv, ValueTypeOK
<1>1. /\ EnqueueValue(j) /\ UNCHANGED <<attempts, mem, disk, sealed, events, keyfile, restarts>>
      /\ hand' = [pc |-> "append", sha |-> blob.sha]
    BY <1>0 DEF SealValues
<1>2. blob \in Blob /\ blob.ct = blob.sha /\ blob.sha = <<n, attempts[n].values>>
    BY <1>0 DEF encrypt, commit, Blob, Commitment, Attempt
<1>3. Genuine(blob, attempts)
    BY <1>0, <1>2 DEF Genuine
<1>4. hand' \in Hand /\ hand'.pc = "append" /\ hand'.sha = blob.sha
    BY <1>1, <1>2 DEF Hand, Blob
<1> HIDE DEF blob
<1>5. j \in Job /\ j.op = "values" /\ j.blob = blob
    BY <1>2 DEF Job
<1> HIDE DEF j
<1>6. CASE UNCHANGED jobs /\ hole' = TRUE
    <2>1. ValueTypeOK'
        BY <1>1, <1>4, <1>6 DEF ValueInv, ValueTypeOK
    <2> QED BY <1>1, <1>4, <1>6, <2>1 DEF ValueInv
<1>7. CASE jobs' = Append(jobs, j) /\ UNCHANGED hole
    <2> DEFINE q == Append(jobs, j)
               v == sealed.values
    <2>0. /\ q \in Seq(Job) /\ Len(q) = Len(jobs) + 1 /\ Len(jobs) \in Nat /\ q[Len(jobs) + 1] = j
          /\ \A k \in 1..Len(jobs) : q[k] = jobs[k]
          /\ \A k \in 1..Len(q) : k \in 1..Len(jobs) \/ k = Len(jobs) + 1
        BY <1>0, <1>5, QueueGrows
    <2> HIDE DEF q
    <2>1. ValueTypeOK'
        BY <1>1, <1>4, <1>7, <2>0 DEF ValueInv, ValueTypeOK, q
    <2>2. AllGenuine(q, v, attempts)
        BY <1>3, <1>5, <2>0 DEF ValueInv, AllGenuine
    <2>3. ASSUME ~hole PROVE Orderly(hand', mem, q, v, events)
        <3>1. Orderly(hand, mem, jobs, v, events) /\ jobs = << >> /\ ValueKey \notin DOMAIN v
            BY <1>0, <2>3 DEF ValueInv, Orderly, HandFollows
        <3>2. Len(jobs) = 0 /\ Len(q) = 1 /\ q[1] = j /\ \A k \in 1..Len(q) : k = 1
            BY <2>0, <3>1
        <3>3. EventsFollow(q, v) /\ OneSealed(q, v)
            BY <1>5, <3>1, <3>2 DEF EventsFollow, OneSealed
        <3>4. Ahead(blob.sha, Len(q) + 1, q)
            BY <1>5, <3>2 DEF Ahead
        <3> QED BY <1>4, <3>1, <3>3, <3>4 DEF Orderly, HandFollows, Coming
    <2>4. jobs' = q
        BY <1>7 DEF q
    <2> QED BY <1>1, <1>4, <1>7, <2>1, <2>2, <2>3, <2>4 DEF ValueInv
<1> QED BY <1>1, <1>6, <1>7 DEF EnqueueValue

LEMMA MirrorKeeps ==
    ASSUME ValueInv, MirrorEvent
    PROVE  ValueInv'
<1> DEFINE j == [op |-> "record", sha |-> Committed]
<1>0. hand.pc = "mirror" /\ jobs \in Seq(Job) /\ Committed \in Commitment
    BY ValueTyped DEF MirrorEvent
<1>1. EnqueueValue(j) /\ hand' = Idle /\ UNCHANGED <<attempts, mem, disk, sealed, events, keyfile, restarts>>
    BY DEF MirrorEvent
<1>2. j \in Job /\ j.op = "record" /\ j.sha = Committed
    BY <1>0 DEF Job
<1>3. hand' \in Hand /\ hand'.pc = "idle"
    BY <1>1 DEF Hand, Idle
<1> HIDE DEF j
<1>4. CASE UNCHANGED jobs /\ hole' = TRUE
    <2>1. ValueTypeOK'
        BY <1>1, <1>3, <1>4 DEF ValueInv, ValueTypeOK
    <2> QED BY <1>1, <1>3, <1>4, <2>1 DEF ValueInv
<1>5. CASE jobs' = Append(jobs, j) /\ UNCHANGED hole
    <2> DEFINE q == Append(jobs, j)
               v == sealed.values
    <2>0. /\ q \in Seq(Job) /\ Len(q) = Len(jobs) + 1 /\ Len(jobs) \in Nat /\ q[Len(jobs) + 1] = j
          /\ \A k \in 1..Len(jobs) : q[k] = jobs[k]
          /\ \A k \in 1..Len(q) : k \in 1..Len(jobs) \/ k = Len(jobs) + 1
        BY <1>0, <1>2, QueueGrows
    <2>1. \A s, i : Coming(s, i, jobs, v) => Coming(s, i, q, v)
        BY <1>0, <1>2, ComingStays
    <2> HIDE DEF q
    <2>2. ValueTypeOK'
        BY <1>1, <1>3, <1>5, <2>0 DEF ValueInv, ValueTypeOK, q
    <2>3. AllGenuine(q, v, attempts)
        BY <1>2, <2>0 DEF ValueInv, AllGenuine
    <2>4. ASSUME ~hole PROVE Orderly(hand', mem, q, v, events)
        <3>1. Orderly(hand, mem, jobs, v, events)
            BY <2>4 DEF ValueInv
        <3>2. Committed # NoSha => Coming(Committed, Len(jobs) + 1, q, v)
            BY <1>0, <2>1, <3>1 DEF Orderly, HandFollows, Committed
        <3>3. EventsFollow(q, v)
            <4> SUFFICES ASSUME NEW i \in 1..Len(q), q[i].op = "record", q[i].sha # NoSha
                         PROVE  Coming(q[i].sha, i, q, v)
                BY DEF EventsFollow
            <4>1. CASE i = Len(jobs) + 1
                BY <1>2, <2>0, <3>2, <4>1
            <4>2. CASE i \in 1..Len(jobs)
                BY <2>0, <2>1, <3>1, <4>2 DEF Orderly, EventsFollow
            <4> QED BY <2>0, <4>1, <4>2
        <3>4. OneSealed(q, v)
            BY <1>2, <2>0, <3>1 DEF Orderly, OneSealed
        <3>5. mem # None
            BY <1>0, <3>1 DEF Orderly, HandFollows
        <3> QED BY <1>3, <3>1, <3>3, <3>4, <3>5 DEF Orderly, HandFollows
    <2>5. jobs' = q
        BY <1>5 DEF q
    <2> QED BY <1>1, <1>3, <1>5, <2>2, <2>3, <2>4, <2>5 DEF ValueInv
<1> QED BY <1>1, <1>4, <1>5 DEF EnqueueValue

(* What a queue is without its first job.                                  *)
LEMMA QueueShrinks ==
    ASSUME NEW q \in Seq(Job), q # << >>
    PROVE  /\ Tail(q) \in Seq(Job) /\ Len(q) \in Nat /\ 1 \in 1..Len(q) /\ Head(q) = q[1] /\ Len(Tail(q)) = Len(q) - 1
           /\ \A k \in 1..Len(Tail(q)) : Tail(q)[k] = q[k + 1] /\ k + 1 \in 1..Len(q)
           /\ \A k \in 1..Len(q) : k = 1 \/ (k - 1 \in 1..Len(Tail(q)) /\ Tail(q)[k - 1] = q[k])
<1>1. Len(q) \in Nat /\ Len(q) # 0 /\ Len(Tail(q)) = Len(q) - 1 /\ Head(q) = q[1] /\ Tail(q) \in Seq(Job)
    OBVIOUS
<1>2. \A k \in 1..(Len(q) - 1) : Tail(q)[k] = q[k + 1]
    OBVIOUS
<1>3. ASSUME NEW k \in 1..Len(q), k # 1 PROVE k - 1 \in 1..Len(Tail(q)) /\ Tail(q)[k - 1] = q[k]
    <2>1. k - 1 \in 1..(Len(q) - 1) /\ (k - 1) + 1 = k
        BY <1>1, <1>3
    <2> QED BY <1>1, <1>2, <2>1
<1> QED BY <1>1, <1>2, <1>3

LEMMA DrainEventKeeps ==
    ASSUME ValueInv, DrainEvent
    PROVE  ValueInv'
<1> DEFINE q == Tail(jobs)
           v == sealed.values
<1>0. /\ q \in Seq(Job) /\ Len(jobs) \in Nat /\ 1 \in 1..Len(jobs) /\ Len(q) = Len(jobs) - 1 /\ jobs[1].op = "record"
      /\ \A k \in 1..Len(q) : q[k] = jobs[k + 1] /\ k + 1 \in 1..Len(jobs)
      /\ \A k \in 1..Len(jobs) : k = 1 \/ (k - 1 \in 1..Len(q) /\ q[k - 1] = jobs[k])
      /\ Head(jobs) = jobs[1] /\ jobs[1] \in Job
    BY QueueShrinks, ValueTyped DEF DrainEvent
<1>1. events' = Append(events, jobs[1].sha) /\ jobs' = q
      /\ UNCHANGED <<hand, attempts, mem, disk, sealed, keyfile, restarts, hole>>
    BY <1>0 DEF DrainEvent
<1>2. /\ events' \in Seq(Commitment) /\ Len(events') = Len(events) + 1 /\ Len(events) \in Nat
      /\ events'[Len(events) + 1] = jobs[1].sha
      /\ \A k \in 1..Len(events) : events'[k] = events[k]
      /\ \A k \in 1..Len(events') : k \in 1..Len(events) \/ k = Len(events) + 1
    <2>1. jobs[1].sha \in Commitment
        BY <1>0, JobFields
    <2> QED BY <1>1, <2>1, ValueTyped
<1> HIDE DEF q
<1>3. ValueTypeOK'
    BY <1>0, <1>1, <1>2 DEF ValueInv, ValueTypeOK
<1>4. AllGenuine(q, v, attempts)
    BY <1>0 DEF ValueInv, AllGenuine
<1>5. ASSUME NEW s, NEW i \in Int, Coming(s, i, jobs, v) PROVE Coming(s, i - 1, q, v)
    <2>1. CASE Stored(s, v)
        BY <2>1 DEF Coming
    <2>2. CASE ValueKey \notin DOMAIN v /\ Ahead(s, i, jobs)
        <3>1. PICK k \in 1..Len(jobs) : k < i /\ jobs[k].op = "values" /\ jobs[k].blob.sha = s
            BY <2>2 DEF Ahead
        <3>2. k - 1 \in 1..Len(q) /\ q[k - 1] = jobs[k] /\ k - 1 < i - 1
            BY <1>0, <1>5, <3>1
        <3>3. Ahead(s, i - 1, q)
            BY <3>1, <3>2 DEF Ahead
        <3> QED BY <2>2, <3>3 DEF Coming
    <2> QED BY <1>5, <2>1, <2>2 DEF Coming
<1>6. ASSUME ~hole PROVE Orderly(hand, mem, q, v, events')
    <2>1. Orderly(hand, mem, jobs, v, events)
        BY <1>6 DEF ValueInv
    <2>2. EventsFollow(q, v)
        <3> SUFFICES ASSUME NEW i \in 1..Len(q), q[i].op = "record", q[i].sha # NoSha PROVE Coming(q[i].sha, i, q, v)
            BY DEF EventsFollow
        <3>1. Coming(q[i].sha, i + 1, jobs, v)
            BY <1>0, <2>1 DEF Orderly, EventsFollow
        <3>2. Coming(q[i].sha, (i + 1) - 1, q, v) /\ (i + 1) - 1 = i
            BY <1>5, <3>1
        <3> QED BY <3>2
    <2>3. OneSealed(q, v)
        <3> SUFFICES ASSUME NEW i \in 1..Len(q), q[i].op = "values"
                     PROVE  ValueKey \notin DOMAIN v /\ \A k \in 1..Len(q) : q[k].op = "values" => k = i
            BY DEF OneSealed
        <3>1. ASSUME NEW k \in 1..Len(q), q[k].op = "values" PROVE k + 1 = i + 1
            BY <1>0, <2>1, <3>1 DEF Orderly, OneSealed
        <3> QED BY <1>0, <2>1, <3>1 DEF Orderly, OneSealed
    <2>4. ChainFollows(events', v)
        <3>1. jobs[1].sha # NoSha => Stored(jobs[1].sha, v)
            BY <1>0, <2>1 DEF Orderly, EventsFollow, Coming, Ahead
        <3> QED BY <1>2, <2>1, <3>1 DEF Orderly, ChainFollows
    <2>5. HandFollows(hand, mem, q, v)
        <3>1. ~(hand.pc = "seal" \/ (hand.pc = "idle" /\ mem = None))
            BY <1>0, <2>1 DEF Orderly, HandFollows
        <3>2. Coming(hand.sha, Len(jobs) + 1, jobs, v) => Coming(hand.sha, Len(q) + 1, q, v)
            <4>1. (Len(jobs) + 1) - 1 = Len(q) + 1 /\ Len(jobs) + 1 \in Int
                BY <1>0
            <4> QED BY <1>5, <4>1
        <3> QED BY <2>1, <3>1, <3>2 DEF Orderly, HandFollows
    <2> QED BY <2>2, <2>3, <2>4, <2>5 DEF Orderly
<1> QED BY <1>1, <1>3, <1>4, <1>6 DEF ValueInv

LEMMA DrainValueKeeps ==
    ASSUME ValueInv, DrainValue
    PROVE  ValueInv'
<1> DEFINE q == Tail(jobs)
           v == sealed.values
           b == jobs[1].blob
           u == InsertNew(v, ValueKey, b)
<1>0. /\ q \in Seq(Job) /\ Len(jobs) \in Nat /\ 1 \in 1..Len(jobs) /\ Len(q) = Len(jobs) - 1 /\ jobs[1].op = "values"
      /\ \A k \in 1..Len(q) : q[k] = jobs[k + 1] /\ k + 1 \in 1..Len(jobs)
      /\ \A k \in 1..Len(jobs) : k = 1 \/ (k - 1 \in 1..Len(q) /\ q[k - 1] = jobs[k])
      /\ Head(jobs) = jobs[1] /\ jobs[1] \in Job
    BY QueueShrinks, ValueTyped DEF DrainValue
<1>1. /\ sealed' = [sealed EXCEPT !.values = u] /\ jobs' = q
      /\ UNCHANGED <<hand, attempts, mem, disk, events, keyfile, restarts, hole>>
    BY <1>0 DEF DrainValue, record_values, Ans, Str, ValueKey
<1>2. /\ u = [k \in DOMAIN u |-> u[k]] /\ DOMAIN u = {ValueKey}
      /\ ValueKey \in DOMAIN v => u[ValueKey] = v[ValueKey]
      /\ ValueKey \notin DOMAIN v => u[ValueKey] = b
    <2>1. v = [k \in DOMAIN v |-> v[k]] /\ DOMAIN v \subseteq {ValueKey}
        BY DEF ValueInv, ValueTypeOK
    <2> HIDE DEF v, b
    <2>2. /\ u = [k \in DOMAIN u |-> u[k]] /\ DOMAIN u = DOMAIN v \cup {ValueKey}
          /\ \A k \in DOMAIN v : u[k] = v[k]
          /\ ValueKey \notin DOMAIN v => u[ValueKey] = b
        BY <2>1 DEF InsertNew, Upsert
    <2> HIDE DEF u
    <2> QED BY <2>1, <2>2
<1>3. Genuine(b, attempts)
    BY <1>0 DEF ValueInv, AllGenuine
<1> HIDE DEF q, u
<1>4. /\ sealed' = [origin |-> sealed'.origin, rows |-> sealed'.rows, decisions |-> sealed'.decisions,
                    values |-> sealed'.values, leases |-> sealed'.leases, budget |-> sealed'.budget]
      /\ sealed'.values = u
    BY <1>1 DEF ValueInv, ValueTypeOK
<1>5. ValueTypeOK'
    BY <1>0, <1>1, <1>2, <1>4 DEF ValueInv, ValueTypeOK
<1>6. AllGenuine(q, u, attempts)
    BY <1>0, <1>2, <1>3 DEF ValueInv, AllGenuine
<1>7. ASSUME ~hole PROVE Orderly(hand, mem, q, u, events)
    <2>1. Orderly(hand, mem, jobs, v, events)
        BY <1>7 DEF ValueInv
    <2>2. ValueKey \notin DOMAIN v /\ \A k \in 1..Len(jobs) : jobs[k].op = "values" => k = 1
        BY <1>0, <2>1 DEF Orderly, OneSealed
    <2>3. ASSUME NEW s, NEW i, NEW k, Coming(s, i, jobs, v) PROVE Coming(s, k, q, u)
        BY <1>2, <2>2, <2>3 DEF Coming, Stored, Ahead
    <2>4. \A k \in 1..Len(q) : q[k].op # "values"
        <3> SUFFICES ASSUME NEW k \in 1..Len(q), q[k].op = "values" PROVE FALSE
            OBVIOUS
        <3>1. k + 1 = 1
            BY <1>0, <2>2
        <3> QED BY <3>1
    <2>5. EventsFollow(q, u)
        BY <1>0, <2>1, <2>3 DEF Orderly, EventsFollow
    <2>6. OneSealed(q, u) /\ ChainFollows(events, u)
        BY <2>1, <2>2, <2>4 DEF Orderly, OneSealed, ChainFollows, Stored
    <2>7. HandFollows(hand, mem, q, u)
        <3>1. ~(hand.pc = "seal" \/ (hand.pc = "idle" /\ mem = None))
            BY <1>0, <2>1 DEF Orderly, HandFollows
        <3> QED BY <2>1, <2>3, <3>1 DEF Orderly, HandFollows
    <2> QED BY <2>5, <2>6, <2>7 DEF Orderly
<1> QED BY <1>1, <1>4, <1>5, <1>6, <1>7 DEF ValueInv

LEMMA LossKeeps ==
    ASSUME ValueInv, DrainFails \/ \E b \in BOOLEAN : Restart(b)
    PROVE  ValueInv'
<1>1. CASE DrainFails
    <2>1. /\ Tail(jobs) \in Seq(Job) /\ \A k \in 1..Len(Tail(jobs)) : Tail(jobs)[k] = jobs[k + 1] /\ k + 1 \in 1..Len(jobs)
        BY <1>1, QueueShrinks, ValueTyped DEF DrainFails
    <2>2. jobs' = Tail(jobs) /\ hole' = TRUE /\ UNCHANGED <<hand, attempts, mem, disk, sealed, events, keyfile>>
        BY <1>1 DEF DrainFails
    <2>3. ValueTypeOK'
        BY <2>1, <2>2 DEF ValueInv, ValueTypeOK
    <2>4. AllGenuine(jobs', sealed'.values, attempts')
        BY <2>1, <2>2 DEF ValueInv, AllGenuine
    <2> QED BY <2>2, <2>3, <2>4 DEF ValueInv
<1>2. ASSUME NEW b \in BOOLEAN, Restart(b) PROVE ValueInv'
    <2>1. /\ hand' = Idle /\ mem' = disk /\ jobs' = << >> /\ keyfile' \in {keyfile, keyfile + 1} /\ hole' = TRUE
          /\ UNCHANGED <<attempts, disk, sealed, events>>
        BY <1>2 DEF Restart
    <2>2. hand' \in Hand /\ hand'.pc = "idle" /\ << >> \in Seq(Job) /\ Len(jobs') = 0
        BY <2>1 DEF Hand, Idle
    <2>3. ValueTypeOK'
        BY <2>1, <2>2 DEF ValueInv, ValueTypeOK
    <2>4. AllGenuine(jobs', sealed'.values, attempts')
        BY <2>1, <2>2 DEF ValueInv, AllGenuine
    <2> QED BY <2>1, <2>2, <2>3, <2>4 DEF ValueInv
<1> QED BY <1>1, <1>2

LEMMA RewrapKeeps ==
    ASSUME ValueInv, Rewrap
    PROVE  ValueInv'
<1> DEFINE v == sealed.values
           u == [k \in DOMAIN v |-> rewrap(v[k], keyfile, {0})]
<1>1. /\ sealed' = [sealed EXCEPT !.values = u]
      /\ UNCHANGED <<hand, attempts, mem, disk, jobs, events, keyfile, restarts, hole>>
    BY DEF Rewrap
<1>2. ValueKey \in DOMAIN v => Genuine(u[ValueKey], attempts) /\ u[ValueKey].sha = v[ValueKey].sha
    BY GenuineRewrapped DEF ValueInv, AllGenuine
<1>3. DOMAIN u = DOMAIN v /\ u = [k \in DOMAIN u |-> u[k]]
    OBVIOUS
<1> HIDE DEF u
<1>4. /\ sealed' = [origin |-> sealed'.origin, rows |-> sealed'.rows, decisions |-> sealed'.decisions,
                    values |-> sealed'.values, leases |-> sealed'.leases, budget |-> sealed'.budget]
      /\ sealed'.values = u
    BY <1>1 DEF ValueInv, ValueTypeOK
<1>5. ValueTypeOK'
    BY <1>1, <1>3, <1>4 DEF ValueInv, ValueTypeOK
<1>6. AllGenuine(jobs, u, attempts)
    BY <1>2, <1>3 DEF ValueInv, AllGenuine
<1>7. \A s : Stored(s, v) <=> Stored(s, u)
    BY <1>2, <1>3 DEF Stored
<1>8. \A s, i : Coming(s, i, jobs, v) <=> Coming(s, i, jobs, u)
    BY <1>3, <1>7 DEF Coming
<1>9. Orderly(hand, mem, jobs, v, events) => Orderly(hand, mem, jobs, u, events)
    BY <1>3, <1>7, <1>8 DEF Orderly, EventsFollow, OneSealed, ChainFollows, HandFollows
<1> QED BY <1>1, <1>4, <1>5, <1>6, <1>9 DEF ValueInv

LEMMA ValueStart == ValueInit => ValueInv
<1> SUFFICES ASSUME ValueInit PROVE ValueInv
    OBVIOUS
<1>1. /\ hand = Idle /\ attempts = << >> /\ mem = None /\ disk = None /\ jobs = << >> /\ sealed = EmptyTables
      /\ events = << >> /\ keyfile = 1 /\ hole = FALSE
    BY DEF ValueInit
<1>2. hand \in Hand /\ hand.pc = "idle" /\ hand.sha = None
    BY <1>1 DEF Hand, Idle
<1>3. sealed.values = << >> /\ DOMAIN << >> = {} /\ Len(jobs) = 0 /\ Len(events) = 0
    BY <1>1 DEF EmptyTables
<1>4. /\ sealed = [origin |-> sealed.origin, rows |-> sealed.rows, decisions |-> sealed.decisions,
                   values |-> sealed.values, leases |-> sealed.leases, budget |-> sealed.budget]
    BY <1>1 DEF EmptyTables
<1>5. sealed.values = [k \in DOMAIN sealed.values |-> sealed.values[k]]
    BY <1>3
<1>6. ValueTypeOK
    <2>1. attempts \in Seq(Attempt) /\ jobs \in Seq(Job) /\ events \in Seq(Commitment)
        BY <1>1
    <2>2. DOMAIN sealed.values \subseteq {ValueKey}
        BY <1>3
    <2> QED BY <1>1, <1>2, <1>4, <1>5, <2>1, <2>2 DEF ValueTypeOK
<1>7. AllGenuine(jobs, sealed.values, attempts) /\ Orderly(hand, mem, jobs, sealed.values, events)
    BY <1>1, <1>2, <1>3 DEF AllGenuine, Orderly, EventsFollow, OneSealed, ChainFollows, HandFollows
<1> QED BY <1>2, <1>6, <1>7 DEF ValueInv

LEMMA ValueStep ==
    ASSUME ValueInv, [ValueNext]_valueVars
    PROVE  ValueInv'
<1>1. CASE UNCHANGED valueVars
    BY <1>1 DEF valueVars, ValueInv, ValueTypeOK
<1> QED BY <1>1, ExecuteKeeps, SealKeeps, AppendKeeps, MirrorKeeps, DrainValueKeeps, DrainEventKeeps, LossKeeps, RewrapKeeps
        DEF ValueNext

LEMMA ValueInvMatches == ValueInv => ValuesMatchChain
<1> SUFFICES ASSUME ValueInv PROVE ValuesMatchChain
    OBVIOUS
<1> DEFINE row == Fetch(sealed.values, <<"run", 1>>)
<1>1. row = IF ValueKey \in DOMAIN sealed.values THEN sealed.values[ValueKey] ELSE None
    BY DEF Fetch, ValueKey
<1>2. ValueKey \in DOMAIN sealed.values => Genuine(row, attempts) /\ row # None
    BY <1>1, ValueAssumption DEF ValueInv, AllGenuine, Genuine
<1>3. DOMAIN attempts = 1..Len(attempts) /\ DOMAIN events = 1..Len(events)
    BY DEF ValueInv, ValueTypeOK
<1> HIDE DEF row
<1>4. ASSUME row # None
      PROVE  /\ \E n \in DOMAIN attempts : attempts[n].ran /\ row.sha = commit(n, attempts[n].values)
             /\ decrypt(row, keyfile) \in {None, row.sha[2]}
             /\ 0 \in row.wraps => decrypt(row, 0) = row.sha[2]
    <2>1. Genuine(row, attempts)
        BY <1>1, <1>2, <1>4
    <2> QED BY <1>3, <2>1, GenuineOpens DEF Genuine, commit
<1>5. ~hole => \A i \in DOMAIN events : events[i] # NoSha => row # None /\ row.sha = events[i]
    BY <1>1, <1>2, <1>3 DEF ValueInv, Orderly, ChainFollows, Stored
<1> QED BY <1>4, <1>5 DEF ValuesMatchChain, row

(* Store.record_values and Store.append: for any values, any number of     *)
(* attempts, crashes and lost jobs and any queue, a sealed row opens only  *)
(* to values its step ran with; and with no job lost and no crash it is    *)
(* the row its event in the chain commits to, stored before the event.     *)
THEOREM ValuesStayMatched == ValueSpec => []ValuesMatchChain
<1> QED BY ValueInvMatches, ValueStart, ValueStep, PTL DEF ValueSpec

-----------------------------------------------------------------------------
(* The executor, its files and the client.                                 *)
PipelineSpec == PipelineInit /\ ClientInit /\ [][ExecutorNext \/ ClientNext]_pipeVars

Tools == Range(PlanTools)
Statuses ==
    {"ok", "error", "timeout", "oversight_waived", "oversight_refused", "root_refused", "tamper_refused", "snippet_refused"}
Line == [step : Nat, status : Statuses]
Dir ==
    [script : Texts, bk : Texts \cup {None}, manifesto : {"blessed", "swapped"}, index : {"blessed", "no porters", "emptied"},
     porter : [Tools -> {"blessed", "mutated", "gone"}], ledger : Seq(Line)]
Ex ==
    [pc : {"gone", "gate", "check", "run", "record"}, body : Texts, ledger : Seq(Line), todo : Seq(Steps), ran : SUBSET Nat,
     approve : SUBSET Texts, stale : BOOLEAN, swapped : BOOLEAN, blessed : [Tools -> {"blessed", "none"}] \cup {None},
     status : Statuses \cup {None}]
Exec ==
    [step : Steps, status : Statuses, porter : {"blessed", "mutated", "gone", None}, script : Texts, cleared : BOOLEAN,
     stale : BOOLEAN, swapped : BOOLEAN]

(* Step st has run and succeeded, by the history xs.                       *)
RanOkIn(st, xs) == \E i \in 1..Len(xs) : xs[i].step = st /\ xs[i].status = "ok"
LinesRan(l, xs) == \A i \in 1..Len(l) : l[i].status = "ok" => RanOkIn(l[i].step, xs)
InLedger(x, l) == \E i \in 1..Len(l) : l[i] = x

(* What a process at work has established, by its place.                   *)
SessionOK(e, d, xs) ==
    /\ LinesRan(e.ledger, xs)
    /\ \A st \in e.ran : RanOkIn(st, xs)
    /\ e.pc # "gone" /\ ~e.swapped => d.script = e.body
    /\ e.pc \in {"check", "run", "record"} => /\ scan(e.body, e.approve).violations = {} /\ d.bk = e.body
                                             /\ e.blessed \in [Tools -> {"blessed", "none"}]
    /\ e.pc \in {"run", "record"} => e.todo # << >>
    /\ e.pc = "run" => /\ \A st \in 1..(Head(e.todo) - 1) : RanOkIn(st, xs)
                       /\ ~e.stale => d.porter[PlanTools[Head(e.todo)]] \in {"blessed", "gone"}
    /\ e.pc = "record" => e.status \in Statuses /\ (e.status = "ok" => RanOkIn(Head(e.todo), xs))

(* UpstreamRan and RanAsChecked, of the k-th execution in xs.              *)
ExecOK(k, d, xs) ==
    /\ \A st \in 1..(xs[k].step - 1) : \E i \in 1..(k - 1) : xs[i].step = st /\ xs[i].status = "ok"
    /\ xs[k].porter = "mutated" => xs[k].stale
    /\ xs[k].script \in {"compiled", "wrapper"} /\ xs[k].status = "ok" => xs[k].porter \in {"blessed", "mutated"}
    /\ ~xs[k].swapped => xs[k].cleared /\ xs[k].script = d.bk

(* A directory that changed and whose script and porters did not, nor its  *)
(* snapshot once there is one.                                             *)
SameFiles(d, new) == new.porter = d.porter /\ new.script = d.script /\ (d.bk # None => new.bk = d.bk)

(* While nothing raced: one process at work, with the ledger as it is on   *)
(* disk, and the only execution not in it is the one it is about to record.*)
Pending(e, x) == e.pc = "record" /\ Head(e.todo) = x.step /\ e.status = x.status
Alone(p, d, xs) ==
    /\ \A s, t \in Sessions : p[s].pc # "gone" /\ p[t].pc # "gone" => s = t
    /\ \A s \in Sessions : p[s].pc # "gone" => p[s].ledger = d.ledger
    /\ \A k \in 1..Len(xs) : \/ InLedger(LedgerLine(xs[k].step, xs[k].status), d.ledger)
                             \/ \E s \in Sessions : Pending(p[s], xs[k])

ExecutorInv ==
    /\ dir \in Dir /\ ex \in [Sessions -> Ex] /\ execs \in Seq(Exec) /\ race \in BOOLEAN
    /\ LinesRan(dir.ledger, execs)
    /\ \A s \in Sessions : SessionOK(ex[s], dir, execs)
    /\ \A k \in 1..Len(execs) : ExecOK(k, dir, execs)
    /\ ~race => Alone(ex, dir, execs)

(* The ledger m is l with notes added, none of them of a run.              *)
Noted(l, m) ==
    /\ m \in Seq(Line) /\ Len(l) <= Len(m)
    /\ \A i \in 1..Len(l) : m[i] = l[i]
    /\ \A i \in 1..Len(m) : i \in 1..Len(l) \/ m[i].status # "ok"

LEMMA NotedSame == ASSUME NEW l \in Seq(Line) PROVE Noted(l, l)
BY DEF Noted

LEMMA NotedMore ==
    ASSUME NEW l \in Seq(Line), NEW m, Noted(l, m), NEW status \in Statuses, status # "ok"
    PROVE  Noted(l, Append(m, LedgerLine(0, status)))
<1> DEFINE x == LedgerLine(0, status)
<1>1. x \in Line /\ x.status # "ok"
    BY DEF LedgerLine, Line
<1> HIDE DEF x
<1>2. m \in Seq(Line) /\ Len(l) \in Nat /\ Len(m) \in Nat /\ Len(l) <= Len(m)
    BY DEF Noted
<1>3. /\ Append(m, x) \in Seq(Line) /\ Len(Append(m, x)) = Len(m) + 1 /\ Append(m, x)[Len(m) + 1] = x
      /\ \A i \in 1..Len(m) : Append(m, x)[i] = m[i]
      /\ \A i \in 1..(Len(m) + 1) : i \in 1..Len(m) \/ i = Len(m) + 1
      /\ \A i \in 1..Len(l) : i \in 1..Len(m)
    BY <1>1, <1>2
<1> QED BY <1>1, <1>2, <1>3 DEF Noted, x

LEMMA NotedKeeps ==
    ASSUME NEW l \in Seq(Line), NEW m, Noted(l, m), NEW xs
    PROVE  /\ LinesRan(l, xs) => LinesRan(m, xs)
           /\ \A x : InLedger(x, l) => InLedger(x, m)
<1>1. Len(l) \in Nat /\ Len(m) \in Nat /\ \A i \in 1..Len(l) : i \in 1..Len(m)
    BY DEF Noted
<1> QED BY <1>1 DEF Noted, LinesRan, InLedger

(* A longer history takes nothing away.                                    *)
LEMMA HistoryGrows ==
    ASSUME NEW xs \in Seq(Exec), NEW x \in Exec
    PROVE  /\ Append(xs, x) \in Seq(Exec) /\ Len(Append(xs, x)) = Len(xs) + 1 /\ Len(xs) \in Nat
           /\ Append(xs, x)[Len(xs) + 1] = x
           /\ \A i \in 1..Len(xs) : Append(xs, x)[i] = xs[i]
           /\ \A i \in 1..Len(Append(xs, x)) : i \in 1..Len(xs) \/ i = Len(xs) + 1
           /\ \A st : RanOkIn(st, xs) => RanOkIn(st, Append(xs, x))
           /\ \A l : LinesRan(l, xs) => LinesRan(l, Append(xs, x))
<1>1. /\ Append(xs, x) \in Seq(Exec) /\ Len(Append(xs, x)) = Len(xs) + 1 /\ Len(xs) \in Nat
      /\ Append(xs, x)[Len(xs) + 1] = x
      /\ \A i \in 1..Len(xs) : Append(xs, x)[i] = xs[i] /\ i \in 1..(Len(xs) + 1)
      /\ \A i \in 1..(Len(xs) + 1) : i \in 1..Len(xs) \/ i = Len(xs) + 1
    OBVIOUS
<1>2. \A st : RanOkIn(st, xs) => RanOkIn(st, Append(xs, x))
    BY <1>1 DEF RanOkIn
<1> QED BY <1>1, <1>2 DEF LinesRan

LEMMA ExFields ==
    ASSUME NEW e \in Ex
    PROVE  /\ e.pc \in {"gone", "gate", "check", "run", "record"} /\ e.body \in Texts /\ e.ledger \in Seq(Line)
           /\ e.todo \in Seq(Steps) /\ e.ran \in SUBSET Nat /\ e.approve \in SUBSET Texts /\ e.stale \in BOOLEAN
           /\ e.swapped \in BOOLEAN
           /\ e.blessed \in [Tools -> {"blessed", "none"}] \cup {None} /\ e.status \in Statuses \cup {None}
BY DEF Ex

LEMMA ExecFields ==
    ASSUME NEW xs \in Seq(Exec), NEW k \in 1..Len(xs)
    PROVE  xs[k] \in Exec /\ xs[k].script \in Texts
<1>1. xs[k] \in Exec
    OBVIOUS
<1> QED BY <1>1 DEF Exec

LEMMA DirFields ==
    ASSUME NEW d \in Dir
    PROVE  /\ d.script \in Texts /\ d.bk \in Texts \cup {None} /\ d.manifesto \in {"blessed", "swapped"}
           /\ d.index \in {"blessed", "no porters", "emptied"}
           /\ d.porter \in [Tools -> {"blessed", "mutated", "gone"}] /\ d.ledger \in Seq(Line)
BY DEF Dir

LEMMA ToolOfStep ==
    ASSUME NEW q \in Seq(Steps), q # << >>
    PROVE  Head(q) \in Steps /\ Head(q) \in Nat /\ PlanTools[Head(q)] \in Tools /\ Tail(q) \in Seq(Steps)
<1>1. Head(q) \in Steps /\ Tail(q) \in Seq(Steps)
    OBVIOUS
<1>2. Steps \subseteq Nat /\ DOMAIN PlanTools = Steps
    BY PipelineAssumption DEF Steps
<1> QED BY <1>1, <1>2 DEF Tools, Range

LEMMA GoneOK ==
    ASSUME NEW d, NEW xs
    PROVE  Gone \in Ex /\ Gone.pc = "gone" /\ SessionOK(Gone, d, xs)
<1>1. /\ Gone.pc = "gone" /\ Gone.ledger = << >> /\ Gone.ran = {} /\ Gone \in Ex
    BY DEF Gone, Ex, Texts
<1> QED BY <1>1 DEF SessionOK, LinesRan

(* One process moves to e and the directory with it, and no step is run:   *)
(* the ledger on disk keeps its lines, or is the process's own with more.  *)
LEMMA ProcessMoves ==
    ASSUME ExecutorInv, NEW s \in Sessions, ex[s].pc # "gone", NEW e \in Ex, ex' = [ex EXCEPT ![s] = e],
           UNCHANGED <<execs, race>>, dir' \in Dir, SameFiles(dir, dir'),
           LinesRan(dir'.ledger, execs), SessionOK(e, dir', execs),
           ~race => /\ e.pc # "gone" => e.ledger = dir'.ledger
                    /\ \A x : InLedger(x, dir.ledger) => InLedger(x, dir'.ledger)
                    /\ ex[s].pc = "record" => InLedger(LedgerLine(Head(ex[s].todo), ex[s].status), dir'.ledger)
    PROVE  ExecutorInv'
<1>1. ex' \in [Sessions -> Ex] /\ ex'[s] = e /\ \A t \in Sessions \ {s} : ex'[t] = ex[t]
    BY DEF ExecutorInv
<1>2. ASSUME NEW t \in Sessions PROVE SessionOK(ex'[t], dir', execs)
    <2>1. CASE t = s
        BY <1>1, <2>1
    <2>2. CASE t # s
        <3>1. ex'[t] = ex[t] /\ SessionOK(ex[t], dir, execs) /\ ex[t].body \in Texts
            BY <1>1, <2>2, ExFields DEF ExecutorInv
        <3>2. dir'.script = dir.script /\ dir'.porter = dir.porter
            BY DEF SameFiles
        <3>3. ex[t].pc \in {"check", "run", "record"} => dir'.bk = ex[t].body
            BY <3>1, PipelineAssumption DEF SessionOK, SameFiles
        <3> QED BY <3>1, <3>2, <3>3 DEF SessionOK
    <2> QED BY <2>1, <2>2
<1>3. ASSUME ~race PROVE Alone(ex', dir', execs)
    <2>1. Alone(ex, dir, execs)
        BY <1>3 DEF ExecutorInv
    <2>2. \A t \in Sessions : ex'[t].pc # "gone" => t = s
        BY <1>1, <2>1 DEF Alone
    <2>3. ASSUME NEW k \in 1..Len(execs)
          PROVE  \/ InLedger(LedgerLine(execs[k].step, execs[k].status), dir'.ledger)
                 \/ \E t \in Sessions : Pending(ex'[t], execs[k])
        <3>1. CASE InLedger(LedgerLine(execs[k].step, execs[k].status), dir.ledger)
            BY <1>3, <3>1
        <3>2. ASSUME NEW t \in Sessions, Pending(ex[t], execs[k])
              PROVE  InLedger(LedgerLine(execs[k].step, execs[k].status), dir'.ledger)
            <4>1. t = s
                BY <2>1, <3>2 DEF Alone, Pending
            <4> QED BY <1>3, <3>2, <4>1 DEF Pending
        <3> QED BY <2>1, <3>1, <3>2 DEF Alone
    <2> QED BY <1>1, <1>3, <2>2, <2>3 DEF Alone
<1>4. ASSUME NEW k \in 1..Len(execs) PROVE ExecOK(k, dir', execs)
    <2>1. ExecOK(k, dir, execs) /\ execs[k].script \in Texts
        BY ExecFields DEF ExecutorInv
    <2> QED BY <2>1, PipelineAssumption DEF ExecOK, SameFiles
<1> QED BY <1>1, <1>2, <1>3, <1>4 DEF ExecutorInv

(* It leaves, with a note or two in the ledger.                            *)
LEMMA ProcessLeaves ==
    ASSUME ExecutorInv, NEW s \in Sessions, ex[s].pc \notin {"gone", "record"}, Exit(s),
           UNCHANGED <<execs, race>>, dir' \in Dir, SameFiles(dir, dir'),
           dir'.ledger = dir.ledger \/ Noted(ex[s].ledger, dir'.ledger)
    PROVE  ExecutorInv'
<1>1. ex' = [ex EXCEPT ![s] = Gone] /\ Gone \in Ex /\ Gone.pc = "gone" /\ SessionOK(Gone, dir', execs)
    BY GoneOK DEF Exit
<1>2. ex[s].ledger \in Seq(Line) /\ LinesRan(ex[s].ledger, execs)
    BY ExFields DEF ExecutorInv, SessionOK
<1>3. LinesRan(dir'.ledger, execs)
    BY <1>2, NotedKeeps DEF ExecutorInv
<1>4. ASSUME ~race, NEW x, InLedger(x, dir.ledger) PROVE InLedger(x, dir'.ledger)
    <2>1. ex[s].ledger = dir.ledger
        BY <1>4 DEF ExecutorInv, Alone
    <2> QED BY <1>2, <1>4, <2>1, NotedKeeps
<1> HIDE DEF Gone
<1> QED BY <1>1, <1>3, <1>4, ProcessMoves

LEMMA BeginKeeps ==
    ASSUME ExecutorInv, NEW s \in Sessions, NEW todo \in Orders, NEW approve \in {{}, Texts}, Begin(s, todo, approve)
    PROVE  ExecutorInv'
<1> DEFINE e == [Gone EXCEPT !.pc = "gate", !.body = dir.script, !.ledger = dir.ledger, !.todo = todo, !.approve = approve]
<1>0. dir \in Dir /\ dir.ledger \in Seq(Line) /\ dir.script \in Texts /\ Gone \in Ex /\ Gone.ran = {}
    BY DirFields, GoneOK DEF ExecutorInv, Gone
<1>1. /\ ex[s].pc = "gone" /\ ex' = [ex EXCEPT ![s] = e]
      /\ race' = (race \/ \E t \in Sessions : ex[t].pc # "gone") /\ UNCHANGED <<dir, execs>>
    BY DEF Begin, Working
<1>2. todo \in Seq(Steps)
    <2>1. CASE todo = [i \in Steps |-> i]
        BY <2>1, PipelineAssumption DEF Steps
    <2>2. CASE \E st \in Steps : todo = <<st>>
        BY <2>2
    <2> QED BY <2>1, <2>2 DEF Orders
<1>3. e \in Ex /\ e.pc = "gate" /\ e.ledger = dir.ledger /\ e.ran = {} /\ e.body = dir.script
    BY <1>0, <1>2 DEF Ex
<1> HIDE DEF e
<1>4. ex' \in [Sessions -> Ex] /\ ex'[s] = e /\ \A t \in Sessions \ {s} : ex'[t] = ex[t]
    BY <1>1, <1>3 DEF ExecutorInv
<1>5. SessionOK(e, dir, execs)
    BY <1>3 DEF SessionOK, ExecutorInv
<1>6. ASSUME ~race' PROVE Alone(ex', dir, execs)
    <2>1. Alone(ex, dir, execs) /\ \A t \in Sessions : ex[t].pc = "gone"
        BY <1>1, <1>6 DEF ExecutorInv
    <2>2. \A x : \A t \in Sessions : ~Pending(ex[t], x)
        BY <2>1 DEF Pending
    <2>3. \A t \in Sessions : ex'[t].pc # "gone" => t = s
        BY <1>4, <2>1
    <2> QED BY <1>3, <1>4, <2>1, <2>2, <2>3 DEF Alone
<1> QED BY <1>1, <1>4, <1>5, <1>6 DEF ExecutorInv

LEMMA KillKeeps ==
    ASSUME ExecutorInv, NEW s \in Sessions, Kill(s)
    PROVE  ExecutorInv'
<1>1. ex' = [ex EXCEPT ![s] = Gone] /\ race' = TRUE /\ UNCHANGED <<dir, execs>>
    BY DEF Kill, Exit
<1>2. Gone \in Ex /\ SessionOK(Gone, dir, execs)
    BY GoneOK
<1> HIDE DEF Gone
<1>3. ex' \in [Sessions -> Ex] /\ \A t \in Sessions : ex'[t] = ex[t] \/ ex'[t] = Gone
    BY <1>1, <1>2 DEF ExecutorInv
<1> QED BY <1>1, <1>2, <1>3 DEF ExecutorInv

LEMMA EditKeeps ==
    ASSUME ExecutorInv, NEW new \in Dir, new.ledger = dir.ledger, new.bk = dir.bk, EditFile(new)
    PROVE  ExecutorInv'
<1> DEFINE Marked(e) == [e EXCEPT !.stale = TRUE, !.swapped = @ \/ new.script # dir.script]
<1>1. /\ dir' = new /\ UNCHANGED <<execs, race>>
      /\ ex' = [s \in Sessions |-> IF ex[s].pc # "gone" THEN Marked(ex[s]) ELSE ex[s]]
    BY DEF EditFile, Working
<1>2. ASSUME NEW e \in Ex
      PROVE  LET f == Marked(e)
             IN  /\ f \in Ex /\ f.pc = e.pc /\ f.ledger = e.ledger /\ f.ran = e.ran /\ f.body = e.body /\ f.todo = e.todo
                 /\ f.approve = e.approve /\ f.blessed = e.blessed /\ f.status = e.status /\ f.stale = TRUE
                 /\ ~f.swapped => ~e.swapped /\ new.script = dir.script
    BY DEF Ex
<1> HIDE DEF Marked
<1>3. ASSUME NEW s \in Sessions
      PROVE  /\ ex'[s] \in Ex /\ ex'[s].pc = ex[s].pc /\ ex'[s].ledger = ex[s].ledger /\ ex'[s].ran = ex[s].ran
             /\ ex'[s].body = ex[s].body /\ ex'[s].todo = ex[s].todo /\ ex'[s].approve = ex[s].approve
             /\ ex'[s].blessed = ex[s].blessed /\ ex'[s].status = ex[s].status
             /\ ex[s].pc # "gone" => ex'[s].stale = TRUE /\ (~ex'[s].swapped => ~ex[s].swapped /\ new.script = dir.script)
    <2>1. ex[s] \in Ex /\ ex'[s] = IF ex[s].pc # "gone" THEN Marked(ex[s]) ELSE ex[s]
        BY <1>1 DEF ExecutorInv
    <2> QED BY <1>2, <2>1
<1>4. ASSUME NEW s \in Sessions PROVE SessionOK(ex'[s], dir', execs)
    <2>1. SessionOK(ex[s], dir, execs)
        BY DEF ExecutorInv
    <2>2. ex[s].pc # "gone" /\ ~ex'[s].swapped => dir'.script = ex[s].body
        BY <1>1, <1>3, <2>1 DEF SessionOK
    <2>3. dir'.bk = dir.bk
        BY <1>1
    <2> QED BY <1>3, <2>1, <2>2, <2>3 DEF SessionOK
<1>5. ex' \in [Sessions -> Ex]
    BY <1>1, <1>3
<1>6. ASSUME Alone(ex, dir, execs) PROVE Alone(ex', dir', execs)
    <2>1. dir'.ledger = dir.ledger
        BY <1>1
    <2>2. \A s \in Sessions : \A x : Pending(ex[s], x) => Pending(ex'[s], x)
        BY <1>3 DEF Pending
    <2>3. \A k \in 1..Len(execs) : \/ InLedger(LedgerLine(execs[k].step, execs[k].status), dir'.ledger)
                                   \/ \E s \in Sessions : Pending(ex'[s], execs[k])
        BY <1>6, <2>1, <2>2 DEF Alone
    <2>4. \A s \in Sessions : ex'[s].pc = ex[s].pc /\ ex'[s].ledger = ex[s].ledger
        BY <1>3
    <2> QED BY <1>6, <2>1, <2>3, <2>4 DEF Alone
<1>7. ASSUME NEW k \in 1..Len(execs) PROVE ExecOK(k, dir', execs)
    <2>1. ExecOK(k, dir, execs) /\ dir'.bk = dir.bk
        BY <1>1 DEF ExecutorInv
    <2> QED BY <2>1 DEF ExecOK
<1> QED BY <1>1, <1>4, <1>5, <1>6, <1>7 DEF ExecutorInv

LEMMA AnyEditKeeps ==
    ASSUME ExecutorInv, Compile \/ _prepare \/ Meddle
    PROVE  ExecutorInv'
<1>0. dir \in Dir
    BY DEF ExecutorInv
<1>1. ASSUME NEW x \in Texts, EditFile([dir EXCEPT !.script = x]) PROVE ExecutorInv'
    <2>1. [dir EXCEPT !.script = x] \in Dir /\ [dir EXCEPT !.script = x].ledger = dir.ledger /\ [dir EXCEPT !.script = x].bk = dir.bk
        BY <1>0 DEF Dir
    <2> QED BY <1>1, <2>1, EditKeeps
<1>2. ASSUME NEW x \in Tools, NEW y \in {"mutated", "gone"}, EditFile([dir EXCEPT !.porter[x] = y]) PROVE ExecutorInv'
    <2>1. [dir EXCEPT !.porter[x] = y] \in Dir /\ [dir EXCEPT !.porter[x] = y].ledger = dir.ledger /\ [dir EXCEPT !.porter[x] = y].bk = dir.bk
        BY <1>0 DEF Dir
    <2> QED BY <1>2, <2>1, EditKeeps
<1>3. ASSUME EditFile([dir EXCEPT !.manifesto = "swapped"]) PROVE ExecutorInv'
    <2>1. [dir EXCEPT !.manifesto = "swapped"] \in Dir /\ [dir EXCEPT !.manifesto = "swapped"].ledger = dir.ledger /\ [dir EXCEPT !.manifesto = "swapped"].bk = dir.bk
        BY <1>0 DEF Dir
    <2> QED BY <1>3, <2>1, EditKeeps
<1>4. ASSUME NEW y \in {"no porters", "emptied"}, EditFile([dir EXCEPT !.index = y]) PROVE ExecutorInv'
    <2>1. [dir EXCEPT !.index = y] \in Dir /\ [dir EXCEPT !.index = y].ledger = dir.ledger /\ [dir EXCEPT !.index = y].bk = dir.bk
        BY <1>0 DEF Dir
    <2> QED BY <1>4, <2>1, EditKeeps
<1>5. ASSUME NEW x \in Tools, NEW y \in {"mutated", "gone"}, EditFile([dir EXCEPT !.index = "no porters", !.porter[x] = y])
      PROVE  ExecutorInv'
    <2>1. /\ [dir EXCEPT !.index = "no porters", !.porter[x] = y] \in Dir
          /\ [dir EXCEPT !.index = "no porters", !.porter[x] = y].ledger = dir.ledger
          /\ [dir EXCEPT !.index = "no porters", !.porter[x] = y].bk = dir.bk
        BY <1>0 DEF Dir
    <2> QED BY <1>5, <2>1, EditKeeps
<1> QED BY <1>1, <1>2, <1>3, <1>4, <1>5 DEF Compile, _prepare, Meddle, Texts, Tools

(* A refused process writes its notes to its own copy of the ledger.       *)
LEMMA LedgerTyped ==
    ASSUME NEW d \in Dir, NEW m \in Seq(Line)
    PROVE  [d EXCEPT !.ledger = m] \in Dir /\ [d EXCEPT !.ledger = m].ledger = m /\ SameFiles(d, [d EXCEPT !.ledger = m])
BY DEF Dir, SameFiles

LEMMA SnapTyped ==
    ASSUME ExecutorInv, NEW s \in Sessions
    PROVE  Snapped(s) \in Dir /\ Snapped(s).ledger = dir.ledger /\ SameFiles(dir, Snapped(s))
<1>1. ex[s].body \in Texts /\ dir \in Dir
    BY ExFields DEF ExecutorInv
<1>2. CASE dir.bk = None
    <2>1. Snapped(s) = [dir EXCEPT !.bk = ex[s].body]
        BY <1>1, <1>2 DEF Snapped, Dir
    <2> QED BY <1>1, <1>2, <2>1 DEF Dir, SameFiles
<1>3. CASE dir.bk # None
    <2>1. Snapped(s) = dir
        BY <1>1, <1>3 DEF Snapped, Dir
    <2> QED BY <1>1, <2>1 DEF SameFiles
<1> QED BY <1>2, <1>3

LEMMA RefuseKeeps ==
    ASSUME ExecutorInv, NEW s \in Sessions, ex[s].pc \notin {"gone", "record"}, NEW status \in Statuses, status # "ok",
           Refuse(s, status), UNCHANGED <<execs, race>>
    PROVE  ExecutorInv'
<1> DEFINE l == ex[s].ledger
           m == Append(l, LedgerLine(0, status))
<1>1. l \in Seq(Line) /\ dir \in Dir
    BY ExFields DEF ExecutorInv
<1>2. Noted(l, m)
    BY <1>1, NotedSame, NotedMore
<1>3. dir' = [dir EXCEPT !.ledger = m] /\ Exit(s)
    BY DEF Refuse, Dumped
<1> HIDE DEF m
<1>4. m \in Seq(Line)
    BY <1>2 DEF Noted
<1>5. dir' \in Dir /\ dir'.ledger = m /\ SameFiles(dir, dir')
    BY <1>1, <1>3, <1>4, LedgerTyped
<1> QED BY <1>2, <1>3, <1>5, ProcessLeaves

(* What the ledger is after oversight: with the waiver noted, or as read.  *)
LEMMA WaiverNoted ==
    ASSUME ExecutorInv, NEW s \in Sessions, NEW w,
           w = Dumped(s, LedgerLine(0, "oversight_waived")) \/ w = ex[s].ledger
    PROVE  Noted(ex[s].ledger, w) /\ w \in Seq(Line)
<1>1. ex[s].ledger \in Seq(Line)
    BY ExFields DEF ExecutorInv
<1>2. Noted(ex[s].ledger, ex[s].ledger)
    BY <1>1, NotedSame
<1>3. "oversight_waived" \in Statuses /\ "oversight_waived" # "ok"
    BY DEF Statuses
<1>4. Noted(ex[s].ledger, Append(ex[s].ledger, LedgerLine(0, "oversight_waived")))
    BY <1>1, <1>2, <1>3, NotedMore
<1>5. Noted(ex[s].ledger, w)
    BY <1>2, <1>4 DEF Dumped
<1> QED BY <1>5 DEF Noted

LEMMA GateRefusesKeeps ==
    ASSUME ExecutorInv, NEW s \in Sessions, NEW root \in BOOLEAN, ex[s].pc = "gate", GateRefuses(s, root),
           UNCHANGED <<execs, race>>
    PROVE  ExecutorInv'
<1> DEFINE l == ex[s].ledger
           found == scan(ex[s].body, ex[s].approve)
           waived == IF found.waived # {} THEN Dumped(s, LedgerLine(0, "oversight_waived")) ELSE l
           snap == Snapped(s)
<1>1. l \in Seq(Line) /\ dir \in Dir
    BY ExFields DEF ExecutorInv
<1>2. waived = Dumped(s, LedgerLine(0, "oversight_waived")) \/ waived = ex[s].ledger
    OBVIOUS
<1>3. snap \in Dir /\ snap.ledger = dir.ledger /\ SameFiles(dir, snap)
    BY SnapTyped
<1>4. \/ Refuse(s, "tamper_refused")
      \/ /\ Exit(s)
         /\ \/ dir' = [snap EXCEPT !.ledger = Append(waived, LedgerLine(0, "oversight_refused"))]
            \/ dir' = [snap EXCEPT !.ledger = Append(waived, LedgerLine(0, "root_refused"))]
            \/ dir' = [snap EXCEPT !.ledger = waived]
            \/ dir' = [snap EXCEPT !.ledger = snap.ledger]
    <2>1. CASE SnapshotDiffers(s) /\ Refuse(s, "tamper_refused")
        BY <2>1
    <2>2. CASE found.violations # {} /\ dir' = [Snapped(s) EXCEPT !.ledger = Append(waived, LedgerLine(0, "oversight_refused"))] /\ Exit(s)
        BY <2>2
    <2>3. CASE dir' = [Snapped(s) EXCEPT !.ledger = Append(waived, LedgerLine(0, "root_refused"))] /\ Exit(s)
        BY <2>3
    <2>4. CASE dir' = [Snapped(s) EXCEPT !.ledger = IF found.waived # {} THEN waived ELSE @] /\ Exit(s)
        BY <2>4, <1>3
    <2> QED BY <2>1, <2>2, <2>3, <2>4 DEF GateRefuses
<1> HIDE DEF waived, snap, found
<1>5. Noted(l, waived) /\ waived \in Seq(Line)
    BY <1>2, WaiverNoted
<1>6. ASSUME NEW status \in Statuses, status # "ok", Exit(s),
             dir' = [snap EXCEPT !.ledger = Append(waived, LedgerLine(0, status))]
      PROVE  ExecutorInv'
    <2> DEFINE m == Append(waived, LedgerLine(0, status))
    <2>1. Noted(l, m)
        BY <1>1, <1>5, <1>6, NotedMore
    <2> HIDE DEF m
    <2>2. m \in Seq(Line) /\ dir' = [snap EXCEPT !.ledger = m]
        BY <1>6, <2>1 DEF Noted, m
    <2>3. dir' \in Dir /\ dir'.ledger = m /\ SameFiles(dir, dir')
        BY <1>3, <2>2, LedgerTyped DEF SameFiles
    <2> QED BY <1>6, <2>1, <2>3, ProcessLeaves
<1>7. ASSUME NEW m \in Seq(Line), m = waived \/ m = snap.ledger, Exit(s), dir' = [snap EXCEPT !.ledger = m]
      PROVE  ExecutorInv'
    <2>1. dir' \in Dir /\ dir'.ledger = m /\ SameFiles(dir, dir')
        BY <1>3, <1>7, LedgerTyped DEF SameFiles
    <2> QED BY <1>3, <1>5, <1>7, <2>1, ProcessLeaves
<1>8. CASE Refuse(s, "tamper_refused")
    <2>1. "tamper_refused" \in Statuses /\ "tamper_refused" # "ok" /\ ex[s].pc \notin {"gone", "record"}
        BY DEF Statuses
    <2> QED BY <1>8, <2>1, RefuseKeeps
<1>9. snap.ledger \in Seq(Line)
    BY <1>1, <1>3, DirFields
<1>10. {"oversight_refused", "root_refused"} \subseteq Statuses \ {"ok"}
    BY DEF Statuses
<1> QED BY <1>4, <1>5, <1>6, <1>7, <1>8, <1>9, <1>10

LEMMA GatePassesKeeps ==
    ASSUME ExecutorInv, NEW s \in Sessions, ex[s].pc = "gate", GatePasses(s), UNCHANGED <<execs, race>>
    PROVE  ExecutorInv'
<1> DEFINE l == ex[s].ledger
           found == scan(ex[s].body, ex[s].approve)
           after == IF found.waived # {} THEN Dumped(s, LedgerLine(0, "oversight_waived")) ELSE l
           snap == Snapped(s)
           e == [ex[s] EXCEPT !.pc = "check", !.ledger = after, !.ran = ranOk(after), !.blessed = _blessed_snippets]
<1>1. l \in Seq(Line) /\ ex[s].body \in Texts /\ dir \in Dir /\ ex[s] \in Ex /\ LinesRan(l, execs)
    BY ExFields DEF ExecutorInv, SessionOK
<1>2. Noted(l, after) /\ after \in Seq(Line)
    <2>1. after = Dumped(s, LedgerLine(0, "oversight_waived")) \/ after = ex[s].ledger
        OBVIOUS
    <2> HIDE DEF after
    <2> QED BY <2>1, WaiverNoted
<1>3. snap \in Dir /\ snap.ledger = dir.ledger /\ SameFiles(dir, snap)
    BY SnapTyped
<1>4. /\ dir' = [snap EXCEPT !.ledger = IF found.waived # {} THEN after ELSE @]
      /\ ex' = [ex EXCEPT ![s] = e] /\ found.violations = {}
    BY <1>1 DEF GatePasses, ExecutorInv
<1>5. dir' \in Dir /\ SameFiles(dir, dir') /\ dir'.ledger = (IF found.waived # {} THEN after ELSE dir.ledger)
    <2>1. CASE found.waived # {}
        <3>1. dir' = [snap EXCEPT !.ledger = after]
            BY <1>4, <2>1
        <3> HIDE DEF after, snap
        <3> QED BY <1>2, <1>3, <2>1, <3>1, LedgerTyped DEF SameFiles
    <2>2. CASE found.waived = {}
        <3>1. dir' = snap
            BY <1>3, <1>4, <2>2 DEF Dir
        <3> HIDE DEF snap
        <3> QED BY <1>3, <2>2, <3>1
    <2> QED BY <2>1, <2>2
<1>6. dir'.bk = ex[s].body
    <2>1. snap.bk = ex[s].body
        BY <1>1 DEF Snapped, Dir, GatePasses, SnapshotDiffers
    <2>2. dir'.bk = snap.bk
        <3> HIDE DEF after, snap
        <3> QED BY <1>3, <1>4 DEF Dir
    <2> QED BY <2>1, <2>2
<1>7. ex[s].swapped = FALSE => dir'.script = ex[s].body
    BY <1>5 DEF ExecutorInv, SessionOK, SameFiles
<1>8. after \in Seq(Line) /\ LinesRan(after, execs) /\ (found.waived = {} => after = l)
    BY <1>1, <1>2, NotedKeeps DEF Noted
<1>9. ranOk(after) \subseteq Nat /\ \A st \in ranOk(after) : RanOkIn(st, execs)
    <2> HIDE DEF after
    <2>1. DOMAIN after = 1..Len(after) /\ \A i \in 1..Len(after) : after[i].step \in Nat
        <3>1. DOMAIN after = 1..Len(after) /\ \A i \in 1..Len(after) : after[i] \in Line
            BY <1>8
        <3> QED BY <3>1 DEF Line
    <2> QED BY <1>8, <2>1 DEF ranOk, LinesRan
<1>10. _blessed_snippets \in [Tools -> {"blessed", "none"}]
    BY DEF _blessed_snippets, Tools
<1>11. /\ e \in Ex /\ e.pc = "check" /\ e.ledger = after /\ e.ran = ranOk(after) /\ e.blessed = _blessed_snippets
       /\ e.body = ex[s].body /\ e.approve = ex[s].approve /\ e.swapped = ex[s].swapped
    <2> HIDE DEF after
    <2> QED BY <1>1, <1>8, <1>9, <1>10 DEF Ex
<1> HIDE DEF e, after
<1>12. SessionOK(e, dir', execs)
    BY <1>4, <1>6, <1>7, <1>8, <1>9, <1>10, <1>11 DEF SessionOK
<1>13. LinesRan(dir'.ledger, execs)
    BY <1>5, <1>8 DEF ExecutorInv
<1>14. ASSUME ~race PROVE e.ledger = dir'.ledger /\ \A x : InLedger(x, dir.ledger) => InLedger(x, dir'.ledger)
    <2>1. l = dir.ledger
        BY <1>14 DEF ExecutorInv, Alone
    <2> QED BY <1>1, <1>2, <1>5, <1>8, <1>11, <2>1, NotedKeeps
<1> QED BY <1>4, <1>5, <1>11, <1>12, <1>13, <1>14, ProcessMoves

LEMMA CheckStepKeeps ==
    ASSUME ExecutorInv, NEW s \in Sessions, CheckStep(s)
    PROVE  ExecutorInv'
<1> DEFINE st == Head(ex[s].todo)
           e == [ex[s] EXCEPT !.pc = "run", !.stale = FALSE]
<1>1. ex[s] \in Ex /\ dir \in Dir /\ SessionOK(ex[s], dir, execs) /\ ex[s].pc = "check" /\ ex[s].todo # << >>
    BY DEF ExecutorInv, CheckStep
<1>2. UNCHANGED <<execs, race>> /\ ex[s].pc \notin {"gone", "record"} /\ "snippet_refused" \in Statuses \ {"ok"}
    BY <1>1 DEF CheckStep, Statuses
<1>3. CASE Exit(s) /\ UNCHANGED dir
    BY <1>1, <1>2, <1>3, ProcessLeaves DEF SameFiles
<1>4. CASE Refuse(s, "snippet_refused")
    BY <1>2, <1>4, RefuseKeeps
<1>5. ASSUME 1..st - 1 \subseteq ex[s].ran, ~snippet_decision(PlanTools[st], ex[s].blessed),
             ex' = [ex EXCEPT ![s].pc = "run", ![s].stale = FALSE], UNCHANGED dir
      PROVE  ExecutorInv'
    <2>1. ex' = [ex EXCEPT ![s] = e]
        BY <1>1, <1>5 DEF ExecutorInv
    <2>2. /\ e \in Ex /\ e.pc = "run" /\ e.ledger = ex[s].ledger /\ e.ran = ex[s].ran /\ e.body = ex[s].body
          /\ e.todo = ex[s].todo /\ e.approve = ex[s].approve /\ e.blessed = ex[s].blessed /\ e.swapped = ex[s].swapped
        BY <1>1 DEF Ex
    <2>3. st \in Steps /\ PlanTools[st] \in Tools
        BY <1>1, ExFields, ToolOfStep
    <2>4. dir.porter[PlanTools[st]] \in {"blessed", "gone"}
        <3>1. ex[s].blessed[PlanTools[st]] \in {"blessed", "none"}
            BY <1>1, <2>3 DEF SessionOK
        <3>2. Found(PlanTools[st]) = ex[s].blessed[PlanTools[st]]
            BY <1>5 DEF snippet_decision
        <3>3. dir.porter[PlanTools[st]] \in {"blessed", "mutated", "gone"}
            BY <1>1, <2>3, DirFields
        <3> QED BY <3>1, <3>2, <3>3 DEF Found
    <2>5. \A u \in 1..(Head(e.todo) - 1) : RanOkIn(u, execs)
        BY <1>1, <1>5, <2>2 DEF SessionOK
    <2> HIDE DEF e, st
    <2>6. SessionOK(e, dir', execs)
        BY <1>1, <1>5, <2>2, <2>4, <2>5 DEF SessionOK, st
    <2>7. LinesRan(dir'.ledger, execs) /\ dir' \in Dir /\ SameFiles(dir, dir') /\ (~race => e.ledger = dir'.ledger)
        BY <1>1, <1>5, <2>2 DEF ExecutorInv, Alone, SameFiles
    <2> QED BY <1>1, <1>2, <1>5, <2>1, <2>2, <2>6, <2>7, ProcessMoves
<1> HIDE DEF st, e
<1>6. \/ Exit(s) /\ UNCHANGED dir
      \/ Refuse(s, "snippet_refused")
      \/ /\ 1..st - 1 \subseteq ex[s].ran /\ ~snippet_decision(PlanTools[st], ex[s].blessed)
         /\ ex' = [ex EXCEPT ![s].pc = "run", ![s].stale = FALSE] /\ UNCHANGED dir
    BY DEF CheckStep, st
<1> QED BY <1>3, <1>4, <1>5, <1>6

LEMMA FinishedKeeps ==
    ASSUME ExecutorInv, NEW s \in Sessions, Finished(s)
    PROVE  ExecutorInv'
<1>1. /\ dir' \in Dir /\ Exit(s) /\ ex[s].pc \notin {"gone", "record"} /\ UNCHANGED <<dir, execs, race>>
      /\ SameFiles(dir, dir')
    BY DEF Finished, ExecutorInv, SameFiles
<1> QED BY <1>1, ProcessLeaves

(* The step that bash runs is the next one of the history.                 *)
LEMMA RunStepKeeps ==
    ASSUME ExecutorInv, NEW s \in Sessions, NEW ran, RunStep(s, ran)
    PROVE  ExecutorInv'
<1> DEFINE st == Head(ex[s].todo)
           status == ran.status
           e == [ex[s] EXCEPT !.pc = "record", !.status = status]
           x == [step |-> st, status |-> status, porter |-> ran.porter, script |-> dir.script,
                 cleared |-> scan(dir.script, ex[s].approve).violations = {}, stale |-> ex[s].stale, swapped |-> ex[s].swapped]
           xs == Append(execs, x)
<1>1. /\ ex[s] \in Ex /\ dir \in Dir /\ execs \in Seq(Exec) /\ SessionOK(ex[s], dir, execs)
      /\ ex[s].pc = "run" /\ ex[s].todo # << >>
    BY DEF ExecutorInv, RunStep, SessionOK
<1>2. ex' = [ex EXCEPT ![s] = e] /\ execs' = xs /\ ran \in Runs(dir.script, PlanTools[st]) /\ UNCHANGED <<dir, race>>
    BY <1>1 DEF RunStep, ExecutorInv
<1>3. st \in Steps /\ PlanTools[st] \in Tools /\ st \in Nat
    BY <1>1, ExFields, ToolOfStep
<1>4. /\ status \in {"ok", "error", "timeout"} /\ ran.porter \in {dir.porter[PlanTools[st]], None}
      /\ dir.script \in {"compiled", "wrapper"} /\ status = "ok" => ran.porter = dir.porter[PlanTools[st]] /\ ran.porter # "gone"
    <2> HIDE DEF st
    <2>1. CASE ran \in {[porter |-> dir.porter[PlanTools[st]], status |-> z] : z \in build_script(PlanTools[st])}
        BY <2>1 DEF build_script
    <2>2. CASE ran \in {[porter |-> None, status |-> z] : z \in {"error", "timeout"}}
        BY <2>2
    <2>3. CASE dir.script \notin {"compiled", "wrapper"} /\ ran \in [porter : {dir.porter[PlanTools[st]], None}, status : {"ok"}]
        BY <2>3
    <2> QED BY <1>2, <2>1, <2>2, <2>3 DEF Runs
<1> HIDE DEF status
<1>5. status \in Statuses
    BY <1>4 DEF Statuses
<1>6. /\ e \in Ex /\ e.pc = "record" /\ e.status = status /\ e.ledger = ex[s].ledger /\ e.ran = ex[s].ran
      /\ e.body = ex[s].body /\ e.todo = ex[s].todo /\ e.approve = ex[s].approve /\ e.blessed = ex[s].blessed
      /\ e.swapped = ex[s].swapped
    BY <1>1, <1>5 DEF Ex
<1>7. /\ x \in Exec /\ x.step = st /\ x.status = status /\ x.porter = ran.porter /\ x.script = dir.script
      /\ x.stale = ex[s].stale /\ x.swapped = ex[s].swapped
      /\ x.cleared = (scan(dir.script, ex[s].approve).violations = {})
    <2>1. /\ dir.porter[PlanTools[st]] \in {"blessed", "mutated", "gone"} /\ dir.script \in Texts
          /\ ex[s].stale \in BOOLEAN /\ ex[s].swapped \in BOOLEAN
        BY <1>1, <1>3, DirFields, ExFields
    <2>2. ran.porter \in {"blessed", "mutated", "gone", None}
        BY <1>4, <2>1
    <2> HIDE DEF st
    <2> QED BY <1>3, <1>5, <2>1, <2>2 DEF Exec
<1>8. ~x.swapped => x.cleared /\ x.script = dir.bk
    <2> HIDE DEF x
    <2> QED BY <1>1, <1>7 DEF SessionOK
<1>9. x.porter = "mutated" => x.stale
    <2> HIDE DEF x
    <2> QED BY <1>1, <1>4, <1>7, PipelineAssumption DEF SessionOK
<1>10. x.script \in {"compiled", "wrapper"} /\ x.status = "ok" => x.porter \in {"blessed", "mutated"}
    <2>1. dir.porter[PlanTools[st]] \in {"blessed", "mutated", "gone"}
        BY <1>1, <1>3, DirFields
    <2> HIDE DEF x, st
    <2> QED BY <1>4, <1>7, <2>1
<1> HIDE DEF e, x
<1>11. /\ xs \in Seq(Exec) /\ Len(xs) = Len(execs) + 1 /\ Len(execs) \in Nat /\ xs[Len(execs) + 1] = x
       /\ \A i \in 1..Len(execs) : xs[i] = execs[i]
       /\ \A i \in 1..Len(xs) : i \in 1..Len(execs) \/ i = Len(execs) + 1
       /\ \A u : RanOkIn(u, execs) => RanOkIn(u, xs)
       /\ \A l : LinesRan(l, execs) => LinesRan(l, xs)
    BY <1>1, <1>7, HistoryGrows
<1> HIDE DEF xs, st
<1>12. ex' \in [Sessions -> Ex] /\ ex'[s] = e /\ \A t \in Sessions \ {s} : ex'[t] = ex[t]
    BY <1>2, <1>6 DEF ExecutorInv
<1>13. ASSUME NEW t \in Sessions PROVE SessionOK(ex'[t], dir, xs)
    <2>1. CASE t = s
        <3>1. status = "ok" => RanOkIn(st, xs)
            <4>1. Len(execs) + 1 \in 1..Len(xs)
                BY <1>11
            <4> QED BY <1>7, <1>11, <4>1 DEF RanOkIn
        <3> QED BY <1>1, <1>5, <1>6, <1>11, <1>12, <2>1, <3>1 DEF SessionOK, st
    <2>2. CASE t # s
        <3>1. ex'[t] = ex[t] /\ SessionOK(ex[t], dir, execs)
            BY <1>12, <2>2 DEF ExecutorInv
        <3> QED BY <1>11, <3>1 DEF SessionOK
    <2> QED BY <2>1, <2>2
<1>14. ASSUME NEW k \in 1..Len(xs) PROVE ExecOK(k, dir, xs)
    <2>1. CASE k \in 1..Len(execs)
        <3>1. ExecOK(k, dir, execs) /\ xs[k] = execs[k] /\ \A i \in 1..(k - 1) : xs[i] = execs[i]
            BY <1>11, <2>1 DEF ExecutorInv
        <3> QED BY <3>1 DEF ExecOK
    <2>2. CASE k = Len(execs) + 1
        <3>1. xs[k] = x /\ k - 1 = Len(execs)
            BY <1>11, <2>2
        <3>2. \A u \in 1..(st - 1) : RanOkIn(u, execs)
            BY <1>1 DEF SessionOK, st
        <3>3. \A u \in 1..(x.step - 1) : \E i \in 1..(k - 1) : xs[i].step = u /\ xs[i].status = "ok"
            BY <1>7, <1>11, <3>1, <3>2 DEF RanOkIn
        <3> QED BY <1>8, <1>9, <1>10, <3>1, <3>3 DEF ExecOK
    <2> QED BY <1>11, <2>1, <2>2
<1>15. ASSUME ~race PROVE Alone(ex', dir, xs)
    <2>1. Alone(ex, dir, execs)
        BY <1>15 DEF ExecutorInv
    <2>2. \A t \in Sessions : ex'[t].pc # "gone" => t = s
        BY <1>1, <1>12, <2>1 DEF Alone
    <2>3. ASSUME NEW k \in 1..Len(xs)
          PROVE  InLedger(LedgerLine(xs[k].step, xs[k].status), dir.ledger) \/ \E t \in Sessions : Pending(ex'[t], xs[k])
        <3>1. CASE k \in 1..Len(execs)
            <4>1. \A t \in Sessions : ~Pending(ex[t], execs[k])
                BY <1>1, <2>1 DEF Alone, Pending
            <4> QED BY <1>11, <2>1, <3>1, <4>1 DEF Alone
        <3>2. CASE k = Len(execs) + 1
            BY <1>6, <1>7, <1>11, <1>12, <3>2 DEF Pending, st
        <3> QED BY <1>11, <3>1, <3>2
    <2>4. e.ledger = dir.ledger
        BY <1>1, <1>6, <2>1 DEF Alone
    <2> QED BY <1>12, <2>2, <2>3, <2>4 DEF Alone
<1> QED BY <1>1, <1>2, <1>11, <1>12, <1>13, <1>14, <1>15 DEF ExecutorInv

LEMMA RecordStepKeeps ==
    ASSUME ExecutorInv, NEW s \in Sessions, RecordStep(s)
    PROVE  ExecutorInv'
<1> DEFINE st == Head(ex[s].todo)
           l == ex[s].ledger
           rec == LedgerLine(st, ex[s].status)
           m == Append(l, rec)
           e == [ex[s] EXCEPT !.pc = "check", !.status = None, !.todo = Tail(@), !.ledger = m, !.ran = @ \cup {st}]
<1>1. /\ ex[s] \in Ex /\ dir \in Dir /\ l \in Seq(Line) /\ SessionOK(ex[s], dir, execs)
      /\ ex[s].pc = "record" /\ ex[s].todo # << >> /\ ex[s].status \in Statuses
    BY ExFields DEF ExecutorInv, RecordStep, SessionOK
<1>2. st \in Steps /\ st \in Nat /\ Tail(ex[s].todo) \in Seq(Steps)
    BY <1>1, ExFields, ToolOfStep
<1>3. rec \in Line /\ rec.step = st /\ rec.status = ex[s].status
    BY <1>1, <1>2 DEF LedgerLine, Line
<1>4. /\ dir' = [dir EXCEPT !.ledger = m] /\ UNCHANGED <<execs, race>>
      /\ rec.status = "ok" => ex' = [ex EXCEPT ![s] = e]
      /\ rec.status # "ok" => ex' = [ex EXCEPT ![s] = Gone]
    <2>1. dir' = [dir EXCEPT !.ledger = m] /\ UNCHANGED <<execs, race>>
        BY DEF RecordStep, Dumped
    <2>2. ASSUME rec.status = "ok" PROVE ex' = [ex EXCEPT ![s] = e]
        BY <2>2 DEF RecordStep, Dumped
    <2>3. ASSUME rec.status # "ok" PROVE ex' = [ex EXCEPT ![s] = Gone]
        BY <2>3 DEF RecordStep, Dumped
    <2> QED BY <2>1, <2>2, <2>3
<1> HIDE DEF rec
<1>5. /\ m \in Seq(Line) /\ Len(m) = Len(l) + 1 /\ Len(l) \in Nat /\ m[Len(l) + 1] = rec
      /\ \A i \in 1..Len(l) : m[i] = l[i] /\ i \in 1..Len(m)
      /\ \A i \in 1..Len(m) : i \in 1..Len(l) \/ i = Len(l) + 1
      /\ Len(l) + 1 \in 1..Len(m)
    BY <1>1, <1>3
<1> HIDE DEF m
<1>6. dir' \in Dir /\ dir'.ledger = m /\ SameFiles(dir, dir')
    BY <1>1, <1>4, <1>5, LedgerTyped
<1>7. ex[s].status = "ok" => RanOkIn(st, execs)
    BY <1>1 DEF SessionOK
<1>8. LinesRan(m, execs)
    BY <1>1, <1>3, <1>5, <1>7 DEF SessionOK, LinesRan
<1>9. /\ e \in Ex /\ e.pc = "check" /\ e.ledger = m /\ e.ran = ex[s].ran \cup {st} /\ e.body = ex[s].body
      /\ e.approve = ex[s].approve /\ e.blessed = ex[s].blessed /\ e.swapped = ex[s].swapped
    <2> HIDE DEF st
    <2> QED BY <1>1, <1>2, <1>5 DEF Ex
<1> HIDE DEF e, st
<1>10. ASSUME ~race PROVE InLedger(rec, m) /\ \A x : InLedger(x, dir.ledger) => InLedger(x, m)
    <2>1. l = dir.ledger
        BY <1>1, <1>10 DEF ExecutorInv, Alone
    <2> QED BY <1>5, <2>1 DEF InLedger
<1>11. rec = LedgerLine(Head(ex[s].todo), ex[s].status)
    BY DEF rec, st
<1>12. CASE rec.status = "ok"
    <2>1. ex' = [ex EXCEPT ![s] = e]
        BY <1>4, <1>12
    <2>2. SessionOK(e, dir', execs)
        <3>1. dir'.script = dir.script /\ dir'.bk = ex[s].body
            BY <1>1, <1>4 DEF SessionOK, Dir
        <3> QED BY <1>1, <1>3, <1>7, <1>8, <1>9, <1>12, <3>1 DEF SessionOK
    <2> QED BY <1>1, <1>4, <1>6, <1>8, <1>9, <1>10, <1>11, <2>1, <2>2, ProcessMoves
<1>13. CASE rec.status # "ok"
    <2>1. ex' = [ex EXCEPT ![s] = Gone]
        BY <1>4, <1>13
    <2>2. Gone \in Ex /\ Gone.pc = "gone" /\ SessionOK(Gone, dir', execs)
        BY GoneOK
    <2> HIDE DEF Gone
    <2> QED BY <1>1, <1>4, <1>6, <1>8, <1>10, <1>11, <2>1, <2>2, ProcessMoves
<1> QED BY <1>12, <1>13

LEMMA ExecutorStart == PipelineInit => ExecutorInv
<1> SUFFICES ASSUME PipelineInit PROVE ExecutorInv
    OBVIOUS
<1>1. dir \in Dir /\ dir.ledger = << >>
    BY DEF PipelineInit, Dir, Texts, Tools
<1>2. Gone \in Ex /\ Gone.pc = "gone" /\ SessionOK(Gone, dir, execs)
    BY GoneOK
<1> HIDE DEF Gone
<1>3. ex = [s \in Sessions |-> Gone] /\ execs = << >> /\ execs \in Seq(Exec) /\ Len(execs) = 0 /\ race = FALSE
    BY DEF PipelineInit
<1>4. Alone(ex, dir, execs)
    BY <1>2, <1>3 DEF Alone
<1>5. LinesRan(dir.ledger, execs)
    BY <1>1 DEF LinesRan
<1>6. \A k \in 1..Len(execs) : ExecOK(k, dir, execs)
    BY <1>3
<1>7. ex \in [Sessions -> Ex] /\ \A s \in Sessions : SessionOK(ex[s], dir, execs)
    BY <1>2, <1>3
<1> QED BY <1>1, <1>3, <1>4, <1>5, <1>6, <1>7 DEF ExecutorInv

LEMMA ExecutorStep ==
    ExecutorInv /\ [ExecutorNext \/ ClientNext]_pipeVars => ExecutorInv'
<1> SUFFICES ASSUME ExecutorInv, [ExecutorNext \/ ClientNext]_pipeVars PROVE ExecutorInv'
    OBVIOUS
<1>1. CASE UNCHANGED pipeVars \/ ClientNext
    <2>1. UNCHANGED <<dir, ex, execs, race>>
        BY <1>1 DEF pipeVars, ClientNext
    <2> QED BY <2>1 DEF ExecutorInv
<1>2. ASSUME NEW s \in Sessions, NEW root \in BOOLEAN, Admit(s, root) PROVE ExecutorInv'
    <2>1. ex[s].pc = "gate" /\ UNCHANGED <<execs, race>> /\ (GateRefuses(s, root) \/ GatePasses(s))
        BY <1>2 DEF Admit
    <2> QED BY <2>1, GateRefusesKeeps, GatePassesKeeps
<1>3. CASE ExecutorNext
    BY <1>2, <1>3, BeginKeeps, CheckStepKeeps, FinishedKeeps, RecordStepKeeps, KillKeeps, RunStepKeeps, AnyEditKeeps DEF ExecutorNext
<1> QED BY <1>1, <1>3

(* The client: while it asks, every step it lists so far succeeded.        *)
Kinds == {"ok", "error", "refused", "signed refusal"}
Outcome == [step : Steps, kind : Kinds]
ClientRec ==
    [pc : {"fetch", "ask", "over"}, delegated : BOOLEAN, doctored : BOOLEAN, server : {"same", "other", "drift"},
     mine : {"same", "other", "drift"}, meddled : BOOLEAN, found : {"none", "server_drift", "verified", "drift"}, step : Steps,
     results : Seq(Outcome), granted : SUBSET Steps, ran : SUBSET Steps, exit : {0, 2, None}]

Success(c) ==
    /\ ~c.doctored
    /\ \A i \in 1..Len(c.results) : c.results[i].kind \in {"ok", "error"}
    /\ Len(c.results) = Len(PlanTools) \/ c.results[Len(c.results)].kind = "error"
ClientOK(c) ==
    /\ c \in ClientRec
    /\ c.pc # "over" => c.exit = None
    /\ c.pc = "fetch" => c.results = << >> /\ c.step = 1
    /\ c.pc = "ask" => Len(c.results) = c.step - 1 /\ \A i \in 1..Len(c.results) : c.results[i].kind = "ok"
    /\ c.exit = 0 => Success(c)
    /\ c.ran \subseteq c.granted /\ (c.delegated => c.ran = {})
    /\ c.found = "verified" /\ ~c.meddled /\ c.pc = "fetch" => c.mine = c.server /\ c.mine # "drift"

LEMMA ResultListed ==
    ASSUME ClientOK(client), client.pc = "ask", NEW kind \in Kinds
    PROVE  /\ Result(kind) \in Seq(Outcome) /\ Len(Result(kind)) = client.step /\ client.step \in Nat \ {0}
           /\ Result(kind)[client.step].kind = kind
           /\ \A i \in 1..(client.step - 1) : Result(kind)[i].kind = "ok"
           /\ \A i \in 1..client.step : i \in 1..(client.step - 1) \/ i = client.step
<1> DEFINE x == [step |-> client.step, kind |-> kind]
           q == client.results
<1>1. /\ client.step \in Steps /\ q \in Seq(Outcome) /\ Len(q) = client.step - 1
      /\ \A i \in 1..Len(q) : q[i].kind = "ok"
    BY DEF ClientOK, ClientRec
<1>2. client.step \in Nat \ {0}
    BY <1>1, PipelineAssumption DEF Steps
<1>3. x \in Outcome /\ x.kind = kind
    BY <1>1 DEF Outcome
<1> HIDE DEF x, q
<1>4. Append(q, x) \in Seq(Outcome) /\ Len(Append(q, x)) = Len(q) + 1 /\ Append(q, x)[Len(q) + 1] = x
      /\ \A i \in 1..Len(q) : Append(q, x)[i] = q[i]
    BY <1>1, <1>3
<1>5. Result(kind) = Append(q, x)
    BY DEF Result, q, x
<1> QED BY <1>1, <1>2, <1>3, <1>4, <1>5

(* The last answer is listed and the client is over, or it goes on.        *)
LEMMA AskEnds ==
    ASSUME ClientOK(client), client.pc = "ask", NEW kind \in Kinds, NEW c \in ClientRec,
           c.pc = "over", c.results = Result(kind), c.doctored = client.doctored, c.delegated = client.delegated,
           c.exit = IF blocked_run([error |-> FALSE, results |-> Result(kind)]) THEN 2 ELSE 0,
           kind = "ok" => client.step = Len(PlanTools), client.doctored => kind = "refused",
           c.ran \subseteq c.granted, c.delegated => c.ran = {}
    PROVE  ClientOK(c)
<1>1. DOMAIN Result(kind) = 1..client.step /\ client.step \in 1..client.step
    BY ResultListed
<1>2. c.exit = 0 => kind \in {"ok", "error"}
    <2> DEFINE out == [error |-> FALSE, results |-> Result(kind)]
    <2>1. out.results = Result(kind)
        OBVIOUS
    <2>2. client.step \in DOMAIN out.results /\ out.results[client.step].kind = kind
        BY <1>1, <2>1, ResultListed
    <2> HIDE DEF out
    <2>3. kind \in {"refused", "signed refusal"} => blocked_run(out)
        BY <2>2 DEF blocked_run
    <2>4. c.exit = IF blocked_run(out) THEN 2 ELSE 0
        BY DEF out
    <2>5. kind \in {"refused", "signed refusal"} => c.exit = 2
        BY <2>3, <2>4, Zenon
    <2>6. kind \in {"ok", "error"} \/ kind \in {"refused", "signed refusal"}
        BY DEF Kinds
    <2>7. 2 # 0
        OBVIOUS
    <2> QED BY <2>5, <2>6, <2>7, Zenon
<1>3. c.exit = 0 => Success(c)
    BY <1>2, ResultListed DEF Success
<1> QED BY <1>3 DEF ClientOK

LEMMA AskGoesOn ==
    ASSUME ClientOK(client), client.pc = "ask", client.step < Len(PlanTools), NEW c \in ClientRec,
           c.pc = "ask", c.results = Result("ok"), c.step = client.step + 1, c.exit = client.exit, c.delegated = client.delegated,
           c.ran \subseteq c.granted, c.delegated => c.ran = {}
    PROVE  ClientOK(c)
<1>1. "ok" \in Kinds
    BY DEF Kinds
<1>2. /\ Len(Result("ok")) = client.step /\ client.step \in Nat /\ \A i \in 1..client.step : Result("ok")[i].kind = "ok"
    BY <1>1, ResultListed
<1>3. c.exit = None /\ None # 0
    BY PipelineAssumption DEF ClientOK
<1> QED BY <1>2, <1>3 DEF ClientOK

LEMMA AskKeeps ==
    ASSUME ClientOK(client), AskStep
    PROVE  ClientOK(client')
<1> DEFINE n == Len(PlanTools)
<1>0. /\ client \in ClientRec /\ client.pc = "ask" /\ client.step \in Steps /\ client.step \in Nat /\ n \in Nat
      /\ client.ran \subseteq client.granted /\ client.granted \in SUBSET Steps /\ client.delegated \in BOOLEAN
      /\ (client.delegated => client.ran = {}) /\ client.step <= n
    BY PipelineAssumption DEF ClientOK, ClientRec, AskStep, Steps
<1>1. ASSUME NEW kind \in Kinds, client.doctored => kind = "refused", kind = "ok" => client.step = n, Finish(FALSE, Result(kind))
      PROVE  ClientOK(client')
    <2> DEFINE q == Result(kind)
               v == IF blocked_run([error |-> FALSE, results |-> Result(kind)]) THEN 2 ELSE 0
    <2>1. q \in Seq(Outcome) /\ v \in {0, 2}
        BY <1>0, ResultListed
    <2>2. client' = [client EXCEPT !.pc = "over", !.results = q, !.exit = v]
        BY <1>1 DEF Finish
    <2> HIDE DEF q, v
    <2>3. /\ client' \in ClientRec /\ client'.pc = "over" /\ client'.results = q /\ client'.exit = v
          /\ client'.doctored = client.doctored /\ client'.delegated = client.delegated
          /\ client'.ran = client.ran /\ client'.granted = client.granted
        BY <1>0, <2>1, <2>2 DEF ClientRec
    <2> QED BY <1>0, <1>1, <2>3, AskEnds DEF q, v
<1>2. ASSUME NEW answer \in Answers, client.delegated, run_delegated(answer)
      PROVE  ClientOK(client')
    <2>1. CASE answer \notin {"ok", "error", "signed refusal"}
        <3>1. Finish(FALSE, Result("refused")) /\ "refused" \in Kinds
            BY <1>2, <2>1 DEF run_delegated, Kinds
        <3> QED BY <1>1, <3>1
    <2>2. CASE answer = "ok" /\ client.step < n
        <3> DEFINE q == Result("ok")
        <3>1. client' = [client EXCEPT !.step = client.step + 1, !.results = q]
            BY <1>2, <2>2 DEF run_delegated, build_plan
        <3>2. q \in Seq(Outcome) /\ client.step + 1 \in Steps
            <4>1. "ok" \in Kinds
                BY DEF Kinds
            <4>2. q \in Seq(Outcome)
                BY <1>0, <4>1, ResultListed
            <4>3. client.step + 1 \in Steps
                BY <1>0, <2>2 DEF Steps
            <4> QED BY <4>2, <4>3
        <3> HIDE DEF q
        <3>3. /\ client' \in ClientRec /\ client'.pc = "ask" /\ client'.results = q /\ client'.exit = client.exit
              /\ client'.step = client.step + 1 /\ client'.delegated = client.delegated
              /\ client'.ran = client.ran /\ client'.granted = client.granted
            BY <1>0, <3>1, <3>2 DEF ClientRec
        <3> QED BY <1>0, <2>2, <3>3, AskGoesOn DEF q
    <2>3. CASE answer \in {"ok", "error", "signed refusal"} /\ ~(answer = "ok" /\ client.step < n)
        <3>1. Finish(FALSE, Result(answer)) /\ answer \in Kinds /\ ~client.doctored /\ (answer = "ok" => client.step = n)
            <4>1. Finish(FALSE, Result(answer))
                BY <1>2, <2>3 DEF run_delegated, build_plan
            <4>2. answer \in Kinds /\ ~client.doctored
                BY <2>3 DEF Kinds, Answers
            <4>3. answer = "ok" => client.step = n
                BY <1>0, <2>3
            <4> QED BY <4>1, <4>2, <4>3
        <3> QED BY <1>1, <3>1
    <2> QED BY <2>1, <2>2, <2>3
<1>3. ASSUME NEW answer \in Answers, NEW exit \in {"ok", "error"}, ~client.delegated, run_governed(answer, exit)
      PROVE  ClientOK(client')
    <2>1. CASE answer # "grant"
        <3>1. Finish(FALSE, Result("refused")) /\ "refused" \in Kinds
            BY <1>3, <2>1 DEF run_governed, Kinds
        <3> QED BY <1>1, <3>1
    <2>2. CASE answer = "grant"
        <3> DEFINE q == Result(exit)
                   g == client.granted \cup {client.step}
                   r == client.ran \cup {client.step}
                   v == IF blocked_run([error |-> FALSE, results |-> Result(exit)]) THEN 2 ELSE 0
                   now == [client EXCEPT !.granted = g, !.ran = r, !.results = q]
        <3>0. exit \in Kinds /\ ~client.doctored
            BY <2>2 DEF Kinds, Answers
        <3>1. q \in Seq(Outcome) /\ g \in SUBSET Steps /\ r \subseteq g /\ v \in {0, 2}
            BY <1>0, <3>0, ResultListed
        <3>2. \/ exit = "ok" /\ client.step < n /\ client' = [now EXCEPT !.step = @ + 1]
              \/ ~(exit = "ok" /\ client.step < n)
                 /\ client' = [now EXCEPT !.pc = "over", !.exit = IF blocked_run([error |-> FALSE, results |-> now.results]) THEN 2 ELSE 0]
            BY <1>3, <2>2 DEF run_governed, build_plan
        <3> HIDE DEF q, g, r
        <3>3. now \in ClientRec /\ now.results = q /\ now.granted = g /\ now.ran = r /\ now.pc = "ask" /\ now.step = client.step
              /\ now.exit = client.exit /\ now.doctored = client.doctored /\ now.delegated = client.delegated
            BY <1>0, <3>1 DEF ClientRec
        <3> HIDE DEF now
        <3>4. CASE exit = "ok" /\ client.step < n /\ client' = [now EXCEPT !.step = @ + 1]
            <4>1. client.step + 1 \in Steps
                BY <1>0, <3>4 DEF Steps
            <4>2. /\ client' \in ClientRec /\ client'.pc = "ask" /\ client'.results = q /\ client'.exit = client.exit
                  /\ client'.step = client.step + 1 /\ client'.delegated = client.delegated
                  /\ client'.ran = r /\ client'.granted = g
                BY <3>3, <3>4, <4>1 DEF ClientRec
            <4>3. q = Result("ok")
                BY <3>4 DEF q
            <4> QED BY <1>0, <1>3, <3>1, <3>4, <4>2, <4>3, AskGoesOn
        <3>5. CASE /\ ~(exit = "ok" /\ client.step < n)
                   /\ client' = [now EXCEPT !.pc = "over", !.exit = IF blocked_run([error |-> FALSE, results |-> now.results]) THEN 2 ELSE 0]
            <4>1. client' = [now EXCEPT !.pc = "over", !.exit = v] /\ (exit = "ok" => client.step = n)
                BY <1>0, <3>3, <3>5 DEF q
            <4> HIDE DEF v
            <4>2. /\ client' \in ClientRec /\ client'.pc = "over" /\ client'.results = q /\ client'.exit = v
                  /\ client'.doctored = client.doctored /\ client'.delegated = client.delegated
                  /\ client'.ran = r /\ client'.granted = g
                BY <3>1, <3>3, <4>1 DEF ClientRec
            <4> QED BY <1>0, <1>3, <3>0, <3>1, <4>1, <4>2, AskEnds DEF q, v
        <3> QED BY <3>2, <3>4, <3>5
    <2> QED BY <2>1, <2>2
<1> QED BY <1>0, <1>2, <1>3 DEF AskStep

LEMMA OpenKeeps ==
    ASSUME ClientOK(client), NEW answer, NEW authorized \in BOOLEAN, Open(answer, authorized)
    PROVE  ClientOK(client')
<1>0. client \in ClientRec /\ client.pc = "fetch" /\ client.exit = None /\ client.results = << >> /\ client.step = 1
    BY DEF ClientOK, Open
<1>1. ASSUME NEW q \in Seq(Outcome), client' = [client EXCEPT !.pc = "over", !.results = q, !.exit = 2]
      PROVE  ClientOK(client')
    <2>1. /\ client' \in ClientRec /\ client'.pc = "over" /\ client'.exit = 2 /\ client'.ran = client.ran
          /\ client'.granted = client.granted /\ client'.delegated = client.delegated
        BY <1>0, <1>1 DEF ClientRec
    <2> QED BY <2>1 DEF ClientOK
<1>2. CASE client' = [client EXCEPT !.pc = "over", !.exit = 2]
    <2>1. /\ client' \in ClientRec /\ client'.pc = "over" /\ client'.exit = 2 /\ client'.ran = client.ran
          /\ client'.granted = client.granted /\ client'.delegated = client.delegated
        BY <1>0, <1>2 DEF ClientRec
    <2> QED BY <2>1 DEF ClientOK
<1>3. CASE Finish(TRUE, << >>)
    <2>1. blocked_run([error |-> TRUE, results |-> << >>])
        BY DEF blocked_run
    <2>2. client' = [client EXCEPT !.pc = "over", !.results = << >>, !.exit = 2] /\ << >> \in Seq(Outcome)
        BY <1>3, <2>1 DEF Finish
    <2> QED BY <1>1, <2>2
<1>4. CASE client' = [client EXCEPT !.pc = "ask"]
    <2>1. /\ client' \in ClientRec /\ client'.pc = "ask" /\ client'.exit = None /\ client'.ran = client.ran
          /\ client'.granted = client.granted /\ client'.delegated = client.delegated
          /\ client'.results = << >> /\ client'.step = 1
        BY <1>0, <1>4 DEF ClientRec
    <2>2. Len(client'.results) = 0
        BY <2>1
    <2> QED BY <2>1, <2>2, PipelineAssumption DEF ClientOK
<1> QED BY <1>2, <1>3, <1>4 DEF Open

LEMMA ClientStep ==
    ClientOK(client) /\ [ExecutorNext \/ ClientNext]_pipeVars => ClientOK(client')
<1> SUFFICES ASSUME ClientOK(client), [ExecutorNext \/ ClientNext]_pipeVars PROVE ClientOK(client')
    OBVIOUS
<1>1. CASE UNCHANGED client
    BY <1>1
<1>2. CASE Discover
    <2>1. /\ client \in ClientRec /\ client.pc = "fetch" /\ client.exit = None /\ client.results = << >> /\ client.step = 1
          /\ client' = [client EXCEPT !.found = discover(client.server, client.mine)]
        BY <1>2 DEF ClientOK, Discover
    <2>2. /\ discover(client.server, client.mine) \in {"none", "server_drift", "verified", "drift"}
          /\ discover(client.server, client.mine) = "verified" => client.mine = client.server /\ client.mine # "drift"
        BY DEF discover
    <2>3. /\ client' \in ClientRec /\ client'.pc = "fetch" /\ client'.exit = None /\ client'.ran = client.ran
          /\ client'.granted = client.granted /\ client'.delegated = client.delegated
          /\ client'.results = << >> /\ client'.step = 1 /\ client'.mine = client.mine /\ client'.server = client.server
          /\ client'.found = discover(client.server, client.mine)
        BY <2>1, <2>2 DEF ClientRec
    <2> QED BY <2>2, <2>3, PipelineAssumption DEF ClientOK
<1>3. CASE ChangeRegistry
    <2>1. PICK m \in {"same", "other", "drift"} : client' = [client EXCEPT !.mine = m, !.meddled = TRUE]
        BY <1>3 DEF ChangeRegistry
    <2>2. client \in ClientRec
        BY DEF ClientOK
    <2>3. /\ client' \in ClientRec /\ client'.pc = client.pc /\ client'.exit = client.exit /\ client'.ran = client.ran
          /\ client'.granted = client.granted /\ client'.delegated = client.delegated /\ client'.doctored = client.doctored
          /\ client'.results = client.results /\ client'.step = client.step /\ client'.meddled = TRUE
        BY <2>1, <2>2 DEF ClientRec
    <2> QED BY <2>3 DEF ClientOK, Success
<1>4. CASE ClientNext
    BY <1>2, <1>3, <1>4, AskKeeps, OpenKeeps DEF ClientNext
<1>5. CASE ExecutorNext
    BY <1>1, <1>5 DEF ExecutorNext, Begin, Admit, CheckStep, Finished, RecordStep, Kill, RunStep, Compile, _prepare, Meddle, EditFile
<1> QED BY <1>1, <1>4, <1>5 DEF pipeVars

LEMMA ClientStart == ClientInit => ClientOK(client)
<1> SUFFICES ASSUME ClientInit PROVE ClientOK(client)
    OBVIOUS
<1>1. PICK delegated, doctored \in BOOLEAN, server, mine \in {"same", "other", "drift"} :
        client = [pc |-> "fetch", delegated |-> delegated, doctored |-> doctored, server |-> server, mine |-> mine, meddled |-> FALSE,
                  found |-> "none", step |-> 1, results |-> << >>, granted |-> {}, ran |-> {}, exit |-> None]
    BY DEF ClientInit
<1>2. 1 \in Steps /\ << >> \in Seq(Outcome)
    BY PipelineAssumption DEF Steps
<1>3. /\ client \in ClientRec /\ client.pc = "fetch" /\ client.exit = None /\ client.ran = {} /\ client.found = "none"
      /\ client.results = << >> /\ client.step = 1
    BY <1>1, <1>2 DEF ClientRec
<1> QED BY <1>3, PipelineAssumption DEF ClientOK

LEMMA PipelineHolds == ExecutorInv /\ ClientOK(client) => BlessedStepsOnly
<1> SUFFICES ASSUME ExecutorInv, ClientOK(client) PROVE BlessedStepsOnly
    OBVIOUS
<1>0. execs \in Seq(Exec) /\ dir.ledger \in Seq(Line)
    BY DirFields DEF ExecutorInv
<1>1. DOMAIN execs = 1..Len(execs) /\ DOMAIN dir.ledger = 1..Len(dir.ledger)
    BY <1>0
<1>2. UpstreamRan /\ RanAsChecked
    <2>1. \A k \in 1..Len(execs) : ExecOK(k, dir, execs)
        BY DEF ExecutorInv
    <2>2. UpstreamRan
        BY <1>1, <2>1 DEF UpstreamRan, ExecOK
    <2>3. RanAsChecked
        BY <1>1, <2>1 DEF RanAsChecked, ExecOK
    <2> QED BY <2>2, <2>3
<1>3. RecordedUnlessRaced
    BY <1>1 DEF RecordedUnlessRaced, ExecutorInv, Alone, InLedger, Pending
<1>4. client \in ClientRec /\ DOMAIN client.results = 1..Len(client.results)
    BY DEF ClientOK, ClientRec
<1>5. ClientHonest
    BY <1>4 DEF ClientOK, Success, ClientHonest, Last, _verify_registry, build_plan
<1> QED BY <1>2, <1>3, <1>5 DEF BlessedStepsOnly

(* executor.main and govd_client: for any plan, any number of executors    *)
(* and any edits of the script, the porters and the index, a step runs     *)
(* only behind its upstream steps; the script bash opens for it is one     *)
(* oversight clears, and the snapshotted one, unless the script was edited *)
(* since its executor read it before the first step (an edit before the    *)
(* last step of --all goes unscanned: no later check looks at the script); *)
(* its porter is the blessed one unless a file was edited since that       *)
(* step's own check; what ran is recorded unless executors raced; and the  *)
(* client exits 0 only on a run that went through or failed in the open.   *)
THEOREM BlessedStepsRun == PipelineSpec => []BlessedStepsOnly
<1>1. PipelineInit /\ ClientInit => ExecutorInv /\ ClientOK(client)
    BY ExecutorStart, ClientStart
<1>2. ExecutorInv /\ ClientOK(client) /\ [ExecutorNext \/ ClientNext]_pipeVars => (ExecutorInv /\ ClientOK(client))'
    BY ExecutorStep, ClientStep
<1> QED BY <1>1, <1>2, PipelineHolds, PTL DEF PipelineSpec

-----------------------------------------------------------------------------
(* The store tiers: operations side by side, and debits that overlap.      *)
TiersSpec ==
    /\ \E grouped, sharing \in BOOLEAN : TiersInit(grouped) /\ DebitInit(sharing)
    /\ [][LockstepNext \/ DebitNext]_tierVars

LeasesOK(l) ==
    /\ l = [k \in DOMAIN l |-> l[k]] /\ DOMAIN l \subseteq {"w"}
    /\ \A k \in DOMAIN l : l[k] \in [holder : Handlers, exp : Int]
TablesOK(db) ==
    /\ db = [origin |-> db.origin, rows |-> db.rows, decisions |-> db.decisions, values |-> db.values, leases |-> db.leases,
             budget |-> db.budget]
    /\ LeasesOK(db.leases)

TablesInv ==
    /\ tiers = [conf |-> tiers.conf, sq |-> tiers.sq, pg |-> tiers.pg, agree |-> tiers.agree, time |-> tiers.time, ops |-> tiers.ops]
    /\ tiers.conf \in BOOLEAN /\ tiers.agree = TRUE /\ tiers.time \in Nat
    /\ tiers.conf => tiers.sq = tiers.pg /\ TablesOK(tiers.sq)
    /\ ~tiers.conf => tiers.pg = EmptyTables

LEMMA TablesSet ==
    ASSUME NEW db, TablesOK(db), NEW x
    PROVE  /\ TablesOK([db EXCEPT !.origin = x]) /\ TablesOK([db EXCEPT !.rows = x]) /\ TablesOK([db EXCEPT !.decisions = x])
           /\ TablesOK([db EXCEPT !.values = x]) /\ TablesOK([db EXCEPT !.budget = x])
           /\ LeasesOK(x) => TablesOK([db EXCEPT !.leases = x])
BY DEF TablesOK

(* No row is the absent one, and a lease once written is the one row.      *)
LEMMA EmptyFunction == ASSUME NEW g PROVE [k \in {} |-> g[k]] = << >>
OBVIOUS

LEMMA EmptyLeases == LeasesOK(<< >>)
BY DEF LeasesOK

LEMMA UpsertLease ==
    ASSUME NEW l, LeasesOK(l), NEW r \in [holder : Handlers, exp : Int]
    PROVE  LeasesOK(Upsert(l, "w", r)) /\ Upsert(l, "w", r) = [k \in {"w"} |-> r]
BY DEF LeasesOK, Upsert

LEMMA InsertTells ==
    ASSUME NEW t, NEW k, NEW v
    PROVE  Status(t, InsertNew(t, k, v)) = IF k \notin DOMAIN t THEN "indexed" ELSE "duplicate"
<1>1. CASE k \in DOMAIN t
    BY <1>1 DEF Status, InsertNew
<1>2. CASE k \notin DOMAIN t
    <2>1. DOMAIN Upsert(t, k, v) = DOMAIN t \cup {k}
        BY DEF Upsert
    <2>2. Upsert(t, k, v) # t
        BY <1>2, <2>1
    <2> QED BY <1>2, <2>2 DEF Status, InsertNew
<1> QED BY <1>1, <1>2

LEMMA AnsFields == ASSUME NEW db, NEW ans PROVE Ans(db, ans).db = db /\ Ans(db, ans).ans = ans
BY DEF Ans

LEMMA AnsSame ==
    ASSUME NEW s, NEW p, NEW db, NEW ans, s = Ans(db, ans), p = Ans(db, ans), TablesOK(db)
    PROVE  s = p /\ s.db = p.db /\ s.ans = p.ans /\ TablesOK(s.db)
<1>1. s.db = db
    BY AnsFields
<1>2. TablesOK(s.db)
    BY <1>1
<1> QED BY <1>2

(* An operation on equal tables: the same tables and the same answer.      *)
LEMMA IndexOpsAgree ==
    ASSUME NEW conf \in BOOLEAN, conf, NEW db, TablesOK(db), NEW r, NEW n, NEW step
    PROVE  /\ set_origin(db, r, n) = pg_set_origin(conf, db, r, n) /\ TablesOK(set_origin(db, r, n).db)
           /\ record_values(db, r, step, n) = pg_record_values(conf, db, r, step, n) /\ TablesOK(record_values(db, r, step, n).db)
           /\ index_decision(db, r) = pg_index_decision(conf, db, r) /\ TablesOK(index_decision(db, r).db)
<1>1. set_origin(db, r, n) = pg_set_origin(conf, db, r, n) /\ TablesOK(set_origin(db, r, n).db)
    BY TablesSet DEF set_origin, pg_set_origin, Ans
<1>2. index_decision(db, r) = pg_index_decision(conf, db, r) /\ TablesOK(index_decision(db, r).db)
    BY TablesSet DEF index_decision, pg_index_decision, Ans
<1>3. record_values(db, r, step, n) = pg_record_values(conf, db, r, step, n) /\ TablesOK(record_values(db, r, step, n).db)
    BY TablesSet, InsertTells DEF record_values, pg_record_values, Ans
<1> QED BY <1>1, <1>2, <1>3

LEMMA ResetAgrees ==
    ASSUME NEW conf \in BOOLEAN, conf, NEW db, TablesOK(db)
    PROVE  reset(db) = pg_reset(conf, db) /\ TablesOK(reset(db).db)
<1> DEFINE kept == [origin |-> << >>, rows |-> << >>, decisions |-> << >>, values |-> << >>, leases |-> db.leases, budget |-> db.budget]
           l1 == [EmptyTables EXCEPT !.leases = db.leases]
           p1 == [db EXCEPT !.rows = << >>]
           p2 == [p1 EXCEPT !.decisions = << >>]
           p3 == [p2 EXCEPT !.origin = << >>]
<1>1. [EmptyTables EXCEPT !.leases = db.leases, !.budget = db.budget] = kept
    <2>1. l1 = [origin |-> << >>, rows |-> << >>, decisions |-> << >>, values |-> << >>, leases |-> db.leases, budget |-> << >>]
        BY DEF EmptyTables
    <2>2. [EmptyTables EXCEPT !.leases = db.leases, !.budget = db.budget] = [l1 EXCEPT !.budget = db.budget]
        OBVIOUS
    <2> HIDE DEF l1
    <2>3. [l1 EXCEPT !.budget = db.budget] = kept
        BY <2>1
    <2> QED BY <2>2, <2>3
<1>2. [db EXCEPT !.rows = << >>, !.decisions = << >>, !.origin = << >>, !.values = << >>] = kept
    <2>1. [db EXCEPT !.rows = << >>, !.decisions = << >>, !.origin = << >>, !.values = << >>] = [p3 EXCEPT !.values = << >>]
        OBVIOUS
    <2>2. p1 = [origin |-> db.origin, rows |-> << >>, decisions |-> db.decisions, values |-> db.values, leases |-> db.leases,
                budget |-> db.budget]
        BY DEF TablesOK
    <2> HIDE DEF p1
    <2>3. p2 = [origin |-> db.origin, rows |-> << >>, decisions |-> << >>, values |-> db.values, leases |-> db.leases,
                budget |-> db.budget]
        BY <2>2
    <2> HIDE DEF p2
    <2>4. p3 = [origin |-> << >>, rows |-> << >>, decisions |-> << >>, values |-> db.values, leases |-> db.leases,
                budget |-> db.budget]
        BY <2>3
    <2> HIDE DEF p3
    <2>5. [p3 EXCEPT !.values = << >>] = kept
        BY <2>4
    <2> QED BY <2>1, <2>5
<1>3. TablesOK(kept)
    BY DEF TablesOK
<1> HIDE DEF kept, l1, p1, p2, p3
<1>4. reset(db) = Ans(kept, None) /\ pg_reset(conf, db) = Ans(kept, None)
    BY <1>1, <1>2 DEF reset, pg_reset
<1>5. Ans(kept, None).db = kept
    BY AnsFields
<1>6. reset(db).db = kept
    BY <1>4, <1>5
<1>7. TablesOK(reset(db).db)
    BY <1>3, <1>6
<1> QED BY <1>4, <1>7

LEMMA BudgetOpsAgree ==
    ASSUME NEW conf \in BOOLEAN, conf, NEW db, TablesOK(db), NEW actor, NEW n, NEW idem
    PROVE  /\ budget_post(db, actor, n, idem) = pg_budget_post(conf, db, actor, n, idem)
           /\ TablesOK(budget_post(db, actor, n, idem).db)
           /\ budget_debit_atomic(db, actor, n, idem) = pg_budget_debit_atomic(conf, db, actor, n, idem)
           /\ TablesOK(budget_debit_atomic(db, actor, n, idem).db)
<1>1. /\ budget_post(db, actor, n, idem) = pg_budget_post(conf, db, actor, n, idem)
      /\ TablesOK(budget_post(db, actor, n, idem).db)
    BY TablesSet DEF budget_post, pg_budget_post, Ans
<1>2. /\ budget_debit_atomic(db, actor, n, idem) = pg_budget_debit_atomic(conf, db, actor, n, idem)
      /\ TablesOK(budget_debit_atomic(db, actor, n, idem).db)
    BY TablesSet DEF budget_debit_atomic, pg_budget_debit_atomic, Ans
<1> QED BY <1>1, <1>2

LEMMA AcquireAgrees ==
    ASSUME NEW conf \in BOOLEAN, conf, NEW db, TablesOK(db), NEW h \in Handlers, NEW time \in Nat
    PROVE  /\ try_acquire_lease(db, h, 1, time) = pg_try_acquire_lease(conf, db, h, 1, time)
           /\ TablesOK(try_acquire_lease(db, h, 1, time).db)
<1> DEFINE l == db.leases
           row == Fetch(l, "w")
           new == [db EXCEPT !.leases = Upsert(l, "w", LeaseRow(h, time + 1))]
<1>1. LeasesOK(l) /\ LeaseRow(h, time + 1) \in [holder : Handlers, exp : Int]
    BY DEF TablesOK, LeaseRow
<1>2. TablesOK(new)
    BY <1>1, UpsertLease, TablesSet
<1>3. (row # None /\ row.holder # h /\ row.exp > time) <=> ~(row = None \/ row.exp <= time \/ row.holder = h)
    <2>1. row # None => row.exp \in Int
        BY <1>1 DEF LeasesOK, Fetch
    <2> HIDE DEF row
    <2> QED BY <2>1
<1> HIDE DEF new, row
<1>4. CASE row # None /\ row.holder # h /\ row.exp > time
    <2> DEFINE a == [acquired |-> FALSE, holder |-> row.holder, exp |-> row.exp]
    <2>1. try_acquire_lease(db, h, 1, time) = Ans(db, a) /\ pg_try_acquire_lease(conf, db, h, 1, time) = Ans(db, a)
        BY <1>3, <1>4 DEF try_acquire_lease, pg_try_acquire_lease, row
    <2> HIDE DEF a
    <2> QED BY <2>1, AnsSame
<1>5. CASE ~(row # None /\ row.holder # h /\ row.exp > time)
    <2> DEFINE a == [acquired |-> TRUE, holder |-> h, exp |-> time + 1]
    <2>1. try_acquire_lease(db, h, 1, time) = Ans(new, a) /\ pg_try_acquire_lease(conf, db, h, 1, time) = Ans(new, a)
        BY <1>3, <1>5 DEF try_acquire_lease, pg_try_acquire_lease, row, new
    <2> HIDE DEF a
    <2> QED BY <1>2, <2>1, AnsSame
<1> QED BY <1>4, <1>5

Hit(l, h) == {k \in DOMAIN l : l[k].holder = h}
Held(l, h) == Fetch(l, "w") # None /\ Fetch(l, "w").holder = h
Without(l, h) == [k \in DOMAIN l \ Hit(l, h) |-> l[k]]
Renewed(l, h, r) == [k \in DOMAIN l |-> IF k \in Hit(l, h) THEN r ELSE l[k]]

LEMMA LeaseHit ==
    ASSUME NEW l, LeasesOK(l), NEW h \in Handlers, NEW r \in [holder : Handlers, exp : Int]
    PROVE  /\ Held(l, h) => Hit(l, h) # {} /\ Without(l, h) = << >> /\ Renewed(l, h, r) = Upsert(l, "w", r)
           /\ ~Held(l, h) => Hit(l, h) = {} /\ Without(l, h) = l /\ Renewed(l, h, r) = l
<1> DEFINE row == Fetch(l, "w")
           hit == {k \in DOMAIN l : l[k].holder = h}
<1>1. ASSUME row # None, row.holder = h
      PROVE  /\ hit # {} /\ [k \in DOMAIN l \ hit |-> l[k]] = << >>
             /\ [k \in DOMAIN l |-> IF k \in hit THEN r ELSE l[k]] = Upsert(l, "w", r)
    <2>1. "w" \in DOMAIN l /\ l["w"].holder = h
        BY <1>1 DEF Fetch
    <2>2. hit = {"w"} /\ DOMAIN l = {"w"} /\ DOMAIN l \ hit = {}
        BY <2>1 DEF LeasesOK
    <2>3. [k \in DOMAIN l \ hit |-> l[k]] = << >>
        BY <2>2, EmptyFunction
    <2>4. [k \in DOMAIN l |-> IF k \in hit THEN r ELSE l[k]] = [k \in {"w"} |-> r]
        BY <2>2
    <2> QED BY <2>2, <2>3, <2>4, UpsertLease
<1>2. ASSUME ~(row # None /\ row.holder = h)
      PROVE  /\ hit = {} /\ [k \in DOMAIN l \ hit |-> l[k]] = l
             /\ [k \in DOMAIN l |-> IF k \in hit THEN r ELSE l[k]] = l
    <2>1. hit = {}
        BY <1>2, StoreAssumption DEF LeasesOK, Fetch
    <2> QED BY <2>1 DEF LeasesOK
<1> QED BY <1>1, <1>2 DEF Hit, Held, Without, Renewed

LEMMA RenewAgrees ==
    ASSUME NEW conf \in BOOLEAN, conf, NEW db, TablesOK(db), NEW h \in Handlers, NEW time \in Nat
    PROVE  /\ renew_lease(db, h, 1, time).db = pg_renew_lease(conf, db, h, 1, time).db
           /\ renew_lease(db, h, 1, time).ans.renewed = pg_renew_lease(conf, db, h, 1, time).ans.renewed
           /\ TablesOK(renew_lease(db, h, 1, time).db)
<1> DEFINE l == db.leases
           row == Fetch(l, "w")
           r == LeaseRow(h, time + 1)
           hit == Hit(l, h)
           m == Renewed(l, h, r)
           new == [db EXCEPT !.leases = Upsert(l, "w", r)]
<1>1. LeasesOK(l) /\ r \in [holder : Handlers, exp : Int]
    BY DEF TablesOK, LeaseRow
<1>2. TablesOK(new)
    BY <1>1, UpsertLease, TablesSet
<1>3. /\ Held(l, h) => hit # {} /\ m = Upsert(l, "w", r)
      /\ ~Held(l, h) => hit = {} /\ m = l
    BY <1>1, LeaseHit
<1>4. pg_renew_lease(conf, db, h, 1, time) = Ans([db EXCEPT !.leases = m], [renewed |-> hit # {}, holder |-> IF hit # {} THEN h ELSE None])
    BY DEF pg_renew_lease, Hit, Renewed
<1>5. [db EXCEPT !.leases = l] = db
    BY DEF TablesOK
<1> HIDE DEF m, hit, r
<1>6. CASE Held(l, h)
    <2> DEFINE a == [renewed |-> TRUE, holder |-> h]
    <2>1. renew_lease(db, h, 1, time) = Ans(new, a)
        BY <1>6 DEF renew_lease, r, Held
    <2>2. pg_renew_lease(conf, db, h, 1, time) = Ans(new, a)
        BY <1>3, <1>4, <1>6
    <2> HIDE DEF new, a
    <2> QED BY <1>2, <2>1, <2>2, AnsSame
<1>7. CASE ~Held(l, h)
    <2> DEFINE a == [renewed |-> FALSE, holder |-> IF row = None THEN None ELSE row.holder]
               b == [renewed |-> FALSE, holder |-> None]
    <2>1. renew_lease(db, h, 1, time) = Ans(db, a)
        BY <1>7 DEF renew_lease, Held
    <2>2. pg_renew_lease(conf, db, h, 1, time) = Ans(db, b)
        BY <1>3, <1>4, <1>5, <1>7
    <2>3. a.renewed = FALSE /\ b.renewed = FALSE
        OBVIOUS
    <2> HIDE DEF a, b
    <2>4. Ans(db, a).db = db /\ Ans(db, a).ans = a /\ Ans(db, b).db = db /\ Ans(db, b).ans = b
        BY AnsFields
    <2>5. /\ renew_lease(db, h, 1, time).db = db /\ pg_renew_lease(conf, db, h, 1, time).db = db
          /\ renew_lease(db, h, 1, time).ans = a /\ pg_renew_lease(conf, db, h, 1, time).ans = b
        BY <2>1, <2>2, <2>4
    <2> QED BY <2>3, <2>5
<1> QED BY <1>6, <1>7

LEMMA ReleaseAgrees ==
    ASSUME NEW conf \in BOOLEAN, conf, NEW db, TablesOK(db), NEW h \in Handlers
    PROVE  release_lease(db, h) = pg_release_lease(conf, db, h) /\ TablesOK(release_lease(db, h).db)
<1> DEFINE l == db.leases
           row == Fetch(l, "w")
           hit == Hit(l, h)
           m == Without(l, h)
           none == [db EXCEPT !.leases = << >>]
<1>1. LeasesOK(l) /\ LeaseRow(h, 1) \in [holder : Handlers, exp : Int]
    BY DEF TablesOK, LeaseRow
<1>2. TablesOK(none)
    BY EmptyLeases, TablesSet
<1>3. /\ Held(l, h) => hit # {} /\ m = << >>
      /\ ~Held(l, h) => hit = {} /\ m = l
    BY <1>1, LeaseHit
<1>4. pg_release_lease(conf, db, h) = Ans([db EXCEPT !.leases = m], [released |-> hit # {}])
    BY DEF pg_release_lease, Hit, Without
<1>5. [db EXCEPT !.leases = l] = db
    BY DEF TablesOK
<1> HIDE DEF m, hit
<1>6. CASE Held(l, h)
    <2> DEFINE a == [released |-> TRUE]
    <2>1. release_lease(db, h) = Ans(none, a)
        BY <1>6 DEF release_lease, Held
    <2>2. pg_release_lease(conf, db, h) = Ans(none, a)
        BY <1>3, <1>4, <1>6
    <2> HIDE DEF none, a
    <2> QED BY <1>2, <2>1, <2>2, AnsSame
<1>7. CASE ~Held(l, h)
    <2> DEFINE a == [released |-> FALSE]
    <2>1. release_lease(db, h) = Ans(db, a)
        BY <1>7 DEF release_lease, Held
    <2>2. pg_release_lease(conf, db, h) = Ans(db, a)
        BY <1>3, <1>4, <1>5, <1>7
    <2> HIDE DEF a
    <2> QED BY <2>1, <2>2, AnsSame
<1> QED BY <1>6, <1>7

LEMMA UnconfiguredKeeps ==
    ASSUME NEW conf \in BOOLEAN, ~conf, NEW db, NEW r, NEW n, NEW d, NEW step, NEW h, NEW ttl, NEW time
    PROVE  /\ pg_set_origin(conf, db, r, n).db = db /\ pg_index_record(conf, db, r, n, d).db = db
           /\ pg_record_values(conf, db, r, step, n).db = db /\ pg_index_decision(conf, db, r).db = db /\ pg_reset(conf, db).db = db
           /\ pg_try_acquire_lease(conf, db, h, ttl, time).db = db /\ pg_renew_lease(conf, db, h, ttl, time).db = db
           /\ pg_release_lease(conf, db, h).db = db
           /\ pg_budget_post(conf, db, r, n, d).db = db /\ pg_budget_debit_atomic(conf, db, r, n, d).db = db
<1>1. /\ pg_set_origin(conf, db, r, n).db = db /\ pg_index_record(conf, db, r, n, d).db = db
      /\ pg_record_values(conf, db, r, step, n).db = db /\ pg_index_decision(conf, db, r).db = db /\ pg_reset(conf, db).db = db
    BY DEF pg_set_origin, pg_index_record, pg_record_values, pg_index_decision, pg_reset, Unconfigured, Ans
<1>2. /\ pg_try_acquire_lease(conf, db, h, ttl, time).db = db /\ pg_renew_lease(conf, db, h, ttl, time).db = db
      /\ pg_release_lease(conf, db, h).db = db
    BY DEF pg_try_acquire_lease, pg_renew_lease, pg_release_lease, Unconfigured, Ans
<1>3. pg_budget_post(conf, db, r, n, d).db = db /\ pg_budget_debit_atomic(conf, db, r, n, d).db = db
    BY DEF pg_budget_post, pg_budget_debit_atomic, Ans
<1> QED BY <1>1, <1>2, <1>3

LEMMA ApplyKeeps ==
    ASSUME TablesInv, NEW s, NEW p, NEW same, Apply(s, p, same),
           tiers.conf => s.db = p.db /\ same /\ TablesOK(s.db), ~tiers.conf => p.db = tiers.pg
    PROVE  TablesInv'
<1>1. tiers' = [tiers EXCEPT !.ops = @ + 1, !.sq = s.db, !.pg = p.db, !.agree = ~tiers.conf \/ same]
    BY DEF Apply
<1>2. (~tiers.conf \/ same) = TRUE
    BY DEF TablesInv
<1>3. tiers' = [tiers EXCEPT !.ops = @ + 1, !.sq = s.db, !.pg = p.db, !.agree = TRUE]
    BY <1>1, <1>2
<1>4. /\ tiers'.conf = tiers.conf /\ tiers'.sq = s.db /\ tiers'.pg = p.db /\ tiers'.agree = TRUE /\ tiers'.time = tiers.time
      /\ tiers' = [conf |-> tiers'.conf, sq |-> tiers'.sq, pg |-> tiers'.pg, agree |-> tiers'.agree, time |-> tiers'.time, ops |-> tiers'.ops]
    BY <1>3 DEF TablesInv
<1>5. CASE tiers.conf
    BY <1>4, <1>5 DEF TablesInv
<1>6. CASE ~tiers.conf
    BY <1>4, <1>6 DEF TablesInv
<1> QED BY <1>5, <1>6

LEMMA BothKeeps ==
    ASSUME TablesInv, NEW s, NEW p, Both(s, p),
           tiers.conf => s = p /\ TablesOK(s.db), ~tiers.conf => p.db = tiers.pg
    PROVE  TablesInv'
<1>1. Apply(s, p, s.ans = p.ans)
    BY DEF Both
<1>2. tiers.conf => s.db = p.db /\ (s.ans = p.ans) /\ TablesOK(s.db)
    OBVIOUS
<1> QED BY <1>1, <1>2, ApplyKeeps

LEMMA LockstepKeeps ==
    ASSUME TablesInv, LockstepNext
    PROVE  TablesInv'
<1>0. tiers.conf \in BOOLEAN /\ tiers.time \in Nat /\ (tiers.conf => tiers.sq = tiers.pg /\ TablesOK(tiers.sq))
    BY DEF TablesInv
<1>1. CASE IndexOp
    <2>1. PICK r \in StoreRuns, n \in {1, 2} :
            \/ Both(set_origin(tiers.sq, r, n), pg_set_origin(tiers.conf, tiers.pg, r, n))
            \/ \E d \in {"a", "b"} : Both(index_record(tiers.sq, r, n, d), pg_index_record(tiers.conf, tiers.pg, r, n, d))
            \/ \E step : Both(record_values(tiers.sq, r, step, n), pg_record_values(tiers.conf, tiers.pg, r, step, n))
        BY <1>1 DEF IndexOp
    <2>2. CASE Both(set_origin(tiers.sq, r, n), pg_set_origin(tiers.conf, tiers.pg, r, n))
        BY <1>0, <2>2, BothKeeps, IndexOpsAgree, UnconfiguredKeeps
    <2>3. ASSUME NEW d, Both(index_record(tiers.sq, r, n, d), pg_index_record(tiers.conf, tiers.pg, r, n, d))
          PROVE  TablesInv'
        <3>1. tiers.conf => /\ index_record(tiers.sq, r, n, d) = pg_index_record(tiers.conf, tiers.pg, r, n, d)
                            /\ TablesOK(index_record(tiers.sq, r, n, d).db)
            <4> SUFFICES ASSUME tiers.conf
                         PROVE  /\ index_record(tiers.sq, r, n, d) = pg_index_record(tiers.conf, tiers.sq, r, n, d)
                                /\ TablesOK(index_record(tiers.sq, r, n, d).db)
                BY <1>0
            <4>1. TablesOK(tiers.sq) /\ tiers.conf \in BOOLEAN
                BY <1>0
            <4> QED BY <4>1, TablesSet, InsertTells DEF index_record, pg_index_record, Ans
        <3>2. ~tiers.conf => pg_index_record(tiers.conf, tiers.pg, r, n, d).db = tiers.pg
            BY <1>0, UnconfiguredKeeps
        <3> QED BY <2>3, <3>1, <3>2, BothKeeps
    <2>4. ASSUME NEW step, Both(record_values(tiers.sq, r, step, n), pg_record_values(tiers.conf, tiers.pg, r, step, n))
          PROVE  TablesInv'
        BY <1>0, <2>4, BothKeeps, IndexOpsAgree, UnconfiguredKeeps
    <2> QED BY <2>1, <2>2, <2>3, <2>4
<1>2. CASE TableOp
    <2>1. ASSUME NEW r, Both(index_decision(tiers.sq, r), pg_index_decision(tiers.conf, tiers.pg, r))
          PROVE  TablesInv'
        BY <1>0, <2>1, BothKeeps, IndexOpsAgree, UnconfiguredKeeps
    <2>2. CASE Both(reset(tiers.sq), pg_reset(tiers.conf, tiers.pg))
        BY <1>0, <2>2, BothKeeps, ResetAgrees, UnconfiguredKeeps
    <2> QED BY <1>2, <2>1, <2>2 DEF TableOp
<1>3. CASE LeaseOp
    <2>1. PICK h \in Handlers :
            \/ Both(try_acquire_lease(tiers.sq, h, 1, tiers.time), pg_try_acquire_lease(tiers.conf, tiers.pg, h, 1, tiers.time))
            \/ Apply(renew_lease(tiers.sq, h, 1, tiers.time), pg_renew_lease(tiers.conf, tiers.pg, h, 1, tiers.time),
                     renew_lease(tiers.sq, h, 1, tiers.time).ans.renewed = pg_renew_lease(tiers.conf, tiers.pg, h, 1, tiers.time).ans.renewed)
            \/ Both(release_lease(tiers.sq, h), pg_release_lease(tiers.conf, tiers.pg, h))
        BY <1>3 DEF LeaseOp
    <2>2. CASE Both(try_acquire_lease(tiers.sq, h, 1, tiers.time), pg_try_acquire_lease(tiers.conf, tiers.pg, h, 1, tiers.time))
        BY <1>0, <2>2, BothKeeps, AcquireAgrees, UnconfiguredKeeps
    <2>3. CASE Apply(renew_lease(tiers.sq, h, 1, tiers.time), pg_renew_lease(tiers.conf, tiers.pg, h, 1, tiers.time),
                     renew_lease(tiers.sq, h, 1, tiers.time).ans.renewed = pg_renew_lease(tiers.conf, tiers.pg, h, 1, tiers.time).ans.renewed)
        <3>1. tiers.conf => /\ renew_lease(tiers.sq, h, 1, tiers.time).db = pg_renew_lease(tiers.conf, tiers.pg, h, 1, tiers.time).db
                            /\ (renew_lease(tiers.sq, h, 1, tiers.time).ans.renewed
                                  = pg_renew_lease(tiers.conf, tiers.pg, h, 1, tiers.time).ans.renewed)
                            /\ TablesOK(renew_lease(tiers.sq, h, 1, tiers.time).db)
            <4> SUFFICES ASSUME tiers.conf
                         PROVE  /\ renew_lease(tiers.sq, h, 1, tiers.time).db = pg_renew_lease(tiers.conf, tiers.sq, h, 1, tiers.time).db
                                /\ (renew_lease(tiers.sq, h, 1, tiers.time).ans.renewed
                                      = pg_renew_lease(tiers.conf, tiers.sq, h, 1, tiers.time).ans.renewed)
                                /\ TablesOK(renew_lease(tiers.sq, h, 1, tiers.time).db)
                BY <1>0
            <4> QED BY <1>0, RenewAgrees
        <3>2. ~tiers.conf => pg_renew_lease(tiers.conf, tiers.pg, h, 1, tiers.time).db = tiers.pg
            BY <1>0, UnconfiguredKeeps
        <3> QED BY <2>3, <3>1, <3>2, ApplyKeeps
    <2>4. CASE Both(release_lease(tiers.sq, h), pg_release_lease(tiers.conf, tiers.pg, h))
        <3>1. tiers.conf => /\ release_lease(tiers.sq, h) = pg_release_lease(tiers.conf, tiers.pg, h)
                            /\ TablesOK(release_lease(tiers.sq, h).db)
            BY <1>0, ReleaseAgrees
        <3>2. ~tiers.conf => pg_release_lease(tiers.conf, tiers.pg, h).db = tiers.pg
            BY <1>0, UnconfiguredKeeps
        <3> QED BY <2>4, <3>1, <3>2, BothKeeps
    <2> QED BY <2>1, <2>2, <2>3, <2>4
<1>4. CASE BudgetOp
    <2>1. PICK idem \in {"seed", "use1", "use2"}, n \in {1, 2} :
            \/ Both(budget_post(tiers.sq, "ann", n, idem), pg_budget_post(tiers.conf, tiers.pg, "ann", n, idem))
            \/ Both(budget_debit_atomic(tiers.sq, "ann", n, idem), pg_budget_debit_atomic(tiers.conf, tiers.pg, "ann", n, idem))
        BY <1>4 DEF BudgetOp
    <2>2. /\ tiers.conf => /\ budget_post(tiers.sq, "ann", n, idem) = pg_budget_post(tiers.conf, tiers.pg, "ann", n, idem)
                            /\ TablesOK(budget_post(tiers.sq, "ann", n, idem).db)
          /\ ~tiers.conf => pg_budget_post(tiers.conf, tiers.pg, "ann", n, idem).db = tiers.pg
        BY <1>0, BudgetOpsAgree, UnconfiguredKeeps
    <2>3. /\ tiers.conf =>
                /\ budget_debit_atomic(tiers.sq, "ann", n, idem) = pg_budget_debit_atomic(tiers.conf, tiers.pg, "ann", n, idem)
                /\ TablesOK(budget_debit_atomic(tiers.sq, "ann", n, idem).db)
          /\ ~tiers.conf => pg_budget_debit_atomic(tiers.conf, tiers.pg, "ann", n, idem).db = tiers.pg
        BY <1>0, BudgetOpsAgree, UnconfiguredKeeps
    <2> QED BY <2>1, <2>2, <2>3, BothKeeps
<1>5. CASE Clock
    <2>1. tiers' = [tiers EXCEPT !.time = tiers.time + 1]
        BY <1>5 DEF Clock
    <2> QED BY <1>0, <2>1 DEF TablesInv
<1> QED BY <1>1, <1>2, <1>3, <1>4, <1>5 DEF LockstepNext

LEMMA TablesInvAgrees == TablesInv => TablesAgree
BY DEF TablesInv, TablesAgree, pg_reads, pg_lease_holder, lease_holder

(* Debits.  A thread is at work on its connection from enter to exit; the  *)
(* connection counts them, by name of who entered.                         *)
Conns == {"cx"} \cup Handlers
AtWork == {"lock", "read", "insert", "inserted", "refused"}
Debit == [pc : {"enter", "raised", "ok", "no"} \cup AtWork, conn : Conns, overlapped : BOOLEAN]
Conn == [open : Seq(Handlers), rows : SUBSET Handlers]
ActiveOn(d, c) == {h \in Handlers : d[h].conn = c /\ d[h].pc \in AtWork}

DebitTypes(d, p, b) ==
    /\ d \in [Handlers -> Debit] /\ p \in [Conns -> Conn]
    /\ b = [balance |-> b.balance, rows |-> b.rows, lock |-> b.lock] /\ b.balance = Price
    /\ b.rows \in SUBSET Handlers /\ IsFiniteSet(b.rows) /\ \A c \in Conns : IsFiniteSet(p[c].rows)

(* Either everybody is on one connection or everybody has one, and then    *)
(* nobody overlaps.                                                        *)
OneOrOwn(d) == (\A h \in Handlers : d[h].conn = "cx") \/ (\A h \in Handlers : d[h].conn = h /\ ~d[h].overlapped)
Counted(d, p) ==
    \A c \in Conns : IsFiniteSet(ActiveOn(d, c)) /\ Cardinality(ActiveOn(d, c)) = Len(p[c].open)

(* A thread that overlapped nobody has its connection to itself, and the   *)
(* lock from the moment it took it; what it is about to commit, it decided *)
(* on rows that are still all there is, or some row is of an overlap.      *)
Tainted(d, b) == \E g \in b.rows : d[g].overlapped
Solitary(x, h, d, p, b) ==
    ~x.overlapped =>
      /\ x.pc \in AtWork => p[x.conn].open = <<h>>
      /\ x.pc \in AtWork \ {"lock"} => b.lock = x.conn
      /\ x.pc \in {"insert", "inserted"} => b.rows = {} \/ Tainted(d, b)
Uncommitted(d, p) ==
    \A c \in Conns : \A g \in p[c].rows : d[g].overlapped \/ (d[g].conn = c /\ d[g].pc = "inserted")

DebitOK(d, p, b) ==
    /\ DebitTypes(d, p, b) /\ OneOrOwn(d) /\ Counted(d, p) /\ Uncommitted(d, p)
    /\ \A h \in Handlers : Solitary(d[h], h, d, p, b)
    /\ b.rows = {} \/ (\E g \in Handlers : b.rows = {g}) \/ Tainted(d, b)
DebitInv == DebitOK(debit, pgconn, budgetdb)

LEMMA DebitFields ==
    ASSUME NEW x \in Debit
    PROVE  /\ x.pc \in {"enter", "raised", "ok", "no"} \cup AtWork /\ x.conn \in Conns /\ x.overlapped \in BOOLEAN
BY DEF Debit

LEMMA ConnFields == ASSUME NEW x \in Conn PROVE x.open \in Seq(Handlers) /\ x.rows \in SUBSET Handlers
BY DEF Conn

(* Whoever is at work alone is the only one at work on that connection.    *)
LEMMA AloneAtWork ==
    ASSUME NEW d, NEW p, NEW b, DebitOK(d, p, b), NEW h \in Handlers, NEW g \in Handlers, d[h].pc \in AtWork, d[g].pc \in AtWork,
           d[g].conn = d[h].conn, Len(p[d[h].conn].open) = 1
    PROVE  g = h
<1> DEFINE A == ActiveOn(d, d[h].conn)
<1>1. h \in A /\ g \in A /\ d[h].conn \in Conns
    BY DebitFields DEF ActiveOn, DebitOK, DebitTypes
<1>2. IsFiniteSet(A) /\ Cardinality(A) = 1
    BY <1>1 DEF DebitOK, Counted
<1>3. PICK x : A = {x}
    BY <1>2, FS_Singleton
<1> QED BY <1>1, <1>3

(* A step of h that leaves its connection and its overlap as they were.    *)
LEMMA PcMoves ==
    ASSUME DebitInv, NEW h \in Handlers, NEW pc \in AtWork, debit[h].pc \in AtWork,
           debit' = [debit EXCEPT ![h].pc = pc]
    PROVE  /\ debit' \in [Handlers -> Debit] /\ debit'[h].pc = pc
           /\ \A g \in Handlers : debit'[g].conn = debit[g].conn /\ debit'[g].overlapped = debit[g].overlapped
           /\ \A g \in Handlers \ {h} : debit'[g] = debit[g]
           /\ OneOrOwn(debit') /\ \A c \in Conns : ActiveOn(debit', c) = ActiveOn(debit, c)
           /\ \A x : x \subseteq Handlers => ((\E g \in x : debit'[g].overlapped) <=> (\E g \in x : debit[g].overlapped))
<1> DEFINE e == [debit[h] EXCEPT !.pc = pc]
<1>1. debit \in [Handlers -> Debit] /\ OneOrOwn(debit)
    BY DEF DebitInv, DebitOK, DebitTypes
<1>2. e \in Debit /\ e.pc = pc /\ e.conn = debit[h].conn /\ e.overlapped = debit[h].overlapped
    BY <1>1 DEF Debit
<1>3. debit' = [debit EXCEPT ![h] = e]
    BY <1>1
<1> HIDE DEF e
<1>4. debit' \in [Handlers -> Debit] /\ debit'[h] = e /\ \A g \in Handlers \ {h} : debit'[g] = debit[g]
    BY <1>1, <1>2, <1>3
<1>5. \A g \in Handlers : debit'[g].conn = debit[g].conn /\ debit'[g].overlapped = debit[g].overlapped
    BY <1>2, <1>4
<1>6. OneOrOwn(debit')
    BY <1>1, <1>5 DEF OneOrOwn
<1>7. \A g \in Handlers : debit'[g].pc \in AtWork <=> debit[g].pc \in AtWork
    BY <1>2, <1>4
<1>8. ASSUME NEW c \in Conns PROVE ActiveOn(debit', c) = ActiveOn(debit, c)
    BY <1>5, <1>7 DEF ActiveOn
<1> QED BY <1>2, <1>4, <1>5, <1>6, <1>8

LEMMA LockKeeps ==
    ASSUME DebitInv, NEW h \in Handlers, TakeAdvisoryLock(h)
    PROVE  DebitInv'
<1>1. /\ debit[h].pc = "lock" /\ budgetdb.lock \in {None, debit[h].conn} /\ UNCHANGED pgconn
      /\ budgetdb' = [budgetdb EXCEPT !.lock = debit[h].conn] /\ debit' = [debit EXCEPT ![h].pc = "read"]
    BY DEF TakeAdvisoryLock, Step
<1>2. debit[h].pc \in AtWork /\ "read" \in AtWork
    BY <1>1 DEF AtWork
<1>3. /\ debit' \in [Handlers -> Debit] /\ debit'[h].pc = "read"
      /\ \A g \in Handlers : debit'[g].conn = debit[g].conn /\ debit'[g].overlapped = debit[g].overlapped
      /\ \A g \in Handlers \ {h} : debit'[g] = debit[g]
      /\ OneOrOwn(debit') /\ \A c \in Conns : ActiveOn(debit', c) = ActiveOn(debit, c)
    BY <1>1, <1>2, PcMoves
<1>4. /\ budgetdb'.lock = debit[h].conn /\ budgetdb'.rows = budgetdb.rows /\ budgetdb'.balance = budgetdb.balance
      /\ budgetdb' = [balance |-> budgetdb'.balance, rows |-> budgetdb'.rows, lock |-> budgetdb'.lock]
    BY <1>1 DEF DebitInv, DebitOK, DebitTypes
<1>5. DebitTypes(debit', pgconn', budgetdb') /\ Counted(debit', pgconn')
    <2>1. DebitTypes(debit', pgconn', budgetdb')
        BY <1>1, <1>3, <1>4 DEF DebitInv, DebitOK, DebitTypes
    <2>2. Counted(debit', pgconn')
        BY <1>1, <1>3 DEF DebitInv, DebitOK, Counted
    <2> QED BY <2>1, <2>2
<1>6. Uncommitted(debit', pgconn')
    <2>1. \A c \in Conns : pgconn[c].rows \subseteq Handlers
        BY ConnFields DEF DebitInv, DebitOK, DebitTypes
    <2>2. ASSUME NEW c \in Conns, NEW g \in pgconn[c].rows
          PROVE  debit'[g].overlapped \/ (debit'[g].conn = c /\ debit'[g].pc = "inserted")
        <3>1. g \in Handlers /\ (debit[g].overlapped \/ (debit[g].conn = c /\ debit[g].pc = "inserted"))
            BY <2>1 DEF DebitInv, DebitOK, Uncommitted
        <3> QED BY <1>1, <1>3, <3>1
    <2> QED BY <1>1, <2>2 DEF Uncommitted
<1>7. Tainted(debit, budgetdb) => Tainted(debit', budgetdb')
    BY <1>3, <1>4 DEF Tainted, DebitInv, DebitOK, DebitTypes
<1>8. ASSUME NEW g \in Handlers PROVE Solitary(debit'[g], g, debit', pgconn', budgetdb')
    <2>1. Solitary(debit[g], g, debit, pgconn, budgetdb) /\ debit[g].conn \in Conns
        BY DebitFields DEF DebitInv, DebitOK, DebitTypes
    <2>2. CASE g = h
        BY <1>1, <1>2, <1>3, <1>4, <2>1, <2>2 DEF Solitary
    <2>3. CASE g # h
        <3>1. ~debit[g].overlapped /\ debit[g].pc \in AtWork \ {"lock"} => debit[h].conn = debit[g].conn
            BY <1>1, <2>1, StoreAssumption DEF Solitary, Conns
        <3>2. debit'[g] = debit[g]
            BY <1>3, <2>3
        <3> QED BY <1>1, <1>4, <1>7, <2>1, <3>1, <3>2 DEF Solitary
    <2> QED BY <2>2, <2>3
<1> QED BY <1>3, <1>4, <1>5, <1>6, <1>7, <1>8 DEF DebitInv, DebitOK

LEMMA ReadKeeps ==
    ASSUME DebitInv, NEW h \in Handlers, ReadBalance(h)
    PROVE  DebitInv'
<1> DEFINE c0 == debit[h].conn
           pc == IF Sum(c0) < Price THEN "refused" ELSE "insert"
<1>1. debit[h].pc = "read" /\ debit' = [debit EXCEPT ![h].pc = pc] /\ UNCHANGED <<pgconn, budgetdb>>
    BY DEF ReadBalance
<1>2. debit[h].pc \in AtWork \ {"lock"} /\ pc \in AtWork \ {"lock", "inserted"} /\ pc \in AtWork /\ c0 \in Conns
    BY <1>1, DebitFields DEF AtWork, DebitInv, DebitOK, DebitTypes
<1>3. pc = "insert" => budgetdb.rows = {}
    <2> DEFINE R == budgetdb.rows \cup pgconn[c0].rows
    <2>1. IsFiniteSet(budgetdb.rows) /\ IsFiniteSet(pgconn[c0].rows) /\ budgetdb.balance = Price
        BY <1>2 DEF DebitInv, DebitOK, DebitTypes
    <2>2. IsFiniteSet(R)
        BY <2>1, FS_Union
    <2>3. Cardinality(R) \in Nat /\ (Cardinality(R) = 0 => R = {})
        BY <2>2, FS_CardinalityType, FS_EmptySet
    <2>4. Sum(c0) = 1 - Cardinality(R)
        BY <2>1, <2>3 DEF Sum, Price
    <2>5. pc = "insert" => Cardinality(R) = 0
        BY <2>3, <2>4 DEF Price
    <2> QED BY <2>3, <2>5
<1> HIDE DEF pc, c0
<1>4. /\ debit' \in [Handlers -> Debit] /\ debit'[h].pc = pc
      /\ \A g \in Handlers : debit'[g].conn = debit[g].conn /\ debit'[g].overlapped = debit[g].overlapped
      /\ \A g \in Handlers \ {h} : debit'[g] = debit[g]
      /\ OneOrOwn(debit') /\ \A c \in Conns : ActiveOn(debit', c) = ActiveOn(debit, c)
    BY <1>1, <1>2, PcMoves
<1>5. DebitTypes(debit', pgconn', budgetdb') /\ Counted(debit', pgconn')
    BY <1>1, <1>4 DEF DebitInv, DebitOK, DebitTypes, Counted
<1>6. Uncommitted(debit', pgconn')
    <2>1. \A c \in Conns : pgconn[c].rows \subseteq Handlers
        BY ConnFields DEF DebitInv, DebitOK, DebitTypes
    <2>2. ASSUME NEW c \in Conns, NEW g \in pgconn[c].rows
          PROVE  debit'[g].overlapped \/ (debit'[g].conn = c /\ debit'[g].pc = "inserted")
        <3>1. g \in Handlers /\ (debit[g].overlapped \/ (debit[g].conn = c /\ debit[g].pc = "inserted"))
            BY <2>1 DEF DebitInv, DebitOK, Uncommitted
        <3> QED BY <1>1, <1>4, <3>1
    <2> QED BY <1>1, <2>2 DEF Uncommitted
<1>7. Tainted(debit, budgetdb) => Tainted(debit', budgetdb')
    BY <1>1, <1>4 DEF Tainted, DebitInv, DebitOK, DebitTypes
<1>8. ASSUME NEW g \in Handlers PROVE Solitary(debit'[g], g, debit', pgconn', budgetdb')
    <2>1. Solitary(debit[g], g, debit, pgconn, budgetdb)
        BY DEF DebitInv, DebitOK
    <2>2. CASE g = h
        BY <1>1, <1>2, <1>3, <1>4, <2>1, <2>2 DEF Solitary
    <2>3. CASE g # h
        <3>1. debit'[g] = debit[g]
            BY <1>4, <2>3
        <3> QED BY <1>1, <1>7, <2>1, <3>1 DEF Solitary
    <2> QED BY <2>2, <2>3
<1> QED BY <1>1, <1>4, <1>5, <1>6, <1>7, <1>8 DEF DebitInv, DebitOK

LEMMA InsertKeeps ==
    ASSUME DebitInv, NEW h \in Handlers, InsertUsage(h)
    PROVE  DebitInv'
<1> DEFINE c0 == debit[h].conn
           R == pgconn[c0].rows \cup {h}
           e == [pgconn[c0] EXCEPT !.rows = R]
<1>1. debit[h].pc = "insert" /\ debit' = [debit EXCEPT ![h].pc = "inserted"] /\ UNCHANGED budgetdb /\ c0 \in Conns
      /\ pgconn' = [pgconn EXCEPT ![c0] = e]
    BY DebitFields DEF InsertUsage, Step, DebitInv, DebitOK, DebitTypes
<1>2. debit[h].pc \in AtWork \ {"lock"} /\ "inserted" \in AtWork \ {"lock"} /\ "inserted" \in AtWork
    BY <1>1 DEF AtWork
<1>3. IsFiniteSet(R) /\ pgconn[c0] \in Conn /\ R \in SUBSET Handlers
    BY <1>1, FS_AddElement, ConnFields DEF DebitInv, DebitOK, DebitTypes
<1> HIDE DEF R
<1>4. e \in Conn /\ e.rows = R /\ e.open = pgconn[c0].open
    BY <1>3 DEF Conn
<1> HIDE DEF e
<1>5. pgconn' \in [Conns -> Conn] /\ pgconn'[c0] = e /\ \A c \in Conns \ {c0} : pgconn'[c] = pgconn[c]
    BY <1>1, <1>4 DEF DebitInv, DebitOK, DebitTypes
<1>6. /\ debit' \in [Handlers -> Debit] /\ debit'[h].pc = "inserted"
      /\ \A g \in Handlers : debit'[g].conn = debit[g].conn /\ debit'[g].overlapped = debit[g].overlapped
      /\ \A g \in Handlers \ {h} : debit'[g] = debit[g]
      /\ OneOrOwn(debit') /\ \A c \in Conns : ActiveOn(debit', c) = ActiveOn(debit, c)
    BY <1>1, <1>2, PcMoves
<1>7. \A c \in Conns : pgconn'[c].open = pgconn[c].open /\ IsFiniteSet(pgconn'[c].rows)
    BY <1>3, <1>4, <1>5 DEF DebitInv, DebitOK, DebitTypes
<1>8. DebitTypes(debit', pgconn', budgetdb') /\ Counted(debit', pgconn')
    <2>1. DebitTypes(debit', pgconn', budgetdb')
        BY <1>1, <1>5, <1>6, <1>7 DEF DebitInv, DebitOK, DebitTypes
    <2>2. Counted(debit', pgconn')
        BY <1>6, <1>7 DEF DebitInv, DebitOK, Counted
    <2> QED BY <2>1, <2>2
<1>9. Uncommitted(debit', pgconn')
    <2>1. \A c \in Conns : pgconn[c].rows \subseteq Handlers
        BY ConnFields DEF DebitInv, DebitOK, DebitTypes
    <2>2. ASSUME NEW c \in Conns, NEW g \in pgconn'[c].rows
          PROVE  debit'[g].overlapped \/ (debit'[g].conn = c /\ debit'[g].pc = "inserted")
        <3>1. CASE g = h /\ c = c0
            BY <1>6, <3>1 DEF c0
        <3>2. CASE ~(g = h /\ c = c0)
            <4>1. g \in pgconn[c].rows
                BY <1>4, <1>5, <2>2, <3>2 DEF R
            <4>2. g \in Handlers /\ (debit[g].overlapped \/ (debit[g].conn = c /\ debit[g].pc = "inserted"))
                BY <2>1, <4>1 DEF DebitInv, DebitOK, Uncommitted
            <4> QED BY <1>1, <1>6, <4>2
        <3> QED BY <3>1, <3>2
    <2> QED BY <2>2 DEF Uncommitted
<1>10. Tainted(debit, budgetdb) => Tainted(debit', budgetdb')
    BY <1>1, <1>6 DEF Tainted, DebitInv, DebitOK, DebitTypes
<1>11. ASSUME NEW g \in Handlers PROVE Solitary(debit'[g], g, debit', pgconn', budgetdb')
    <2>1. Solitary(debit[g], g, debit, pgconn, budgetdb) /\ debit[g].conn \in Conns
        BY DebitFields DEF DebitInv, DebitOK, DebitTypes
    <2>2. CASE g = h
        BY <1>1, <1>2, <1>6, <1>7, <1>10, <2>1, <2>2 DEF Solitary
    <2>3. CASE g # h
        <3>1. debit'[g] = debit[g]
            BY <1>6, <2>3
        <3> QED BY <1>1, <1>7, <1>10, <2>1, <3>1 DEF Solitary
    <2> QED BY <2>2, <2>3
<1> QED BY <1>1, <1>6, <1>8, <1>9, <1>10, <1>11 DEF DebitInv, DebitOK

LEMMA EnterKeeps ==
    ASSUME DebitInv, NEW h \in Handlers, EnterTransaction(h)
    PROVE  DebitInv'
<1> DEFINE c0 == debit[h].conn
           q == pgconn[c0].open
           e == [pgconn[c0] EXCEPT !.open = Append(q, h)]
           Marked(g) == q # << >> /\ (g = h \/ g \in Range(q))
<1>0. /\ debit \in [Handlers -> Debit] /\ debit[h].pc = "enter" /\ UNCHANGED budgetdb /\ c0 \in Conns
      /\ pgconn \in [Conns -> Conn] /\ pgconn[c0] \in Conn /\ q \in Seq(Handlers)
    BY DebitFields, ConnFields DEF EnterTransaction, DebitInv, DebitOK, DebitTypes
<1>1. pgconn' = [pgconn EXCEPT ![c0] = e]
    BY <1>0 DEF EnterTransaction
<1>2. debit' = [g \in Handlers |-> [debit[g] EXCEPT !.pc = IF g = h THEN "lock" ELSE @, !.overlapped = @ \/ Marked(g)]]
    BY DEF EnterTransaction
<1>3. e \in Conn /\ e.rows = pgconn[c0].rows /\ e.open = Append(q, h) /\ Len(Append(q, h)) = Len(q) + 1 /\ Len(q) \in Nat
    <2>1. Append(q, h) \in Seq(Handlers) /\ Len(Append(q, h)) = Len(q) + 1 /\ Len(q) \in Nat
        BY <1>0
    <2> QED BY <1>0, <2>1 DEF Conn
<1>4. ASSUME NEW g \in Handlers
      PROVE  /\ debit'[g] \in Debit /\ debit'[g].conn = debit[g].conn
             /\ debit'[g].pc = IF g = h THEN "lock" ELSE debit[g].pc
             /\ (debit'[g].overlapped <=> debit[g].overlapped \/ Marked(g))
    <2> DEFINE k == IF g = h THEN "lock" ELSE debit[g].pc
               m == (debit[g].overlapped \/ Marked(g))
    <2>1. debit'[g] = [debit[g] EXCEPT !.pc = k, !.overlapped = m] /\ debit[g] \in Debit
        BY <1>0, <1>2
    <2>2. k \in {"enter", "raised", "ok", "no"} \cup AtWork /\ m \in BOOLEAN
        BY <2>1, DebitFields DEF AtWork
    <2> HIDE DEF k, m, Marked
    <2>3. debit'[g] \in Debit /\ debit'[g].conn = debit[g].conn /\ debit'[g].pc = k /\ debit'[g].overlapped = m
        BY <2>1, <2>2 DEF Debit
    <2> QED BY <2>2, <2>3 DEF k, m
<1>5. debit' \in [Handlers -> Debit]
    BY <1>2, <1>4
<1> HIDE DEF e
<1>6. pgconn' \in [Conns -> Conn] /\ pgconn'[c0] = e /\ \A c \in Conns \ {c0} : pgconn'[c] = pgconn[c]
    BY <1>0, <1>1, <1>3
<1>7. \A c \in Conns : pgconn'[c].rows = pgconn[c].rows
    BY <1>3, <1>6
<1>8. DebitTypes(debit', pgconn', budgetdb')
    BY <1>0, <1>5, <1>6, <1>7 DEF DebitInv, DebitOK, DebitTypes
<1>9. Counted(debit', pgconn')
    <2>1. ASSUME NEW c \in Conns, c # c0 PROVE ActiveOn(debit', c) = ActiveOn(debit, c)
        BY <1>4, <2>1 DEF ActiveOn
    <2>2. h \notin ActiveOn(debit, c0) /\ ActiveOn(debit', c0) = ActiveOn(debit, c0) \cup {h}
        BY <1>0, <1>4 DEF ActiveOn, AtWork
    <2>3. IsFiniteSet(ActiveOn(debit, c0)) /\ Cardinality(ActiveOn(debit, c0)) = Len(q)
        BY <1>0 DEF DebitInv, DebitOK, Counted
    <2>4. IsFiniteSet(ActiveOn(debit', c0)) /\ Cardinality(ActiveOn(debit', c0)) = Len(q) + 1
        BY <2>2, <2>3, FS_AddElement
    <2> QED BY <1>3, <1>6, <2>1, <2>4 DEF DebitInv, DebitOK, Counted
<1>10. OneOrOwn(debit')
    <2>1. CASE \A g \in Handlers : debit[g].conn = "cx"
        BY <1>4, <2>1 DEF OneOrOwn
    <2>2. CASE \A g \in Handlers : debit[g].conn = g /\ ~debit[g].overlapped
        <3>1. ActiveOn(debit, c0) = {}
            BY <1>0, <2>2 DEF ActiveOn, AtWork
        <3>2. Len(q) = 0
            BY <1>0, <3>1, FS_EmptySet DEF DebitInv, DebitOK, Counted
        <3>3. q = << >>
            BY <1>0, <3>2
        <3> QED BY <1>4, <2>2, <3>3 DEF OneOrOwn
    <2> QED BY <2>1, <2>2 DEF DebitInv, DebitOK, OneOrOwn
<1>11. Uncommitted(debit', pgconn')
    <2>1. \A c \in Conns : pgconn[c].rows \subseteq Handlers
        BY ConnFields DEF DebitInv, DebitOK, DebitTypes
    <2>2. ASSUME NEW c \in Conns, NEW g \in pgconn[c].rows
          PROVE  debit'[g].overlapped \/ (debit'[g].conn = c /\ debit'[g].pc = "inserted")
        <3>1. g \in Handlers /\ (debit[g].overlapped \/ (debit[g].conn = c /\ debit[g].pc = "inserted"))
            BY <2>1 DEF DebitInv, DebitOK, Uncommitted
        <3> HIDE DEF Marked
        <3> QED BY <1>0, <1>4, <3>1
    <2> QED BY <1>7, <2>2 DEF Uncommitted
<1>12. Tainted(debit, budgetdb) => Tainted(debit', budgetdb')
    BY <1>0, <1>4 DEF Tainted, DebitInv, DebitOK, DebitTypes
<1>13. ASSUME NEW g \in Handlers PROVE Solitary(debit'[g], g, debit', pgconn', budgetdb')
    <2>1. Solitary(debit[g], g, debit, pgconn, budgetdb) /\ debit[g].conn \in Conns
        BY DebitFields DEF DebitInv, DebitOK, DebitTypes
    <2>2. CASE g = h
        <3>1. ~debit'[g].overlapped => q = << >>
            BY <1>4, <2>2
        <3>2. q = << >> => Append(q, h) = <<h>>
            BY <1>0
        <3>3. debit'[g].pc = "lock" /\ debit'[g].conn = c0
            BY <1>4, <2>2
        <3> QED BY <1>3, <1>6, <2>2, <3>1, <3>2, <3>3 DEF Solitary
    <2>3. CASE g # h /\ debit[g].conn # c0
        <3>1. pgconn'[debit[g].conn] = pgconn[debit[g].conn]
            BY <1>6, <2>1, <2>3
        <3> HIDE DEF Marked
        <3> QED BY <1>0, <1>4, <1>12, <2>1, <2>3, <3>1 DEF Solitary
    <2>4. CASE g # h /\ debit[g].conn = c0
        <3>1. CASE debit[g].pc \in AtWork /\ ~debit[g].overlapped
            <4>1. q = <<g>>
                BY <2>1, <2>4, <3>1 DEF Solitary
            <4>2. Marked(g)
                BY <4>1 DEF Range
            <4>3. debit'[g].overlapped
                BY <1>4, <4>2
            <4> QED BY <4>3 DEF Solitary
        <3>2. CASE debit[g].overlapped
            BY <1>4, <3>2 DEF Solitary
        <3>3. CASE debit[g].pc \notin AtWork
            <4>1. debit'[g].pc \notin AtWork
                BY <1>4, <2>4, <3>3
            <4> QED BY <4>1 DEF Solitary, AtWork
        <3> QED BY <3>1, <3>2, <3>3
    <2> QED BY <2>2, <2>3, <2>4
<1> QED BY <1>0, <1>8, <1>9, <1>10, <1>11, <1>12, <1>13 DEF DebitInv, DebitOK

LEMMA FrontShorter ==
    ASSUME NEW S, NEW q \in Seq(S), q # << >>
    PROVE  /\ Front(q) \in Seq(S) /\ Len(Front(q)) = Len(q) - 1 /\ Len(q) \in Nat
           /\ Len(q) = 1 => q = <<Last(q)>>
           /\ \A x : q = <<x>> => Last(q) = x /\ Len(q) = 1
<1>1. Len(q) \in Nat /\ Len(q) > 0
    OBVIOUS
<1>2. Front(q) \in Seq(S) /\ Len(Front(q)) = Len(q) - 1
    <2>1. Front(q) = [i \in 1..(Len(q) - 1) |-> q[i]]
        BY <1>1 DEF Front
    <2>2. Len(q) - 1 \in Nat /\ \A i \in 1..(Len(q) - 1) : q[i] \in S
        BY <1>1
    <2> QED BY <2>1, <2>2
<1>3. Len(q) = 1 => q = <<q[1]>>
    BY <1>1
<1> QED BY <1>1, <1>2, <1>3 DEF Last

LEMMA ExitKeeps ==
    ASSUME DebitInv, NEW h \in Handlers, ExitTransaction(h)
    PROVE  DebitInv'
<1> DEFINE c0 == debit[h].conn
           q == pgconn[c0].open
           inner == q # << >> /\ Last(q) = h
           last == inner /\ Len(q) = 1
           pc == IF ~inner THEN "raised" ELSE IF debit[h].pc = "inserted" THEN "ok" ELSE "no"
           R == IF last THEN {} ELSE pgconn[c0].rows
           e == [pgconn[c0] EXCEPT !.open = Front(q), !.rows = R]
           x == [debit[h] EXCEPT !.pc = pc]
<1>0. /\ debit \in [Handlers -> Debit] /\ debit[h].pc \in {"inserted", "refused"} /\ c0 \in Conns /\ debit[h] \in Debit
      /\ pgconn \in [Conns -> Conn] /\ pgconn[c0] \in Conn /\ q \in Seq(Handlers) /\ pgconn[c0].rows \in SUBSET Handlers
    BY DebitFields, ConnFields DEF ExitTransaction, DebitInv, DebitOK, DebitTypes
<1>1. h \in ActiveOn(debit, c0) /\ debit[h].pc \in AtWork \ {"lock"}
    BY <1>0 DEF ActiveOn, AtWork
<1>2. IsFiniteSet(ActiveOn(debit, c0)) /\ Cardinality(ActiveOn(debit, c0)) = Len(q)
    BY <1>0 DEF DebitInv, DebitOK, Counted
<1>3. q # << >>
    <2>1. Len(q) # 0
        BY <1>1, <1>2, FS_EmptySet
    <2> QED BY <2>1
<1>4. Front(q) \in Seq(Handlers) /\ Len(Front(q)) = Len(q) - 1 /\ Len(q) \in Nat
      /\ (last => q = <<h>>) /\ (q = <<h>> => last)
    BY <1>0, <1>3, FrontShorter
<1>5. pgconn' = [pgconn EXCEPT ![c0] = e]
    BY <1>0, <1>3 DEF ExitTransaction
<1>6. budgetdb' = IF last THEN [budgetdb EXCEPT !.rows = @ \cup pgconn[c0].rows, !.lock = None] ELSE budgetdb
    BY DEF ExitTransaction
<1>7. debit' = [debit EXCEPT ![h] = x]
    BY <1>0 DEF ExitTransaction, Step
<1>8. pc \in {"raised", "ok", "no"} /\ pc \notin AtWork
    BY DEF AtWork
<1> HIDE DEF inner, last, pc
<1>9. x \in Debit /\ x.pc = pc /\ x.conn = c0 /\ x.overlapped = debit[h].overlapped
    BY <1>0, <1>8 DEF Debit
<1>10. R \in SUBSET Handlers /\ IsFiniteSet(R)
    BY <1>0, FS_EmptySet DEF DebitInv, DebitOK, DebitTypes
<1> HIDE DEF R
<1>11. e \in Conn /\ e.open = Front(q) /\ e.rows = R
    BY <1>0, <1>4, <1>10 DEF Conn
<1> HIDE DEF x, e
<1>12. debit' \in [Handlers -> Debit] /\ debit'[h] = x /\ \A g \in Handlers \ {h} : debit'[g] = debit[g]
    BY <1>0, <1>7, <1>9
<1>13. pgconn' \in [Conns -> Conn] /\ pgconn'[c0] = e /\ \A c \in Conns \ {c0} : pgconn'[c] = pgconn[c]
    BY <1>0, <1>5, <1>11
<1>14. \A g \in Handlers : debit'[g].conn = debit[g].conn /\ debit'[g].overlapped = debit[g].overlapped
    BY <1>9, <1>12
<1>15. OneOrOwn(debit')
    BY <1>14 DEF DebitInv, DebitOK, OneOrOwn
<1>16. Counted(debit', pgconn')
    <2>1. ASSUME NEW c \in Conns, c # c0 PROVE ActiveOn(debit', c) = ActiveOn(debit, c)
        BY <1>12, <1>14, <2>1 DEF ActiveOn
    <2>2. ActiveOn(debit', c0) = ActiveOn(debit, c0) \ {h}
        BY <1>8, <1>9, <1>12 DEF ActiveOn
    <2>3. IsFiniteSet(ActiveOn(debit', c0)) /\ Cardinality(ActiveOn(debit', c0)) = Len(q) - 1
        <3> DEFINE A == ActiveOn(debit, c0)
        <3>1. h \in A /\ IsFiniteSet(A) /\ Cardinality(A) = Len(q)
            BY <1>1, <1>2
        <3> HIDE DEF A
        <3>2. IsFiniteSet(A \ {h}) /\ Cardinality(A \ {h}) = Cardinality(A) - 1
            BY <3>1, FS_RemoveElement
        <3> QED BY <2>2, <3>1, <3>2 DEF A
    <2> QED BY <1>4, <1>11, <1>13, <2>1, <2>3 DEF DebitInv, DebitOK, Counted
<1>17. ASSUME NEW g \in Handlers, g # h, ~debit[g].overlapped, debit[g].pc \in AtWork PROVE debit[g].conn # c0
    <2>1. SUFFICES ASSUME debit[g].conn = c0 PROVE FALSE
        OBVIOUS
    <2>2. q = <<g>>
        BY <1>17, <2>1 DEF DebitInv, DebitOK, Solitary
    <2>3. Len(q) = 1
        BY <2>2
    <2> QED BY <1>1, <1>17, <2>1, <2>3, AloneAtWork DEF DebitInv
<1>18. Uncommitted(debit', pgconn')
    <2>1. ASSUME NEW c \in Conns, NEW g \in pgconn'[c].rows
          PROVE  debit'[g].overlapped \/ (debit'[g].conn = c /\ debit'[g].pc = "inserted")
        <3>1. g \in pgconn[c].rows /\ (c = c0 => ~last)
            BY <1>11, <1>13, <2>1 DEF R
        <3>2. g \in Handlers /\ (debit[g].overlapped \/ (debit[g].conn = c /\ debit[g].pc = "inserted"))
            BY <3>1, ConnFields DEF DebitInv, DebitOK, DebitTypes, Uncommitted
        <3>3. CASE g = h /\ ~debit[g].overlapped
            <4>1. c = c0 /\ q = <<h>>
                BY <1>1, <3>2, <3>3 DEF DebitInv, DebitOK, Solitary
            <4> QED BY <1>4, <3>1, <4>1
        <3>4. CASE g # h \/ debit[g].overlapped
            BY <1>12, <1>14, <3>2, <3>4
        <3> QED BY <3>3, <3>4
    <2> QED BY <2>1 DEF Uncommitted
<1>19. CASE ~last
    <2>1. UNCHANGED budgetdb
        BY <1>6, <1>19
    <2>2. DebitTypes(debit', pgconn', budgetdb')
        BY <1>10, <1>11, <1>12, <1>13, <2>1 DEF DebitInv, DebitOK, DebitTypes
    <2>3. Tainted(debit, budgetdb) => Tainted(debit', budgetdb')
        BY <1>14, <2>1 DEF Tainted, DebitInv, DebitOK, DebitTypes
    <2>4. ASSUME NEW g \in Handlers PROVE Solitary(debit'[g], g, debit', pgconn', budgetdb')
        <3>1. CASE g = h
            BY <1>8, <1>9, <1>12, <3>1 DEF Solitary, AtWork
        <3>2. CASE g # h
            <4>1. debit'[g] = debit[g] /\ Solitary(debit[g], g, debit, pgconn, budgetdb) /\ debit[g].conn \in Conns
                BY <1>0, <1>12, <3>2, DebitFields DEF DebitInv, DebitOK
            <4>2. ~debit[g].overlapped /\ debit[g].pc \in AtWork => pgconn'[debit[g].conn] = pgconn[debit[g].conn]
                BY <1>13, <1>17, <3>2, <4>1
            <4> QED BY <2>1, <2>3, <4>1, <4>2 DEF Solitary
        <3> QED BY <3>1, <3>2
    <2> QED BY <1>15, <1>16, <1>18, <2>1, <2>2, <2>3, <2>4 DEF DebitInv, DebitOK
<1>20. CASE last
    <2> DEFINE B == budgetdb.rows \cup pgconn[c0].rows
    <2>0. /\ budgetdb.rows \in SUBSET Handlers /\ IsFiniteSet(budgetdb.rows) /\ IsFiniteSet(pgconn[c0].rows)
          /\ budgetdb = [balance |-> budgetdb.balance, rows |-> budgetdb.rows, lock |-> budgetdb.lock] /\ budgetdb.balance = Price
        BY <1>0 DEF DebitInv, DebitOK, DebitTypes
    <2>1. budgetdb' = [budgetdb EXCEPT !.rows = B, !.lock = None]
        BY <1>6, <1>20
    <2>2. IsFiniteSet(B) /\ B \in SUBSET Handlers
        BY <1>0, <2>0, FS_Union
    <2> HIDE DEF B
    <2>3. budgetdb'.rows = B /\ budgetdb'.lock = None /\ budgetdb'.balance = Price
          /\ budgetdb' = [balance |-> budgetdb'.balance, rows |-> budgetdb'.rows, lock |-> budgetdb'.lock]
        BY <2>0, <2>1
    <2>4. DebitTypes(debit', pgconn', budgetdb')
        BY <1>10, <1>11, <1>12, <1>13, <2>2, <2>3 DEF DebitInv, DebitOK, DebitTypes
    <2>5. q = <<h>>
        BY <1>4, <1>20
    <2>6. ASSUME NEW g \in Handlers, g # h, ~debit[g].overlapped PROVE debit[g].pc \notin AtWork \ {"lock"}
        <3>1. SUFFICES ASSUME debit[g].pc \in AtWork \ {"lock"} PROVE FALSE
            OBVIOUS
        <3>2. debit[g].conn # c0
            BY <1>17, <2>6, <3>1
        <3>3. ~debit[h].overlapped
            BY <3>2 DEF DebitInv, DebitOK, OneOrOwn
        <3>4. budgetdb.lock = debit[g].conn /\ budgetdb.lock = c0
            BY <1>1, <2>6, <3>1, <3>3 DEF DebitInv, DebitOK, Solitary
        <3> QED BY <3>2, <3>4
    <2>7. ASSUME NEW g \in Handlers PROVE Solitary(debit'[g], g, debit', pgconn', budgetdb')
        <3>1. CASE g = h
            BY <1>8, <1>9, <1>12, <3>1 DEF Solitary, AtWork
        <3>2. CASE g # h
            <4>1. debit'[g] = debit[g] /\ Solitary(debit[g], g, debit, pgconn, budgetdb) /\ debit[g].conn \in Conns
                BY <1>0, <1>12, <3>2, DebitFields DEF DebitInv, DebitOK
            <4>2. ~debit[g].overlapped /\ debit[g].pc \in AtWork => pgconn'[debit[g].conn] = pgconn[debit[g].conn]
                BY <1>13, <1>17, <3>2, <4>1
            <4>3. ~debit[g].overlapped => debit[g].pc \notin AtWork \ {"lock"} /\ debit[g].pc \notin {"insert", "inserted"}
                BY <2>6, <3>2 DEF AtWork
            <4> QED BY <4>1, <4>2, <4>3 DEF Solitary
        <3> QED BY <3>1, <3>2
    <2>8. B = {} \/ (\E g \in Handlers : B = {g}) \/ \E g \in B : debit[g].overlapped
        <3>1. SUFFICES ASSUME \A g \in B : ~debit[g].overlapped PROVE B = {} \/ \E g \in Handlers : B = {g}
            OBVIOUS
        <3>2. ~Tainted(debit, budgetdb)
            BY <3>1 DEF Tainted, B
        <3>3. \A g \in pgconn[c0].rows : g = h /\ debit[h].pc = "inserted" /\ ~debit[h].overlapped
            <4>1. ASSUME NEW g \in pgconn[c0].rows PROVE g = h /\ debit[g].pc = "inserted" /\ ~debit[g].overlapped
                <5>1. g \in Handlers /\ ~debit[g].overlapped /\ debit[g].conn = c0 /\ debit[g].pc = "inserted"
                    BY <1>0, <3>1, <4>1 DEF B, DebitInv, DebitOK, Uncommitted
                <5>2. debit[g].pc \in AtWork
                    BY <5>1 DEF AtWork
                <5> QED BY <1>17, <5>1, <5>2
            <4> QED BY <4>1
        <3>4. CASE pgconn[c0].rows = {}
            BY <3>2, <3>4 DEF B, DebitInv, DebitOK
        <3>5. CASE pgconn[c0].rows # {}
            <4>1. pgconn[c0].rows = {h} /\ debit[h].pc = "inserted" /\ ~debit[h].overlapped
                BY <3>3, <3>5
            <4>2. budgetdb.rows = {}
                BY <3>2, <4>1 DEF DebitInv, DebitOK, Solitary
            <4> QED BY <4>1, <4>2 DEF B
        <3> QED BY <3>4, <3>5
    <2>9. B = {} \/ (\E g \in Handlers : B = {g}) \/ Tainted(debit', budgetdb')
        BY <1>14, <2>2, <2>3, <2>8 DEF Tainted
    <2> QED BY <1>15, <1>16, <1>18, <2>3, <2>4, <2>7, <2>9 DEF DebitInv, DebitOK
<1> QED BY <1>19, <1>20

LEMMA TiersStart ==
    ASSUME NEW grouped \in BOOLEAN, NEW sharing \in BOOLEAN, TiersInit(grouped), DebitInit(sharing)
    PROVE  TablesInv /\ DebitInv
<1>1. TablesInv
    <2>1. tiers = [conf |-> grouped, sq |-> EmptyTables, pg |-> EmptyTables, agree |-> TRUE, time |-> 0, ops |-> 0]
        BY DEF TiersInit
    <2>2. TablesOK(EmptyTables)
        BY EmptyLeases DEF TablesOK, EmptyTables
    <2> HIDE DEF EmptyTables
    <2> QED BY <2>1, <2>2 DEF TablesInv
<1>2. \A h \in Handlers : /\ debit[h] = [pc |-> "enter", conn |-> IF sharing THEN "cx" ELSE h, overlapped |-> FALSE]
                          /\ debit[h] \in Debit /\ debit[h].pc = "enter" /\ ~debit[h].overlapped
                          /\ debit[h].conn = IF sharing THEN "cx" ELSE h
    BY DEF DebitInit, Debit, Conns
<1>3. debit \in [Handlers -> Debit]
    BY <1>2 DEF DebitInit
<1>4. /\ pgconn = [c \in Conns |-> [open |-> << >>, rows |-> {}]] /\ pgconn \in [Conns -> Conn]
      /\ \A c \in Conns : pgconn[c].open = << >> /\ pgconn[c].rows = {} /\ Len(pgconn[c].open) = 0
    BY DEF DebitInit, Conns, Conn
<1>5. budgetdb = [balance |-> Price, rows |-> {}, lock |-> None] /\ budgetdb.rows = {} /\ budgetdb.balance = Price
    BY DEF DebitInit
<1>6. DebitTypes(debit, pgconn, budgetdb)
    BY <1>3, <1>4, <1>5, FS_EmptySet DEF DebitTypes
<1>7. Counted(debit, pgconn)
    <2>1. ASSUME NEW c \in Conns PROVE ActiveOn(debit, c) = {}
        BY <1>2 DEF ActiveOn, AtWork
    <2> QED BY <1>4, <2>1, FS_EmptySet DEF Counted
<1>8. OneOrOwn(debit) /\ Uncommitted(debit, pgconn)
    BY <1>2, <1>4 DEF OneOrOwn, Uncommitted
<1>9. \A h \in Handlers : Solitary(debit[h], h, debit, pgconn, budgetdb)
    BY <1>2 DEF Solitary, AtWork
<1> QED BY <1>1, <1>5, <1>6, <1>7, <1>8, <1>9 DEF DebitInv, DebitOK

LEMMA TiersStep ==
    TablesInv /\ DebitInv /\ [LockstepNext \/ DebitNext]_tierVars => TablesInv' /\ DebitInv'
<1> SUFFICES ASSUME TablesInv, DebitInv, [LockstepNext \/ DebitNext]_tierVars PROVE TablesInv' /\ DebitInv'
    OBVIOUS
<1>1. CASE UNCHANGED tierVars
    BY <1>1 DEF tierVars, TablesInv, DebitInv
<1>2. CASE LockstepNext
    <2>1. UNCHANGED <<pgconn, debit, budgetdb>>
        BY <1>2 DEF LockstepNext
    <2> QED BY <1>2, <2>1, LockstepKeeps DEF DebitInv
<1>3. CASE DebitNext
    <2>1. TablesInv'
        BY <1>3 DEF DebitNext, TablesInv
    <2> QED BY <1>3, <2>1, EnterKeeps, LockKeeps, ReadKeeps, InsertKeeps, ExitKeeps DEF DebitNext, PgStep
<1> QED BY <1>1, <1>2, <1>3

LEMMA DebitInvHolds == DebitInv => OverdraftNeedsSharing
<1> SUFFICES ASSUME DebitInv, Price * Cardinality(budgetdb.rows) > budgetdb.balance
             PROVE  \E h \in budgetdb.rows : debit[h].overlapped
    BY DEF OverdraftNeedsSharing
<1>1. IsFiniteSet(budgetdb.rows) /\ budgetdb.balance = 1
    BY DEF DebitInv, DebitOK, DebitTypes, Price
<1>2. Cardinality(budgetdb.rows) \in Nat
    BY <1>1, FS_CardinalityType
<1>3. Cardinality(budgetdb.rows) > 1
    BY <1>1, <1>2 DEF Price
<1>4. Cardinality({}) = 0 /\ \A g : Cardinality({g}) = 1
    BY FS_EmptySet, FS_Singleton
<1>5. budgetdb.rows # {} /\ \A g : budgetdb.rows # {g}
    <2>1. budgetdb.rows # {}
        BY <1>3, <1>4
    <2>2. ASSUME NEW g, budgetdb.rows = {g} PROVE FALSE
        <3>1. Cardinality(budgetdb.rows) = 1
            BY <1>4, <2>2
        <3> QED BY <1>3, <3>1
    <2> QED BY <2>1, <2>2
<1> QED BY <1>5 DEF DebitInv, DebitOK, Tainted

(* backend.py: for any runs, holders and clock, the two tiers stay         *)
(* interchangeable, and debits of one actor overdraw it only if they       *)
(* overlapped on one connection.                                           *)
THEOREM TiersInterchangeable == TiersSpec => []TiersAgree
<1>1. (\E grouped, sharing \in BOOLEAN : TiersInit(grouped) /\ DebitInit(sharing)) => TablesInv /\ DebitInv
    BY TiersStart
<1>2. TablesInv /\ DebitInv => TiersAgree
    BY TablesInvAgrees, DebitInvHolds DEF TiersAgree
<1> QED BY <1>1, <1>2, TiersStep, PTL DEF TiersSpec

-----------------------------------------------------------------------------
(* Erasure: sealed records and the keys that open them.                    *)
ErasureSpec == ErasureInit /\ [][ShredNext]_shredVars

(* A record is sealed under the key of its number, and its id has that key *)
(* exactly until the key is forgotten; every key of the ring is of the     *)
(* record that was last sealed under the id.                               *)
Sealed(l, ring, gone) ==
    /\ l \in Seq([dek : DekIds, sealed : [key : Nat, aad : DekIds, value : Nat]])
    /\ ring = [id \in DOMAIN ring |-> ring[id]]
    /\ gone \subseteq 1..Len(l)
    /\ \A i \in 1..Len(l) :
         /\ l[i].sealed.key = i /\ l[i].sealed.value = i /\ l[i].sealed.aad = l[i].dek
         /\ i \notin gone <=> l[i].dek \in DOMAIN ring /\ ring[l[i].dek] = i
    /\ \A id \in DOMAIN ring : ring[id] \in 1..Len(l) /\ l[ring[id]].dek = id

ErasureInv == Sealed(ledger, keyring, shredded)

LEMMA SealedOpens == ErasureInv => ErasureExact
<1> SUFFICES ASSUME ErasureInv, NEW i \in DOMAIN ledger
             PROVE  open_fields(ledger[i], keyring) = IF i \in shredded THEN None ELSE i
    BY DEF ErasureExact
<1>1. i \in 1..Len(ledger)
    BY DEF ErasureInv, Sealed
<1>2. /\ ledger[i].sealed.key = i /\ ledger[i].sealed.value = i /\ ledger[i].sealed.aad = ledger[i].dek
      /\ i \notin shredded <=> ledger[i].dek \in DOMAIN keyring /\ keyring[ledger[i].dek] = i
    BY <1>1 DEF ErasureInv, Sealed
<1> QED BY <1>2 DEF open_fields

LEMMA ErasureStart == ErasureInit => ErasureInv
BY DEF ErasureInit, ErasureInv, Sealed

LEMMA RecordSealed ==
    ASSUME ErasureInv, NEW id \in DekIds, SealRecord(id)
    PROVE  ErasureInv'
<1> DEFINE n == Len(ledger)
           rec == seal_fields(n + 1, n + 1, id)
           Record == [dek : DekIds, sealed : [key : Nat, aad : DekIds, value : Nat]]
<1>1. /\ ledger \in Seq(Record) /\ n \in Nat /\ shredded \subseteq 1..n
      /\ \A i \in 1..n : ledger[i].sealed.key = i /\ ledger[i].sealed.value = i /\ ledger[i].sealed.aad = ledger[i].dek
      /\ \A i \in 1..n : i \notin shredded <=> ledger[i].dek \in DOMAIN keyring /\ keyring[ledger[i].dek] = i
      /\ \A k \in DOMAIN keyring : keyring[k] \in 1..n /\ ledger[keyring[k]].dek = k
    BY DEF ErasureInv, Sealed
<1>2. /\ ledger' = Append(ledger, rec)
      /\ shredded' = IF id \in DOMAIN keyring THEN shredded \cup {keyring[id]} ELSE shredded
      /\ keyring' = [i \in DOMAIN keyring \cup {id} |-> IF i = id THEN n + 1 ELSE keyring[i]]
    BY DEF SealRecord
<1>3. /\ rec \in Record /\ rec.dek = id /\ rec.sealed.key = n + 1 /\ rec.sealed.value = n + 1 /\ rec.sealed.aad = id
    BY <1>1 DEF seal_fields
<1> HIDE DEF rec, n
<1>4. /\ ledger' \in Seq(Record) /\ Len(ledger') = n + 1 /\ ledger'[n + 1] = rec
      /\ \A i \in 1..n : ledger'[i] = ledger[i]
    BY <1>1, <1>2, <1>3 DEF n
<1>5. DOMAIN keyring' = DOMAIN keyring \cup {id} /\ keyring'[id] = n + 1
      /\ \A k \in DOMAIN keyring : k # id => keyring'[k] = keyring[k]
    BY <1>2
<1>6. shredded' \subseteq 1..(n + 1) /\ n + 1 \notin shredded'
    <2>1. shredded' \subseteq 1..n
        <3>1. CASE id \in DOMAIN keyring
            <4>1. keyring[id] \in 1..n /\ shredded' = shredded \cup {keyring[id]}
                BY <1>1, <1>2, <3>1
            <4> QED BY <1>1, <4>1
        <3>2. CASE id \notin DOMAIN keyring
            BY <1>1, <1>2, <3>2
        <3> QED BY <3>1, <3>2
    <2> QED BY <1>1, <2>1
<1>7. ASSUME NEW i \in 1..(n + 1)
      PROVE  /\ ledger'[i].sealed.key = i /\ ledger'[i].sealed.value = i /\ ledger'[i].sealed.aad = ledger'[i].dek
             /\ i \notin shredded' <=> ledger'[i].dek \in DOMAIN keyring' /\ keyring'[ledger'[i].dek] = i
    <2>1. CASE i = n + 1
        BY <1>3, <1>4, <1>5, <1>6, <2>1
    <2>2. CASE i # n + 1
        <3>1. i \in 1..n /\ ledger'[i] = ledger[i]
            BY <1>1, <1>4, <2>2
        <3>2. CASE ledger[i].dek = id
            BY <1>1, <1>2, <1>5, <2>2, <3>1, <3>2
        <3>3. CASE ledger[i].dek # id
            BY <1>1, <1>2, <1>5, <3>1, <3>3
        <3> QED BY <3>2, <3>3
    <2> QED BY <2>1, <2>2
<1>8. ASSUME NEW k \in DOMAIN keyring' PROVE keyring'[k] \in 1..(n + 1) /\ ledger'[keyring'[k]].dek = k
    <2>1. CASE k = id
        BY <1>1, <1>3, <1>4, <1>5, <2>1
    <2>2. CASE k # id
        BY <1>1, <1>4, <1>5, <2>2
    <2> QED BY <2>1, <2>2
<1>9. keyring' = [k \in DOMAIN keyring' |-> keyring'[k]]
    BY <1>2
<1> QED BY <1>4, <1>6, <1>7, <1>8, <1>9 DEF ErasureInv, Sealed

LEMMA KeyDestroyed ==
    ASSUME ErasureInv, NEW id \in DekIds, Destroy(id)
    PROVE  ErasureInv'
<1>1. /\ id \in DOMAIN keyring /\ ledger' = ledger /\ shredded' = shredded \cup {keyring[id]}
      /\ DOMAIN keyring' = DOMAIN keyring \ {id} /\ \A k \in DOMAIN keyring \ {id} : keyring'[k] = keyring[k]
      /\ keyring' = [k \in DOMAIN keyring' |-> keyring'[k]]
    BY DEF Destroy
<1>2. ASSUME NEW i \in 1..Len(ledger)
      PROVE  i \notin shredded' <=> ledger[i].dek \in DOMAIN keyring' /\ keyring'[ledger[i].dek] = i
    <2>1. i \notin shredded <=> ledger[i].dek \in DOMAIN keyring /\ keyring[ledger[i].dek] = i
        BY DEF ErasureInv, Sealed
    <2>2. ledger[keyring[id]].dek = id
        BY <1>1 DEF ErasureInv, Sealed
    <2> QED BY <1>1, <2>1, <2>2
<1> QED BY <1>1, <1>2 DEF ErasureInv, Sealed

(* shred.Keyring, seal_fields, open_fields: for any number of records and  *)
(* any reuse of ids, a sealed record opens, and to its own subject, until  *)
(* the moment its own key is destroyed or replaced, and never after.       *)
THEOREM ErasureIsExact == ErasureSpec => []ErasureExact
<1>1. ErasureInv /\ [ShredNext]_shredVars => ErasureInv'
    <2> SUFFICES ASSUME ErasureInv, [ShredNext]_shredVars PROVE ErasureInv'
        OBVIOUS
    <2>1. CASE UNCHANGED shredVars
        BY <2>1 DEF shredVars, ErasureInv, Sealed
    <2>2. CASE ShredNext
        BY <2>2, RecordSealed, KeyDestroyed DEF ShredNext
    <2> QED BY <2>1, <2>2
<1> QED BY <1>1, ErasureStart, SealedOpens, PTL DEF ErasureSpec

-----------------------------------------------------------------------------
(* The composer's check of a blueprint, and the blueprint's walk.          *)
WalkSpec == BlueprintInit /\ [][BlueprintNext]_bp

(* The walk stays among the states the search has seen.                    *)
WalkInv ==
    /\ bp.entry \in BpStates /\ bp.edges \subseteq BpStates \X BpNames
    /\ bp = [entry |-> bp.entry, edges |-> bp.edges, terms |-> bp.terms, at |-> bp.at]
    /\ bp.at \in Seen(bp)

LEMMA WalkStart == BlueprintInit => WalkInv
<1> SUFFICES ASSUME BlueprintInit PROVE WalkInv
    OBVIOUS
<1> DEFINE s0 == CHOOSE s \in BpStates : TRUE
<1>1. s0 \in BpStates
    BY ConcordAssumption
<1>2. PICK edges \in SUBSET (BpStates \X BpNames), terms \in SUBSET BpStates :
          bp = [entry |-> s0, edges |-> edges, terms |-> terms, at |-> s0]
    BY DEF BlueprintInit
<1> HIDE DEF s0
<1>3. bp.at \in Seen(bp)
    BY <1>1, <1>2 DEF Seen, BpNames
<1> QED BY <1>1, <1>2, <1>3 DEF WalkInv

LEMMA WalkStep == WalkInv /\ [BlueprintNext]_bp => WalkInv'
<1> SUFFICES ASSUME WalkInv, [BlueprintNext]_bp PROVE WalkInv'
    OBVIOUS
<1>1. CASE UNCHANGED bp
    BY <1>1 DEF WalkInv, Seen, Closed, adjacency
<1>2. CASE BlueprintNext
    <2>1. PICK s \in emit_tla(bp, bp.at) : bp' = [bp EXCEPT !.at = s]
        BY <1>2 DEF BlueprintNext
    <2>2. bp'.entry = bp.entry /\ bp'.edges = bp.edges /\ bp'.terms = bp.terms /\ bp'.at = s
          /\ bp' = [entry |-> bp'.entry, edges |-> bp'.edges, terms |-> bp'.terms, at |-> bp'.at]
        BY <2>1 DEF WalkInv
    <2>3. Seen(bp') = Seen(bp)
        BY <2>2 DEF Seen, Closed, adjacency
    <2>4. s = bp.at \/ s \in adjacency(bp, bp.at)
        BY DEF emit_tla
    <2>5. s \in adjacency(bp, bp.at) => s \in Seen(bp)
        <3> SUFFICES ASSUME s \in adjacency(bp, bp.at) PROVE s \in Seen(bp)
            OBVIOUS
        <3>1. s \in BpNames
            BY DEF adjacency, WalkInv
        <3>2. ASSUME NEW S \in SUBSET BpNames, bp.entry \in S, Closed(bp, S) PROVE s \in S
            <4>1. bp.at \in S
                BY <3>2 DEF WalkInv, Seen
            <4> QED BY <3>2, <4>1 DEF Closed
        <3> QED BY <3>1, <3>2 DEF Seen
    <2>6. bp'.at \in Seen(bp')
        BY <2>2, <2>3, <2>4, <2>5 DEF WalkInv
    <2> QED BY <2>2, <2>6 DEF WalkInv
<1> QED BY <1>1, <1>2

LEMMA WalkSound == WalkInv => ComposerSound
<1> SUFFICES ASSUME WalkInv PROVE ComposerSound
    OBVIOUS
<1>1. emit_tla(bp, bp.at) = {} => composer_main(bp, TRUE) = "issue"
    BY DEF WalkInv, run_tlc, composer_main
<1>2. ASSUME emit_tla(bp, bp.at) = {}, bp.at \in BpStates PROVE <<"deadlock", bp.at>> \in structural(bp)
    BY <1>2 DEF emit_tla, structural
<1>3. emit_tla(bp, bp.at) = {} /\ bp.at \in BpStates => composer_main(bp, FALSE) = "issue"
    BY <1>2 DEF composer_main
<1>4. ASSUME NEW i \in structural(bp), i[1] = "unreachable" PROVE bp.at # i[2]
    <2>1. \/ \E s \in BpStates : i = <<"deadlock", s>>
          \/ \E s \in BpStates \ Seen(bp) : i = <<"unreachable", s>>
          \/ i = <<"no terminal", bp.entry>>
        BY DEF structural
    <2>2. \A s : <<"deadlock", s>>[1] # "unreachable" /\ <<"no terminal", s>>[1] # "unreachable"
        OBVIOUS
    <2>3. PICK s \in BpStates \ Seen(bp) : i = <<"unreachable", s>>
        BY <1>4, <2>1, <2>2, Zenon
    <2>4. i[2] = s
        BY <2>3
    <2> QED BY <2>3, <2>4, Zenon DEF WalkInv
<1>5. ASSUME <<"deadlock", bp.at>> \in structural(bp) PROVE emit_tla(bp, bp.at) = {}
    <2>1. bp.at \in BpStates \ bp.terms /\ adjacency(bp, bp.at) = {}
        BY <1>5 DEF structural
    <2> QED BY <2>1 DEF emit_tla
<1> QED BY <1>1, <1>3, <1>4, <1>5 DEF ComposerSound

(* composer.structural and composer.main: for every blueprint, a walk that *)
(* gets stuck was reported, by TLC where it is installed and by the        *)
(* structural check alone where the walk stayed among declared states; a   *)
(* state called unreachable is not reached and one called a dead end is    *)
(* one.                                                                    *)
THEOREM ComposerIsSound == WalkSpec => []ComposerSound
BY WalkStart, WalkStep, WalkSound, PTL DEF WalkSpec

-----------------------------------------------------------------------------
(* Alchemy: porters, their control flow, and the pin.                      *)
ChipSpec == ChipInit /\ [][ChipNext]_<<porters, declared, was, edits>>

Rising(s, n) == \A i, k \in 1..n : i < k => s[i] < s[k]
Neighbours(s) == {<<s[i], s[i + 1]>> : i \in 1..Len(s) - 1}

(* Every set of blocks can be listed in its order.                         *)
LEMMA OrderExists ==
    ASSUME NEW m \in Nat, NEW S, S \subseteq 0..m
    PROVE  LET n == Cardinality(S) IN n \in Nat /\ InOrder(S) \in [1..n -> S] /\ Rising(InOrder(S), n)
<1> DEFINE Listed(R) == IsFiniteSet(R) /\ \E s \in [1..Cardinality(R) -> R] : Rising(s, Cardinality(R))
           T == {k \in Nat : \A R \in SUBSET {i \in Nat : i < k} : Listed(R)}
<1>1. 0 \in T
    <2> SUFFICES ASSUME NEW R \in SUBSET {i \in Nat : i < 0} PROVE Listed(R)
        OBVIOUS
    <2>0. R = {}
        OBVIOUS
    <2>1. R = {} /\ IsFiniteSet(R) /\ Cardinality(R) = 0
        BY <2>0, FS_EmptySet, Zenon
    <2>2. [i \in 1..0 |-> i] \in [1..Cardinality(R) -> R] /\ Rising([i \in 1..0 |-> i], Cardinality(R))
        BY <2>1 DEF Rising
    <2> QED BY <2>1, <2>2
<1>2. ASSUME NEW k \in Nat, k \in T PROVE k + 1 \in T
    <2> SUFFICES ASSUME NEW R \in SUBSET {i \in Nat : i < k + 1} PROVE Listed(R)
        OBVIOUS
    <2>1. R \ {k} \in SUBSET {i \in Nat : i < k}
        OBVIOUS
    <2>2. Listed(R \ {k})
        BY <1>2, <2>1
    <2>3. CASE k \notin R
        <3>1. R \ {k} = R
            BY <2>3
        <3> HIDE DEF Listed
        <3> QED BY <2>2, <3>1
    <2>4. CASE k \in R
        <3> DEFINE Q == R \ {k}
                   n == Cardinality(Q)
        <3>1. n \in Nat /\ IsFiniteSet(R) /\ Cardinality(R) = n + 1
            <4>1. IsFiniteSet(Q) /\ k \notin Q /\ R = Q \cup {k}
                BY <2>2, <2>4
            <4> HIDE DEF Q
            <4> QED BY <4>1, FS_AddElement, FS_CardinalityType
        <3>2. PICK s \in [1..n -> Q] : Rising(s, n)
            BY <2>2
        <3> HIDE DEF n
        <3> DEFINE t == [i \in 1..(n + 1) |-> IF i = n + 1 THEN k ELSE s[i]]
        <3>3. \A i \in 1..n : s[i] \in Q /\ s[i] \in Nat /\ s[i] < k
            BY <3>2, <2>1
        <3>4. t \in [1..(n + 1) -> R]
            BY <2>4, <3>1, <3>3
        <3>5. t[n + 1] = k /\ \A i \in 1..n : t[i] = s[i]
            BY <3>1
        <3> HIDE DEF t
        <3>6. Rising(t, n + 1)
            <4> SUFFICES ASSUME NEW i \in 1..(n + 1), NEW j \in 1..(n + 1), i < j PROVE t[i] < t[j]
                BY DEF Rising
            <4>1. i \in 1..n
                BY <3>1
            <4>2. CASE j = n + 1
                BY <3>3, <3>5, <4>1, <4>2
            <4>3. CASE j # n + 1
                <5>1. j \in 1..n
                    BY <3>1, <4>3
                <5> QED BY <3>2, <3>5, <4>1, <5>1 DEF Rising
            <4> QED BY <4>2, <4>3
        <3> QED BY <3>1, <3>4, <3>6
    <2> QED BY <2>3, <2>4
<1> HIDE DEF T
<1>3. m + 1 \in T
    BY <1>1, <1>2, NaturalNumbers
<1>4. S \in SUBSET {i \in Nat : i < m + 1}
    OBVIOUS
<1>5. Listed(S)
    BY <1>3, <1>4 DEF T
<1>6. InOrder(S) \in [1..Cardinality(S) -> S] /\ Rising(InOrder(S), Cardinality(S))
    BY <1>5, Zenon DEF InOrder, Rising
<1> QED BY <1>5, <1>6, FS_CardinalityType

(* Among listings without repetition, one that stays within the other and  *)
(* steps only where it does is a contiguous piece of it.                   *)
LEMMA WithinIsPiece ==
    ASSUME NEW L \in Seq(Nat), Len(L) > 0, Rising(L, Len(L)), NEW P \in Seq(Nat), Rising(P, Len(P)),
           Range(L) \subseteq Range(P), Neighbours(L) \subseteq Neighbours(P)
    PROVE  Piece(L, P)
<1> DEFINE n == Len(L)
           z == Len(P)
<1>1. n \in Nat /\ z \in Nat /\ 1 \in 1..n /\ DOMAIN L = 1..n /\ DOMAIN P = 1..z
      /\ (\A i \in 1..n : L[i] \in Nat) /\ \A i \in 1..z : P[i] \in Nat
    OBVIOUS
<1>2. \A i, j \in 1..z : P[i] = P[j] => i = j
    <2> SUFFICES ASSUME NEW i \in 1..z, NEW j \in 1..z, P[i] = P[j], i # j PROVE FALSE
        OBVIOUS
    <2>1. P[i] \in Nat /\ P[j] \in Nat /\ i \in Nat /\ j \in Nat
        BY <1>1
    <2>2. i < j \/ j < i
        BY <2>1
    <2>3. P[i] < P[j] \/ P[j] < P[i]
        BY <2>2 DEF Rising
    <2> QED BY <2>1, <2>3
<1>3. PICK a \in 1..z : P[a] = L[1]
    <2>1. L[1] \in Range(L)
        BY <1>1 DEF Range
    <2>2. L[1] \in Range(P)
        BY <2>1
    <2> QED BY <1>1, <2>2 DEF Range
<1> HIDE DEF n, z
<1> DEFINE T == {k \in Nat : k + 1 <= n => a + k <= z /\ L[k + 1] = P[a + k]}
<1>4. 0 \in T
    BY <1>1, <1>3
<1>5. ASSUME NEW k \in Nat, k \in T PROVE k + 1 \in T
    <2> SUFFICES ASSUME k + 2 <= n PROVE a + (k + 1) <= z /\ L[k + 2] = P[a + (k + 1)]
        OBVIOUS
    <2>1. a + k <= z /\ L[k + 1] = P[a + k] /\ a + k \in 1..z /\ k + 1 \in 1..(n - 1) /\ (k + 1) + 1 = k + 2
        BY <1>1, <1>5
    <2>2. <<L[k + 1], L[(k + 1) + 1]>> \in Neighbours(L)
        BY <2>1, Zenon DEF Neighbours, n
    <2>3. PICK j \in 1..(z - 1) : <<L[k + 1], L[(k + 1) + 1]>> = <<P[j], P[j + 1]>>
        BY <2>2 DEF Neighbours, z
    <2>4. P[j] = L[k + 1] /\ P[j + 1] = L[k + 2] /\ j \in 1..z /\ j + 1 \in 1..z
        BY <1>1, <2>1, <2>3
    <2>5. j = a + k
        BY <1>2, <2>1, <2>4
    <2> QED BY <1>1, <2>1, <2>4, <2>5
<1> HIDE DEF T
<1>6. \A k \in Nat : k \in T
    BY <1>4, <1>5, NaturalNumbers
<1>7. ASSUME NEW i \in 1..n PROVE a + i - 1 <= z /\ L[i] = P[a + i - 1]
    <2>1. i - 1 \in T /\ i - 1 \in Nat /\ (i - 1) + 1 = i /\ a + (i - 1) = a + i - 1
        BY <1>1, <1>6
    <2> QED BY <1>1, <2>1 DEF T
<1> DEFINE c == a + n - 1
<1>8. c \in 1..z /\ a <= c /\ c - a + 1 = n
    BY <1>1, <1>7
<1>9. SubSeq(P, a, c) = [i \in 1..n |-> P[a + i - 1]]
    BY <1>1, <1>8 DEF z
<1>10. L = [i \in 1..n |-> L[i]]
    BY <1>1
<1>11. L = SubSeq(P, a, c)
    BY <1>7, <1>9, <1>10
<1> QED BY <1>8, <1>11 DEF Piece, z

LEMMA PieceIsWithin ==
    ASSUME NEW L \in Seq(Nat), Len(L) > 0, NEW P \in Seq(Nat), Piece(L, P)
    PROVE  Range(L) \subseteq Range(P) /\ Neighbours(L) \subseteq Neighbours(P)
<1> DEFINE n == Len(L)
           z == Len(P)
<1>1. PICK a \in 1..z, c \in 1..z : L = SubSeq(P, a, c)
    BY DEF Piece
<1>2. n \in Nat /\ z \in Nat /\ DOMAIN L = 1..n /\ DOMAIN P = 1..z
    OBVIOUS
<1>3. n = IF a <= c THEN c - a + 1 ELSE 0
    BY <1>1, <1>2
<1>4. a <= c /\ n = c - a + 1
    BY <1>1, <1>3
<1>5. \A i \in 1..n : L[i] = P[a + i - 1] /\ a + i - 1 \in 1..z
    BY <1>1, <1>2, <1>4
<1> HIDE DEF n, z
<1>6. Range(L) \subseteq Range(P)
    BY <1>2, <1>5 DEF Range
<1>7. ASSUME NEW e \in Neighbours(L) PROVE e \in Neighbours(P)
    <2>1. PICK i \in 1..(n - 1) : e = <<L[i], L[i + 1]>>
        BY DEF Neighbours, n
    <2>2. i \in 1..n /\ i + 1 \in 1..n /\ a + (i + 1) - 1 = (a + i - 1) + 1
        BY <1>1, <1>2, <2>1
    <2>3. e = <<P[a + i - 1], P[(a + i - 1) + 1]>> /\ a + i - 1 \in 1..(z - 1)
        BY <1>2, <1>5, <2>1, <2>2
    <2> QED BY <2>3, Zenon DEF Neighbours, z
<1> QED BY <1>6, <1>7

(* A porter's control flow: its blocks in their order and the terminal     *)
(* after them, with the edges between neighbours.                          *)
LEMMA FlowOf ==
    ASSUME NEW b \in Lpp
    PROVE  /\ cfg(b) = [states |-> cfg(b).states, edges |-> Neighbours(cfg(b).states)]
           /\ cfg(b).states \in Seq(Nat) /\ Len(cfg(b).states) > 0 /\ Rising(cfg(b).states, Len(cfg(b).states))
           /\ cfg(b).edges \subseteq Nat \X Nat
           /\ IsFiniteSet(DOMAIN b.at)
<1> DEFINE S == DOMAIN b.at
           o == InOrder(S)
           n == Cardinality(S)
<1>1. S \in SUBSET Blocks /\ S # {}
    <2>1. PICK f \in UNION {[B -> Calls \cup {None}] : B \in (SUBSET Blocks) \ {{}}}, t \in BOOLEAN : b = [at |-> f, term |-> t]
        BY DEF Lpp
    <2>2. b.at = f
        BY <2>1
    <2>3. PICK B \in (SUBSET Blocks) \ {{}} : f \in [B -> Calls \cup {None}]
        OBVIOUS
    <2> QED BY <2>2, <2>3
<1>2. PICK m \in Blocks : \A k \in Blocks : k <= m
    BY ConcordAssumption
<1>3. m \in Nat /\ S \subseteq 0..m
  <2>1. Blocks \subseteq Nat
    BY ConcordAssumption
  <2> HIDE DEF S
  <2>2. \A k \in S : k \in Nat /\ k <= m
    BY <1>1, <1>2, <2>1
  <2>3. m \in Nat
    BY <1>2, <2>1
  <2> QED BY <2>2, <2>3
<1>4. n \in Nat /\ o \in [1..n -> S] /\ Rising(o, n)
    BY <1>3, OrderExists
<1>5. IsFiniteSet(S) /\ n > 0
    <2>1. IsFiniteSet(0..m)
        BY <1>3, FS_Interval
    <2>2. IsFiniteSet(S)
        BY <1>3, <2>1, FS_Subset
    <2> QED BY <1>1, <1>4, <2>2, FS_EmptySet
<1>6. Terminal \in Nat /\ \A k \in S : k < Terminal
    <2>1. PICK x \in Blocks : x = (CHOOSE y \in Blocks : \A k \in Blocks : k <= y) /\ \A k \in Blocks : k <= x
        BY <1>2
    <2>2. Terminal = 1 + x /\ x \in Nat
        BY <2>1, ConcordAssumption DEF Terminal
    <2> SUFFICES ASSUME NEW k \in S PROVE k < 1 + x
        BY <2>2
    <2>3. k <= x /\ k \in Nat
        BY <1>1, <2>1, ConcordAssumption
    <2> QED BY <2>2, <2>3
<1> DEFINE st == IF b.term THEN Append(o, Terminal) ELSE o
<1>7. cfg(b) = [states |-> st, edges |-> Neighbours(st)]
    BY DEF cfg, Neighbours
<1> HIDE DEF o, n, S
<1>8. o \in Seq(Nat) /\ Len(o) = n /\ \A i \in 1..n : o[i] \in S
    <2>1. \A i \in 1..n : o[i] \in S /\ o[i] \in Nat
        BY <1>1, <1>4, ConcordAssumption
    <2>2. o = [i \in 1..n |-> o[i]]
        BY <1>4
    <2> QED BY <1>4, <2>1, <2>2
<1>9. st \in Seq(Nat) /\ Len(st) > 0 /\ Rising(st, Len(st))
    <2>1. CASE ~b.term
        BY <1>4, <1>5, <1>8, <2>1
    <2>2. CASE b.term
        <3>1. st \in Seq(Nat) /\ Len(st) = n + 1 /\ st[n + 1] = Terminal /\ \A i \in 1..n : st[i] = o[i]
            BY <1>4, <1>6, <1>8, <2>2
        <3>2. ASSUME NEW i \in 1..(n + 1), NEW j \in 1..(n + 1), i < j PROVE st[i] < st[j]
            <4>1. i \in 1..n
                BY <1>4, <3>2
            <4>2. CASE j = n + 1
                BY <1>6, <1>8, <3>1, <4>1, <4>2
            <4>3. CASE j # n + 1
                <5>1. j \in 1..n
                    BY <1>4, <4>3
                <5> QED BY <1>4, <3>1, <3>2, <4>1, <5>1 DEF Rising
            <4> QED BY <4>2, <4>3
        <3> HIDE DEF st
        <3>3. Rising(st, n + 1)
            BY <3>2 DEF Rising
        <3> QED BY <1>4, <3>1, <3>3
    <2> QED BY <2>1, <2>2
<1> HIDE DEF st
<1>10. Neighbours(st) \subseteq Nat \X Nat
    <2> SUFFICES ASSUME NEW i \in 1..Len(st) - 1 PROVE st[i] \in Nat /\ st[i + 1] \in Nat
        BY DEF Neighbours
    <2> QED BY <1>9
<1>11. cfg(b).states = st /\ cfg(b).edges = Neighbours(st)
    BY <1>7
<1> QED BY <1>5, <1>7, <1>9, <1>10, <1>11 DEF S

(* For control flows, containment is being a contiguous piece.             *)
LEMMA ConcordIsPiece ==
    ASSUME NEW b \in Lpp, NEW d \in Lpp
    PROVE  concord(cfg(b), cfg(d)) <=> Piece(cfg(b).states, cfg(d).states)
<1> DEFINE L == cfg(b).states
           P == cfg(d).states
<1>1. /\ L \in Seq(Nat) /\ Len(L) > 0 /\ Rising(L, Len(L)) /\ cfg(b).edges = Neighbours(L)
      /\ P \in Seq(Nat) /\ Rising(P, Len(P)) /\ cfg(d).edges = Neighbours(P)
    BY FlowOf
<1>2. concord(cfg(b), cfg(d)) <=> Range(L) \subseteq Range(P) /\ Neighbours(L) \subseteq Neighbours(P)
    BY <1>1 DEF concord
<1> HIDE DEF L, P
<1>3. Range(L) \subseteq Range(P) /\ Neighbours(L) \subseteq Neighbours(P) <=> Piece(L, P)
    BY <1>1, WithinIsPiece, PieceIsWithin
<1> QED BY <1>2, <1>3 DEF L, P

Chips == UNION {[D -> Lpp] : D \in SUBSET Porters}

ChipInv ==
    /\ porters \in Chips
    /\ declared # None => was \in Chips /\ declared = [p \in DOMAIN was |-> cfg(was[p])]

LEMMA ChipStep == ChipInv /\ [ChipNext]_<<porters, declared, was, edits>> => ChipInv'
<1> SUFFICES ASSUME ChipInv, [ChipNext]_<<porters, declared, was, edits>> PROVE ChipInv'
    OBVIOUS
<1>0. porters = [p \in DOMAIN porters |-> porters[p]] /\ DOMAIN porters \subseteq Porters /\ \A p \in DOMAIN porters : porters[p] \in Lpp
    BY DEF ChipInv, Chips
<1>1. CASE UNCHANGED <<porters, declared, was, edits>>
    BY <1>1 DEF ChipInv
<1>2. CASE pin_declared
    BY <1>2 DEF pin_declared, ChipInv
<1>3. ASSUME NEW p \in Porters, Lose(p) PROVE ChipInv'
    <2>1. porters' \in [DOMAIN porters \ {p} -> Lpp]
        BY <1>0, <1>3 DEF Lose
    <2>2. porters' \in Chips
        BY <1>0, <2>1 DEF Chips
    <2> QED BY <1>3, <2>2 DEF Lose, ChipInv
<1>4. ASSUME NEW p \in Porters, NEW b \in Lpp, Edit(p, b) PROVE ChipInv'
    <2>1. porters' \in [DOMAIN porters \cup {p} -> Lpp]
        BY <1>0, <1>4 DEF Edit
    <2>2. porters' \in Chips
        BY <1>0, <2>1 DEF Chips
    <2> QED BY <1>4, <2>2 DEF Edit, ChipInv
<1> QED BY <1>1, <1>2, <1>3, <1>4 DEF ChipNext

LEMMA ChipStart == ChipInit => ChipInv
BY DEF ChipInit, ChipInv, Chips

LEMMA PinHolds == ChipInv => ConcordCatches
<1> SUFFICES ASSUME ChipInv, declared # None PROVE
      /\ chip_wide_concord => \A p \in DOMAIN porters : NoDrift(p)
      /\ was = porters /\ porters # << >> => chip_wide_concord
      /\ \A p \in DOMAIN porters \cap DOMAIN was :
           publish_gate(porters[p], declared[p]) = "citrinitas_clean" <=>
             NoDrift(p) /\ classify(porters[p]).unnamed = 0 /\ CallsOf(porters[p], "open") = CallsOf(porters[p], "close")
    BY DEF ConcordCatches
<1>1. /\ porters = [p \in DOMAIN porters |-> porters[p]] /\ \A p \in DOMAIN porters : porters[p] \in Lpp
      /\ \A p \in DOMAIN was : was[p] \in Lpp
      /\ DOMAIN declared = DOMAIN was /\ \A p \in DOMAIN was : declared[p] = cfg(was[p])
    BY DEF ChipInv, Chips
<1>2. ASSUME NEW p \in DOMAIN porters, p \in DOMAIN was
      PROVE  concord(cfg(porters[p]), declared[p]) <=> NoDrift(p)
    BY <1>1, <1>2, ConcordIsPiece DEF NoDrift
<1>3. chip_wide_concord => \A p \in DOMAIN porters : NoDrift(p)
    BY <1>1, <1>2 DEF chip_wide_concord
<1>4. ASSUME was = porters, porters # << >> PROVE chip_wide_concord
    <2>1. DOMAIN porters # {}
        <3> SUFFICES ASSUME DOMAIN porters = {} PROVE FALSE
            OBVIOUS
        <3>1. porters = [p \in {} |-> porters[p]]
            BY <1>1
        <3>2. [p \in {} |-> porters[p]] = << >>
            OBVIOUS
        <3> QED BY <1>4, <3>1, <3>2
    <2>2. \A p \in DOMAIN porters : concord(cfg(porters[p]), declared[p])
        BY <1>1, <1>4 DEF concord
    <2> QED BY <1>1, <1>4, <2>1, <2>2 DEF chip_wide_concord
<1>5. ASSUME NEW p \in DOMAIN porters, p \in DOMAIN was
      PROVE  publish_gate(porters[p], declared[p]) = "citrinitas_clean" <=>
               NoDrift(p) /\ classify(porters[p]).unnamed = 0 /\ CallsOf(porters[p], "open") = CallsOf(porters[p], "close")
    <2>1. declared[p] # None
        <3>1. cfg(was[p]) \in [states : Seq(Nat), edges : SUBSET (Nat \X Nat)]
            <4>1. was[p] \in Lpp
                BY <1>1, <1>5
            <4>2. /\ cfg(was[p]) = [states |-> cfg(was[p]).states, edges |-> Neighbours(cfg(was[p]).states)]
                  /\ cfg(was[p]).states \in Seq(Nat) /\ cfg(was[p]).edges \in SUBSET (Nat \X Nat)
                BY <4>1, FlowOf
            <4> QED BY <4>2
        <3> QED BY <1>1, <1>5, <3>1, ConcordAssumption
    <2>2. CallsOf(porters[p], "weird") \in Nat
        <3>1. IsFiniteSet(DOMAIN porters[p].at)
            BY <1>1, FlowOf
        <3>2. IsFiniteSet({k \in DOMAIN porters[p].at : porters[p].at[k] = "weird"})
            BY <3>1, FS_Subset
        <3> QED BY <3>2, FS_CardinalityType DEF CallsOf
    <2>3. classify(porters[p]).unnamed = CallsOf(porters[p], "weird")
          /\ (conserve(porters[p]) <=> CallsOf(porters[p], "open") = CallsOf(porters[p], "close"))
        BY DEF classify, conserve
    <2> QED BY <1>2, <1>5, <2>1, <2>2, <2>3 DEF publish_gate
<1> QED BY <1>3, <1>4, <1>5

(* alchemy.chip_wide_concord, publish_gate: whatever the blocks and        *)
(* porters, and however often they are edited, a chip that passes has only *)
(* porters that are contiguous pieces of what was pinned, an unedited chip *)
(* passes, and the gate admits exactly the balanced, named and contained.  *)
THEOREM DriftIsCaught == ChipSpec => []ConcordCatches
BY ChipStart, ChipStep, PinHolds, PTL DEF ChipSpec
=============================================================================
