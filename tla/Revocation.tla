----------------------------- MODULE Revocation -----------------------------
(***************************************************************************)
(* Revocation: the publisher's signed feed and the four gates that consult *)
(* it.  The network may hand a gate any feed ever published, in any order, *)
(* or one the publisher did not sign.                                      *)
(***************************************************************************)
EXTENDS Signed

CONSTANTS
    Root,          \* the pinned publisher key
    Artifact,      \* what gets revoked: a skill, an engine, or a key's id
    MaxFeeds,      \* bound: feeds published
    MaxClock       \* bound of the clock

(* A feed, whoever signed it.                                              *)
FeedBody == [seq : Int, issued : Int, expires : Int, revoked : SUBSET {Artifact}]
Feed ==
    [type : {"feed"}, payload : FeedBody,
     sigs : SUBSET [keyid : {"publisher-root"}, sig : [key : {Root, "stranger"}, over : [type : {"feed"}, payload : FeedBody]]]]

ASSUME RevocationAssumption == Root # "stranger" /\ None \notin Feed

VARIABLES
    clock,
    feeds,       \* the feeds published, in order
    last_seq,    \* what the pinning consumer accepted last
    knew,        \* history: the time it first accepted a feed that lists the artifact
    verdict      \* the last answer: which gate, when, and what it said

feedVars == <<clock, feeds, last_seq, knew, verdict>>

MaxAge == 1          \* DEFAULT_MAX_AGE, in ticks
Grace1 == 1          \* grace windows of feed_tiers
Grace2 == 1

-----------------------------------------------------------------------------
sign_feed(seq, revoked, issued, ttl, key) ==
    sign_ph("feed", [seq |-> seq, issued |-> issued, expires |-> issued + ttl, revoked |-> revoked], key, "publisher-root")

(* mutant: an older feed is as good as a newer one                         *)
verify_feed_any_seq(feed, time, last) ==
    /\ VerifiedAs(feed, "feed", Root)
    /\ time <= feed.payload.expires /\ time - feed.payload.issued <= MaxAge

verify_feed(feed, time, last) ==
    /\ VerifiedAs(feed, "feed", Root)
    /\ time <= feed.payload.expires /\ time - feed.payload.issued <= MaxAge
    /\ feed.payload.seq > last

is_revoked(feed, id, time, last) == verify_feed(feed, time, last) /\ id \in feed.payload.revoked

\* Fails closed: a feed that does not verify refuses everything.
revocation_decision(feed, id, time, last) == verify_feed(feed, time, last) /\ id \notin feed.payload.revoked

-----------------------------------------------------------------------------
(* feed_tiers: an outage degrades service instead of ending it.            *)
tier_for(age) ==
    IF age <= MaxAge THEN "fresh"
    ELSE IF age <= MaxAge + Grace1 THEN "grace-1"
    ELSE IF age <= MaxAge + Grace1 + Grace2 THEN "grace-2" ELSE "expired"

decision(feed, destructive, time, id) ==
    LET tier == tier_for(time - feed.payload.issued)
    IN  /\ VerifiedAs(feed, "feed", Root)
        /\ tier # "expired"
        /\ id \notin feed.payload.revoked
        /\ ~(tier \in {"grace-1", "grace-2"} /\ destructive)

-----------------------------------------------------------------------------
(* keyrotation: both keys count during the overlap; the old one is then    *)
(* revoked by its id.                                                      *)
kid(key) == IF key = "old" THEN Artifact ELSE key
sign_grant(doc, key) == sign_ph("grant", doc, key, kid(key))

\* valid: key id -> public key
verify_grant(grant, valid, time, feed) ==
    \E s \in grant.sigs :
      /\ s.keyid \in DOMAIN valid
      /\ verify_ph(grant, valid[s.keyid])
      /\ feed # None => revocation_decision(feed, s.keyid, time, 0)

cross_sign_rotation(old, new) ==
    LET body == [event |-> "key_rotation", old |-> kid(old), new |-> kid(new), new_pub |-> new]
    IN  [body |-> body, sig_old |-> ph_sign(body, old), sig_new |-> ph_sign(body, new)]
verify_rotation(record, old, new) ==
    ph_verify(record.body, record.sig_old, old) /\ ph_verify(record.body, record.sig_new, new)

-----------------------------------------------------------------------------
(* revoke_inflight: how many of n steps complete when the revocation lands *)
(* during step `at` (counted from 0).                                      *)
run_inflight(n, id, clean, revoke, at, time, critical) ==
    LET Allows(i) == revocation_decision(IF i > at THEN revoke ELSE clean, id, time, 0)
        Killed(i) == i = at /\ critical /\ ~revocation_decision(revoke, id, time, 0)
        stops == {i \in 0..n - 1 : ~Allows(i) \/ Killed(i)}
    IN  IF stops = {} THEN n ELSE CHOOSE i \in stops : \A k \in stops : i <= k

-----------------------------------------------------------------------------
RevocationInit ==
    /\ clock = 0 /\ feeds = << >> /\ last_seq = -1 /\ knew = None
    /\ verdict = [gate |-> "none", allow |-> FALSE, time |-> 0, known |-> None]

\* A later feed repeats what the earlier ones listed.
Publish(lists, ttl) ==
    LET before == IF feeds = << >> THEN {} ELSE feeds[Len(feeds)].payload.revoked
    IN  /\ Len(feeds) < MaxFeeds
        /\ feeds' = Append(feeds, sign_feed(Len(feeds) + 1, before \cup lists, clock, ttl, Root))
        /\ UNCHANGED <<clock, last_seq, knew, verdict>>

TickClock == clock < MaxClock /\ clock' = clock + 1 /\ UNCHANGED <<feeds, last_seq, knew, verdict>>

Delivered == {feeds[i] : i \in DOMAIN feeds} \cup {sign_feed(9, {}, clock, 1, "stranger")}
Say(gate, allow) == verdict' = [gate |-> gate, allow |-> allow, time |-> clock, known |-> knew]

(* A consumer as revocation.py describes it: it pins the last seq that     *)
(* verified.                                                               *)
AskPinned(feed) ==
    LET ok == verify_feed(feed, clock, last_seq)
    IN  /\ Say("pinned", revocation_decision(feed, Artifact, clock, last_seq))
        /\ last_seq' = IF ok THEN feed.payload.seq ELSE last_seq
        /\ knew' = IF knew = None /\ is_revoked(feed, Artifact, clock, last_seq) THEN clock ELSE knew
        /\ UNCHANGED <<clock, feeds>>

AskTiers(feed, destructive) ==
    /\ Say(IF destructive THEN "destructive" ELSE "read-only", decision(feed, destructive, clock, Artifact))
    /\ UNCHANGED <<clock, feeds, last_seq, knew>>

AskGrant(feed) ==
    /\ Say("grant", verify_grant(sign_grant("doc", "old"), [k \in {Artifact, "new"} |-> IF k = "new" THEN k ELSE "old"],
                                 clock, feed))
    /\ UNCHANGED <<clock, feeds, last_seq, knew>>

(* The steps of a run that started under one feed and meets another; the   *)
(* answer is whether a step beyond those it may finish was completed.      *)
AskInflight(clean, revoke, at, critical) ==
    LET done == run_inflight(2, Artifact, clean, revoke, at, clock, critical)
    IN  /\ Say("inflight", done > (IF critical THEN at ELSE at + 1) /\ Artifact \in revoke.payload.revoked)
        /\ UNCHANGED <<clock, feeds, last_seq, knew>>

(* A successor key is introduced by a record two keys signed; the answer   *)
(* is whether one was accepted that the two rotating keys did not sign.    *)
AskRotation(a, b) ==
    /\ Say("rotation", verify_rotation(cross_sign_rotation(a, b), "old", "new") /\ <<a, b>> # <<"old", "new">>)
    /\ UNCHANGED <<clock, feeds, last_seq, knew>>

RevocationNext ==
    \/ \E a, b \in {"old", "new", "stranger"} : AskRotation(a, b)
    \/ \E lists \in SUBSET {Artifact}, ttl \in {0, 3} : Publish(lists, ttl)
    \/ TickClock
    \/ \E f \in Delivered :
         \/ AskPinned(f) \/ AskGrant(f)
         \/ \E destructive \in BOOLEAN : AskTiers(f, destructive)
         \/ \E g \in Delivered, at \in {0, 1}, critical \in BOOLEAN : AskInflight(f, g, at, critical)

-----------------------------------------------------------------------------
(* Once a pinning consumer has accepted a feed that lists the artifact, no *)
(* feed it can be handed makes it allow the artifact again; and at every   *)
(* other gate a revocation bites when the last feed without it has aged    *)
(* out: within max_age, or the grace windows for read-only operations      *)
(* (revocation.py: freshness bounds the latency, and replaying an older    *)
(* feed to un-revoke something is refused).                                *)
Latency(gate) == IF gate = "read-only" THEN MaxAge + Grace1 + Grace2 ELSE MaxAge
RevokedStaysRefused ==
    verdict.allow =>
      /\ verdict.gate \notin {"inflight", "rotation"}
      /\ verdict.gate = "pinned" => verdict.known = None
      /\ \A i \in DOMAIN feeds : Artifact \in feeds[i].payload.revoked =>
           verdict.time <= feeds[i].payload.issued + Latency(verdict.gate)
=============================================================================
