------------------------------ MODULE Evidence ------------------------------
(***************************************************************************)
(* What is shown to a verifier who has nothing but pinned keys: the        *)
(* governed release of a chip and its engine, dual-signed run receipts,    *)
(* time stamps, hardware approvals, and records whose subject fields were  *)
(* sealed (Erasure).  The parts of an item are free to come from different *)
(* honest items, or from somebody else.                                    *)
(***************************************************************************)
EXTENDS Merkle, Erasure

CONSTANTS
    Chips,        \* chip indexes that were released
    Engines       \* engine binaries that were released

VARIABLE item    \* the item shown, and whether it was accepted

evidenceVars == <<item, shredVars>>

-----------------------------------------------------------------------------
(* Releases and engines.                                                   *)
Publisher == "root"
release_manifest(chip) == [chip |-> chip]
sign_release(chip, key) == sign_ph("release", release_manifest(chip), key, "publisher-root")
verify_release(env) == VerifiedAs(env, "release", Publisher)
release_matches_chip(env, chip) == env.payload = release_manifest(chip)
ENTRY_POINTS == {"chipfetch", "govd_boot", "exod_run"}
tri_layer_check(env) == [e \in ENTRY_POINTS |-> verify_release(env)]

engine_measure(blob) == blob
sign_engine(blob, version, key) ==
    sign_ph("engine", [engine_digest |-> engine_measure(blob), version |-> version], key, "publisher-root")
verify_engine(att) == VerifiedAs(att, "engine", Publisher)
attest_live(att, blob) == verify_engine(att) /\ engine_measure(blob) = att.payload.engine_digest
mutual_handshake(mine, blob, theirs, peer) == attest_live(mine, blob) /\ attest_live(theirs, peer)

release_receipt(chip, blob, version, key) == [release |-> sign_release(chip, key), engine |-> sign_engine(blob, version, key)]
health_matches_signed_release(receipt, blob) ==
    /\ verify_engine(receipt.engine) /\ engine_measure(blob) = receipt.engine.payload.engine_digest
    /\ verify_release(receipt.release)

-----------------------------------------------------------------------------
(* The governed release: three legs, each verified on its own.             *)
governed_release(chip, blob, version, key, prior) ==
    LET rel == sign_release(chip, key)
        leaves == Append(prior, leaf_hash(rel))
    IN  [release |-> rel, engine |-> sign_engine(blob, version, key),
         transparency |-> offline_proof(rel, Len(leaves) - 1, leaves, key), version |-> version]

(* mutant: a chip index that is given is not compared                      *)
verify_governed_release_any_chip(receipt, blob, chip) ==
    /\ verify_release(receipt.release)
    /\ attest_live(receipt.engine, blob)
    /\ verify_offline(receipt.transparency, Publisher)

verify_governed_release(receipt, blob, chip) ==
    /\ verify_release(receipt.release)
    /\ chip # None => release_matches_chip(receipt.release, chip)
    /\ attest_live(receipt.engine, blob)
    /\ verify_offline(receipt.transparency, Publisher)

-----------------------------------------------------------------------------
(* Receipts, time stamps, approvals.                                       *)
finalize_receipt(run, predicate, a, b) ==
    LET stmt == intoto_statement(run, run, predicate)
        over == pae("in-toto", stmt)
    IN  Envelope("in-toto", stmt, {[keyid |-> a, sig |-> ph_sign(over, a)], [keyid |-> b, sig |-> ph_sign(over, b)]})

\* Both keys verify, and at least two key ids are claimed.
verify_receipt(receipt, a, b) ==
    /\ receipt.type = "in-toto"
    /\ verify_ph(receipt, a) /\ verify_ph(receipt, b)
    /\ Cardinality({s.keyid : s \in receipt.sigs}) >= 2
    /\ receipt.payload.subject # None

receipt_digest(receipt) == receipt.payload
timestamp(receipt, time, key) ==
    LET body == [receipt_sha |-> receipt_digest(receipt), time |-> time]
    IN  [token |-> sign_ph("tsa", body, key, "tsa-anchor"), receipt_sha |-> body.receipt_sha, time |-> time]

\* The digest compared is the one beside the signed token, not the one in it.
verify_token(stamp, receipt) == stamp.receipt_sha = receipt_digest(receipt) /\ verify_ph(stamp.token, "tsa")
Threshold == 2
settlement_eligible(receipt, stamp, value) == value < Threshold \/ (stamp # None /\ verify_token(stamp, receipt))

challenge_for(doc) == doc
Authenticator(key, doc, origin, rp, up, uv) ==
    [challenge |-> challenge_for(doc), origin |-> origin, rp |-> rp, up |-> up, uv |-> uv, presented |-> key]
make_assertion(doc, key, origin, rp, up, uv) ==
    LET data == Authenticator(key, doc, origin, rp, up, uv) IN [data |-> data, sig |-> ph_sign(data, key)]
verify_assertion(doc, a, origin, rp, credential) ==
    /\ a.data.challenge = challenge_for(doc) /\ a.data.origin = origin /\ a.data.rp = rp
    /\ a.data.up /\ a.data.uv
    /\ a.data.presented = credential
    /\ ph_verify(a.data, a.sig, credential)
grant_gate(destructive, a, doc, credential) ==
    ~destructive \/ (a # None /\ verify_assertion(doc, a, "origin", "rp", credential))

-----------------------------------------------------------------------------
(* Everything that may be shown.  [kind, parts, accepted]                  *)
Receipts == {governed_release(c, e, c, k, << >>) : c \in Chips, e \in Engines, k \in {Publisher, "stranger"}}
Mixed == {[release |-> r.release, engine |-> s.engine, transparency |-> t.transparency, version |-> r.version] :
            r, s, t \in Receipts}
ShowRelease == \E r \in Mixed, blob \in Engines \cup {"patched"}, chip \in Chips \cup {None} :
    item' = [kind |-> "release", chip |-> chip, blob |-> blob, receipt |-> r,
             ok |-> verify_governed_release(r, blob, chip),
             healthy |-> health_matches_signed_release(r, blob) /\ \A e \in ENTRY_POINTS : tri_layer_check(r.release)[e]]

Attestations == {sign_engine(e, 1, Publisher) : e \in Engines} \cup {sign_engine("patched", 1, "stranger")}
ShowPeers == \E mine, theirs \in Attestations, live, peer \in Engines \cup {"patched"} :
    item' = [kind |-> "peers", live |-> live, peer |-> peer, ok |-> mutual_handshake(mine, live, theirs, peer)]

Signatures(run) == {s \in UNION {finalize_receipt(r, "p", a, b).sigs : r \in {"run1", "run2"}, a, b \in {"exec", "appr", "stranger"}} :
                       s.sig.over.payload.subject \in {run, "run1"}}
ShowReceipt == \E run \in {"run1", "run2"} : \E sigs \in SUBSET Signatures(run) :
    item' = [kind |-> "receipt", run |-> run, sigs |-> sigs,
             ok |-> verify_receipt(Envelope("in-toto", intoto_statement(run, run, "p"), sigs), "exec", "appr")]

Rec(run) == finalize_receipt(run, "p", "exec", "appr")
Stamps == {timestamp(Rec(r), 1, k) : r \in {"run1", "run2"}, k \in {"tsa", "stranger"}}
ShowStamp == \E s \in Stamps \cup {None}, sha \in {"run1", "run2"}, value \in {1, 2} :
    LET stamp == IF s = None THEN None ELSE [s EXCEPT !.receipt_sha = receipt_digest(Rec(sha))]
    IN  item' = [kind |-> "stamp", stamp |-> stamp, value |-> value, ok |-> settlement_eligible(Rec("run1"), stamp, value)]

ShowApproval == \E d, doc \in {"doc1", "doc2"}, k \in {"op", "stranger"}, uv \in BOOLEAN, rp \in {"rp", "rp2"},
                   destructive \in BOOLEAN, sent \in BOOLEAN :
    LET a == IF sent THEN make_assertion(d, k, "origin", rp, TRUE, uv) ELSE None
    IN  item' = [kind |-> "approval", a |-> a, doc |-> doc, destructive |-> destructive, ok |-> grant_gate(destructive, a, doc, "op")]

EvidenceNext ==
    /\ item.kind = "none"
    /\ ShowRelease \/ ShowPeers \/ ShowReceipt \/ ShowStamp \/ ShowApproval
    /\ UNCHANGED shredVars

EvidenceInit == item = [kind |-> "none", ok |-> FALSE] /\ ErasureInit

-----------------------------------------------------------------------------
(* What was accepted is what the pinned keys vouch for: the chip and the   *)
(* engine at hand are released ones, and the release is the publisher's;   *)
(* both sides of a handshake run released engines; both keys signed this   *)
(* run; somebody holding the approver's key approved this document.        *)
AcceptedIsVouchedFor ==
    item.ok =>
      CASE item.kind = "release" ->
             /\ item.blob \in Engines
             /\ item.chip # None => \E r \in Receipts : verify_release(r.release) /\ r.release = item.receipt.release
                                                         /\ r.release.payload.chip = item.chip
             /\ item.healthy
        [] item.kind = "peers" -> {item.live, item.peer} \subseteq Engines
        [] item.kind = "receipt" -> \A k \in {"exec", "appr"} : \E s \in item.sigs :
                                      s.sig.key = k /\ s.sig.over.payload.subject = item.run
        [] item.kind = "stamp" -> item.value >= Threshold => item.stamp # None /\ \E s \in item.stamp.token.sigs : s.sig.key = "tsa"
        [] item.kind = "approval" -> item.destructive => item.a.sig = ph_sign(item.a.data, "op") /\ item.a.data.challenge = item.doc

(* What a verifier accepts offline is what was logged, vouched for and not *)
(* erased.                                                                 *)
EvidenceHolds == LogsHold /\ AcceptedIsVouchedFor /\ ErasureExact
=============================================================================
