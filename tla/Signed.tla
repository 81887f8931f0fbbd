------------------------------- MODULE Signed -------------------------------
(***************************************************************************)
(* Signatures and envelopes.  A signature is the key that made it and what *)
(* it covers: the payload together with its type (the pre-authentication   *)
(* encoding).  A digest is the value it digests; a public key stands for   *)
(* its private half.                                                       *)
(***************************************************************************)
EXTENDS Option, Integers, Sequences, FiniteSets

pae(type, payload) == [type |-> type, payload |-> payload]

ph_sign(message, key) == [key |-> key, over |-> message]
ph_verify(message, sig, key) == sig.key = key /\ sig.over = message

\* A DSSE envelope; a signature carries a key id nobody vouches for.
Envelope(type, payload, sigs) == [type |-> type, payload |-> payload, sigs |-> sigs]
sign_ph(type, payload, key, keyid) ==
    Envelope(type, payload, {[keyid |-> keyid, sig |-> ph_sign(pae(type, payload), key)]})

verify_ph(env, key) == \E s \in env.sigs : ph_verify(pae(env.type, env.payload), s.sig, key)

\* sign.sign: the key id is derived from the key (truncated digest), not given.
keyid(key) == <<"ed25519", key>>
sign(payload, key) == sign_ph("cwp", payload, key, keyid(key))
verify(env, key) == verify_ph(env, key)

intoto_statement(subject, digest, predicate) == [subject |-> subject, digest |-> digest, predicate |-> predicate]
attest_blob(name, blob, key, predicate) == sign_ph("in-toto", intoto_statement(name, blob, predicate), key, "")

\* What release, engine attestation, tree head and feed have in common: the
\* right type, some signature, and one that verifies under the pinned root.
VerifiedAs(env, type, root) == env.type = type /\ env.sigs # {} /\ verify_ph(env, root)
=============================================================================
