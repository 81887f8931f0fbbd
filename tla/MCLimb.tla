------------------------------- MODULE MCLimb -------------------------------
(***************************************************************************)
(* The limb, the recorder and the identity checks for TLC.  The parts      *)
(* share no state, so a behaviour exercises one of them.  The grant key is *)
(* not trusted: it signs claims that stray from the ACL on every axis.     *)
(***************************************************************************)
EXTENDS Limb, Identity, TLC

VARIABLE lane

vars == <<limbVars, recVars, time, thread, authVars, bucketVars, lane>>

-----------------------------------------------------------------------------
(* Constants                                                               *)
W1 == <<"tmp", "w1">>
W2 == <<"tmp", "w2">>
MCOutcome == [a1 |-> "ok", a2 |-> "error"]
MCExists == Range(_CORE_RO) \cup {CargoPath, <<"proc", "kcore">>}
fs == [ns |-> "general", leaf |-> "fs"]
net == [ns |-> "general", leaf |-> "net"]
Acl(skills, perks, tier, secrets, params, cargo) ==
    [skills |-> skills, perks |-> perks, max_tier |-> tier, secrets |-> secrets, params |-> params, cargo |-> cargo,
     revoked |-> FALSE, expires_at |-> None]
AclA == Acl({Bare(fs)}, Bare(fs) :> {"read"}, "verified", FALSE, FALSE, "ro")
AclB == Acl({Star}, fs :> {"read", "rm"}, None, TRUE, TRUE, "rw")
AttA == mint_attestation(AclKey, "alice", "tokA", AclA, 0, 0, None)
AttB == mint_attestation(AclKey, "bob", "tokB", AclB, 0, 1, "kb")
AttNode == mint_attestation(AclKey, "bob", "tokB", AclB, 0, 1, GrantKey)
Issued == {AttA, AttB, AttNode}
Unpinned == mint_attestation(GrantKey, "alice", "tokA", AclB, 0, 9, None)
Proofs == {mint_token_proof(k, "r1", "p1", 1, "tokB") : k \in {"kb", GrantKey}}

Key1 == [name |-> "api", spelling |-> 1]
Key2 == [name |-> "api", spelling |-> 2]
Pins == ("porter" :> "good")
ShaA == AttA.acl_sha
ShaB == AttB.acl_sha
Narrow == [acl_sha |-> ShaA, skill |-> fs, perk |-> "read", sandbox_tier |-> "verified", cargo |-> "ro",
           workspace |-> W1, argv |-> "a1", pins |-> Pins]
Wide == [acl_sha |-> ShaB, skill |-> fs, perk |-> "rm", destructive |-> TRUE, sandbox_tier |-> "community",
         cargo |-> "rw", credentials |-> <<Key1>>, tier |-> "trusted", workspace |-> W1, argv |-> "a1", pins |-> Pins]
Strays == {[skill |-> net], [perk |-> "rm"], [destructive |-> TRUE, perk |-> "rm"], [sandbox_tier |-> "community"],
           [cargo |-> "rw"], [cargo |-> "rwx"], [credentials |-> <<Key1>>, tier |-> "trusted"], [acl_sha |-> None],
           [acl_sha |-> Unpinned.acl_sha]}
Claims ==
    {Narrow, Wide, [Wide EXCEPT !.tier = "community"], [Wide EXCEPT !.credentials = <<Key1, Key2>>], [capabilities |-> {}]}
    \cup {x @@ Narrow : x \in Strays}
GrantsOf(nonce) == {mint_grant(GrantKey, "r1", "p1", nonce, c) : c \in Claims}

Req(g, ws, argv, env, att, proof) ==
    [run |-> "r1", plan |-> "p1", step |-> 1, workspace |-> ws, argv |-> argv, env |-> {"PATH"} \cup env,
     grant |-> g, attestation |-> att, token_proof |-> proof]
NoPins(g) == [g EXCEPT !.workspace = None, !.argv = None]
GateRequests ==
    {Req(g, W1, "a1", {}, att, None) : g \in GrantsOf("n1"), att \in {None, AttA, Unpinned}}
    \cup {Req(g, W1, "a1", {}, att, proof) : g \in {mint_grant(GrantKey, "r1", "p1", n, Wide) : n \in {"n1", "n2"}},
                                             att \in {AttB, AttNode}, proof \in Proofs \cup {None}}
    \cup LET g == mint_grant(GrantKey, "r1", "p1", "n2", Narrow)
          r == Req(g, W1, "a1", {}, AttA, None)
         IN  {r, [r EXCEPT !.workspace = W2], [r EXCEPT !.argv = "a2"], [r EXCEPT !.env = @ \cup {"CALLER"}],
              [r EXCEPT !.run = "r2"], [r EXCEPT !.grant.signer = "other"],
              [r EXCEPT !.workspace = None], [r EXCEPT !.workspace = W2, !.argv = "a2", !.grant = NoPins(@)]}

Core == [w \in {W1, W2} |-> core_profile(w)]
OpenVault == [private |-> TRUE, holds |-> {Key1, Key2}]
Conf(strict, floor, host, vault, factory) ==
    [strict |-> strict, acl_pinned |-> strict, floor |-> floor, host |-> host, vault |-> vault, factory |-> factory]
GateConfs ==
    {Conf(s, "bwrap", {"bwrap", "runsc"}, OpenVault, Core) : s \in BOOLEAN}
    \cup {Conf(TRUE, "bwrap", {"bwrap"}, v, Core) : v \in {None, [private |-> FALSE, holds |-> {Key1}]}}
    \cup {Conf(TRUE, "runsc", {"bwrap", "runsc"}, OpenVault, f) :
             f \in {[w \in {W1, W2} |-> SandboxProfile(w, Append(_CORE_RO, CargoPath), FALSE)],
                    [w \in {W1, W2} |-> SandboxProfile(w, _CORE_RO, TRUE)], Core}}
PlainConf == Conf(FALSE, "bwrap", {"bwrap"}, None, Core)
Blessed == Pins @@ (UNPINNED_BY_DESIGN :> "any")
Stagings == {Blessed, "porter" :> "swapped", Blessed @@ ("sibling" :> "any")}

RecordRequests == {[Req(mint_grant(GrantKey, run, "p1", run, << >>), W1, "a1", {}, None, None) EXCEPT !.run = run] :
                      run \in {"r1", "r2"}}
Unsigned == [signer |-> "agent", run |-> "r1", step |-> 1, status |-> "ok", nonce |-> "n9"]

MCAssertions ==
    {mint_assertion("ka", 0, 9, "x"), mint_assertion("ka", 1, 1, "y"), mint_assertion("kz", 0, 2, "z"),
     mint_assertion("kz", 1, 1, "x"), [mint_assertion("ka", 0, 3, "w") EXCEPT !.signer = "kz"],
     [mint_assertion("ka", 0, 3, "v") EXCEPT !.exp = 5]}
MCPrincipals == [alice |-> [token |-> "tokA", subject |-> "ka"], bob |-> [token |-> "tokB", subject |-> None]]

Symmetry == Permutations(Recorders) \cup Permutations(Threads)

-----------------------------------------------------------------------------
Init ==
    /\ LimbInit /\ IdentityInit
    /\ lane \in {"gates", "record", "auth", "rate"}
    /\ IF lane = "gates" THEN conf \in GateConfs /\ staged \in Stagings ELSE conf = PlainConf /\ staged = << >>

(* What is staged is chosen at the start, and replaced while the first step *)
(* is in hand and has not started, which reaches every request with every  *)
(* staging.  The clock is not read then, so it stands.                     *)
GatesNext ==
    \/ RunnerStarts \/ RunnerEnds(FALSE)
    \/ /\ running # None /\ executions = << >>
       /\ \E f \in Stagings \ {staged} : Stage(f)
    \/ running = None /\ (Tick \/ \E req \in {r \in GateRequests : conf.strict \/ r.attestation = None} : run_step(req))

(* A recorder sees a run by its results alone and changes nothing exod     *)
(* reads, so no run need be interleaved with a recorder's steps.           *)
RecordNext ==
    \/ /\ \A p \in Recorders : recorder[p] = Idle
       /\ \/ Restart \/ RunnerStarts \/ \E raised \in BOOLEAN : RunnerEnds(raised)
          \/ \E req \in RecordRequests : run_step(req)
    \/ /\ running = None
       /\ \E p \in Recorders : \/ RecordOpen(p) \/ RecordDump(p) \/ RecordCrash(p)
                               \/ \E env \in results : RecordRead(p, env, IF env.run = "r2" THEN "r2" ELSE None)
                               \/ RecordRead(p, Unsigned, None)

Next ==
    \/ lane = "gates" /\ GatesNext /\ UNCHANGED <<time, thread, authVars, bucketVars, lane>>
    \/ lane = "record" /\ RecordNext /\ UNCHANGED <<time, thread, authVars, bucketVars, lane>>
    \/ lane = "auth" /\ AuthNext /\ UNCHANGED <<limbVars, recVars, lane>>
    \/ lane = "rate" /\ RateNext /\ UNCHANGED <<limbVars, recVars, lane>>

Spec == Init /\ [][Next]_vars

=============================================================================
