------------------------------- MODULE Gates -------------------------------
(***************************************************************************)
(* The decisions the limb takes before it runs a step, as pure operators:  *)
(* grants, operator attestations of an actor's ACL, possession proofs, the *)
(* staged closure, the capability manifest and the two sandbox renderings, *)
(* and the vault.  A DSSE envelope is its body plus the key that signed    *)
(* it, a digest is the value it digests, a reason for refusal is dropped.  *)
(***************************************************************************)
EXTENDS Integers, Sequences, FiniteSets, SequencesExt

CONSTANT None    \* an absent field

SKEW == 1        \* DEFAULT_SKEW, in ticks of the model's clock

-----------------------------------------------------------------------------
(* The per-actor ACL.  A skill, and an entry of an ACL, is [ns, leaf]; a    *)
(* bare id has no ns, and the leaf "*" is a wildcard.                      *)
Star == [ns |-> None, leaf |-> "*"]
Bare(skill) == [ns |-> None, leaf |-> skill.leaf]

_skill_listed(skill, skills) ==
    \/ skill \in skills
    \/ skill.ns # None /\ ([ns |-> skill.ns, leaf |-> "*"] \in skills \/ Bare(skill) \in skills)

\* The key of the perks map that governs a skill: its own id before its leaf.
_pmap_entry(skill, pmap) ==
    IF skill \in DOMAIN pmap THEN skill
    ELSE IF skill.ns # None /\ Bare(skill) \in DOMAIN pmap THEN Bare(skill) ELSE None

TierRank(tier, default) ==
    CASE tier = "core" -> 0 [] tier = "verified" -> 1 [] tier = "community" -> 2 [] OTHER -> default

(* Mutant: any cargo grant admits any mode.                                *)
acl_allows_any_cargo(acl, c, time, strict) ==
    IF acl = None THEN ~strict
    ELSE LET key == _pmap_entry(c.skill, acl.perks)
             listed == key # None /\ c.perk \in acl.perks[key]
         IN  /\ ~acl.revoked
             /\ acl.expires_at = None \/ (time # None /\ time <= acl.expires_at)
             /\ acl.skills = {Star} \/ _skill_listed(c.skill, acl.skills) \/ key # None
             /\ key # None => listed
             /\ c.destructive => listed
             /\ c.credentialed => acl.secrets
             /\ c.parameterized => acl.params
             /\ c.cargo \in {None, "ro", "rw"}
             /\ c.cargo # None => acl.cargo \in {"ro", "rw"}
             /\ acl.max_tier # None => TierRank(c.tier, 2) <= TierRank(acl.max_tier, 0)

acl_allows(acl, c, time, strict) ==
    IF acl = None THEN ~strict
    ELSE LET key == _pmap_entry(c.skill, acl.perks)
             listed == key # None /\ c.perk \in acl.perks[key]
         IN  /\ ~acl.revoked
             /\ acl.expires_at = None \/ (time # None /\ time <= acl.expires_at)
             /\ acl.skills = {Star} \/ _skill_listed(c.skill, acl.skills) \/ key # None
             /\ key # None => listed
             /\ c.destructive => listed
             /\ c.credentialed => acl.secrets
             /\ c.parameterized => acl.params
             /\ c.cargo \in {None, "ro", "rw"}
             /\ c.cargo # None => acl.cargo \in {"ro", "rw"}
             /\ c.cargo = "rw" => acl.cargo = "rw"
             /\ acl.max_tier # None => TierRank(c.tier, 2) <= TierRank(acl.max_tier, 0)

\* The digest is over these fields alone: expiry and revocation stay outside.
attested_acl(acl) == [acl EXCEPT !.expires_at = None, !.revoked = FALSE]

acl_sha(pid, token, acl) == [pid |-> pid, token |-> token, acl |-> attested_acl(acl)]

mint_attestation(key, pid, token, acl, nbf, exp, proof) ==
    [signer |-> key, type |-> "acl", pid |-> pid, token |-> token, acl |-> attested_acl(acl),
     acl_sha |-> acl_sha(pid, token, acl), nbf |-> nbf, exp |-> exp, proof_pubkey |-> proof]

InWindow(body, time) == body.nbf - SKEW <= time /\ time <= body.exp + SKEW

verify_acl_attestation(issuer, att, time, expect) ==
    LET derived == acl_sha(att.pid, att.token, att.acl)
    IN  /\ att.signer = issuer /\ att.type = "acl"
        /\ InWindow(att, time)
        /\ att.acl_sha = derived
        /\ expect = derived

mint_token_proof(key, run, plan, step, token) ==
    [signer |-> key, type |-> "proof", run |-> run, plan |-> plan, step |-> step, token |-> token]

\* Everything but the spending of (token, run, step), which the caller does.
verify_token_proof(pub, proof, run, plan, step, token, banned) ==
    /\ pub \notin banned
    /\ proof.signer = pub /\ proof.type = "proof"
    /\ proof.token = token
    /\ proof.run = run /\ proof.plan = plan /\ proof.step = step

-----------------------------------------------------------------------------
(* Grants                                                                  *)
\* The claim a legacy grant makes: nothing pinned, the no-secrets tier.
mint_grant(key, run, plan, nonce, claim) ==
    claim @@ [signer |-> key, type |-> "grant", run |-> run, plan |-> plan, nonce |-> nonce, nbf |-> 1, exp |-> 1,
              pins |-> << >>, capabilities |-> {"run"}, credentials |-> << >>, tier |-> "community",
              sandbox_tier |-> None, acl_sha |-> None, skill |-> None, perk |-> None, destructive |-> FALSE,
              cargo |-> None, workspace |-> None, argv |-> None]

verify_grant(issuer, g, time, req) ==
    /\ g.signer = issuer /\ g.type = "grant"
    /\ InWindow(g, time)
    /\ req.run \in {None, g.run} /\ req.plan \in {None, g.plan}
    /\ req.workspace = None \/ g.workspace \in {None, req.workspace}
    /\ req.argv = None \/ g.argv \in {None, req.argv}
    /\ g.nonce # None

-----------------------------------------------------------------------------
(* The closure: name -> digest maps of what the grant pins and what is     *)
(* staged in the directory the step will read.                             *)
UNPINNED_BY_DESIGN == "contracts.json"

closure_decision(pinned, staged) ==
    /\ \A n \in DOMAIN pinned : n \in DOMAIN staged /\ staged[n] = pinned[n]
    /\ DOMAIN staged \subseteq DOMAIN pinned \cup {UNPINNED_BY_DESIGN}

-----------------------------------------------------------------------------
(* The sandbox.  A path is a sequence of names; a rendering is the mounts   *)
(* in the order they are applied, the namespaces and the dropped rights.   *)
_CORE_RO == << <<"usr">>, <<"lib">>, <<"etc">> >>
CargoPath == <<"cargo">>
ProcFiles == {<<"proc", "kcore">>, <<"proc", "keys">>}

SandboxProfile(workspace, ro, network) ==
    [workspace |-> workspace, ro_binds |-> ro, network |-> network, env |-> {"PATH"}, cargo |-> None]
core_profile(workspace) == SandboxProfile(workspace, _CORE_RO, FALSE)

Mount(mode, src, dst) == [mode |-> mode, src |-> src, dst |-> dst]
\* Each path is bound read-only to itself, so their order does not matter.
RoBinds(p, exists) == SetToSeq({Mount("ro", b, b) : b \in Range(p.ro_binds) \cap exists})
Cargo(p, exists) == IF p.cargo \in {"ro", "rw"} /\ CargoPath \in exists
                    THEN <<Mount(p.cargo, CargoPath, CargoPath)>> ELSE << >>
Special(kind, path) == <<Mount(kind, <<kind>>, path)>>
Namespaces(p) == {"user", "pid", "ipc", "uts", "cgroup"} \cup (IF p.network THEN {} ELSE {"network"})
Nobody == 65534

bwrap_argv(p, exists) ==
    [mounts |-> RoBinds(p, exists) \o Special("tmpfs", <<"tmp">>)
                \o <<Mount("rw", p.workspace, p.workspace)>> \o Cargo(p, exists)
                \o Special("proc", <<"proc">>) \o <<Mount("ro", <<"proc", "sys">>, <<"proc", "sys">>)>>
                \o SetToSeq({Mount("ro", <<"dev", "null">>, f) : f \in ProcFiles \cap exists})
                \o Special("dev", <<"dev">>),
     namespaces |-> Namespaces(p), uid |-> Nobody, env |-> p.env]

oci_config(p, exists) ==
    [mounts |-> Special("tmpfs", <<"tmp">>) \o Special("proc", <<"proc">>) \o RoBinds(p, exists)
                \o <<Mount("rw", p.workspace, p.workspace)>> \o Cargo(p, exists),
     namespaces |-> Namespaces(p) \cup {"mount"}, uid |-> Nobody, env |-> p.env,
     readonly |-> TRUE, noNewPrivileges |-> TRUE, capabilities |-> {},
     maskedPaths |-> ProcFiles \cap exists, readonlyPaths |-> {<<"proc", "sys">>}]

BindsOf(mounts) ==
    {[path |-> m.dst, mode |-> m.mode] :
        m \in {x \in Range(mounts) : x.mode \in {"ro", "rw"} /\ x.src = x.dst /\ Head(x.dst) # "proc"}}
Rendering(p, backend, exists) == IF backend = "runsc" THEN oci_config(p, exists).mounts ELSE bwrap_argv(p, exists).mounts
capability_mounts(p, backend, exists) == BindsOf(Rendering(p, backend, exists))

_namespaces(p, backend, exists) ==
    IF backend = "runsc" THEN oci_config(p, exists).namespaces ELSE {"mount"} \cup bwrap_argv(p, exists).namespaces

_masked_proc(p, backend, exists) ==
    IF backend = "runsc"
    THEN oci_config(p, exists).maskedPaths \cup oci_config(p, exists).readonlyPaths
    ELSE LET ms == Range(bwrap_argv(p, exists).mounts)
         IN  {m.dst : m \in {x \in ms : x.mode = "ro" /\ (x.src = <<"dev", "null">> \/ x.dst = <<"proc", "sys">>)}}

confinement(p, backend, exists) ==
    LET mounts == capability_mounts(p, backend, exists)
        nss == _namespaces(p, backend, exists)
        common == [mounts |-> mounts, namespaces |-> nss, net_isolated |-> "network" \in nss,
                   readonly_root |-> {m.path : m \in {x \in mounts : x.mode = "rw"}} = {p.workspace},
                   masked_proc |-> _masked_proc(p, backend, exists)]
    IN  IF backend = "runsc"
        THEN LET spec == oci_config(p, exists)
             IN  common @@ [uid |-> spec.uid, no_new_privs |-> spec.noNewPrivileges,
                            caps_dropped |-> spec.capabilities = {}]
        ELSE LET argv == bwrap_argv(p, exists)
             IN  common @@ [uid |-> argv.uid, no_new_privs |-> "user" \in argv.namespaces,
                            caps_dropped |-> "user" \in argv.namespaces]

backend_for_tier(tier) ==
    CASE tier \in {None, "core", "verified", "trusted"} -> "bwrap" [] OTHER -> "runsc"
Strength(b) == IF b = "runsc" THEN 2 ELSE 1
strongest(a, b) == IF Strength(a) >= Strength(b) THEN a ELSE b

-----------------------------------------------------------------------------
(* The capability manifest                                                 *)
CapabilityManifest(workspace, tier, credentials) ==
    [workspace |-> workspace, ro_binds |-> _CORE_RO, network |-> FALSE, tier |-> tier, credentials |-> credentials]

community_no_secrets(m) == m.tier \in {"community", "trusted"} /\ ~(m.tier = "community" /\ m.credentials # << >>)

\* The same floor on the wire form, where a field may be missing.
validate_manifest_schema(d) ==
    LET tier == IF "tier" \in DOMAIN d THEN d.tier ELSE "community"
    IN  /\ "workspace" \in DOMAIN d
        /\ tier \in {"community", "trusted"}
        /\ ~(tier = "community" /\ "credentials" \in DOMAIN d /\ d.credentials # << >>)

materialize(m) == SandboxProfile(m.workspace, m.ro_binds, m.network)

declared_mounts(m, exists) ==
    {[path |-> m.workspace, mode |-> "rw"]}
    \cup {[path |-> b, mode |-> "ro"] : b \in Range(m.ro_binds) \cap exists}

materialized_mounts(p, exists) == BindsOf(bwrap_argv(p, exists).mounts)

(* Mutant: only a dropped bind is looked for.                              *)
verify_materialized_no_extra(p, m, exists) ==
    /\ declared_mounts(m, exists) \subseteq materialized_mounts(p, exists)
    /\ p.network = m.network

verify_materialized(p, m, exists) ==
    /\ materialized_mounts(p, exists) = declared_mounts(m, exists)
    /\ p.network = m.network

materialize_checked(m, exists) ==
    IF community_no_secrets(m) /\ verify_materialized(materialize(m), m, exists) THEN materialize(m) ELSE None

-----------------------------------------------------------------------------
(* The vault.  A credential id is [name, spelling]: spellings of one name   *)
(* (api-key, API_KEY) fall on one environment variable.                    *)
step_env_var(cid) == <<"CWS_SECRET", cid.name>>

\* A vault store answers only while its mode is private and holds the id.
VaultGet(vault, cid) == vault.private /\ cid \in vault.holds

\* The secrets the step's environment gains, or None when resolving raises.
inject_step_env(vault, cids) ==
    IF /\ \A i \in DOMAIN cids : VaultGet(vault, cids[i])
       /\ \A i, j \in DOMAIN cids : step_env_var(cids[i]) = step_env_var(cids[j]) => cids[i] = cids[j]
    THEN [var \in {step_env_var(cids[i]) : i \in DOMAIN cids}
            |-> CHOOSE c \in Range(cids) : step_env_var(c) = var]
    ELSE None
=============================================================================
