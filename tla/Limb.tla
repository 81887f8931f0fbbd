-------------------------------- MODULE Limb --------------------------------
(***************************************************************************)
(* exod: the signing principal that re-derives every authority a request   *)
(* claims, runs the step confined and signs what happened; and the         *)
(* recorder that alone writes its results to a run's ledger file.  exod    *)
(* serves one connection at a time; recorders run in several processes and *)
(* share nothing but the file.                                             *)
(***************************************************************************)
EXTENDS Gates

CONSTANTS
    ExodKey, GrantKey, AclKey,   \* exod's identity, the key it takes grants from, the operator's ACL key
    Recorders,                   \* processes that call record_step_result
    Exists,                      \* the host paths that exist
    Outcome,                     \* how each command ends: "ok" or "error"
    MaxNow, MaxBoot, MaxRecords  \* bounds: the clock, exod's restarts, records in the file

\* Exod.__init__: no key may both authorise a run and attest its ceiling.
ASSUME ThreeWayKeys == Cardinality({ExodKey, GrantKey, AclKey}) = 3
ASSUME AbsentIsNoMode == None \notin {"ro", "rw", "community"}

VARIABLES
    conf,           \* exod's start-up options and what its host offers
    now,            \* the clock
    boot,           \* how often exod was started
    grant_nonces,   \* exod's in-memory single-use guard
    proof_nonces,   \* the same for possession proofs
    staged,         \* the closure staged in the step's SNIP directory
    running,        \* the step exod handed to its runner, or None
    executions,     \* every step that ran: the request, what confined it and the code it opened
    results,        \* the step results exod signed
    ledger,         \* the run's ledger file
    recorder        \* each recorder's progress

limbVars == <<conf, now, boot, grant_nonces, proof_nonces, staged, running, executions, results>>
recVars == <<ledger, recorder>>

Idle == [pc |-> "idle"]
Absent == [state |-> "absent", run |-> None, runs |-> << >>]
Torn == [state |-> "torn", run |-> None, runs |-> << >>]

LimbInit ==
    /\ now = 0 /\ boot = 0
    /\ grant_nonces = {} /\ proof_nonces = {}
    /\ running = None /\ executions = << >> /\ results = {}
    /\ ledger = Absent
    /\ recorder = [p \in Recorders |-> Idle]

-----------------------------------------------------------------------------
(* run_step                                                                *)
Parameterized(req) == req.env \ {"PATH", "SNIP", "RECORD_STORE"} # {}
Claim(req) ==
    [skill |-> req.grant.skill, perk |-> req.grant.perk, tier |-> req.grant.sandbox_tier,
     destructive |-> req.grant.destructive, credentialed |-> req.grant.credentials # << >>,
     parameterized |-> Parameterized(req), cargo |-> req.grant.cargo]

Attested(req) ==
    /\ conf.acl_pinned /\ req.attestation # None
    /\ verify_acl_attestation(AclKey, req.attestation, now, req.grant.acl_sha)
    /\ acl_allows(req.attestation.acl, Claim(req), None, FALSE)

banned_proof_pubs == {GrantKey, ExodKey} \cup (IF conf.acl_pinned THEN {AclKey} ELSE {})

ProofKey(req) == <<req.attestation.token, req.grant.run, req.step>>
ProvesPossession(req) ==
    /\ req.token_proof # None
    /\ verify_token_proof(req.attestation.proof_pubkey, req.token_proof, req.grant.run, req.grant.plan, req.step,
                          req.attestation.token, banned_proof_pubs)

\* TRUE when the check passes.  It spends a good proof even if a later gate
\* refuses the request.
_acl_check(req) ==
    IF req.grant.acl_sha = None THEN ~conf.strict
    ELSE /\ Attested(req)
         /\ req.attestation.proof_pubkey # None => ProvesPossession(req) /\ ProofKey(req) \notin proof_nonces
SpendsProof(req) ==
    /\ req.grant.acl_sha # None /\ Attested(req)
    /\ req.attestation.proof_pubkey # None /\ ProvesPossession(req)

_sign_result(req, status) ==
    [signer |-> ExodKey, run |-> req.run, step |-> req.step, status |-> status,
     nonce |-> IF req.grant.nonce # None THEN req.grant.nonce ELSE "ungranted"]

\* Steps 1 to 3: nothing is spent on a request that fails here.
Authorised(req) ==
    /\ _acl_check(req) \/ ~conf.strict
    /\ "run" \in req.grant.capabilities
    /\ closure_decision(req.grant.pins, staged)

Backend(g) == strongest(conf.floor, backend_for_tier(g.sandbox_tier))

\* Steps 5 and 6, after the nonce is spent.
CanRun(req) ==
    LET g == req.grant
        ws == IF g.workspace # None THEN g.workspace ELSE req.workspace
    IN  /\ verify_materialized(conf.factory[req.workspace], CapabilityManifest(ws, "community", << >>), Exists)
        /\ g.credentials # << >> =>
               g.tier = "trusted" /\ conf.vault # None /\ inject_step_env(conf.vault, g.credentials) # None

\* What the runner is given, and the closure as it was checked.
Execution(req) ==
    LET g == req.grant
        prof == conf.factory[req.workspace]
    IN  [req |-> req, boot |-> boot, at |-> now, code |-> staged, swapped |-> FALSE, backend |-> Backend(g),
         profile |-> [prof EXCEPT !.env = @ \cup req.env, !.cargo = IF g.cargo \in {"ro", "rw"} THEN g.cargo ELSE None],
         secrets |-> IF g.credentials = << >> THEN << >> ELSE inject_step_env(conf.vault, g.credentials)]

\* Every gate, in order, up to the call of the runner.  exod serves one
\* connection at a time, so nothing is asked of it while a step runs.
run_step(req) ==
    LET g == req.grant
        verified == verify_grant(GrantKey, g, now, req)
        admitted == verified /\ Authorised(req)
        fresh == admitted /\ g.nonce \notin grant_nonces
    IN  /\ running = None
        /\ proof_nonces' = proof_nonces \cup (IF verified /\ SpendsProof(req) THEN {ProofKey(req)} ELSE {})
        /\ grant_nonces' = grant_nonces \cup (IF admitted THEN {g.nonce} ELSE {})
        /\ \/ /\ fresh /\ req.workspace # None /\ CanRun(req)
              /\ running' = [step |-> Execution(req), started |-> FALSE]
              /\ UNCHANGED results
           \/ /\ ~fresh \/ (req.workspace # None /\ ~CanRun(req))
              /\ results' = results \cup {_sign_result(req, "refused")}
              /\ UNCHANGED running
           \/ /\ fresh /\ req.workspace = None        \* raises: an unsigned error is all the client gets
              /\ UNCHANGED <<running, results>>
        /\ UNCHANGED <<conf, now, boot, staged, executions, recVars>>

\* Refuses rather than run unconfined where the backend is not installed.
run_confined(backend) == backend \in conf.host

(* The runner starts the command, which opens the staged files as they are *)
(* then (all of them at one moment; the window before it has no bound).    *)
RunnerStarts ==
    /\ running # None /\ ~running.started
    /\ IF run_confined(running.step.backend)
       THEN /\ executions' = Append(executions, [running.step EXCEPT !.code = staged])
            /\ running' = [running EXCEPT !.started = TRUE]
            /\ UNCHANGED results
       ELSE /\ results' = results \cup {_sign_result(running.step.req, "refused")}
            /\ running' = None
            /\ UNCHANGED executions
    /\ UNCHANGED <<conf, now, boot, grant_nonces, proof_nonces, staged, recVars>>

\* The command ends, or the runner raises, its time being up: a refusal.
RunnerEnds(raised) ==
    /\ running # None /\ running.started
    /\ results' = results \cup {_sign_result(running.step.req, IF raised THEN "refused" ELSE Outcome[running.step.req.argv])}
    /\ running' = None
    /\ UNCHANGED <<conf, now, boot, grant_nonces, proof_nonces, staged, executions, recVars>>

\* Somebody with access to the workspace replaces what is staged; a step whose
\* closure was checked and that has not started is marked.
Stage(files) ==
    /\ staged' = files
    /\ running' = IF running = None \/ running.started THEN running ELSE [running EXCEPT !.step.swapped = TRUE]
    /\ UNCHANGED <<conf, now, boot, grant_nonces, proof_nonces, executions, results, recVars>>

Tick == now < MaxNow /\ now' = now + 1
        /\ UNCHANGED <<conf, boot, grant_nonces, proof_nonces, staged, running, executions, results, recVars>>

Restart ==
    /\ boot < MaxBoot
    /\ boot' = boot + 1
    /\ grant_nonces' = {} /\ proof_nonces' = {} /\ running' = None
    /\ UNCHANGED <<conf, now, staged, executions, results, recVars>>

-----------------------------------------------------------------------------
(* record_step_result                                                      *)
verify_step_result(env, expect_run) ==
    /\ env.signer = ExodKey
    /\ expect_run \in {None, env.run}
    /\ env.status \in {"ok", "error", "refused"}
    /\ env.nonce # None

(* Mutant: the file is not asked for the nonce.                            *)
Accepts_replays(env, expect_run, snap) ==
    verify_step_result(env, IF expect_run # None THEN expect_run ELSE snap.run)

Accepts(env, expect_run, snap) ==
    /\ verify_step_result(env, IF expect_run # None THEN expect_run ELSE snap.run)
    /\ \A i \in DOMAIN snap.runs : snap.runs[i].nonce # env.nonce

\* The file is read and parsed; a torn one raises and nothing is recorded.
RecordRead(p, env, expect_run) ==
    /\ recorder[p].pc = "idle" /\ ledger.state # "torn" /\ Len(ledger.runs) < MaxRecords
    /\ recorder' = [recorder EXCEPT ![p] = [pc |-> "open", env |-> env, expect |-> expect_run, snap |-> ledger,
                                            dirty |-> FALSE]]
    /\ UNCHANGED <<ledger, limbVars>>

\* open(path, "w") truncates.
RecordOpen(p) ==
    /\ recorder[p].pc = "open"
    /\ ledger' = Torn
    /\ recorder' = [recorder EXCEPT ![p].pc = "dump"]
    /\ UNCHANGED limbVars

Refused == [run |-> None, nonce |-> None, asked |-> FALSE]   \* forged_status_refused

Recorded(p) ==
    LET r == recorder[p]
        ok == Accepts(r.env, r.expect, r.snap)
    IN  [state |-> "ok",
         run |-> IF ok /\ r.snap.run = None THEN r.env.run ELSE r.snap.run,
         runs |-> Append(r.snap.runs, IF ok THEN [run |-> r.env.run, nonce |-> r.env.nonce, asked |-> r.expect # None]
                                            ELSE Refused)]

\* A file another process wrote between this one's open and its dump may be
\* the longer one, and its tail then follows this one's bytes.
RecordDump(p) ==
    /\ recorder[p].pc = "dump"
    /\ ledger' \in {Recorded(p)} \cup (IF recorder[p].dirty THEN {Torn} ELSE {})
    /\ recorder' = [q \in Recorders |-> IF q = p THEN Idle
                                        ELSE IF recorder[q].pc = "dump" THEN [recorder[q] EXCEPT !.dirty = TRUE]
                                        ELSE recorder[q]]
    /\ UNCHANGED limbVars

RecordCrash(p) ==
    /\ recorder[p].pc # "idle"
    /\ recorder' = [recorder EXCEPT ![p] = Idle]
    /\ UNCHANGED <<ledger, limbVars>>

-----------------------------------------------------------------------------
(* Properties                                                              *)
CallerValues(env) == env \ {"PATH", "SNIP", "RECORD_STORE"}
Covers(entry, skill) == entry = skill \/ (skill.ns # None /\ entry \in {Bare(skill), [ns |-> skill.ns, leaf |-> "*"]})
\* The entry of a perks map that is about a skill: its own, else its leaf's.
Governs(entry, skill, perks) ==
    entry = skill \/ (skill \notin DOMAIN perks /\ skill.ns # None /\ entry = Bare(skill))

\* What the operator attested for the token bounds what the step touched.
WithinAttestation(e) ==
    LET g == e.req.grant
        a == e.req.attestation
        acl == a.acl
    IN  /\ a.signer = AclKey /\ g.acl_sha = acl_sha(a.pid, a.token, acl)
        /\ a.nbf - SKEW <= e.at /\ e.at <= a.exp + SKEW
        /\ \A m \in capability_mounts(e.profile, e.backend, Exists) :
               m.path = CargoPath /\ m.path # e.profile.workspace => acl.cargo = "rw" \/ (acl.cargo = "ro" /\ m.mode = "ro")
        /\ DOMAIN e.secrets # {} => acl.secrets
        /\ CallerValues(e.profile.env) # {} => acl.params
        /\ \/ acl.skills = {Star} \/ \E x \in acl.skills : Covers(x, g.skill)
           \/ \E x \in DOMAIN acl.perks : Governs(x, g.skill, acl.perks)
        /\ \A x \in DOMAIN acl.perks : Governs(x, g.skill, acl.perks) => g.perk \in acl.perks[x]
        /\ g.destructive => \E x \in DOMAIN acl.perks : Governs(x, g.skill, acl.perks)
        /\ acl.max_tier # None => TierRank(g.sandbox_tier, 2) <= TierRank(acl.max_tier, 0)
        /\ a.proof_pubkey # None => /\ e.req.token_proof.signer = a.proof_pubkey
                                    /\ a.proof_pubkey \notin {GrantKey, ExodKey, AclKey}

(* Exod._acl_check and run_step under --acl-strict: whatever the grant key *)
(* signs, a step that ran touched only what the operator attested for its  *)
(* token, seen from what the sandbox was given (the mounts, the resolved   *)
(* secrets, the caller's values), by an attestation that was fresh when    *)
(* exod checked it; and where a proof key is bound its holder, never a     *)
(* node, signed for the step, once per start of exod.                      *)
RunsWithinCeiling ==
    conf.strict =>
        \A i \in DOMAIN executions :
            LET e == executions[i]
            IN  /\ WithinAttestation(e)
                /\ \A j \in DOMAIN executions :
                      /\ j # i /\ executions[j].boot = e.boot
                      /\ ProofKey(executions[j].req) = ProofKey(e.req)
                      /\ e.req.attestation.proof_pubkey # None
                      => executions[j].req.attestation.proof_pubkey = None

\* Every file the step could read but the one left open is as the grant pins it.
CodePinned(e) ==
    LET pins == e.req.grant.pins
    IN  \A n \in DOMAIN e.code : n = UNPINNED_BY_DESIGN \/ (n \in DOMAIN pins /\ pins[n] = e.code[n])

\* The box is the one the grant describes, over the operator's floor.
BoxGranted(e, floor) ==
    LET g == e.req.grant
        p == e.profile
        mounts == Rendering(p, e.backend, Exists)
        manifest == CapabilityManifest(p.workspace, g.tier, g.credentials)
    IN  /\ capability_mounts(p, e.backend, Exists) =
               {[path |-> p.workspace, mode |-> "rw"]}
               \cup {[path |-> b, mode |-> "ro"] : b \in Range(_CORE_RO) \cap Exists}
               \cup (IF g.cargo \in {"ro", "rw"} /\ CargoPath \in Exists THEN {[path |-> CargoPath, mode |-> g.cargo]} ELSE {})
        /\ g.workspace \in {None, p.workspace}
        /\ Head(p.workspace) \notin {"cargo", "dev"} =>
               \E k \in DOMAIN mounts :
                   /\ mounts[k] = Mount("rw", p.workspace, p.workspace)
                   /\ \A l \in DOMAIN mounts : l > k => ~IsPrefix(mounts[l].dst, p.workspace)
        /\ "network" \in _namespaces(p, e.backend, Exists)
        /\ confinement(p, "bwrap", Exists) = confinement(p, "runsc", Exists)
        /\ (g.sandbox_tier = "community" \/ floor = "runsc") => e.backend = "runsc"
        /\ ~e.swapped => CodePinned(e)
        /\ verify_materialized(materialize(manifest), manifest, Exists)
        /\ g.tier \in {"community", "trusted"} =>
               /\ community_no_secrets(manifest)
               /\ validate_manifest_schema([workspace |-> p.workspace, tier |-> g.tier, credentials |-> g.credentials])
        /\ Range(e.secrets) = Range(g.credentials)

(* Exod.run_step, sandbox.confinement: the box a step ran in is the one its*)
(* grant describes, whichever backend rendered it and however the profile  *)
(* factory misbehaves: the pinned workspace alone is writable and is not   *)
(* shadowed by a later mount unless it lies in a directory mounted after   *)
(* it, nothing else but the cargo directory is added, the network is cut,  *)
(* both backends confine alike, an unvouched tier is in the stronger one,  *)
(* the code is the pinned code unless somebody replaced it between exod's  *)
(* check and the moment the command opened it, and secrets went, each under*)
(* its own name, only where the manifest gates of the wire and of the build*)
(* would have let them.                                                    *)
ReachIsGranted == \A i \in DOMAIN executions : BoxGranted(executions[i], conf.floor)

(* NonceCache, record_step_result: exod runs a grant again only after a    *)
(* restart emptied its cache, and then the ledger file is what tells: a    *)
(* file that parses holds one accepted result per nonce, each of the run   *)
(* the file is stamped with or its recorder was told to expect, however    *)
(* recorders race, crash or tear it.                                       *)
OneResultPerNonce ==
    /\ \A i, j \in DOMAIN executions :
           i # j /\ executions[i].req.grant.nonce = executions[j].req.grant.nonce => executions[i].boot # executions[j].boot
    /\ \A i, j \in DOMAIN ledger.runs :
           LET a == ledger.runs[i]
               b == ledger.runs[j]
           IN  a.nonce # None /\ b.nonce # None =>
                   (a.run = ledger.run \/ a.asked) /\ (i # j => a.nonce # b.nonce)
=============================================================================
