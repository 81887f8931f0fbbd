# cyberware: TLA+ models, checks and proofs

cyberware governs what an agent may execute. An agent submits a plan; **govd** compiles it, gives a verdict and, if
it allows the run, oversees every step over a WebSocket. In delegated mode the step is executed by **exod**, a
separate process that runs it in a sandbox and signs the outcome. What happened is kept in a per-run ledger file and
mirrored into a hash chain with a derived index. Runs may be charged to a prepaid budget.

The interesting part of the system is not the policy it evaluates but the windows between its steps: one thread per
session on shared runs, files written outside the lock, a dial to another process in the middle of a handler, a
mirror worker behind a queue, two instances behind a lease, and a crash anywhere. The models here keep those windows
and abstract what flows through them.

## Inventory

| component | state | operations | hard part | what makes it correct |
|---|---|---|---|---|
| run store and oversight loop, `govern/govd.py` | runs in memory (capped), their events, `ledger.json` files, the decisions feed, in-flight claims | `/govern`, `hello`, `step_request`, `step_result`, persist, evict, hydrate | many threads per run, writes outside the lock, restart | a step is granted in order, executed by one session at a time, recorded once; files are prefixes of the ledger |
| delegation, `govern/delegate.py` | none of its own | mint grant, stage, dial, verify answer, record | an answer that is late, lost, refused, unsigned | what is recorded is what exod attested for that grant |
| limb, `exec/exod.py`, `exec/sandbox.py` | spent grant nonces (memory), signed results, the ledger file of a run | gates in order, confine, run, sign, answer; record a result | restart, timeout of a command that ran, recorders without a lock | a grant runs once per start; the box is the granted one; a file has one result per nonce |
| grants and gates, `exec/{grants,grantverify,aclverify,closureverify,capmanifest,vault}.py` | none | signature, expiry, joins of every grant field | order of gates, clock edges | nothing runs outside the operator's attestation |
| budgets, `settle/{budget,money}.py`, `store/backend.py` | one row per seed, top-up and usage | seed at boot, top up, check, debit | check on a snapshot, lost commit, re-seeding | behaves as a prepaid account; allowed is paid; a charge is explained |
| lease, `govern/lease.py`, `store/backend.py` | one row (holder, expiry), a manager per instance | acquire, renew, give up | time, crash without release | a timely renewer keeps the lease; a standby takes over |
| chain file, `cwp/{ledger,chainverify}.py` | JSONL file | locked append with healing of a torn tail, verification | torn writes | committed lines stay and stay linked; what was written verifies |
| mirror and index, `store/{mirror,chainstore,backend}.py` | queue, chain, index rows, origin | put, gate, append, index | gate and append are not atomic, index after chain, full queue | the index follows the chain; jobs in order; one late record at most; the worker survives |
| store tiers, `store/backend.py` | the tables, in SQLite or PostgreSQL | every operation of the seam | two implementations, two ways to serialise | the tiers answer alike |
| reconciler, `store/reconcile.py` | none | read chain, origin, rows; classify; repair | reads at three times | damage is caught in one cycle, an alarm is explained |
| value ledger, `store/valuecrypt.py` | sealed values per step | commit, seal, store first, rewrap | queued before the event is appended | what opens are values the step ran with |
| principals, ACLs, rate limit, orgs, `govern/{principals,skillacl,orgs,issue,ed25519_auth}.py` | registry, buckets, nonces | authenticate, throttle, re-authorise a step | unlocked bucket and cache | an assertion counts once; no more than the quota |
| settlement, `settle/{engine,quote,escrow_expiry,disputes,reward_ledger,throughput,dust,rails,adapter,fmv,...}.py` | reward chain, provider, group-commit writer | fund, settle, refund, dispute, collect, commit groups | retries, expiry racing settlement, lost provider answers | value is only moved, never twice under a key, never without work |
| transparency, keys, releases, `cwp/{translog,checkpoint,revocation,release,engineattest,publish,tsa,shred,...}.py` | append-only logs, feeds, sealed records | append, prove, publish, revoke, shred | staleness and grace, trees of odd size | what is accepted was logged and vouched for; a revocation bites within its latency |
| workflow checking, `cwp/{workflow,algebra,bisim,alchemy,...}.py`, `govern/composer.py` | none | emit, check with three provers, compose, pin, compare | provers that are absent | a verdict agrees with the runs of what it judged |
| executor and client, `govern/{executor,snippetverify,plan_steps,govd_client}.py` | script, snapshot, porters, run ledger | check, run, record; discover, open, ask | two executors on one directory, edits in between | upstream first, blessed code only, no success after a refusal |
| fleet console, doorbell, dashboards, encoders, Go verifier | mostly none | text, I/O | - | outside this project, see the last section |

How they interact: a client POSTs to govd, which asks the budget table and creates the run; sessions on the run ask
for steps; govd calls delegate, which talks to exod over a unix socket; every create and append also puts a job into
the mirror's queue; the mirror's worker asks the lease, appends to the chain and writes the index; the lease row and
the budget table are shared by all instances of govd.

## Modules

| module | what it is |
|---|---|
| `RunLedger` | the event list of one run and what govd derives from it: `ran_ok`, `granted_steps`, `done_steps`, `result_nonces`; pure operators |
| `Oversight` | the run store, the sessions, the claim window, exod, failing writes, crash and hydration |
| `CreditAccount` | abstract: a prepaid account, credits applied once, payments only out of what is there |
| `Budget` | the budget table, boots that re-seed, top-ups, claims that read, are gated and debit on several nodes |
| `Lease` | the lease row and the managers; times are kept as time left, so behaviours are not bounded in length |
| `Chain` | the JSONL file as complete lines and a torn flag: append, every way it can fail, verification |
| `Provenance` | composes `Lease` and `Chain` with queues, mirror workers and the index, for one run's chain |
| `Reconcile` | composes `Provenance` with the reconciler's cycle and with changes to the index from outside |
| `Store`, `StoreTiers` | the tables and every operation on them, for SQLite and for PostgreSQL; both in lockstep; the PostgreSQL debit statement by statement |
| `ValueLedger` | one step's values and event on their way through memory, file, queue and table, over crashes and re-execution (uses the tables of `Store`) |
| `Gates` | what the limb decides before a step: grants, attestations, proofs, closure, manifest, sandbox renderings, vault; pure operators |
| `Limb` | exod's `run_step` with the gates in their order up to the call of the runner, the start and the end of the command, whoever replaces the staged files, restarts, and the recorders of its results |
| `Identity` | signed assertions with the replay cache, the token bucket, both under unlocked threads |
| `RewardLedger` | the reward chain: balanced posting sets, balances, rounding; pure operators and the chain itself |
| `Settlement` | one quote's life: fund, settle, llm settle, sweep, dispute, resolve, audit |
| `Pricing` | prices, charges, metering, FMV index, bounty winners; pure operators |
| `Collection` | rails, credits, adapters over a lossy provider, dust, bounties, royalties, the group-commit writer |
| `SettlementPlane` | composes `Settlement` and `Collection` on one reward chain, their steps interleaved in any order; the plane's properties |
| `Signed` | envelopes and signatures as the key and what it covers |
| `Revocation` | the signed feed, the gates that read it, in-flight revocation, the rotation drill |
| `Merkle` | the tree, checkpointed chains, the transparency log and its offline proofs |
| `Erasure` | sealed records, the ring of keys that open them, and forgetting a key |
| `Evidence` | releases, engine attestations, receipts, time stamps, approvals; with `Merkle` and `Erasure`, everything shown as evidence |
| `Workflow` | workflows, the specification emitted for them and its runs, three provers' verdicts, composition, bisimulation |
| `Concord` | the composer's structural check walked along the blueprint; porters pinned, edited and compared |
| `Pipeline` | script, porters and index as files; two executors from start to record; the client up to its exit code |
| `Option` | the absent value, shared by the modules above |
| `MCOversight`, `MCBudget`, `MCLease`, `MCProvenance` | TLC instances of one module each |
| `MCSettlement`, `MCLimb`, `MCAssurance` | TLC instances of several modules that share no state: a variable `lane` says which one a behaviour exercises |
| `OversightProofs`, `OversightExecutionProofs` | theorems about the run ledger, the oversight loop and delegated execution |
| `BudgetProofs`, `ProvenanceProofs` | theorems about the budget table, and about lease, chain, mirror and reconciler |
| `LimbProofs` | theorems about `Limb` (with the operators of `Gates`) and `Identity` |
| `SettlementProofs` | theorems about `SettlementPlane` |
| `SumTheorems` | lemmas about sums over finite functions and sequences, used by the two kinds of ledger |
| `AssuranceProofs` | theorems about `Revocation`, `ValueLedger`, `Pipeline`, `StoreTiers`, `Erasure` and `Concord` |

The correspondence, definition by definition with line numbers, is `map` in `PROJECT.json`. In general an action is
the code between two points at which another thread can run: a section under `Store.lock`, one transaction of the
backend, one `os.replace`, one flocked append. A read under one lock acquisition and the write under the next are two
actions. The end of a handler (reply, release of the claim) belongs to its last action.

Abstractions worth knowing:

* A verdict is `allow` or not; push_back and reject are treated alike by the store. Plans are their number of steps.
* A step id is a number. The code compares ids as text in the ledger's sets and as numbers in the bound check.
* A presented `plan_sha` is right or wrong. In `Oversight` exod's gates are one choice: it ran with a status, it refused
  before running, its runner failed after starting the command, or it answered unsigned. `Limb` has the gates.
* exod serves one connection at a time, so `Limb` has one step in hand (`running`). Between the gates and the start of the
  command the staged files can be replaced; the command opens what lies there when it starts, all files at one moment.
* The monitor's SSE, tracing spans and logging are left out. The mirror's `decision` job is left
  out; the `values` job is in `ValueLedger`.
* A digest of a line is the line without its `prev`; in particular two lines with equal content collide as in the code.
* `seq` is what `durable_append` computes from the last complete line, not the line's position: that they agree is
  the property `ChainLinked`.
* The instances share a clock. They share a file system, since the chain is guarded by `flock`.
* A signature is the key and what it covers, a digest is what it digests, a hash of two hashes is the pair: nothing
  collides and nothing can be signed without the key. Byte encodings are left out.
* A component that reads the whole chain and appends at most one record under its caller's control is one action
  (`Settlement`, `Collection`); the exception is the group-commit writer, whose `stage` and `commit` are taken apart.
* Amounts count units of the ledger's scale, rates are fractions, and rounding is half-even as in the code.
* An executor's rewrite of the run ledger is one step; its read at the start and its rewrite are two. Its gate (snapshot,
  oversight, identity, plan) is one step; two executors in it at once could both take the snapshot, so
  `RanAsChecked` claims nothing of the snapshot once executors raced. Bash opens the script when the step runs.
* Files that somebody edits (porters, script, index, registry) change at any time, a bounded number of times.
* The provers called by `workflow.py` are external. Each is absent, too slow or working; a working one answers what
  its tool answers on the emitted specification, which `Workflow` computes by exploring it.
* `LeaseManager.release` has no caller in govd, and `on_lost` is not given one; neither is modelled.

## Runs

All bounds are constants named in the modules (`MaxRequests`, `MaxRestarts`, `MaxBoots`, `MaxTopUps`, `MaxJobs`).
Deadlock is not checked: clients may stop sending, and the bounded inputs run out.

| run | instance | shows |
|---|---|---|
| `oversight_delegated` | one delegated run of two steps, two sessions, two messages in flight or in sequence, one restart of govd, any number of exod restarts (165 k states) | order of the ledger, at most one result per step, results attested, one session per claim, files are prefixes, re-execution only for the listed reasons, and every claim is released |
| `oversight_shared` | two runs, one delegated, one cooperative, a store that holds one (4.1 M states) | a cooperative result follows its grant and a refused run stays inert, through eviction and hydration |
| `budget` | two actors, two nodes, two claims, two boots, two top-ups (526 k states) | allowed is paid, charges explained, and the table implements `CreditAccount`, so it is never overdrawn |
| `provenance` | two instances, ttl 2, three jobs, a queue of one, failing writes at every point, crashes at any time (1.0 M states) | the chain stays linked and committed lines stay, the index follows it, jobs are in order and at most once, one late record, the queue drains |
| `settlement` | one quote, one funder, three arbiters with two keys, five records; two idempotency keys, three entries; four staged sets; every market of a grid of prices (487 k states) | value is conserved and never drawn below zero, payouts have work and happen once, the sweep leaves exactly what it is known to leave, two signers per verdict, one movement per key, running balances are the fold of the chain, a fifth of the volume does not move the index |
| `limb` | seven start-up options of exod, claims that stray on every axis, one restart, two recorders; six assertions in a cache of two; two threads on one bucket (253 k states) | what ran stayed inside the attestation, the box is the granted one under both backends and its code the pinned code unless it was replaced before the command started, one result per nonce in a file, an assertion counts once, the quota holds whenever no threads overlap, also right after they did |
| `assurance` | fourteen lanes, see below (1.9 M states) | the reconciler, the tiers, the values, revocation, evidence, the plan checkers and the executors |
| `refused_ran` | one step, two sessions | violation: a recorded refusal can stand for a command that ran |
| `report_once` | one cooperative step, two sessions | violation: two results of one step |
| `ack_durable` | one cooperative step, two sessions | violation: an acknowledged event is not in the file |
| `failover` | two instances | violation: a standby past its acquire timeout never takes over |
| `torn_genesis` | one instance, two jobs | violation: a torn genesis leaves a chain without genesis |

Why the bounds are enough for what the runs ask: the races of the oversight loop are between two threads on one run,
and two messages give each of two sessions one, or one session a retry; two steps are needed for an order, one run
more than the cap for an eviction. Two claims of one actor suffice to race on a balance, and price 2 against
allowances 1 and 2 makes either one, or none, or after a top-up a second one fit. In `provenance` the first job
creates the run, the second and third are needed for a record after a torn one and for a dropped job between two
that got in; ttl 2 is the smallest with a renewal strictly before the expiry. The theorems below remove the bounds
for every safety property of these four runs, the refinement of `CreditAccount` included.

`settlement`: five records are a funding, a settlement or refund, a second funding of the same key, a dispute and its
verdict, so a key is used after it was closed; one tick puts the sweep before and at or past the expiry. The roster
gives one key to two arbiters, because the quorum counts signers. Two keys and a provider that may lose a call before
or after it took effect give a retry of a payment that was made, also by an adapter opened later. Four staged sets
against three entries let a set arrive inside a commit, and one of them is unbalanced, so that the append loop raises
half way. `FmvResists` is about parties that hold at most a fifth of the volume. A behaviour of `MCSettlement` exercises
one part of the plane, which keeps the state space small; the theorems are about `PlaneSpec`, where all of them post
to the chain in any interleaving, and cover every property of this run but `FmvResists`.

`limb`: `GateRequests` has one request per axis on which a claim can leave the ACL, each against options that are
strict or not, with and without a vault, with either floor and with profile factories that add a mount or the
network. The staged files are replaced while the first step waits for its start: one replacement from each of three
stagings to another, which is every pair. Three ticks cover a skew of one on both ends of an attestation. A restart empties the replay cache and the buckets,
which are both in memory. The recorders work on two runs' results and
may be stopped between opening the file (which empties it) and writing it. The assertions are more than the cache
holds, with lifetimes on both sides of the maximum. While two threads overlap no count is kept of what they let
through; it starts anew when the last of them has written. Every property of this run is also a theorem.

`assurance`: a behaviour is in one lane and the other parts stand still.

| lane | instance | property |
|---|---|---|
| reconcile | the mirror of one instance with two jobs, one change from outside, two cycles | `ReconcilerExact`: damage present through a cycle is reported by it; without damage or a lost write an alarm is the reconciler's own race. The second half is a claim about one instance: with two, a record that one of them has queued and not yet written is reported to the other as a gap or a missing origin |
| lockstep, debit | three operations in a row on both tiers, PostgreSQL configured or not; two debits on one connection or two | `TiersAgree`: equal tables and answers; an overdraft needs a shared connection |
| values | two values, three executions, two restarts, a queue of two | `ValuesMatchChain` |
| feed | two feeds and one the publisher did not sign, delivered in any order, four ticks | `RevokedStaysRefused`: a pinning consumer never goes back; other gates within the feed's age and grace |
| checkpoints, log, receipts, shred | chains and trees of up to five entries, of which none, one or two levels are odd; any one record of a chain removed or altered, genesis and checkpoints included; parts of items mixed freely; three sealed records | `EvidenceHolds`: of chains it says exactly which of these changes the two checks catch |
| workflow, blueprint, chip | a catalogue of workflows and their compositions, every prover present or not; every blueprint of three states and one undeclared, loops included; every porter of up to three blocks, one edit | `PlansChecked` |
| executor, client | two executors of a two-step plan, one edit of each file, one kill; the client against every verdict and answer | `BlessedStepsOnly` |

Two executors are symmetric and TLC uses that; no other set is declared symmetric there.

### Fairness

`Oversight!FairSpec`: weak fairness of every handler thread, session thread and exod's loop. The threads are the
server's own (`ThreadingHTTPServer`); the runner has a timeout (`run_confined`, 600 s), so exod's loop comes back to
each request. govd itself waits for the answer without a timeout (`request_step`), so `ClaimsAreReleased` does rest on
exod either going on or closing its connections. Nothing is assumed of clients, failures or crashes. `Provenance!FairSpec`: weak fairness of the worker thread, which loops
forever. `Lease!LeaseSpec`: time passes and a poll that can succeed happens; this is the specification under which
`failover` is violated, so the violation does not come from a clock that stands still or from an idle poller.

### Disagreements between code and text

The five violation runs each refute one sentence of the repository; `findings` in `PROJECT.json` quotes it, and lists
further sentences that the models contradict without a run of their own.

1. *A refused step never ran* (`delegate.py`, `docs/containment-delegation.md`). `run_step` answers any exception of
   its runner with a refusal, the timeout of a command that was running included. The refusal is retryable by design.
2. *A result is recorded only if it has not already been recorded* (`result_acceptable`). The check and the append
   are two acquisitions of the lock. The delegated path is protected by its claim, and proved to be.
3. *Zero lost step_results* (`lease.py`). Snapshots are taken under the lock and written after it. The file is still a
   prefix of the ledger (proved), but may be an older one than what was acknowledged.
4. *The standby acquires the lease and becomes the writer* (`lease.py`). `acquire_blocking` is called once.
5. *A crash mid-write never corrupts the chain* (`cwp/ledger.py`). True of every line but the first: a genesis that
   was cut short makes the file non-empty, and the record after it takes its place.

Without a run of their own: where the code does less than its text says, the property of a passing run states what does
hold and names the exception.

| text | what the code does | exception in |
|---|---|---|
| the index never leads the chain (`reconcile.py`) | rows are read after the chain, so a fresh record looks like one | `AlarmExplained` |
| debits are serialised per actor (`backend.py`) | not between threads that share one PostgreSQL session | `OverdraftNeedsSharing` |
| stored values and commitment always agree (`govd.py`) | not after a crash or a failed append followed by another execution | `ValuesMatchChain`, `hole` |
| any altered path of a proof misses (`translog.py`) | the number of hashes is not compared with the depth, and an unused sibling is ignored | `InclusionSound` |
| any altered leg fails the receipt (`publish.py`) | the proof's leaf is not compared with the release | `AcceptedIsVouchedFor` |
| an absent prover never gives a false pass (`workflow.py`) | with the proof check alone, a workflow with a deadlock is clean | `VerdictsRight` |
| an edited porter fails (`alchemy.py`) | an unreadable or deleted one is skipped, and only the graph is compared | `NoDrift` |
| meaningful without a JRE (`composer.py`) | a transition into an undeclared state passes | `ComposerSound` |
| registers every run (`executor.py`) | the run ledger is rewritten whole, by two executors at once | `RecordedUnlessRaced` |
| the porter check closes the check-to-use gap; the script is scanned before any step runs (`executor.py`) | bash opens both files again; the checks between the steps of `--all` do not look at the script | `RanAsChecked`, `stale` and `swapped` |
| a porter or core swapped after the grant is refused at time of use (`exod.py`) | the closure is digested at the third gate; the command opens the files when it starts | `ReachIsGranted`, `swapped` |
| a principal over its quota is throttled (`principals.py`) | overlapping threads read and write the bucket without a lock | `QuotaHolds`, whose stretches have no overlap in them |
| no escrow holds value past its bound (`escrow_expiry.py`) | a key closed once and funded again is skipped | `SweepLeavesOnlyRefunded` |
| volume is capped at the honest share (`fmv.py`) | the mean includes the party that is capped | `FmvResists`, its bound on volume |
| a refused request keeps its grant (`exod.py`) | mount, tier, vault and sandbox refusals come after the nonce is spent | `run_step` in `Limb` |

## Proofs

Each theorem holds for every value of the constants that satisfies the named assumptions of the modules it is about.
Most only say that bounds, rates and times are numbers, that a plan is not empty, that the ttl is at least 2 units,
that the publisher's key is not a stranger's, and that "none" is not a member of the sets it stands beside
(`OversightAssumption`, `BudgetAssumption`, `LeaseAssumption`, `ProvenanceAssumption`, `IdentityAssumption`,
`RevocationAssumption`, `ValueAssumption`, `PipelineAssumption`, `StoreAssumption`, `AbsentIsNoMode`). `ConcordAssumption`: a blueprint
declares a state and does not declare the ghost, and blocks are numbered up to a last one. `ThreeWayKeys` is what
`Exod.__init__` insists on. `SettlementAssumption`: quoted amounts and the bond are positive, the weights of a split
policy have a positive sum, a list of approvals is a list. `CollectionAssumption`: amounts are integers, a charge is
itemised as `charge_from_price` does it, and nobody stages a posting on an escrow, a hold or a bond, which only the
settlement functions name. TLC evaluates each of them in a passing run. Invariants are conjunctions of named parts; the step lemma of each has one case per action.

**Run ledger** (`OversightProofs`). What appending one event does to order, uniqueness, grants and prefixes, stated
for any sequence of events. No induction over sequences is used: each property is a quantification over positions.

**Oversight** (`OversightProofs`). First type correctness. Then `SafeInv`, which adds to the
properties what a thread may rely on between its own steps: a thread that was told its step is in order keeps that
fact because results are only added (`SessionsSafe`); a thread that holds a claim has its step in the in-flight set
and outside the done set until it has appended; the snapshot in its hand is a prefix of the ledger; a grant is only
ever minted for an allowed run (`GrantsSafe`). `LedgerInOrder` alone is not inductive because the event
is built from a reading of an earlier ledger, and `DiskIsPrefix` alone is not because a snapshot can be written after
any number of other appends. From `SafeInv` follow the order of ledgers, uniqueness of delegated results, exclusive
claims, that a completed step is not dialled again, prefix files, grants before cooperative results, and inertness of
refused runs.

**Delegated execution** (`OversightExecutionProofs`). `AttestInv` adds the life of a grant to `SafeInv`: its nonce is
fresh until the dial and belongs to one thread (`NoncesOwned`), the event a thread is about to append is the answer
given under its nonce (`SessionBacked`), and an event of a ledger, in memory or on disk, is backed by an answered
grant that no later step changes (`EventBacked`). `DelegatedResultAttested` speaks of ledgers only and is not inductive
because what enters one is decided while the thread still waits. `OnceInv` says, as long as govd was not restarted,
where every executed grant is: its thread still waits for it, its result is recorded, its run was evicted, or it can
never be recorded (`GrantsFollowed`). The eviction case is the hard one: the step has run and
no ledger says so, and it is still not open because nobody can claim a step of a run that is not resident.

**Budget** (`BudgetProofs`). The inductive invariant joins `AllowedIsPaid` and `ChargeExplained` with three facts:
only a settled claim can have an unknown commit, a booting node seeds only actors it has configured, and a claim past
its arrival names its actor and price. A debit is one transaction, so the row and the verdict change together except
where the outcome is lost. `TableIsAnAccount` is the refinement: the abstract balance is the sum of an actor's rows, the
rows are a finite set, a row that is new adds its amount to one actor's sum and a row that was there adds nothing
(`SumTheorems`), so each step of the table maps to one `Credit`, one `Pay` that the balance covers, or a stutter.

**Sums** (`SumTheorems`). The library's fold chooses which element to add next, so that a sum has the expected value is
a theorem: a table of the fold's value on every subset exists, it adds each element once in whichever order, and any
two tables agree. Induction over the size of a finite set is available by stating the principle with a set in the
place of a predicate (`NaturalNumbers`, `SubsetsBySize`). From this follow the sum of one more element, of a sequence
and one more entry, and the exchange of two sums.

**Settlement** (`SettlementProofs`). `PlaneInv` has four parts. `Sound`: every record is balanced and no escrow, hold or
bond is below zero. A function of the plane adds records that take out of no pooled account more than is in it
(`Covered`), shown function by function from the balance it read; that the whole chain sums to zero is then not an
invariant of its own but the exchange of two sums, by record and by account. `Trail`: the memos that may occur once do,
each payout has its receipt, and a live adapter has seen every movement an adapter posted, which is why a
restart must read the chain before it acts. `WriterExact`: the running balances are the fold of the chain while only the
writer posts; it speaks of every point of a commit. `QuorumOfSigners` is kept because the verdict's approvals are
counted by distinct keys. The sweep is a fold over the expired keys, and `Swept` says what it has done after any part of
them: their escrow is empty, their refund is on the chain, no other pooled account has changed.

**Mirror, chain and lease** (`ProvenanceProofs`). `ProvInv` has four parts. The lease: a renewal is due
no later than the row expires, kept by `Tick` because both count down together and by `Acquire` because another
instance's row has not expired while it is counting. The chain: every step leaves the complete lines alone or adds
one line linked to the last (`FileKept`), of which `ChainLinked` is the invariant and `CommittedStays` the action
property. The index: a worker past its append holds a digest that is in the file, and files only grow. The window:
an instance with a late record is out of the gate and does not hold the lease, so it cannot pass the gate again
before it holds it, when the count restarts. `OrderInv` gives `JobsInOrder`: the chain, the job in the worker's hand
and the queue of an instance are one increasing sequence, and every job in it has been put.

**Reconciler** (`ProvenanceProofs`). `ReconcileSpec` is the mirror, the cycle and a writer who alters the index, with
no fairness. Such a writer breaks `IndexFollowsChain`, so these proofs rest on `ProvInv`, which only types the
rows, and on `CycleInv`: what a cycle has read is a prefix of the chain (`ReadInv`), and the index has one row per
`seq`, none above the line that comes next (`IndexShape`, `RowsBounded`). The head the code
takes as a maximum therefore exists, by well-foundedness of the naturals. This gives `DamageCaught` for any number of
instances. What an alarm means (`QuietInv`) holds only while nobody altered the index and no job was lost: every
record is indexed but the last, which its worker has in hand (`Indexed`); before the origin is stored there is no
record and no row but the creating job's (`Early`); and a reported divergence is about a row the chain has by now
(`Meant`). `Indexed` is false with two writers, so `ReconcilerIsExact` has the hypothesis `Nodes = {n}`, as the run has.

**Identity** (`LimbProofs`). `AuthInv`: an accepted assertion that is still alive is in the cache (`Remembered`, which is
where pruning must not drop it), a thread past its lookup has an assertion the process has not accepted, or its
nonce is marked (`PastLookup`), and two threads at one nonce are marked (`OverlapSeen`). `QuotaInv`: the
requests let through since any earlier one, plus the tokens left, are within the quota of that stretch, which is
linear arithmetic over the last write of the bucket; a reader alone holds what the bucket still says. An overlap starts
the count anew, so all it must leave behind is a bucket that holds at most the burst, as of no later than now.

**Limb** (`LimbProofs`). `SpentInCache`: a nonce that ran since the last start is in the cache, so the gate refuses it.
`FileSound`: the file, and what each recorder has read of it, hold one result per nonce, and each is of the run the
file is stamped with unless the recorder was told which run to expect; it is kept through a truncation, which loses
results and stamp together. `LimbInv` carries what a step ran under: every execution is in the granted box, under
`--acl-strict` inside its attestation, and its proof is in the cache since the last start (`RanSound`). The gates of
`run_step` give that of the step it hands to the runner, and `WaitingSound` keeps it until the command starts: its proof
is spent, nothing else ran under it, and the staged files are those that were checked unless the step is marked as
swapped, which is all a replacement can change. For the box: the manifest check compares what a rendering binds with what is
declared, and as sets of mounts both renderings bind the same paths (`Bound`), so the workspace is the granted one and
the read-only tree the core one (`Checked`) whatever the profile factory built; the workspace is mounted after
everything it could lie under, except the cargo directory and `/dev`, which `ReachIsGranted` names. For the ceiling:
each axis of `acl_allows` is read back from the attested ACL. `ExodSpec` takes
any envelope that names a run, which a result exod signed always does, any factory that builds a
`SandboxProfile` of some workspace, read-only paths and network flag (`ProfilesMade`), and any request whose workspace the
factory was asked for and whose attestation, if it has one, carries an ACL record as `attested_acl` builds it
(`Readable`).

**Revocation** (`AssuranceProofs`). Feeds are numbered, dated in order and cumulative (`FeedsOrdered`), and the sequence
number a consumer pinned is at least that of the feed it learnt the revocation from (`PinnedKnows`): a feed
without the revocation is therefore older than the pin. For the other gates the age of a feed without the revocation
bounds the time of the verdict (`Justified`).

**Value ledger** (`AssuranceProofs`). `Genuine`: every sealed blob, in the table or on its way, commits to values of an
attempt that ran. `Orderly`: without a hole, each event on its way through hand, memory and queue is preceded there by
its blob unless that is stored (`Coming`), and no second blob of the step is on its way.

**Executors and client** (`AssuranceProofs`). `SessionOK`: what an executor takes for done, in the run ledger it
read and in what it did itself, did run and succeed; the text it holds passed oversight, is the snapshot, and is what
lies on disk unless the script was edited since it was read (`swapped`); and the porter it is about to run is the one it
hashed unless something was edited since that check (`stale`). `ExecOK` carries that to every execution there was; it
compares what bash opened with the snapshot, which is taken once and not replaced (`SameFiles`). The record of a run is lost only to another executor, so `Alone` says that while nothing
raced at most one executor is at work and the file is what it read plus what it wrote. `ClientOK`: while the client still
asks, every step it lists succeeded.

**Store tiers** (`AssuranceProofs`). `TablesInv`: both tiers hold the same tables, and a row of the lease table is what
its type says, which is needed because the tiers ask for it in different ways (a conditional upsert; a select
and an update). `DebitInv`: either all threads share the one connection or each has its own; the number of threads at
work on a connection is the number of its open transactions, so a thread that was never overlapped is alone there
(`Counted`, `Solitary`); such a thread has the advisory lock while it decides, so the account it found untouched is untouched
when it commits, unless a debit that overlapped wrote there (`Tainted`). The account pays for one debit and no more,
which makes a second row an overdraft.

**Erasure** (`AssuranceProofs`). `Sealed`: a record's id has the record's own key exactly until that key is forgotten,
and every key of the ring is of the record last sealed under its id. The second half is what makes a reused id erase
one record and no other: the key that goes out of the ring belongs to the record the ring last named.

**Composer** (`AssuranceProofs`). `WalkInv`: the walk stays in the least closed set of states that holds the entry,
which is what the search has seen when its stack is empty; an edge to an undeclared state leads to a state without edges.
`Seen` says that set as the intersection of the closed ones, so it needs no recursion.

**Concordance** (`AssuranceProofs`). The declared control flows are those of the porters as they were when pinned
(`ChipInv`); the rest is about containment. A finite set of blocks can be listed in rising order (`OrderExists`, by
induction on the bound). A rising listing whose states and edges are among another's is a contiguous piece of it
(`WithinIsPiece`, by induction along the listing, because an edge of a listing without repetition fixes its neighbour),
and a piece is contained (`PieceIsWithin`). So the code's comparison of two sets of states and edges loses nothing.

Only model-checked, and why:

* liveness (`ClaimsAreReleased`, `QueueDrains`) and the violation runs;
* `FmvResists`: the index is a weighted median of a sorted list, and sorting is a recursion over the data;
* `EvidenceHolds` and `PlansChecked` as a whole: each is a conjunction of properties of parts that share no state.
  `ErasureExact` is proved of `EvidenceHolds`, `ComposerSound` and `ConcordCatches` of `PlansChecked`; the others rest on
  `Merkle` (trees) and `Workflow` (reachable states), whose operators are recursive, which is out of the prover's reach.

## Plan

The order of importance was the claim window and the ledger, then money, then provenance, and then what surrounds a
run: the limb's gates, settlement, and the checks made before and after. What is left, in this order:

1. The mirror's `decision` job, and two runs in one chain root, so that a cycle of the reconciler meets both.
2. `Oversight` with `Limb`'s `run_step` in the place of its one choice, as a refinement.
3. The parts of `Merkle` that are not recursive, in a module of their own, so that they can be proved about.

## Not modelled

`fleetd` and `fleetdash`, the doorbell, feeds, run logs and tracing render or forward what others decide. `validator`
looks for fields in documents and `chipfetch` downloads; `orgs`, `issue` and `keystore` write files with permissions.
Canonical encoding, schema and manifest lints, labels and reproducible builds are byte-level or textual. Dashboards,
scaffolding, benchmarks, drills and self tests are presentation or harnesses. The Go verifier repeats `verify_chain`.

Of the settlement plane the credit price (a table look-up), the reverse auction (a minimum), the output contract of an
llm step (its verdict is an input of `settle_intelligence`) and the reputation scores are left out; of `authenticate`
the branch for plain bearer tokens is defined and no lane takes it. `components` in `PROJECT.json` says part by part
what is in and what is out.
