---------------------------- MODULE ValueLedger ----------------------------
(***************************************************************************)
(* The tier-2 value ledger: the values of a delegated step, sealed to a    *)
(* set of recipients and stored once per step, while their commitment      *)
(* travels in the step's event to the chain.  Values and event take        *)
(* separate jobs through the mirror's queue, and the event passes through  *)
(* memory and the run's file first; a crash or a full queue comes between. *)
(* One step of one run is modelled.                                        *)
(***************************************************************************)
EXTENDS Store

CONSTANTS
    Values,        \* what a caller may send for the step's variables
    MaxAttempts,   \* bound: executions of the step, refused ones included
    MaxRestarts,   \* bound: crashes
    MirrorQueue    \* maxsize of the mirror's queue

VARIABLES
    hand,      \* the handler: where it is, with which attempt
    attempts,  \* the attempts so far: values and outcome
    mem,       \* the step_result in memory: its values_sha, None if there is none
    disk,      \* the same in the run's file
    jobs,      \* the mirror's queue
    sealed,    \* the run_values table
    events,    \* values_sha of the step_results in the chain, in order
    keyfile,   \* the node's key; the fresh ones are 1, 2, ...
    restarts,
    hole       \* history: a job was dropped, a write failed, a crash came in between

valueVars == <<hand, attempts, mem, disk, jobs, sealed, events, keyfile, restarts, hole>>

Idle == [pc |-> "idle", sha |-> None]
NoValues == "none sent"     \* an empty map of values

(* Commitments and sealed blobs, neither of which is the absent one.       *)
Commitment == Nat \X (Values \cup {NoValues})
Blob == [sha : Commitment, ct : Commitment, wraps : SUBSET Nat]
ASSUME ValueAssumption == None # <<0, NoValues>> /\ None \notin Blob

-----------------------------------------------------------------------------
(* The envelope.  The sealed content is salt and plaintext; the salt is    *)
(* fresh, here the number of the attempt.                                  *)
commit(salt, values) == <<salt, values>>

encrypt(values, salt, recipients) ==
    [sha |-> commit(salt, values), ct |-> <<salt, values>>, wraps |-> recipients]

\* Whoever can open the blob can add recipients; the content stays as it is.
rewrap(blob, key, extra) == IF key \in blob.wraps THEN [blob EXCEPT !.wraps = @ \cup extra] ELSE blob

decrypt(blob, key) ==
    IF key \in blob.wraps /\ commit(blob.ct[1], blob.ct[2]) = blob.sha THEN blob.ct[2] ELSE None

-----------------------------------------------------------------------------
ValueInit ==
    /\ hand = Idle /\ attempts = << >> /\ mem = None /\ disk = None /\ jobs = << >>
    /\ sealed = EmptyTables /\ events = << >> /\ keyfile = 1 /\ restarts = 0 /\ hole = FALSE

EnqueueValue(job) ==
    IF Len(jobs) < MirrorQueue THEN jobs' = Append(jobs, job) /\ UNCHANGED hole
    ELSE hole' = TRUE /\ UNCHANGED jobs

(* mutant: the values of a refused step are recorded too                   *)
Execute_records_refused(values, outcome) ==
    /\ hand.pc = "idle" /\ mem = None /\ Len(attempts) < MaxAttempts
    /\ attempts' = Append(attempts, [values |-> values, ran |-> outcome # "refused"])
    /\ hand' = IF values = NoValues THEN Idle ELSE [pc |-> "seal", sha |-> None]
    /\ UNCHANGED <<mem, disk, jobs, sealed, events, keyfile, restarts, hole>>

(* The step is claimed, dialled and comes back: refused and retryable, or  *)
(* run, for good or ill.                                                   *)
Execute(values, outcome) ==
    /\ hand.pc = "idle" /\ mem = None /\ Len(attempts) < MaxAttempts
    /\ attempts' = Append(attempts, [values |-> values, ran |-> outcome # "refused"])
    /\ hand' = IF outcome = "refused" THEN Idle ELSE [pc |-> IF values = NoValues THEN "append" ELSE "seal", sha |-> None]
    /\ UNCHANGED <<mem, disk, jobs, sealed, events, keyfile, restarts, hole>>

(* Store.record_values: seal and queue; the commitment goes into the event *)
(* whether the queue took the job or not.                                  *)
SealValues ==
    LET n == Len(attempts)
        blob == encrypt(attempts[n].values, n, {keyfile})
    IN  /\ hand.pc = "seal"
        /\ EnqueueValue([op |-> "values", blob |-> blob])
        /\ hand' = [pc |-> IF attempts[n].ran THEN "append" ELSE "idle", sha |-> blob.sha]
        /\ UNCHANGED <<attempts, mem, disk, sealed, events, keyfile, restarts>>

(* Store.append: memory under the lock, then the file, then the mirror.    *)
\* A step without values has the commitment NoSha.
NoSha == <<0, NoValues>>
Committed == IF hand.sha = None THEN NoSha ELSE hand.sha
AppendMemory ==
    /\ hand.pc = "append"
    /\ mem' = Committed /\ hand' = [hand EXCEPT !.pc = "persist"]
    /\ UNCHANGED <<attempts, disk, jobs, sealed, events, keyfile, restarts, hole>>

(* The run was evicted meanwhile: its event goes nowhere, and no step of   *)
(* it is found again.                                                      *)
AppendEvicted ==
    /\ hand.pc = "append"
    /\ mem' = NoSha /\ hand' = Idle
    /\ UNCHANGED <<attempts, disk, jobs, sealed, events, keyfile, restarts, hole>>

\* A write that fails ends the call: the event stays in memory only.
PersistEvent(works) ==
    /\ hand.pc = "persist"
    /\ disk' = IF works THEN mem ELSE disk
    /\ hand' = IF works THEN [hand EXCEPT !.pc = "mirror"] ELSE Idle
    /\ UNCHANGED <<attempts, mem, jobs, sealed, events, keyfile, restarts, hole>>

MirrorEvent ==
    /\ hand.pc = "mirror"
    /\ EnqueueValue([op |-> "record", sha |-> Committed])
    /\ hand' = Idle
    /\ UNCHANGED <<attempts, mem, disk, sealed, events, keyfile, restarts>>

(* The mirror's worker: values into the table, first come, an event into   *)
(* the chain.  A write that fails takes the job with it.                   *)
DrainValue ==
    /\ jobs # << >> /\ Head(jobs).op = "values"
    /\ sealed' = record_values(sealed, "run", [n |-> 1, text |-> TRUE], Head(jobs).blob).db
    /\ jobs' = Tail(jobs)
    /\ UNCHANGED <<hand, attempts, mem, disk, events, keyfile, restarts, hole>>

DrainEvent ==
    /\ jobs # << >> /\ Head(jobs).op = "record"
    /\ events' = Append(events, Head(jobs).sha)
    /\ jobs' = Tail(jobs)
    /\ UNCHANGED <<hand, attempts, mem, disk, sealed, keyfile, restarts, hole>>

DrainFails ==
    /\ jobs # << >>
    /\ jobs' = Tail(jobs) /\ hole' = TRUE
    /\ UNCHANGED <<hand, attempts, mem, disk, sealed, events, keyfile, restarts>>

(* A crash and the next boot: the run comes back from its file, the key    *)
(* from its own or, if that is gone, as a new one.                         *)
Restart(keyLost) ==
    /\ restarts < MaxRestarts /\ restarts' = restarts + 1
    /\ hand' = Idle /\ mem' = disk /\ jobs' = << >>
    /\ keyfile' = IF keyLost THEN keyfile + 1 ELSE keyfile
    /\ hole' = TRUE
    /\ UNCHANGED <<attempts, disk, sealed, events>>

(* Fleet join: the stored blobs are wrapped for one more recipient.        *)
Rewrap ==
    /\ sealed' = [sealed EXCEPT !.values = [k \in DOMAIN @ |-> rewrap(@[k], keyfile, {0})]]
    /\ UNCHANGED <<hand, attempts, mem, disk, jobs, events, keyfile, restarts, hole>>

ValueNext ==
    \/ \E v \in Values \cup {NoValues}, outcome \in {"refused", "ok"} : Execute(v, outcome)
    \/ SealValues \/ AppendMemory \/ AppendEvicted \/ MirrorEvent \/ DrainValue \/ DrainEvent \/ DrainFails \/ Rewrap
    \/ \E b \in BOOLEAN : PersistEvent(b) \/ Restart(b)

-----------------------------------------------------------------------------
(* What an operator opens for a step are values it really ran with, never  *)
(* those of a refused attempt; and unless a crash or a lost job came in    *)
(* between, the row is the one its event in the chain commits to, and it   *)
(* is there before the event is (govd.py: so the stored blob and the chain *)
(* sha always agree).                                                      *)
ValuesMatchChain ==
    LET row == Fetch(sealed.values, <<"run", 1>>)
    IN  /\ row # None =>
             /\ \E n \in DOMAIN attempts : attempts[n].ran /\ row.sha = commit(n, attempts[n].values)
             /\ decrypt(row, keyfile) \in {None, row.sha[2]}
             /\ 0 \in row.wraps => decrypt(row, 0) = row.sha[2]
        /\ ~hole => \A i \in DOMAIN events : events[i] # NoSha => row # None /\ row.sha = events[i]
=============================================================================
