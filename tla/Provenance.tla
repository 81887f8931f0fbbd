----------------------------- MODULE Provenance -----------------------------
(***************************************************************************)
(* The store mirror: how what a run did reaches its chain, the artifact of *)
(* record, and the index derived from it.                                  *)
(*                                                                         *)
(* Handlers put jobs into a bounded queue.  One worker per instance takes  *)
(* them out and, if the instance holds the lease, writes the chain and     *)
(* then the index.  Nothing is atomic across those writes, nor across the  *)
(* gate and the writes, nor across the test for an empty file and the      *)
(* genesis record; a second instance, a failing disk and a crash come in   *)
(* between.  One run's chain is modelled.                                  *)
(***************************************************************************)
EXTENDS Lease, Chain

CONSTANTS
    MaxJobs,     \* bound: jobs ever handed to the mirrors
    QueueSize    \* maxsize of the queue

ASSUME ProvenanceAssumption ==
    /\ MaxJobs \in Nat
    /\ QueueSize \in Nat \ {0}

VARIABLES
    queue,     \* node -> the jobs waiting in its queue
    worker,    \* node -> what its mirror worker is doing
    file,      \* the run's chain file
    origin,    \* idx_origin has the run's plan_sha
    index,     \* idx_record of the run: the digest of each row, by seq
    from,      \* job -> the instance whose handler put it
    late       \* history: node -> records appended since it stopped holding the lease

mirrorVars == <<queue, worker, file, origin, index, from, late>>
vars == <<holder, left, mgr, wait, queue, worker, file, origin, index, from, late>>

Jobs   == 1..MaxJobs                      \* in the order of put; job 1 creates the run
Line   == [type : {"genesis", "record"}, job : Jobs \cup {0}, seq : Nat,
           prev : [type : {"zero", "genesis", "record"}, seq : Nat, job : Jobs \cup {0}]]
Digest == [type : {"genesis", "record"}, seq : Nat, job : Jobs \cup {0}]

(* The place in the drain loop, the job in hand, and once the chain has    *)
(* the record, the digest that goes into the index.                        *)
Worker == [pc  : {"get", "gate", "test", "genesis", "append", "origin", "index"},
           job : Jobs \cup {0},
           row : Digest \cup {ZERO}]

IdleWorker == [pc |-> "get", job |-> 0, row |-> ZERO]

Init ==
    /\ LeaseInit
    /\ queue = [n \in Nodes |-> <<>>]
    /\ worker = [n \in Nodes |-> IdleWorker]
    /\ file = EmptyFile
    /\ origin = FALSE
    /\ index = {}
    /\ from = <<>>
    /\ late = [n \in Nodes |-> 0]

-----------------------------------------------------------------------------
(* A request handler hands over the run's create record or an event.  An   *)
(* instance that is still acquiring does not serve yet.                    *)
Put(n) ==
    /\ mgr[n] \in {"active", "standby", "lost"}
    /\ Len(from) < MaxJobs
    /\ from' = Append(from, n)
    /\ queue' = IF Len(queue[n]) < QueueSize
                THEN [queue EXCEPT ![n] = Append(@, Len(from) + 1)] ELSE queue
    /\ UNCHANGED <<leaseVars, worker, file, origin, index, late>>

-----------------------------------------------------------------------------
(* The drain loop.                                                         *)

Go(n, pc) == worker' = [worker EXCEPT ![n].pc = pc]
Done(n)   == worker' = [worker EXCEPT ![n] = IdleWorker]

Get(n) ==
    /\ worker[n].pc = "get" /\ queue[n] # <<>>
    /\ worker' = [worker EXCEPT ![n].pc = "gate", ![n].job = Head(queue[n])]
    /\ queue' = [queue EXCEPT ![n] = Tail(@)]
    /\ UNCHANGED <<leaseVars, file, origin, index, from, late>>

Gate_open(n) ==                                     \* mutant: the guard is not asked
    /\ worker[n].pc = "gate" /\ Go(n, "test")
    /\ UNCHANGED <<leaseVars, queue, file, origin, index, from, late>>

Gate(n) ==
    /\ worker[n].pc = "gate" /\ held(n)
    /\ Go(n, "test")
    /\ UNCHANGED <<leaseVars, queue, file, origin, index, from, late>>

(* The instance does not hold the lease, or asking raised.                 *)
Blocked(n) ==
    /\ worker[n].pc = "gate"
    /\ Done(n)
    /\ UNCHANGED <<leaseVars, queue, file, origin, index, from, late>>

(* _genesis_if_empty: the test, outside the file's lock.                   *)
TestEmpty(n) ==
    /\ worker[n].pc = "test"
    /\ Go(n, IF IsEmpty(file) THEN "genesis" ELSE "append")
    /\ UNCHANGED <<leaseVars, queue, file, origin, index, from, late>>

(* What the worker is appending.                                           *)
Kind(n) == IF worker[n].pc = "genesis" THEN "genesis" ELSE "record"
Item(n) == IF worker[n].pc = "genesis" THEN 0 ELSE worker[n].job

CountLate(n, written) ==
    late' = IF worker[n].pc = "append" /\ written /\ ~held(n)
            THEN [late EXCEPT ![n] = @ + 1] ELSE late

AppendGenesis(n) ==
    /\ worker[n].pc = "genesis"
    /\ file' = AppendedTo(file, "genesis", 0)
    /\ Go(n, "append")
    /\ UNCHANGED <<leaseVars, queue, origin, index, from, late>>

AppendRecord(n) ==
    LET job == worker[n].job
    IN  /\ worker[n].pc = "append"
        /\ file' = AppendedTo(file, "record", job)
        /\ worker' = [worker EXCEPT ![n].pc = IF job = 1 THEN "origin" ELSE "index",
                                    ![n].row = link_digest(Linked(file, "record", job))]
        /\ CountLate(n, TRUE)
        /\ UNCHANGED <<leaseVars, queue, origin, index, from>>

(* mutant: the job is put back although its line may be there              *)
AppendFails_requeues(n, how) ==
    /\ worker[n].pc \in {"genesis", "append"}
    /\ file' = FailedAppend(file, Kind(n), Item(n), how)
    /\ Done(n)
    /\ queue' = [queue EXCEPT ![n] = Append(@, worker[n].job)]
    /\ CountLate(n, how = "all")
    /\ UNCHANGED <<leaseVars, origin, index, from>>

(* The append raises (a full disk, a failed fsync), or the process is      *)
(* about to die in it.  The exception is swallowed and the job is gone.    *)
AppendFails(n, how) ==
    /\ worker[n].pc \in {"genesis", "append"}
    /\ file' = FailedAppend(file, Kind(n), Item(n), how)
    /\ Done(n)
    /\ CountLate(n, how = "all")
    /\ UNCHANGED <<leaseVars, queue, origin, index, from>>

SetOrigin(n) ==
    /\ worker[n].pc = "origin"
    /\ origin' = TRUE
    /\ Go(n, "index")
    /\ UNCHANGED <<leaseVars, queue, file, index, from, late>>

(* INSERT OR IGNORE on (run, seq).                                         *)
IndexRecord(n) ==
    LET row == worker[n].row
    IN  /\ worker[n].pc = "index"
        /\ index' = IF \E d \in index : d.seq = row.seq THEN index ELSE index \cup {row}
        /\ Done(n)
        /\ UNCHANGED <<leaseVars, queue, file, origin, from, late>>

(* The backend raises: the chain has the record, the index does not.       *)
IndexSkipped(n) ==
    /\ worker[n].pc \in {"origin", "index"}
    /\ Done(n)
    /\ UNCHANGED <<leaseVars, queue, file, origin, index, from, late>>

WorkerStep(n) ==
    \/ Get(n) \/ Gate(n) \/ Blocked(n) \/ TestEmpty(n)
    \/ AppendGenesis(n) \/ AppendRecord(n)
    \/ \E how \in Failures : AppendFails(n, how)
    \/ SetOrigin(n) \/ IndexRecord(n) \/ IndexSkipped(n)

-----------------------------------------------------------------------------
(* The lease moves on; an instance that holds it has no late records.      *)
LeaseStep ==
    /\ \/ Tick
       \/ \E n \in Nodes : Start(n) \/ Acquire(n) \/ GiveUp(n) \/ Renew(n) \/ RenewFails(n)
    /\ late' = [n \in Nodes |-> IF held(n)' THEN 0 ELSE late[n]]
    /\ UNCHANGED <<queue, worker, file, origin, index, from>>

(* The process dies, its queue and the job in hand with it.                *)
Crash(n) ==
    /\ Die(n)
    /\ queue' = [queue EXCEPT ![n] = <<>>]
    /\ Done(n)
    /\ UNCHANGED <<file, origin, index, from, late>>

Next ==
    \/ LeaseStep
    \/ \E n \in Nodes : Put(n) \/ WorkerStep(n) \/ Crash(n)

Spec == Init /\ [][Next]_vars

(* The worker thread runs whenever it has something to do.                 *)
FairSpec == Spec /\ \A n \in Nodes : WF_vars(WorkerStep(n))

-----------------------------------------------------------------------------
(* Whoever writes, and whatever was torn in between, the lines form one    *)
(* sequence: seq counts them and prev is the digest of the line before     *)
(* (durable_append: no two writers ever compute the same prev or seq).     *)
ChainLinked ==
    \A i \in 1..Len(file.lines) :
      /\ file.lines[i].seq = i - 1
      /\ file.lines[i].prev = IF i = 1 THEN ZERO ELSE link_digest(file.lines[i - 1])

(* A line that was written stays, in its place: healing a torn tail never  *)
(* takes a committed record with it.                                       *)
CommittedStays ==
    [][/\ Len(file.lines) <= Len(file'.lines)
       /\ \A i \in 1..Len(file.lines) : file'.lines[i] = file.lines[i]]_vars

(* The index may trail the chain and have holes, but each of its rows is   *)
(* the digest of the line with that seq.                                   *)
IndexFollowsChain ==
    \A d \in index : \E i \in 1..Len(file.lines) :
      i = d.seq + 1 /\ link_digest(file.lines[i]) = d

(* A job enters the chain at most once, and the jobs one instance put are  *)
(* in the chain in the order in which they were put.                       *)
JobsInOrder ==
    \A i, k \in 1..Len(file.lines) :
      LET a == file.lines[i]
          b == file.lines[k]
      IN  i < k /\ a.type = "record" /\ b.type = "record" /\ from[a.job] = from[b.job]
            => a.job < b.job

(* The window between the gate and the append is one record wide: an       *)
(* instance that lost the lease appends at most one record before it holds *)
(* the lease again.                                                        *)
LateWriteAtMostOne == \A n \in Nodes : late[n] <= 1

(* No failing job stops the worker: a queue does not stay filled.          *)
QueueDrains == \A n \in Nodes : queue[n] # <<>> ~> queue[n] = <<>>

(* A crash mid-write never corrupts the chain: whatever lines there are,   *)
(* verify_chain accepts them.                                              *)
ChainVerifies == file.lines # <<>> => verify_chain(file.lines)
=============================================================================
