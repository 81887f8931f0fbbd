-------------------------- MODULE ProvenanceProofs --------------------------
(***************************************************************************)
(* What the lease and the chain file guarantee for any number of           *)
(* instances, any ttl and any number of jobs.                              *)
(*                                                                         *)
(* The lease needs one fact about time: a renewal is due before the row    *)
(* expires.  The chain needs one fact about durable_append: whatever       *)
(* happens to a file, its complete lines are kept and at most one line is  *)
(* added, linked to the last of them.  Everything said about the index     *)
(* follows, because a row is made from a line that is in the file.         *)
(***************************************************************************)
EXTENDS Reconcile, WellFoundedInduction, TLAPS

-----------------------------------------------------------------------------
(* The lease.                                                              *)

LeaseInv == LeaseTypeOK /\ TimelyRenewalKeepsLease

LEMMA RenewEveryFits == RenewEvery \in 0..TTL /\ RenewEvery \in Nat
BY LeaseAssumption DEF RenewEvery

LEMMA LessFits ==
    ASSUME NEW b \in Nat, NEW t \in 0..b
    PROVE  Less(t) \in 0..b /\ (t > 0 => Less(t) = t - 1) /\ (t = 0 => Less(t) = 0)
BY DEF Less

LEMMA LeaseInvInit == LeaseInit => LeaseInv
BY LeaseAssumption DEF LeaseInit, LeaseInv, LeaseTypeOK, TimelyRenewalKeepsLease, Stages

LEMMA TickKeeps ==
    ASSUME LeaseInv, Tick
    PROVE  LeaseInv'
<1>1. LeaseTypeOK'
    <2>1. Less(left) \in 0..TTL
        BY LessFits, LeaseAssumption DEF LeaseInv, LeaseTypeOK
    <2>2. \A n \in Nodes : Less(wait[n]) \in 0..(TTL + AcquireTimeout)
        BY LessFits, LeaseAssumption DEF LeaseInv, LeaseTypeOK
    <2> QED BY <2>1, <2>2 DEF Tick, LeaseInv, LeaseTypeOK
<1>2. TimelyRenewalKeepsLease'
    <2> SUFFICES ASSUME NEW n \in Nodes, mgr'[n] = "active", wait'[n] > 0
                 PROVE  holder' = n /\ wait'[n] <= left'
        BY DEF TimelyRenewalKeepsLease
    <2>1. /\ wait[n] \in 0..(TTL + AcquireTimeout) /\ left \in 0..TTL
          /\ wait'[n] = Less(wait[n]) /\ left' = Less(left) /\ holder' = holder /\ mgr' = mgr
        BY DEF Tick, LeaseInv, LeaseTypeOK
    <2>2. wait[n] > 0 /\ wait'[n] = wait[n] - 1
        BY <2>1, LeaseAssumption DEF Less
    <2>3. holder = n /\ wait[n] <= left
        BY <2>1, <2>2 DEF LeaseInv, TimelyRenewalKeepsLease
    <2> QED BY <2>1, <2>2, <2>3, LeaseAssumption DEF Less
<1> QED BY <1>1, <1>2 DEF LeaseInv

(* Taking the row: nobody else was counting on it.                         *)
LEMMA TakeKeeps ==
    ASSUME LeaseInv, NEW n \in Nodes,
           TakeLease(n), mgr' = [mgr EXCEPT ![n] = "active"],
           wait' = [wait EXCEPT ![n] = RenewEvery],
           holder = n \/ Acquirable(n)
    PROVE  LeaseInv'
<1>1. LeaseTypeOK'
    BY RenewEveryFits, LeaseAssumption DEF LeaseInv, LeaseTypeOK, TakeLease, Stages
<1>2. TimelyRenewalKeepsLease'
    <2> SUFFICES ASSUME NEW m \in Nodes, mgr'[m] = "active", wait'[m] > 0
                 PROVE  holder' = m /\ wait'[m] <= left'
        BY DEF TimelyRenewalKeepsLease
    <2>1. CASE m = n
        BY <2>1, RenewEveryFits DEF LeaseInv, LeaseTypeOK, TakeLease
    <2>2. CASE m # n
        <3>1. mgr[m] = "active" /\ wait[m] > 0 /\ wait[m] \in Nat /\ left \in Nat
            BY <2>2, LeaseAssumption DEF LeaseInv, LeaseTypeOK
        <3>2. holder = m /\ wait[m] <= left
            BY <3>1 DEF LeaseInv, TimelyRenewalKeepsLease
        <3> QED BY <2>2, <3>1, <3>2, LeaseAssumption DEF Acquirable
    <2> QED BY <2>1, <2>2
<1> QED BY <1>1, <1>2 DEF LeaseInv

(* An instance that leaves the active stage, or was not in it.             *)
LEMMA LeaveKeeps ==
    ASSUME LeaseInv, NEW n \in Nodes, NEW st \in Stages, st # "active",
           NEW w \in 0..(TTL + AcquireTimeout),
           mgr' = [mgr EXCEPT ![n] = st],
           wait' = [wait EXCEPT ![n] = w],
           UNCHANGED <<holder, left>>
    PROVE  LeaseInv'
<1>1. LeaseTypeOK'
    BY DEF LeaseInv, LeaseTypeOK
<1>2. TimelyRenewalKeepsLease'
    BY DEF LeaseInv, LeaseTypeOK, TimelyRenewalKeepsLease
<1> QED BY <1>1, <1>2 DEF LeaseInv

LEMMA LeaseNextKeeps ==
    ASSUME LeaseInv, LeaseNext \/ UNCHANGED leaseVars
    PROVE  LeaseInv'
<1>0. /\ {"acquiring", "standby", "lost", "down"} \subseteq Stages
      /\ AcquireTimeout \in 0..(TTL + AcquireTimeout) /\ 0 \in 0..(TTL + AcquireTimeout)
      /\ mgr \in [Nodes -> Stages]
      /\ \A n \in Nodes : wait[n] \in 0..(TTL + AcquireTimeout) /\ wait = [wait EXCEPT ![n] = wait[n]]
    BY LeaseAssumption DEF Stages, LeaseInv, LeaseTypeOK
<1>1. CASE UNCHANGED leaseVars
    BY <1>1 DEF leaseVars, LeaseInv, LeaseTypeOK, TimelyRenewalKeepsLease
<1>2. CASE Tick
    BY <1>2, TickKeeps
<1>3. ASSUME NEW n \in Nodes, Start(n) PROVE LeaseInv'
    BY <1>0, <1>3, LeaveKeeps DEF Start
<1>4. ASSUME NEW n \in Nodes, Acquire(n) PROVE LeaseInv'
    BY <1>4, TakeKeeps DEF Acquire
<1>5. ASSUME NEW n \in Nodes, GiveUp(n) PROVE LeaseInv'
    BY <1>0, <1>5, LeaveKeeps DEF GiveUp
<1>6. ASSUME NEW n \in Nodes, Renew(n) PROVE LeaseInv'
    <2>1. mgr' = [mgr EXCEPT ![n] = "active"]
        BY <1>0, <1>6 DEF Renew
    <2> QED BY <1>6, <2>1, TakeKeeps DEF Renew
<1>7. ASSUME NEW n \in Nodes, RenewFails(n) PROVE LeaseInv'
    BY <1>0, <1>7, LeaveKeeps DEF RenewFails
<1>8. ASSUME NEW n \in Nodes, Die(n) PROVE LeaseInv'
    BY <1>0, <1>8, LeaveKeeps DEF Die
<1> QED BY <1>1, <1>2, <1>3, <1>4, <1>5, <1>6, <1>7, <1>8 DEF LeaseNext

-----------------------------------------------------------------------------
(* The chain file.                                                         *)

File == [lines : Seq(Line), torn : BOOLEAN]

(* ChainLinked, of any file.                                               *)
LinkedLines(f) ==
    \A i \in 1..Len(f.lines) :
      /\ f.lines[i].seq = i - 1
      /\ f.lines[i].prev = IF i = 1 THEN ZERO ELSE link_digest(f.lines[i - 1])

(* d is the digest of the line it names.                                   *)
InFile(d, f) == \E i \in 1..Len(f.lines) : i = d.seq + 1 /\ link_digest(f.lines[i]) = d

(* The lines of f are the first lines of g.                                *)
Extends(f, g) ==
    /\ Len(f.lines) <= Len(g.lines)
    /\ \A i \in 1..Len(f.lines) : g.lines[i] = f.lines[i]

LEMMA DigestOfLine ==
    ASSUME NEW l \in Line
    PROVE  link_digest(l) \in Digest /\ link_digest(l).seq = l.seq
BY DEF link_digest, Line, Digest

LEMMA LinkedType ==
    ASSUME NEW f \in File, NEW type \in {"genesis", "record"}, NEW job \in Jobs \cup {0}
    PROVE  Linked(f, type, job) \in Line
<1>1. CASE f.lines = <<>>
    BY <1>1 DEF Linked, Line, ZERO
<1>2. CASE f.lines # <<>>
    <2>1. f.lines[Len(f.lines)] \in Line
        BY <1>2 DEF File
    <2> DEFINE tip == f.lines[Len(f.lines)]
    <2>2. link_digest(tip) \in Digest /\ tip.seq \in Nat
        BY <2>1, DigestOfLine DEF Line
    <2> HIDE DEF tip
    <2>3. Linked(f, type, job) = [type |-> type, job |-> job, seq |-> tip.seq + 1,
                                  prev |-> link_digest(tip)]
        BY <1>2 DEF Linked, tip
    <2> QED BY <2>2, <2>3 DEF Line, Digest
<1> QED BY <1>1, <1>2

(* durable_append: one more line, linked, everything before it kept.       *)
LEMMA AppendedLines ==
    ASSUME NEW f \in File, NEW type \in {"genesis", "record"}, NEW job \in Jobs \cup {0}
    PROVE  /\ AppendedTo(f, type, job) \in File
           /\ Extends(f, AppendedTo(f, type, job))
           /\ Len(AppendedTo(f, type, job).lines) = Len(f.lines) + 1
           /\ AppendedTo(f, type, job).lines[Len(f.lines) + 1] = Linked(f, type, job)
<1> DEFINE l == Linked(f, type, job)
<1>1. l \in Line
    BY LinkedType
<1> HIDE DEF l
<1>2. AppendedTo(f, type, job) = [lines |-> Append(f.lines, l), torn |-> FALSE]
    BY DEF AppendedTo, l
<1>3. f.lines \in Seq(Line)
    BY DEF File
<1>4. /\ Append(f.lines, l) \in Seq(Line)
      /\ Len(Append(f.lines, l)) = Len(f.lines) + 1
      /\ \A i \in 1..Len(f.lines) : Append(f.lines, l)[i] = f.lines[i]
      /\ Append(f.lines, l)[Len(f.lines) + 1] = l
      /\ Len(f.lines) \in Nat
    BY <1>1, <1>3
<1> QED BY <1>2, <1>4 DEF File, Extends, l

LEMMA AppendedLinked ==
    ASSUME NEW f \in File, NEW type \in {"genesis", "record"}, NEW job \in Jobs \cup {0},
           LinkedLines(f)
    PROVE  /\ LinkedLines(AppendedTo(f, type, job))
           /\ Linked(f, type, job).seq = Len(f.lines)
<1> DEFINE g == AppendedTo(f, type, job)
           l == Linked(f, type, job)
<1>0. Len(f.lines) \in Nat
    BY DEF File
<1>1. /\ Extends(f, g) /\ Len(g.lines) = Len(f.lines) + 1
      /\ g.lines[Len(f.lines) + 1] = l /\ Len(f.lines) \in Nat
    BY <1>0, AppendedLines
<1>2. /\ l.seq = Len(f.lines)
      /\ l.prev = IF f.lines = <<>> THEN ZERO ELSE link_digest(f.lines[Len(f.lines)])
    <2>1. CASE f.lines = <<>>
        BY <2>1 DEF Linked
    <2>2. CASE f.lines # <<>>
        <3>1. Len(f.lines) \in 1..Len(f.lines)
            BY <2>2 DEF File
        <3>2. f.lines[Len(f.lines)].seq = Len(f.lines) - 1
            BY <3>1 DEF LinkedLines
        <3> QED BY <1>1, <2>2, <3>2 DEF Linked
    <2> QED BY <2>1, <2>2
<1>3. f.lines = <<>> <=> Len(f.lines) = 0
    BY DEF File
<1> HIDE DEF g, l
<1>4. LinkedLines(g)
    <2> SUFFICES ASSUME NEW i \in 1..Len(g.lines)
                 PROVE  /\ g.lines[i].seq = i - 1
                        /\ g.lines[i].prev = IF i = 1 THEN ZERO ELSE link_digest(g.lines[i - 1])
        BY DEF LinkedLines
    <2>1. CASE i \in 1..Len(f.lines)
        <3>1. g.lines[i] = f.lines[i] /\ (i # 1 => g.lines[i - 1] = f.lines[i - 1])
            BY <1>1, <2>1 DEF Extends
        <3> QED BY <2>1, <3>1 DEF LinkedLines
    <2>2. CASE i = Len(f.lines) + 1
        <3>1. i # 1 => g.lines[i - 1] = f.lines[i - 1]
            BY <1>1, <2>2 DEF Extends
        <3> QED BY <1>1, <1>2, <1>3, <2>2, <3>1
    <2> QED BY <1>1, <2>1, <2>2
<1> QED BY <1>2, <1>4 DEF g, l

(* A new line's digest is in the file it was appended to.                  *)
LEMMA AppendedDigest ==
    ASSUME NEW f \in File, NEW type \in {"genesis", "record"}, NEW job \in Jobs \cup {0},
           LinkedLines(f)
    PROVE  /\ InFile(link_digest(Linked(f, type, job)), AppendedTo(f, type, job))
           /\ link_digest(Linked(f, type, job)) \in Digest
<1>1. Linked(f, type, job) \in Line /\ Linked(f, type, job).seq = Len(f.lines) /\ Len(f.lines) \in Nat
    BY LinkedType, AppendedLinked DEF File
<1>2. /\ link_digest(Linked(f, type, job)) \in Digest
      /\ link_digest(Linked(f, type, job)).seq = Len(f.lines)
    BY <1>1, DigestOfLine
<1> DEFINE g == AppendedTo(f, type, job)
           l == Linked(f, type, job)
<1>3. Len(g.lines) = Len(f.lines) + 1 /\ g.lines[Len(f.lines) + 1] = l
    BY AppendedLines
<1> HIDE DEF g, l
<1> QED BY <1>1, <1>2, <1>3 DEF InFile, g, l

LEMMA InFileStays ==
    ASSUME NEW f \in File, NEW g \in File, Extends(f, g), NEW d, InFile(d, f)
    PROVE  InFile(d, g)
<1>1. Len(f.lines) \in Nat /\ Len(g.lines) \in Nat
    BY DEF File
<1> QED BY <1>1 DEF InFile, Extends

LEMMA FailedLines ==
    ASSUME NEW f \in File, NEW type \in {"genesis", "record"}, NEW job \in Jobs \cup {0},
           NEW how \in Failures, LinkedLines(f)
    PROVE  /\ FailedAppend(f, type, job, how) \in File
           /\ Extends(f, FailedAppend(f, type, job, how))
           /\ LinkedLines(FailedAppend(f, type, job, how))
<1>1. CASE how = "all"
    <2>1. FailedAppend(f, type, job, how) = AppendedTo(f, type, job)
        BY <1>1 DEF FailedAppend
    <2> QED BY <2>1, AppendedLines, AppendedLinked
<1>2. CASE how # "all"
    <2>1. /\ FailedAppend(f, type, job, how) \in File
          /\ FailedAppend(f, type, job, how).lines = f.lines
        BY <1>2 DEF FailedAppend, Failures, File
    <2> QED BY <2>1 DEF Extends, LinkedLines, File
<1> QED BY <1>1, <1>2

-----------------------------------------------------------------------------
(* The mirror.                                                             *)

(* A worker past its append holds the digest of a line that is there.      *)
RowsInFile ==
    \A n \in Nodes : worker[n].pc \in {"origin", "index"}
                     => InFile(worker[n].row, file) /\ worker[n].row \in Digest

(* The late record of an instance is its last until it holds the lease.    *)
LateWindow ==
    \A n \in Nodes :
      /\ late[n] <= 1
      /\ late[n] = 1 => ~held(n) /\ worker[n].pc \notin {"test", "genesis", "append"}

MirrorTypeOK ==
    /\ queue \in [Nodes -> Seq(Jobs)]
    /\ worker \in [Nodes -> Worker]
    /\ file \in File
    /\ origin \in BOOLEAN
    /\ index \subseteq Digest
    /\ from \in Seq(Nodes) /\ Len(from) <= MaxJobs
    /\ late \in [Nodes -> Nat]

ProvInv == LeaseInv /\ MirrorTypeOK /\ LinkedLines(file) /\ RowsInFile /\ LateWindow

(* What one step may do to the file.                                       *)
FileKept == file' \in File /\ Extends(file, file') /\ LinkedLines(file')

LEMMA ProvInvInit == Init => ProvInv
<1> SUFFICES ASSUME Init PROVE ProvInv
    OBVIOUS
<1>1. LeaseInv
    BY LeaseInvInit DEF Init
<1>2. IdleWorker \in Worker /\ IdleWorker.pc = "get"
    BY DEF IdleWorker, Worker
<1>3. file \in File /\ file.lines = <<>>
    BY DEF Init, EmptyFile, File
<1>4. MirrorTypeOK
    <2>1. from = <<>> /\ from \in Seq(Nodes) /\ Len(from) <= MaxJobs
        BY ProvenanceAssumption DEF Init
    <2>2. queue = [n \in Nodes |-> <<>>] /\ queue \in [Nodes -> Seq(Jobs)]
        BY DEF Init
    <2>3. late \in [Nodes -> Nat]
        BY DEF Init
    <2> QED BY <1>2, <1>3, <2>1, <2>2, <2>3 DEF Init, MirrorTypeOK
<1>5. LinkedLines(file)
    BY <1>3 DEF LinkedLines
<1>6. RowsInFile
    BY <1>2 DEF Init, RowsInFile
<1>7. LateWindow
    <2>1. \A n \in Nodes : late[n] = 0
        BY DEF Init
    <2>2. ASSUME NEW n \in Nodes PROVE late[n] <= 1 /\ late[n] # 1
        <3>1. late[n] = 0 /\ late[n] \in Nat
            BY <2>1
        <3> QED BY <3>1
    <2> QED BY <2>2, Zenon DEF LateWindow
<1> QED BY <1>1, <1>4, <1>5, <1>6, <1>7 DEF ProvInv

(* The worker's record, updated.                                           *)
Places == {"get", "gate", "test", "genesis", "append", "origin", "index"}

LEMMA WorkerFields ==
    ASSUME NEW w \in Worker
    PROVE  w.job \in Jobs \cup {0} /\ w.row \in Digest \cup {ZERO}
BY DEF Worker

LEMMA WorkerMoved ==
    ASSUME NEW w \in Worker, NEW pc \in Places
    PROVE  /\ [w EXCEPT !.pc = pc] \in Worker
           /\ [w EXCEPT !.pc = pc].pc = pc
           /\ [w EXCEPT !.pc = pc].row = w.row
BY DEF Worker, Places

LEMMA WorkerGot ==
    ASSUME NEW w \in Worker, NEW j \in Jobs
    PROVE  /\ [w EXCEPT !.pc = "gate", !.job = j] \in Worker
           /\ [w EXCEPT !.pc = "gate", !.job = j].pc = "gate"
BY DEF Worker

LEMMA UnchangedFileKept ==
    ASSUME NEW f \in File, LinkedLines(f)
    PROVE  Extends(f, f)
BY DEF Extends, File

(* One worker moves and the file is left alone or extended.                *)
LEMMA MoveKeeps ==
    ASSUME ProvInv, FileKept, LeaseInv', NEW n \in Nodes, NEW w \in Worker,
           worker' = [worker EXCEPT ![n] = w],
           w.pc \in {"origin", "index"} => InFile(w.row, file') /\ w.row \in Digest,
           index' \subseteq Digest
    PROVE  worker' \in [Nodes -> Worker] /\ RowsInFile'
<1>1. worker' \in [Nodes -> Worker]
    BY DEF ProvInv, MirrorTypeOK
<1>2. ASSUME NEW m \in Nodes, worker'[m].pc \in {"origin", "index"}
      PROVE  InFile(worker'[m].row, file') /\ worker'[m].row \in Digest
    <2>1. CASE m = n
        <3>1. worker'[m] = w
            BY <2>1 DEF ProvInv, MirrorTypeOK
        <3> QED BY <1>2, <3>1
    <2>2. CASE m # n
        <3>1. worker'[m] = worker[m]
            BY <2>2 DEF ProvInv, MirrorTypeOK
        <3>2. InFile(worker[m].row, file) /\ worker[m].row \in Digest
            BY <1>2, <3>1 DEF ProvInv, RowsInFile
        <3>3. InFile(worker[m].row, file')
            BY <3>2, InFileStays DEF FileKept, ProvInv, MirrorTypeOK
        <3> QED BY <3>1, <3>2, <3>3
    <2> QED BY <2>1, <2>2
<1> QED BY <1>1, <1>2 DEF RowsInFile

(* No late record is counted, and the worker that moves does not enter the *)
(* window of the gate.                                                     *)
LEMMA WindowKeeps ==
    ASSUME ProvInv, UNCHANGED <<holder, left, late>>, NEW n \in Nodes, NEW w \in Worker,
           worker' = [worker EXCEPT ![n] = w],
           w.pc \in {"test", "genesis", "append"}
              => worker[n].pc \in {"test", "genesis", "append"} \/ held(n)
    PROVE  LateWindow'
<1> SUFFICES ASSUME NEW m \in Nodes
             PROVE  /\ late'[m] <= 1
                    /\ late'[m] = 1 => ~held(m)' /\ worker'[m].pc \notin {"test", "genesis", "append"}
    BY DEF LateWindow
<1>1. late'[m] = late[m] /\ (held(m)' <=> held(m))
    BY DEF held
<1>2. late[m] <= 1 /\ (late[m] = 1 => ~held(m) /\ worker[m].pc \notin {"test", "genesis", "append"})
    BY DEF ProvInv, LateWindow
<1>3. CASE m = n
    <2>1. worker'[m] = w
        BY <1>3 DEF ProvInv, MirrorTypeOK
    <2> QED BY <1>1, <1>2, <1>3, <2>1
<1>4. CASE m # n
    <2>1. worker'[m] = worker[m]
        BY <1>4 DEF ProvInv, MirrorTypeOK
    <2> QED BY <1>1, <1>2, <2>1
<1> QED BY <1>3, <1>4

(* An append, complete or not, by a worker inside the window: the record   *)
(* that is counted is the first, and the worker has left the window.       *)
LEMMA CountedOnce ==
    ASSUME ProvInv, UNCHANGED <<holder, left>>, NEW n \in Nodes, NEW w \in Worker,
           NEW written \in BOOLEAN, CountLate(n, written),
           worker[n].pc \in {"test", "genesis", "append"},
           worker' = [worker EXCEPT ![n] = w],
           w.pc \notin {"test", "genesis", "append"}
    PROVE  LateWindow' /\ late' \in [Nodes -> Nat]
<1>0. late[n] \in Nat /\ late[n] <= 1 /\ late[n] # 1
    BY DEF ProvInv, LateWindow, MirrorTypeOK
<1>1. CASE late' = late
    <2>1. LateWindow'
        BY <1>1, WindowKeeps
    <2> QED BY <1>1, <2>1 DEF ProvInv, MirrorTypeOK
<1>2. CASE late' = [late EXCEPT ![n] = @ + 1] /\ ~held(n)
    <2>1. late' \in [Nodes -> Nat] /\ late'[n] = 1
        BY <1>0, <1>2 DEF ProvInv, MirrorTypeOK
    <2>2. ASSUME NEW m \in Nodes
          PROVE  /\ late'[m] <= 1
                 /\ late'[m] = 1 => ~held(m)' /\ worker'[m].pc \notin {"test", "genesis", "append"}
        <3>1. held(m)' <=> held(m)
            BY DEF held
        <3>2. CASE m = n
            <4>1. worker'[m] = w
                BY <3>2 DEF ProvInv, MirrorTypeOK
            <4>2. late'[m] <= 1
                BY <2>1, <3>2
            <4> QED BY <1>2, <3>1, <3>2, <4>1, <4>2
        <3>3. CASE m # n
            <4>1. worker'[m] = worker[m] /\ late'[m] = late[m]
                BY <1>2, <3>3 DEF ProvInv, MirrorTypeOK
            <4>2. late[m] <= 1 /\ (late[m] = 1 => ~held(m) /\ worker[m].pc \notin {"test", "genesis", "append"})
                BY DEF ProvInv, LateWindow
            <4> QED BY <3>1, <4>1, <4>2
        <3> QED BY <3>2, <3>3
    <2> QED BY <2>1, <2>2 DEF LateWindow
<1> QED BY <1>1, <1>2 DEF CountLate

-----------------------------------------------------------------------------
(* The steps.                                                              *)

(* A step of worker n that leaves file and lease alone.                    *)
LEMMA QuietKeeps ==
    ASSUME ProvInv, NEW n \in Nodes, NEW w \in Worker,
           worker' = [worker EXCEPT ![n] = w],
           UNCHANGED <<leaseVars, file, from, late>>,
           queue' \in [Nodes -> Seq(Jobs)], origin' \in BOOLEAN,
           index' \subseteq Digest,
           w.pc \in {"origin", "index"} => InFile(w.row, file) /\ w.row \in Digest,
           w.pc \in {"test", "genesis", "append"}
              => worker[n].pc \in {"test", "genesis", "append"} \/ held(n)
    PROVE  ProvInv' /\ FileKept
<1>1. LeaseInv'
    BY LeaseNextKeeps DEF ProvInv
<1>2. file' = file /\ file \in File /\ LinkedLines(file)
    BY DEF ProvInv, MirrorTypeOK
<1>3. FileKept
    BY <1>2, UnchangedFileKept DEF FileKept
<1>4. worker' \in [Nodes -> Worker] /\ RowsInFile'
    BY <1>1, <1>2, <1>3, MoveKeeps
<1>5. LateWindow'
    BY WindowKeeps DEF leaseVars
<1>6. MirrorTypeOK'
    BY <1>2, <1>4 DEF ProvInv, MirrorTypeOK
<1>7. LinkedLines(file')
    BY <1>2
<1> QED BY <1>1, <1>3, <1>4, <1>5, <1>6, <1>7 DEF ProvInv

(* A step of worker n that appends, or fails to.                           *)
LEMMA WriteKeeps ==
    ASSUME ProvInv, NEW n \in Nodes, NEW w \in Worker, FileKept,
           worker' = [worker EXCEPT ![n] = w],
           UNCHANGED <<leaseVars, queue, origin, index, from>>,
           w.pc \in {"origin", "index"} => InFile(w.row, file') /\ w.row \in Digest,
           LateWindow', late' \in [Nodes -> Nat]
    PROVE  ProvInv'
<1>1. LeaseInv'
    BY LeaseNextKeeps DEF ProvInv
<1>2. /\ file \in File /\ file' \in File /\ Extends(file, file')
      /\ index' = index /\ index \subseteq Digest
    BY DEF FileKept, ProvInv, MirrorTypeOK
<1>4. worker' \in [Nodes -> Worker] /\ RowsInFile'
    BY <1>1, <1>2, MoveKeeps
<1>5. MirrorTypeOK'
    BY <1>2, <1>4 DEF ProvInv, MirrorTypeOK
<1> QED BY <1>1, <1>4, <1>5 DEF ProvInv, FileKept

LEMMA GetKeeps ==
    ASSUME ProvInv, NEW n \in Nodes, Get(n)
    PROVE  ProvInv' /\ FileKept
<1>1. worker[n] \in Worker /\ worker \in [Nodes -> Worker] /\ queue[n] \in Seq(Jobs)
    BY DEF ProvInv, MirrorTypeOK
<1>2. Head(queue[n]) \in Jobs /\ Tail(queue[n]) \in Seq(Jobs)
    BY <1>1 DEF Get
<1> DEFINE w == [worker[n] EXCEPT !.pc = "gate", !.job = Head(queue[n])]
<1>3. w \in Worker /\ w.pc = "gate"
    BY <1>1, <1>2, WorkerGot
<1>4. worker' = [worker EXCEPT ![n] = w]
    BY <1>1 DEF Get
<1>5. queue' \in [Nodes -> Seq(Jobs)]
    BY <1>2 DEF Get, ProvInv, MirrorTypeOK
<1>6. UNCHANGED <<leaseVars, file, origin, index, from, late>>
    BY DEF Get
<1> HIDE DEF w
<1>7. origin' \in BOOLEAN /\ index' \subseteq Digest
    BY <1>6 DEF ProvInv, MirrorTypeOK
<1> QED BY <1>3, <1>4, <1>5, <1>6, <1>7, QuietKeeps

(* Steps that only move the worker on (Go) or let it finish (Done).        *)
LEMMA GoKeeps ==
    ASSUME ProvInv, NEW n \in Nodes, NEW pc \in {"test", "genesis", "append", "index"},
           Go(n, pc), UNCHANGED <<leaseVars, queue, file, index, from, late>>,
           origin' \in BOOLEAN,
           pc = "index" => worker[n].pc = "origin",
           pc # "index" => worker[n].pc \in {"test", "genesis", "append"} \/ held(n)
    PROVE  ProvInv' /\ FileKept
<1>1. worker[n] \in Worker /\ worker \in [Nodes -> Worker]
    BY DEF ProvInv, MirrorTypeOK
<1> DEFINE w == [worker[n] EXCEPT !.pc = pc]
<1>2. w \in Worker /\ w.pc = pc /\ w.row = worker[n].row
    <2>1. pc \in Places
        BY DEF Places
    <2> QED BY <1>1, <2>1, WorkerMoved
<1>3. worker' = [worker EXCEPT ![n] = w]
    BY <1>1 DEF Go
<1> HIDE DEF w
<1>4. queue' \in [Nodes -> Seq(Jobs)] /\ index' \subseteq Digest
    BY DEF ProvInv, MirrorTypeOK
<1>5. w.pc \in {"origin", "index"} => InFile(w.row, file) /\ w.row \in Digest
    BY <1>2 DEF ProvInv, RowsInFile
<1> QED BY <1>2, <1>3, <1>4, <1>5, QuietKeeps

LEMMA IdleIsWorker == IdleWorker \in Worker /\ IdleWorker.pc = "get"
BY DEF IdleWorker, Worker

LEMMA DoneKeeps ==
    ASSUME ProvInv, NEW n \in Nodes, Done(n),
           UNCHANGED <<leaseVars, queue, file, origin, from, late>>,
           index' \subseteq Digest
    PROVE  ProvInv' /\ FileKept
<1>1. queue' \in [Nodes -> Seq(Jobs)] /\ origin' \in BOOLEAN
    BY DEF ProvInv, MirrorTypeOK
<1>2. IdleWorker.pc \notin {"origin", "index", "test", "genesis", "append"}
    BY IdleIsWorker
<1>3. worker' = [worker EXCEPT ![n] = IdleWorker]
    BY DEF Done
<1> QED BY <1>1, <1>2, <1>3, IdleIsWorker, QuietKeeps

LEMMA AppendGenesisKeeps ==
    ASSUME ProvInv, NEW n \in Nodes, AppendGenesis(n)
    PROVE  ProvInv' /\ FileKept
<1>1. worker[n] \in Worker /\ worker \in [Nodes -> Worker] /\ file \in File /\ LinkedLines(file)
    BY DEF ProvInv, MirrorTypeOK
<1>2. FileKept
    BY <1>1, AppendedLines, AppendedLinked DEF AppendGenesis, FileKept
<1> DEFINE w == [worker[n] EXCEPT !.pc = "append"]
<1>3. w \in Worker /\ w.pc = "append"
    BY <1>1, WorkerMoved DEF Places
<1>4. worker' = [worker EXCEPT ![n] = w]
    BY <1>1 DEF AppendGenesis, Go
<1>5. worker[n].pc = "genesis" /\ UNCHANGED <<leaseVars, queue, origin, index, from, late>>
    BY DEF AppendGenesis
<1> HIDE DEF w
<1>6. LateWindow'
    BY <1>3, <1>4, <1>5, WindowKeeps DEF leaseVars
<1>7. late' \in [Nodes -> Nat]
    BY <1>5 DEF ProvInv, MirrorTypeOK
<1> QED BY <1>2, <1>3, <1>4, <1>5, <1>6, <1>7, WriteKeeps

LEMMA AppendRecordKeeps ==
    ASSUME ProvInv, NEW n \in Nodes, AppendRecord(n)
    PROVE  ProvInv' /\ FileKept
<1>1. /\ worker[n] \in Worker /\ worker \in [Nodes -> Worker]
      /\ file \in File /\ LinkedLines(file) /\ worker[n].job \in Jobs \cup {0}
    BY WorkerFields DEF ProvInv, MirrorTypeOK
<1>2. FileKept
    BY <1>1, AppendedLines, AppendedLinked DEF AppendRecord, FileKept
<1> DEFINE d == link_digest(Linked(file, "record", worker[n].job))
           pc == IF worker[n].job = 1 THEN "origin" ELSE "index"
           w == [worker[n] EXCEPT !.pc = pc, !.row = d]
<1>3. d \in Digest /\ InFile(d, file')
    BY <1>1, AppendedDigest DEF AppendRecord
<1>4. worker' = [worker EXCEPT ![n] = w] /\ pc \in {"origin", "index"}
    BY <1>1 DEF AppendRecord
<1>5. /\ worker[n].pc = "append" /\ CountLate(n, TRUE)
      /\ UNCHANGED <<leaseVars, queue, origin, index, from>>
    BY DEF AppendRecord
<1> HIDE DEF d, pc
<1>6. w \in Worker /\ w.pc = pc /\ w.row = d
    <2>1. pc \in Places
        BY <1>4 DEF Places
    <2>2. worker[n] \in Worker /\ d \in Digest
        BY <1>1, <1>3
    <2> QED BY <2>1, <2>2 DEF Worker, Places
<1> HIDE DEF w
<1>7. LateWindow' /\ late' \in [Nodes -> Nat]
    BY <1>4, <1>5, <1>6, CountedOnce DEF leaseVars
<1> QED BY <1>2, <1>3, <1>4, <1>5, <1>6, <1>7, WriteKeeps

LEMMA AppendFailsKeeps ==
    ASSUME ProvInv, NEW n \in Nodes, NEW how \in Failures, AppendFails(n, how)
    PROVE  ProvInv' /\ FileKept
<1>1. /\ worker[n] \in Worker /\ file \in File /\ LinkedLines(file)
      /\ worker[n].job \in Jobs \cup {0}
    BY WorkerFields DEF ProvInv, MirrorTypeOK
<1>2. Kind(n) \in {"genesis", "record"} /\ Item(n) \in Jobs \cup {0}
    BY <1>1 DEF Kind, Item
<1>3. FileKept
    BY <1>1, <1>2, FailedLines DEF AppendFails, FileKept
<1>4. worker' = [worker EXCEPT ![n] = IdleWorker]
    BY DEF AppendFails, Done
<1>5. /\ worker[n].pc \in {"test", "genesis", "append"} /\ CountLate(n, how = "all")
      /\ UNCHANGED <<leaseVars, queue, origin, index, from>>
    BY DEF AppendFails
<1>6. IdleWorker.pc \notin {"origin", "index", "test", "genesis", "append"}
    BY IdleIsWorker
<1>7. LateWindow' /\ late' \in [Nodes -> Nat]
    BY <1>4, <1>5, <1>6, IdleIsWorker, CountedOnce DEF leaseVars
<1> QED BY <1>3, <1>4, <1>5, <1>6, <1>7, IdleIsWorker, WriteKeeps

LEMMA IndexRecordKeeps ==
    ASSUME ProvInv, NEW n \in Nodes, IndexRecord(n)
    PROVE  ProvInv' /\ FileKept
<1>1. worker[n].pc = "index" /\ Done(n) /\ UNCHANGED <<leaseVars, queue, file, origin, from, late>>
    BY DEF IndexRecord
<1>2. worker[n].row \in Digest
    BY <1>1 DEF ProvInv, RowsInFile
<1>3. index' \subseteq index \cup {worker[n].row}
    BY DEF IndexRecord
<1>4. index' \subseteq Digest
    BY <1>2, <1>3 DEF ProvInv, MirrorTypeOK
<1> QED BY <1>1, <1>4, DoneKeeps

LEMMA WorkerStepKeeps ==
    ASSUME ProvInv, NEW n \in Nodes, WorkerStep(n)
    PROVE  ProvInv' /\ FileKept
<1>0. origin \in BOOLEAN /\ index \subseteq Digest
    BY DEF ProvInv, MirrorTypeOK
<1>1. CASE Get(n)
    BY <1>1, GetKeeps
<1>2. CASE Gate(n)
    BY <1>0, <1>2, GoKeeps DEF Gate
<1>3. CASE Blocked(n)
    BY <1>0, <1>3, DoneKeeps DEF Blocked
<1>4. CASE TestEmpty(n)
    BY <1>0, <1>4, GoKeeps DEF TestEmpty
<1>5. CASE AppendGenesis(n)
    BY <1>5, AppendGenesisKeeps
<1>6. CASE AppendRecord(n)
    BY <1>6, AppendRecordKeeps
<1>7. ASSUME NEW how \in Failures, AppendFails(n, how) PROVE ProvInv' /\ FileKept
    BY <1>7, AppendFailsKeeps
<1>8. CASE SetOrigin(n)
    BY <1>0, <1>8, GoKeeps DEF SetOrigin
<1>9. CASE IndexRecord(n)
    BY <1>9, IndexRecordKeeps
<1>10. CASE IndexSkipped(n)
    BY <1>0, <1>10, DoneKeeps DEF IndexSkipped
<1> QED BY <1>1, <1>2, <1>3, <1>4, <1>5, <1>6, <1>7, <1>8, <1>9, <1>10 DEF WorkerStep

LEMMA PutKeeps ==
    ASSUME ProvInv, NEW n \in Nodes, Put(n)
    PROVE  ProvInv' /\ FileKept
<1>1. /\ UNCHANGED <<leaseVars, worker, file, origin, index, late>>
      /\ file \in File /\ LinkedLines(file)
    BY DEF Put, ProvInv, MirrorTypeOK
<1>2. LeaseInv'
    BY <1>1, LeaseNextKeeps DEF ProvInv
<1>3. FileKept
    BY <1>1, UnchangedFileKept DEF FileKept
<1>4. from' \in Seq(Nodes) /\ Len(from') <= MaxJobs
    BY ProvenanceAssumption DEF Put, ProvInv, MirrorTypeOK
<1>5. queue' \in [Nodes -> Seq(Jobs)]
    <2>1. Len(from) + 1 \in Jobs /\ queue[n] \in Seq(Jobs)
        BY ProvenanceAssumption DEF Put, ProvInv, MirrorTypeOK, Jobs
    <2>2. Append(queue[n], Len(from) + 1) \in Seq(Jobs)
        BY <2>1
    <2> QED BY <2>2 DEF Put, ProvInv, MirrorTypeOK
<1>6. MirrorTypeOK'
    BY <1>1, <1>4, <1>5 DEF ProvInv, MirrorTypeOK
<1>7. RowsInFile' /\ LateWindow' /\ LinkedLines(file')
    BY <1>1 DEF ProvInv, RowsInFile, LateWindow, held, leaseVars
<1> QED BY <1>2, <1>3, <1>6, <1>7 DEF ProvInv

LEMMA LeaseStepKeeps ==
    ASSUME ProvInv, LeaseStep
    PROVE  ProvInv' /\ FileKept
<1>1. /\ UNCHANGED <<queue, worker, file, origin, index, from>>
      /\ late' = [n \in Nodes |-> IF held(n)' THEN 0 ELSE late[n]]
      /\ file \in File /\ LinkedLines(file) /\ late \in [Nodes -> Nat]
    BY DEF LeaseStep, ProvInv, MirrorTypeOK
<1>2. LeaseInv'
    <2>1. LeaseNext
        BY DEF LeaseStep, LeaseNext
    <2> QED BY <2>1, LeaseNextKeeps DEF ProvInv
<1>3. FileKept
    BY <1>1, UnchangedFileKept DEF FileKept
<1>4. MirrorTypeOK'
    <2>1. late' \in [Nodes -> Nat]
        BY <1>1
    <2> QED BY <1>1, <2>1 DEF ProvInv, MirrorTypeOK
<1>5. RowsInFile' /\ LinkedLines(file')
    BY <1>1 DEF ProvInv, RowsInFile
<1>6. LateWindow'
    <2> SUFFICES ASSUME NEW m \in Nodes
                 PROVE  /\ late'[m] <= 1
                        /\ late'[m] = 1 => ~held(m)' /\ worker'[m].pc \notin {"test", "genesis", "append"}
        BY DEF LateWindow
    <2>1. CASE held(m)'
        <3>1. late'[m] = 0
            BY <1>1, <2>1
        <3>2. late'[m] <= 1 /\ late'[m] # 1
            BY <3>1
        <3> QED BY <3>2
    <2>2. CASE ~held(m)'
        <3>1. late'[m] = late[m] /\ worker'[m] = worker[m]
            BY <1>1, <2>2
        <3> QED BY <2>2, <3>1 DEF ProvInv, LateWindow
    <2> QED BY <2>1, <2>2
<1> QED BY <1>2, <1>3, <1>4, <1>5, <1>6 DEF ProvInv

LEMMA CrashKeeps ==
    ASSUME ProvInv, NEW n \in Nodes, Crash(n)
    PROVE  ProvInv' /\ FileKept
<1>1. /\ UNCHANGED <<holder, left, file, origin, index, from, late>>
      /\ worker' = [worker EXCEPT ![n] = IdleWorker]
      /\ file \in File /\ LinkedLines(file)
    BY DEF Crash, Die, Done, ProvInv, MirrorTypeOK
<1>2. LeaseInv'
    <2>1. LeaseNext
        BY DEF Crash, LeaseNext
    <2> QED BY <2>1, LeaseNextKeeps DEF ProvInv
<1>3. FileKept
    BY <1>1, UnchangedFileKept DEF FileKept
<1>4. IdleWorker.pc \notin {"origin", "index", "test", "genesis", "append"}
    BY IdleIsWorker
<1>5. LateWindow'
    BY <1>1, <1>4, IdleIsWorker, WindowKeeps
<1>6. index' \subseteq Digest
    BY <1>1 DEF ProvInv, MirrorTypeOK
<1>7. worker' \in [Nodes -> Worker] /\ RowsInFile'
    BY <1>1, <1>2, <1>3, <1>4, <1>6, IdleIsWorker, MoveKeeps
<1>8. queue' \in [Nodes -> Seq(Jobs)]
    <2>1. <<>> \in Seq(Jobs)
        OBVIOUS
    <2> QED BY <2>1 DEF Crash, ProvInv, MirrorTypeOK
<1>9. MirrorTypeOK'
    BY <1>1, <1>7, <1>8 DEF ProvInv, MirrorTypeOK
<1> QED BY <1>1, <1>2, <1>3, <1>5, <1>7, <1>9 DEF ProvInv

LEMMA NextKeeps ==
    ASSUME ProvInv, [Next]_vars
    PROVE  ProvInv' /\ FileKept
<1>1. CASE LeaseStep
    BY <1>1, LeaseStepKeeps
<1>2. ASSUME NEW n \in Nodes, Put(n) PROVE ProvInv' /\ FileKept
    BY <1>2, PutKeeps
<1>3. ASSUME NEW n \in Nodes, WorkerStep(n) PROVE ProvInv' /\ FileKept
    BY <1>3, WorkerStepKeeps
<1>4. ASSUME NEW n \in Nodes, Crash(n) PROVE ProvInv' /\ FileKept
    BY <1>4, CrashKeeps
<1>5. CASE UNCHANGED vars
    <2>1. /\ UNCHANGED <<leaseVars, file>> /\ file \in File /\ LinkedLines(file)
        BY <1>5 DEF vars, leaseVars, ProvInv, MirrorTypeOK
    <2>2. FileKept
        BY <2>1, UnchangedFileKept DEF FileKept
    <2>3. LeaseInv'
        BY <2>1, LeaseNextKeeps DEF ProvInv
    <2>4. MirrorTypeOK' /\ RowsInFile' /\ LateWindow' /\ LinkedLines(file')
        BY <1>5 DEF vars, ProvInv, MirrorTypeOK, RowsInFile, LateWindow, held
    <2> QED BY <2>2, <2>3, <2>4 DEF ProvInv
<1> QED BY <1>1, <1>2, <1>3, <1>4, <1>5 DEF Next

(* The inductive invariant, of the drain loops, the lease and any failure  *)
(* of the disk, the backend or the process.                                *)
THEOREM MirrorInvariant == Spec => []ProvInv
<1>1. Init => ProvInv
    BY ProvInvInit
<1>2. ProvInv /\ [Next]_vars => ProvInv'
    BY NextKeeps
<1> QED BY <1>1, <1>2, PTL DEF Spec

(* Every value the mirror keeps has its type (Mirror._loop, the store's    *)
(* tables, the lease row).                                                 *)
THEOREM MirrorTypes == Spec => [](LeaseTypeOK /\ MirrorTypeOK)
<1>1. ProvInv => LeaseTypeOK /\ MirrorTypeOK
    BY DEF ProvInv, LeaseInv
<1> QED BY <1>1, MirrorInvariant, PTL

(* durable_append links whatever it is given to the last complete line, so *)
(* no two writers ever compute the same prev or seq, torn tail or not.     *)
THEOREM ChainStaysLinked == Spec => []ChainLinked
<1>1. ProvInv => ChainLinked
    BY DEF ProvInv, LinkedLines, ChainLinked
<1> QED BY <1>1, MirrorInvariant, PTL

(* durable_append's healing of a torn tail never removes or changes a      *)
(* committed line.                                                         *)
THEOREM CommittedLinesStay == Spec => CommittedStays
<1>1. ProvInv /\ [Next]_vars
        => [/\ Len(file.lines) <= Len(file'.lines)
            /\ \A i \in 1..Len(file.lines) : file'.lines[i] = file.lines[i]]_vars
    BY NextKeeps DEF FileKept, Extends
<1> QED BY <1>1, MirrorInvariant, PTL DEF Spec, CommittedStays

(* The index gains at most the row of a worker that is done with it.       *)
IndexInFile == \A d \in index : InFile(d, file)

LEMMA IndexGrows ==
    ASSUME [Next]_vars
    PROVE  index' = index \/ \E n \in Nodes : IndexRecord(n)
BY DEF Next, vars, LeaseStep, Put, WorkerStep, Get, Gate, Blocked, TestEmpty, AppendGenesis, AppendRecord,
       AppendFails, SetOrigin, IndexSkipped, Crash

LEMMA IndexKept ==
    ASSUME ProvInv, IndexInFile, [Next]_vars
    PROVE  IndexInFile'
<1>1. file \in File /\ file' \in File /\ Extends(file, file')
    BY NextKeeps DEF FileKept, ProvInv, MirrorTypeOK
<1>2. ASSUME NEW d, InFile(d, file) PROVE InFile(d, file')
    BY <1>1, <1>2, InFileStays
<1>3. ASSUME NEW n \in Nodes, IndexRecord(n), NEW d \in index' PROVE InFile(d, file)
    <2>1. InFile(worker[n].row, file) /\ index' \subseteq index \cup {worker[n].row}
        BY <1>3 DEF IndexRecord, ProvInv, RowsInFile
    <2> QED BY <1>3, <2>1 DEF IndexInFile
<1> QED BY <1>2, <1>3, IndexGrows DEF IndexInFile

(* Mirror.record indexes what chainstore.append returned, after it         *)
(* returned: an index row is always the digest of a line of the chain.     *)
THEOREM IndexRowsFollowChain == Spec => []IndexFollowsChain
<1>1. IndexInFile => IndexFollowsChain
    BY DEF IndexInFile, InFile, IndexFollowsChain
<1>2. Init => IndexInFile
    BY DEF Init, IndexInFile
<1>3. ProvInv /\ IndexInFile /\ [Next]_vars => IndexInFile'
    BY IndexKept
<1> QED BY <1>1, <1>2, <1>3, MirrorInvariant, PTL DEF Spec

(* The gate is asked once per job: an instance without the lease appends   *)
(* at most the record it had in hand when it lost it.                      *)
THEOREM LateWritesAreOne == Spec => []LateWriteAtMostOne
<1>1. ProvInv => LateWriteAtMostOne
    BY DEF ProvInv, LateWindow, LateWriteAtMostOne
<1> QED BY <1>1, MirrorInvariant, PTL

(* LeaseManager renews every ttl/2: until a renewal is due nobody can have *)
(* taken the lease.                                                        *)
THEOREM RenewalInTimeKeepsLease == Spec => []TimelyRenewalKeepsLease
<1>1. ProvInv => TimelyRenewalKeepsLease
    BY DEF ProvInv, LeaseInv
<1> QED BY <1>1, MirrorInvariant, PTL

-----------------------------------------------------------------------------
(* The order of an instance's jobs: those in the chain, then the one in    *)
(* the worker's hand, then those in the queue, each put after the one      *)
(* before it.                                                              *)

(* The worker has a job that is not in the chain yet.                      *)
InHand(w) == w.pc \in {"gate", "test", "genesis", "append"}

(* Job j comes before every job in q.                                      *)
Before(j, q) == \A k \in 1..Len(q) : j < q[k]

(* What is put by instance n, with fr the record of who put what.          *)
PutBy(n, j, fr) == j \in 1..Len(fr) /\ fr[j] = n

QueueOrdered(n, q, fr) ==
    \A i \in 1..Len(q) : PutBy(n, q[i], fr) /\ \A k \in 1..Len(q) : i < k => q[i] < q[k]

HandOrdered(n, w, q, fr) == InHand(w) => PutBy(n, w.job, fr) /\ Before(w.job, q)

(* Where the line l stands to what instance n still has to write.          *)
LineOrdered(n, l, w, q, fr) ==
    l.type = "record" /\ fr[l.job] = n => Before(l.job, q) /\ (InHand(w) => l.job < w.job)

LinesPut(f, fr) == \A i \in 1..Len(f.lines) : f.lines[i].type = "record" => f.lines[i].job \in 1..Len(fr)

NodeOrdered(n, f, w, q, fr) ==
    /\ QueueOrdered(n, q, fr)
    /\ HandOrdered(n, w, q, fr)
    /\ \A i \in 1..Len(f.lines) : LineOrdered(n, f.lines[i], w, q, fr)

(* JobsInOrder, of any file.                                               *)
JobsOrdered(f, fr) ==
    \A i, k \in 1..Len(f.lines) :
      /\ i < k /\ f.lines[i].type = "record" /\ f.lines[k].type = "record"
      /\ fr[f.lines[i].job] = fr[f.lines[k].job]
      => f.lines[i].job < f.lines[k].job

OrderInv ==
    /\ LinesPut(file, from)
    /\ \A n \in Nodes : NodeOrdered(n, file, worker[n], queue[n], from)
    /\ JobsOrdered(file, from)

LEMMA OrderFacts ==
    ASSUME ProvInv
    PROVE  /\ queue \in [Nodes -> Seq(Jobs)] /\ worker \in [Nodes -> Worker] /\ file \in File
           /\ from \in Seq(Nodes) /\ Len(from) \in Nat /\ Len(file.lines) \in Nat
           /\ \A n \in Nodes : /\ queue[n] \in Seq(Jobs) /\ Len(queue[n]) \in Nat
                               /\ \A i \in 1..Len(queue[n]) : queue[n][i] \in Nat
           /\ \A n \in Nodes : worker[n] \in Worker /\ worker[n].job \in Nat
<1>1. /\ queue \in [Nodes -> Seq(Jobs)] /\ worker \in [Nodes -> Worker] /\ file \in File
      /\ from \in Seq(Nodes)
    BY DEF ProvInv, MirrorTypeOK
<1>2. ASSUME NEW n \in Nodes
      PROVE  /\ queue[n] \in Seq(Jobs) /\ Len(queue[n]) \in Nat
             /\ \A i \in 1..Len(queue[n]) : queue[n][i] \in Nat
    <2>1. Jobs \subseteq Nat
        BY ProvenanceAssumption DEF Jobs
    <2>2. queue[n] \in Seq(Jobs)
        BY <1>1
    <2> HIDE DEF Jobs
    <2>3. Len(queue[n]) \in Nat /\ \A i \in 1..Len(queue[n]) : queue[n][i] \in Jobs
        BY <2>2
    <2> QED BY <2>1, <2>2, <2>3
<1>3. ASSUME NEW n \in Nodes PROVE worker[n] \in Worker /\ worker[n].job \in Nat
    BY <1>1, WorkerFields DEF Jobs
<1>4. Len(from) \in Nat /\ Len(file.lines) \in Nat
    BY <1>1 DEF File
<1> QED BY <1>1, <1>2, <1>3, <1>4

(* A worker that moves on, or lets its job go, and a queue that is lost:   *)
(* nothing new has to be in order.                                         *)
LEMMA QuietOrdered ==
    ASSUME OrderInv, UNCHANGED <<file, from>>,
           \A m \in Nodes : /\ queue'[m] = queue[m] \/ queue'[m] = <<>>
                            /\ InHand(worker'[m]) => InHand(worker[m]) /\ worker'[m].job = worker[m].job
    PROVE  OrderInv'
<1>1. ASSUME NEW m \in Nodes PROVE NodeOrdered(m, file, worker'[m], queue'[m], from)
    <2>1. NodeOrdered(m, file, worker[m], queue[m], from)
        BY DEF OrderInv
    <2>2. CASE queue'[m] = queue[m]
        BY <2>1, <2>2 DEF NodeOrdered, HandOrdered, LineOrdered
    <2>3. CASE queue'[m] = <<>>
        <3>1. Len(<<>>) = 0 /\ 1..0 = {}
            OBVIOUS
        <3> QED BY <2>1, <2>3, <3>1 DEF NodeOrdered, QueueOrdered, HandOrdered, LineOrdered, Before
    <2> QED BY <2>2, <2>3
<1>2. \A m \in Nodes : NodeOrdered(m, file', worker'[m], queue'[m], from')
    BY <1>1
<1> QED BY <1>2 DEF OrderInv

(* A line is appended: the genesis record, or the record of the job in the *)
(* hand of worker n, which lets it go.                                     *)
LEMMA AppendOrdered ==
    ASSUME ProvInv, OrderInv, NEW n \in Nodes, NEW l, UNCHANGED <<queue, from>>,
           Len(file'.lines) = Len(file.lines) + 1, file'.lines[Len(file.lines) + 1] = l,
           \A i \in 1..Len(file.lines) : file'.lines[i] = file.lines[i],
           l.type = "record" => InHand(worker[n]) /\ l.job = worker[n].job /\ ~InHand(worker'[n]),
           \A m \in Nodes : InHand(worker'[m]) =>
                                InHand(worker[m]) /\ worker'[m].job = worker[m].job
    PROVE  OrderInv'
<1> DEFINE N == Len(file.lines)
<1>1. N \in Nat /\ \A i \in 1..Len(file'.lines) : i \in 1..N \/ i = N + 1
    BY OrderFacts
<1>2. \A m \in Nodes : NodeOrdered(m, file, worker[m], queue[m], from)
    BY DEF OrderInv
<1>3. l.type = "record" => PutBy(n, l.job, from) /\ Before(l.job, queue[n])
    BY <1>2 DEF NodeOrdered, HandOrdered
<1>4. LinesPut(file', from)
    BY <1>1, <1>3 DEF OrderInv, LinesPut, PutBy
<1>5. ASSUME NEW m \in Nodes PROVE NodeOrdered(m, file', worker'[m], queue[m], from)
    <2>1. NodeOrdered(m, file, worker[m], queue[m], from)
        BY <1>2
    <2>2. QueueOrdered(m, queue[m], from) /\ HandOrdered(m, worker'[m], queue[m], from)
        BY <2>1 DEF NodeOrdered, HandOrdered
    <2>3. ASSUME NEW i \in 1..Len(file'.lines)
          PROVE  LineOrdered(m, file'.lines[i], worker'[m], queue[m], from)
        <3>1. CASE i \in 1..N
            BY <2>1, <3>1 DEF NodeOrdered, LineOrdered
        <3>2. CASE i = N + 1
            BY <1>3, <3>2 DEF LineOrdered, PutBy
        <3> QED BY <1>1, <3>1, <3>2
    <2> QED BY <2>2, <2>3 DEF NodeOrdered
<1>6. JobsOrdered(file', from)
    <2> SUFFICES ASSUME NEW i \in 1..Len(file'.lines), NEW k \in 1..Len(file'.lines), i < k,
                        file'.lines[i].type = "record", file'.lines[k].type = "record",
                        from[file'.lines[i].job] = from[file'.lines[k].job]
                 PROVE  file'.lines[i].job < file'.lines[k].job
        BY DEF JobsOrdered
    <2>1. i \in 1..N
        BY <1>1
    <2>2. CASE k \in 1..N
        BY <2>1, <2>2 DEF OrderInv, JobsOrdered
    <2>3. CASE k = N + 1
        <3>1. file'.lines[k] = l /\ file'.lines[i] = file.lines[i]
            BY <2>1, <2>3
        <3>2. LineOrdered(n, file.lines[i], worker[n], queue[n], from)
            BY <1>2, <2>1 DEF NodeOrdered
        <3> QED BY <1>3, <3>1, <3>2 DEF LineOrdered, PutBy
    <2> QED BY <1>1, <2>2, <2>3
<1>7. \A m \in Nodes : NodeOrdered(m, file', worker'[m], queue'[m], from')
    BY <1>5
<1> QED BY <1>4, <1>6, <1>7 DEF OrderInv

LEMMA HeadTail ==
    ASSUME NEW S, NEW q \in Seq(S), q # <<>>
    PROVE  /\ Len(q) \in Nat \ {0} /\ Len(Tail(q)) = Len(q) - 1 /\ Head(q) = q[1]
           /\ \A i \in 1..Len(Tail(q)) : Tail(q)[i] = q[i + 1]
OBVIOUS

LEMMA GetOrdered ==
    ASSUME ProvInv, OrderInv, NEW n \in Nodes, Get(n)
    PROVE  OrderInv'
<1> DEFINE q == queue[n]
           w == [worker[n] EXCEPT !.pc = "gate", !.job = Head(q)]
<1>1. /\ queue' = [queue EXCEPT ![n] = Tail(q)] /\ worker' = [worker EXCEPT ![n] = w]
      /\ UNCHANGED <<file, from>> /\ q # <<>> /\ worker[n].pc = "get"
    BY OrderFacts DEF Get
<1>2. q \in Seq(Jobs) /\ \A i \in 1..Len(q) : q[i] \in Nat
    BY OrderFacts
<1>3. w.job = Head(q)
    BY OrderFacts DEF Worker
<1>4. /\ Len(q) \in Nat \ {0} /\ Len(Tail(q)) = Len(q) - 1 /\ Head(q) = q[1]
      /\ \A i \in 1..Len(Tail(q)) : Tail(q)[i] = q[i + 1]
    BY <1>1, <1>2, HeadTail
<1>5. /\ queue'[n] = Tail(q) /\ worker'[n] = w
      /\ \A m \in Nodes \ {n} : queue'[m] = queue[m] /\ worker'[m] = worker[m]
    BY <1>1, OrderFacts
<1>6. \A m \in Nodes : NodeOrdered(m, file, worker[m], queue[m], from)
    BY DEF OrderInv
<1>7. NodeOrdered(n, file, w, Tail(q), from)
    <2>1. QueueOrdered(n, q, from)
        BY <1>6 DEF NodeOrdered
    <2> HIDE DEF q, w
    <2>2. \A i \in 1..Len(Tail(q)) : i + 1 \in 1..Len(q) /\ 1 < i + 1 /\ 1 \in 1..Len(q)
        BY <1>4
    <2>3. QueueOrdered(n, Tail(q), from)
        <3> SUFFICES ASSUME NEW i \in 1..Len(Tail(q))
                     PROVE  /\ PutBy(n, Tail(q)[i], from)
                            /\ \A k \in 1..Len(Tail(q)) : i < k => Tail(q)[i] < Tail(q)[k]
            BY DEF QueueOrdered
        <3>1. PutBy(n, Tail(q)[i], from)
            BY <1>4, <2>1, <2>2 DEF QueueOrdered
        <3>2. ASSUME NEW k \in 1..Len(Tail(q)), i < k PROVE Tail(q)[i] < Tail(q)[k]
            <4>1. i + 1 < k + 1
                BY <3>2
            <4>2. q[i + 1] < q[k + 1]
                BY <2>1, <2>2, <4>1 DEF QueueOrdered
            <4> QED BY <1>4, <4>2
        <3> QED BY <3>1, <3>2
    <2>4. HandOrdered(n, w, Tail(q), from)
        <3>1. 1 \in 1..Len(q)
            BY <1>4
        <3>2. PutBy(n, Head(q), from)
            BY <1>4, <2>1, <3>1 DEF QueueOrdered
        <3>3. Before(Head(q), Tail(q))
            BY <1>4, <2>1, <2>2 DEF QueueOrdered, Before
        <3> QED BY <1>3, <3>2, <3>3 DEF HandOrdered
    <2>5. ASSUME NEW i \in 1..Len(file.lines) PROVE LineOrdered(n, file.lines[i], w, Tail(q), from)
        <3>1. LineOrdered(n, file.lines[i], worker[n], q, from)
            BY <1>6 DEF NodeOrdered, q
        <3>2. 1 \in 1..Len(q)
            BY <1>4
        <3>3. ASSUME NEW j, Before(j, q) PROVE Before(j, Tail(q)) /\ j < Head(q)
            BY <1>4, <2>2, <3>2, <3>3 DEF Before
        <3> QED BY <1>3, <3>1, <3>3 DEF LineOrdered
    <2> QED BY <2>3, <2>4, <2>5 DEF NodeOrdered
<1>8. \A m \in Nodes : NodeOrdered(m, file', worker'[m], queue'[m], from')
    BY <1>1, <1>5, <1>6, <1>7
<1> QED BY <1>1, <1>8 DEF OrderInv

(* A new job is behind everything its instance has.                        *)
LEMMA PutOrdered ==
    ASSUME ProvInv, OrderInv, NEW n \in Nodes, Put(n)
    PROVE  OrderInv'
<1> DEFINE q == queue[n]
           N == Len(from)
           new == Append(q, N + 1)
<1>1. /\ from' = Append(from, n) /\ UNCHANGED <<worker, file>>
      /\ queue' = [queue EXCEPT ![n] = new] \/ queue' = queue
    BY OrderFacts DEF Put
<1>2. /\ Len(from') = N + 1 /\ N \in Nat
      /\ \A j \in 1..N : from'[j] = from[j] /\ j \in 1..(N + 1)
      /\ from'[N + 1] = n /\ N + 1 \in 1..(N + 1)
    BY <1>1, OrderFacts
<1>3. \A m \in Nodes : NodeOrdered(m, file, worker[m], queue[m], from)
    BY DEF OrderInv
<1>4. LinesPut(file, from') /\ JobsOrdered(file, from')
    <2>1. LinesPut(file, from) /\ JobsOrdered(file, from)
        BY DEF OrderInv
    <2> QED BY <1>2, <2>1 DEF LinesPut, JobsOrdered
<1>5. ASSUME NEW m \in Nodes PROVE NodeOrdered(m, file, worker[m], queue[m], from')
    <2>1. NodeOrdered(m, file, worker[m], queue[m], from)
        BY <1>3
    <2>2. \A j : PutBy(m, j, from) => PutBy(m, j, from')
        BY <1>2 DEF PutBy
    <2>3. QueueOrdered(m, queue[m], from') /\ HandOrdered(m, worker[m], queue[m], from')
        BY <2>1, <2>2 DEF NodeOrdered, QueueOrdered, HandOrdered
    <2>4. ASSUME NEW i \in 1..Len(file.lines)
          PROVE  LineOrdered(m, file.lines[i], worker[m], queue[m], from')
        <3>1. file.lines[i].type = "record" => file.lines[i].job \in 1..N
            BY DEF OrderInv, LinesPut
        <3> QED BY <1>2, <2>1, <3>1 DEF NodeOrdered, LineOrdered
    <2> QED BY <2>3, <2>4 DEF NodeOrdered
<1>6. NodeOrdered(n, file, worker[n], new, from')
    <2>1. NodeOrdered(n, file, worker[n], q, from')
        BY <1>5
    <2>2. q \in Seq(Jobs) /\ N + 1 \in Jobs
        BY OrderFacts, ProvenanceAssumption DEF Put, Jobs
    <2>3. /\ Len(q) \in Nat /\ Len(new) = Len(q) + 1 /\ new[Len(q) + 1] = N + 1
          /\ \A i \in 1..Len(q) : new[i] = q[i]
          /\ \A i \in 1..Len(new) : i \in 1..Len(q) \/ i = Len(q) + 1
        BY <2>2
    <2>4. QueueOrdered(n, q, from)
        BY <1>3 DEF NodeOrdered
    <2> HIDE DEF q, new
    <2>5. \A i \in 1..Len(q) : q[i] < N + 1
        BY <1>2, <2>4 DEF QueueOrdered, PutBy
    <2>6. QueueOrdered(n, new, from')
        <3> SUFFICES ASSUME NEW i \in 1..Len(new)
                     PROVE  /\ PutBy(n, new[i], from')
                            /\ \A k \in 1..Len(new) : i < k => new[i] < new[k]
            BY DEF QueueOrdered
        <3>1. CASE i \in 1..Len(q)
            BY <2>1, <2>3, <2>5, <3>1 DEF NodeOrdered, QueueOrdered
        <3>2. CASE i = Len(q) + 1
            BY <1>2, <2>3, <3>2 DEF PutBy
        <3> QED BY <2>3, <3>1, <3>2
    <2>7. ASSUME NEW j \in 1..N, Before(j, q) PROVE Before(j, new)
        BY <1>2, <2>3, <2>7 DEF Before
    <2>8. HandOrdered(n, worker[n], new, from')
        <3>1. HandOrdered(n, worker[n], q, from)
            BY <1>3 DEF NodeOrdered, q
        <3> QED BY <1>2, <2>7, <3>1 DEF HandOrdered, PutBy
    <2>9. ASSUME NEW i \in 1..Len(file.lines)
          PROVE  LineOrdered(n, file.lines[i], worker[n], new, from')
        <3>1. file.lines[i].type = "record" => file.lines[i].job \in 1..N
            BY DEF OrderInv, LinesPut
        <3>2. LineOrdered(n, file.lines[i], worker[n], q, from')
            BY <2>1 DEF NodeOrdered
        <3> QED BY <2>7, <3>1, <3>2 DEF LineOrdered
    <2> QED BY <2>6, <2>8, <2>9 DEF NodeOrdered
<1>7. ASSUME NEW m \in Nodes PROVE NodeOrdered(m, file', worker'[m], queue'[m], from')
    <2>1. queue'[m] = queue[m] \/ (m = n /\ queue'[m] = new)
        BY <1>1, OrderFacts
    <2> HIDE DEF new
    <2> QED BY <1>1, <1>5, <1>6, <2>1
<1> QED BY <1>1, <1>4, <1>7 DEF OrderInv

(* What a failed or completed append leaves in the file.                   *)
LEMMA LastLine ==
    ASSUME NEW f \in File, NEW type \in {"genesis", "record"}, NEW job \in Jobs \cup {0}
    PROVE  LET g == AppendedTo(f, type, job)
           IN  /\ Len(g.lines) = Len(f.lines) + 1
               /\ \A i \in 1..Len(f.lines) : g.lines[i] = f.lines[i]
               /\ g.lines[Len(f.lines) + 1].type = type
               /\ g.lines[Len(f.lines) + 1].job = job
<1>1. Linked(f, type, job).type = type /\ Linked(f, type, job).job = job
    BY DEF Linked
<1> QED BY <1>1, AppendedLines DEF Extends

LEMMA WriteOrdered ==
    ASSUME ProvInv, OrderInv, NEW n \in Nodes,
           AppendGenesis(n) \/ AppendRecord(n) \/ \E how \in Failures : AppendFails(n, how)
    PROVE  OrderInv'
<1> DEFINE g == AppendedTo(file, Kind(n), Item(n))
<1>0. /\ worker \in [Nodes -> Worker] /\ worker[n] \in Worker /\ file \in File
      /\ worker[n].job \in Jobs \cup {0}
    BY OrderFacts, WorkerFields
<1>1. UNCHANGED <<queue, from>> /\ worker[n].pc \in {"genesis", "append"}
    BY DEF AppendGenesis, AppendRecord, AppendFails
<1>2. \A m \in Nodes \ {n} : worker'[m] = worker[m]
    BY <1>0 DEF AppendGenesis, AppendRecord, AppendFails, Go, Done
<1>3. /\ Kind(n) \in {"genesis", "record"} /\ Item(n) \in Jobs \cup {0}
      /\ Kind(n) = "record" => Item(n) = worker[n].job
    BY <1>0 DEF Kind, Item
<1>4. /\ ~InHand(worker'[n]) \/ (worker[n].pc = "genesis" /\ InHand(worker'[n])
                                  /\ worker'[n].job = worker[n].job)
    <2>1. CASE AppendGenesis(n)
        <3>1. worker'[n] = [worker[n] EXCEPT !.pc = "append"] /\ worker[n].pc = "genesis"
            BY <1>0, <2>1 DEF AppendGenesis, Go
        <3>2. worker'[n].pc = "append" /\ worker'[n].job = worker[n].job
            BY <1>0, <3>1 DEF Worker
        <3> QED BY <3>1, <3>2 DEF InHand
    <2>2. CASE AppendRecord(n)
        BY <1>0, <2>2 DEF AppendRecord, InHand, Worker
    <2>3. CASE \E how \in Failures : AppendFails(n, how)
        BY <1>0, <2>3, IdleIsWorker DEF AppendFails, Done, InHand
    <2> QED BY <2>1, <2>2, <2>3
<1>5. file' = g \/ file'.lines = file.lines
    <2>1. CASE AppendGenesis(n)
        BY <2>1 DEF AppendGenesis, Kind, Item
    <2>2. CASE AppendRecord(n)
        BY <2>2 DEF AppendRecord, Kind, Item
    <2>3. ASSUME NEW how \in Failures, AppendFails(n, how)
          PROVE  file' = g \/ file'.lines = file.lines
        BY <2>3 DEF AppendFails, FailedAppend, Failures
    <2> QED BY <2>1, <2>2, <2>3
<1>6. \A m \in Nodes : InHand(worker'[m]) => InHand(worker[m]) /\ worker'[m].job = worker[m].job
    BY <1>1, <1>2, <1>4 DEF InHand
<1>7. CASE file' = g
    <2> DEFINE l == g.lines[Len(file.lines) + 1]
    <2>1. /\ Len(g.lines) = Len(file.lines) + 1 /\ l.type = Kind(n) /\ l.job = Item(n)
          /\ \A i \in 1..Len(file.lines) : g.lines[i] = file.lines[i]
        BY <1>0, <1>3, LastLine
    <2>2. Kind(n) = "record" => InHand(worker[n]) /\ ~InHand(worker'[n])
        BY <1>1, <1>4 DEF Kind, InHand
    <2> HIDE DEF g
    <2> QED BY <1>1, <1>3, <1>6, <1>7, <2>1, <2>2, AppendOrdered
<1>8. CASE file'.lines = file.lines
    <2>1. ASSUME NEW m \in Nodes PROVE NodeOrdered(m, file', worker'[m], queue[m], from)
        <3>1. NodeOrdered(m, file, worker[m], queue[m], from)
            BY DEF OrderInv
        <3> QED BY <1>6, <1>8, <3>1 DEF NodeOrdered, HandOrdered, LineOrdered
    <2>2. LinesPut(file', from) /\ JobsOrdered(file', from)
        BY <1>8 DEF OrderInv, LinesPut, JobsOrdered
    <2> QED BY <1>1, <2>1, <2>2 DEF OrderInv
<1> QED BY <1>5, <1>7, <1>8

LEMMA OrderInit == Init => OrderInv
<1> SUFFICES ASSUME Init PROVE OrderInv
    OBVIOUS
<1>1. file.lines = <<>> /\ Len(file.lines) = 0
    BY DEF Init, EmptyFile
<1>2. \A n \in Nodes : queue[n] = <<>> /\ ~InHand(worker[n])
    BY IdleIsWorker DEF Init, InHand
<1>3. \A n \in Nodes : NodeOrdered(n, file, worker[n], queue[n], from)
    <2> SUFFICES ASSUME NEW n \in Nodes PROVE NodeOrdered(n, file, worker[n], queue[n], from)
        OBVIOUS
    <2>1. 1..Len(queue[n]) = {} /\ 1..Len(file.lines) = {}
        BY <1>1, <1>2
    <2>2. QueueOrdered(n, queue[n], from)
        BY <1>2, <2>1 DEF QueueOrdered
    <2> QED BY <1>2, <2>1, <2>2 DEF NodeOrdered, HandOrdered, LineOrdered
<1> QED BY <1>1, <1>3 DEF OrderInv, LinesPut, JobsOrdered

LEMMA OrderStep ==
    ASSUME ProvInv, OrderInv, [Next]_vars
    PROVE  OrderInv'
<1>0. worker \in [Nodes -> Worker] /\ queue \in [Nodes -> Seq(Jobs)] /\ ~InHand(IdleWorker)
    BY OrderFacts, IdleIsWorker DEF InHand
<1>1. CASE LeaseStep \/ UNCHANGED vars
    BY <1>1, QuietOrdered DEF LeaseStep, vars
<1>2. ASSUME NEW n \in Nodes, Put(n) PROVE OrderInv'
    BY <1>2, PutOrdered
<1>3. ASSUME NEW n \in Nodes, Crash(n) PROVE OrderInv'
    <2>1. /\ UNCHANGED <<file, from>>
          /\ \A m \in Nodes : /\ queue'[m] = queue[m] \/ queue'[m] = <<>>
                              /\ worker'[m] = worker[m] \/ worker'[m] = IdleWorker
        BY <1>0, <1>3 DEF Crash, Done
    <2> QED BY <1>0, <2>1, QuietOrdered
<1>4. ASSUME NEW n \in Nodes, Blocked(n) \/ IndexRecord(n) \/ IndexSkipped(n) PROVE OrderInv'
    <2>1. /\ UNCHANGED <<file, from, queue>>
          /\ \A m \in Nodes : worker'[m] = worker[m] \/ worker'[m] = IdleWorker
        BY <1>0, <1>4 DEF Blocked, IndexRecord, IndexSkipped, Done
    <2> QED BY <1>0, <2>1, QuietOrdered
<1>5. ASSUME NEW n \in Nodes, Gate(n) \/ TestEmpty(n) \/ SetOrigin(n) PROVE OrderInv'
    <2>1. /\ UNCHANGED <<file, from, queue>>
          /\ \E pc \in {"test", "genesis", "append", "index"} :
                /\ worker' = [worker EXCEPT ![n] = [worker[n] EXCEPT !.pc = pc]]
                /\ pc # "index" => worker[n].pc \in {"gate", "test"}
        BY <1>0, <1>5 DEF Gate, TestEmpty, SetOrigin, Go
    <2>2. PICK pc \in {"test", "genesis", "append", "index"} :
                /\ worker' = [worker EXCEPT ![n] = [worker[n] EXCEPT !.pc = pc]]
                /\ pc # "index" => worker[n].pc \in {"gate", "test"}
        BY <2>1
    <2> DEFINE w == [worker[n] EXCEPT !.pc = pc]
    <2>3. w.pc = pc /\ w.job = worker[n].job
        BY <1>0 DEF Worker
    <2> HIDE DEF w
    <2>4. worker'[n] = w /\ \A m \in Nodes \ {n} : worker'[m] = worker[m]
        BY <1>0, <2>2 DEF w
    <2>5. \A m \in Nodes : InHand(worker'[m]) => InHand(worker[m]) /\ worker'[m].job = worker[m].job
        BY <2>2, <2>3, <2>4 DEF InHand
    <2> QED BY <2>1, <2>5, QuietOrdered
<1>6. ASSUME NEW n \in Nodes, WorkerStep(n) PROVE OrderInv'
    BY <1>4, <1>5, <1>6, GetOrdered, WriteOrdered DEF WorkerStep
<1> QED BY <1>1, <1>2, <1>3, <1>6 DEF Next

(* Mirror.put and the drain loop keep one instance's jobs in their order,  *)
(* and no job is written twice: across failed appends that left their line *)
(* behind, blocked gates, full queues, crashes and restarts, and with any  *)
(* number of other instances writing in between.                           *)
THEOREM JobsStayInOrder == Spec => []JobsInOrder
<1>1. ProvInv /\ OrderInv => JobsInOrder
    BY DEF OrderInv, JobsOrdered, JobsInOrder
<1>2. Init => OrderInv
    BY OrderInit
<1>3. ProvInv /\ OrderInv /\ [Next]_vars => OrderInv'
    BY OrderStep
<1> QED BY <1>1, <1>2, <1>3, MirrorInvariant, PTL DEF Spec
-----------------------------------------------------------------------------
(* The reconciler, next to any number of instances and to whoever changes  *)
(* the index from outside.                                                 *)
reconcileVars == <<vars, recVars>>
ReconcileSpec == Init /\ ReconcileInit /\ [][ReconcileNext]_reconcileVars

(* A row has a line's seq, or is made up for the line that comes next; and *)
(* (run, seq) is the table's key.                                          *)
IndexShape ==
    /\ \A d \in index : d.type = "record" /\ (d.seq < Len(file.lines) \/ d = Fake(Len(file.lines)))
    /\ \A d, e \in index : d.seq = e.seq => d = e

Writing(w) == w.pc \in {"origin", "index"}
RecordsInHand == \A n \in Nodes : Writing(worker[n]) => worker[n].row.type = "record"

(* What a cycle has read of the chain is still there.                      *)
ReadInv ==
    /\ rec = [pc |-> rec.pc, lines |-> rec.lines, plan |-> rec.plan, damage |-> rec.damage,
              repair |-> rec.repair, report |-> rec.report]
    /\ rec.lines \in Seq(Line) /\ Extends(rec, file)

CycleInv == ProvInv /\ IndexShape /\ RecordsInHand /\ ReadInv /\ CaughtInOneCycle

LEMMA DigestFields ==
    ASSUME NEW l \in Line
    PROVE  /\ link_digest(l).seq = l.seq /\ link_digest(l).type = l.type
           /\ l.seq \in Nat /\ l.type \in {"genesis", "record"}
BY DEF Line, link_digest

(* The digests the reconciler compares are those of the records.           *)
LEMMA DigestLine ==
    ASSUME NEW f, f.lines \in Seq(Line), LinkedLines(f), NEW c
    PROVE  c \in ChainDigests(f.lines) <=>
             \E i \in 1..Len(f.lines) : /\ f.lines[i].type = "record" /\ c = link_digest(f.lines[i])
                                        /\ c.seq = i - 1 /\ c.type = "record"
<1>1. ASSUME NEW i \in 1..Len(f.lines)
      PROVE  /\ link_digest(f.lines[i]).seq = i - 1 /\ link_digest(f.lines[i]).type = f.lines[i].type
             /\ f.lines[i].type \in {"genesis", "record"}
    <2>1. f.lines[i] \in Line /\ f.lines[i].seq = i - 1
        BY DEF LinkedLines
    <2> QED BY <2>1, DigestFields
<1>2. ChainDigests(f.lines) = {link_digest(f.lines[i]) : i \in {k \in 1..Len(f.lines) : f.lines[k].type # "genesis"}}
    BY DEF ChainDigests
<1>3. ASSUME c \in ChainDigests(f.lines)
      PROVE  \E i \in 1..Len(f.lines) : f.lines[i].type = "record" /\ c = link_digest(f.lines[i])
    <2>1. PICK i \in 1..Len(f.lines) : f.lines[i].type # "genesis" /\ c = link_digest(f.lines[i])
        BY <1>2, <1>3
    <2> QED BY <1>1, <2>1
<1>4. ASSUME NEW i \in 1..Len(f.lines), f.lines[i].type = "record", c = link_digest(f.lines[i])
      PROVE  c \in ChainDigests(f.lines) /\ c.seq = i - 1 /\ c.type = "record"
    BY <1>1, <1>2, <1>4
<1> QED BY <1>3, <1>4

(* What was read is linked as the file is.                                 *)
LEMMA ReadLinked ==
    ASSUME ProvInv, ReadInv
    PROVE  /\ LinkedLines(rec) /\ rec.lines \in Seq(Line) /\ file.lines \in Seq(Line)
           /\ Len(rec.lines) \in Nat /\ Len(file.lines) \in Nat /\ Len(rec.lines) <= Len(file.lines)
           /\ \A i \in 1..Len(rec.lines) : rec.lines[i] = file.lines[i]
<1>1. file \in File /\ LinkedLines(file) /\ rec.lines \in Seq(Line) /\ Extends(rec, file)
    BY DEF ProvInv, MirrorTypeOK, ReadInv
<1>2. /\ file.lines \in Seq(Line) /\ Len(rec.lines) \in Nat /\ Len(file.lines) \in Nat /\ Len(rec.lines) <= Len(file.lines)
      /\ \A i \in 1..Len(rec.lines) : rec.lines[i] = file.lines[i]
    BY <1>1 DEF File, Extends
<1>3. ASSUME NEW i \in 1..Len(rec.lines)
      PROVE  /\ rec.lines[i].seq = i - 1
             /\ rec.lines[i].prev = IF i = 1 THEN ZERO ELSE link_digest(rec.lines[i - 1])
    <2>1. i \in 1..Len(file.lines) /\ rec.lines[i] = file.lines[i] /\ (i # 1 => rec.lines[i - 1] = file.lines[i - 1])
        BY <1>2
    <2> QED BY <1>1, <2>1 DEF LinkedLines
<1> QED BY <1>1, <1>2, <1>3 DEF LinkedLines

(* A bounded set of numbers has a greatest one.                            *)
LEMMA Greatest ==
    ASSUME NEW S, S # {}, NEW b \in Nat, \A s \in S : s \in Nat /\ s <= b
    PROVE  \E m \in S : \A t \in S : t <= m
<1> DEFINE T == {b - s : s \in S}
           R == OpToRel(<, Nat)
<1>1. T \subseteq Nat /\ T # {}
    OBVIOUS
<1>2. IsWellFoundedOn(R, Nat)
    BY NatLessThanWellFounded
<1>3. \A x, y \in Nat : x < y => <<x, y>> \in R
    BY DEF OpToRel
<1> HIDE DEF T, R
<1>4. PICK x \in T : \A y \in T : ~(<<y, x>> \in R)
    BY <1>1, <1>2, WFMin
<1>5. ASSUME NEW y \in T PROVE x <= y
    <2>1. x \in Nat /\ y \in Nat
        BY <1>1
    <2>2. ~(y < x)
        BY <1>3, <1>4, <2>1, Zenon
    <2> QED BY <2>1, <2>2
<1>6. PICK m \in S : x = b - m
    BY DEF T
<1>7. \A t \in S : b - t \in T
    BY DEF T
<1> QED BY <1>5, <1>6, <1>7

LEMMA HeadIsGreatest ==
    ASSUME NEW idx, idx # {}, NEW b \in Nat, \A d \in idx : d.seq \in Nat /\ d.seq <= b
    PROVE  /\ IndexHead(idx) \in Seqs(idx) /\ \A t \in Seqs(idx) : t <= IndexHead(idx)
           /\ IndexHead(idx) \in Nat
<1>1. Seqs(idx) # {} /\ \A s \in Seqs(idx) : s \in Nat /\ s <= b
    BY DEF Seqs
<1>2. \E m \in Seqs(idx) : \A t \in Seqs(idx) : t <= m
    BY <1>1, Greatest
<1>3. IndexHead(idx) = CHOOSE s \in Seqs(idx) : \A t \in Seqs(idx) : t <= s
    BY DEF IndexHead
<1> QED BY <1>1, <1>2, <1>3

(* What a divergence of each class says.                                   *)
LEMMA DivergenceMeans ==
    ASSUME NEW lines, NEW plan, NEW idx, NEW d \in Divergences(lines, plan, idx)
    PROVE  /\ d.class = "digest_mismatch" => \E c \in ChainDigests(lines) : c.seq \in Seqs(idx) /\ c \notin idx
           /\ d.class = "gap_below_head" =>
                \E c \in ChainDigests(lines) : c.seq \notin Seqs(idx) /\ c.seq <= IndexHead(idx)
           /\ d.class = "index_ahead" => d.seq \in Seqs(idx) /\ d.seq \notin Seqs(ChainDigests(lines))
           /\ d.class = "origin_missing" => idx # {}
<1> DEFINE C == ChainDigests(lines)
           Q == Seqs(idx)
           H == IndexHead(idx)
           K == Seqs(C)
<1>1. \/ d = Div("origin_missing", -1) /\ idx # {}
      \/ \E c \in C : d = Div("digest_mismatch", c.seq) /\ c.seq \in Q /\ c \notin idx
      \/ \E c \in C : d = Div("gap_below_head", c.seq) /\ c.seq \notin Q /\ c.seq <= H
      \/ \E c \in C : d = Div("index_behind", c.seq)
      \/ \E s \in Q \ K : d = Div("index_ahead", s)
    <2> HIDE DEF C, Q, H, K
    <2>1. d \in (IF ~plan /\ idx # {} THEN {Div("origin_missing", -1)} ELSE {})
                \cup {Div("digest_mismatch", x.seq) : x \in {c \in C : c.seq \in Q /\ c \notin idx}}
                \cup {Div("gap_below_head", x.seq) : x \in {m \in {y \in C : y.seq \notin Q} : m.seq <= H}}
                \cup {Div("index_behind", x.seq) : x \in {m \in {y \in C : y.seq \notin Q} : m.seq > H}}
                \cup {Div("index_ahead", s) : s \in Q \ K}
        BY DEF Divergences, C, Q, H, K
    <2> QED BY <2>1, Zenon
<1> HIDE DEF C, Q, H, K
<1>2. \A class, seq : Div(class, seq).class = class /\ Div(class, seq).seq = seq
    BY DEF Div
<1>3. CASE d = Div("origin_missing", -1) /\ idx # {}
    BY <1>2, <1>3
<1>4. ASSUME NEW c \in C, d = Div("digest_mismatch", c.seq), c.seq \in Q, c \notin idx
      PROVE  d.class = "digest_mismatch" /\ \E x \in C : x.seq \in Q /\ x \notin idx
    BY <1>2, <1>4
<1>5. ASSUME NEW c \in C, d = Div("gap_below_head", c.seq), c.seq \notin Q, c.seq <= H
      PROVE  d.class = "gap_below_head" /\ \E x \in C : x.seq \notin Q /\ x.seq <= H
    BY <1>2, <1>5
<1>6. ASSUME NEW c \in C, d = Div("index_behind", c.seq) PROVE d.class = "index_behind"
    BY <1>2, <1>6
<1>7. ASSUME NEW s \in Q \ K, d = Div("index_ahead", s)
      PROVE  d.class = "index_ahead" /\ d.seq \in Q /\ d.seq \notin K
    BY <1>2, <1>7
<1> QED BY <1>1, <1>2, <1>3, <1>4, <1>5, <1>6, <1>7 DEF C, Q, H, K

(* What is reported.                                                       *)
LEMMA Reported ==
    ASSUME NEW lines, NEW plan, NEW idx
    PROVE  /\ \A c \in ChainDigests(lines) : c.seq \in Seqs(idx) /\ c \notin idx
                => Div("digest_mismatch", c.seq) \in Divergences(lines, plan, idx)
           /\ \A c \in ChainDigests(lines) : c.seq \notin Seqs(idx) /\ c.seq <= IndexHead(idx)
                => Div("gap_below_head", c.seq) \in Divergences(lines, plan, idx)
           /\ \A s \in Seqs(idx) : s \notin Seqs(ChainDigests(lines))
                => Div("index_ahead", s) \in Divergences(lines, plan, idx)
<1> DEFINE C == ChainDigests(lines)
           Q == Seqs(idx)
           H == IndexHead(idx)
           K == Seqs(C)
           D == Divergences(lines, plan, idx)
<1> HIDE DEF C, Q, H, K, D
<1>1. /\ {Div("digest_mismatch", x.seq) : x \in {c \in C : c.seq \in Q /\ c \notin idx}} \subseteq D
      /\ {Div("gap_below_head", x.seq) : x \in {m \in {y \in C : y.seq \notin Q} : m.seq <= H}} \subseteq D
      /\ {Div("index_ahead", s) : s \in Q \ K} \subseteq D
    BY DEF Divergences, C, Q, H, K, D
<1>2. ASSUME NEW c \in C, c.seq \in Q, c \notin idx PROVE Div("digest_mismatch", c.seq) \in D
    BY <1>1, <1>2
<1>3. ASSUME NEW c \in C, c.seq \notin Q, c.seq <= H PROVE Div("gap_below_head", c.seq) \in D
    BY <1>1, <1>3
<1>4. ASSUME NEW s \in Q, s \notin K PROVE Div("index_ahead", s) \in D
    BY <1>1, <1>4
<1> QED BY <1>2, <1>3, <1>4 DEF C, Q, H, K, D

(* The rows of a shaped index are bounded.                                 *)
LEMMA RowsBounded ==
    ASSUME ProvInv, IndexShape
    PROVE  \A d \in index : d.seq \in Nat /\ d.seq <= Len(file.lines) /\ d \in Digest
<1>1. index \subseteq Digest /\ Len(file.lines) \in Nat
    BY DEF ProvInv, MirrorTypeOK, File
<1>2. Fake(Len(file.lines)).seq = Len(file.lines)
    BY DEF Fake
<1>3. ASSUME NEW d \in index PROVE d.seq \in Nat
    BY <1>1 DEF Digest
<1> QED BY <1>1, <1>2, <1>3 DEF IndexShape

(* A cycle that reads the rows while there is damage raises an alarm,      *)
(* whatever was written since it read the chain.                           *)
LEMMA DamageReported ==
    ASSUME ProvInv, IndexShape, ReadInv, NEW s \in Damage
    PROVE  \E d \in Divergences(rec.lines, rec.plan, index) : d.class \in Alarms
<1>0. \A class, seq : Div(class, seq).class = class
    BY DEF Div
<1>1. /\ LinkedLines(rec) /\ rec.lines \in Seq(Line) /\ file.lines \in Seq(Line) /\ LinkedLines(file)
      /\ Len(rec.lines) \in Nat /\ Len(file.lines) \in Nat /\ Len(rec.lines) <= Len(file.lines)
      /\ \A i \in 1..Len(rec.lines) : rec.lines[i] = file.lines[i]
    BY ReadLinked DEF ProvInv
<1>2. \A d \in index : d.seq \in Nat /\ d.seq <= Len(file.lines)
    BY RowsBounded
<1>3. ASSUME NEW t \in Seqs(index), t \notin Seqs(ChainDigests(rec.lines))
      PROVE  \E d \in Divergences(rec.lines, rec.plan, index) : d.class \in Alarms
    <2>1. Div("index_ahead", t) \in Divergences(rec.lines, rec.plan, index)
        BY <1>3, Reported
    <2> QED BY <1>0, <2>1 DEF Alarms
<1>4. ASSUME NEW c \in ChainDigests(rec.lines) PROVE c \in ChainDigests(file.lines)
    <2>1. PICK i \in 1..Len(rec.lines) : /\ rec.lines[i].type = "record" /\ c = link_digest(rec.lines[i])
                                         /\ c.seq = i - 1 /\ c.type = "record"
        BY <1>1, DigestLine
    <2>2. i \in 1..Len(file.lines) /\ rec.lines[i] = file.lines[i]
        BY <1>1
    <2> QED BY <1>1, <2>1, <2>2, DigestLine
<1>5. CASE \E d \in index : d \notin ChainDigests(file.lines) /\ d.seq = s
    <2>1. PICK d \in index : d \notin ChainDigests(file.lines) /\ d.seq = s
        BY <1>5
    <2>2. d.seq \in Seqs(index)
        BY DEF Seqs
    <2>3. CASE d.seq \in Seqs(ChainDigests(rec.lines))
        <3>1. PICK c \in ChainDigests(rec.lines) : c.seq = d.seq
            BY <2>3 DEF Seqs
        <3>2. c \notin index
            BY <1>4, <2>1, <3>1 DEF IndexShape
        <3>3. Div("digest_mismatch", c.seq) \in Divergences(rec.lines, rec.plan, index)
            BY <2>2, <3>1, <3>2, Reported
        <3> QED BY <1>0, <3>3 DEF Alarms
    <2> QED BY <1>3, <2>2, <2>3
<1>6. CASE s \in Seqs(ChainDigests(file.lines)) /\ s \notin Seqs(index) /\ s < IndexHead(index)
    <2>1. PICK c \in ChainDigests(file.lines) : c.seq = s
        BY <1>6 DEF Seqs
    <2>2. PICK i \in 1..Len(file.lines) : file.lines[i].type = "record" /\ c = link_digest(file.lines[i]) /\ c.seq = i - 1
        BY <1>1, DigestLine
    <2>3. index # {}
        BY <1>6, <2>1, <2>2 DEF IndexHead
    <2>4. IndexHead(index) \in Seqs(index) /\ IndexHead(index) \in Nat
        BY <1>1, <1>2, <2>3, HeadIsGreatest
    <2>5. CASE i \in 1..Len(rec.lines)
        <3>1. c \in ChainDigests(rec.lines)
            BY <1>1, <2>2, <2>5, DigestLine
        <3>2. Div("gap_below_head", c.seq) \in Divergences(rec.lines, rec.plan, index)
            BY <1>6, <2>1, <2>2, <2>4, <3>1, Reported
        <3> QED BY <1>0, <3>2 DEF Alarms
    <2>6. CASE i \notin 1..Len(rec.lines)
        <3>1. ASSUME NEW e \in ChainDigests(rec.lines) PROVE e.seq # IndexHead(index)
            <4>1. PICK k \in 1..Len(rec.lines) : e.seq = k - 1
                BY <1>1, DigestLine
            <4> QED BY <1>1, <1>6, <2>1, <2>2, <2>4, <2>6, <4>1
        <3>2. IndexHead(index) \notin Seqs(ChainDigests(rec.lines))
            BY <3>1 DEF Seqs
        <3> QED BY <1>3, <2>4, <3>2
    <2> QED BY <2>5, <2>6
<1> QED BY <1>5, <1>6 DEF Damage

(* A worker has a row to write because it had it, or has just appended the *)
(* line.                                                                   *)
LEMMA RowTaken ==
    ASSUME ProvInv, [Next]_vars, NEW n \in Nodes, Writing(worker'[n])
    PROVE  \/ Writing(worker[n]) /\ worker'[n].row = worker[n].row
           \/ AppendRecord(n)
<1>0. worker \in [Nodes -> Worker] /\ worker[n] \in Worker
    BY DEF ProvInv, MirrorTypeOK
<1>1. ASSUME NEW m \in Nodes, NEW w, worker' = [worker EXCEPT ![m] = w], ~Writing(w)
      PROVE  worker'[n] = worker[n]
    BY <1>0, <1>1
<1>2. ~Writing(IdleWorker)
    BY DEF Writing, IdleWorker
<1>3. ASSUME NEW m \in Nodes, Done(m) PROVE worker'[n] = worker[n]
    BY <1>1, <1>2, <1>3 DEF Done
<1>4. ASSUME NEW m \in Nodes, NEW pc \in Places \ {"origin", "index"}, Go(m, pc) PROVE worker'[n] = worker[n]
    <2>1. worker' = [worker EXCEPT ![m] = [worker[m] EXCEPT !.pc = pc]] /\ worker[m] \in Worker
        BY <1>0, <1>4 DEF Go
    <2>2. ~Writing([worker[m] EXCEPT !.pc = pc])
        BY <2>1, WorkerMoved DEF Writing
    <2> QED BY <1>1, <2>1, <2>2
<1>5. ASSUME NEW m \in Nodes, Get(m) PROVE worker'[n] = worker[n]
    <2>1. worker' = [worker EXCEPT ![m] = [worker[m] EXCEPT !.pc = "gate", !.job = Head(queue[m])]] /\ worker[m] \in Worker
        BY <1>0, <1>5 DEF Get
    <2>2. [worker[m] EXCEPT !.pc = "gate", !.job = Head(queue[m])].pc = "gate"
        BY <2>1 DEF Worker
    <2> QED BY <1>1, <2>1, <2>2 DEF Writing
<1>6. ASSUME NEW m \in Nodes, SetOrigin(m) PROVE Writing(worker[n]) /\ worker'[n].row = worker[n].row
    <2>1. worker' = [worker EXCEPT ![m] = [worker[m] EXCEPT !.pc = "index"]] /\ worker[m] \in Worker /\ worker[m].pc = "origin"
        BY <1>0, <1>6 DEF SetOrigin, Go
    <2>2. [worker[m] EXCEPT !.pc = "index"].row = worker[m].row
        BY <2>1, WorkerMoved DEF Places
    <2>3. worker'[n] = IF n = m THEN [worker[m] EXCEPT !.pc = "index"] ELSE worker[n]
        BY <1>0, <2>1
    <2> QED BY <2>1, <2>2, <2>3 DEF Writing
<1>7. ASSUME NEW m \in Nodes, AppendRecord(m), m # n PROVE worker'[n] = worker[n]
    BY <1>0, <1>7 DEF AppendRecord
<1>8. ASSUME NEW m \in Nodes, WorkerStep(m)
      PROVE  \/ Writing(worker[n]) /\ worker'[n].row = worker[n].row
             \/ AppendRecord(n)
    <2>1. CASE Get(m)
        BY <1>5, <2>1
    <2>2. CASE Gate(m)
        BY <1>4, <2>2 DEF Gate, Places
    <2>3. CASE Blocked(m) \/ IndexSkipped(m) \/ IndexRecord(m) \/ \E how \in Failures : AppendFails(m, how)
        BY <1>3, <2>3 DEF Blocked, IndexSkipped, IndexRecord, AppendFails
    <2>4. CASE TestEmpty(m)
        BY <1>4, <2>4 DEF TestEmpty, Places
    <2>5. CASE AppendGenesis(m)
        BY <1>4, <2>5 DEF AppendGenesis, Places
    <2>6. CASE AppendRecord(m)
        BY <1>7, <2>6
    <2>7. CASE SetOrigin(m)
        BY <1>6, <2>7
    <2> QED BY <1>8, <2>1, <2>2, <2>3, <2>4, <2>5, <2>6, <2>7 DEF WorkerStep
<1>9. CASE UNCHANGED worker
    BY <1>9
<1>10. ASSUME NEW m \in Nodes, Crash(m) PROVE worker'[n] = worker[n]
    BY <1>3, <1>10 DEF Crash
<1> QED BY <1>8, <1>9, <1>10 DEF Next, LeaseStep, Put, vars

LEMMA ShapeKept ==
    ASSUME ProvInv, IndexShape, RecordsInHand, [Next]_vars
    PROVE  IndexShape' /\ RecordsInHand'
<1>1. /\ file \in File /\ file' \in File /\ Extends(file, file') /\ Len(file.lines) \in Nat /\ Len(file'.lines) \in Nat
      /\ Len(file.lines) <= Len(file'.lines)
    <2>1. file \in File /\ file' \in File /\ Extends(file, file')
        BY NextKeeps DEF FileKept, ProvInv, MirrorTypeOK
    <2> QED BY <2>1 DEF File, Extends
<1>2. ASSUME NEW d \in index
      PROVE  d.type = "record" /\ (d.seq < Len(file'.lines) \/ d = Fake(Len(file'.lines)))
    <2>1. CASE d.seq < Len(file.lines)
        <3>1. d.seq \in Nat
            BY RowsBounded
        <3> QED BY <1>1, <2>1, <3>1 DEF IndexShape
    <2>2. CASE d = Fake(Len(file.lines))
        <3>1. d.seq = Len(file.lines)
            BY <2>2 DEF Fake
        <3>2. CASE Len(file.lines) = Len(file'.lines)
            BY <2>2, <3>2 DEF IndexShape
        <3> QED BY <1>1, <3>1, <3>2 DEF IndexShape
    <2> QED BY <2>1, <2>2 DEF IndexShape
<1>3. ASSUME NEW n \in Nodes, IndexRecord(n) PROVE IndexShape'
    <2> DEFINE row == worker[n].row
    <2>1. row.type = "record" /\ InFile(row, file) /\ row \in Digest
        BY <1>3 DEF IndexRecord, RecordsInHand, Writing, ProvInv, RowsInFile
    <2>2. index' = IF \E d \in index : d.seq = row.seq THEN index ELSE index \cup {row}
        BY <1>3 DEF IndexRecord
    <2> HIDE DEF row
    <2>3. row.seq < Len(file'.lines)
        BY <1>1, <2>1 DEF InFile, Digest
    <2>4. \A d \in index' : d.type = "record" /\ (d.seq < Len(file'.lines) \/ d = Fake(Len(file'.lines)))
        BY <1>2, <2>1, <2>2, <2>3
    <2>5. \A d, e \in index' : d.seq = e.seq => d = e
        BY <2>2 DEF IndexShape
    <2> QED BY <2>4, <2>5 DEF IndexShape
<1>4. IndexShape'
    <2>1. CASE index' = index
        BY <1>2, <2>1 DEF IndexShape
    <2> QED BY <1>3, <2>1, IndexGrows
<1>5. ASSUME NEW n \in Nodes, Writing(worker'[n]) PROVE worker'[n].row.type = "record"
    <2>1. CASE Writing(worker[n]) /\ worker'[n].row = worker[n].row
        BY <2>1 DEF RecordsInHand
    <2>2. CASE AppendRecord(n)
        <3>1. worker \in [Nodes -> Worker] /\ worker[n] \in Worker /\ worker[n].job \in Jobs \cup {0}
            BY WorkerFields DEF ProvInv, MirrorTypeOK
        <3>2. worker'[n].row = link_digest(Linked(file, "record", worker[n].job))
            BY <2>2, <3>1 DEF AppendRecord, Worker
        <3>3. Linked(file, "record", worker[n].job).type = "record"
            BY DEF Linked
        <3> QED BY <3>2, <3>3 DEF link_digest
    <2> QED BY <1>5, <2>1, <2>2, RowTaken
<1> QED BY <1>4, <1>5 DEF RecordsInHand

(* Somebody changes index or origin, and the chain is as it was.           *)
LEMMA IndexOnly ==
    ASSUME ProvInv, UNCHANGED <<leaseVars, queue, worker, file, from, late>>,
           index' \subseteq Digest, origin' \in BOOLEAN
    PROVE  ProvInv'
<1>1. LeaseInv'
    BY LeaseNextKeeps DEF ProvInv
<1>2. MirrorTypeOK' /\ RowsInFile' /\ LinkedLines(file)'
    BY DEF ProvInv, MirrorTypeOK, RowsInFile
<1>3. LateWindow'
    BY DEF ProvInv, LateWindow, held, leaseVars
<1> QED BY <1>1, <1>2, <1>3 DEF ProvInv

(* Steps of the reconciler that only read.                                 *)
LEMMA ReadKeeps ==
    ASSUME CycleInv, UNCHANGED vars, ReadInv', CaughtInOneCycle'
    PROVE  CycleInv'
<1>1. ProvInv'
    BY NextKeeps DEF CycleInv
<1>2. IndexShape' /\ RecordsInHand'
    BY ShapeKept DEF CycleInv
<1> QED BY <1>1, <1>2 DEF CycleInv

LEMMA ReadPartKeeps ==
    ASSUME ReadInv, file \in File, UNCHANGED file, NEW pc, NEW lines, NEW plan, NEW damage, NEW repair, NEW report,
           rec' = [pc |-> pc, lines |-> lines, plan |-> plan, damage |-> damage, repair |-> repair, report |-> report],
           lines \in {rec.lines, file.lines, << >>}
    PROVE  ReadInv' /\ rec'.report = report
<1>1. << >> \in Seq(Line) /\ Len(<< >>) = 0 /\ Len(file.lines) \in Nat /\ file.lines \in Seq(Line)
    BY DEF File
<1>2. rec'.lines = lines /\ rec'.report = report
    OBVIOUS
<1>3. rec' = [pc |-> rec'.pc, lines |-> rec'.lines, plan |-> rec'.plan, damage |-> rec'.damage,
              repair |-> rec'.repair, report |-> rec'.report]
    OBVIOUS
<1>4. CASE lines = rec.lines
    BY <1>2, <1>3, <1>4 DEF ReadInv, Extends
<1>5. CASE lines = file.lines
    BY <1>1, <1>2, <1>3, <1>5 DEF ReadInv, Extends
<1>6. CASE lines = << >>
    <2>1. Extends(rec', file')
        BY <1>1, <1>2, <1>6 DEF Extends
    <2> QED BY <1>1, <1>2, <1>3, <1>6, <2>1 DEF ReadInv
<1> QED BY <1>4, <1>5, <1>6

LEMMA ReadChainKeeps ==
    ASSUME CycleInv, NEW repair \in BOOLEAN, ReadChain(repair)
    PROVE  CycleInv'
<1>0. ReadInv /\ file \in File /\ UNCHANGED vars /\ file' = file
    BY DEF CycleInv, ProvInv, MirrorTypeOK, ReadChain, vars
<1>1. CASE file.lines = << >>
    <2> DEFINE report == [divergences |-> {Div("no_chain", -1)}, damage |-> Damage, began |-> 0, done |-> TRUE]
    <2>1. rec' = [pc |-> rec.pc, lines |-> rec.lines, plan |-> rec.plan, damage |-> rec.damage,
                  repair |-> rec.repair, report |-> report]
        BY <1>0, <1>1 DEF ReadChain, ReadInv
    <2>2. Div("no_chain", -1) \in report.divergences /\ Div("no_chain", -1).class \in Alarms
        BY DEF Div, Alarms
    <2> HIDE DEF report
    <2>3. ReadInv' /\ rec'.report = report
        BY <1>0, <2>1, ReadPartKeeps
    <2>4. CaughtInOneCycle'
        BY <2>2, <2>3 DEF CaughtInOneCycle
    <2> QED BY <1>0, <2>3, <2>4, ReadKeeps
<1>2. CASE file.lines # << >>
    <2> DEFINE damage == Damage
    <2>1. rec' = [pc |-> "origin", lines |-> file.lines, plan |-> rec.plan, damage |-> damage,
                  repair |-> repair, report |-> rec.report]
        BY <1>0, <1>2 DEF ReadChain, ReadInv
    <2> HIDE DEF damage
    <2>2. ReadInv' /\ rec'.report = rec.report
        BY <1>0, <2>1, ReadPartKeeps
    <2>3. CaughtInOneCycle'
        BY <2>2 DEF CaughtInOneCycle, CycleInv
    <2> QED BY <1>0, <2>2, <2>3, ReadKeeps
<1> QED BY <1>1, <1>2

LEMMA ReadOriginKeeps ==
    ASSUME CycleInv, ReadOrigin
    PROVE  CycleInv'
<1>0. ReadInv /\ file \in File /\ UNCHANGED vars /\ file' = file
    BY DEF CycleInv, ProvInv, MirrorTypeOK, ReadOrigin, vars
<1>1. CASE verify_chain(rec.lines)
    <2>1. rec' = [pc |-> "rows", lines |-> rec.lines, plan |-> origin, damage |-> rec.damage,
                  repair |-> rec.repair, report |-> rec.report]
        BY <1>0, <1>1 DEF ReadOrigin, ReadInv
    <2>2. ReadInv' /\ rec'.report = rec.report
        BY <1>0, <2>1, ReadPartKeeps
    <2>3. CaughtInOneCycle'
        BY <2>2 DEF CaughtInOneCycle, CycleInv
    <2> QED BY <1>0, <2>2, <2>3, ReadKeeps
<1>2. CASE ~verify_chain(rec.lines)
    <2> DEFINE report == [divergences |-> {Div("chain_broken", -1)}, damage |-> rec.damage, began |-> Len(rec.lines), done |-> TRUE]
    <2>1. rec' = [pc |-> "idle", lines |-> rec.lines, plan |-> rec.plan, damage |-> rec.damage,
                  repair |-> rec.repair, report |-> report]
        BY <1>0, <1>2 DEF ReadOrigin, ReadInv
    <2>2. Div("chain_broken", -1) \in report.divergences /\ Div("chain_broken", -1).class \in Alarms
        BY DEF Div, Alarms
    <2> HIDE DEF report
    <2>3. ReadInv' /\ rec'.report = report
        BY <1>0, <2>1, ReadPartKeeps
    <2>4. CaughtInOneCycle'
        BY <2>2, <2>3 DEF CaughtInOneCycle
    <2> QED BY <1>0, <2>3, <2>4, ReadKeeps
<1> QED BY <1>1, <1>2

LEMMA ReadFailsKeeps ==
    ASSUME CycleInv, ReadFails
    PROVE  CycleInv'
<1>0. ReadInv /\ file \in File /\ UNCHANGED vars /\ file' = file
    BY DEF CycleInv, ProvInv, MirrorTypeOK, ReadFails, vars
<1>1. rec' = [pc |-> "idle", lines |-> << >>, plan |-> FALSE, damage |-> {}, repair |-> rec.repair, report |-> NoReport]
    BY <1>0 DEF ReadFails, ReadInv
<1> DEFINE plan == FALSE
           damage == {}
           lines == << >>
<1>2. lines = << >>
    OBVIOUS
<1>3. rec' = [pc |-> "idle", lines |-> lines, plan |-> plan, damage |-> damage, repair |-> rec.repair, report |-> NoReport]
    BY <1>1
<1> HIDE DEF plan, damage, lines
<1>4. ReadInv' /\ rec'.report = NoReport
    BY <1>0, <1>2, <1>3, ReadPartKeeps
<1>5. CaughtInOneCycle'
    BY <1>4 DEF CaughtInOneCycle, NoReport
<1> QED BY <1>0, <1>4, <1>5, ReadKeeps

(* A repair adds rows of lines that were read, above the head.             *)
LEMMA RepairAdds ==
    ASSUME CycleInv, ReadRows
    PROVE  \A d \in index' \ index : d \in ChainDigests(rec.lines) /\ d.seq \notin Seqs(index)
<1> DEFINE C == ChainDigests(rec.lines)
           D == Divergences(rec.lines, rec.plan, index)
<1>1. index' \subseteq index \cup {d \in C : d.seq \in {e.seq : e \in {x \in D : x.class = "index_behind"}}}
    BY DEF ReadRows
<1>2. ASSUME NEW x \in D, x.class = "index_behind" PROVE x.seq \notin Seqs(index)
    <2> DEFINE Q == Seqs(index)
               H == IndexHead(index)
               K == Seqs(C)
               plan == rec.plan
               idx == index
    <2>0. \A class, seq : Div(class, seq).class = class /\ Div(class, seq).seq = seq
        BY DEF Div
    <2>1. x \in (IF ~plan /\ idx # {} THEN {Div("origin_missing", -1)} ELSE {})
                \cup {Div("digest_mismatch", y.seq) : y \in {c \in C : c.seq \in Q /\ c \notin idx}}
                \cup {Div("gap_below_head", y.seq) : y \in {m \in {z \in C : z.seq \notin Q} : m.seq <= H}}
                \cup {Div("index_behind", y.seq) : y \in {m \in {z \in C : z.seq \notin Q} : m.seq > H}}
                \cup {Div("index_ahead", s) : s \in Q \ K}
        BY DEF Divergences
    <2> HIDE DEF C, D, Q, H, K, plan, idx
    <2>2. \/ x = Div("origin_missing", -1)
          \/ \E c \in C : x = Div("digest_mismatch", c.seq)
          \/ \E c \in C : x = Div("gap_below_head", c.seq)
          \/ \E c \in C : x = Div("index_behind", c.seq) /\ c.seq \notin Q
          \/ \E s \in Q \ K : x = Div("index_ahead", s)
        BY <2>1, Zenon
    <2>3. PICK c \in C : x = Div("index_behind", c.seq) /\ c.seq \notin Q
        BY <1>2, <2>0, <2>2
    <2> QED BY <2>0, <2>3 DEF Q
<1> HIDE DEF C, D
<1> QED BY <1>1, <1>2 DEF C

LEMMA ReadRowsKeeps ==
    ASSUME CycleInv, ReadRows
    PROVE  CycleInv'
<1>0. /\ ProvInv /\ IndexShape /\ ReadInv /\ file \in File /\ index \subseteq Digest
      /\ UNCHANGED <<leaseVars, queue, worker, file, origin, from, late>> /\ file' = file /\ worker' = worker
      /\ origin \in BOOLEAN
    BY DEF CycleInv, ProvInv, MirrorTypeOK, ReadRows
<1>1. /\ LinkedLines(rec) /\ rec.lines \in Seq(Line)
      /\ Len(rec.lines) \in Nat /\ Len(file.lines) \in Nat /\ Len(rec.lines) <= Len(file.lines)
    BY <1>0, ReadLinked
<1>2. ASSUME NEW d \in ChainDigests(rec.lines)
      PROVE  d \in Digest /\ d.type = "record" /\ d.seq < Len(file.lines)
             /\ \A e \in ChainDigests(rec.lines) : e.seq = d.seq => e = d
    <2>1. PICK i \in 1..Len(rec.lines) : d = link_digest(rec.lines[i]) /\ d.seq = i - 1 /\ d.type = "record"
        BY <1>1, DigestLine
    <2>2. rec.lines[i] \in Line
        BY <1>1
    <2>3. ASSUME NEW e \in ChainDigests(rec.lines), e.seq = d.seq PROVE e = d
        <3>1. PICK k \in 1..Len(rec.lines) : e = link_digest(rec.lines[k]) /\ e.seq = k - 1
            BY <1>1, DigestLine
        <3> QED BY <1>1, <2>1, <2>3, <3>1
    <2> QED BY <1>1, <2>1, <2>2, <2>3, DigestOfLine
<1>3. \A d \in index' \ index : d \in ChainDigests(rec.lines) /\ d.seq \notin Seqs(index)
    BY RepairAdds
<1>4. \A d \in index : d.seq \in Seqs(index)
    BY DEF Seqs
<1>5. index' \subseteq Digest
    BY <1>0, <1>2, <1>3
<1>6. ProvInv'
    BY <1>0, <1>5, IndexOnly
<1>7. IndexShape'
    <2>1. \A d \in index' : d.type = "record" /\ (d.seq < Len(file'.lines) \/ d = Fake(Len(file'.lines)))
        BY <1>0, <1>2, <1>3 DEF IndexShape
    <2>2. \A d, e \in index' : d.seq = e.seq => d = e
        BY <1>0, <1>2, <1>3, <1>4 DEF IndexShape
    <2> QED BY <2>1, <2>2 DEF IndexShape
<1>8. RecordsInHand'
    BY <1>0 DEF RecordsInHand, CycleInv
<1> DEFINE divs == Divergences(rec.lines, rec.plan, index)
           report == [divergences |-> divs, damage |-> rec.damage \cap Damage, began |-> Len(rec.lines), done |-> TRUE]
           lines == << >>
           plan == FALSE
           damage == {}
<1>9. rec' = [pc |-> "idle", lines |-> lines, plan |-> plan, damage |-> damage, repair |-> rec.repair, report |-> report]
    BY <1>0 DEF ReadRows, ReadInv
<1>10. lines = << >> /\ report.damage = rec.damage \cap Damage /\ report.divergences = divs
    OBVIOUS
<1>11. ASSUME NEW s \in Damage PROVE \E d \in divs : d.class \in Alarms
    BY <1>0, DamageReported
<1> HIDE DEF divs, report, lines, plan, damage
<1>12. ReadInv' /\ rec'.report = report
    BY <1>0, <1>9, <1>10, ReadPartKeeps
<1>13. CaughtInOneCycle'
    BY <1>10, <1>11, <1>12 DEF CaughtInOneCycle
<1> QED BY <1>6, <1>7, <1>8, <1>12, <1>13 DEF CycleInv

LEMMA TamperKeeps ==
    ASSUME CycleInv, Tamper
    PROVE  CycleInv'
<1>0. /\ ProvInv /\ IndexShape /\ index \subseteq Digest /\ Len(file.lines) \in Nat /\ origin \in BOOLEAN
      /\ UNCHANGED <<leaseVars, queue, worker, file, from, late>> /\ file' = file /\ worker' = worker /\ rec' = rec
    BY DEF CycleInv, ProvInv, MirrorTypeOK, File, Tamper
<1>1. \A s \in Nat : Fake(s) \in Digest /\ Fake(s).seq = s /\ Fake(s).type = "record"
    BY DEF Fake, Digest
<1>2. \A d \in index : d.seq \in Nat /\ d.seq <= Len(file.lines) /\ d \in Digest
    BY <1>0, RowsBounded
<1>3. \/ \E d \in index : index' = index \ {d}
      \/ \E d \in index : index' = (index \ {d}) \cup {Fake(d.seq)}
      \/ index' = index \cup {Fake(Len(file.lines))}
      \/ index' = index
    BY DEF Tamper
<1>4. origin' \in BOOLEAN
    BY <1>0 DEF Tamper
<1>5. index' \subseteq Digest
    BY <1>0, <1>1, <1>2, <1>3
<1>6. ProvInv'
    BY <1>0, <1>4, <1>5, IndexOnly
<1>7. ASSUME NEW d \in index PROVE d.seq = Len(file.lines) => d = Fake(Len(file.lines))
    BY <1>0, <1>2 DEF IndexShape
<1>8. IndexShape'
    <2>1. ASSUME NEW d \in index, index' = (index \ {d}) \cup {Fake(d.seq)} PROVE IndexShape'
        <3>1. d.seq \in Nat /\ (d.seq < Len(file.lines) \/ d.seq = Len(file.lines))
            BY <1>0, <1>2
        <3> QED BY <1>0, <1>1, <2>1, <3>1 DEF IndexShape
    <2>2. CASE index' = index \cup {Fake(Len(file.lines))}
        BY <1>0, <1>1, <1>7, <2>2 DEF IndexShape
    <2>3. ASSUME index' \subseteq index PROVE IndexShape'
        BY <1>0, <2>3 DEF IndexShape
    <2> QED BY <1>3, <2>1, <2>2, <2>3
<1>9. RecordsInHand' /\ ReadInv' /\ CaughtInOneCycle'
    BY <1>0 DEF CycleInv, RecordsInHand, ReadInv, Extends, CaughtInOneCycle
<1> QED BY <1>6, <1>8, <1>9 DEF CycleInv

(* The mirror writes on, and a cycle's reading stays a prefix.             *)
LEMMA MirrorKeeps ==
    ASSUME CycleInv, [Next]_vars, UNCHANGED rec
    PROVE  CycleInv'
<1>0. ProvInv /\ IndexShape /\ RecordsInHand /\ ReadInv
    BY DEF CycleInv
<1>1. ProvInv' /\ FileKept
    BY <1>0, NextKeeps
<1>2. IndexShape' /\ RecordsInHand'
    BY <1>0, ShapeKept
<1>3. Extends(rec, file')
    <2>1. Extends(rec, file) /\ Extends(file, file') /\ Len(rec.lines) \in Nat /\ Len(file.lines) \in Nat /\ Len(file'.lines) \in Nat
        BY <1>0, <1>1, ReadLinked DEF ReadInv, FileKept, File
    <2> QED BY <2>1 DEF Extends
<1>4. ReadInv' /\ CaughtInOneCycle'
    BY <1>0, <1>3 DEF ReadInv, CycleInv, CaughtInOneCycle
<1> QED BY <1>1, <1>2, <1>4 DEF CycleInv

LEMMA CycleStep ==
    ASSUME CycleInv, [ReconcileNext]_reconcileVars
    PROVE  CycleInv'
<1>1. CASE UNCHANGED reconcileVars
    <2>1. UNCHANGED vars /\ UNCHANGED rec
        BY <1>1 DEF reconcileVars, recVars
    <2> QED BY <2>1, MirrorKeeps
<1>2. CASE MirrorStep
    BY <1>2, MirrorKeeps DEF MirrorStep
<1>3. CASE ReconcileStep
    BY <1>3, ReadChainKeeps, ReadOriginKeeps, ReadRowsKeeps, ReadFailsKeeps DEF ReconcileStep
<1> QED BY <1>1, <1>2, <1>3, TamperKeeps DEF ReconcileNext

LEMMA CycleInit == Init /\ ReconcileInit => CycleInv
<1> SUFFICES ASSUME Init, ReconcileInit PROVE CycleInv
    OBVIOUS
<1>1. ProvInv
    BY ProvInvInit
<1>2. index = {} /\ file \in File /\ \A n \in Nodes : worker[n] = IdleWorker
    BY <1>1 DEF Init, ProvInv, MirrorTypeOK
<1>3. IndexShape /\ RecordsInHand
    BY <1>2 DEF IndexShape, RecordsInHand, Writing, IdleWorker
<1>4. /\ rec = [pc |-> "idle", lines |-> << >>, plan |-> FALSE, damage |-> {}, repair |-> FALSE, report |-> NoReport]
      /\ << >> \in Seq(Line) /\ Len(<< >>) = 0
    BY DEF ReconcileInit
<1>5. ReadInv
    BY <1>2, <1>4 DEF ReadInv, Extends, File
<1>6. CaughtInOneCycle
    BY <1>4 DEF CaughtInOneCycle, NoReport
<1> QED BY <1>1, <1>3, <1>5, <1>6 DEF CycleInv

(* reconcile.py: for any number of instances, jobs and changes from        *)
(* outside, damage that is in the index when a cycle begins and when it    *)
(* reads the rows is reported by that cycle, whatever the mirror wrote in  *)
(* between.                                                                *)
THEOREM DamageCaught == ReconcileSpec => []CaughtInOneCycle
<1>1. CycleInv => CaughtInOneCycle
    BY DEF CycleInv
<1> QED BY <1>1, CycleInit, CycleStep, PTL DEF ReconcileSpec

-----------------------------------------------------------------------------
(* What an alarm means where one instance n writes, as long as nobody      *)
(* touched the index and no job was lost on its way there.                 *)
Quiet == tampers = 0 /\ ~lost

(* Every record is indexed but the last, which its worker has in hand.     *)
Indexed(n) ==
    /\ \A i \in 1..Len(file.lines) : file.lines[i].type = "record" =>
         \/ link_digest(file.lines[i]) \in index
         \/ Writing(worker[n]) /\ worker[n].row = link_digest(file.lines[i])
    /\ Writing(worker[n]) => worker[n].row.seq = Len(file.lines) - 1

(* Before the origin is written, only the job that creates the run is past *)
(* the queue, and it leaves its record when it is about to write it.       *)
NoRecord(f) == \A i \in 1..Len(f.lines) : f.lines[i].type # "record"
Early(n) ==
    ~origin =>
      /\ worker[n].pc # "index"
      /\ worker[n].pc # "origin" => index = {} /\ NoRecord(file)
      /\ worker[n].pc = "get" => IF from = << >> THEN queue[n] = << >> ELSE queue[n] # << >> /\ Head(queue[n]) = 1
      /\ worker[n].pc # "get" => worker[n].job = 1 /\ from # << >>

(* A divergence in the last report, with the number of lines read.         *)
Meant(d, began, f) ==
    /\ d.class \notin {"digest_mismatch", "gap_below_head"}
    /\ d.class = "index_ahead" => d.seq \in Nat /\ d.seq >= began /\ d.seq < Len(f.lines)
    /\ d.class = "origin_missing" => ~NoRecord(f)

QuietInv(n) ==
    /\ tampers \in Nat
    /\ Quiet => /\ IndexInFile /\ Indexed(n) /\ Early(n)
                /\ \A d \in rec.report.divergences : Meant(d, rec.report.began, file)

(* A worker of the one instance that stops short has lost its job.         *)
LEMMA NotGivenUp ==
    ASSUME NEW n, Nodes = {n}, CycleInv, MirrorStep, Quiet'
    PROVE  /\ Quiet
           /\ worker'[n] = IdleWorker => worker[n].pc = "get" \/ (worker[n].pc = "index" /\ worker[n].row \in index')
           /\ ~Crash(n)
<1>1. tampers = 0 /\ ~lost /\ ~GivesUp(n)
    BY DEF MirrorStep, Quiet
<1>2. ~(mgr'[n] = "down" /\ mgr[n] # "down")
    BY <1>1 DEF GivesUp
<1>3. ~Crash(n)
    <2>1. mgr \in [Nodes -> Stages]
        BY DEF CycleInv, ProvInv, LeaseInv, LeaseTypeOK
    <2> QED BY <1>2, <2>1 DEF Crash, Die
<1> QED BY <1>1, <1>3 DEF GivesUp, Quiet

(* Steps that leave file, index and origin alone.                          *)
LEMMA PassingEarly ==
    ASSUME NEW n, Nodes = {n}, CycleInv, Early(n), UNCHANGED <<file, index, origin, from>>,
           worker[n].pc \notin {"origin", "index"},
           worker'[n].pc \notin {"get", "origin", "index"},
           ~origin => worker'[n].job = 1 /\ from # << >>
    PROVE  Early(n)'
BY DEF Early, NoRecord

LEMMA HeadStays ==
    ASSUME NEW q \in Seq(Jobs), q # << >>, NEW x \in Jobs
    PROVE  Append(q, x) # << >> /\ Head(Append(q, x)) = Head(q)
<1>1. Len(q) \in Nat /\ Len(q) >= 1
    OBVIOUS
<1> HIDE DEF Jobs
<1>2. Append(q, x) \in Seq(Jobs) /\ Append(q, x)[1] = q[1] /\ Len(Append(q, x)) = Len(q) + 1
    BY <1>1
<1> QED BY <1>1, <1>2

LEMMA OneInstanceStep ==
    ASSUME NEW n, Nodes = {n}, CycleInv, QuietInv(n), MirrorStep, Quiet'
    PROVE  Indexed(n)' /\ Early(n)'
<1>0. /\ n \in Nodes /\ worker \in [Nodes -> Worker] /\ worker[n] \in Worker /\ queue \in [Nodes -> Seq(Jobs)]
      /\ queue[n] \in Seq(Jobs) /\ from \in Seq(Nodes) /\ file \in File /\ LinkedLines(file)
      /\ Len(file.lines) \in Nat /\ worker[n].job \in Jobs \cup {0} /\ file.lines \in Seq(Line)
    BY WorkerFields DEF CycleInv, ProvInv, MirrorTypeOK, File
<1>1. /\ Quiet /\ Indexed(n) /\ Early(n) /\ ~Crash(n)
      /\ worker'[n] = IdleWorker => worker[n].pc = "get" \/ (worker[n].pc = "index" /\ worker[n].row \in index')
    BY NotGivenUp DEF QuietInv
<1>2. ~Writing(IdleWorker) /\ IdleWorker.pc = "get"
    BY DEF Writing, IdleWorker
<1>3. CASE LeaseStep
    <2>1. UNCHANGED <<queue, worker, file, origin, index, from>>
        BY <1>3 DEF LeaseStep
    <2> QED BY <1>1, <2>1 DEF Indexed, Early, Writing, NoRecord
<1>4. CASE Put(n)
    <2>1. /\ UNCHANGED <<worker, file, origin, index>> /\ from' = Append(from, n) /\ from' # << >>
          /\ queue' = IF Len(queue[n]) < QueueSize THEN [queue EXCEPT ![n] = Append(@, Len(from) + 1)] ELSE queue
        BY <1>0, <1>4 DEF Put
    <2>2. Indexed(n)'
        BY <1>1, <2>1 DEF Indexed, Writing
    <2>3. queue'[n] = queue[n] \/ queue'[n] = Append(queue[n], Len(from) + 1)
        BY <1>0, <2>1
    <2>4. CASE from = << >>
        <3>1. ~origin /\ worker[n].pc = "get" => queue[n] = << >>
            BY <1>1, <2>4 DEF Early
        <3>2. ASSUME queue[n] = << >> PROVE queue'[n] # << >> /\ Head(queue'[n]) = 1
            <4>1. Len(queue[n]) < QueueSize /\ Len(from) + 1 = 1
                BY <2>4, <3>2, ProvenanceAssumption
            <4>2. queue'[n] = << 1 >>
                BY <1>0, <2>1, <3>2, <4>1
            <4> QED BY <4>2
        <3> QED BY <1>1, <2>1, <2>2, <2>4, <3>1, <3>2 DEF Early, NoRecord
    <2>5. CASE from # << >>
        <3>1. ASSUME queue[n] # << >>, Head(queue[n]) = 1 PROVE queue'[n] # << >> /\ Head(queue'[n]) = 1
            <4>1. Len(from) + 1 \in Jobs
                BY <1>0, <1>4, ProvenanceAssumption DEF Put, Jobs
            <4> QED BY <1>0, <2>3, <3>1, <4>1, HeadStays
        <3> QED BY <1>1, <2>1, <2>2, <2>5, <3>1 DEF Early, NoRecord
    <2> QED BY <2>4, <2>5
<1>5. CASE Get(n)
    <2>1. /\ worker[n].pc = "get" /\ queue[n] # << >> /\ UNCHANGED <<file, origin, index, from>>
          /\ worker'[n] = [worker[n] EXCEPT !.pc = "gate", !.job = Head(queue[n])]
        BY <1>0, <1>5 DEF Get
    <2>2. worker'[n].pc = "gate" /\ worker'[n].job = Head(queue[n])
        BY <1>0, <2>1 DEF Worker
    <2>3. ~origin => worker'[n].job = 1 /\ from # << >>
        BY <1>1, <2>1, <2>2 DEF Early
    <2>4. Early(n)'
        BY <1>1, <2>1, <2>2, <2>3, PassingEarly
    <2>5. Indexed(n)'
        BY <1>1, <2>1, <2>2 DEF Indexed, Writing
    <2> QED BY <2>4, <2>5
<1>6. ASSUME NEW pc \in {"test", "genesis", "append"}, Go(n, pc), worker[n].pc \in {"gate", "test"},
             UNCHANGED <<file, origin, index, from>>
      PROVE  Indexed(n)' /\ Early(n)'
    <2>1. worker'[n] = [worker[n] EXCEPT !.pc = pc]
        BY <1>0, <1>6 DEF Go
    <2>2. worker'[n].pc = pc /\ worker'[n].job = worker[n].job
        BY <1>0, <2>1 DEF Worker
    <2>3. ~origin => worker'[n].job = 1 /\ from # << >>
        BY <1>1, <1>6, <2>2 DEF Early
    <2>4. Early(n)'
        BY <1>1, <1>6, <2>2, <2>3, PassingEarly
    <2>5. Indexed(n)'
        BY <1>1, <1>6, <2>2 DEF Indexed, Writing
    <2> QED BY <2>4, <2>5
<1>7. CASE AppendGenesis(n)
    <2>1. /\ worker[n].pc = "genesis" /\ file' = AppendedTo(file, "genesis", 0) /\ UNCHANGED <<origin, index, from>>
          /\ worker'[n] = [worker[n] EXCEPT !.pc = "append"]
        BY <1>0, <1>7 DEF AppendGenesis, Go
    <2>2. worker'[n].pc = "append" /\ worker'[n].job = worker[n].job
        BY <1>0, <2>1 DEF Worker
    <2>3. /\ Len(file'.lines) = Len(file.lines) + 1 /\ file'.lines[Len(file.lines) + 1] = Linked(file, "genesis", 0)
          /\ \A i \in 1..Len(file.lines) : file'.lines[i] = file.lines[i]
        BY <1>0, <2>1, AppendedLines DEF Extends
    <2>4. Linked(file, "genesis", 0).type = "genesis"
        BY DEF Linked
    <2>5. ASSUME NEW i \in 1..Len(file'.lines), file'.lines[i].type = "record"
          PROVE  i \in 1..Len(file.lines) /\ file'.lines[i] = file.lines[i]
        BY <1>0, <2>3, <2>4, <2>5
    <2>6. Indexed(n)'
        BY <1>1, <2>1, <2>2, <2>5 DEF Indexed, Writing
    <2>7. NoRecord(file) => NoRecord(file')
        BY <2>5 DEF NoRecord
    <2>8. Early(n)'
        BY <1>1, <2>1, <2>2, <2>7 DEF Early
    <2> QED BY <2>6, <2>8
<1>8. CASE AppendRecord(n)
    <2> DEFINE l == Linked(file, "record", worker[n].job)
               pc == IF worker[n].job = 1 THEN "origin" ELSE "index"
    <2>1. /\ worker[n].pc = "append" /\ file' = AppendedTo(file, "record", worker[n].job)
          /\ UNCHANGED <<origin, index, from>>
          /\ worker'[n] = [worker[n] EXCEPT !.pc = pc, !.row = link_digest(l)]
        BY <1>0, <1>8 DEF AppendRecord
    <2>2. worker'[n].pc = pc /\ worker'[n].row = link_digest(l) /\ worker'[n].job = worker[n].job
        BY <1>0, <2>1 DEF Worker
    <2>3. /\ Len(file'.lines) = Len(file.lines) + 1 /\ file'.lines[Len(file.lines) + 1] = l
          /\ \A i \in 1..Len(file.lines) : file'.lines[i] = file.lines[i]
        BY <1>0, <2>1, AppendedLines DEF Extends
    <2>4. l.seq = Len(file.lines) /\ link_digest(l).seq = l.seq
        BY <1>0, AppendedLinked DEF link_digest
    <2> HIDE DEF l
    <2>5. ASSUME NEW i \in 1..Len(file'.lines), file'.lines[i].type = "record"
          PROVE  link_digest(file'.lines[i]) \in index' \/ worker'[n].row = link_digest(file'.lines[i])
        <3>1. CASE i = Len(file.lines) + 1
            BY <2>2, <2>3, <3>1
        <3>2. CASE i \in 1..Len(file.lines)
            BY <1>1, <2>1, <2>3, <2>5, <3>2 DEF Indexed, Writing
        <3> QED BY <1>0, <2>3, <3>1, <3>2
    <2>6. Indexed(n)'
        BY <1>0, <2>2, <2>3, <2>4, <2>5 DEF Indexed, Writing
    <2>7. Early(n)'
        BY <1>1, <2>1, <2>2 DEF Early
    <2> QED BY <2>6, <2>7
<1>9. CASE SetOrigin(n)
    <2>1. /\ worker[n].pc = "origin" /\ origin' = TRUE /\ UNCHANGED <<file, index>>
          /\ worker'[n] = [worker[n] EXCEPT !.pc = "index"]
        BY <1>0, <1>9 DEF SetOrigin, Go
    <2>2. worker'[n].pc = "index" /\ worker'[n].row = worker[n].row
        BY <1>0, <2>1 DEF Worker
    <2> QED BY <1>1, <2>1, <2>2 DEF Indexed, Early, Writing
<1>10. ASSUME Done(n), worker[n].pc # "get", UNCHANGED <<file, origin>>, index \subseteq index'
       PROVE  Indexed(n)' /\ Early(n)'
    <2>1. worker'[n] = IdleWorker
        BY <1>0, <1>10 DEF Done
    <2>2. worker[n].pc = "index" /\ worker[n].row \in index' /\ origin
        BY <1>1, <1>10, <2>1 DEF Early
    <2> QED BY <1>1, <1>2, <1>10, <2>1, <2>2 DEF Indexed, Early
<1>11. ASSUME NEW how \in Failures, AppendFails(n, how) PROVE FALSE
    <2>1. worker'[n] = IdleWorker /\ worker[n].pc \in {"genesis", "append"}
        BY <1>0, <1>11 DEF AppendFails, Done
    <2> QED BY <1>1, <2>1
<1>12. CASE WorkerStep(n)
    <2>1. CASE Gate(n)
        BY <1>6, <2>1 DEF Gate
    <2>2. CASE TestEmpty(n)
        BY <1>6, <2>2 DEF TestEmpty
    <2>3. CASE Blocked(n)
        BY <1>10, <2>3 DEF Blocked
    <2>4. CASE IndexSkipped(n)
        BY <1>10, <2>4 DEF IndexSkipped
    <2>5. CASE IndexRecord(n)
        BY <1>10, <2>5 DEF IndexRecord
    <2> QED BY <1>5, <1>7, <1>8, <1>9, <1>11, <1>12, <2>1, <2>2, <2>3, <2>4, <2>5 DEF WorkerStep
<1> QED BY <1>1, <1>3, <1>4, <1>12 DEF MirrorStep, Next

LEMMA MeantStays ==
    ASSUME NEW f \in File, NEW g \in File, Extends(f, g), NEW d, NEW began, Meant(d, began, f)
    PROVE  Meant(d, began, g)
<1>1. /\ Len(f.lines) \in Nat /\ Len(g.lines) \in Nat /\ Len(f.lines) <= Len(g.lines)
      /\ \A i \in 1..Len(f.lines) : g.lines[i] = f.lines[i]
    BY DEF File, Extends
<1>2. ~NoRecord(f) => ~NoRecord(g)
    BY <1>1 DEF NoRecord
<1>3. d.seq \in Nat /\ d.seq < Len(f.lines) => d.seq < Len(g.lines)
    BY <1>1
<1> QED BY <1>2, <1>3 DEF Meant

(* Rows read by a cycle, compared with what it had read of the chain.      *)
LEMMA RowsMeant ==
    ASSUME NEW n, Nodes = {n}, CycleInv, Quiet, QuietInv(n), NEW d \in Divergences(rec.lines, rec.plan, index)
    PROVE  Meant(d, Len(rec.lines), file)
<1>0. /\ ProvInv /\ IndexShape /\ IndexInFile /\ Indexed(n)
      /\ LinkedLines(rec) /\ rec.lines \in Seq(Line) /\ file.lines \in Seq(Line) /\ LinkedLines(file)
      /\ Len(rec.lines) \in Nat /\ Len(file.lines) \in Nat /\ Len(rec.lines) <= Len(file.lines)
      /\ \A i \in 1..Len(rec.lines) : rec.lines[i] = file.lines[i]
    BY ReadLinked DEF CycleInv, QuietInv, ProvInv
<1>1. \A x \in index : x.seq \in Nat /\ x.seq <= Len(file.lines)
    BY <1>0, RowsBounded
<1>2. ASSUME NEW x \in index
      PROVE  /\ x.seq + 1 \in 1..Len(file.lines) /\ x = link_digest(file.lines[x.seq + 1])
             /\ file.lines[x.seq + 1].type = "record"
    <2>1. x.seq + 1 \in 1..Len(file.lines) /\ x = link_digest(file.lines[x.seq + 1])
        BY <1>0 DEF IndexInFile, InFile
    <2>2. file.lines[x.seq + 1] \in Line
        BY <1>0, <2>1
    <2> QED BY <1>0, <2>1, <2>2, DigestFields DEF IndexShape
<1>3. ASSUME NEW c \in ChainDigests(rec.lines)
      PROVE  \E i \in 1..Len(file.lines) : /\ file.lines[i].type = "record" /\ c = link_digest(file.lines[i]) /\ c.seq = i - 1
                                           /\ i <= Len(rec.lines)
    <2>1. PICK i \in 1..Len(rec.lines) : /\ rec.lines[i].type = "record" /\ c = link_digest(rec.lines[i])
                                         /\ c.seq = i - 1
        BY <1>0, DigestLine
    <2> QED BY <1>0, <2>1
<1>4. ASSUME NEW s \in Seqs(index) PROVE \E x \in index : x.seq = s
    BY DEF Seqs
<1>5. d.class # "digest_mismatch"
    <2> SUFFICES ASSUME NEW c \in ChainDigests(rec.lines), c.seq \in Seqs(index), c \notin index PROVE FALSE
        BY DivergenceMeans
    <2>1. PICK x \in index : x.seq = c.seq
        BY <1>4
    <2>2. PICK i \in 1..Len(file.lines) : c = link_digest(file.lines[i]) /\ c.seq = i - 1
        BY <1>3
    <2>3. x.seq + 1 = i
        BY <1>0, <2>1, <2>2
    <2> QED BY <1>2, <2>1, <2>2, <2>3
<1>6. d.class # "gap_below_head"
    <2> SUFFICES ASSUME NEW c \in ChainDigests(rec.lines), c.seq \notin Seqs(index), c.seq <= IndexHead(index) PROVE FALSE
        BY DivergenceMeans
    <2>1. PICK i \in 1..Len(file.lines) : /\ file.lines[i].type = "record" /\ c = link_digest(file.lines[i]) /\ c.seq = i - 1
        BY <1>3
    <2>2. c \notin index
        BY DEF Seqs
    <2>3. c.seq = Len(file.lines) - 1
        BY <1>0, <2>1, <2>2 DEF Indexed
    <2>4. index # {}
        BY <2>1 DEF IndexHead
    <2>5. IndexHead(index) \in Seqs(index)
        BY <1>0, <1>1, <2>4, HeadIsGreatest
    <2>6. PICK x \in index : x.seq = IndexHead(index)
        BY <1>4, <2>5
    <2>7. x.seq = c.seq
        BY <1>0, <1>1, <1>2, <2>3, <2>6
    <2> QED BY <2>5, <2>6, <2>7
<1>7. ASSUME d.class = "index_ahead"
      PROVE  d.seq \in Nat /\ d.seq >= Len(rec.lines) /\ d.seq < Len(file.lines)
    <2>1. d.seq \in Seqs(index) /\ d.seq \notin Seqs(ChainDigests(rec.lines))
        BY <1>7, DivergenceMeans
    <2>2. PICK x \in index : x.seq = d.seq
        BY <1>4, <2>1
    <2>3. d.seq \in Nat /\ d.seq + 1 \in 1..Len(file.lines) /\ file.lines[d.seq + 1].type = "record"
        BY <1>1, <1>2, <2>2
    <2>4. ASSUME d.seq < Len(rec.lines) PROVE FALSE
        <3> DEFINE i == d.seq + 1
        <3>1. i \in 1..Len(rec.lines) /\ rec.lines[i] = file.lines[i] /\ rec.lines[i].type = "record" /\ rec.lines[i] \in Line
            BY <1>0, <2>3, <2>4
        <3>2. link_digest(rec.lines[i]).seq = i - 1 /\ link_digest(rec.lines[i]).type = "record"
            BY <1>0, <3>1, DigestFields DEF LinkedLines
        <3>3. link_digest(rec.lines[i]) \in ChainDigests(rec.lines)
            BY <1>0, <3>1, <3>2, DigestLine
        <3>4. d.seq = link_digest(rec.lines[i]).seq
            BY <2>3, <3>2
        <3> HIDE DEF i
        <3>5. d.seq \in Seqs(ChainDigests(rec.lines))
            BY <3>3, <3>4 DEF Seqs
        <3> QED BY <2>1, <3>5
    <2> QED BY <1>0, <2>3, <2>4
<1>8. ASSUME d.class = "origin_missing" PROVE ~NoRecord(file)
    <2>1. PICK x \in index : TRUE
        BY <1>8, DivergenceMeans
    <2> QED BY <1>2, <2>1 DEF NoRecord
<1> QED BY <1>5, <1>6, <1>7, <1>8 DEF Meant

(* Steps that leave the mirror and the history alone.                      *)
LEMMA QuietReads ==
    ASSUME NEW n, CycleInv, QuietInv(n), UNCHANGED <<vars, tampers, lost>>,
           Quiet => \A d \in rec'.report.divergences : Meant(d, rec'.report.began, file)
    PROVE  QuietInv(n)'
<1>1. UNCHANGED <<file, index, origin, worker, queue, from, tampers, lost>>
    BY DEF vars
<1>2. \A d, began : Meant(d, began, file) <=> Meant(d, began, file')
    BY <1>1 DEF Meant, NoRecord
<1>3. (Quiet <=> Quiet') /\ tampers' \in Nat
    BY <1>1 DEF Quiet, QuietInv
<1>4. Quiet => IndexInFile' /\ Indexed(n)' /\ Early(n)'
    BY <1>1 DEF QuietInv, IndexInFile, Indexed, Early, Writing, NoRecord
<1> QED BY <1>2, <1>3, <1>4 DEF QuietInv

(* Alarms about the chain itself are not the subject.                      *)
LEMMA ChainAlarmMeant ==
    ASSUME NEW class \in {"no_chain", "chain_broken"}, NEW seq, NEW began, NEW f
    PROVE  Meant(Div(class, seq), began, f)
<1>1. Div(class, seq).class = class
    BY DEF Div
<1> QED BY <1>1 DEF Meant

LEMMA QuietReadStep ==
    ASSUME NEW n, CycleInv, QuietInv(n),
           (\E repair \in BOOLEAN : ReadChain(repair)) \/ ReadOrigin \/ ReadFails
    PROVE  QuietInv(n)'
<1>0. UNCHANGED <<vars, tampers, lost>> /\ ReadInv
    BY DEF ReadChain, ReadOrigin, ReadFails, CycleInv
<1>1. \/ rec'.report = rec.report
      \/ rec'.report = NoReport
      \/ \E class \in {"no_chain", "chain_broken"} : rec'.report.divergences = {Div(class, -1)}
    <2>1. ASSUME NEW repair \in BOOLEAN, ReadChain(repair)
          PROVE  rec'.report = rec.report \/ rec'.report.divergences = {Div("no_chain", -1)}
        BY <1>0, <2>1 DEF ReadChain, ReadInv
    <2>2. ASSUME ReadOrigin
          PROVE  rec'.report = rec.report \/ rec'.report.divergences = {Div("chain_broken", -1)}
        BY <1>0, <2>2 DEF ReadOrigin, ReadInv
    <2>3. ASSUME ReadFails PROVE rec'.report = NoReport
        BY <1>0, <2>3 DEF ReadFails, ReadInv
    <2> QED BY <2>1, <2>2, <2>3
<1>2. Quiet => \A d \in rec'.report.divergences : Meant(d, rec'.report.began, file)
    <2>1. CASE rec'.report = rec.report
        BY <2>1 DEF QuietInv
    <2>2. CASE rec'.report = NoReport
        BY <2>2 DEF NoReport
    <2>3. ASSUME NEW class \in {"no_chain", "chain_broken"}, rec'.report.divergences = {Div(class, -1)}
          PROVE  \A d \in rec'.report.divergences : Meant(d, rec'.report.began, file)
        BY <2>3, ChainAlarmMeant
    <2> QED BY <1>1, <2>1, <2>2, <2>3
<1> QED BY <1>0, <1>2, QuietReads

LEMMA QuietRowsStep ==
    ASSUME NEW n, Nodes = {n}, CycleInv, QuietInv(n), ReadRows
    PROVE  QuietInv(n)'
<1>0. /\ UNCHANGED <<file, origin, worker, queue, from, tampers, lost>> /\ ReadInv /\ ProvInv /\ index \subseteq index'
    BY DEF ReadRows, CycleInv
<1>1. tampers' \in Nat /\ (Quiet' <=> Quiet)
    BY <1>0 DEF QuietInv, Quiet
<1> SUFFICES ASSUME Quiet
             PROVE  /\ IndexInFile' /\ Indexed(n)' /\ Early(n)'
                    /\ \A d \in rec'.report.divergences : Meant(d, rec'.report.began, file')
    BY <1>1 DEF QuietInv
<1>2. IndexInFile /\ Indexed(n) /\ Early(n)
    BY DEF QuietInv
<1>3. /\ LinkedLines(rec) /\ rec.lines \in Seq(Line) /\ Len(rec.lines) \in Nat /\ Len(file.lines) \in Nat
      /\ Len(rec.lines) <= Len(file.lines) /\ \A i \in 1..Len(rec.lines) : rec.lines[i] = file.lines[i]
    BY <1>0, ReadLinked
<1>4. ASSUME NEW d \in index', d \notin index PROVE InFile(d, file) /\ ~NoRecord(file)
    <2>1. d \in ChainDigests(rec.lines)
        BY <1>4, RepairAdds
    <2>2. PICK i \in 1..Len(rec.lines) : rec.lines[i].type = "record" /\ d = link_digest(rec.lines[i]) /\ d.seq = i - 1
        BY <1>3, <2>1, DigestLine
    <2>3. i \in 1..Len(file.lines) /\ file.lines[i] = rec.lines[i] /\ i = d.seq + 1
        BY <1>3, <2>2
    <2> QED BY <2>2, <2>3 DEF InFile, NoRecord
<1>5. IndexInFile'
    BY <1>0, <1>2, <1>4 DEF IndexInFile
<1>6. Indexed(n)'
    BY <1>0, <1>2 DEF Indexed, Writing
<1>7. Early(n)'
    <2>1. NoRecord(file) /\ index = {} => index' = {}
        BY <1>4
    <2> QED BY <1>0, <1>2, <2>1 DEF Early
<1> DEFINE divs == Divergences(rec.lines, rec.plan, index)
<1>8. rec'.report.divergences = divs /\ rec'.report.began = Len(rec.lines)
    BY <1>0 DEF ReadRows, ReadInv
<1>9. \A d \in divs : Meant(d, Len(rec.lines), file)
    BY RowsMeant
<1> HIDE DEF divs
<1>10. \A d, began : Meant(d, began, file) => Meant(d, began, file')
    BY <1>0 DEF Meant, NoRecord
<1>11. \A d \in rec'.report.divergences : Meant(d, rec'.report.began, file')
    BY <1>8, <1>9, <1>10
<1> QED BY <1>5, <1>6, <1>7, <1>11

LEMMA QuietStep ==
    ASSUME NEW n, Nodes = {n}, CycleInv, QuietInv(n), [ReconcileNext]_reconcileVars
    PROVE  QuietInv(n)'
<1>0. ProvInv /\ file \in File
    BY DEF CycleInv, ProvInv, MirrorTypeOK
<1>1. CASE UNCHANGED reconcileVars
    <2>1. UNCHANGED <<vars, tampers, lost>> /\ rec' = rec
        BY <1>1 DEF reconcileVars, recVars
    <2>2. Quiet => \A d \in rec'.report.divergences : Meant(d, rec'.report.began, file)
        BY <2>1 DEF QuietInv
    <2> QED BY <2>1, <2>2, QuietReads
<1>2. CASE ReconcileStep
    BY <1>2, QuietReadStep, QuietRowsStep DEF ReconcileStep
<1>3. CASE Tamper
    <2>1. tampers' = tampers + 1 /\ tampers \in Nat
        BY <1>3 DEF Tamper, QuietInv
    <2> QED BY <2>1 DEF QuietInv, Quiet
<1>4. CASE MirrorStep
    <2>0. rec' = rec /\ tampers' = tampers /\ tampers \in Nat /\ [Next]_vars
        BY <1>4 DEF MirrorStep, QuietInv
    <2> SUFFICES ASSUME Quiet'
                 PROVE  /\ IndexInFile' /\ Indexed(n)' /\ Early(n)'
                        /\ \A d \in rec.report.divergences : Meant(d, rec.report.began, file')
        BY <2>0 DEF QuietInv
    <2>1. Quiet
        BY <1>4, NotGivenUp
    <2>2. IndexInFile /\ \A d \in rec.report.divergences : Meant(d, rec.report.began, file)
        BY <2>1 DEF QuietInv
    <2>3. IndexInFile'
        BY <1>0, <2>0, <2>2, IndexKept
    <2>4. Indexed(n)' /\ Early(n)'
        BY <1>4, OneInstanceStep
    <2>5. file' \in File /\ Extends(file, file')
        BY <1>0, <2>0, NextKeeps DEF FileKept
    <2>6. ASSUME NEW d \in rec.report.divergences PROVE Meant(d, rec.report.began, file')
        BY <1>0, <2>2, <2>5, MeantStays
    <2> QED BY <2>3, <2>4, <2>6
<1> QED BY <1>1, <1>2, <1>3, <1>4 DEF ReconcileNext

LEMMA QuietInit ==
    ASSUME NEW n, Nodes = {n}, Init, ReconcileInit
    PROVE  QuietInv(n)
<1>1. /\ index = {} /\ file.lines = << >> /\ worker[n] = IdleWorker /\ from = << >> /\ queue[n] = << >>
      /\ tampers = 0 /\ rec.report = NoReport
    BY DEF Init, ReconcileInit, EmptyFile
<1>2. IdleWorker.pc = "get" /\ ~Writing(IdleWorker) /\ NoReport.divergences = {}
    BY DEF IdleWorker, Writing, NoReport
<1>3. 1..Len(file.lines) = {}
    BY <1>1
<1>4. Indexed(n) /\ Early(n) /\ IndexInFile
    BY <1>1, <1>2, <1>3 DEF Indexed, Early, NoRecord, IndexInFile
<1> QED BY <1>1, <1>2, <1>4 DEF QuietInv

(* reconcile.py, where one instance writes: damage is caught within one    *)
(* cycle; and without damage from outside and without a lost job, the only *)
(* alarms are a broken or absent chain, rows written above what the cycle  *)
(* had read, and an origin that is on its way.                             *)
THEOREM ReconcilerIsExact ==
    ASSUME NEW n, Nodes = {n}
    PROVE  ReconcileSpec => []ReconcilerExact
<1>1. CycleInv /\ QuietInv(n) => ReconcilerExact
    <2> SUFFICES ASSUME CycleInv, QuietInv(n), NEW d \in rec.report.divergences, tampers = 0, ~lost
                 PROVE  /\ d.class \notin {"digest_mismatch", "gap_below_head"}
                        /\ d.class = "index_ahead" => d.seq >= rec.report.began /\ d.seq < Len(file.lines)
                        /\ d.class = "origin_missing" => origin \/ \E m \in Nodes : worker[m].pc = "origin"
        BY DEF ReconcilerExact, AlarmExplained, CycleInv
    <2>1. Meant(d, rec.report.began, file) /\ Early(n) /\ n \in Nodes
        BY DEF QuietInv, Quiet
    <2> QED BY <2>1 DEF Meant, Early
<1>2. Init /\ ReconcileInit => CycleInv /\ QuietInv(n)
    BY CycleInit, QuietInit
<1>3. CycleInv /\ QuietInv(n) /\ [ReconcileNext]_reconcileVars => CycleInv' /\ QuietInv(n)'
    BY CycleStep, QuietStep
<1> QED BY <1>1, <1>2, <1>3, PTL DEF ReconcileSpec
=============================================================================
