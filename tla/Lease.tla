------------------------------- MODULE Lease -------------------------------
(***************************************************************************)
(* The single-writer lease of active-passive govd: one row in the shared   *)
(* store, and in every instance a manager that acquires it once at boot,   *)
(* renews it from a background thread, and is asked by the mirror's gate   *)
(* whether it holds it.                                                    *)
(*                                                                         *)
(* Times are kept as what is left of them and Tick lets one unit pass, so  *)
(* nothing bounds the length of a behaviour.  The instances share a clock  *)
(* (they share a file system: the chain's flock is local).                 *)
(***************************************************************************)
EXTENDS Integers

CONSTANTS
    Nodes,           \* govd instances on one store
    NoNode,          \* nobody holds the lease
    TTL,             \* lease_ttl
    AcquireTimeout   \* acquire_timeout; the code's default is the ttl

ASSUME LeaseAssumption ==
    /\ NoNode \notin Nodes
    /\ TTL \in Nat /\ TTL > 1
    /\ AcquireTimeout \in Nat

VARIABLES
    holder,   \* holder_id of the lease row (NoNode: there is no row)
    left,     \* time until expires_at, 0 once it has passed
    mgr,      \* node -> what its LeaseManager is doing
    wait      \* node -> time until its manager's deadline or next renewal

leaseVars == <<holder, left, mgr, wait>>

(* "down": the process does not run; "acquiring": in acquire_blocking;     *)
(* "active": the renewer runs; "standby": acquire_blocking gave up;        *)
(* "lost": a renewal failed and the renewer has ended.                     *)
Stages == {"down", "acquiring", "active", "standby", "lost"}

RenewEvery_twice_ttl == TTL + 1      \* mutant: the period is not derived from the ttl
RenewEvery == TTL \div 2

LeaseInit ==
    /\ holder = NoNode /\ left = 0
    /\ mgr = [n \in Nodes |-> "down"]
    /\ wait = [n \in Nodes |-> 0]

-----------------------------------------------------------------------------
(* The row: each operator is one transaction of the store.                 *)

(* Refused only while another holder's lease has not expired.              *)
Acquirable(n) == holder \in {n, NoNode} \/ left = 0

(* LeaseManager.held: what the mirror's gate asks.                         *)
held(n) == holder = n /\ left > 0

TakeLease(n) == holder' = n /\ left' = TTL

-----------------------------------------------------------------------------
(* maybe_enable_ha: acquire, blocking the boot up to the timeout.          *)
Start(n) ==
    /\ mgr[n] = "down"
    /\ mgr' = [mgr EXCEPT ![n] = "acquiring"]
    /\ wait' = [wait EXCEPT ![n] = AcquireTimeout]
    /\ UNCHANGED <<holder, left>>

Acquire(n) ==
    /\ mgr[n] = "acquiring"
    /\ Acquirable(n)
    /\ TakeLease(n)
    /\ mgr' = [mgr EXCEPT ![n] = "active"]
    /\ wait' = [wait EXCEPT ![n] = RenewEvery]

(* The poll that fails past the deadline is the last one.                  *)
GiveUp(n) ==
    /\ mgr[n] = "acquiring"
    /\ ~Acquirable(n)
    /\ wait[n] = 0
    /\ mgr' = [mgr EXCEPT ![n] = "standby"]
    /\ UNCHANGED <<holder, left, wait>>

(* The renewer wakes: whoever is in the row renews, expired or not.        *)
Renew(n) ==
    /\ mgr[n] = "active" /\ wait[n] = 0
    /\ holder = n
    /\ TakeLease(n)
    /\ wait' = [wait EXCEPT ![n] = RenewEvery]
    /\ UNCHANGED mgr

(* The renewal was refused, or the store raised.                           *)
RenewFails(n) ==
    /\ mgr[n] = "active" /\ wait[n] = 0
    /\ mgr' = [mgr EXCEPT ![n] = "lost"]
    /\ UNCHANGED <<holder, left, wait>>

(* The process dies without releasing: the lease runs out by itself.       *)
Die(n) ==
    /\ mgr[n] # "down"
    /\ mgr' = [mgr EXCEPT ![n] = "down"]
    /\ wait' = [wait EXCEPT ![n] = 0]
    /\ UNCHANGED <<holder, left>>

Less(t) == IF t > 0 THEN t - 1 ELSE 0

Tick ==
    /\ left' = Less(left)
    /\ wait' = [n \in Nodes |-> Less(wait[n])]
    /\ UNCHANGED <<holder, mgr>>

LeaseNext == Tick \/ \E n \in Nodes : \/ Start(n) \/ Acquire(n) \/ GiveUp(n)
                                       \/ Renew(n) \/ RenewFails(n) \/ Die(n)

(* Time passes, a poll or a renewal that is due happens; nobody has to     *)
(* start an instance or to kill one.                                       *)
LeaseFairness == WF_leaseVars(Tick) /\ \A n \in Nodes : WF_leaseVars(Acquire(n))

LeaseSpec == LeaseInit /\ [][LeaseNext]_leaseVars /\ LeaseFairness

-----------------------------------------------------------------------------
LeaseTypeOK ==
    /\ holder \in Nodes \cup {NoNode}
    /\ left \in 0..TTL
    /\ mgr \in [Nodes -> Stages]
    /\ wait \in [Nodes -> 0..(TTL + AcquireTimeout)]

(* A renewer that wakes on time never finds the lease gone: until the next *)
(* renewal is due the row is this instance's and has not expired, whatever *)
(* the others try.  Only a renewal that comes too late can lose the lease. *)
TimelyRenewalKeepsLease ==
    \A n \in Nodes : mgr[n] = "active" /\ wait[n] > 0 => holder = n /\ wait[n] <= left

(* Failover, as lease.py promises it: when every other instance is down,   *)
(* a running standby becomes the writer.                                   *)
StandbyTakesOver ==
    \A n \in Nodes :
       (mgr[n] = "standby" /\ \A m \in Nodes \ {n} : mgr[m] = "down")
         ~> (mgr[n] # "standby" \/ \E m \in Nodes \ {n} : mgr[m] # "down")
=============================================================================
