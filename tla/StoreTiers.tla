----------------------------- MODULE StoreTiers -----------------------------
(***************************************************************************)
(* The two store tiers in lockstep, and debits of the Postgres tier that   *)
(* overlap on connections they share or do not share.                      *)
(***************************************************************************)
EXTENDS Store

CONSTANTS
    StoreRuns,    \* run ids in the tables
    Handlers,     \* holders of leases, and threads that debit
    MaxOps,       \* bound: operations applied to both tiers
    MaxTime       \* bound of the clock the leases see

\* None is not a row of the lease table, nor a connection.
ASSUME StoreAssumption == None \notin [holder : Handlers, exp : Int] /\ None \notin {"cx"} \cup Handlers

VARIABLES
    tiers,     \* the tables and the last answer of both, and the clock
    pgconn,    \* connection -> open transactions, uncommitted rows
    debit,     \* thread -> where its debit is
    budgetdb   \* the committed rows of budget_ledger, and who holds the advisory lock

tierVars == <<tiers, pgconn, debit, budgetdb>>

-----------------------------------------------------------------------------
(* Lockstep.                                                               *)
TiersInit(conf) ==
    tiers = [conf |-> conf, sq |-> EmptyTables, pg |-> EmptyTables, agree |-> TRUE, time |-> 0, ops |-> 0]

(* One operation on both, and whether a caller could tell them apart.      *)
Apply(s, p, same) ==
    /\ tiers.ops < MaxOps
    /\ tiers' = [tiers EXCEPT !.ops = @ + 1, !.sq = s.db, !.pg = p.db, !.agree = ~tiers.conf \/ same]
Both(s, p) == Apply(s, p, s.ans = p.ans)

IndexOp == \E r \in StoreRuns, n \in {1, 2} :
    \/ Both(set_origin(tiers.sq, r, n), pg_set_origin(tiers.conf, tiers.pg, r, n))
    \/ \E d \in {"a", "b"} : Both(index_record(tiers.sq, r, n, d), pg_index_record(tiers.conf, tiers.pg, r, n, d))
    \/ \E text \in BOOLEAN :
         LET step == [n |-> 1, text |-> text]
         IN  Both(record_values(tiers.sq, r, step, n), pg_record_values(tiers.conf, tiers.pg, r, step, n))

TableOp ==
    \/ \E r \in StoreRuns : Both(index_decision(tiers.sq, r), pg_index_decision(tiers.conf, tiers.pg, r))
    \/ Both(reset(tiers.sq), pg_reset(tiers.conf, tiers.pg))

LeaseOp == \E h \in Handlers :
    \/ Both(try_acquire_lease(tiers.sq, h, 1, tiers.time), pg_try_acquire_lease(tiers.conf, tiers.pg, h, 1, tiers.time))
    \/ LET s == renew_lease(tiers.sq, h, 1, tiers.time)
           p == pg_renew_lease(tiers.conf, tiers.pg, h, 1, tiers.time)
       IN  Apply(s, p, s.ans.renewed = p.ans.renewed)
    \/ Both(release_lease(tiers.sq, h), pg_release_lease(tiers.conf, tiers.pg, h))

BudgetOp == \E idem \in {"seed", "use1", "use2"}, n \in {1, 2} :
    \/ Both(budget_post(tiers.sq, "ann", n, idem), pg_budget_post(tiers.conf, tiers.pg, "ann", n, idem))
    \/ Both(budget_debit_atomic(tiers.sq, "ann", n, idem), pg_budget_debit_atomic(tiers.conf, tiers.pg, "ann", n, idem))

Clock == tiers.time < MaxTime /\ tiers' = [tiers EXCEPT !.time = @ + 1]

LockstepNext == (IndexOp \/ TableOp \/ LeaseOp \/ BudgetOp \/ Clock) /\ UNCHANGED <<pgconn, debit, budgetdb>>

-----------------------------------------------------------------------------
(* Debits of one actor on the Postgres tier.  `with cx.transaction()` opens *)
(* a transaction on an idle connection and a savepoint in an open one; an  *)
(* exit that is not the innermost raises.                                  *)
Price == 1
DebitInit(sharing) ==
    /\ debit = [h \in Handlers |-> [pc |-> "enter", conn |-> IF sharing THEN "cx" ELSE h, overlapped |-> FALSE]]
    /\ pgconn = [c \in {"cx"} \cup Handlers |-> [open |-> << >>, rows |-> {}]]
    /\ budgetdb = [balance |-> Price, rows |-> {}, lock |-> None]

Sum(c) == budgetdb.balance - Price * Cardinality(budgetdb.rows \cup pgconn[c].rows)
Step(h, pc) == debit' = [debit EXCEPT ![h].pc = pc]

EnterTransaction(h) ==
    LET c == debit[h].conn
    IN  /\ debit[h].pc = "enter"
        /\ pgconn' = [pgconn EXCEPT ![c].open = Append(@, h)]
        /\ debit' = [g \in Handlers |->
                        [debit[g] EXCEPT !.pc = IF g = h THEN "lock" ELSE @,
                                         !.overlapped = @ \/ (pgconn[c].open # << >> /\ (g = h \/ g \in Range(pgconn[c].open)))]]
        /\ UNCHANGED budgetdb

(* mutant: no advisory lock                                                *)
TakeAdvisoryLock_none(h) == debit[h].pc = "lock" /\ Step(h, "read") /\ UNCHANGED <<pgconn, budgetdb>>

(* pg_advisory_xact_lock: waits for another session, not for its own.      *)
TakeAdvisoryLock(h) ==
    /\ debit[h].pc = "lock"
    /\ budgetdb.lock \in {None, debit[h].conn}
    /\ budgetdb' = [budgetdb EXCEPT !.lock = debit[h].conn]
    /\ Step(h, "read") /\ UNCHANGED pgconn

ReadBalance(h) ==
    /\ debit[h].pc = "read"
    /\ debit' = [debit EXCEPT ![h].pc = IF Sum(debit[h].conn) < Price THEN "refused" ELSE "insert"]
    /\ UNCHANGED <<pgconn, budgetdb>>

InsertUsage(h) ==
    /\ debit[h].pc = "insert"
    /\ pgconn' = [pgconn EXCEPT ![debit[h].conn].rows = @ \cup {h}]
    /\ Step(h, "inserted") /\ UNCHANGED budgetdb

ExitTransaction(h) ==
    LET c == debit[h].conn
        inner == pgconn[c].open # << >> /\ Last(pgconn[c].open) = h
        last == inner /\ Len(pgconn[c].open) = 1
    IN  /\ debit[h].pc \in {"inserted", "refused"}
        /\ pgconn' = [pgconn EXCEPT ![c].open = IF @ = << >> THEN @ ELSE Front(@), ![c].rows = IF last THEN {} ELSE @]
        /\ budgetdb' = IF last THEN [budgetdb EXCEPT !.rows = @ \cup pgconn[c].rows, !.lock = None] ELSE budgetdb
        /\ Step(h, IF ~inner THEN "raised" ELSE IF debit[h].pc = "inserted" THEN "ok" ELSE "no")

PgStep(h) == EnterTransaction(h) \/ TakeAdvisoryLock(h) \/ ReadBalance(h) \/ InsertUsage(h) \/ ExitTransaction(h)
DebitNext == (\E h \in Handlers : PgStep(h)) /\ UNCHANGED tiers

-----------------------------------------------------------------------------
(* A configured Postgres tier ends every operation with the tables and the *)
(* answer of the sqlite tier, but for the holder a refused renewal names;  *)
(* an unconfigured one changes nothing (backend.py: two interchangeable    *)
(* backends, both passing ONE identical contract suite).                   *)
TablesAgree ==
    /\ tiers.agree
    /\ tiers.conf => /\ tiers.sq = tiers.pg
                     /\ reads(tiers.sq, StoreRuns) = pg_reads(tiers.conf, tiers.pg, StoreRuns)
                     /\ lease_holder(tiers.sq, tiers.time) = pg_lease_holder(tiers.conf, tiers.pg, tiers.time)
    /\ ~tiers.conf => tiers.pg = EmptyTables

(* Debits of one actor overdraw the account only if they overlapped on one *)
(* connection: across connections the advisory lock serialises them        *)
(* (backend.py: budget_debit_atomic is a single serialized check-and-debit). *)
OverdraftNeedsSharing ==
    Price * Cardinality(budgetdb.rows) > budgetdb.balance => \E h \in budgetdb.rows : debit[h].overlapped

TiersAgree == TablesAgree /\ OverdraftNeedsSharing
=============================================================================
