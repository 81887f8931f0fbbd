------------------------------- MODULE Store -------------------------------
(***************************************************************************)
(* The store seam: the tables behind govd, as the sqlite tier and as the   *)
(* Postgres tier operate on them.  An operation is an operator from the    *)
(* tables to the tables and an answer; the two tiers are run side by side. *)
(* The last part is the one operation in which the tiers protect           *)
(* themselves differently: the Postgres debit, whose advisory lock belongs *)
(* to the session, so that threads on one connection share it.             *)
(***************************************************************************)
EXTENDS Option, Integers, Sequences, FiniteSetsExt, SequencesExt, TLC

-----------------------------------------------------------------------------
(* SQL.                                                                    *)
Upsert(t, k, v) == [x \in DOMAIN t \cup {k} |-> IF x = k THEN v ELSE t[x]]
InsertNew(t, k, v) == IF k \in DOMAIN t THEN t ELSE Upsert(t, k, v)
Fetch(t, k) == IF k \in DOMAIN t THEN t[k] ELSE None

Ans(db, ans) == [db |-> db, ans |-> ans]
EmptyTables ==
    [origin |-> << >>, rows |-> << >>, decisions |-> << >>, values |-> << >>, leases |-> << >>, budget |-> << >>]

(* Steps arrive as numbers or as text and are stored as text.              *)
Str(step) == step.n

-----------------------------------------------------------------------------
(* SqliteWalBackend: every operation under the connection's lock.          *)
set_origin(db, run, plan) == Ans([db EXCEPT !.origin = InsertNew(@, run, plan)], None)

Status(before, after) == IF before = after THEN "duplicate" ELSE "indexed"

index_record(db, run, seq, digest) ==
    LET t == InsertNew(db.rows, <<run, seq>>, digest)
    IN  Ans([db EXCEPT !.rows = t], Status(db.rows, t))

index_decision(db, run) == Ans([db EXCEPT !.decisions = Append(@, run)], "indexed")

record_values(db, run, step, sha) ==
    LET t == InsertNew(db.values, <<run, Str(step)>>, sha)
    IN  Ans([db EXCEPT !.values = t], Status(db.values, t))

(* What the read operations answer, of everything a caller can ask for.    *)
head(rows, run) ==
    LET mine == {k[2] : k \in {k \in DOMAIN rows : k[1] = run}}
    IN  IF mine = {} THEN None ELSE LET top == CHOOSE s \in mine : \A t \in mine : t <= s IN <<top, rows[<<run, top>>]>>
reads(db, runs) ==
    [origin |-> [r \in runs |-> Fetch(db.origin, r)],
     rows   |-> [r \in runs |-> {<<k, db.rows[k]>> : k \in {k \in DOMAIN db.rows : k[1] = r}}],
     values |-> [r \in runs |-> {<<k, db.values[k]>> : k \in {k \in DOMAIN db.values : k[1] = r}}],
     head   |-> [r \in runs |-> head(db.rows, r)],
     run_ids |-> {k[1] : k \in DOMAIN db.rows}]

(* The leases and the budgets survive a reindex.                           *)
reset(db) == Ans([EmptyTables EXCEPT !.leases = db.leases, !.budget = db.budget], None)

LeaseRow(holder, exp) == [holder |-> holder, exp |-> exp]

try_acquire_lease(db, h, ttl, time) ==
    LET row == Fetch(db.leases, "w")
    IN  IF row # None /\ row.holder # h /\ row.exp > time
        THEN Ans(db, [acquired |-> FALSE, holder |-> row.holder, exp |-> row.exp])
        ELSE Ans([db EXCEPT !.leases = Upsert(@, "w", LeaseRow(h, time + ttl))],
                 [acquired |-> TRUE, holder |-> h, exp |-> time + ttl])

renew_lease(db, h, ttl, time) ==
    LET row == Fetch(db.leases, "w")
    IN  IF row = None \/ row.holder # h
        THEN Ans(db, [renewed |-> FALSE, holder |-> IF row = None THEN None ELSE row.holder])
        ELSE Ans([db EXCEPT !.leases = Upsert(@, "w", LeaseRow(h, time + ttl))], [renewed |-> TRUE, holder |-> h])

release_lease(db, h) ==
    LET row == Fetch(db.leases, "w")
        mine == row # None /\ row.holder = h
    IN  Ans(IF mine THEN [db EXCEPT !.leases = << >>] ELSE db, [released |-> mine])

lease_holder(db, time) ==
    LET row == Fetch(db.leases, "w") IN IF row = None \/ row.exp <= time THEN None ELSE row.holder

Mine(budget, actor) == SelectSeq(budget, LAMBDA r : r.actor = actor)
_budget_sum(budget, actor) == FoldSeq(LAMBDA r, sum : r.delta + sum, 0, Mine(budget, actor))
Dup(budget, actor, idem) == \E i \in DOMAIN budget : budget[i].actor = actor /\ budget[i].idem = idem
Entry(actor, delta, idem) == [actor |-> actor, delta |-> delta, idem |-> idem]

budget_post(db, actor, delta, idem) ==
    LET dup == Dup(db.budget, actor, idem)
        t == IF dup THEN db.budget ELSE Append(db.budget, Entry(actor, delta, idem))
    IN  Ans([db EXCEPT !.budget = t], [status |-> IF dup THEN "duplicate" ELSE "posted", balance |-> _budget_sum(t, actor)])

budget_debit_atomic(db, actor, price, idem) ==
    LET bal == _budget_sum(db.budget, actor)
    IN  IF Dup(db.budget, actor, idem) THEN Ans(db, [ok |-> TRUE, balance |-> bal])
        ELSE IF bal < price THEN Ans(db, [ok |-> FALSE, balance |-> bal])
        ELSE Ans([db EXCEPT !.budget = Append(@, Entry(actor, -price, idem))], [ok |-> TRUE, balance |-> bal - price])

budget_rows(db, actor) == Mine(db.budget, actor)

-----------------------------------------------------------------------------
(* PsycopgBackend: one statement where sqlite needs a transaction, and     *)
(* nothing at all until the operator configures a dsn.                     *)
Unconfigured(db) == Ans(db, "unconfigured")

pg_set_origin(conf, db, run, plan) ==
    IF ~conf THEN Ans(db, None) ELSE Ans([db EXCEPT !.origin = InsertNew(@, run, plan)], None)

pg_index_record(conf, db, run, seq, digest) ==
    IF ~conf THEN Unconfigured(db)
    ELSE LET fresh == <<run, seq>> \notin DOMAIN db.rows
         IN  Ans([db EXCEPT !.rows = InsertNew(@, <<run, seq>>, digest)], IF fresh THEN "indexed" ELSE "duplicate")

pg_index_decision(conf, db, run) ==
    IF ~conf THEN Unconfigured(db) ELSE Ans([db EXCEPT !.decisions = Append(@, run)], "indexed")

(* The key has a node_id, '' on every node that writes.                    *)
pg_record_values(conf, db, run, step, sha) ==
    IF ~conf THEN Unconfigured(db)
    ELSE LET fresh == <<run, Str(step)>> \notin DOMAIN db.values
         IN  Ans([db EXCEPT !.values = InsertNew(@, <<run, Str(step)>>, sha)], IF fresh THEN "indexed" ELSE "duplicate")

pg_reset(conf, db) ==
    IF ~conf THEN Ans(db, None) ELSE Ans([db EXCEPT !.rows = << >>, !.decisions = << >>, !.origin = << >>, !.values = << >>], None)

(* mutant: the upsert forgets that the holder itself may take it again     *)
pg_try_acquire_lease_expired_only(conf, db, h, ttl, time) ==
    LET old == Fetch(db.leases, "w")
        t == IF old = None \/ old.exp <= time THEN Upsert(db.leases, "w", LeaseRow(h, time + ttl)) ELSE db.leases
    IN  IF ~conf THEN Unconfigured(db)
        ELSE IF t # db.leases THEN Ans([db EXCEPT !.leases = t], [acquired |-> TRUE, holder |-> h, exp |-> time + ttl])
        ELSE Ans(db, [acquired |-> FALSE, holder |-> old.holder, exp |-> old.exp])

(* INSERT ... ON CONFLICT DO UPDATE ... WHERE expired or ours RETURNING;   *)
(* when nothing is returned, the row is read to say who holds it.          *)
pg_try_acquire_lease(conf, db, h, ttl, time) ==
    LET old == Fetch(db.leases, "w")
        returned == old = None \/ old.exp <= time \/ old.holder = h
    IN  IF ~conf THEN Unconfigured(db)
        ELSE IF returned
             THEN Ans([db EXCEPT !.leases = Upsert(@, "w", LeaseRow(h, time + ttl))],
                      [acquired |-> TRUE, holder |-> h, exp |-> time + ttl])
             ELSE Ans(db, [acquired |-> FALSE, holder |-> old.holder, exp |-> old.exp])

(* A refused renewal does not say who holds the lease.                     *)
pg_renew_lease(conf, db, h, ttl, time) ==
    LET hit == {k \in DOMAIN db.leases : db.leases[k].holder = h}
    IN  IF ~conf THEN Unconfigured(db)
        ELSE Ans([db EXCEPT !.leases = [k \in DOMAIN @ |-> IF k \in hit THEN LeaseRow(h, time + ttl) ELSE @[k]]],
                 [renewed |-> hit # {}, holder |-> IF hit # {} THEN h ELSE None])

pg_release_lease(conf, db, h) ==
    LET hit == {k \in DOMAIN db.leases : db.leases[k].holder = h}
    IN  IF ~conf THEN Unconfigured(db)
        ELSE Ans([db EXCEPT !.leases = [k \in DOMAIN @ \ hit |-> @[k]]], [released |-> hit # {}])

pg_lease_holder(conf, db, time) ==
    LET row == Fetch(db.leases, "w") IN IF ~conf \/ row = None \/ row.exp <= time THEN None ELSE row.holder

(* Without a dsn there is no connection to post on: the call raises.       *)
pg_budget_post(conf, db, actor, delta, idem) ==
    LET posted == ~Dup(db.budget, actor, idem)
        t == IF posted THEN Append(db.budget, Entry(actor, delta, idem)) ELSE db.budget
    IN  IF ~conf THEN Ans(db, "raises")
        ELSE Ans([db EXCEPT !.budget = t],
                 [status |-> IF posted THEN "posted" ELSE "duplicate", balance |-> _budget_sum(t, actor)])

(* Sequentially; PgStep below is the same operation among others.          *)
pg_budget_debit_atomic(conf, db, actor, price, idem) ==
    LET bal == _budget_sum(db.budget, actor)
    IN  IF ~conf THEN Ans(db, "raises")
        ELSE IF Dup(db.budget, actor, idem) THEN Ans(db, [ok |-> TRUE, balance |-> bal])
        ELSE IF bal < price THEN Ans(db, [ok |-> FALSE, balance |-> bal])
        ELSE Ans([db EXCEPT !.budget = Append(@, Entry(actor, -price, idem))], [ok |-> TRUE, balance |-> bal - price])

pg_reads(conf, db, runs) == IF conf THEN reads(db, runs) ELSE reads(EmptyTables, runs)

(* make_backend: Postgres as soon as a dsn or a file with one is named.    *)
make_backend(cfg) == IF cfg.dsn_file \/ cfg.dsn THEN "postgres" ELSE "sqlite"
=============================================================================
