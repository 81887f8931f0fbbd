------------------------------- MODULE Budget -------------------------------
(***************************************************************************)
(* Per-actor credit budgets: the shared budget_ledger table and the govd   *)
(* processes that meter /govern claims against it.                         *)
(*                                                                         *)
(* A claim reads the balance, is gated on that reading while other claims  *)
(* move on, and only then debits; the debit and every post are one         *)
(* transaction of the store.  Credits arrive from the seeding every boot   *)
(* repeats, and from top-ups a payment webhook may deliver again.          *)
(***************************************************************************)
EXTENDS Integers, FiniteSets, Functions

CONSTANTS
    Actors,      \* authenticated principals
    Nodes,       \* govd processes on one store
    Requests,    \* /govern claims; a claim's run id is fresh, so they coincide
    Refs,        \* references of top-ups (a grant id, a PaymentIntent id)
    Allowances,  \* opening credits a principal's spec may configure
    TopUps,      \* amounts of top-ups
    Prices,      \* credit prices of a perk
    None,        \* no allowance; no reference; a claim not yet received
    MaxBoots,    \* bound: boots of all nodes together
    MaxTopUps    \* bound: POST /budget/topup calls

ASSUME BudgetAssumption ==
    /\ Allowances \subseteq Nat
    /\ TopUps \subseteq Nat \ {0}
    /\ Prices \subseteq Nat
    /\ MaxBoots \in Nat /\ MaxTopUps \in Nat
    /\ None \notin Refs \cup Requests \cup Allowances \cup Actors

VARIABLES
    rows,      \* budget_ledger: [actor, kind, ref, delta], UNIQUE(actor, idem)
    node,      \* process -> its life cycle and the registry it loaded
    req,       \* claim -> what its handler is doing
    boots,     \* boots so far
    topups,    \* top-up calls so far
    unknown    \* history: claims whose debit committed although it raised

vars == <<rows, node, req, boots, topups, unknown>>

(* idem is "seed:<actor>", "topup:<ref>" or "usage:<run>": kind and ref.   *)
Row == [actor : Actors, kind : {"seed"}, ref : {None}, delta : Allowances]
       \cup [actor : Actors, kind : {"topup"}, ref : Refs, delta : TopUps]
       \cup [actor : Actors, kind : {"usage"}, ref : Requests, delta : {-p : p \in Prices}]

Node == [st    : {"down", "booting", "up"},
         spec  : [Actors -> Allowances \cup {None}],  \* configured_allowance of each
         todo  : SUBSET Actors,                       \* not yet seeded by this boot
         store : BOOLEAN]                             \* server.store_backend is set

Request == [pc      : {"new", "gated", "settled", "answered", "dropped"},
            at      : Nodes \cup {None},
            actor   : Actors \cup {None},
            price   : Prices \cup {None},
            verdict : {"allow", "reject"}]

NewRequest == [pc |-> "new", at |-> None, actor |-> None, price |-> None, verdict |-> "reject"]
DownNode   == [st |-> "down", spec |-> [a \in Actors |-> None], todo |-> {}, store |-> FALSE]

Init ==
    /\ rows = {}
    /\ node = [n \in Nodes |-> DownNode]
    /\ req = [q \in Requests |-> NewRequest]
    /\ boots = 0 /\ topups = 0
    /\ unknown = {}

-----------------------------------------------------------------------------
(* The table.  Each operator below is one transaction.                     *)

budget_balance(a) == SumFunction([r \in {s \in rows : s.actor = a} |-> r.delta])

Duplicate(a, kind, ref) == \E r \in rows : r.actor = a /\ r.kind = kind /\ r.ref = ref

NewRow(a, kind, ref, delta) == [actor |-> a, kind |-> kind, ref |-> ref, delta |-> delta]

(* mutant: the row with this key is overwritten instead of kept            *)
budget_post_upsert(a, kind, ref, delta) ==
    rows' = {r \in rows : ~(r.actor = a /\ r.kind = kind /\ r.ref = ref)}
            \cup {NewRow(a, kind, ref, delta)}

budget_post(a, kind, ref, delta) ==
    rows' = IF Duplicate(a, kind, ref) THEN rows ELSE rows \cup {NewRow(a, kind, ref, delta)}

(* The debit answers ok when the run was charged before or can be now.     *)
Affordable(a, q, p) == Duplicate(a, "usage", q) \/ p <= budget_balance(a)

budget_debit_atomic(a, q, p) ==
    IF Affordable(a, q, p) THEN budget_post(a, "usage", q, -p) ELSE UNCHANGED rows

-----------------------------------------------------------------------------
(* serve(): load the registry, open the store, seed the allowances.        *)

Boot(n, spec, store) ==
    /\ node[n].st = "down"
    /\ boots < MaxBoots
    /\ boots' = boots + 1
    /\ node' = [node EXCEPT ![n] = [st |-> IF store THEN "booting" ELSE "up", spec |-> spec,
                                    todo |-> IF store THEN {a \in Actors : spec[a] # None} ELSE {},
                                    store |-> store]]
    /\ UNCHANGED <<rows, req, topups, unknown>>

Seed(n, a) ==
    /\ node[n].st = "booting" /\ a \in node[n].todo
    /\ budget_post(a, "seed", None, node[n].spec[a])
    /\ node' = [node EXCEPT ![n].todo = @ \ {a}]
    /\ UNCHANGED <<req, boots, topups, unknown>>

(* All are seeded, or a post raised and the rest are skipped: the server   *)
(* starts either way.                                                      *)
Serve(n) ==
    /\ node[n].st = "booting"
    /\ node' = [node EXCEPT ![n].st = "up", ![n].todo = {}]
    /\ UNCHANGED <<rows, req, boots, topups, unknown>>

(* The process dies; so do the handlers that run in it.                    *)
Crash(n) ==
    /\ node[n].st # "down"
    /\ node' = [node EXCEPT ![n] = DownNode]
    /\ req' = [q \in Requests |->
                 IF req[q].at = n /\ req[q].pc \in {"gated", "settled"}
                 THEN [req[q] EXCEPT !.pc = "dropped"] ELSE req[q]]
    /\ UNCHANGED <<rows, boots, topups, unknown>>

-----------------------------------------------------------------------------
(* POST /govern of an authenticated actor, with budget_enforce on.         *)

(* The last gate of govern(), on the balance read before it ran.           *)
budget_ok(configured, readable, p, balance) == configured /\ readable /\ p <= balance

(* Read the balance (None when the store is not readable), then gate.      *)
(* others: every other gate of govern() lets the claim through.            *)
Claim(q, n, a, p, others, readable) ==
    LET ok == budget_ok(node[n].spec[a] # None, readable, p, budget_balance(a))
    IN  /\ node[n].st = "up"
        /\ req[q].pc = "new"
        /\ readable => node[n].store
        /\ req' = [req EXCEPT ![q] = [pc |-> "gated", at |-> n, actor |-> a, price |-> p,
                                      verdict |-> IF others /\ ok THEN "allow" ELSE "reject"]]
        /\ UNCHANGED <<rows, node, boots, topups, unknown>>

(* Nothing to debit: the verdict is not allow.                             *)
Settle(q) ==
    /\ req[q].pc = "gated" /\ req[q].verdict = "reject"
    /\ req' = [req EXCEPT ![q].pc = "settled"]
    /\ UNCHANGED <<rows, node, boots, topups, unknown>>

Settled(q, ok) == [req EXCEPT ![q].pc = "settled", ![q].verdict = IF ok THEN "allow" ELSE "reject"]

(* mutant: the debit's answer is not looked at                             *)
Debit_unchecked(q) ==
    /\ req[q].pc = "gated" /\ req[q].verdict = "allow"
    /\ budget_debit_atomic(req[q].actor, q, req[q].price)
    /\ req' = Settled(q, TRUE)
    /\ UNCHANGED <<node, boots, topups, unknown>>

(* mutant: the debit is posted first and the claim refused afterwards      *)
Debit_post_then_refuse(q) ==
    /\ req[q].pc = "gated" /\ req[q].verdict = "allow"
    /\ budget_post(req[q].actor, "usage", q, -req[q].price)
    /\ req' = Settled(q, Affordable(req[q].actor, q, req[q].price))
    /\ UNCHANGED <<node, boots, topups, unknown>>

(* The debit decides: the claim is flipped to reject when it does not fit. *)
Debit(q) ==
    /\ req[q].pc = "gated" /\ req[q].verdict = "allow"
    /\ budget_debit_atomic(req[q].actor, q, req[q].price)
    /\ req' = Settled(q, Affordable(req[q].actor, q, req[q].price))
    /\ UNCHANGED <<node, boots, topups, unknown>>

(* The debit raised.  With a remote store the exception may be the loss of *)
(* the answer to a COMMIT that took effect.                                *)
DebitRaises(q, committed) ==
    /\ req[q].pc = "gated" /\ req[q].verdict = "allow"
    /\ req' = Settled(q, FALSE)
    /\ IF committed
       THEN /\ budget_debit_atomic(req[q].actor, q, req[q].price)
            /\ unknown' = unknown \cup {q}
       ELSE UNCHANGED <<rows, unknown>>
    /\ UNCHANGED <<node, boots, topups>>

(* store.create or store.remember, then the answer to the client.          *)
Answer(q) ==
    /\ req[q].pc = "settled"
    /\ req' = [req EXCEPT ![q].pc = "answered"]
    /\ UNCHANGED <<rows, node, boots, topups, unknown>>

(* POST /budget/topup.  A caller that saw no answer repeats the reference. *)
TopUp(n, a, ref, c) ==
    /\ node[n].st = "up" /\ node[n].store
    /\ topups < MaxTopUps
    /\ topups' = topups + 1
    /\ budget_post(a, "topup", ref, c)
    /\ UNCHANGED <<node, req, boots, unknown>>

-----------------------------------------------------------------------------
Next ==
    \/ \E n \in Nodes :
         \/ \E spec \in [Actors -> Allowances \cup {None}], store \in BOOLEAN : Boot(n, spec, store)
         \/ \E a \in Actors : Seed(n, a)
         \/ Serve(n)
         \/ Crash(n)
         \/ \E a \in Actors, ref \in Refs, c \in TopUps : TopUp(n, a, ref, c)
    \/ \E q \in Requests :
         \/ \E n \in Nodes, a \in Actors, p \in Prices, others, readable \in BOOLEAN :
              Claim(q, n, a, p, others, readable)
         \/ Settle(q)
         \/ Debit(q)
         \/ \E committed \in BOOLEAN : DebitRaises(q, committed)
         \/ Answer(q)

Spec == Init /\ [][Next]_vars

-----------------------------------------------------------------------------
TypeOK ==
    /\ rows \subseteq Row
    /\ node \in [Nodes -> Node]
    /\ req \in [Requests -> Request]
    /\ boots \in 0..MaxBoots
    /\ topups \in 0..MaxTopUps
    /\ unknown \subseteq Requests

(* The row a claim pays with.                                              *)
Charge(q) == NewRow(req[q].actor, "usage", q, -req[q].price)

(* A claim that leaves the debit with the verdict allow, so that its run   *)
(* is created and its session token handed out, has been charged its price *)
(* to its own actor.                                                       *)
AllowedIsPaid ==
    \A q \in Requests : req[q].pc \in {"settled", "answered"} /\ req[q].verdict = "allow"
                          => Charge(q) \in rows

(* Every charge belongs to a claim of that actor at that price, and a      *)
(* claim refused to its client is charged only when the store's answer to  *)
(* the debit was lost: no refund exists, so the debit and the verdict must *)
(* agree in every other case.                                              *)
ChargeExplained ==
    \A r \in rows : r.kind = "usage" =>
      /\ r = Charge(r.ref)
      /\ \/ req[r.ref].pc \in {"settled", "answered"} /\ req[r.ref].verdict = "allow"
         \/ req[r.ref].pc = "dropped"
         \/ r.ref \in unknown

(* The ledger implements a plain prepaid account: re-seeding at every boot *)
(* (also with another allowance), repeated top-ups and racing debits leave *)
(* no trace in the balance beyond one credit per key and one payment that  *)
(* fits per run.                                                           *)
Account == INSTANCE CreditAccount WITH
    Keys     <- {<<"seed", None>>} \cup ({"topup"} \X Refs),
    Amounts  <- Allowances \cup TopUps,
    Charges  <- Requests,
    balance  <- [a \in Actors |-> budget_balance(a)],
    credited <- {<<r.actor, <<r.kind, r.ref>>>> : r \in {s \in rows : s.kind # "usage"}},
    paid     <- {r.ref : r \in {s \in rows : s.kind = "usage"}}

RefinesAccount == Account!AccountSpec
=============================================================================
