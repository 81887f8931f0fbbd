---------------------------- MODULE BudgetProofs ----------------------------
(***************************************************************************)
(* What the budget's verdicts and charges have to do with each other, for  *)
(* any number of actors, nodes and claims.  That argument never looks into *)
(* a balance: whether a debit fits is one opaque answer, and what matters  *)
(* is that the row and the verdict follow the same answer.  The refinement *)
(* of the prepaid account is where the balances are summed up.             *)
(***************************************************************************)
EXTENDS Budget, SumTheorems

(* A debit whose outcome the handler did not learn has ended.              *)
UnknownSettled == \A q \in unknown : req[q].pc \notin {"new", "gated"}

(* Only actors with an allowance wait to be seeded.                        *)
TodoConfigured == \A n \in Nodes : \A a \in node[n].todo : node[n].spec[a] # None

(* A claim that was received has an actor and a price.                     *)
ClaimNamed == \A q \in Requests :
    req[q].pc # "new" => req[q].actor \in Actors /\ req[q].price \in Prices

BudgetInv == /\ TypeOK /\ AllowedIsPaid /\ ChargeExplained
             /\ UnknownSettled /\ TodoConfigured /\ ClaimNamed

-----------------------------------------------------------------------------
(* Rows.                                                                   *)

LEMMA NewRowType ==
    ASSUME NEW a \in Actors
    PROVE  /\ \A c \in Allowances : NewRow(a, "seed", None, c) \in Row
           /\ \A f \in Refs, c \in TopUps : NewRow(a, "topup", f, c) \in Row
           /\ \A q \in Requests, p \in Prices : NewRow(a, "usage", q, -p) \in Row
BY DEF NewRow, Row

(* A post adds at most its own row.                                        *)
LEMMA PostAdds ==
    ASSUME NEW a, NEW kind, NEW ref, NEW delta, budget_post(a, kind, ref, delta)
    PROVE  rows' = rows \/ rows' = rows \cup {NewRow(a, kind, ref, delta)}
BY DEF budget_post

(* The rows of a claim that has not been through its debit: none.          *)
LEMMA NotYetCharged ==
    ASSUME BudgetInv, NEW q \in Requests, req[q].pc \in {"new", "gated"}
    PROVE  \A r \in rows : r.kind = "usage" => r.ref # q
BY DEF BudgetInv, ChargeExplained, UnknownSettled

LEMMA UsageRef ==
    ASSUME TypeOK, NEW r \in rows, r.kind = "usage"
    PROVE  r.ref \in Requests
BY DEF TypeOK, Row

-----------------------------------------------------------------------------
LEMMA BudgetInit == Init => BudgetInv
<1> SUFFICES ASSUME Init PROVE BudgetInv
    OBVIOUS
<1>1. TypeOK
    <2>1. DownNode \in Node
        BY DEF DownNode, Node
    <2>2. NewRequest \in Request
        BY DEF NewRequest, Request
    <2> QED BY <2>1, <2>2, BudgetAssumption DEF Init, TypeOK
<1>2. AllowedIsPaid
    BY DEF Init, AllowedIsPaid, NewRequest
<1>3. ChargeExplained /\ UnknownSettled /\ TodoConfigured /\ ClaimNamed
    BY DEF Init, ChargeExplained, UnknownSettled, TodoConfigured, ClaimNamed, DownNode, NewRequest
<1> QED BY <1>1, <1>2, <1>3 DEF BudgetInv

(* Steps that add a credit and leave every claim where it was.             *)
LEMMA CreditStep ==
    ASSUME BudgetInv, NEW row \in Row, row.kind # "usage",
           rows' = rows \/ rows' = rows \cup {row},
           UNCHANGED <<req, unknown>>
    PROVE  /\ AllowedIsPaid' /\ ChargeExplained' /\ UnknownSettled' /\ ClaimNamed'
           /\ rows' \subseteq Row
<1>1. AllowedIsPaid'
    BY DEF BudgetInv, AllowedIsPaid, Charge, NewRow
<1>2. ChargeExplained'
    BY DEF BudgetInv, ChargeExplained, Charge, NewRow
<1> QED BY <1>1, <1>2 DEF BudgetInv, UnknownSettled, ClaimNamed, TypeOK

(* Steps that change no row and move claims without reaching a verdict     *)
(* that is not paid for.                                                   *)
LEMMA NodeStep ==
    ASSUME BudgetInv, UNCHANGED <<rows, req, unknown>>
    PROVE  AllowedIsPaid' /\ ChargeExplained' /\ UnknownSettled' /\ ClaimNamed'
BY DEF BudgetInv, AllowedIsPaid, ChargeExplained, UnknownSettled, ClaimNamed, Charge, NewRow

LEMMA BootStep ==
    ASSUME BudgetInv, NEW n \in Nodes, NEW spec \in [Actors -> Allowances \cup {None}],
           NEW store \in BOOLEAN, Boot(n, spec, store)
    PROVE  BudgetInv'
<1> DEFINE new == [st |-> IF store THEN "booting" ELSE "up", spec |-> spec,
                   todo |-> IF store THEN {a \in Actors : spec[a] # None} ELSE {},
                   store |-> store]
<1>1. new \in Node /\ \A a \in new.todo : new.spec[a] # None
    BY DEF Node
<1>2. node' = [node EXCEPT ![n] = new]
    BY DEF Boot
<1> HIDE DEF new
<1>3. TypeOK'
    BY <1>1, <1>2, BudgetAssumption DEF BudgetInv, TypeOK, Boot
<1>4. TodoConfigured'
    BY <1>1, <1>2 DEF BudgetInv, TypeOK, TodoConfigured
<1> QED BY <1>3, <1>4, NodeStep DEF Boot, BudgetInv

LEMMA SeedStep ==
    ASSUME BudgetInv, NEW n \in Nodes, NEW a \in Actors, Seed(n, a)
    PROVE  BudgetInv'
<1>1. node[n] \in Node
    BY DEF BudgetInv, TypeOK
<1>2. node[n].spec[a] \in Allowances
    BY <1>1 DEF Node, Seed, BudgetInv, TodoConfigured
<1> DEFINE row == NewRow(a, "seed", None, node[n].spec[a])
<1>3. row \in Row /\ row.kind # "usage"
    BY <1>2, NewRowType DEF NewRow
<1>4. rows' = rows \/ rows' = rows \cup {row}
    BY PostAdds DEF Seed
<1> HIDE DEF row
<1>5. AllowedIsPaid' /\ ChargeExplained' /\ UnknownSettled' /\ ClaimNamed' /\ rows' \subseteq Row
    BY <1>3, <1>4, CreditStep DEF Seed
<1>6. node' \in [Nodes -> Node]
    BY <1>1 DEF Seed, BudgetInv, TypeOK, Node
<1>7. TypeOK'
    BY <1>5, <1>6 DEF Seed, BudgetInv, TypeOK
<1>8. TodoConfigured'
    BY DEF Seed, BudgetInv, TypeOK, TodoConfigured, Node
<1> QED BY <1>5, <1>7, <1>8 DEF BudgetInv

LEMMA ServeStep ==
    ASSUME BudgetInv, NEW n \in Nodes, Serve(n)
    PROVE  BudgetInv'
<1>1. TypeOK'
    <2>1. node \in [Nodes -> Node] /\ node[n] \in Node
        BY DEF BudgetInv, TypeOK
    <2>2. [node[n] EXCEPT !.st = "up", !.todo = {}] \in Node
        BY <2>1 DEF Node
    <2>3. node' = [node EXCEPT ![n] = [node[n] EXCEPT !.st = "up", !.todo = {}]]
        BY DEF Serve
    <2>4. node' \in [Nodes -> Node]
        BY <2>1, <2>2, <2>3
    <2> QED BY <2>4 DEF Serve, BudgetInv, TypeOK
<1>2. TodoConfigured'
    BY DEF Serve, BudgetInv, TypeOK, TodoConfigured, Node
<1> QED BY <1>1, <1>2, NodeStep DEF Serve, BudgetInv

LEMMA TopUpStep ==
    ASSUME BudgetInv, NEW n \in Nodes, NEW a \in Actors, NEW ref \in Refs, NEW c \in TopUps,
           TopUp(n, a, ref, c)
    PROVE  BudgetInv'
<1> DEFINE row == NewRow(a, "topup", ref, c)
<1>1. row \in Row /\ row.kind # "usage"
    BY NewRowType DEF NewRow
<1>2. rows' = rows \/ rows' = rows \cup {row}
    BY PostAdds DEF TopUp
<1> HIDE DEF row
<1>3. AllowedIsPaid' /\ ChargeExplained' /\ UnknownSettled' /\ ClaimNamed' /\ rows' \subseteq Row
    BY <1>1, <1>2, CreditStep DEF TopUp
<1>4. TypeOK'
    BY <1>3, BudgetAssumption DEF TopUp, BudgetInv, TypeOK
<1>5. TodoConfigured'
    BY DEF TopUp, BudgetInv, TodoConfigured
<1> QED BY <1>3, <1>4, <1>5 DEF BudgetInv

(* The handlers that die with a node were on their way to an answer; what  *)
(* they had been charged stays charged.                                    *)
LEMMA CrashStep ==
    ASSUME BudgetInv, NEW n \in Nodes, Crash(n)
    PROVE  BudgetInv'
<1>1. \A q \in Requests : /\ req'[q].actor = req[q].actor /\ req'[q].price = req[q].price
                          /\ req'[q].verdict = req[q].verdict
                          /\ \/ req'[q].pc = req[q].pc
                             \/ req'[q].pc = "dropped" /\ req[q].pc \in {"gated", "settled"}
                          /\ req'[q] \in Request
    BY DEF Crash, BudgetInv, TypeOK, Request
<1>2. TypeOK'
    <2>1. DownNode \in Node
        BY DEF DownNode, Node
    <2>2. req' \in [Requests -> Request]
        BY <1>1 DEF Crash
    <2> QED BY <2>1, <2>2 DEF Crash, BudgetInv, TypeOK
<1>3. AllowedIsPaid'
    BY <1>1 DEF Crash, BudgetInv, AllowedIsPaid, Charge, NewRow
<1>4. ChargeExplained'
    BY <1>1, UsageRef DEF Crash, BudgetInv, ChargeExplained, Charge, NewRow
<1>5. UnknownSettled'
    BY <1>1 DEF Crash, BudgetInv, UnknownSettled, TypeOK
<1>6. TodoConfigured' /\ ClaimNamed'
    BY <1>1 DEF Crash, BudgetInv, TypeOK, TodoConfigured, ClaimNamed, DownNode
<1> QED BY <1>2, <1>3, <1>4, <1>5, <1>6 DEF BudgetInv

-----------------------------------------------------------------------------
(* Steps of a claim.                                                       *)

(* A claim moves and no row changes.                                       *)
LEMMA MoveStep ==
    ASSUME BudgetInv, NEW q \in Requests, NEW new \in Request,
           req' = [req EXCEPT ![q] = new],
           UNCHANGED <<rows, node, boots, topups, unknown>>,
           \/ req[q].pc \in {"new", "gated"}
           \/ req[q].pc = "settled" /\ new = [req[q] EXCEPT !.pc = "answered"],
           new.pc \in {"settled", "answered"} /\ new.verdict = "allow" => req[q].pc = "settled",
           q \in unknown => new.pc \notin {"new", "gated"},
           new.actor \in Actors /\ new.price \in Prices
    PROVE  BudgetInv'
<1>1. TypeOK'
    BY DEF BudgetInv, TypeOK
<1>2. AllowedIsPaid'
    BY DEF BudgetInv, TypeOK, AllowedIsPaid, Charge, NewRow, Request
<1>3. ChargeExplained'
    BY NotYetCharged, UsageRef DEF BudgetInv, TypeOK, ChargeExplained, Charge, NewRow, Request
<1>4. UnknownSettled' /\ TodoConfigured' /\ ClaimNamed'
    BY DEF BudgetInv, TypeOK, UnknownSettled, TodoConfigured, ClaimNamed
<1> QED BY <1>1, <1>2, <1>3, <1>4 DEF BudgetInv

LEMMA ClaimStep ==
    ASSUME BudgetInv, NEW q \in Requests, NEW n \in Nodes, NEW a \in Actors, NEW p \in Prices,
           NEW others \in BOOLEAN, NEW readable \in BOOLEAN, Claim(q, n, a, p, others, readable)
    PROVE  BudgetInv'
<1> DEFINE ok == budget_ok(node[n].spec[a] # None, readable, p, budget_balance(a))
           new == [pc |-> "gated", at |-> n, actor |-> a, price |-> p,
                   verdict |-> IF others /\ ok THEN "allow" ELSE "reject"]
<1>1. new \in Request /\ new.pc = "gated" /\ new.actor \in Actors /\ new.price \in Prices
    BY DEF Request
<1>2. /\ req' = [req EXCEPT ![q] = new] /\ req[q].pc = "new"
      /\ UNCHANGED <<rows, node, boots, topups, unknown>>
    BY DEF Claim
<1>3. q \notin unknown
    BY <1>2 DEF BudgetInv, UnknownSettled
<1> HIDE DEF new
<1> QED BY <1>1, <1>2, <1>3, MoveStep

LEMMA SettleStep ==
    ASSUME BudgetInv, NEW q \in Requests, Settle(q)
    PROVE  BudgetInv'
<1>1. req[q] \in Request
    BY DEF BudgetInv, TypeOK
<1> DEFINE new == [req[q] EXCEPT !.pc = "settled"]
<1>2. /\ new \in Request /\ new.pc = "settled" /\ new.verdict = "reject"
      /\ new.actor \in Actors /\ new.price \in Prices
    BY <1>1 DEF Request, Settle, BudgetInv, ClaimNamed
<1>3. /\ req' = [req EXCEPT ![q] = new] /\ req[q].pc = "gated"
      /\ UNCHANGED <<rows, node, boots, topups, unknown>>
    BY <1>1 DEF Settle, BudgetInv, TypeOK, Request
<1> HIDE DEF new
<1> QED BY <1>2, <1>3, MoveStep

LEMMA AnswerStep ==
    ASSUME BudgetInv, NEW q \in Requests, Answer(q)
    PROVE  BudgetInv'
<1>1. req[q] \in Request
    BY DEF BudgetInv, TypeOK
<1> DEFINE new == [req[q] EXCEPT !.pc = "answered"]
<1>2. /\ new \in Request /\ new.pc = "answered"
      /\ new.actor \in Actors /\ new.price \in Prices
    BY <1>1 DEF Request, Answer, BudgetInv, ClaimNamed
<1>3. /\ req' = [req EXCEPT ![q] = new] /\ req[q].pc = "settled"
      /\ UNCHANGED <<rows, node, boots, topups, unknown>>
    BY <1>1 DEF Answer, BudgetInv, TypeOK, Request
<1> QED BY <1>2, <1>3, MoveStep

(* The debit of a claim ends: the row is there exactly when it fits, and   *)
(* the verdict is allow only then.                                         *)
LEMMA ChargeStep ==
    ASSUME BudgetInv, NEW q \in Requests, NEW ok \in BOOLEAN,
           req[q].pc = "gated",
           req' = Settled(q, ok),
           rows' = rows \/ rows' = rows \cup {Charge(q)},
           ok => Charge(q) \in rows',
           unknown' = unknown \/ unknown' = unknown \cup {q},
           rows' = rows \/ ok \/ q \in unknown',
           UNCHANGED <<node, boots, topups>>,
           Charge(q) \in Row
    PROVE  BudgetInv'
<1>1. req[q] \in Request
    BY DEF BudgetInv, TypeOK
<1> DEFINE v == IF ok THEN "allow" ELSE "reject"
           new == [req[q] EXCEPT !.pc = "settled", !.verdict = v]
<1>2. /\ new \in Request /\ new.pc = "settled" /\ new.verdict = v
      /\ new.actor = req[q].actor /\ new.price = req[q].price
    BY <1>1 DEF Request
<1>3. req' = [req EXCEPT ![q] = new]
    BY <1>1 DEF Settled, BudgetInv, TypeOK, Request
<1>4. v = "allow" <=> ok
    OBVIOUS
<1> HIDE DEF new, v
<1>5. \A x \in Requests \ {q} : req'[x] = req[x]
    BY <1>3 DEF BudgetInv, TypeOK
<1>6. req'[q] = new
    BY <1>3 DEF BudgetInv, TypeOK
<1>7. \A x \in Requests : Charge(x)' = Charge(x)
    BY <1>2, <1>5, <1>6 DEF Charge, NewRow
<1>8. TypeOK'
    BY <1>2, <1>3 DEF BudgetInv, TypeOK
<1>9. AllowedIsPaid'
    BY <1>2, <1>4, <1>5, <1>6, <1>7 DEF BudgetInv, AllowedIsPaid
<1>10. ChargeExplained'
    <2> SUFFICES ASSUME NEW r \in rows', r.kind = "usage"
                 PROVE  /\ r = Charge(r.ref)'
                        /\ \/ req'[r.ref].pc \in {"settled", "answered"} /\ req'[r.ref].verdict = "allow"
                           \/ req'[r.ref].pc = "dropped"
                           \/ r.ref \in unknown'
        BY DEF ChargeExplained
    <2>1. CASE r \in rows
        <3>1. r.ref \in Requests /\ r.ref # q
            BY <2>1, UsageRef, NotYetCharged DEF BudgetInv
        <3> QED BY <2>1, <3>1, <1>5, <1>7 DEF BudgetInv, ChargeExplained
    <2>2. CASE r \notin rows
        <3>1. r = Charge(q) /\ r.ref = q
            BY <2>2 DEF Charge, NewRow
        <3> QED BY <2>2, <3>1, <1>2, <1>4, <1>6, <1>7
    <2> QED BY <2>1, <2>2
<1>11. UnknownSettled' /\ TodoConfigured' /\ ClaimNamed'
    BY <1>2, <1>5, <1>6 DEF BudgetInv, TypeOK, UnknownSettled, TodoConfigured, ClaimNamed
<1> QED BY <1>8, <1>9, <1>10, <1>11 DEF BudgetInv

(* The transaction of a claim that has not been charged yet.               *)
LEMMA DebitRows ==
    ASSUME BudgetInv, NEW q \in Requests, req[q].pc = "gated",
           budget_debit_atomic(req[q].actor, q, req[q].price)
    PROVE  rows' = IF Affordable(req[q].actor, q, req[q].price)
                   THEN rows \cup {Charge(q)} ELSE rows
<1>1. ~Duplicate(req[q].actor, "usage", q)
    BY NotYetCharged DEF Duplicate
<1> QED BY <1>1 DEF budget_debit_atomic, budget_post, Charge

LEMMA ChargeType ==
    ASSUME BudgetInv, NEW q \in Requests, req[q].pc = "gated"
    PROVE  Charge(q) \in Row
BY NewRowType DEF BudgetInv, ClaimNamed, Charge

LEMMA DebitStep ==
    ASSUME BudgetInv, NEW q \in Requests, Debit(q)
    PROVE  BudgetInv'
<1> DEFINE ok == Affordable(req[q].actor, q, req[q].price)
<1>1. /\ req[q].pc = "gated" /\ req' = Settled(q, ok)
      /\ budget_debit_atomic(req[q].actor, q, req[q].price)
      /\ UNCHANGED <<node, boots, topups, unknown>>
    BY DEF Debit
<1>2. rows' = IF ok THEN rows \cup {Charge(q)} ELSE rows
    BY <1>1, DebitRows
<1>3. Charge(q) \in Row
    BY <1>1, ChargeType
<1>4. ok \in BOOLEAN
    BY DEF Affordable, Duplicate
<1> HIDE DEF ok
<1> QED BY <1>1, <1>2, <1>3, <1>4, ChargeStep

LEMMA DebitRaisesStep ==
    ASSUME BudgetInv, NEW q \in Requests, NEW committed \in BOOLEAN, DebitRaises(q, committed)
    PROVE  BudgetInv'
<1>1. req[q].pc = "gated" /\ req' = Settled(q, FALSE) /\ UNCHANGED <<node, boots, topups>>
    BY DEF DebitRaises
<1>2. Charge(q) \in Row
    BY <1>1, ChargeType
<1>3. CASE committed
    <2>1. /\ budget_debit_atomic(req[q].actor, q, req[q].price)
          /\ unknown' = unknown \cup {q}
        BY <1>3 DEF DebitRaises
    <2>2. rows' = rows \/ rows' = rows \cup {Charge(q)}
        BY <1>1, <2>1, DebitRows
    <2> QED BY <1>1, <1>2, <2>1, <2>2, ChargeStep
<1>4. CASE ~committed
    <2>1. rows' = rows /\ unknown' = unknown
        BY <1>4 DEF DebitRaises
    <2> QED BY <1>1, <1>2, <2>1, ChargeStep
<1> QED BY <1>3, <1>4

-----------------------------------------------------------------------------
LEMMA BudgetStep == BudgetInv /\ [Next]_vars => BudgetInv'
<1> SUFFICES ASSUME BudgetInv, [Next]_vars PROVE BudgetInv'
    OBVIOUS
<1>1. CASE UNCHANGED vars
    <2>1. TypeOK' /\ TodoConfigured'
        BY <1>1 DEF vars, BudgetInv, TypeOK, TodoConfigured
    <2> QED BY <1>1, <2>1, NodeStep DEF vars, BudgetInv
<1>2. ASSUME NEW n \in Nodes, NEW spec \in [Actors -> Allowances \cup {None}],
             NEW store \in BOOLEAN, Boot(n, spec, store)
      PROVE  BudgetInv'
    BY <1>2, BootStep
<1>3. ASSUME NEW n \in Nodes, NEW a \in Actors, Seed(n, a) PROVE BudgetInv'
    BY <1>3, SeedStep
<1>4. ASSUME NEW n \in Nodes, Serve(n) PROVE BudgetInv'
    BY <1>4, ServeStep
<1>5. ASSUME NEW n \in Nodes, Crash(n) PROVE BudgetInv'
    BY <1>5, CrashStep
<1>6. ASSUME NEW n \in Nodes, NEW a \in Actors, NEW ref \in Refs, NEW c \in TopUps,
             TopUp(n, a, ref, c)
      PROVE  BudgetInv'
    BY <1>6, TopUpStep
<1>7. ASSUME NEW q \in Requests, NEW n \in Nodes, NEW a \in Actors, NEW p \in Prices,
             NEW others \in BOOLEAN, NEW readable \in BOOLEAN,
             Claim(q, n, a, p, others, readable)
      PROVE  BudgetInv'
    BY <1>7, ClaimStep
<1>8. ASSUME NEW q \in Requests, Settle(q) \/ Answer(q) PROVE BudgetInv'
    BY <1>8, SettleStep, AnswerStep
<1>9. ASSUME NEW q \in Requests, Debit(q) PROVE BudgetInv'
    BY <1>9, DebitStep
<1>10. ASSUME NEW q \in Requests, NEW committed \in BOOLEAN, DebitRaises(q, committed)
       PROVE  BudgetInv'
    BY <1>10, DebitRaisesStep
<1> QED BY <1>1, <1>2, <1>3, <1>4, <1>5, <1>6, <1>7, <1>8, <1>9, <1>10 DEF Next

LEMMA BudgetAlways == Spec => []BudgetInv
BY BudgetInit, BudgetStep, PTL DEF Spec

(* An allowed claim has paid: do_POST hands out a session token only for a *)
(* run whose price is in the ledger, charged to the actor that claimed it. *)
THEOREM AllowedRunsArePaid == Spec => []AllowedIsPaid
<1>1. BudgetInv => AllowedIsPaid
    BY DEF BudgetInv
<1> QED BY <1>1, BudgetAlways, PTL

(* A charge without a run has one of two causes, a crash of the node or an *)
(* answer of the store that was lost; in particular a claim refused for    *)
(* lack of credits is not charged.                                         *)
THEOREM ChargesAreExplained == Spec => []ChargeExplained
<1>1. BudgetInv => ChargeExplained
    BY DEF BudgetInv
<1> QED BY <1>1, BudgetAlways, PTL

-----------------------------------------------------------------------------
(* The table is a prepaid account.  What the account would see of a table  *)
(* rs: the balances, the credits applied and the runs paid for.            *)

Of(rs, a)    == {s \in rs : s.actor = a}
Delta(S)     == [r \in S |-> r.delta]
Balances(rs) == [a \in Actors |-> SumFunctionOnSet(Delta(Of(rs, a)), Of(rs, a))]
Credits(rs)  == {<<r.actor, <<r.kind, r.ref>>>> : r \in {s \in rs : s.kind # "usage"}}
Paid(rs)     == {r.ref : r \in {s \in rs : s.kind = "usage"}}
CreditKeys   == {<<"seed", None>>} \cup ({"topup"} \X Refs)

LEMMA BalanceIsSum ==
    /\ \A a \in Actors : budget_balance(a) = Balances(rows)[a]
    /\ [a \in Actors |-> budget_balance(a)] = Balances(rows)
    /\ [a \in Actors |-> budget_balance(a)]' = Balances(rows')
<1>1. \A a \in Actors : budget_balance(a) = Balances(rows)[a]
    BY DEF budget_balance, Balances, Of, Delta, SumFunction
<1>2. [a \in Actors |-> budget_balance(a)] = Balances(rows)
    BY DEF budget_balance, Balances, Of, Delta, SumFunction
<1>3. [a \in Actors |-> budget_balance(a)]' = Balances(rows')
    BY DEF budget_balance, Balances, Of, Delta, SumFunction
<1> QED BY <1>1, <1>2, <1>3

LEMMA RowFields ==
    ASSUME NEW r \in Row
    PROVE  /\ r.actor \in Actors /\ r.delta \in Int
           /\ r.kind # "usage" => <<r.kind, r.ref>> \in CreditKeys /\ r.delta \in Allowances \cup TopUps
           /\ r.kind = "usage" => r.ref \in Requests
<1>1. Allowances \subseteq Int /\ TopUps \subseteq Int /\ \A p \in Prices : -p \in Int
    BY BudgetAssumption
<1> QED BY <1>1 DEF Row, CreditKeys

LEMMA BalancesAdd ==
    ASSUME NEW rs, IsFiniteSet(rs), rs \subseteq Row, NEW row \in Row, row \notin rs
    PROVE  Balances(rs \cup {row}) = [Balances(rs) EXCEPT ![row.actor] = @ + row.delta]
<1> DEFINE fs == rs \cup {row}
<1>1. row.actor \in Actors /\ \A r \in fs : r.delta \in Int
    BY RowFields
<1>2. ASSUME NEW a \in Actors, a # row.actor PROVE Balances(fs)[a] = Balances(rs)[a]
    <2>1. Of(fs, a) = Of(rs, a)
        BY <1>2 DEF Of
    <2> QED BY <2>1 DEF Balances
<1>3. ASSUME NEW a \in Actors, a = row.actor PROVE Balances(fs)[a] = Balances(rs)[a] + row.delta
    <2> DEFINE S == Of(rs, a)
               R == S \cup {row}
               w == Delta(R)
               v == Delta(S)
    <2>1. Of(fs, a) = R /\ row \notin S
        BY <1>3 DEF Of
    <2>2. IsFiniteSet(S)
        BY FS_Subset DEF Of
    <2>3. IntegersOn(w, R) /\ IntegersOn(w, S) /\ w[row] = row.delta
        BY <1>1 DEF IntegersOn, Delta, Of
    <2>4. \A r \in S : v[r] = w[r]
        BY DEF Delta
    <2>5. Balances(fs)[a] = SumFunctionOnSet(w, R) /\ Balances(rs)[a] = SumFunctionOnSet(v, S)
        BY <2>1 DEF Balances
    <2> HIDE DEF S, w, v
    <2>6. SumFunctionOnSet(w, R) = SumFunctionOnSet(w, S) + w[row]
        BY <2>1, <2>2, <2>3, SumAdd
    <2>7. SumFunctionOnSet(v, S) = SumFunctionOnSet(w, S)
        BY <2>2, <2>3, <2>4, SumSame
    <2> QED BY <2>3, <2>5, <2>6, <2>7
<1>4. DOMAIN Balances(fs) = Actors /\ DOMAIN Balances(rs) = Actors
    BY DEF Balances
<1>5. Balances(fs) = [a \in Actors |-> Balances(fs)[a]] /\ Balances(rs) = [a \in Actors |-> Balances(rs)[a]]
    BY DEF Balances
<1> HIDE DEF fs
<1>6. Balances(fs) = [Balances(rs) EXCEPT ![row.actor] = @ + row.delta]
    BY <1>1, <1>2, <1>3, <1>4, <1>5
<1> QED BY <1>6 DEF fs

LEMMA CreditsAdd ==
    ASSUME NEW rs, NEW row
    PROVE  /\ row.kind # "usage" => /\ Credits(rs \cup {row}) = Credits(rs) \cup {<<row.actor, <<row.kind, row.ref>>>>}
                                    /\ Paid(rs \cup {row}) = Paid(rs)
           /\ row.kind = "usage" => /\ Paid(rs \cup {row}) = Paid(rs) \cup {row.ref}
                                    /\ Credits(rs \cup {row}) = Credits(rs)
BY DEF Credits, Paid

(* A step of the account, from what it sees of one table to the next.      *)
Credited(rs, fs) ==
    \E a \in Actors, k \in CreditKeys, c \in Allowances \cup TopUps :
        /\ <<a, k>> \notin Credits(rs)
        /\ Credits(fs) = Credits(rs) \cup {<<a, k>>}
        /\ Balances(fs) = [Balances(rs) EXCEPT ![a] = @ + c]
        /\ Paid(fs) = Paid(rs)
Debited(rs, fs) ==
    \E a \in Actors, q \in Requests, p \in Prices :
        /\ q \notin Paid(rs)
        /\ p <= Balances(rs)[a]
        /\ Paid(fs) = Paid(rs) \cup {q}
        /\ Balances(fs) = [Balances(rs) EXCEPT ![a] = @ - p]
        /\ Credits(fs) = Credits(rs)

LEMMA PostCredits ==
    ASSUME IsFiniteSet(rows), rows \subseteq Row, NEW a, NEW kind, NEW ref, NEW delta,
           NewRow(a, kind, ref, delta) \in Row, kind # "usage", budget_post(a, kind, ref, delta)
    PROVE  IsFiniteSet(rows') /\ (rows' = rows \/ Credited(rows, rows'))
<1> DEFINE row == NewRow(a, kind, ref, delta)
<1>0. row.actor = a /\ row.kind = kind /\ row.ref = ref /\ row.delta = delta
    BY DEF NewRow
<1>1. CASE Duplicate(a, kind, ref)
    BY <1>1 DEF budget_post
<1>2. CASE ~Duplicate(a, kind, ref)
    <2>1. rows' = rows \cup {row}
        BY <1>2 DEF budget_post
    <2>2. row \notin rows
        BY <1>0, <1>2 DEF Duplicate
    <2>3. <<a, <<kind, ref>>>> \notin Credits(rows)
        BY <1>2 DEF Credits, Duplicate
    <2> HIDE DEF row
    <2>4. IsFiniteSet(rows')
        BY <2>1, FS_AddElement
    <2>5. row \in Row
        BY DEF row
    <2>6. Balances(rows') = [Balances(rows) EXCEPT ![a] = @ + delta]
        BY <1>0, <2>1, <2>2, <2>5, BalancesAdd
    <2>7. Credits(rows') = Credits(rows) \cup {<<a, <<kind, ref>>>>} /\ Paid(rows') = Paid(rows)
        BY <1>0, <2>1, CreditsAdd
    <2>8. a \in Actors /\ <<kind, ref>> \in CreditKeys /\ delta \in Allowances \cup TopUps
        BY <1>0, <2>5, RowFields
    <2>9. Credited(rows, rows')
        BY <2>3, <2>6, <2>7, <2>8 DEF Credited
    <2> QED BY <2>4, <2>9
<1> QED BY <1>1, <1>2

LEMMA DebitPays ==
    ASSUME BudgetInv, IsFiniteSet(rows), NEW q \in Requests, req[q].pc = "gated",
           budget_debit_atomic(req[q].actor, q, req[q].price)
    PROVE  IsFiniteSet(rows') /\ (rows' = rows \/ Debited(rows, rows'))
<1> DEFINE a == req[q].actor
           p == req[q].price
           row == Charge(q)
<1>1. rows' = IF Affordable(a, q, p) THEN rows \cup {row} ELSE rows
    BY DebitRows
<1>2. /\ row.actor = a /\ row.kind = "usage" /\ row.ref = q /\ row.delta = -p
      /\ a \in Actors /\ p \in Prices
    BY DEF Charge, NewRow, BudgetInv, ClaimNamed
<1>3. row \in Row /\ rows \subseteq Row
    BY ChargeType DEF BudgetInv, TypeOK
<1>4. q \notin Paid(rows) /\ row \notin rows /\ ~Duplicate(a, "usage", q)
    BY <1>2, NotYetCharged DEF Paid, Duplicate
<1> HIDE DEF row, a, p
<1>5. CASE Affordable(a, q, p)
    <2>1. rows' = rows \cup {row}
        BY <1>1, <1>5
    <2>2. p <= Balances(rows)[a]
        BY <1>2, <1>4, <1>5, BalanceIsSum DEF Affordable
    <2>3. IsFiniteSet(rows')
        BY <2>1, FS_AddElement
    <2>4. Balances(rows') = [Balances(rows) EXCEPT ![a] = @ + (-p)]
        BY <1>2, <1>3, <1>4, <2>1, BalancesAdd
    <2>5. Balances(rows)[a] + (-p) = Balances(rows)[a] - p
        <3> DEFINE S == Of(rows, a)
                   w == Delta(S)
        <3>1. IsFiniteSet(S) /\ IntegersOn(w, S)
            BY <1>3, RowFields, FS_Subset DEF Of, Delta, IntegersOn
        <3>2. Balances(rows)[a] = SumFunctionOnSet(w, S)
            BY <1>2 DEF Balances
        <3> HIDE DEF S, w
        <3>3. Balances(rows)[a] \in Int
            BY <3>1, <3>2, SumIsInt
        <3>4. p \in Int
            BY <1>2, BudgetAssumption
        <3> QED BY <3>3, <3>4
    <2>6. Balances(rows') = [Balances(rows) EXCEPT ![a] = @ - p]
        BY <2>4, <2>5
    <2>7. Paid(rows') = Paid(rows) \cup {q} /\ Credits(rows') = Credits(rows)
        BY <1>2, <2>1, CreditsAdd
    <2>8. Debited(rows, rows')
        BY <1>2, <1>4, <2>2, <2>6, <2>7 DEF Debited
    <2> QED BY <2>3, <2>8
<1>6. CASE ~Affordable(a, q, p)
    BY <1>1, <1>6
<1> QED BY <1>5, <1>6

(* Every step of the table is one the account could take, or none.         *)
LEMMA TableStep ==
    ASSUME BudgetInv, IsFiniteSet(rows), [Next]_vars
    PROVE  IsFiniteSet(rows') /\ (rows' = rows \/ Credited(rows, rows') \/ Debited(rows, rows'))
<1>1. rows \subseteq Row
    BY DEF BudgetInv, TypeOK
<1>2. CASE UNCHANGED vars
    BY <1>2 DEF vars
<1>3. ASSUME NEW n \in Nodes, NEW spec, NEW store, Boot(n, spec, store) PROVE rows' = rows
    BY <1>3 DEF Boot
<1>4. ASSUME NEW n \in Nodes, NEW a \in Actors, Seed(n, a)
      PROVE  IsFiniteSet(rows') /\ (rows' = rows \/ Credited(rows, rows'))
    <2>1. node[n] \in Node
        BY DEF BudgetInv, TypeOK
    <2>2. node[n].spec[a] \in Allowances
        BY <1>4, <2>1 DEF Node, Seed, BudgetInv, TodoConfigured
    <2>3. NewRow(a, "seed", None, node[n].spec[a]) \in Row
        BY <2>2, NewRowType
    <2> QED BY <1>1, <1>4, <2>3, PostCredits DEF Seed
<1>5. ASSUME NEW n \in Nodes, Serve(n) \/ Crash(n) PROVE rows' = rows
    BY <1>5 DEF Serve, Crash
<1>6. ASSUME NEW n \in Nodes, NEW a \in Actors, NEW ref \in Refs, NEW c \in TopUps, TopUp(n, a, ref, c)
      PROVE  IsFiniteSet(rows') /\ (rows' = rows \/ Credited(rows, rows'))
    <2>1. NewRow(a, "topup", ref, c) \in Row
        BY NewRowType
    <2> QED BY <1>1, <1>6, <2>1, PostCredits DEF TopUp
<1>7. ASSUME NEW q \in Requests, NEW n, NEW a, NEW p, NEW others, NEW readable, Claim(q, n, a, p, others, readable)
      PROVE  rows' = rows
    BY <1>7 DEF Claim
<1>8. ASSUME NEW q \in Requests, Settle(q) \/ Answer(q) PROVE rows' = rows
    BY <1>8 DEF Settle, Answer
<1>9. ASSUME NEW q \in Requests, Debit(q)
      PROVE  IsFiniteSet(rows') /\ (rows' = rows \/ Debited(rows, rows'))
    BY <1>9, DebitPays DEF Debit
<1>10. ASSUME NEW q \in Requests, NEW committed \in BOOLEAN, DebitRaises(q, committed)
       PROVE  IsFiniteSet(rows') /\ (rows' = rows \/ Debited(rows, rows'))
    <2>1. CASE committed
        BY <1>10, <2>1, DebitPays DEF DebitRaises
    <2>2. CASE ~committed
        BY <1>10, <2>2 DEF DebitRaises
    <2> QED BY <2>1, <2>2
<1> QED BY <1>2, <1>3, <1>4, <1>5, <1>6, <1>7, <1>8, <1>9, <1>10 DEF Next

LEMMA AccountStarts == Init => Account!AccountInit
<1> SUFFICES ASSUME Init PROVE Account!AccountInit
    OBVIOUS
<1>1. rows = {}
    BY DEF Init
<1>2. Balances(rows) = [a \in Actors |-> 0]
    <2>1. \A a \in Actors : Of(rows, a) = {}
        BY <1>1 DEF Of
    <2>2. \A a \in Actors : SumFunctionOnSet(Delta(Of(rows, a)), Of(rows, a)) = 0
        BY <2>1, SumNone
    <2> QED BY <2>2 DEF Balances
<1> QED BY <1>1, <1>2, BalanceIsSum DEF Account!AccountInit

LEMMA AccountStep ==
    BudgetInv /\ IsFiniteSet(rows) /\ [Next]_vars => [Account!AccountNext]_(Account!accountVars)
<1> SUFFICES ASSUME BudgetInv, IsFiniteSet(rows), [Next]_vars
             PROVE  [Account!AccountNext]_(Account!accountVars)
    OBVIOUS
<1>1. rows' = rows \/ Credited(rows, rows') \/ Debited(rows, rows')
    BY TableStep
<1>2. CASE rows' = rows
    BY <1>2 DEF Account!accountVars, budget_balance
<1>3. CASE Credited(rows, rows')
    <2>1. Account!AccountNext
        BY <1>3, BalanceIsSum DEF Credited, Account!AccountNext, Account!Credit, Credits, Paid, CreditKeys
    <2> QED BY <2>1
<1>4. CASE Debited(rows, rows')
    <2>1. Account!AccountNext
        BY <1>4, BalanceIsSum DEF Debited, Account!AccountNext, Account!Pay, Credits, Paid
    <2> QED BY <2>1
<1> QED BY <1>1, <1>2, <1>3, <1>4

(* budget_post and budget_debit_atomic implement a prepaid account: boots  *)
(* that seed again, repeated top-ups and debits that race on any number of *)
(* nodes change a balance by one credit per key and one payment per run,   *)
(* each out of what is there.                                              *)
THEOREM TableIsAnAccount == Spec => RefinesAccount
<1>1. Init => IsFiniteSet(rows)
    BY FS_EmptySet DEF Init
<1>2. BudgetInv /\ IsFiniteSet(rows) /\ [Next]_vars => IsFiniteSet(rows)'
    BY TableStep
<1> QED BY <1>1, <1>2, BudgetAlways, AccountStarts, AccountStep, PTL DEF Spec, RefinesAccount, Account!AccountSpec
=============================================================================
