---------------------------- MODULE RewardLedger ----------------------------
(***************************************************************************)
(* Exact money and the double-entry reward ledger every settlement path    *)
(* posts to.  Amounts are integers counting scale-4 units (0.0001), so the *)
(* decimal type is exact by construction and only its ROUNDINGS are        *)
(* modelled.  An account is a pair <<kind, owner>>; a posting moves units  *)
(* of one currency on one account; a record is a memo and its postings.    *)
(* The prev-hash chain under the records is module Chain's subject.        *)
(***************************************************************************)
EXTENDS Integers, SequencesExt

VARIABLE entries     \* the reward chain: records [memo, postings], oldest first

(* CTX and Decimal.quantize: n/d to the nearest integer, ties to even.     *)
RoundHalfEven(n, d) ==
    LET f == n \div d
        r == 2 * (n % d)
    IN  IF r < d \/ (r = d /\ f % 2 = 0) THEN f ELSE f + 1

(* The shares of `units` by `weights`, largest remainder first: each share *)
(* is floored, and the leftover units go to the largest truncated parts,   *)
(* the lower index first among equals.                                     *)
split(units, weights) ==
    LET tw       == SumFunction(weights)
        I        == DOMAIN weights
        floor(i) == (units * weights[i]) \div tw
        part(i)  == (units * weights[i]) % tw
        left     == units - SumFunction([i \in I |-> floor(i)])
        ahead(i) == {j \in I : part(j) > part(i) \/ (part(j) = part(i) /\ j < i)}
    IN  [i \in I |-> floor(i) + (IF Cardinality(ahead(i)) < left THEN 1 ELSE 0)]

_posting(account, units, cur) == [account |-> account, units |-> units, cur |-> cur]

SumUnits(ps) == SumFunction([i \in DOMAIN ps |-> ps[i].units])

(* What a posting set moves in one currency, and on one account of it.     *)
InCurrency(ps, cur) == SumFunction([i \in DOMAIN ps |-> IF ps[i].cur = cur THEN ps[i].units ELSE 0])
Moves(p, acct, cur) == IF p.account = acct /\ p.cur = cur THEN p.units ELSE 0
OnAccount(ps, acct, cur) == SumFunction([i \in DOMAIN ps |-> Moves(ps[i], acct, cur)])

(* Signed amounts sum to zero in every currency the set touches.           *)
is_balanced(ps) == \A c \in {p.cur : p \in ToSet(ps)} : InCurrency(ps, c) = 0

open_ledger == << >>

(* The chain after `post`: the record is appended, or -- the postings do   *)
(* not balance -- ValueError is raised and nothing is written.             *)
post(es, ps, memo) ==
    IF is_balanced(ps) THEN Append(es, [memo |-> memo, postings |-> ps]) ELSE es

(* Some postings are left out of a set when they would move nothing.       *)
If(cond, posting) == IF cond THEN <<posting>> ELSE << >>

escrow_for(key) == <<"escrow", key>>

fund_escrow(es, funder, units, cur, acct, memo) ==
    post(es, <<_posting(funder, -units, cur), _posting(acct, units, cur)>>, memo)

(* The escrowed amount to the payee and the fee account, by weights.       *)
release(es, payee, fee, units, cur, weights, acct, memo) ==
    LET parts == split(units, weights)
    IN  post(es, <<_posting(acct, -units, cur), _posting(fee, parts[1], cur),
                   _posting(payee, parts[2], cur)>>, memo)

Touched(ps) == {<<p.account, p.cur>> : p \in ToSet(ps)}

(* balances(entries).get((acct, cur), zero)                                *)
Balance(es, acct, cur) == SumFunction([i \in DOMAIN es |-> OnAccount(es[i].postings, acct, cur)])

(* The fold of the whole chain, account by account.                        *)
balances(es) ==
    [k \in UNION {Touched(es[i].postings) : i \in DOMAIN es} |-> Balance(es, k[1], k[2])]

(* The balances of every currency sum to zero.                             *)
Conserved(bal) ==
    \A c \in {k[2] : k \in DOMAIN bal} : SumFunctionOnSet(bal, {k \in DOMAIN bal : k[2] = c}) = 0

global_zero(es) == Conserved(balances(es))

(* Idempotency everywhere is a search for a record with the same memo.     *)
Posted(es, memo) == \E i \in DOMAIN es : es[i].memo = memo
=============================================================================
