----------------------------- MODULE Settlement -----------------------------
(***************************************************************************)
(* The paid run: a signed quote is funded into its own escrow account,     *)
(* settled against a dual-signed receipt (or, for an llm step, against its *)
(* output contract), or refunded by the expiry sweep; part of the payout   *)
(* is held back, and a bonded dispute decided by m of n arbiters can claw  *)
(* it back.  Every function of the code reads the whole chain and appends  *)
(* at most one record, so each is one action; callers, retries and clock   *)
(* interleave them in any order.                                           *)
(***************************************************************************)
EXTENDS RewardLedger

CONSTANTS
    Quotes,       \* quote content ids (quote_sha)
    Amount,       \* quote -> quoted amount in units
    Policy,       \* quote -> [accounts, weights], the signed split policy
    Funders,      \* parties that fund a quote or post a bond
    Bond,         \* the bond a disputer posts
    Roster,       \* registered arbiters: id -> credential key
    ApprovalLists,\* approval lists callers present: sequences of [arb, key, doc]
    Outcomes,     \* outcomes a resolution document may carry
    MaxTime,      \* bound: the clock the sweep is given
    MaxRecords,   \* bound: records on the chain
    MaxReceipts   \* bound: receipts finalized

ASSUME SettlementAssumption ==
    /\ Amount \in [Quotes -> Nat \ {0}] /\ Bond \in Nat \ {0}
    /\ \A q \in Quotes : /\ Policy[q].accounts \in Seq(STRING \X STRING) /\ Policy[q].weights \in Seq(Nat)
                         /\ SumFunction(Policy[q].weights) > 0
    /\ ApprovalLists \subseteq Seq([arb : STRING, key : STRING, doc : Outcomes])
    /\ MaxTime \in Nat /\ MaxRecords \in Nat /\ MaxReceipts \in Nat

VARIABLES
    granted,     \* plans whose priced run a funded quote admitted
    receipts,    \* run receipts finalized so far
    now,         \* the time handed to sweep_expired
    reputation,  \* party -> reputation delta so far
    verdicts     \* history: the approvals each resolution was applied with

svars == <<entries, granted, receipts, now, reputation, verdicts>>

USD == "USD"
Payee == <<"payee", "">>
Fee   == <<"fee", "">>
Hold(q) == <<"hold", q>>
BondAccount(q) == <<"dispute-bond", q>>

-----------------------------------------------------------------------------
(* quote.py                                                                *)

compute_quote(q) ==
    LET parts == split(Amount[q], Policy[q].weights)
    IN  [i \in DOMAIN parts \cap DOMAIN Policy[q].accounts |-> _posting(Policy[q].accounts[i], parts[i], USD)]

breakdown_balances(q) == SumUnits(compute_quote(q)) = Amount[q]

(* An envelope presents a quote under a signature; only govd's verifies.   *)
Envelopes == [quote : Quotes, signer : {"govd", "other"}]
verify_quote(env) == env.signer = "govd" /\ breakdown_balances(env.quote)

(* Mutant: a funding record is taken for a funded escrow.                  *)
is_funded_by_record(es, q) == Posted(es, <<"fund-quote", q>>)

is_funded(es, q) == Balance(es, escrow_for(q), USD) >= Amount[q]

(* The gate of a priced perk.  A plan is named by the quote made for it.   *)
grant_admits(env, es, plan) ==
    /\ verify_quote(env)
    /\ env.quote = plan
    /\ is_funded(es, env.quote)

Grant(env, plan) ==
    /\ plan \notin granted
    /\ grant_admits(env, entries, plan)
    /\ granted' = granted \cup {plan}
    /\ UNCHANGED <<entries, receipts, now, reputation, verdicts>>

Room == Len(entries) < MaxRecords

fund_quote(q, f) ==
    /\ Room
    /\ entries' = fund_escrow(entries, <<"party", f>>, Amount[q], USD, escrow_for(q), <<"fund-quote", q>>)
    /\ UNCHANGED <<granted, receipts, now, reputation, verdicts>>

-----------------------------------------------------------------------------
(* receipts.py and engine.py                                               *)

(* A statement bound to the quote and its verdict, and who signed it.      *)
Receipt == [quote : Quotes, validation : {"pass", "fail"}, sigs : SUBSET {"executor", "approver"}]

build_receipt(r) ==
    /\ Cardinality(receipts) < MaxReceipts /\ r \notin receipts
    /\ r.quote \in granted
    /\ receipts' = receipts \cup {r}
    /\ UNCHANGED <<granted, entries, now, reputation, verdicts>>

verify_receipt(r) == r.sigs = {"executor", "approver"}

(* Mutant: the spent-quote guard is keyed on something a retry changes.    *)
_already_settled_never(es, q) == FALSE

_already_settled(es, q) == Posted(es, <<"settle", q>>)

settle_refusal(es, r, env) ==
    CASE ~verify_receipt(r)                 -> "not_dual_signed"
      [] r.validation # "pass"              -> "validation_not_pass"
      [] ~verify_quote(env)                 -> "quote_invalid"
      [] r.quote # env.quote                -> "quote_unbound"
      [] _already_settled(es, env.quote)    -> "quote_already_settled"
      [] ~is_funded(es, env.quote)          -> "quote_unfunded"
      [] OTHER                              -> "ok"

(* Only the breakdown's fee and payee lines are paid: a policy with a      *)
(* third account does not balance, so `post` refuses it.                   *)
SettlePostings(q) ==
    LET line(a) == OnAccount(compute_quote(q), a, USD)
        kept    == split(line(Payee), <<10, 90>>)
    IN  <<_posting(escrow_for(q), -Amount[q], USD), _posting(Fee, line(Fee), USD),
          _posting(Payee, kept[2], USD), _posting(Hold(q), kept[1], USD)>>

settle(r, env) ==
    /\ Room
    /\ settle_refusal(entries, r, env) = "ok"
    /\ entries' = post(entries, SettlePostings(env.quote), <<"settle", env.quote>>)
    /\ UNCHANGED <<granted, receipts, now, reputation, verdicts>>

(* No window and no open dispute is looked at; a hold of zero posts too.   *)
release_holdback(q) ==
    /\ Room
    /\ LET held == Balance(entries, Hold(q), USD)
       IN  entries' = post(entries, <<_posting(Hold(q), -held, USD), _posting(Payee, held, USD)>>,
                           <<"release-hold", q>>)
    /\ UNCHANGED <<granted, receipts, now, reputation, verdicts>>

-----------------------------------------------------------------------------
(* intelligence.py: the schema-validation payment gate of an llm step.     *)

Legs(q) == split(Amount[q], <<2, 2, 1>>)     \* passthrough, work, fee

settle_intelligence(q, f, pass, refund) ==
    LET leg    == Legs(q)
        esc    == escrow_for(q)
        funded == Balance(entries, esc, USD)
        back   == split(leg[2], refund)      \* refund, penalty
        party  == <<"party", f>>
        paid   == IF pass THEN <<_posting(Payee, leg[2], USD)>>
                  ELSE If(back[2] > 0, _posting(Fee, back[2], USD)) \o If(back[1] > 0, _posting(party, back[1], USD))
        change == If(funded > Amount[q], _posting(party, funded - Amount[q], USD))
    IN  /\ Room
        /\ ~Posted(entries, <<"intel", q>>)
        /\ funded >= Amount[q]
        /\ entries' = post(entries, <<_posting(esc, -funded, USD), _posting(<<"provider", "">>, leg[1], USD),
                                      _posting(Fee, leg[3], USD)>> \o paid \o change, <<"intel", q>>)
        /\ UNCHANGED <<granted, receipts, now, reputation, verdicts>>

-----------------------------------------------------------------------------
(* escrow_expiry.py                                                        *)

fund_with_expiry(q, f, exp) ==
    /\ Room
    /\ entries' = fund_escrow(entries, <<"party", f>>, Amount[q], USD, escrow_for(q),
                              <<"escrow-fund", q, exp, f>>)
    /\ UNCHANGED <<granted, receipts, now, reputation, verdicts>>

(* {key: (expires_at, funder)}: the last funding of a key wins.            *)
_fundings(es) ==
    LET funds(q) == {i \in DOMAIN es : es[i].memo[1] = "escrow-fund" /\ es[i].memo[2] = q}
    IN  [q \in {q \in Quotes : funds(q) # {}} |->
            LET m == es[Max(funds(q))].memo IN [exp |-> m[3], funder |-> m[4]]]

_settled_or_refunded(es) == {q \in Quotes : Posted(es, <<"settle", q>>) \/ Posted(es, <<"escrow-refund", q>>)}

(* The keys one sweep refunds, and the record it posts for a key.          *)
Expired(es, t) ==
    {q \in DOMAIN _fundings(es) \ _settled_or_refunded(es) :
        _fundings(es)[q].exp <= t /\ Balance(es, escrow_for(q), USD) # 0}

(* Mutant: the quoted amount is refunded, whatever the escrow holds.       *)
Refund_quoted(es, q) ==
    [memo |-> <<"escrow-refund", q>>,
     postings |-> <<_posting(escrow_for(q), -Amount[q], USD),
                    _posting(<<"party", _fundings(es)[q].funder>>, Amount[q], USD)>>]

Refund(es, q) ==
    LET held == Balance(es, escrow_for(q), USD)
    IN  [memo |-> <<"escrow-refund", q>>,
         postings |-> <<_posting(escrow_for(q), -held, USD),
                        _posting(<<"party", _fundings(es)[q].funder>>, held, USD)>>]

sweep_expired ==
    LET due == SetToSeq(Expired(entries, now))
    IN  /\ due # << >> /\ Len(entries) + Len(due) <= MaxRecords
        /\ entries' = entries \o [i \in DOMAIN due |-> Refund(entries, due[i])]
        /\ UNCHANGED <<granted, receipts, now, reputation, verdicts>>

stale_escrow_keys(es, t) ==
    {q \in DOMAIN _fundings(es) \ _settled_or_refunded(es) :
        t >= _fundings(es)[q].exp /\ Balance(es, escrow_for(q), USD) # 0}

Tick == now < MaxTime /\ now' = now + 1 /\ UNCHANGED <<granted, entries, receipts, reputation, verdicts>>

-----------------------------------------------------------------------------
(* disputes.py                                                             *)

open_dispute(q, f) ==
    /\ Room
    /\ entries' = post(entries, <<_posting(<<"party", f>>, -Bond, USD), _posting(BondAccount(q), Bond, USD)>>,
                       <<"dispute-open", q>>)
    /\ UNCHANGED <<granted, receipts, now, reputation, verdicts>>

(* Mutant: votes are deduplicated by arbiter id only.                      *)
count_approvals_by_id(doc, approvals) ==
    Cardinality({approvals[i].arb : i \in {j \in DOMAIN approvals :
        approvals[j].arb \in DOMAIN Roster /\ approvals[j].key = Roster[approvals[j].arb]
        /\ approvals[j].doc = doc}})

(* An approval verifies when the arbiter's REGISTERED key signed this very *)
(* document; an id and a key count once, in list order.                    *)
count_approvals(doc, approvals) ==
    LET count(seen, a) ==
            IF a.arb \in DOMAIN Roster /\ a.arb \notin seen.ids /\ Roster[a.arb] \notin seen.keys
               /\ a.key = Roster[a.arb] /\ a.doc = doc
            THEN [ids |-> seen.ids \cup {a.arb}, keys |-> seen.keys \cup {Roster[a.arb]}]
            ELSE seen
    IN  Cardinality(FoldLeft(count, [ids |-> {}, keys |-> {}], approvals).ids)

ResolvePostings(es, outcome, q, f) ==
    LET bond == Balance(es, BondAccount(q), USD)
        held == Balance(es, Hold(q), USD)
    IN  IF outcome = "upheld"
        THEN <<_posting(Hold(q), -held, USD), _posting(<<"party", f>>, held, USD),
               _posting(BondAccount(q), -bond, USD), _posting(<<"party", f>>, bond, USD)>>
        ELSE <<_posting(BondAccount(q), -bond, USD), _posting(Payee, bond, USD)>>

resolve(doc, approvals, m, q, f) ==
    /\ Room
    /\ m >= 2 /\ count_approvals(doc, approvals) >= m
    /\ doc \in {"upheld", "rejected"}
    /\ entries' = post(entries, ResolvePostings(entries, doc, q, f), <<"dispute-resolve", doc, q>>)
    /\ LET loser == IF doc = "upheld" THEN Payee ELSE <<"party", f>>
       IN  reputation' = [reputation EXCEPT ![loser] = @ - 1]
    /\ verdicts' = verdicts \cup {[quote |-> q, doc |-> doc, approvals |-> approvals]}
    /\ UNCHANGED <<granted, receipts, now>>

-----------------------------------------------------------------------------
(* reward_verify.py: the money trail against the work trail.               *)

settlements(es) == {i \in DOMAIN es : es[i].memo[1] = "settle"}
settled_quote_shas(es) == {es[i].memo[2] : i \in settlements(es)}
authorized_quote_shas(rs) ==
    {r.quote : r \in {r \in rs : verify_receipt(r) /\ r.validation = "pass" /\ breakdown_balances(r.quote)}}

reward_verify(es, rs) ==
    LET money == settled_quote_shas(es)
        work  == authorized_quote_shas(rs)
    IN  [per_record_zero    |-> \A i \in DOMAIN es : is_balanced(es[i].postings),
         global_zero        |-> global_zero(es),
         money_without_work |-> money \ work,
         work_without_money |-> work \ money,
         double_settled     |-> {q \in money : Cardinality({i \in settlements(es) : es[i].memo[2] = q}) > 1}]

-----------------------------------------------------------------------------
SettlementInit ==
    /\ entries = open_ledger /\ granted = {} /\ receipts = {} /\ now = 0
    /\ reputation = [p \in {Payee} \cup {<<"party", f>> : f \in Funders} |-> 0]
    /\ verdicts = {}

SettlementNext ==
    \/ \E q \in Quotes, f \in Funders :
          \/ fund_quote(q, f)
          \/ \E exp \in 1..MaxTime : fund_with_expiry(q, f, exp)
          \/ \E pass \in BOOLEAN, refund \in {<<100, 0>>, <<50, 50>>} : settle_intelligence(q, f, pass, refund)
          \/ open_dispute(q, f)
          \/ \E doc \in Outcomes, as \in ApprovalLists, m \in 1..2 : resolve(doc, as, m, q, f)
    \/ \E env \in Envelopes, plan \in Quotes : Grant(env, plan)
    \/ \E r \in Receipt : build_receipt(r)
    \/ \E r \in receipts, env \in Envelopes : settle(r, env)
    \/ \E q \in Quotes : release_holdback(q)
    \/ sweep_expired
    \/ Tick
=============================================================================
