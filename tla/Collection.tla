----------------------------- MODULE Collection -----------------------------
(***************************************************************************)
(* What else posts to the reward chain: tax collection over the pluggable  *)
(* rails, prepaid credits, the settlement adapters, the cent boundary and  *)
(* its dust, metered reimbursement, bounties and royalties, and the group- *)
(* commit writer, whose `stage` takes no lock while `commit` holds one.    *)
(* The payment provider is external: it honours idempotency keys, and a    *)
(* call may be lost before or after it took effect.                        *)
(***************************************************************************)
EXTENDS Pricing

CONSTANTS
    Keys,          \* idempotency keys (plan shas, event ids)
    Charges,       \* itemised charges the pricer produces
    TopUpUnits,    \* credits bought by one top-up
    Units,         \* amounts an adapter or the cent boundary moves
    Meters,        \* exod-attested token meters
    ProviderBills, \* provider receipts, or None
    Rates,         \* [rate, floor, cap]
    Fields,        \* competitor lists of a bounty
    StagedSets,    \* posting sets callers stage
    MaxEntries,    \* bound: records on the chain
    MaxStaged      \* bound: posting sets staged in all

(* What the pricer, the meters and the callers of `stage` hand in: exact   *)
(* amounts, itemised as charge_from_price does; nothing stages a posting   *)
(* on an account that the settlement functions draw from.                  *)
ASSUME CollectionAssumption ==
    /\ TopUpUnits \in Nat /\ Units \subseteq Int /\ MaxEntries \in Nat /\ MaxStaged \in Nat
    /\ \A c \in Charges :
          /\ c.total \in Int /\ DOMAIN c.breakdown = 1..3
          /\ \A i \in 1..3 : c.breakdown[i].units \in Int
          /\ c = charge_from_price([total |-> c.total, llm |-> c.breakdown[1].units,
                                    tool_fee |-> c.breakdown[2].units, marketplace_fee |-> c.breakdown[3].units])
    /\ \A m \in Meters : m.in \in Int /\ m.out \in Int
    /\ \A b \in ProviderBills : b = None \/ b.cost = None \/ b.cost \in Int
    /\ \A r \in Rates : {r.rate.in_per_1k, r.rate.out_per_1k, r.floor, r.cap} \subseteq Int
    /\ StagedSets \subseteq Seq([account : {"party"} \X STRING, units : Int, cur : STRING])

VARIABLES
    psp,       \* provider: <<op, key>> -> cents it moved, at most once per key
    told,      \* idempotency keys whose caller was told it is charged
    seen,      \* the live adapter's _seen set, or None: no adapter yet
    writer     \* the group-commit writer

cvars == <<psp, told, seen, writer>>
USDollar == "USD"
Space(n) == Len(entries) + n <= MaxEntries

-----------------------------------------------------------------------------
(* rails.py and credits.py                                                 *)

SplitPostings(payer, charge) == <<_posting(payer, -charge.total, USDollar)>> \o charge.breakdown

(* LedgerRail.collect                                                      *)
collect_ledger(charge, k) ==
    /\ Space(1)
    /\ split_balances(charge) /\ ~Posted(entries, <<"tax", k>>)
    /\ entries' = post(entries, SplitPostings(<<"operator", "">>, charge), <<"tax", k>>)
    /\ UNCHANGED cvars

Credit == <<"credit", "operator">>
CreditBalance(es) == Balance(es, Credit, USDollar)

(* Without a reference the source names the memo and nothing is deduped.   *)
topup(units, ref) ==
    /\ Space(1)
    /\ ref = None \/ ~Posted(entries, <<"topup", ref>>)
    /\ entries' = post(entries, <<_posting(Credit, units, USDollar), _posting(<<"topup", "stripe">>, -units, USDollar)>>,
                       <<"topup", IF ref = None THEN "stripe" ELSE ref>>)
    /\ UNCHANGED cvars

admits(es, total) == CreditBalance(es) >= total

(* CreditRail.collect                                                      *)
debit_usage(charge, k) ==
    /\ Space(1)
    /\ split_balances(charge) /\ ~Posted(entries, <<"usage", k>>)
    /\ admits(entries, charge.total)
    /\ entries' = post(entries, SplitPostings(Credit, charge), <<"usage", k>>)
    /\ UNCHANGED cvars

(* One call to the provider: it moves `cents` unless the key was used, and *)
(* the answer may be lost either way.                                      *)
ProviderCall(op, k, cents, answered) ==
    /\ cents > 0
    /\ psp' = IF <<op, k>> \in DOMAIN psp THEN psp ELSE psp @@ (<<op, k>> :> cents)
    /\ told' = IF answered THEN told \cup {k} ELSE told

(* StripeRail._charge; below a cent no call is made.                       *)
collect_stripe(charge, k, answered) ==
    /\ split_balances(charge)
    /\ ProviderCall("charge", k, usd_to_minor(charge.total), answered)
    /\ UNCHANGED <<entries, seen, writer>>

-----------------------------------------------------------------------------
(* adapter.py                                                              *)

(* Mutant: a restarted adapter starts with an empty dedup set.             *)
OpenAdapter_forgets == seen' = {} /\ UNCHANGED <<entries, psp, told, writer>>

(* A new adapter (a restart) learns what was posted from the chain.        *)
OpenAdapter ==
    /\ seen' = {entries[i].memo : i \in DOMAIN entries}
    /\ UNCHANGED <<entries, psp, told, writer>>

_post(memo, ps) ==
    /\ Space(1) /\ seen # None /\ memo \notin seen
    /\ entries' = post(entries, ps, memo)
    /\ seen' = seen \cup {memo}
    /\ UNCHANGED <<psp, told, writer>>

fund(k, units) ==
    _post(<<"adapter-fund", k>>, <<_posting(<<"party", "p">>, units, USDollar), _posting(<<"fund", "external">>, -units, USDollar)>>)
payout(k, units) ==
    _post(<<"adapter-payout", k>>, <<_posting(<<"party", "p">>, units, USDollar), _posting(<<"payout", "external">>, -units, USDollar)>>)

(* StripeAdapter: whole cents by banker's rounding, not by truncation.     *)
stripe_move(op, k, units, answered) ==
    /\ ProviderCall(op, k, RoundHalfEven(units, 100), answered)
    /\ UNCHANGED <<entries, seen, writer>>

-----------------------------------------------------------------------------
(* dust.py                                                                 *)
Dust == <<"dust", "adapter">>

boundary_posting(units) ==
    LET b == split_cents(units)
    IN  <<_posting(<<"party", "p">>, -units, USDollar), _posting(<<"party", "d">>, b.cents, USDollar)>>
        \o If(b.dust # 0, _posting(Dust, b.dust, USDollar))

settle_at_boundary(units) ==
    Space(1) /\ entries' = post(entries, boundary_posting(units), <<"boundary">>) /\ UNCHANGED cvars

sweep_dust ==
    LET bal == Balance(entries, Dust, USDollar)
    IN  /\ Space(1) /\ bal # 0
        /\ entries' = post(entries, <<_posting(Dust, -bal, USDollar), _posting(<<"treasury", "">>, bal, USDollar)>>, <<"dust-sweep">>)
        /\ UNCHANGED cvars

-----------------------------------------------------------------------------
(* metered.py, markets.py, selfbounty.py, royalties.py                     *)

(* reimbursement_posting of what `settleable` allows.                      *)
reimburse(meter, bill, r) ==
    LET v == settleable(meter, bill, r.rate, r.floor, r.cap, <<5, 100>>, <<10, 100>>)
    IN  /\ Space(1) /\ v.settleable
        /\ entries' = post(entries, <<_posting(<<"party", "p">>, -v.units, USDollar), _posting(<<"provider", "">>, v.units, USDollar)>>,
                           <<"reimburse", meter, bill>>)
        /\ UNCHANGED cvars

(* Funded and awarded (or refunded) in one call: two records.              *)
award_bounty(id, prize, competitors, select) ==
    LET acct   == <<"bounty", id>>
        winner == BountyWinner(competitors, select)
        to     == IF winner = None THEN <<"party", "p">> ELSE <<"payee", winner>>
        funded == fund_escrow(entries, <<"party", "p">>, prize, USDollar, acct, <<"fund-bounty", id>>)
    IN  /\ Space(2)
        /\ entries' = post(funded, <<_posting(acct, -prize, USDollar), _posting(to, prize, USDollar)>>, <<"award-bounty", id>>)
        /\ UNCHANGED cvars

publish_with_royalty(revenue, admit) ==
    LET parts == split(revenue, <<15, 85>>)
    IN  /\ Space(1) /\ admit
        /\ entries' = post(entries, <<_posting(<<"publish-revenue", "">>, -revenue, USDollar),
                                      _posting(<<"alchemy", "lineage">>, parts[1], USDollar),
                                      _posting(<<"party", "p">>, parts[2], USDollar)>>, <<"lineage-royalty">>)
        /\ UNCHANGED cvars

-----------------------------------------------------------------------------
(* throughput.py: the group-commit writer of one currency.                 *)

(* staged: the list `_staged` and a running commit's `batch` both name;    *)
(* at: the next position of its append loop; bal: the running balances;    *)
(* nstaged, raised: history, for the bound and the properties.             *)
NewWriter(es) == [pc |-> "idle", staged |-> << >>, at |-> 0, bal |-> balances(es), committed |-> 0, nstaged |-> 0,
                  raised |-> 0]

stage(ps) ==
    /\ writer.nstaged < MaxStaged
    /\ writer' = [writer EXCEPT !.staged = Append(@, ps), !.nstaged = @ + 1]
    /\ UNCHANGED <<entries, psp, told, seen>>

Admissible(ps) == is_balanced(ps) /\ \A p \in ToSet(ps) : p.cur = USDollar

(* commit takes the lock and validates the whole batch; a batch with one   *)
(* bad set is dropped.                                                     *)
Validate ==
    /\ writer.pc = "idle" /\ writer.staged # << >>
    /\ writer' = IF \A i \in DOMAIN writer.staged : Admissible(writer.staged[i])
                 THEN [writer EXCEPT !.pc = "append", !.at = 1]
                 ELSE [writer EXCEPT !.staged = << >>, !.raised = @ + 1]
    /\ UNCHANGED <<entries, psp, told, seen>>

Folded(bal, ps) ==
    LET was(k) == IF k \in DOMAIN bal THEN bal[k] ELSE 0
    IN  [k \in DOMAIN bal \cup Touched(ps) |-> was(k) + OnAccount(ps, k[1], k[2])]

(* Mutant: the running balances are folded before the set is posted.       *)
AppendOne_folds_first ==
    /\ writer.pc = "append" /\ writer.at \in DOMAIN writer.staged /\ Space(1)
    /\ LET ps == writer.staged[writer.at]
       IN  IF is_balanced(ps)
           THEN /\ entries' = post(entries, ps, <<"group">>)
                /\ writer' = [writer EXCEPT !.at = @ + 1, !.bal = Folded(@, ps)]
           ELSE /\ writer' = [writer EXCEPT !.pc = "idle", !.at = 0, !.raised = @ + 1, !.bal = Folded(@, ps)]
                /\ UNCHANGED entries
    /\ UNCHANGED <<psp, told, seen>>

(* One turn of the append loop.  It runs over the live list, so it also    *)
(* meets sets staged meanwhile; one that does not balance makes `post`     *)
(* raise with the batch half appended and still staged.                    *)
AppendOne ==
    /\ writer.pc = "append" /\ writer.at \in DOMAIN writer.staged /\ Space(1)
    /\ LET ps == writer.staged[writer.at]
       IN  IF is_balanced(ps)
           THEN /\ entries' = post(entries, ps, <<"group">>)
                /\ writer' = [writer EXCEPT !.at = @ + 1, !.bal = Folded(@, ps)]
           ELSE /\ writer' = [writer EXCEPT !.pc = "idle", !.at = 0, !.raised = @ + 1]
                /\ UNCHANGED entries
    /\ UNCHANGED <<psp, told, seen>>

(* committed += len(batch), then a fresh list: what was staged in between  *)
(* is counted and dropped.                                                 *)
EndLoop ==
    /\ writer.pc = "append" /\ writer.at \notin DOMAIN writer.staged
    /\ writer' = [writer EXCEPT !.pc = "count"]
    /\ UNCHANGED <<entries, psp, told, seen>>
Count ==
    /\ writer.pc = "count"
    /\ writer' = [writer EXCEPT !.pc = "idle", !.at = 0, !.committed = @ + Len(writer.staged), !.staged = << >>]
    /\ UNCHANGED <<entries, psp, told, seen>>

(* A checkpoint is the running balances under their Merkle root; resuming  *)
(* recomputes the root and checks that value is conserved.                 *)
checkpoint(bal) == [root |-> bal, balances |-> bal]
resume_verify(ck) == ck.root = ck.balances /\ Conserved(ck.balances)

-----------------------------------------------------------------------------
CollectionInit ==
    /\ psp = << >> /\ told = {} /\ seen = None /\ writer = NewWriter(entries)

RailsNext ==
    \E k \in Keys :
        \/ \E c \in Charges : collect_ledger(c, k) \/ debit_usage(c, k) \/ \E a \in BOOLEAN : collect_stripe(c, k, a)
        \/ topup(TopUpUnits, k) \/ topup(TopUpUnits, None)

AdapterNext ==
    \/ OpenAdapter
    \/ \E k \in Keys, u \in Units : fund(k, u) \/ payout(k, u)
                                    \/ \E op \in {"charge", "payout"}, a \in BOOLEAN : stripe_move(op, k, u, a)

MarketNext ==
    \/ \E u \in Units : settle_at_boundary(u) \/ \E ok \in BOOLEAN : publish_with_royalty(u, ok)
                        \/ \E f \in Fields, s \in {"first", "best"}, id \in Keys : award_bounty(id, u, f, s)
    \/ sweep_dust
    \/ \E m \in Meters, b \in ProviderBills, r \in Rates : reimburse(m, b, r)

WriterNext == (\E ps \in StagedSets : stage(ps)) \/ Validate \/ AppendOne \/ EndLoop \/ Count
=============================================================================
