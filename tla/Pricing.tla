------------------------------ MODULE Pricing ------------------------------
(***************************************************************************)
(* The pure money algorithms: the price of a plan, the charge made of it,  *)
(* what a metered step may be settled at, the FMV index and the winner of  *)
(* a bounty.  Amounts count scale-4 units; a rate or a tolerance is a      *)
(* fraction <<num, den>>; a file is its length in characters (a missing    *)
(* file reads as empty).                                                   *)
(***************************************************************************)
EXTENDS RewardLedger

CONSTANT None     \* no receipt, no reference, no declaration, no winner

(* Money.scale: the product, re-quantized.                                 *)
scale(units, frac) == RoundHalfEven(units * frac[1], frac[2])

-----------------------------------------------------------------------------
(* price.py                                                                *)

est_tokens(chars) == chars \div 4

(* perk: [skilldocs, perkdocs, contract, scripts], lengths of its files.   *)
context_tokens(perk) == est_tokens(perk.skilldocs + perk.perkdocs)
output_tokens(perk, mode) == est_tokens(IF mode = "freeform" THEN perk.scripts ELSE perk.contract)

llm_cost(in, out, rate) == scale(rate.in_per_1k * in, <<1, 1000>>) + scale(rate.out_per_1k * out, <<1, 1000>>)

(* The first of `keys` a table holds, else the perk's own declaration,     *)
(* else the table's default.                                               *)
Resolve(table, keys, declared, default) ==
    LET hits == {i \in DOMAIN keys : keys[i] \in DOMAIN table}
    IN  IF hits # {} THEN table[keys[Min(hits)]]
        ELSE IF declared # None THEN declared
        ELSE IF <<"_default">> \in DOMAIN table THEN table[<<"_default">>] ELSE default

(* id: [ns, leaf, perk]; ns is None for a bare skill id.                   *)
SkillKey(id, ns) == IF ns = None THEN <<id.leaf>> ELSE <<ns, id.leaf>>
PerkKey(id, ns)  == SkillKey(id, ns) \o <<"/", id.perk>>
FeeKeys(id) == <<PerkKey(id, id.ns), PerkKey(id, None), SkillKey(id, id.ns), SkillKey(id, None)>>

tool_fee(fees, id, declared) == Resolve(fees, FeeKeys(id), declared, 0)

price_plan(perk, mode, fee, pricing) ==
    LET llm      == llm_cost(context_tokens(perk), output_tokens(perk, mode), pricing.rate)
        subtotal == llm + fee
        mkt      == scale(subtotal, pricing.marketplace_fee_pct)
    IN  [llm |-> llm, tool_fee |-> fee, marketplace_fee |-> mkt, total |-> subtotal + mkt]

(* rails.py: the itemised charge, its check, and whole cents (truncated).  *)
charge_from_price(pq) ==
    [total |-> pq.total,
     breakdown |-> <<_posting(<<"substrate", "">>, pq.llm, "USD"), _posting(<<"skill_author", "">>, pq.tool_fee, "USD"),
                     _posting(<<"marketplace", "">>, pq.marketplace_fee, "USD")>>]

split_balances(charge) == SumUnits(charge.breakdown) = charge.total
usd_to_minor(units) == units \div 100

(* dust.py: whole cents by banker's rounding, and the residue.             *)
split_cents(units) == LET c == 100 * RoundHalfEven(units, 100) IN [cents |-> c, dust |-> units - c]
-----------------------------------------------------------------------------
(* metered.py                                                              *)

_tokens(d) == d.in + d.out

reconcile(meter, receipt, tol) ==
    LET mt == _tokens(meter)
        rt == _tokens(receipt)
        gap == IF mt > rt THEN mt - rt ELSE rt - mt
    IN  IF rt = 0 THEN mt = 0 ELSE gap * tol[2] <= tol[1] * rt

_clamp(units, floor, cap) == IF units < floor THEN floor ELSE IF units > cap THEN cap ELSE units

(* The verdict and amount of one metered step; receipt may be None.        *)
settleable(meter, receipt, rate, floor, cap, tol, cost_tol) ==
    LET est     == llm_cost(meter.in, meter.out, rate)
        no(why) == [settleable |-> FALSE, reason |-> why, units |-> 0]
        yes(u)  == [settleable |-> TRUE, reason |-> "ok", units |-> _clamp(u, floor, cap)]
    IN  CASE meter.by # "exod"                     -> no("meter_not_attested")
          [] receipt = None                        -> yes(est)
          [] receipt.cur # "USD"                   -> no("currency_mismatch")
          [] ~reconcile(meter, receipt, tol)       -> no("receipt_meter_mismatch")
          [] receipt.cost = None                   -> no("receipt_cost_not_exact")
          [] receipt.cost * cost_tol[2] > est * (cost_tol[2] + cost_tol[1])
                                                   -> no("receipt_cost_exceeds_attested")
          [] OTHER                                 -> yes(receipt.cost)

-----------------------------------------------------------------------------
(* fmv.py: trades are records [price, volume, control]; an item is a pair  *)
(* <<price, volume>>.                                                      *)

ByPrice(items) == SetToSortSeq({<<i, items[i]>> : i \in {j \in DOMAIN items : items[j][2] > 0}},
                               LAMBDA a, b : a[2][1] < b[2][1] \/ (a[2][1] = b[2][1] /\ a[1] < b[1]))
SortedItems(items) == LET s == ByPrice(items) IN [i \in DOMAIN s |-> s[i][2]]
Volume(items) == FoldSeq(LAMBDA x, s : x[2] + s, 0, items)

(* Mutant: the volume-weighted mean instead of the median.                 *)
_vw_median_mean(items) ==
    IF Volume(items) = 0 THEN 0
    ELSE FoldSeq(LAMBDA x, s : x[1] * x[2] + s, 0, items) \div Volume(items)

(* The price at the point half of the volume is reached; 0 with no volume. *)
_vw_median(items) ==
    LET s      == SortedItems(items)
        cum(i) == Volume(SubSeq(s, 1, i))
    IN  IF s = << >> THEN 0
        ELSE s[Min({i \in DOMAIN s : 2 * cum(i) >= Volume(s)})][1]

(* One participant per controller: its median price, its volume capped at  *)
(* the mean share.                                                         *)
_collapse_controls(trades) ==
    LET controls == SetToSeq({trades[i].control : i \in DOMAIN trades})
        of(c)    == LET ts == SelectSeq(trades, LAMBDA t : t.control = c)
                    IN  [i \in DOMAIN ts |-> <<ts[i].price, ts[i].volume>>]
        total    == FoldSeq(LAMBDA t, s : t.volume + s, 0, trades)
        share    == IF Len(controls) = 0 THEN total ELSE total \div Len(controls)
        cap      == IF share > 1 THEN share ELSE 1
    IN  [i \in DOMAIN controls |->
            LET ps == of(controls[i])
            IN  <<_vw_median(ps), IF Volume(ps) < cap THEN Volume(ps) ELSE cap>>]

(* Drops the lowest and highest tenth of the volume; what is kept of each  *)
(* item is truncated to whole volume, possibly to nothing.                 *)
_trim(items) ==
    LET s       == SortedItems(items)
        total   == Volume(s)
        before(i) == Volume(SubSeq(s, 1, i - 1))
        kept(i) == LET lo == IF 10 * before(i) > total THEN 10 * before(i) ELSE total
                       hi == IF 10 * (before(i) + s[i][2]) < 9 * total THEN 10 * (before(i) + s[i][2]) ELSE 9 * total
                   IN  hi - lo                                   \* in tenths of a unit of volume
        keep    == SelectSeq([i \in DOMAIN s |-> <<s[i][1], kept(i)>>], LAMBDA x : x[2] > 0)
    IN  IF keep = << >> THEN s ELSE [i \in DOMAIN keep |-> <<keep[i][1], keep[i][2] \div 10>>]

_is_multimodal(items) ==
    LET s     == SortedItems(items)
        n     == Len(s)
        total == Volume(s)
        range == s[n][1] - s[1][1]
        gaps  == {s[i + 1][1] - s[i][1] : i \in {j \in 1..(n - 1) :
                     LET cum == Volume(SubSeq(s, 1, j)) IN total <= 4 * cum /\ 4 * cum <= 3 * total}}
    IN  n >= 2 /\ range # 0 /\ 2 * Max(gaps \cup {0}) >= range

ADMISSION_N == 20
ADMISSION_DISTINCT == 8

fmv_index(trades) ==
    LET collapsed == _collapse_controls(trades)
        distinct  == Len(collapsed)
    IN  [index    |-> _vw_median(_trim(collapsed)),
         admitted |-> Len(trades) >= ADMISSION_N /\ distinct >= ADMISSION_DISTINCT /\ ~_is_multimodal(collapsed)]

-----------------------------------------------------------------------------
(* markets.py: the winner of a bounty is the first validated, or the best  *)
(* score (the earliest of equals); None refunds the poster.                *)
BountyWinner(competitors, select) ==
    LET valid == {i \in DOMAIN competitors : competitors[i].validated}
        best  == {i \in valid : \A j \in valid : competitors[i].score >= competitors[j].score}
    IN  IF valid = {} THEN None ELSE competitors[Min(IF select = "best" THEN best ELSE valid)].name
=============================================================================
