---------------------------- MODULE MCSettlement ----------------------------
(***************************************************************************)
(* The settlement plane for TLC.  Its lanes share only the reward chain    *)
(* and the code never calls one from another, so each behaviour exercises  *)
(* one of them; the FMV index is a pure function and its lane only picks a *)
(* market.                                                                 *)
(***************************************************************************)
EXTENDS SettlementPlane

VARIABLES
    lane,     \* the part of the plane this behaviour exercises
    market    \* the trades of the "fmv" lane

vars == <<planeVars, lane, market>>

-----------------------------------------------------------------------------
(* Constants                                                               *)
MCAmount == [q \in Quotes |-> 20]
MCPolicy == [q \in Quotes |-> [accounts |-> <<Payee, Fee>>, weights |-> <<9, 1>>]]
MCRoster == [a1 |-> "k1", a2 |-> "k1", a3 |-> "k2"]
Approval(a, k, d) == [arb |-> a, key |-> k, doc |-> d]
MCApprovalLists ==
    {<<Approval("a1", "k1", d), Approval("a2", "k1", d)>> : d \in {"upheld"}}
    \cup {<<Approval("a1", "k1", d), Approval("a3", "k2", d)>> : d \in {"upheld", "rejected"}}
MCCharges ==
    {charge_from_price(price_plan([skilldocs |-> 400, perkdocs |-> 90, contract |-> 40, scripts |-> 800], mode, fee,
                                  [rate |-> [in_per_1k |-> 1000, out_per_1k |-> 3000],
                                   marketplace_fee_pct |-> <<5, 100>>]))
        : mode \in {"structured", "freeform"},
          fee \in {tool_fee((<<"_default">> :> 7) @@ (<<"fs">> :> 50), [ns |-> "general", leaf |-> "fs", perk |-> "find"], None)}}
MCFields == {<<[name |-> "w1", validated |-> v, score |-> 1], [name |-> "w2", validated |-> w, score |-> 2]>>
                : v, w \in BOOLEAN}
MCMeters == {[by |-> b, in |-> 1000, out |-> 0] : b \in {"exod", "agent"}}
MCBills == {None} \cup {[cur |-> "USD", in |-> i, out |-> 0, cost |-> c] : i \in {1000, 1060}, c \in {500, 560}}
MCRates == {[rate |-> [in_per_1k |-> 500, out_per_1k |-> 500], floor |-> 10, cap |-> 520]}
Set(a, b, n, m, cur) == <<_posting(<<"party", a>>, -n, cur), _posting(<<"party", b>>, m, cur)>>
MCStagedSets == {Set("p", "d", 1, 1, "USD"), Set("p", "d", 1, 1, "EUR"), Set("d", "p", 2, 1, "USD")}

-----------------------------------------------------------------------------
(* Honest controllers trade near one price; one controller, under as many  *)
(* identities as it likes, holds at most a fifth of the volume.            *)
Honest == {"h1", "h2", "h3", "h4"}
Trade(c, p, v) == [control |-> c, price |-> p, volume |-> v]
Markets ==
    {LET cs == SetToSeq(Honest)
     IN  [i \in DOMAIN cs |-> Trade(cs[i], f[cs[i]], 25)] \o adv
        : f \in [Honest -> {98, 100, 103}],
          adv \in {<<Trade("adv", p, 25)>> : p \in {1, 99, 900}}
                  \cup {<<Trade("adv", p, 12), Trade("adv", p, 12)>> : p \in {1, 900}}}

Init ==
    /\ PlaneInit
    /\ lane \in {"quotes", "rails", "adapter", "market", "writer", "fmv"}
    /\ IF lane = "fmv" THEN market \in Markets ELSE market = << >>

Next ==
    /\ \/ lane = "quotes" /\ QuotesLane
       \/ lane = "rails" /\ RailsLane
       \/ lane = "adapter" /\ AdapterLane
       \/ lane = "market" /\ MarketLane
       \/ lane = "writer" /\ WriterLane
    /\ UNCHANGED <<lane, market>>

Spec == Init /\ [][Next]_vars

-----------------------------------------------------------------------------
(* Properties                                                              *)

(* fmv_index: one controller holding at most a fifth of the volume cannot  *)
(* move the index outside the prices the honest controllers traded at.     *)
FmvResists ==
    lane = "fmv" =>
        LET honest == {market[i].price : i \in {j \in DOMAIN market : market[j].control \in Honest}}
        IN  fmv_index(market).index \in Min(honest)..Max(honest)
=============================================================================
