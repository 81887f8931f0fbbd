-------------------------- MODULE SettlementPlane --------------------------
(***************************************************************************)
(* The settlement plane: everything that posts to one reward chain.  Its   *)
(* parts share nothing but the chain and are never called from each other, *)
(* so their steps interleave in any order.                                 *)
(***************************************************************************)
EXTENDS Settlement, Collection

planeVars == <<entries, granted, receipts, now, reputation, verdicts, psp, told, seen, writer>>

PlaneInit == SettlementInit /\ CollectionInit

QuotesLane  == SettlementNext /\ UNCHANGED cvars
RailsLane   == RailsNext /\ UNCHANGED <<granted, receipts, now, reputation, verdicts>>
AdapterLane == AdapterNext /\ UNCHANGED <<granted, receipts, now, reputation, verdicts>>
MarketLane  == MarketNext /\ UNCHANGED <<granted, receipts, now, reputation, verdicts>>
WriterLane  == WriterNext /\ UNCHANGED <<granted, receipts, now, reputation, verdicts>>

PlaneNext == QuotesLane \/ RailsLane \/ AdapterLane \/ MarketLane \/ WriterLane

PlaneSpec == PlaneInit /\ [][PlaneNext]_planeVars

-----------------------------------------------------------------------------
(* Properties                                                              *)

(* reward_ledger.post, engine.settle, settle_intelligence, sweep_expired,  *)
(* resolve: value is only moved, and never from where there is none.       *)
(* Whatever is staged, settled, collected or refunded, in whatever order,  *)
(* every record and the whole chain sum to zero in every currency; and of  *)
(* those that race for the same pooled account none pays out of an escrow, *)
(* hold or bond more than was put into it.                                 *)
LedgerSound ==
    /\ \A i \in DOMAIN entries : is_balanced(entries[i].postings)
    /\ global_zero(entries)
    /\ \A q \in Quotes : \A a \in {escrow_for(q), Hold(q), BondAccount(q)} : Balance(entries, a, USD) >= 0

(* reward_verify: the audit finds no payout without a dual-signed passing  *)
(* receipt of a run that was admitted, and no quote settled twice, however *)
(* often the quote is funded again.                                        *)
MoneyHasWork ==
    LET audit == reward_verify(entries, receipts)
    IN  audit.money_without_work = {} /\ audit.double_settled = {}

(* escrow_expiry: the audit is empty after a sweep, and what the sweep     *)
(* leaves behind at its time is only the escrow of keys settled or         *)
(* refunded before it and funded again.                                    *)
SweepLeavesOnlyRefunded ==
    [][sweep_expired =>
          /\ stale_escrow_keys(entries', now) = {}
          /\ \A q \in DOMAIN _fundings(entries') :
                (_fundings(entries')[q].exp <= now /\ Balance(entries', escrow_for(q), USD) # 0)
                    => q \in _settled_or_refunded(entries)]_planeVars

(* disputes.resolve: no verdict was ever applied with fewer than two       *)
(* physical signers registered and signing that very outcome, whatever the *)
(* aliases in the roster.                                                  *)
QuorumOfSigners ==
    \A v \in verdicts :
        Cardinality({v.approvals[i].key : i \in {j \in DOMAIN v.approvals :
            /\ v.approvals[j].doc = v.doc
            /\ v.approvals[j].arb \in DOMAIN Roster /\ Roster[v.approvals[j].arb] = v.approvals[j].key}}) >= 2

(* rails, credits, adapter: a retry, a replayed webhook or a restarted     *)
(* adapter moves nothing twice under one key, and prepaid credit is never  *)
(* drawn below zero.                                                       *)
OncePerKey ==
    /\ \A i, j \in DOMAIN entries :
          (i < j /\ entries[i].memo[1] \in {"tax", "usage", "adapter-fund", "adapter-payout"})
              => entries[i].memo # entries[j].memo
    /\ CreditBalance(entries) >= 0

(* throughput.GroupCommitWriter: the running balances a checkpoint commits *)
(* to are the fold of the chain at every point of a commit, also when a    *)
(* set staged meanwhile makes the append loop raise half way -- for as     *)
(* long as the writer is the only one that posts.                          *)
RunningBalancesExact ==
    (\A i \in DOMAIN entries : entries[i].memo = <<"group">>)
        => writer.bal = balances(entries) /\ resume_verify(checkpoint(writer.bal))
=============================================================================
