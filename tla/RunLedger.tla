----------------------------- MODULE RunLedger -----------------------------
(***************************************************************************)
(* The event list of one run, as govd keeps it in memory (rec["events"])   *)
(* and in <record_root>/<run_id>/ledger.json, and the questions govd asks  *)
(* of it: which steps were granted, which have a result, which ran ok.     *)
(*                                                                         *)
(* An event keeps the fields the gates read: its type, its step, the       *)
(* status of a result and the nonce of the grant that produced it (0 for   *)
(* an event that exod did not sign).                                       *)
(***************************************************************************)
EXTENDS Naturals, Sequences

EventTypes == {"granted", "step_refused", "step_result",
               "step_delegation_refused", "forged_status_refused"}

Statuses == {"none", "ok", "error", "refused"}

Event == [type : EventTypes, step : Nat, status : Statuses, nonce : Nat]

(* The positions of the events of type t.                                  *)
Positions(evs, t) == {i \in DOMAIN evs : evs[i].type = t}

(* Store.ran_ok: the steps with a result whose status is ok.               *)
ran_ok(evs) ==
    {evs[i].step : i \in {j \in Positions(evs, "step_result") : evs[j].status = "ok"}}

(* Store.steps_seen, first half: the steps a grant was recorded for.       *)
granted_steps(evs) == {evs[i].step : i \in Positions(evs, "granted")}

(* Mutant of done_steps: only an ok result completes a step.               *)
done_steps_ok_only(evs) == ran_ok(evs)

(* Store.steps_seen, second half, and the done-set of claim_step: the      *)
(* steps with a recorded result, whatever its status.                      *)
done_steps(evs) == {evs[i].step : i \in Positions(evs, "step_result")}

(* The nonces execute_step's per-run replay guard has already seen.        *)
result_nonces(evs) == {evs[i].nonce : i \in {j \in DOMAIN evs : evs[j].nonce # 0}}

(* authorize_step's order gate: every step before k has run ok.            *)
UpstreamOk(evs, k) == \A i \in 1..(k - 1) : i \in ran_ok(evs)

(* The events govd appends.                                                *)
GrantedEvent(k) == [type |-> "granted", step |-> k, status |-> "none", nonce |-> 0]
RefusedEvent(k) == [type |-> "step_refused", step |-> k, status |-> "none", nonce |-> 0]
ReportedEvent(k, st) == [type |-> "step_result", step |-> k, status |-> st, nonce |-> 0]

(* Mutant of DelegatedEvent: a refusal is recorded as a result.            *)
DelegatedEvent_refusal_is_result(k, answer, n) ==
    [type |-> "step_result", step |-> k,
     status |-> IF answer = "unsigned" THEN "none" ELSE answer, nonce |-> n]

(***************************************************************************)
(* What execute_step makes of exod's answer to the grant with nonce n.  An *)
(* envelope that does not verify is kept as evidence; ok and error are     *)
(* terminal results; refused is kept under a type outside the done-set.    *)
(***************************************************************************)
DelegatedEvent(k, answer, n) ==
    CASE answer = "unsigned"  -> [type |-> "forged_status_refused", step |-> k,
                                  status |-> "none", nonce |-> 0]
      [] answer = "refused"   -> [type |-> "step_delegation_refused", step |-> k,
                                  status |-> "refused", nonce |-> n]
      [] OTHER                -> [type |-> "step_result", step |-> k,
                                  status |-> answer, nonce |-> n]

-----------------------------------------------------------------------------
(* What the ledger properties say of one event list.                       *)

IsPrefixOf(a, b) == Len(a) <= Len(b) /\ \A i \in 1..Len(a) : a[i] = b[i]

(* Every grant and every result comes after an ok result of each earlier   *)
(* step.                                                                   *)
InOrder(evs) ==
    \A j \in DOMAIN evs : evs[j].type \in {"granted", "step_result"} =>
        \A i \in 1..(evs[j].step - 1) :
            \E h \in 1..(j - 1) : /\ evs[h].type = "step_result"
                                  /\ evs[h].step = i
                                  /\ evs[h].status = "ok"

(* No step has two results.                                                *)
RecordedOnce(evs) ==
    \A i, j \in Positions(evs, "step_result") : evs[i].step = evs[j].step => i = j

(* Every result comes after a grant of its step.                           *)
ResultsGranted(evs) ==
    \A j \in Positions(evs, "step_result") :
        \E i \in 1..(j - 1) : evs[i].type = "granted" /\ evs[i].step = evs[j].step

(* No step was granted or has a result.                                    *)
NothingRan(evs) == \A j \in DOMAIN evs : evs[j].type \notin {"granted", "step_result"}
=============================================================================
