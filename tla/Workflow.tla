------------------------------ MODULE Workflow ------------------------------
(***************************************************************************)
(* The workflow checker: typed state machines, the specification emitted   *)
(* for them, what the three provers make of it, and the algebra that       *)
(* composes machines.  A run of the emitted specification is walked step   *)
(* by step, so that the verdicts are compared with what really can happen. *)
(* Truth values are 0 and 1.                                               *)
(***************************************************************************)
EXTENDS Option, Integers, Sequences, FiniteSets, SequencesExt

VARIABLE flow      \* a workflow, who checks it, and where its run is

-----------------------------------------------------------------------------
Flag(type, init) == [type |-> type, init |-> init]
Arc(from, to, set) == [from |-> from, to |-> to, set |-> set]
Nothing == << >>

SAMPLE ==
    [states |-> <<"ready", "running", "done">>, entry |-> "ready",
     flags |-> [started |-> Flag("Bool", 0), steps |-> Flag("Int", 0)],
     transitions |-> <<Arc("ready", "running", [started |-> 1, steps |-> 0]), Arc("running", "done", [started |-> 1, steps |-> 1])>>,
     invariants |-> {"StartedBeforeDone", "StepsBounded"}]

SAGA ==
    [states |-> <<"ready", "running", "committed", "compensating", "done">>, entry |-> "ready",
     flags |-> [failed |-> Flag("Bool", 0), compensated |-> Flag("Bool", 0)],
     transitions |-> <<Arc("ready", "running", [failed |-> 0, compensated |-> 0]), Arc("running", "committed", [failed |-> 0]),
                       Arc("running", "compensating", [failed |-> 1]), Arc("compensating", "done", [compensated |-> 1]),
                       Arc("committed", "done", Nothing)>>,
     invariants |-> {"SagaCompensates"}]

buggy_saga == [SAGA EXCEPT !.transitions = Append(@, Arc("compensating", "done", Nothing))]

plan_workflow ==
    [states |-> <<"ready", "validated", "composed", "compiled", "overseen", "executed">>, entry |-> "ready",
     flags |-> [oversaw |-> Flag("Bool", 0)],
     transitions |-> <<Arc("ready", "validated", Nothing), Arc("validated", "composed", Nothing), Arc("composed", "compiled", Nothing),
                       Arc("compiled", "overseen", [oversaw |-> 1]), Arc("overseen", "executed", Nothing)>>,
     invariants |-> {"GovernedExecution"}]

settlement_workflow ==
    [states |-> <<"quoted", "funded", "checked", "cancelled", "settled">>, entry |-> "quoted",
     flags |-> [funded |-> Flag("Bool", 0), validated |-> Flag("Bool", 0), paid |-> Flag("Int", 0), escrow |-> Flag("Bool", 0)],
     transitions |-> <<Arc("quoted", "funded", [funded |-> 1, escrow |-> 1]), Arc("funded", "checked", [validated |-> 1]),
                       Arc("checked", "settled", [paid |-> 1, escrow |-> 0]), Arc("funded", "cancelled", [escrow |-> 0]),
                       Arc("checked", "cancelled", [escrow |-> 0]), Arc("cancelled", "cancelled", Nothing)>>,
     invariants |-> {"SettleNeedsValidate", "SettleNeedsFund", "AtMostOnePayout", "EscrowDrainsAtTerminal"}]

\* The invariants' predicates.
Holds(inv, pc, f) ==
    CASE inv = "StartedBeforeDone"      -> pc = "done" => f["started"] = 1
      [] inv = "StepsBounded"           -> f["steps"] <= 2
      [] inv = "SagaCompensates"        -> f["failed"] = 1 /\ pc = "done" => f["compensated"] = 1
      [] inv = "GovernedExecution"      -> pc = "executed" => f["oversaw"] = 1
      [] inv = "SettleNeedsValidate"    -> pc = "settled" => f["validated"] = 1
      [] inv = "SettleNeedsFund"        -> pc = "settled" => f["funded"] = 1
      [] inv = "AtMostOnePayout"        -> f["paid"] <= 1
      [] inv = "EscrowDrainsAtTerminal" -> pc \in {"settled", "cancelled"} => f["escrow"] = 0

\* Negate each update of the flag, or push it out of range; without one, add
\* it to the first transition.
Huge == 999999
seed_violation(wf, flag) ==
    LET Bad(v) == IF wf.flags[flag].type = "Bool" THEN 1 - v ELSE Huge
        touched == \E i \in DOMAIN wf.transitions : flag \in DOMAIN wf.transitions[i].set
        Seeded(t) == IF flag \in DOMAIN t.set THEN [t EXCEPT !.set[flag] = Bad(@)] ELSE t
        Forced(t) == [t EXCEPT !.set = [f \in DOMAIN @ \cup {flag} |-> IF f = flag THEN Bad(wf.flags[flag].init) ELSE @[f]]]
    IN  [wf EXCEPT !.transitions = [i \in DOMAIN @ |-> IF touched THEN Seeded(@[i]) ELSE IF i = 1 THEN Forced(@[i]) ELSE @[i]]]

-----------------------------------------------------------------------------
(* The emitted specification: a state is the pc and the flags.             *)
At(pc, flags) == [pc |-> pc, flags |-> flags]
EmittedInit(wf) == At(wf.entry, [f \in DOMAIN wf.flags |-> wf.flags[f].init])

(* mutant: a flag that a transition does not set goes back to its initial  *)
(* value                                                                   *)
EmittedNext_no_frame(wf, st) ==
    LET taken == {i \in DOMAIN wf.transitions : wf.transitions[i].from = st.pc}
        After(t) == At(t.to, [f \in DOMAIN wf.flags |-> IF f \in DOMAIN t.set THEN t.set[f] ELSE wf.flags[f].init])
    IN  {After(wf.transitions[i]) : i \in taken} \cup IF st.pc = Last(wf.states) THEN {st} ELSE {}

\* One disjunct per transition, and a self-loop on the last state.
EmittedNext(wf, st) ==
    LET taken == {i \in DOMAIN wf.transitions : wf.transitions[i].from = st.pc}
        After(t) == At(t.to, [f \in DOMAIN wf.flags |-> IF f \in DOMAIN t.set THEN t.set[f] ELSE st.flags[f]])
    IN  {After(wf.transitions[i]) : i \in taken} \cup IF st.pc = Last(wf.states) THEN {st} ELSE {}

EmittedTypeOK(wf, st) ==
    /\ st.pc \in Range(wf.states)
    /\ \A f \in DOMAIN wf.flags : IF wf.flags[f].type = "Bool" THEN st.flags[f] \in {0, 1} ELSE st.flags[f] \in Nat

Clean(wf, st) == EmittedTypeOK(wf, st) /\ \A inv \in wf.invariants : Holds(inv, st.pc, st.flags)

-----------------------------------------------------------------------------
(* The provers.  A tool is absent, too slow, or does its work.             *)
RECURSIVE Explored(_, _, _)
Explored(wf, seen, depth) ==
    LET more == seen \cup UNION {EmittedNext(wf, st) : st \in seen}
    IN  IF depth = 0 \/ more = seen THEN seen ELSE Explored(wf, more, depth - 1)

Verdict(tool, works) == IF tool = "absent" THEN "skipped" ELSE IF tool = "slow" THEN "timeout" ELSE works
Judged(wf, states) ==
    IF \A st \in states : Clean(wf, st) /\ EmittedNext(wf, st) # {} THEN "no_error" ELSE "violation"

check_tlc(wf, tool) == Verdict(tool, Judged(wf, Explored(wf, {EmittedInit(wf)}, -1)))
check_apalache(wf, tool) == Verdict(tool, Judged(wf, Explored(wf, {EmittedInit(wf)}, 10)))
\* Only that the initial state has the right types.
check_tlaps(wf, tool) == Verdict(tool, IF EmittedTypeOK(wf, EmittedInit(wf)) THEN "proved" ELSE "unproved")

OkVerdicts == {"no_error", "proved"}
run_all(wf, tools) ==
    LET results == {check_tlc(wf, tools.tlc), check_apalache(wf, tools.apalache), check_tlaps(wf, tools.tlaps)}
        actionable == results \ {"skipped"}
    IN  [clean |-> actionable # {} /\ actionable \subseteq OkVerdicts,
         certs |-> {c \in {"EMPIRICAL", "SYMBOLIC", "AXIOMATIC"} :
                      CASE c = "EMPIRICAL" -> check_tlc(wf, tools.tlc) \in OkVerdicts
                        [] c = "SYMBOLIC"  -> check_apalache(wf, tools.apalache) \in OkVerdicts
                        [] c = "AXIOMATIC" -> check_tlaps(wf, tools.tlaps) \in OkVerdicts}]
certs(tools) == run_all(SAGA, tools).certs

Row(wf, clean) == [wf |-> wf, clean |-> clean]
corpus == [sample |-> Row(SAMPLE, TRUE), seedstarted |-> Row(seed_violation(SAMPLE, "started"), FALSE),
           seedsteps |-> Row(seed_violation(SAMPLE, "steps"), FALSE), saga |-> Row(SAGA, TRUE),
           skip |-> Row(buggy_saga, FALSE), plan |-> Row(plan_workflow, TRUE)]
settlement_corpus ==
    [settlement |-> Row(settlement_workflow, TRUE), unvalidated |-> Row(seed_violation(settlement_workflow, "validated"), FALSE),
     overpay |-> Row(seed_violation(settlement_workflow, "paid"), FALSE), strand |-> Row(seed_violation(settlement_workflow, "escrow"), FALSE)]

Want(row) == IF row.clean THEN "no_error" ELSE "violation"
TlcRight(rows, tools) == {n \in DOMAIN rows : check_tlc(rows[n].wf, tools.tlc) = Want(rows[n])}
ApaRight(rows, tools) == {n \in DOMAIN rows : check_apalache(rows[n].wf, tools.apalache) = Want(rows[n])}
\* The ok of a verdict has three values: a checker that is not there has none.
Ok(verdict) == IF verdict \in {"no_error", "skipped"} THEN verdict ELSE "not ok"
Disagree(wf, tools) ==
    /\ check_apalache(wf, tools.apalache) \in {"no_error", "violation"}
    /\ Ok(check_apalache(wf, tools.apalache)) # Ok(check_tlc(wf, tools.tlc))

\* TLC right everywhere, Apalache but for one, no disagreement where it answered.
run_corpus(tools) ==
    /\ TlcRight(corpus, tools) = DOMAIN corpus
    /\ Cardinality(ApaRight(corpus, tools)) >= Cardinality(DOMAIN corpus) - 1
    /\ \A n \in DOMAIN corpus : ~Disagree(corpus[n].wf, tools)

\* Both right on the clean model; of the mutants Apalache may miss one.
prove_settlement(tools) ==
    LET seeded == DOMAIN settlement_corpus \ {"settlement"}
    IN  /\ TlcRight(settlement_corpus, tools) = DOMAIN settlement_corpus
        /\ "settlement" \in ApaRight(settlement_corpus, tools)
        /\ Cardinality(ApaRight(settlement_corpus, tools) \cap seeded) >= Cardinality(seeded) - 1

-----------------------------------------------------------------------------
(* The algebra.  States and flags are namespaced; invariants are not kept. *)
_prefix(wf, p) ==
    [states |-> [i \in DOMAIN wf.states |-> <<p, wf.states[i]>>], entry |-> <<p, wf.entry>>,
     flags |-> [f \in {<<p, g>> : g \in DOMAIN wf.flags} |-> wf.flags[f[2]]],
     transitions |-> [i \in DOMAIN wf.transitions |->
         LET t == wf.transitions[i]
         IN  Arc(<<p, t.from>>, <<p, t.to>>, [f \in {<<p, g>> : g \in DOMAIN t.set} |-> t.set[f[2]]])]]

Union(f, g) == [k \in DOMAIN f \cup DOMAIN g |-> IF k \in DOMAIN f THEN f[k] ELSE g[k]]
ParGo(a, b) ==
    LET Left(s2) == [i \in DOMAIN a.transitions |-> LET t == a.transitions[i] IN Arc(t.from \o s2, t.to \o s2, t.set)]
        Right(s1) == [i \in DOMAIN b.transitions |-> LET t == b.transitions[i] IN Arc(s1 \o t.from, s1 \o t.to, t.set)]
    IN  FlattenSeq([i \in DOMAIN b.states |-> Left(b.states[i])]) \o FlattenSeq([i \in DOMAIN a.states |-> Right(a.states[i])])

compose(w1, w2, op) ==
    LET a == _prefix(w1, "a")
        b == _prefix(w2, "b")
        term == Last(a.states) \o Last(b.states)
        pairs == FlattenSeq([i \in DOMAIN a.states |-> [k \in DOMAIN b.states |-> a.states[i] \o b.states[k]]])
    IN  IF op = "seq"
        THEN [states |-> a.states \o b.states, entry |-> a.entry, flags |-> Union(a.flags, b.flags), invariants |-> {},
              transitions |-> Append(a.transitions \o b.transitions, Arc(Last(a.states), b.entry, Nothing))]
        ELSE [states |-> Append(SelectSeq(pairs, LAMBDA s : s # term), term), entry |-> a.entry \o b.entry,
              flags |-> Union(a.flags, b.flags), invariants |-> {}, transitions |-> ParGo(a, b)]

\* The pcs reached, whatever the flags.
RECURSIVE PcsFrom(_, _)
PcsFrom(wf, seen) ==
    LET more == seen \cup {wf.transitions[i].to : i \in {k \in DOMAIN wf.transitions : wf.transitions[k].from \in seen}}
    IN  IF more = seen THEN seen ELSE PcsFrom(wf, more)
reachable_states(wf) == PcsFrom(wf, {wf.entry})
algebra_budget(wf, budget) == Cardinality(reachable_states(wf)) <= budget /\ Cardinality(reachable_states(wf)) < Len(wf.states) + 1

_edges(pairs) == {e \in pairs : e[1] # e[2]}
implemented_lifecycle ==
    LET ts == settlement_workflow.transitions IN _edges({<<ts[i].from, ts[i].to>> : i \in DOMAIN ts})
bisimilar_to_blueprint(pairs) == implemented_lifecycle = _edges(pairs)
\* The committed blueprint, and that a payout without validation would show.
Committed_blueprint ==
    {<<"quoted", "funded">>, <<"funded", "checked">>, <<"checked", "settled">>, <<"funded", "cancelled">>,
     <<"checked", "cancelled">>, <<"cancelled", "cancelled">>}
prove_bisimulation ==
    bisimilar_to_blueprint(Committed_blueprint) /\ <<"funded", "settled">> \notin _edges(Committed_blueprint)

-----------------------------------------------------------------------------
(* Walking: one of the corpora alone, or two good ones composed.           *)
Catalogue == Union(corpus, settlement_corpus)
Good == {"sample", "saga", "settlement"}
Composites == [c \in {"seq", "par"} \X Good \X Good |-> compose(Catalogue[c[2]].wf, Catalogue[c[3]].wf, c[1])]
Wf == IF flow.op = "one" THEN Catalogue[flow.left].wf ELSE Composites[<<flow.op, flow.left, flow.right>>]

ProverStates == [tlc : {"works", "slow", "absent"}, apalache : {"works", "slow", "absent"}, tlaps : {"works", "slow", "absent"}]
AllWork == [tlc |-> "works", apalache |-> "works", tlaps |-> "works"]
FlowInit ==
    \/ \E n \in DOMAIN Catalogue, tools \in ProverStates :
         flow = [op |-> "one", left |-> n, right |-> n, tools |-> tools, at |-> EmittedInit(Catalogue[n].wf)]
    \/ \E op \in {"seq", "par"}, l, r \in Good :
         flow = [op |-> op, left |-> l, right |-> r, tools |-> AllWork, at |-> EmittedInit(Composites[<<op, l, r>>])]

FlowNext == \E st \in EmittedNext(Wf, flow.at) : flow' = [flow EXCEPT !.at = st]

\* Where a composite's run leaves its left and its right component.
Side(p, wf) ==
    LET pc == flow.at.pc
        mine == IF flow.op = "par" THEN pc[IF p = "a" THEN 2 ELSE 4]
                ELSE IF pc[1] = p THEN pc[2] ELSE IF p = "a" THEN Last(wf.states) ELSE wf.entry
    IN  At(mine, [f \in DOMAIN wf.flags |-> flow.at.flags[<<p, f>>]])

-----------------------------------------------------------------------------
(* A checker that answers says what the corpus expects and what the run    *)
(* shows; a workflow is called clean only if it is, as soon as one of the  *)
(* two model checkers answered; and the corpora pass exactly if both did   *)
(* (workflow.py: a prover that is absent yields a skipped verdict, never a *)
(* false pass).                                                            *)
VerdictsRight ==
    flow.op = "one" =>
      LET row == Catalogue[flow.left]
          all == run_all(row.wf, flow.tools)
          answered == "works" \in {flow.tools.tlc, flow.tools.apalache}
      IN  /\ flow.tools.tlc = "works" => check_tlc(row.wf, "works") = Want(row)
          /\ flow.tools.apalache = "works" => check_apalache(row.wf, "works") = Want(row)
          /\ ~Clean(row.wf, flow.at) => ~row.clean
          /\ answered /\ all.clean => row.clean
          /\ row.clean /\ "slow" \notin Range(<<flow.tools.tlc, flow.tools.apalache, flow.tools.tlaps>>) =>
               (all.clean <=> flow.tools # [tlc |-> "absent", apalache |-> "absent", tlaps |-> "absent"])
          /\ all.certs = {} => ~all.clean
          /\ run_corpus(flow.tools) <=> flow.tools.tlc = "works" /\ flow.tools.apalache = "works"
          /\ prove_settlement(flow.tools) <=> flow.tools.tlc = "works" /\ flow.tools.apalache = "works"

(* compose drops the operands' invariants, and may: every state of the     *)
(* composite leaves each operand in a state of its own, where its          *)
(* invariants hold, and the composite neither deadlocks nor exceeds the    *)
(* sum or product of the operands (workflow.py: a composed workflow is     *)
(* deadlock- and invariant-clean before it runs).                          *)
CompositesKeepOperands ==
    flow.op # "one" =>
      LET l == Catalogue[flow.left].wf
          r == Catalogue[flow.right].wf
      IN  /\ Clean(l, Side("a", l)) /\ Clean(r, Side("b", r))
          /\ Side("a", l) \in Explored(l, {EmittedInit(l)}, -1) /\ Side("b", r) \in Explored(r, {EmittedInit(r)}, -1)
          /\ flow.at = EmittedInit(Wf) => check_tlc(Wf, "works") = "no_error" /\ algebra_budget(Wf, Len(Wf.states))

VerdictsMatch == VerdictsRight /\ CompositesKeepOperands /\ prove_bisimulation
=============================================================================
