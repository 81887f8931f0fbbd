------------------------------ MODULE Concord ------------------------------
(***************************************************************************)
(* Two checks made on structure alone: the composer's, that a blueprint    *)
(* has no dead end, and alchemy's, that the control flow of a chip's       *)
(* porters is the one pinned for them.  A blueprint is walked, porters are *)
(* edited between pinning and checking.                                    *)
(***************************************************************************)
EXTENDS Option, Integers, Sequences, FiniteSets, Functions

CONSTANTS
    BpStates,     \* declared states of a blueprint
    Ghost,        \* a state some transition names and no declaration does
    Blocks,       \* numbers of a porter's basic blocks
    Porters,      \* the porters of the chip
    MaxEdits      \* bound: edits of porters

\* Blocks are numbered and there is a last one; "none" is no control flow.
ASSUME ConcordAssumption ==
    /\ BpStates # {} /\ Ghost \notin BpStates
    /\ Blocks \subseteq Nat /\ \E m \in Blocks : \A k \in Blocks : k <= m
    /\ None \notin [states : Seq(Nat), edges : SUBSET (Nat \X Nat)]

VARIABLES
    bp,        \* a blueprint and where its walk is
    porters,   \* porter -> its L++ blueprint; absent ones are not in the domain
    declared,  \* porter -> the pinned control flow; None before the first pinning
    was,       \* history: the porters as they were pinned
    edits

concordVars == <<bp, porters, declared, was, edits>>

-----------------------------------------------------------------------------
(* The composer.  b.edges are the transitions, b.terms the terminal states. *)
adjacency(b, s) == {e[2] : e \in {x \in b.edges : x[1] = s}}

\* What the search from the entry has seen when its stack is empty.
BpNames == BpStates \cup {Ghost}
Closed(b, S) == \A s \in S : adjacency(b, s) \subseteq S
Seen(b) == {s \in BpNames : \A S \in SUBSET BpNames : b.entry \in S /\ Closed(b, S) => s \in S}

structural(b) ==
    LET seen == Seen(b)
    IN  {<<"deadlock", s>> : s \in {t \in BpStates \ b.terms : adjacency(b, t) = {}}}
        \cup {<<"unreachable", s>> : s \in BpStates \ seen}
        \cup (IF seen \cap b.terms = {} THEN {<<"no terminal", b.entry>>} ELSE {})

\* The emitted Next: a self-loop on a terminal; nothing leaves an undeclared state.
emit_tla(b, s) == IF s \in BpStates THEN adjacency(b, s) \cup (IF s \in b.terms THEN {s} ELSE {}) ELSE {}

run_tlc(b, present) == IF present THEN (IF \A s \in Seen(b) : emit_tla(b, s) # {} THEN "ok" ELSE "error") ELSE "skipped"

composer_main(b, present) == IF structural(b) # {} \/ run_tlc(b, present) = "error" THEN "issue" ELSE "ok"

BlueprintInit == \E edges \in SUBSET (BpStates \X BpNames), terms \in SUBSET BpStates :
    bp = [entry |-> CHOOSE s \in BpStates : TRUE, edges |-> edges, terms |-> terms, at |-> CHOOSE s \in BpStates : TRUE]

BlueprintNext ==
    /\ \E s \in emit_tla(bp, bp.at) : bp' = [bp EXCEPT !.at = s]
    /\ UNCHANGED <<porters, declared, was, edits>>

-----------------------------------------------------------------------------
(* Alchemy.  An L++ blueprint: the call made in each block (None: a gate   *)
(* or a transition only), and whether it has a terminal state.             *)
Terminal == 1 + CHOOSE m \in Blocks : \A k \in Blocks : k <= m
Calls == {"open", "close", "weird"}
Lpp == {[at |-> f, term |-> t] : f \in UNION {[B -> Calls \cup {None}] : B \in (SUBSET Blocks) \ {{}}}, t \in BOOLEAN}

\* The extractor's leaf map names open and close.
CallsOf(b, callee) == Cardinality({k \in DOMAIN b.at : b.at[k] = callee})
classify(b) == [acquires |-> CallsOf(b, "open"), releases |-> CallsOf(b, "close"), unnamed |-> CallsOf(b, "weird")]
conserve(b) == classify(b).acquires = classify(b).releases

InOrder(S) ==
    LET n == Cardinality(S) IN CHOOSE s \in [1..n -> S] : \A i, k \in 1..n : i < k => s[i] < s[k]

\* Blocks in their order, the terminal last; an edge between neighbours.
cfg(b) ==
    LET order == InOrder(DOMAIN b.at)
        states == IF b.term THEN Append(order, Terminal) ELSE order
    IN  [states |-> states, edges |-> {<<states[i], states[i + 1]>> : i \in 1..Len(states) - 1}]

(* mutant: only the blocks are compared                                    *)
concord_states_only(extracted, decl) == Range(extracted.states) \subseteq Range(decl.states)

concord(extracted, decl) == Range(extracted.states) \subseteq Range(decl.states) /\ extracted.edges \subseteq decl.edges

publish_gate(b, decl) ==
    IF ~conserve(b) THEN "conservation_defect"
    ELSE IF classify(b).unnamed > 0 THEN "unnamed_shape"
    ELSE IF decl # None /\ ~concord(cfg(b), decl) THEN "cfg_mismatch" ELSE "citrinitas_clean"

ChipInit == (\E some \in SUBSET Porters : porters \in [some -> Lpp]) /\ declared = None /\ was = None /\ edits = 0

Edit(p, b) ==
    /\ edits < MaxEdits /\ edits' = edits + 1
    /\ porters' = [q \in DOMAIN porters \cup {p} |-> IF q = p THEN b ELSE porters[q]]
    /\ UNCHANGED <<bp, declared, was>>

\* The porter is deleted, or no longer extracts: either way it is skipped.
Lose(p) ==
    /\ edits < MaxEdits /\ edits' = edits + 1
    /\ porters' = [q \in DOMAIN porters \ {p} |-> porters[q]]
    /\ UNCHANGED <<bp, declared, was>>

pin_declared ==
    /\ declared = None
    /\ declared' = [p \in DOMAIN porters |-> cfg(porters[p])]
    /\ was' = porters
    /\ UNCHANGED <<bp, porters, edits>>

ChipNext == pin_declared \/ \E p \in Porters : Lose(p) \/ \E b \in Lpp : Edit(p, b)

chip_wide_concord ==
    /\ declared # None
    /\ DOMAIN porters # {} /\ DOMAIN porters \subseteq DOMAIN declared
    /\ \A p \in DOMAIN porters : concord(cfg(porters[p]), declared[p])

-----------------------------------------------------------------------------
(* What the composer passes never gets stuck, if its transitions stay      *)
(* among the declared states, or if TLC was there to look; a state it      *)
(* calls unreachable is not reached; and a state it calls a dead end is    *)
(* one (composer.py: the structural check is meaningful even without a     *)
(* JRE).                                                                   *)
ComposerSound ==
    /\ emit_tla(bp, bp.at) = {} =>
         /\ composer_main(bp, TRUE) = "issue"
         /\ bp.at \in BpStates => composer_main(bp, FALSE) = "issue"
    /\ \A i \in structural(bp) : i[1] = "unreachable" => bp.at # i[2]
    /\ <<"deadlock", bp.at>> \in structural(bp) => emit_tla(bp, bp.at) = {}

(* A chip that passes has no porter with a block, or a step from block to  *)
(* block, that was not pinned: what is left of each is a contiguous piece  *)
(* of what it was.  A chip not edited since pinning passes.  And what the  *)
(* publish gate admits against its pin is balanced, named and such a piece *)
(* (alchemy.py: no porter's control-flow structure has drifted).           *)
Piece(live, pinned) == \E i, k \in 1..Len(pinned) : live = SubSeq(pinned, i, k)
NoDrift(p) == Piece(cfg(porters[p]).states, cfg(was[p]).states)
ConcordCatches ==
    declared # None =>
      /\ chip_wide_concord => \A p \in DOMAIN porters : NoDrift(p)
      /\ was = porters /\ porters # << >> => chip_wide_concord
      /\ \A p \in DOMAIN porters \cap DOMAIN was :
           publish_gate(porters[p], declared[p]) = "citrinitas_clean" <=>
             NoDrift(p) /\ classify(porters[p]).unnamed = 0 /\ CallsOf(porters[p], "open") = CallsOf(porters[p], "close")

StructureChecked == ComposerSound /\ ConcordCatches
=============================================================================
