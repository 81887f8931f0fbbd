----------------------------- MODULE MCAssurance -----------------------------
(***************************************************************************)
(* What vouches for a run once it has run, or before it starts, for TLC:   *)
(* the reconciler, the two store tiers, the sealed values, the revocation  *)
(* feed, checkpoints, the transparency log, receipts and erasure, the      *)
(* workflow checkers and the executor.  They share no state, so a          *)
(* behaviour exercises one of them, its lane, and the others stand still.  *)
(***************************************************************************)
EXTENDS Reconcile, StoreTiers, ValueLedger, Revocation, Evidence, Workflow, Concord, Pipeline

VARIABLE lane

MCPlanTools == <<"a", "b">>
SessionSymmetry == Permutations(Sessions)

provVars == <<vars, recVars>>
assuranceVars == <<provVars, tierVars, valueVars, feedVars, merkleVars, evidenceVars, flow, concordVars, pipeVars, lane>>

Lanes == {"reconcile", "lockstep", "debit", "values", "feed", "checkpoints", "log", "receipts", "shred",
          "workflow", "blueprint", "chip", "executor", "client"}

AssuranceInit ==
    /\ lane \in Lanes
    /\ Init /\ ReconcileInit
    /\ \E grouped, sharing \in BOOLEAN :
         /\ lane = "lockstep" \/ ~grouped
         /\ lane = "debit" \/ ~sharing
         /\ TiersInit(grouped) /\ DebitInit(sharing)
    /\ ValueInit /\ RevocationInit
    /\ MerkleInit /\ (lane = "checkpoints" \/ Len(chained.entries) = 1)
    /\ EvidenceInit
    /\ FlowInit /\ (lane = "workflow" \/ (flow.left = "sample" /\ flow.op = "one" /\ flow.tools = AllWork))
    /\ IF lane = "blueprint" THEN BlueprintInit ELSE bp = [entry |-> "s1", edges |-> {}, terms |-> {"s1"}, at |-> "s1"]
    /\ IF lane = "chip" THEN ChipInit ELSE porters = << >> /\ declared = None /\ was = None /\ edits = 0
    /\ PipelineInit
    /\ ClientInit
    /\ \/ lane = "client"
       \/ client.delegated /\ client.doctored /\ client.server = "same" /\ client.mine = "same"

In(here) == lane \in here /\ UNCHANGED lane
AssuranceNext ==
    \/ /\ In({"reconcile"}) /\ ReconcileNext
       /\ UNCHANGED <<tierVars, valueVars, feedVars, merkleVars, evidenceVars, flow, concordVars, pipeVars>>
    \/ /\ (In({"lockstep"}) /\ LockstepNext) \/ (In({"debit"}) /\ DebitNext)
       /\ UNCHANGED <<provVars, valueVars, feedVars, merkleVars, evidenceVars, flow, concordVars, pipeVars>>
    \/ /\ In({"values"}) /\ ValueNext
       /\ UNCHANGED <<provVars, tierVars, feedVars, merkleVars, evidenceVars, flow, concordVars, pipeVars>>
    \/ /\ In({"feed"}) /\ RevocationNext
       /\ UNCHANGED <<provVars, tierVars, valueVars, merkleVars, evidenceVars, flow, concordVars, pipeVars>>
    \/ /\ (In({"checkpoints"}) /\ CheckpointNext) \/ (In({"log"}) /\ LogNext)
       /\ UNCHANGED <<provVars, tierVars, valueVars, feedVars, evidenceVars, flow, concordVars, pipeVars>>
    \/ /\ (In({"receipts"}) /\ EvidenceNext) \/ (In({"shred"}) /\ ShredNext /\ UNCHANGED item)
       /\ UNCHANGED <<provVars, tierVars, valueVars, feedVars, merkleVars, flow, concordVars, pipeVars>>
    \/ /\ In({"workflow"}) /\ FlowNext
       /\ UNCHANGED <<provVars, tierVars, valueVars, feedVars, merkleVars, evidenceVars, concordVars, pipeVars>>
    \/ /\ (In({"blueprint"}) /\ BlueprintNext) \/ (In({"chip"}) /\ ChipNext)
       /\ UNCHANGED <<provVars, tierVars, valueVars, feedVars, merkleVars, evidenceVars, flow, pipeVars>>
    \/ /\ (In({"executor"}) /\ ExecutorNext) \/ (In({"client"}) /\ ClientNext)
       /\ UNCHANGED <<provVars, tierVars, valueVars, feedVars, merkleVars, evidenceVars, flow, concordVars>>

AssuranceSpec == AssuranceInit /\ [][AssuranceNext]_assuranceVars

-----------------------------------------------------------------------------
(* The checks made on a plan before it runs answer what its runs bear out: *)
(* workflow.run_all and the algebra, composer.structural with or without   *)
(* TLC, and alchemy's concordance of a chip's porters with their pins.     *)
PlansChecked == (lane = "workflow" => VerdictsMatch) /\ (lane \in {"blueprint", "chip"} => StructureChecked)
=============================================================================
