----------------------------- MODULE Reconcile -----------------------------
(***************************************************************************)
(* The reconciler: a thread that reads a run's chain, then its origin,     *)
(* then its index rows, and reports where the index strays from the chain. *)
(* The mirror keeps writing between those reads, and somebody with access  *)
(* to the database may change the index behind everyone's back.            *)
(***************************************************************************)
EXTENDS Provenance, FiniteSets

CONSTANTS
    MaxTampers,  \* bound: changes made to the index from outside
    MaxCycles    \* bound: cycles of the reconciler

VARIABLES
    rec,        \* the reconciler: its place, what it read, and its last report
    cycles,     \* cycles begun
    tampers,    \* changes from outside
    lost        \* history: an index write failed or was lost with the process

recVars == <<rec, cycles, tampers, lost>>

Alarms == {"no_chain", "chain_broken", "origin_missing", "digest_mismatch", "gap_below_head", "index_ahead"}

NoReport == [divergences |-> {}, damage |-> {}, began |-> 0, done |-> FALSE]
ReconcileInit ==
    /\ rec = [pc |-> "idle", lines |-> << >>, plan |-> FALSE, damage |-> {}, repair |-> FALSE, report |-> NoReport]
    /\ cycles = 0 /\ tampers = 0 /\ lost = FALSE

-----------------------------------------------------------------------------
Div(class, seq) == [class |-> class, seq |-> seq]
Seqs(idx) == {d.seq : d \in idx}
IndexHead(idx) == IF idx = {} THEN -1 ELSE CHOOSE s \in Seqs(idx) : \A t \in Seqs(idx) : t <= s
ChainDigests(lines) == {link_digest(lines[i]) : i \in {k \in 1..Len(lines) : lines[k].type # "genesis"}}

(* Mutant: only the chain's lines are looked up, a row without one is not  *)
(* seen.                                                                   *)
Divergences_chain_only(lines, plan, idx) ==
    LET chain == ChainDigests(lines)
        missing == {d \in chain : d.seq \notin Seqs(idx)}
    IN  (IF ~plan /\ idx # {} THEN {Div("origin_missing", -1)} ELSE {})
        \cup {Div("digest_mismatch", d.seq) : d \in {c \in chain : c.seq \in Seqs(idx) /\ c \notin idx}}
        \cup {Div("gap_below_head", d.seq) : d \in {m \in missing : m.seq <= IndexHead(idx)}}
        \cup {Div("index_behind", d.seq) : d \in {m \in missing : m.seq > IndexHead(idx)}}

(* The set difference of a verified chain and the index rows.              *)
Divergences(lines, plan, idx) ==
    LET chain == ChainDigests(lines)
        missing == {d \in chain : d.seq \notin Seqs(idx)}
    IN  (IF ~plan /\ idx # {} THEN {Div("origin_missing", -1)} ELSE {})
        \cup {Div("digest_mismatch", d.seq) : d \in {c \in chain : c.seq \in Seqs(idx) /\ c \notin idx}}
        \cup {Div("gap_below_head", d.seq) : d \in {m \in missing : m.seq <= IndexHead(idx)}}
        \cup {Div("index_behind", d.seq) : d \in {m \in missing : m.seq > IndexHead(idx)}}
        \cup {Div("index_ahead", s) : s \in Seqs(idx) \ Seqs(chain)}

(* What an observer of both would call damage: rows that are not the       *)
(* digest of the line with their seq, and lines skipped below the head.    *)
Damage == {d.seq : d \in index \ ChainDigests(file.lines)}
          \cup {s \in Seqs(ChainDigests(file.lines)) \ Seqs(index) : s < IndexHead(index)}

-----------------------------------------------------------------------------
(* One cycle of continuous_reconcile.  read_run drops a torn last line.    *)
ReadChain(repair) ==
    /\ rec.pc = "idle" /\ cycles < MaxCycles
    /\ cycles' = cycles + 1
    /\ rec' = IF file.lines = << >>
              THEN [rec EXCEPT !.report = [divergences |-> {Div("no_chain", -1)}, damage |-> Damage, began |-> 0, done |-> TRUE]]
              ELSE [rec EXCEPT !.pc = "origin", !.lines = file.lines, !.damage = Damage, !.repair = repair]
    /\ UNCHANGED <<vars, tampers, lost>>

(* get_origin, then verify_chain on what was read: a broken chain ends it. *)
ReadOrigin ==
    /\ rec.pc = "origin"
    /\ rec' = IF verify_chain(rec.lines) THEN [rec EXCEPT !.pc = "rows", !.plan = origin]
              ELSE [rec EXCEPT !.pc = "idle", !.report = [divergences |-> {Div("chain_broken", -1)}, damage |-> rec.damage,
                                                          began |-> Len(rec.lines), done |-> TRUE]]
    /\ UNCHANGED <<vars, cycles, tampers, lost>>

(* The rows are read; a repair indexes the lines above the head.           *)
ReadRows ==
    LET divs == Divergences(rec.lines, rec.plan, index)
        behind == {d.seq : d \in {x \in divs : x.class = "index_behind"}}
    IN  /\ rec.pc = "rows"
        /\ index' = IF rec.repair THEN index \cup {d \in ChainDigests(rec.lines) : d.seq \in behind} ELSE index
        /\ rec' = [rec EXCEPT !.pc = "idle", !.lines = << >>, !.plan = FALSE, !.damage = {},
                              !.report = [divergences |-> divs, damage |-> rec.damage \cap Damage,
                                          began |-> Len(rec.lines), done |-> TRUE]]
        /\ UNCHANGED <<leaseVars, queue, worker, file, origin, from, late, cycles, tampers, lost>>

(* A read raised: the cycle reports reconcile_error, the loop goes on.     *)
ReadFails ==
    /\ rec.pc # "idle"
    /\ rec' = [rec EXCEPT !.pc = "idle", !.lines = << >>, !.plan = FALSE, !.damage = {}, !.report = NoReport]
    /\ UNCHANGED <<vars, cycles, tampers, lost>>

ReconcileStep == (\E repair \in BOOLEAN : ReadChain(repair)) \/ ReadOrigin \/ ReadRows \/ ReadFails

-----------------------------------------------------------------------------
(* The index is changed from outside: a row altered, deleted or made up,   *)
(* or the origin row lost.                                                 *)
Fake(seq) == [type |-> "record", seq |-> seq, job |-> 0]
Tamper ==
    /\ tampers < MaxTampers
    /\ tampers' = tampers + 1
    /\ \/ \E d \in index : index' \in {index \ {d}, (index \ {d}) \cup {Fake(d.seq)}} /\ UNCHANGED origin
       \/ index' = index \cup {Fake(Len(file.lines))} /\ UNCHANGED origin
       \/ origin /\ origin' = FALSE /\ UNCHANGED index
    /\ UNCHANGED <<leaseVars, queue, worker, file, from, late, rec, cycles, lost>>

(* A job is given up on its way to the index, or dies with the process.    *)
GivesUp(n) ==
    \/ mgr'[n] = "down" /\ mgr[n] # "down"
    \/ /\ worker[n].pc # "get" /\ worker'[n] = IdleWorker
       /\ ~(worker[n].pc = "index" /\ worker[n].row \in index')

MirrorStep ==
    /\ Next
    /\ lost' = (lost \/ \E n \in Nodes : GivesUp(n))
    /\ UNCHANGED <<rec, cycles, tampers>>

ReconcileNext == ReconcileStep \/ Tamper \/ MirrorStep

-----------------------------------------------------------------------------
(* Damage that is there when a cycle begins, and still there when it reads *)
(* the rows, is reported by that cycle, whatever the mirror writes in      *)
(* between (reconcile.py: injected divergence is caught within ONE cycle). *)
CaughtInOneCycle ==
    LET r == rec.report
    IN  r.done /\ r.damage # {} => \E d \in r.divergences : d.class \in Alarms

(* And an alarm means something.  If nobody touched the index and no index *)
(* write was lost, the only alarms are a broken or absent chain, and those *)
(* the mirror causes by writing while the cycle reads: rows above the      *)
(* chain it had read, or an origin that is still on its way.               *)
AlarmExplained ==
    \A d \in rec.report.divergences :
      tampers = 0 /\ ~lost =>
        /\ d.class \notin {"digest_mismatch", "gap_below_head"}
        /\ d.class = "index_ahead" => d.seq >= rec.report.began /\ d.seq < Len(file.lines)
        /\ d.class = "origin_missing" => origin \/ \E n \in Nodes : worker[n].pc = "origin"

ReconcilerExact == CaughtInOneCycle /\ AlarmExplained
=============================================================================
