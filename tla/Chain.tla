------------------------------- MODULE Chain -------------------------------
(***************************************************************************)
(* The chained JSONL file: what durable_append does to it, and what        *)
(* verify_chain and the reconciler read out of it.                         *)
(*                                                                         *)
(* A file is its complete lines and whether a fragment without newline     *)
(* follows them.  A line's digest covers all of it except its prev: it is  *)
(* modelled as that rest of the line, so digests collide as little as the  *)
(* lines themselves.                                                       *)
(***************************************************************************)
EXTENDS Integers, Sequences

ZERO == [type |-> "zero", seq |-> 0, job |-> 0]

link_digest(line) == [type |-> line.type, seq |-> line.seq, job |-> line.job]

EmptyFile == [lines |-> <<>>, torn |-> FALSE]

(* os.path.getsize(path) == 0                                              *)
IsEmpty(file) == file.lines = <<>> /\ ~file.torn

(* The record linked to the tip, the last complete line.                   *)
Linked(file, type, job) ==
    IF file.lines = <<>>
    THEN [type |-> type, job |-> job, seq |-> 0, prev |-> ZERO]
    ELSE LET tip == file.lines[Len(file.lines)]
         IN  [type |-> type, job |-> job, seq |-> tip.seq + 1, prev |-> link_digest(tip)]

(* mutant: the tail is not healed, the new line is glued to the fragment   *)
AppendedTo_unhealed(file, type, job) ==
    IF file.torn THEN [lines |-> file.lines, torn |-> TRUE]
    ELSE [lines |-> Append(file.lines, Linked(file, type, job)), torn |-> FALSE]

(* mutant: the cut falls one line too early                                *)
AppendedTo_cuts_tip(file, type, job) ==
    [lines |-> Append(IF file.torn /\ file.lines # <<>>
                      THEN SubSeq(file.lines, 1, Len(file.lines) - 1) ELSE file.lines,
                      Linked(file, type, job)), torn |-> FALSE]

(* Cut the fragment, write the line, fsync.                                *)
AppendedTo(file, type, job) ==
    [lines |-> Append(file.lines, Linked(file, type, job)), torn |-> FALSE]

(* The append raises: before the file was touched, after the cut, after a  *)
(* part of the line, or (fsync) after all of it.                           *)
Failures == {"before", "cut", "part", "all"}
FailedAppend(file, type, job, how) ==
    CASE how = "before" -> file
      [] how = "cut"    -> [lines |-> file.lines, torn |-> FALSE]
      [] how = "part"   -> [lines |-> file.lines, torn |-> TRUE]
      [] how = "all"    -> AppendedTo(file, type, job)

(* verify_chain: one genesis, at the front; prev and seq follow the line   *)
(* before.                                                                 *)
verify_chain(lines) ==
    /\ lines # <<>>
    /\ lines[1].type = "genesis" /\ lines[1].prev = ZERO
    /\ \A i \in 2..Len(lines) :
         /\ lines[i].type # "genesis"
         /\ lines[i].prev = link_digest(lines[i - 1])
         /\ lines[i].seq = lines[i - 1].seq + 1
=============================================================================
