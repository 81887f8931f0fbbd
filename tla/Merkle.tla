------------------------------- MODULE Merkle -------------------------------
(***************************************************************************)
(* The Merkle tree and its two users: checkpoints in a chain, and the      *)
(* transparency log with its offline proofs.  A hash of two hashes is the  *)
(* pair of them.                                                           *)
(***************************************************************************)
EXTENDS Signed, SequencesExt

CONSTANTS
    Interval,       \* CHECKPOINT_INTERVAL
    MaxEntries,     \* bound: data entries of a chain
    MaxLeaves       \* bound: releases in the log

VARIABLES
    chained,   \* a checkpointed chain as it was written and as it is now, how it was changed, and where
    log,       \* the envelopes in the transparency log
    shown      \* the last bundle shown to a verifier, and its answer

merkleVars == <<chained, log, shown>>

-----------------------------------------------------------------------------
LeafNode(x) == [leaf |-> x]
Pair(a, b) == [l |-> a, r |-> b]
EmptyRoot == LeafNode("empty")

\* The level above: an odd node at the end is paired with itself.
LevelUp(level) ==
    [i \in 1..(Len(level) + 1) \div 2 |-> Pair(level[2 * i - 1], level[IF 2 * i <= Len(level) THEN 2 * i ELSE 2 * i - 1])]

RECURSIVE merkle_root(_)
merkle_root(level) ==
    IF level = << >> THEN EmptyRoot
    ELSE IF Len(level) = 1 THEN level[1] ELSE merkle_root(LevelUp(level))

-----------------------------------------------------------------------------
(* Checkpoints.  An entry's digest covers all of it but its prev.          *)
entry_digest(e) == [seq |-> e.seq, data |-> e.data, root |-> e.root, from |-> e.from, to |-> e.to]
_leaf(e) == LeafNode(<<e.seq, e.data>>)
_is_checkpoint(e) == e.root # None

Genesis == [seq |-> 0, data |-> 0, root |-> None, from |-> 0, to |-> 0, prev |-> None]
LinkTo(entries, e) == Append(entries, [e EXCEPT !.seq = Len(entries), !.prev = entry_digest(Last(entries))])

make_checkpoint(window) ==
    [Genesis EXCEPT !.from = window[1].seq, !.to = Last(window).seq,
                    !.root = merkle_root([i \in DOMAIN window |-> _leaf(window[i])])]

RECURSIVE build_checkpointed_chain(_)
build_checkpointed_chain(n) ==
    IF n = 0 THEN <<Genesis>>
    ELSE LET grown == LinkTo(build_checkpointed_chain(n - 1), [Genesis EXCEPT !.data = n])
         IN  IF n % Interval = 0
             THEN LinkTo(grown, make_checkpoint(SubSeq(grown, Len(grown) - Interval + 1, Len(grown)))) ELSE grown

LinkedAt(entries, i) == entries[i].prev = entry_digest(entries[i - 1])

\* Trust the last checkpoint and follow the links after it.
cold_verify_from_last_checkpoint(entries) ==
    LET cps == {i \in 2..Len(entries) : _is_checkpoint(entries[i])}
        last == IF cps = {} THEN 1 ELSE CHOOSE i \in cps : \A k \in cps : k <= i
    IN  \A i \in last + 1..Len(entries) : LinkedAt(entries, i)

\* Recompute every window's root from the entries that are there.
audit_checkpoints(entries) ==
    \A i \in DOMAIN entries : _is_checkpoint(entries[i]) =>
      LET window == SelectSeq(entries, LAMBDA e : e.seq \in entries[i].from..entries[i].to /\ ~_is_checkpoint(e))
      IN  merkle_root([k \in DOMAIN window |-> _leaf(window[k])]) = entries[i].root

-----------------------------------------------------------------------------
(* The transparency log.                                                   *)
leaf_hash(envelope) == LeafNode(<<0, envelope>>)
Leaves(envelopes) == [i \in DOMAIN envelopes |-> leaf_hash(envelopes[i])]

\* The siblings on the way up; index counts from 0.
RECURSIVE inclusion_proof(_, _)
inclusion_proof(index, level) ==
    IF Len(level) <= 1 THEN << >>
    ELSE LET sib == IF index % 2 = 1 THEN index - 1 ELSE IF index + 1 < Len(level) THEN index + 1 ELSE index
         IN  <<level[sib + 1]>> \o inclusion_proof(index \div 2, LevelUp(level))

\* Recompute the root from the leaf and the path.
verify_inclusion(leaf, index, size, proof, root) ==
    LET Climb(at, sib) ==
          [h |-> IF at.idx % 2 = 0 THEN Pair(at.h, IF at.idx + 1 < at.span THEN sib ELSE at.h) ELSE Pair(sib, at.h),
           idx |-> at.idx \div 2, span |-> (at.span + 1) \div 2]
    IN  /\ 0 <= index /\ index < size
        /\ FoldLeft(Climb, [h |-> leaf, idx |-> index, span |-> size], proof).h = root

signed_tree_head(leaves, key) ==
    sign_ph("sth", [tree_size |-> Len(leaves), root_hash |-> merkle_root(leaves)], key, "publisher-root")

verify_sth(sth, root) == VerifiedAs(sth, "sth", root)

offline_proof(envelope, index, leaves, key) ==
    [leaf |-> leaf_hash(envelope), index |-> index, tree_size |-> Len(leaves),
     inclusion |-> inclusion_proof(index, leaves), sth |-> signed_tree_head(leaves, key)]

verify_offline(bundle, root) ==
    /\ verify_sth(bundle.sth, root)
    /\ bundle.tree_size = bundle.sth.payload.tree_size
    /\ verify_inclusion(bundle.leaf, bundle.index, bundle.sth.payload.tree_size, bundle.inclusion,
                        bundle.sth.payload.root_hash)

-----------------------------------------------------------------------------
Shown(bundle, ok) == [bundle |-> bundle, ok |-> ok]
MerkleInit ==
    /\ \E n \in 0..MaxEntries :
         LET es == build_checkpointed_chain(n) IN chained = [was |-> es, entries |-> es, how |-> "intact", at |-> 0]
    /\ log = << >>
    /\ shown = Shown(None, FALSE)

(* The chain is changed in one place, whichever record it is: one is taken *)
(* out or altered, and a checkpoint may have its root forged or its window *)
(* moved.                                                                  *)
Altered(es, how, i) ==
    CASE how = "gone"   -> RemoveAt(es, i)
      [] how = "data"   -> [es EXCEPT ![i].data = -1]
      [] how = "root"   -> [es EXCEPT ![i].root = EmptyRoot]
      [] how = "widen"  -> [es EXCEPT ![i].to = @ + 1]
      [] how = "narrow" -> [es EXCEPT ![i].to = @ - 1]
TamperChain(how, i) ==
    /\ chained.how = "intact" /\ i \in DOMAIN chained.was
    /\ how \in {"root", "widen", "narrow"} => _is_checkpoint(chained.was[i])
    /\ chained' = [chained EXCEPT !.entries = Altered(@, how, i), !.how = how, !.at = i]
    /\ UNCHANGED <<log, shown>>

(* A release enters the log.                                               *)
AppendLog ==
    /\ Len(log) < MaxLeaves /\ shown.bundle = None
    /\ log' = Append(log, Len(log) + 1)
    /\ UNCHANGED <<chained, shown>>

(* A verifier is shown the proof of a release under the head of this or an *)
(* earlier log: as issued, or with its leaf, its index or its path         *)
(* replaced by parts of other proofs.                                      *)
TreeHashes(leaves) ==
    LET Level[k \in 0..3] == IF k = 0 THEN leaves ELSE LevelUp(Level[k - 1])
    IN  UNION {Range(Level[k]) : k \in 0..3}
Bundles(n) ==
    LET leaves == Leaves(SubSeq(log, 1, n))
        hashes == TreeHashes(leaves) \cup {leaf_hash(0)}
    IN  UNION {LET b == offline_proof(log[i], i - 1, leaves, "root")
               IN  {b} \cup {[b EXCEPT !.leaf = h] : h \in hashes} \cup {[b EXCEPT !.index = j] : j \in 0..n}
                   \cup {[b EXCEPT !.index = j, !.leaf = h] : j \in 0..n, h \in hashes}
                   \cup {[b EXCEPT !.inclusion[k] = h] : k \in DOMAIN b.inclusion, h \in hashes}
                   \cup {[b EXCEPT !.inclusion = Tail(@), !.leaf = h] : h \in {x \in hashes : b.inclusion # << >>}}
                   \cup {[b EXCEPT !.sth = signed_tree_head(leaves, "stranger"), !.leaf = leaf_hash(0)]}
               : i \in 1..n}
Show(n) ==
    \E b \in Bundles(n) :
      /\ shown.bundle = None
      /\ shown' = Shown(b, verify_offline(b, "root"))
      /\ UNCHANGED <<chained, log>>

CheckpointNext ==
    \E how \in {"gone", "data", "root", "widen", "narrow"}, i \in 1..Len(chained.was) : TamperChain(how, i)
LogNext == AppendLog \/ \E n \in 1..Len(log) : Show(n)

-----------------------------------------------------------------------------
(* What the two checks of a chain catch, exactly (checkpoint.py: the audit *)
(* recomputes what a checkpoint commits to, the cold verification re-links *)
(* what follows the last one).  A forged root or a window cut short; a data*)
(* record that some later checkpoint commits to; and the last checkpoint,  *)
(* or genesis where there is none, and what follows it, but for the tip.   *)
(* The rest passes both: a checkpoint before the last one that is removed  *)
(* or changed elsewhere, genesis removed, or altered under a checkpoint.   *)
Guarded(es, how, i) ==
    \/ how \in {"root", "narrow"}
    \/ i > 1 /\ ~_is_checkpoint(es[i]) /\ \E c \in i..Len(es) : _is_checkpoint(es[c])
    \/ i < Len(es) /\ (\A c \in i + 1..Len(es) : ~_is_checkpoint(es[c])) /\ (i > 1 \/ how # "gone")

CheckpointsCatch ==
    (cold_verify_from_last_checkpoint(chained.entries) /\ audit_checkpoints(chained.entries))
        <=> (chained.how = "intact" \/ ~Guarded(chained.was, chained.how, chained.at))

(* An accepted proof whose path is as long as the tree is deep shows that  *)
(* the leaf is the log's, at that index; and the proof the log issues is   *)
(* accepted, under the head it was issued with, however the log has grown  *)
(* since (translog.py: a forged leaf, wrong index, or doctored path all    *)
(* miss).                                                                  *)
Depth(n) == CHOOSE d \in 0..4 : 2^d >= n /\ (d = 0 \/ 2^(d - 1) < n)
InclusionSound ==
    LET b == shown.bundle
    IN  b # None =>
          /\ shown.ok /\ Len(b.inclusion) = Depth(b.tree_size) =>
               b.index + 1 \in DOMAIN log /\ b.leaf = leaf_hash(log[b.index + 1])
          /\ (\E i \in 1..b.tree_size : b = offline_proof(log[i], i - 1, Leaves(SubSeq(log, 1, b.tree_size)), "root"))
               => shown.ok

LogsHold == CheckpointsCatch /\ InclusionSound
=============================================================================
