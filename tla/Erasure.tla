------------------------------ MODULE Erasure ------------------------------
(***************************************************************************)
(* Crypto-shredding: the subject fields of a record are sealed under a     *)
(* data key of its own, and forgetting the key erases them while the       *)
(* chained ciphertext stays.  A sealed field is the key, the id bound to   *)
(* it and the value.                                                       *)
(***************************************************************************)
EXTENDS Option, Integers, Sequences

CONSTANT MaxRecords    \* bound: sealed records

VARIABLES
    ledger,    \* the sealed records, in order
    keyring,   \* dek id -> DEK
    shredded   \* history: the DEKs destroyed or replaced

shredVars == <<ledger, keyring, shredded>>
DekIds == {"a", "b"}

-----------------------------------------------------------------------------
seal_fields(subject, dek, id) == [dek |-> id, sealed |-> [key |-> dek, aad |-> id, value |-> subject]]
open_fields(record, ring) ==
    IF record.dek \notin DOMAIN ring \/ ring[record.dek] # record.sealed.key \/ record.sealed.aad # record.dek
    THEN None ELSE record.sealed.value

\* A record is sealed under a fresh key, its id new or used before.
SealRecord(id) ==
    LET dek == Len(ledger) + 1
    IN  /\ Len(ledger) < MaxRecords
        /\ ledger' = Append(ledger, seal_fields(dek, dek, id))
        /\ shredded' = IF id \in DOMAIN keyring THEN shredded \cup {keyring[id]} ELSE shredded
        /\ keyring' = [i \in DOMAIN keyring \cup {id} |-> IF i = id THEN dek ELSE keyring[i]]

Destroy(id) ==
    /\ id \in DOMAIN keyring
    /\ shredded' = shredded \cup {keyring[id]}
    /\ keyring' = [i \in DOMAIN keyring \ {id} |-> keyring[i]]
    /\ UNCHANGED ledger

ErasureInit == ledger = << >> /\ keyring = << >> /\ shredded = {}
ShredNext == \E id \in DekIds : SealRecord(id) \/ Destroy(id)

-----------------------------------------------------------------------------
(* A sealed record opens exactly until its key is destroyed, or replaced   *)
(* by one for a record that reuses its id (shred.py: the erased subject    *)
(* can no longer be read, every other record is unaffected).               *)
ErasureExact ==
    \A i \in DOMAIN ledger : open_fields(ledger[i], keyring) = IF i \in shredded THEN None ELSE i
=============================================================================
