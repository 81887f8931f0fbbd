--------------------------- MODULE CreditAccount ---------------------------
(***************************************************************************)
(* What a prepaid budget promises, with no ledger behind it: a balance     *)
(* starts at zero, a credit with a given key counts once, and a run is     *)
(* paid for once, out of credits that are there.                           *)
(***************************************************************************)
EXTENDS Integers

CONSTANTS
    Actors,    \* whose balances
    Keys,      \* what a credit is identified by
    Amounts,   \* what a credit can be worth
    Charges,   \* what a run is identified by
    Prices     \* what a run can cost

VARIABLES
    balance,   \* actor -> the credits left
    credited,  \* the <<actor, key>> pairs that were applied
    paid       \* the runs that were paid for

accountVars == <<balance, credited, paid>>

AccountInit ==
    /\ balance = [a \in Actors |-> 0]
    /\ credited = {}
    /\ paid = {}

Credit(a, k, c) ==
    /\ <<a, k>> \notin credited
    /\ credited' = credited \cup {<<a, k>>}
    /\ balance' = [balance EXCEPT ![a] = @ + c]
    /\ UNCHANGED paid

Pay(a, q, p) ==
    /\ q \notin paid
    /\ p <= balance[a]
    /\ paid' = paid \cup {q}
    /\ balance' = [balance EXCEPT ![a] = @ - p]
    /\ UNCHANGED credited

AccountNext == \E a \in Actors :
    \/ \E k \in Keys, c \in Amounts : Credit(a, k, c)
    \/ \E q \in Charges, p \in Prices : Pay(a, q, p)

AccountSpec == AccountInit /\ [][AccountNext]_accountVars
=============================================================================
