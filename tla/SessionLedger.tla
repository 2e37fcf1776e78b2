---------------------------- MODULE SessionLedger ---------------------------
(* What the CSMS's session records promise for one charger: sessions are    *)
(* opened one at a time, in the order in which the transactions were begun, *)
(* each at most once, and a session that was opened is closed and stays so. *)
EXTENDS Integers

CONSTANT Transactions    \* the transaction ids, in the order of their issue

VARIABLE ledger          \* what the CSMS knows of each transaction

Init == ledger = [x \in Transactions |-> "unknown"]

\* A transaction may stay unknown for good: its Started may get lost.
Open(x) ==
    /\ \A y \in Transactions : ledger[y] # "open"
    /\ \A y \in Transactions : y >= x => ledger[y] = "unknown"
    /\ ledger' = [ledger EXCEPT ![x] = "open"]

Close(x) ==
    /\ ledger[x] = "open"
    /\ ledger' = [ledger EXCEPT ![x] = "closed"]

Next == \E x \in Transactions : Open(x) \/ Close(x)

Spec == Init /\ [][Next]_ledger

\* A session that is open is closed in the end.
FairSpec == Spec /\ \A x \in Transactions : WF_ledger(Close(x))
=============================================================================
