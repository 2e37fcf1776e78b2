--------------------------- MODULE ChargingLedger ---------------------------
(* The CSMS's session records of Charging, seen as a SessionLedger.         *)
EXTENDS Charging

\* What the records say of transaction x.
LedgerEntry(x) ==
    IF \E i \in DOMAIN sessions : sessions[i].id = x /\ Active(i) THEN "open"
    ELSE IF \E i \in DOMAIN sessions : sessions[i].id = x THEN "closed"
    ELSE "unknown"

Ledger == INSTANCE SessionLedger
              WITH ledger <- [x \in Transactions |-> LedgerEntry(x)]

\* The CSMS's session records implement the ledger, whatever the charger's
\* connection, resets and faults do to the messages that feed them.
ImplementsLedger == Ledger!Spec

\* With a connection that holds, every session is closed in the end as well.
ImplementsFairLedger == Ledger!FairSpec
=============================================================================
