------------------------------ MODULE BankLedger ------------------------------
(***************************************************************************)
(* What the bank promises, with no requests, sessions or retries in sight: *)
(* every money operation happens in one step. A record enters the ledger   *)
(* together with its effect on the balances; money moves only on active    *)
(* accounts and only as far as they are covered; a pending deposit is      *)
(* decided once. Managers may set the status of an account at any time.    *)
(***************************************************************************)
EXTENDS BankTypes

VARIABLES
  balance,  \* balance[a]
  status,   \* status[a]: ACTIVE, BLOCKED or CLOSED
  records   \* records[t]: the record t of the ledger, or NoTxn

ledgerVars == <<balance, status, records>>

Init ==
  /\ balance = Opening
  /\ status = [a \in Account |-> OpeningStatus(a)]
  /\ records = [t \in TxnId |-> IF t \in Filed THEN FiledDeposit[t] ELSE NoTxn]

(* The accounts a record names, and whether it may be posted now.          *)
Parties(txn) == {txn.from, txn.to} \ {NoAccount}

Postable(txn) ==
  /\ \A a \in Parties(txn) : status[a] = "ACTIVE"
  /\ txn.from # NoAccount => balance[txn.from] >= txn.amount

(* A record enters the ledger: the one it holds after the step.            *)
Enter(t) ==
  /\ records[t] = NoTxn
  /\ records'[t] \in Txn
  /\ records' = [records EXCEPT ![t] = records'[t]]

(* A customer files a deposit; no money moves.                             *)
FileDeposit(t) ==
  /\ Enter(t)
  /\ records'[t].type = "DEPOSIT" /\ records'[t].status = "PENDING"
  /\ UNCHANGED <<balance, status>>

(* A staff deposit, a withdrawal or a transfer.                            *)
Post(t) ==
  /\ Enter(t)
  /\ records'[t].status = "SUCCESS"
  /\ Postable(records'[t])
  /\ balance' = Posted(balance, records'[t])
  /\ UNCHANGED status

(* A pending deposit is approved, and credited, or rejected.               *)
Approve(t) ==
  /\ records[t] # NoTxn
  /\ records[t].status = "PENDING"
  /\ Postable(records[t])
  /\ records' = [records EXCEPT ![t].status = "SUCCESS"]
  /\ balance' = Posted(balance, records[t])
  /\ UNCHANGED status

Reject(t) ==
  /\ records[t] # NoTxn
  /\ records[t].status = "PENDING"
  /\ records' = [records EXCEPT ![t].status = "FAILED"]
  /\ UNCHANGED <<balance, status>>

SetStatus(a, s) ==
  /\ status' = [status EXCEPT ![a] = s]
  /\ UNCHANGED <<balance, records>>

Next ==
  \/ \E t \in TxnId : FileDeposit(t) \/ Post(t) \/ Approve(t) \/ Reject(t)
  \/ \E a \in Account, s \in AccountStatus : SetStatus(a, s)

Spec == Init /\ [][Next]_ledgerVars
=============================================================================
