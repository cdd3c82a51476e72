--------------------------------- MODULE Bank ---------------------------------
(***************************************************************************)
(* The bank: the money handlers and the account handlers over the same     *)
(* account documents, in one server process that may die and restart, and  *)
(* the properties the whole has. BankLedger is what it promises.           *)
(***************************************************************************)
EXTENDS AccountController, FiniteSetsExt

vars == <<controllerVars, taskVars>>

Init == ControllerInit /\ AccountInit

Crash == ControllerCrash /\ TasksDie

Next ==
  \/ ControllerNext /\ UNCHANGED taskVars
  \/ AccountNext
  \/ Crash

Spec == Init /\ [][Next]_vars

(***************************************************************************)
(* Node keeps running a handler whose database call has returned, and      *)
(* MongoDB aborts an orphaned transaction; clients need not send anything  *)
(* and nothing need fail.                                                  *)
(***************************************************************************)
Fairness ==
  /\ \A r \in Request : WF_vars(Handle(r) /\ UNCHANGED taskVars)
  /\ \A m \in Task : WF_vars(SaveAccount(m))

FairSpec == Spec /\ Fairness

-----------------------------------------------------------------------------
TypeOK == ControllerTypeOK /\ AccountTypeOK

(* No account is ever overdrawn: of concurrent debits that together exceed *)
(* the balance, those that lose the race must fail or retry and see it.    *)
NeverOverdrawn == \A a \in Account : accounts[a].balance >= 0

(* A balance changes only while the account is active, although the status *)
(* was checked several steps before the commit and managers change it      *)
(* outside any transaction.                                                *)
MoneyMovesOnlyOnActive ==
  [][\A a \in Account :
       accounts'[a].balance # accounts[a].balance =>
         accounts[a].status = "ACTIVE" /\ accounts'[a].status = "ACTIVE"]_vars

(* A deposit is decided once: a record never leaves the ledger, and only a *)
(* pending one changes, into itself with a verdict. Two cashiers who race  *)
(* over the same deposit cannot both decide it.                            *)
Decides(old, new) ==
  /\ old.status = "PENDING"
  /\ \E v \in {"SUCCESS", "FAILED"} : new = [old EXCEPT !.status = v]

DecisionsAreFinal ==
  [][\A t \in TxnId : ledger[t] # NoTxn =>
       ledger'[t] = ledger[t] \/ Decides(ledger[t], ledger'[t])]_vars

(* runInTransaction retries an attempt only if it left nothing behind: no  *)
(* request whose record is in the ledger runs its body again.              *)
NoRetryAfterCommit ==
  \A r \in Request : pc[r] \in InBody \cup {"start"} => ledger[r] = NoTxn

(* A client that is told "success" finds the operation in the ledger, and  *)
(* an alert goes out only about money that is there.                       *)
Recorded(r) ==
  IF op[r].kind = "approve"
  THEN ledger[op[r].target] # NoTxn /\ ledger[op[r].target].status = op[r].verdict
  ELSE ledger[r] # NoTxn

AnswersAreTrue ==
  /\ \A r \in Request : answer[r] = "ok" => Recorded(r)
  /\ \A alert \in alerts : Recorded(alert[1])

(* What enters the ledger is what its client asked for, although an        *)
(* attempt may be repeated over documents that have changed: the amount,   *)
(* and accounts he named. A withdrawal is of the owner or of a manager, a  *)
(* transfer goes from an account of the sender to one of the payee.        *)
Asked(r, x) ==
  LET o == op[r]
  IN  /\ o.kind # "approve" /\ x.amount = o.amount
      /\ x.type = "DEPOSIT"  => o.kind = "deposit" /\ x.to = o.to
      /\ x.type = "WITHDRAW" => /\ o.kind = "withdraw" /\ x.from = o.from
                                /\ Role[o.user] = "MANAGER" \/ Owner[x.from] = o.user
      /\ x.type = "TRANSFER" => /\ o.kind = "transfer"
                                /\ Owner[x.from] = o.user /\ o.from \in {x.from, NoAccount}
                                /\ Owner[x.to] = o.payee /\ o.to \in {x.to, NoAccount}

RecordsWereAsked ==
  \A r \in Request : ledger[r] # NoTxn => Asked(r, ledger[r])

(* The balance of every account is what it opened with plus the records    *)
(* that name it, each counted as a statement labels it: a credit if the    *)
(* account is the receiver, else a debit. No retry, race or crash loses or *)
(* doubles a record's effect.                                              *)
Entered == {t \in TxnId : ledger[t] # NoTxn}

Effect(t, a) ==
  LET txn == ledger[t]
  IN  IF txn.status # "SUCCESS" THEN 0
      ELSE IF txn.to = a THEN txn.amount
      ELSE IF txn.from = a THEN 0 - txn.amount
      ELSE 0

BalanceMatchesLedger ==
  \A a \in Account :
    accounts[a].balance = Opening[a] + SumFunction([t \in Entered |-> Effect(t, a)])

(* The handlers implement the ledger's one-step operations.                *)
Ledger == INSTANCE BankLedger WITH
            balance <- [a \in Account |-> accounts[a].balance],
            status  <- [a \in Account |-> accounts[a].status],
            records <- ledger

ImplementsLedger == Ledger!Spec

-----------------------------------------------------------------------------
(***************************************************************************)
(* Why it works: an inductive invariant. While a body runs, its writes are *)
(* locked against everybody and the documents it loaded are still current, *)
(* or else they are stale and the save it is about to do will fail.        *)
(***************************************************************************)

(* The accounts and the transaction document a record type calls for.      *)
Shape(x) ==
  /\ x.type = "DEPOSIT" => x.from = NoAccount /\ x.to \in Account
  /\ x.type = "WITHDRAW" => x.from \in Account /\ x.to = NoAccount
  /\ x.type = "TRANSFER" => x.from \in Account /\ x.to \in Account
  /\ x.type # "DEPOSIT" => x.status = "SUCCESS"

Approves(r) == op[r].kind = "approve"

(* The documents a running body has written when it is at pc[r].           *)
SavedAccounts(r) ==
  CASE pc[r] = "debit"  -> {}
    [] pc[r] = "credit" -> {record[r].from} \ {NoAccount}
    [] pc[r] \in {"decide", "commit"} ->
         IF record[r].status = "SUCCESS"
         THEN {record[r].from, record[r].to} \ {NoAccount} ELSE {}

SavedRecords(r) ==
  IF ~Approves(r) THEN {r}
  ELSE IF pc[r] = "commit" THEN {op[r].target} ELSE {}

LedgerInv == \A t \in TxnId : ledger[t] # NoTxn => Shape(ledger[t])

(* Where a request is says what it holds.                                  *)
PhaseInv(r) ==
  /\ pc[r] # "new" => op[r] \in Operations
  /\ pc[r] \in {"new", "start"} => attempt[r] < MaxAttempts
  /\ pc[r] \notin InBody \cup {"orphan"} => dirty[r] = {}
  /\ pc[r] \in InBody \cup {"new", "start"} => ledger[r] = NoTxn
  /\ pc[r] \in AfterCommit \/ answer[r] = "ok" => pc[r] # "new" /\ Recorded(r)
  /\ pc[r] \in {"lookup", "alertSender"} => op[r].kind = "transfer"
  /\ pc[r] \in InBody \cup AfterCommit => Addressee(r) \in User

(* A running body: its record, what it has written, and the cover it saw.  *)
BodyInv(r) ==
  LET x == record[r]
  IN  InTxn(r) =>
        /\ x \in Txn /\ Shape(x)
        /\ dirty[r] = SavedAccounts(r) \cup SavedRecords(r)
        /\ Approves(r) => x.type = "DEPOSIT" /\ x.status = op[r].verdict
        /\ ~Approves(r) => x.status # "FAILED"
        /\ pc[r] = "debit" => x.type # "DEPOSIT"
        /\ pc[r] = "credit" => x.type # "WITHDRAW"
        /\ pc[r] = "decide" => Approves(r)
        /\ pc[r] \in {"debit", "credit"} => x.status = "SUCCESS"
        /\ x.from # NoAccount => loaded[r][x.from] >= x.amount

ImageInv(r) ==
  LET x == record[r]
  IN  InTxn(r) => \A a \in Account \cap dirty[r] :
        image[r][a] = IF a = x.to /\ pc[r] # "credit"
                      THEN loaded[r][a] + x.amount ELSE loaded[r][a] - x.amount

(* What is not stale is as it was loaded; what is written is not stale.    *)
FreshInv(r) ==
  LET x == record[r]
  IN  InTxn(r) =>
        /\ dirty[r] \cap stale[r] = {}
        /\ \A a \in Account \ stale[r] :
             /\ loaded[r][a] = accounts[a].balance
             /\ x.status = "SUCCESS" /\ a \in {x.from, x.to} =>
                  accounts[a].status = "ACTIVE"
        /\ Approves(r) =>
             /\ ledger[op[r].target] # NoTxn
             /\ op[r].target \notin stale[r] =>
                  /\ ledger[op[r].target].status = "PENDING"
                  /\ x = [ledger[op[r].target] EXCEPT !.status = op[r].verdict]

(* A transaction document in a write set is the request's own new one or   *)
(* one that is in the ledger; two requests never write the same document.  *)
LockInv(r) ==
  /\ \A t \in TxnId \cap dirty[r] : t = r \/ ledger[t] # NoTxn
  /\ \A q \in Request \ {r} : dirty[q] \cap dirty[r] = {}

(* An alert was handed over by a request that is done with its record; a   *)
(* task that saves has a body.                                             *)
AlertInv == \A alert \in alerts : pc[alert[1]] # "new" /\ Recorded(alert[1])

TaskInv == \A m \in Task : taskPc[m] = "save" => task[m] \in TaskOperations

Inv ==
  /\ TypeOK
  /\ NeverOverdrawn
  /\ LedgerInv
  /\ \A r \in Request :
       PhaseInv(r) /\ BodyInv(r) /\ ImageInv(r) /\ FreshInv(r) /\ LockInv(r)
  /\ AlertInv
  /\ TaskInv

-----------------------------------------------------------------------------
(* Every request that arrives is answered or dies with the process, and    *)
(* every account save finds the document unlocked in the end.              *)
EveryRequestEnds ==
  /\ \A r \in Request : pc[r] # "new" ~> pc[r] \in Finished
  /\ \A m \in Task : taskPc[m] = "save" ~> taskPc[m] # "save"
=============================================================================
