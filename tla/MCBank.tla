-------------------------------- MODULE MCBank --------------------------------
(***************************************************************************)
(* Small instances of Bank for TLC: two customers, a cashier and a         *)
(* manager; alice has the accounts a1 and a2, bob has b1, which is frozen. *)
(***************************************************************************)
EXTENDS Reports, TLC

CONSTANTS a1, a2, b1, f1, r1, r2, m1, m2, alice, bob, cashier, manager

MCOwner == a1 :> alice @@ a2 :> alice @@ b1 :> bob
MCRole == alice :> "CUSTOMER" @@ bob :> "CUSTOMER"
          @@ cashier :> "CASHIER" @@ manager :> "MANAGER"
MCOpening == a1 :> 2 @@ a2 :> 0 @@ b1 :> 1
MCFiledDeposit ==
  f1 :> [type |-> "DEPOSIT", from |-> NoAccount, to |-> a1, amount |-> 2,
         status |-> "PENDING"]

Deposit(u, a, n) == [kind |-> "deposit", user |-> u, to |-> a, amount |-> n]
Withdraw(u, a, n) == [kind |-> "withdraw", user |-> u, from |-> a, amount |-> n]
Transfer(u, a, v, b, n) ==
  [kind |-> "transfer", user |-> u, from |-> a, payee |-> v, to |-> b, amount |-> n]
Approve(t, v) == [kind |-> "approve", target |-> t, verdict |-> v]

(* Every kind of request, with those that must fail: a withdrawal by a     *)
(* cashier, a deposit to an unknown number, an approval of nothing.        *)
MCOperations ==
  {Deposit(alice, a1, 2), Deposit(bob, a1, 1), Deposit(cashier, a2, 1), Deposit(cashier, NoAccount, 1),
   Withdraw(alice, a1, 2), Withdraw(manager, b1, 1), Withdraw(cashier, a1, 1),
   Transfer(alice, a1, bob, b1, 2), Transfer(alice, NoAccount, alice, NoAccount, 1)}
  \cup {Approve(t, v) : t \in TxnId, v \in {"SUCCESS", "FAILED"}}

Status(a, s) == [kind |-> "status", account |-> a, status |-> s]
Freeze(u, a) == [kind |-> "freeze", user |-> u, account |-> a]
Unfreeze(u, a) == [kind |-> "unfreeze", user |-> u, account |-> a]
Dispute(u, a) == [kind |-> "dispute", user |-> u, account |-> a]

MCTaskOperations ==
  {Status(a1, "BLOCKED"), Freeze(manager, a1), Unfreeze(manager, b1),
   Dispute(bob, b1), Dispute(alice, a1)}

(* A smaller choice for the run that checks liveness.                      *)
MCLiveOperations ==
  {Deposit(cashier, a1, 1), Withdraw(alice, a1, 2), Transfer(alice, a1, bob, b1, 2),
   Approve(f1, "SUCCESS"), Approve(f1, "FAILED")}

MCLiveTaskOperations ==
  {Freeze(manager, a1), Unfreeze(manager, b1)}

Symmetry == Permutations(Request) \cup Permutations(Task)

(***************************************************************************)
(* What the documents say and the code does not do.                        *)
(***************************************************************************)

(* account.controller.js:338: only blocked accounts can be disputed.       *)
DisputesConcernBlocked ==
  \A a \in Account : accounts[a].dispute => accounts[a].status = "BLOCKED"

(* docs/idea.md:50, docs/timeline.md:122: a transfer debits one side and   *)
(* credits the other, so that only deposits and withdrawals change what    *)
(* the bank holds in all.                                                  *)
Inflow(t) ==
  LET txn == ledger[t]
  IN  CASE txn = NoTxn -> 0
        [] txn # NoTxn /\ txn.status # "SUCCESS" -> 0
        [] txn # NoTxn /\ txn.status = "SUCCESS" ->
             CASE txn.type = "DEPOSIT"  -> txn.amount
               [] txn.type = "WITHDRAW" -> 0 - txn.amount
               [] txn.type = "TRANSFER" -> 0

TransfersKeepTheTotal ==
  MapThenSumSet(LAMBDA a : accounts[a].balance, Account) =
    MapThenSumSet(LAMBDA a : Opening[a], Account) + MapThenSumSet(Inflow, TxnId)

(* docs/timeline.md:123, backend/tests/concurrency.js:103: an operation    *)
(* that is answered with an error was rolled back and has moved nothing.   *)
ErrorsMoveNothing ==
  \A r \in Request : answer[r] = "error" => ledger[r] = NoTxn
=============================================================================
