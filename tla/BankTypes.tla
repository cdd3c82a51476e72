------------------------------ MODULE BankTypes ------------------------------
(***************************************************************************)
(* The documents of the bank and the requests its clients send: what the   *)
(* Mongoose models Account and Transaction and the zod schemas of the      *)
(* transaction routes say a stored document or a request body may hold.    *)
(* Amounts are whole rupees.                                               *)
(***************************************************************************)
EXTENDS Integers, FiniteSets

CONSTANTS
  User,        \* the users of the application
  Account,     \* the account documents
  Owner,       \* Owner[a]: the user the account belongs to
  Role,        \* Role[u]: the role the session token of u carries
  Opening,     \* Opening[a]: the balance the account starts with
  Frozen,      \* the accounts that are BLOCKED when the model starts
  Amount,      \* the amounts the validators let through
  Request,     \* the money requests clients may send, one id per HTTP request
  Filed,       \* deposits that were filed and are pending when the model starts
  FiledDeposit,\* FiledDeposit[f]: the record of such a deposit
  NoAccount,   \* an account field a record or a request does not have
  NoTxn        \* no record

TxnId == Request \cup Filed

Roles == {"CUSTOMER", "CASHIER", "MANAGER"}

AccountStatus == {"ACTIVE", "BLOCKED", "CLOSED"}

(* An account document; "dispute" says whether freezeDispute is set.       *)
AccountDoc == [balance : Int, status : AccountStatus, dispute : BOOLEAN]

TxnType == {"DEPOSIT", "WITHDRAW", "TRANSFER"}

TxnStatus == {"PENDING", "SUCCESS", "FAILED"}

(* A transaction document: "from" is senderAccount, "to" receiverAccount.  *)
Txn ==
  [type : TxnType, from : Account \cup {NoAccount},
   to : Account \cup {NoAccount}, amount : Amount, status : TxnStatus]

(***************************************************************************)
(* The bodies of the money requests, with the user who sends them. A       *)
(* deposit and a withdrawal name an account by its number, which may match *)
(* no account; a transfer may leave out either account (NoAccount), and    *)
(* then any active account of the user will do.                            *)
(***************************************************************************)
DepositOp == [kind : {"deposit"}, user : User,
              to : Account \cup {NoAccount}, amount : Amount]

WithdrawOp == [kind : {"withdraw"}, user : User,
               from : Account \cup {NoAccount}, amount : Amount]

TransferOp == [kind : {"transfer"}, user : User,
               from : Account \cup {NoAccount}, payee : User,
               to : Account \cup {NoAccount}, amount : Amount]

ApproveOp == [kind : {"approve"}, target : TxnId,
              verdict : {"SUCCESS", "FAILED"}]

Operation == DepositOp \cup WithdrawOp \cup TransferOp \cup ApproveOp

ASSUME OwnerAssumption == Owner \in [Account -> User]
ASSUME RoleAssumption == Role \in [User -> Roles]
ASSUME OpeningAssumption == Opening \in [Account -> Nat]
ASSUME FrozenAssumption == Frozen \subseteq Account
ASSUME AmountAssumption == Amount \subseteq Nat \ {0}
(* There are finitely many accounts and deposits pending at the start; any *)
(* number of requests may arrive.                                          *)
ASSUME FiniteAssumption == IsFiniteSet(Account) /\ IsFiniteSet(Filed)
ASSUME NoAccountAssumption == NoAccount \notin Account
ASSUME NoTxnAssumption == NoTxn \notin Txn
ASSUME FiledAssumption ==
  /\ Filed \cap Request = {}
  /\ FiledDeposit \in [Filed -> Txn]
  /\ \A f \in Filed : /\ FiledDeposit[f].type = "DEPOSIT"
                      /\ FiledDeposit[f].status = "PENDING"
                      /\ FiledDeposit[f].from = NoAccount
                      /\ FiledDeposit[f].to \in Account
(* Documents of the two collections have different ids.                    *)
ASSUME IdAssumption == Account \cap TxnId = {}

OpeningStatus(a) == IF a \in Frozen THEN "BLOCKED" ELSE "ACTIVE"

(***************************************************************************)
(* The balances after a record is posted: the receiving account is         *)
(* credited, any other account the record names as sender is debited. It   *)
(* is the rule by which a statement labels a record CREDIT or DEBIT.       *)
(***************************************************************************)
Posted(bal, txn) ==
  [a \in Account |-> IF a = txn.to THEN bal[a] + txn.amount
                     ELSE IF a = txn.from THEN bal[a] - txn.amount
                     ELSE bal[a]]
=============================================================================
