------------------------ MODULE TransactionController ------------------------
(***************************************************************************)
(* The money handlers of the Express server (deposit, withdraw,            *)
(* transferMoney and approveDeposit) and runInTransaction, the wrapper     *)
(* that runs their bodies in a MongoDB transaction and retries it. Each    *)
(* request is a process: the handler awaits the database at every step, so *)
(* the steps of the requests interleave.                                   *)
(*                                                                         *)
(* MongoDB gives a transaction a snapshot, taken at its first read. A      *)
(* write of a document that another open transaction has written, or that  *)
(* somebody committed after the snapshot, is a WriteConflict and aborts    *)
(* the transaction. Uncommitted writes are seen by nobody else.            *)
(***************************************************************************)
EXTENDS BankTypes

CONSTANTS
  Operations,   \* the request bodies clients may send
  MaxAttempts,  \* how often runInTransaction tries
  MaxCrashes,   \* bound: how often the server process dies
  NoOp          \* the body of a request that has not arrived

ASSUME OperationsAssumption == Operations \subseteq Operation
ASSUME NoOpAssumption == NoOp \notin Operation
ASSUME MaxAttemptsAssumption == MaxAttempts \in Nat \ {0}
ASSUME MaxCrashesAssumption == MaxCrashes \in Nat

VARIABLES
  accounts,  \* accounts[a]: the committed account document
  ledger,    \* ledger[t]: the committed transaction document, or NoTxn
  op,        \* op[r]: the body of request r
  pc,        \* pc[r]: what the handler of r does next
  attempt,   \* attempt[r]: the attempts runInTransaction has begun
  loaded,    \* loaded[r][a]: the balance of a in the snapshot of r
  record,    \* record[r]: the transaction document r creates or updates
  dirty,     \* dirty[r]: the documents r has written and not committed
  image,     \* image[r][a]: the balance r has written to a dirty account a
  stale,     \* stale[r]: documents others committed since r's snapshot
  answer,    \* answer[r]: the HTTP answer, "none", "ok" or "error"
  alerts,    \* the alerts handed to the queue, as <<request, user>>
  crashes    \* how often the process has died

docs == <<accounts, ledger>>
session == <<loaded, record, dirty, image, stale>>
control == <<op, pc, attempt, answer>>
controllerVars == <<docs, session, control, alerts, crashes>>

Doc == Account \cup TxnId

(***************************************************************************)
(* Where a handler can be. A body in its transaction is about to save the  *)
(* sender account ("debit"), the receiver account ("credit") or the        *)
(* pending deposit ("decide"), or to commit. After the commit it looks up  *)
(* the receiver and hands over its alerts. "orphan" is a transaction whose *)
(* process died and which the server has not aborted yet.                  *)
(***************************************************************************)
InBody == {"debit", "credit", "decide", "commit"}
AfterCommit == {"lookup", "alertSender", "alertOwner"}
Finished == {"done", "lost"}
PC == {"new", "start", "orphan"} \cup InBody \cup AfterCommit \cup Finished

InTxn(r) == pc[r] \in InBody

Balances == [a \in Account |-> accounts[a].balance]
IsActive(a) == a \in Account /\ accounts[a].status = "ACTIVE"

ControllerInit ==
  /\ accounts = [a \in Account |-> [balance |-> Opening[a],
                                    status |-> OpeningStatus(a), dispute |-> FALSE]]
  /\ ledger = [t \in TxnId |-> IF t \in Filed THEN FiledDeposit[t] ELSE NoTxn]
  /\ op = [r \in Request |-> NoOp]
  /\ pc = [r \in Request |-> "new"]
  /\ attempt = [r \in Request |-> 0]
  /\ loaded = [r \in Request |-> Opening]
  /\ record = [r \in Request |-> NoTxn]
  /\ dirty = [r \in Request |-> {}]
  /\ image = [r \in Request |-> Opening]
  /\ stale = [r \in Request |-> {}]
  /\ answer = [r \in Request |-> "none"]
  /\ alerts = {}
  /\ crashes = 0

-----------------------------------------------------------------------------
(* Sessions *)

(* The first read takes the snapshot. The new transaction document of a    *)
(* body is created in the same step: nobody else knows its id, so that     *)
(* write never conflicts.                                                  *)
BeginTxn(r, txn, next, written) ==
  /\ loaded' = [loaded EXCEPT ![r] = Balances]
  /\ record' = [record EXCEPT ![r] = txn]
  /\ dirty' = [dirty EXCEPT ![r] = written]
  /\ stale' = [stale EXCEPT ![r] = {}]
  /\ attempt' = [attempt EXCEPT ![r] = @ + 1]
  /\ pc' = [pc EXCEPT ![r] = next]
  /\ UNCHANGED <<docs, image, op, answer, alerts, crashes>>

(* Mutant: an ended session leaves its write locks behind.                 *)
EndTxnKeepingLocks(r, next, ans) ==
  /\ loaded' = [loaded EXCEPT ![r] = Opening]
  /\ record' = [record EXCEPT ![r] = NoTxn]
  /\ image' = [image EXCEPT ![r] = Opening]
  /\ pc' = [pc EXCEPT ![r] = next]
  /\ answer' = [answer EXCEPT ![r] = ans]
  /\ UNCHANGED <<dirty, op, attempt, alerts, crashes>>

(* endSession, and what the handler does next.                             *)
EndTxn(r, next, ans) ==
  /\ loaded' = [loaded EXCEPT ![r] = Opening]
  /\ record' = [record EXCEPT ![r] = NoTxn]
  /\ dirty' = [dirty EXCEPT ![r] = {}]
  /\ image' = [image EXCEPT ![r] = Opening]
  /\ pc' = [pc EXCEPT ![r] = next]
  /\ answer' = [answer EXCEPT ![r] = ans]
  /\ UNCHANGED <<op, attempt, alerts, crashes>>

(* Mutant: only open writers conflict, not commits after the snapshot.     *)
WriteConflictOnLocks(r, d) == \E q \in Request \ {r} : d \in dirty[q]

WriteConflict(r, d) ==
  d \in stale[r] \/ \E q \in Request \ {r} : d \in dirty[q]

(* A committed write makes the document stale for the open transactions.   *)
Overwrite(written, except) ==
  stale' = [q \in Request |->
              IF InTxn(q) /\ q # except THEN stale[q] \cup written ELSE {}]

(* Mutants: one attempt too many; the loop ends without rethrowing, so the *)
(* handler goes on as if the body had returned.                            *)
AbortTransientOnceMore(r) ==
  /\ IF attempt[r] <= MaxAttempts THEN EndTxn(r, "start", "none")
                                  ELSE EndTxn(r, "done", "error")
  /\ stale' = [stale EXCEPT ![r] = {}]
  /\ UNCHANGED docs

AbortTransientSwallowed(r) ==
  /\ IF attempt[r] < MaxAttempts THEN EndTxn(r, "start", "none")
                                 ELSE EndTxn(r, "alertOwner", "none")
  /\ stale' = [stale EXCEPT ![r] = {}]
  /\ UNCHANGED docs

(* The catch block: a transient error is retried until the attempts run    *)
(* out, any other error goes to the client.                                *)
AbortTransient(r) ==
  /\ IF attempt[r] < MaxAttempts THEN EndTxn(r, "start", "none")
                                 ELSE EndTxn(r, "done", "error")
  /\ stale' = [stale EXCEPT ![r] = {}]
  /\ UNCHANGED docs

AbortFatal(r) ==
  /\ EndTxn(r, "done", "error")
  /\ stale' = [stale EXCEPT ![r] = {}]
  /\ UNCHANGED docs

-----------------------------------------------------------------------------
(* Requests arrive. The checks before the transaction (TPIN, 2FA code,     *)
(* schema) refuse some of them without touching the bank's documents.      *)

Receive(r) ==
  /\ pc[r] = "new"
  /\ \E o \in Operations : op' = [op EXCEPT ![r] = o]
  /\ pc' = [pc EXCEPT ![r] = "start"]
  /\ UNCHANGED <<docs, session, attempt, answer, alerts, crashes>>

Refuse(r) ==
  /\ pc[r] = "start" /\ attempt[r] = 0
  /\ pc' = [pc EXCEPT ![r] = "done"]
  /\ answer' = [answer EXCEPT ![r] = "error"]
  /\ UNCHANGED <<docs, session, op, attempt, alerts, crashes>>

(***************************************************************************)
(* The bodies up to their first save, and the AppError each may throw. An  *)
(* AppError aborts the attempt and is not retried.                         *)
(***************************************************************************)
AtStart(r, kind) == pc[r] = "start" /\ op[r].kind = kind

IsStaff(u) == Role[u] \in {"CASHIER", "MANAGER"}

MayDeposit(o) == IsActive(o.to)

BeginDeposit(r) ==
  LET o == op[r]
      txn == [type |-> "DEPOSIT", from |-> NoAccount, to |-> o.to,
              amount |-> o.amount,
              status |-> IF IsStaff(o.user) THEN "SUCCESS" ELSE "PENDING"]
  IN  /\ AtStart(r, "deposit")
      /\ MayDeposit(o)
      /\ BeginTxn(r, txn, IF IsStaff(o.user) THEN "credit" ELSE "commit", {r})

(* Mutant: the balance is not checked.                                     *)
MayWithdrawUncovered(o) ==
  /\ IsActive(o.from)
  /\ Role[o.user] = "MANAGER" \/ Owner[o.from] = o.user

MayWithdraw(o) ==
  /\ IsActive(o.from)
  /\ Role[o.user] = "MANAGER" \/ Owner[o.from] = o.user
  /\ accounts[o.from].balance >= o.amount

BeginWithdraw(r) ==
  LET o == op[r]
      txn == [type |-> "WITHDRAW", from |-> o.from, to |-> NoAccount,
              amount |-> o.amount, status |-> "SUCCESS"]
  IN  /\ AtStart(r, "withdraw")
      /\ MayWithdraw(o)
      /\ BeginTxn(r, txn, "debit", {r})

(* Mutant: the accounts are looked up without their owner.                 *)
CandidatesOfAnybody(user, named) ==
  {a \in Account : IsActive(a) /\ named \in {a, NoAccount}}

(* The accounts findOne may return: the named one or, if none is named,    *)
(* any, if it belongs to the user and is active.                           *)
Candidates(user, named) ==
  {a \in Account : Owner[a] = user /\ IsActive(a) /\ named \in {a, NoAccount}}

BeginTransfer(r) ==
  /\ AtStart(r, "transfer")
  /\ \E from \in Candidates(op[r].user, op[r].from),
        to \in Candidates(op[r].payee, op[r].to) :
       /\ accounts[from].balance >= op[r].amount
       /\ BeginTxn(r, [type |-> "TRANSFER", from |-> from, to |-> to,
                       amount |-> op[r].amount, status |-> "SUCCESS"],
                   "debit", {r})

IsPending(t) == ledger[t] # NoTxn /\ ledger[t].status = "PENDING"

(* Mutants: a decided deposit is decided again; a deposit to a frozen or   *)
(* closed account is approved.                                             *)
MayApproveAgain(o) ==
  /\ ledger[o.target] # NoTxn
  /\ ledger[o.target].type = "DEPOSIT"
  /\ o.verdict = "SUCCESS" => IsActive(ledger[o.target].to)

MayApproveInactive(o) == IsPending(o.target) /\ ledger[o.target].type = "DEPOSIT"

MayApprove(o) ==
  /\ IsPending(o.target)
  /\ ledger[o.target].type = "DEPOSIT"
  /\ o.verdict = "SUCCESS" => IsActive(ledger[o.target].to)

BeginApprove(r) ==
  LET o == op[r]
  IN  /\ AtStart(r, "approve")
      /\ MayApprove(o)
      /\ BeginTxn(r, [ledger[o.target] EXCEPT !.status = o.verdict],
                  IF o.verdict = "SUCCESS" THEN "credit" ELSE "decide", {})

MustThrow(o) ==
  CASE o.kind = "deposit"  -> ~MayDeposit(o)
    [] o.kind = "withdraw" -> ~MayWithdraw(o)
    [] o.kind = "transfer" ->
         \/ Candidates(o.user, o.from) = {}
         \/ \E a \in Candidates(o.user, o.from) : accounts[a].balance < o.amount
         \/ Candidates(o.payee, o.to) = {}
    [] o.kind = "approve"  -> ~MayApprove(o)

Throw(r) ==
  /\ pc[r] = "start"
  /\ MustThrow(op[r])
  /\ pc' = [pc EXCEPT ![r] = "done"]
  /\ answer' = [answer EXCEPT ![r] = "error"]
  /\ UNCHANGED <<docs, session, op, attempt, alerts, crashes>>

-----------------------------------------------------------------------------
(* The saves. Each document was loaded on its own, so a save writes the    *)
(* balance in the snapshot plus or minus the amount, whatever else this    *)
(* transaction has written.                                                *)

(* Mutant: save() without the session writes the document at once.         *)
SaveBalanceNow(r, a, bal, next) ==
  /\ ~WriteConflict(r, a)
  /\ accounts' = [accounts EXCEPT ![a].balance = bal]
  /\ Overwrite({a}, r)
  /\ pc' = [pc EXCEPT ![r] = next]
  /\ UNCHANGED <<ledger, loaded, record, dirty, image, op, attempt, answer, alerts, crashes>>

SaveBalance(r, a, bal, next) ==
  /\ ~WriteConflict(r, a)
  /\ image' = [image EXCEPT ![r][a] = bal]
  /\ dirty' = [dirty EXCEPT ![r] = @ \cup {a}]
  /\ pc' = [pc EXCEPT ![r] = next]
  /\ UNCHANGED <<docs, loaded, record, stale, op, attempt, answer, alerts, crashes>>

SaveDebit(r) ==
  LET a == record[r].from
  IN  /\ pc[r] = "debit"
      /\ SaveBalance(r, a, loaded[r][a] - record[r].amount,
                     IF record[r].type = "TRANSFER" THEN "credit" ELSE "commit")

SaveCredit(r) ==
  LET a == record[r].to
  IN  /\ pc[r] = "credit"
      /\ SaveBalance(r, a, loaded[r][a] + record[r].amount,
                     IF op[r].kind = "approve" THEN "decide" ELSE "commit")

SaveDecision(r) ==
  /\ pc[r] = "decide"
  /\ ~WriteConflict(r, op[r].target)
  /\ dirty' = [dirty EXCEPT ![r] = @ \cup {op[r].target}]
  /\ pc' = [pc EXCEPT ![r] = "commit"]
  /\ UNCHANGED <<docs, loaded, record, image, stale, op, attempt, answer, alerts, crashes>>

(* The document the next save writes.                                      *)
NextDoc(r) ==
  CASE pc[r] = "debit"  -> record[r].from
    [] pc[r] = "credit" -> record[r].to
    [] pc[r] = "decide" -> op[r].target

ConflictAbort(r) ==
  /\ pc[r] \in {"debit", "credit", "decide"}
  /\ WriteConflict(r, NextDoc(r))
  /\ AbortTransient(r)

(* The database fails in some other way, at a read, at a write or at the   *)
(* commit. A commit that was sent is not retried: abortTransaction then    *)
(* throws. A pending deposit has just been created when it is at "commit". *)
DatabaseError(r) ==
  \/ /\ pc[r] \in InBody \cup {"start"}
     /\ AbortFatal(r)
  \/ /\ InTxn(r)
     /\ pc[r] = "commit" => record[r].status = "PENDING"
     /\ AbortTransient(r)

-----------------------------------------------------------------------------
(* The commit, and what follows it. *)

Install(r) ==
  /\ accounts' = [a \in Account |->
                    IF a \in dirty[r]
                    THEN [accounts[a] EXCEPT !.balance = image[r][a]]
                    ELSE accounts[a]]
  /\ ledger' = [t \in TxnId |-> IF t \in dirty[r] THEN record[r] ELSE ledger[t]]
  /\ Overwrite(dirty[r], r)

Commit(r) ==
  /\ pc[r] = "commit"
  /\ Install(r)
  /\ EndTxn(r, IF op[r].kind = "transfer" THEN "lookup" ELSE "alertOwner", "none")

(* Mutant: a lost acknowledgement is retried like a failed body.           *)
CommitUnacknowledgedRetried(r) ==
  /\ pc[r] = "commit"
  /\ Install(r)
  /\ IF attempt[r] < MaxAttempts THEN EndTxn(r, "start", "none")
                                 ELSE EndTxn(r, "done", "error")

(* The commit takes effect and its acknowledgement is lost. abortTransaction *)
(* in the catch block then throws, so nothing is retried and the client gets *)
(* an error.                                                                 *)
CommitUnacknowledged(r) ==
  /\ pc[r] = "commit"
  /\ Install(r)
  /\ EndTxn(r, "done", "error")

Step(r, from, next) == pc[r] = from /\ pc' = [pc EXCEPT ![r] = next]

(* transferMoney reads the receiver's name; if that fails the client gets  *)
(* an error.                                                               *)
LookUpReceiver(r) ==
  /\ Step(r, "lookup", "alertSender")
  /\ UNCHANGED <<docs, session, op, attempt, answer, alerts, crashes>>

LookUpFails(r) ==
  /\ Step(r, "lookup", "done")
  /\ answer' = [answer EXCEPT ![r] = "error"]
  /\ UNCHANGED <<docs, session, op, attempt, alerts, crashes>>

(* Enqueueing an alert never throws. The last alert is followed by the     *)
(* answer.                                                                 *)
AlertSender(r) ==
  /\ Step(r, "alertSender", "alertOwner")
  /\ alerts' = alerts \cup {<<r, op[r].user>>}
  /\ UNCHANGED <<docs, session, op, attempt, answer, crashes>>

Addressee(r) ==
  CASE op[r].kind = "transfer" -> op[r].payee
    [] op[r].kind = "approve"  -> Owner[ledger[op[r].target].to]
    [] op[r].kind = "deposit"  -> Owner[op[r].to]
    [] op[r].kind = "withdraw" -> Owner[op[r].from]

AlertOwner(r) ==
  /\ Step(r, "alertOwner", "done")
  /\ alerts' = alerts \cup {<<r, Addressee(r)>>}
  /\ answer' = [answer EXCEPT ![r] = "ok"]
  /\ UNCHANGED <<docs, session, op, attempt, crashes>>

-----------------------------------------------------------------------------
(* The process dies: the handlers are gone and their clients get no        *)
(* answer. A transaction that has written keeps its locks until the        *)
(* database notices and aborts it.                                         *)

Die ==
  pc' = [r \in Request |-> CASE pc[r] \in {"new", "done", "lost", "orphan"} -> pc[r]
                             [] InTxn(r) -> "orphan"
                             [] OTHER -> "lost"]

ControllerCrash ==
  /\ crashes < MaxCrashes
  /\ crashes' = crashes + 1
  /\ Die
  /\ stale' = [r \in Request |-> {}]
  /\ UNCHANGED <<docs, loaded, record, dirty, image, op, attempt, answer, alerts>>

Reap(r) ==
  /\ pc[r] = "orphan"
  /\ EndTxn(r, "lost", "none")
  /\ UNCHANGED <<docs, stale>>

-----------------------------------------------------------------------------
Handle(r) ==
  \/ BeginDeposit(r)
  \/ BeginWithdraw(r)
  \/ BeginTransfer(r)
  \/ BeginApprove(r)
  \/ Throw(r)
  \/ SaveDebit(r)
  \/ SaveCredit(r)
  \/ SaveDecision(r)
  \/ ConflictAbort(r)
  \/ Commit(r)
  \/ LookUpReceiver(r)
  \/ AlertSender(r)
  \/ AlertOwner(r)
  \/ Reap(r)

Fail(r) ==
  \/ Refuse(r)
  \/ DatabaseError(r)
  \/ CommitUnacknowledged(r)
  \/ LookUpFails(r)

ControllerNext == \E r \in Request : Receive(r) \/ Handle(r) \/ Fail(r)

ControllerTypeOK ==
  /\ accounts \in [Account -> AccountDoc]
  /\ ledger \in [TxnId -> Txn \cup {NoTxn}]
  /\ op \in [Request -> Operations \cup {NoOp}]
  /\ pc \in [Request -> PC]
  /\ attempt \in [Request -> 0 .. MaxAttempts]
  /\ loaded \in [Request -> [Account -> Int]]
  /\ record \in [Request -> Txn \cup {NoTxn}]
  /\ dirty \in [Request -> SUBSET Doc]
  /\ image \in [Request -> [Account -> Int]]
  /\ stale \in [Request -> SUBSET Doc]
  /\ answer \in [Request -> {"none", "ok", "error"}]
  /\ alerts \in SUBSET (Request \X User)
  /\ crashes \in 0 .. MaxCrashes
=============================================================================
