-------------------------- MODULE AccountController --------------------------
(***************************************************************************)
(* The handlers that change an account outside a transaction:              *)
(* updateAccountStatus, freezeAccount, unfreezeAccount and                 *)
(* submitFreezeDispute. Each loads the account, checks it, and saves it in *)
(* a later step. Mongoose writes only the paths that differ from what was  *)
(* loaded; MongoDB lets the write wait while an open transaction has       *)
(* written the document.                                                   *)
(***************************************************************************)
EXTENDS TransactionController

CONSTANTS
  Task,            \* the requests to these handlers, one id per HTTP request
  TaskOperations   \* the bodies they may have

StatusTask == [kind : {"status"}, account : Account, status : AccountStatus]
UserTask == [kind : {"freeze", "unfreeze", "dispute"}, user : User,
             account : Account]
TaskOperation == StatusTask \cup UserTask

ASSUME TaskOperationsAssumption == TaskOperations \subseteq TaskOperation

VARIABLES
  task,      \* task[m]: the body of request m
  taskPc,    \* taskPc[m]: "new", "save", "done", "refused" or "lost"
  taskDoc    \* taskDoc[m]: the account as m loaded it

taskVars == <<task, taskPc, taskDoc>>

BlankDoc == [balance |-> 0, status |-> "ACTIVE", dispute |-> FALSE]

AccountInit ==
  /\ task = [m \in Task |-> NoOp]
  /\ taskPc = [m \in Task |-> "new"]
  /\ taskDoc = [m \in Task |-> BlankDoc]

(* validate() hands on only the parts of the request that the schema of    *)
(* the route names. That of the status route names the body and not the    *)
(* path, so updateAccountStatus gets no id and finds no account.           *)
IdArrives(o) == o.kind # "status"

(* The checks on the loaded account. A manager may not freeze or unfreeze  *)
(* an account of their own; a dispute comes from the owner.                *)
MayChange(o, doc) ==
  IdArrives(o) /\
  CASE o.kind = "status" -> ~(o.status = "CLOSED" /\ doc.balance > 0)
    [] o.kind \in {"freeze", "unfreeze"} -> Owner[o.account] # o.user
    [] o.kind = "dispute" -> Owner[o.account] = o.user /\ doc.status = "BLOCKED"

(* The account after the handler's assignments.                            *)
Changed(o, doc) ==
  CASE o.kind = "status"   -> [doc EXCEPT !.status = o.status]
    [] o.kind = "freeze"   -> [doc EXCEPT !.status = "BLOCKED"]
    [] o.kind = "unfreeze" -> [doc EXCEPT !.status = "ACTIVE", !.dispute = FALSE]
    [] o.kind = "dispute"  -> [doc EXCEPT !.dispute = TRUE]

LoadAccount(m) ==
  /\ taskPc[m] = "new"
  /\ \E o \in TaskOperations :
       /\ MayChange(o, accounts[o.account])
       /\ task' = [task EXCEPT ![m] = o]
       /\ taskDoc' = [taskDoc EXCEPT ![m] = accounts[o.account]]
  /\ taskPc' = [taskPc EXCEPT ![m] = "save"]
  /\ UNCHANGED controllerVars

RefuseTask(m) ==
  /\ taskPc[m] = "new"
  /\ \E o \in TaskOperations :
       /\ ~MayChange(o, accounts[o.account])
       /\ task' = [task EXCEPT ![m] = o]
  /\ taskPc' = [taskPc EXCEPT ![m] = "refused"]
  /\ UNCHANGED <<controllerVars, taskDoc>>

(* What save() writes: the paths that differ from the loaded document. The *)
(* text of a dispute is taken to be a new one.                             *)
WritesStatus(o, doc) == Changed(o, doc).status # doc.status
WritesDispute(o, doc) == Changed(o, doc).dispute # doc.dispute \/ o.kind = "dispute"

Saved(o, doc, current) ==
  [current EXCEPT
     !.status = IF WritesStatus(o, doc) THEN Changed(o, doc).status ELSE @,
     !.dispute = IF WritesDispute(o, doc) THEN Changed(o, doc).dispute ELSE @]

SaveAccount(m) ==
  LET o == task[m]
      a == o.account
      doc == taskDoc[m]
  IN  /\ taskPc[m] = "save"
      /\ \/ /\ WritesStatus(o, doc) \/ WritesDispute(o, doc)
            /\ \A r \in Request : a \notin dirty[r]
            /\ accounts' = [accounts EXCEPT ![a] = Saved(o, doc, @)]
            /\ stale' = [q \in Request |->
                           IF InTxn(q) THEN stale[q] \cup {a} ELSE {}]
         \/ /\ ~(WritesStatus(o, doc) \/ WritesDispute(o, doc))
            /\ UNCHANGED <<accounts, stale>>
      /\ taskPc' = [taskPc EXCEPT ![m] = "done"]
      /\ taskDoc' = [taskDoc EXCEPT ![m] = BlankDoc]
      /\ UNCHANGED <<ledger, loaded, record, dirty, image, control, alerts,
                     crashes, task>>

(* The process dies before the save.                                       *)
TasksDie ==
  /\ taskPc' = [m \in Task |-> IF taskPc[m] = "save" THEN "lost" ELSE taskPc[m]]
  /\ taskDoc' = [m \in Task |-> BlankDoc]
  /\ UNCHANGED task

AccountNext == \E m \in Task : LoadAccount(m) \/ RefuseTask(m) \/ SaveAccount(m)

AccountTypeOK ==
  /\ task \in [Task -> TaskOperations \cup {NoOp}]
  /\ taskPc \in [Task -> {"new", "save", "done", "refused", "lost"}]
  /\ taskDoc \in [Task -> AccountDoc]
=============================================================================
