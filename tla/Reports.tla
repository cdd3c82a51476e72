------------------------------- MODULE Reports -------------------------------
(***************************************************************************)
(* What the handlers that only read tell a customer about his money, and a *)
(* manager about the bank's: the statement of an account, the summary, the *)
(* analytics and the overview. They compute over the same documents, by    *)
(* rules of their own, what the money handlers did. The periods a reader   *)
(* may ask for are left out: each handler looks at all that ever happened, *)
(* and finds it as it is at one moment.                                    *)
(***************************************************************************)
EXTENDS Bank

UserAccounts(u) == {a \in Account : Owner[a] = u}

Recent(t) == ledger[t] # NoTxn
Successful(t) == Recent(t) /\ ledger[t].status = "SUCCESS"
Total(records) == SumFunction([t \in records |-> ledger[t].amount])

(* The users a record names. A withdrawal names none; a deposit that was   *)
(* pending from the start was filed by the owner of the account.           *)
Senders(t) ==
  CASE t \in Filed -> {Owner[ledger[t].to]}
    [] t \in Request /\ op[t].kind \in {"deposit", "transfer"} -> {op[t].user}
    [] OTHER -> {}
Receivers(t) ==
  CASE ledger[t].type = "DEPOSIT"  -> {Owner[ledger[t].to]}
    [] ledger[t].type = "TRANSFER" -> {op[t].payee}
    [] OTHER -> {}

Pays(u, t) == u \in Senders(t) \/ ledger[t].from \in UserAccounts(u)
IsPaid(u, t) == u \in Receivers(t) \/ ledger[t].to \in UserAccounts(u)
TookPart(u, t) == Pays(u, t) \/ IsPaid(u, t)
-----------------------------------------------------------------------------
(* The lines of a statement: every record of the account, whatever became  *)
(* of it, labelled CREDIT or DEBIT.                                        *)
StatementLines(a) == {t \in TxnId : Recent(t) /\ a \in {ledger[t].from, ledger[t].to}}

(* Mutant: the label is taken from the sender's side.                      *)
isNotDebit(t, a) == ledger[t].from # a

isCredit(t, a) == ledger[t].to = a

generateStatement(a) ==
  LET lines == StatementLines(a)
  IN [credits |-> Total({t \in lines : isCredit(t, a)}),
      debits  |-> Total({t \in lines : ~isCredit(t, a)}),
      open    |-> Total({t \in lines : ~Successful(t)})]

getSummary(u) ==
  [totalBalance |-> SumFunction([a \in UserAccounts(u) |-> accounts[a].balance])]

outflowMatch(u) ==
  {t \in TxnId : Successful(t) /\ ledger[t].type \in {"WITHDRAW", "TRANSFER"} /\ Pays(u, t)}

(* Mutant: the flows count what is pending, too.                           *)
flowMatchAll(u) == {t \in TxnId : Recent(t) /\ TookPart(u, t)}

flowMatch(u) == {t \in TxnId : Successful(t) /\ TookPart(u, t)}

IsOutflow(u, t) ==
  \/ ledger[t].type = "WITHDRAW"
  \/ ledger[t].type = "TRANSFER" /\ Pays(u, t)
IsInflow(u, t) ==
  /\ ~IsOutflow(u, t)
  /\ \/ ledger[t].type = "DEPOSIT"
     \/ ledger[t].type = "TRANSFER" /\ IsPaid(u, t)

inflowVsOutflow(u) ==
  LET inflow  == Total({t \in flowMatch(u) : IsInflow(u, t)})
      outflow == Total({t \in flowMatch(u) : IsOutflow(u, t)})
  IN [inflow |-> inflow, outflow |-> outflow, netSavings |-> inflow - outflow]

getAnalytics(u) ==
  IF UserAccounts(u) = {}
  THEN [totalSpent |-> 0, flow |-> [inflow |-> 0, outflow |-> 0, netSavings |-> 0]]
  ELSE [totalSpent |-> Total(outflowMatch(u)), flow |-> inflowVsOutflow(u)]

(* What the managers see of the whole bank. The volume of a type is of all *)
(* its records, whatever became of them; the total volume is of those that *)
(* were posted.                                                            *)
getSystemStats ==
  [totalBalance |-> SumFunction([a \in Account |-> accounts[a].balance]),
   totalVolume  |-> Total({t \in TxnId : Successful(t)}),
   byType       |-> [type \in TxnType |->
                       Total({t \in TxnId : Recent(t) /\ ledger[t].type = type})]]
-----------------------------------------------------------------------------
(* The statement of an active account (no other gets one) explains its     *)
(* balance: what the account opened with, plus the credits, minus the      *)
(* debits, but for the lines that are pending or were rejected, which it   *)
(* lists like the others.                                                  *)
StatementsAddUp ==
  \A a \in Account : IsActive(a) =>
    LET s == generateStatement(a)
    IN accounts[a].balance = Opening[a] + s.credits - s.debits - s.open

(* The analytics agree with the summary: the savings they show are the     *)
(* change of the total balance, except that a transfer between one's own   *)
(* accounts counts as spent (twice if both are the same account, whose     *)
(* balance it raises), and what one deposits into the account of somebody  *)
(* else counts as one's own income.                                        *)
Own(u) ==
  {t \in TxnId : Successful(t) /\ {ledger[t].from, ledger[t].to} \subseteq UserAccounts(u)}
Loops(u) == {t \in Own(u) : ledger[t].from = ledger[t].to}
Gifts(u) ==
  {t \in TxnId : Successful(t) /\ ledger[t].type = "DEPOSIT"
                 /\ u \in Senders(t) /\ ledger[t].to \notin UserAccounts(u)}

SavingsAreExplained ==
  \A u \in User :
    LET shown == getAnalytics(u)
        opened == SumFunction([a \in UserAccounts(u) |-> Opening[a]])
    IN UserAccounts(u) # {} =>
         /\ shown.totalSpent = shown.flow.outflow
         /\ shown.flow.netSavings =
              getSummary(u).totalBalance - opened
                - Total(Own(u)) - Total(Loops(u)) + Total(Gifts(u))

(* The managers' overview explains the money in the bank: it is what the   *)
(* bank opened with, plus what was deposited, minus what was withdrawn. No *)
(* transfer makes or destroys money, except from an account to itself; and *)
(* the volume of the deposits, unlike the total volume, counts those that  *)
(* are pending or were rejected, too.                                      *)
Unposted == {t \in TxnId : Recent(t) /\ ~Successful(t)}
SelfTransfers == {t \in TxnId : Successful(t) /\ ledger[t].from = ledger[t].to}

StatsAddUp ==
  LET stats == getSystemStats
      volume == stats.byType
  IN  /\ stats.totalBalance =
           SumFunction(Opening) + volume["DEPOSIT"] - Total(Unposted)
             - volume["WITHDRAW"] + Total(SelfTransfers)
      /\ stats.totalVolume =
           volume["DEPOSIT"] + volume["WITHDRAW"] + volume["TRANSFER"] - Total(Unposted)
=============================================================================
