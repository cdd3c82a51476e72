----------------------------- MODULE ReportsProofs -----------------------------
(***************************************************************************)
(* Proofs about the sums the bank shows: the balances against the records, *)
(* the statement against the balances (getStatement) and the analytics     *)
(* against the summary (getAnalytics, getSummary), for every number of     *)
(* accounts, users, requests and failures.                                 *)
(***************************************************************************)
EXTENDS Reports, BankProofs, Sums

(* The balances are the sum of what the records did.                       *)
Explained == IsFiniteSet(Entered) /\ BalanceMatchesLedger

(* What a record with this content does to the balance of a.               *)
Worth(x, a) ==
  IF x.status # "SUCCESS" THEN 0
  ELSE IF x.to = a THEN x.amount
  ELSE IF x.from = a THEN 0 - x.amount
  ELSE 0

LEMMA WorthType == ASSUME NEW x \in Txn, NEW a PROVE Worth(x, a) \in Int
BY Records DEF Worth

LEMMA EffectIsWorth ==
  ASSUME TypeOK, NEW t \in Entered, NEW a
  PROVE  ledger[t] \in Txn /\ Effect(t, a) = Worth(ledger[t], a) /\ Effect(t, a) \in Int
<1>1. ledger[t] \in Txn
  BY DEF TypeOK, ControllerTypeOK, Entered
<1>2. QED
  BY <1>1, WorthType DEF Effect, Worth

(* A record that was not posted is written, and the balances follow it.    *)
LEMMA Booked ==
  ASSUME TypeOK, TypeOK', Explained, NEW t \in TxnId, NEW x \in Txn,
         ledger' = [ledger EXCEPT ![t] = x],
         t \in Entered => ledger[t].status # "SUCCESS",
         \A a \in Account : accounts'[a].balance = accounts[a].balance + Worth(x, a)
  PROVE  Explained'
<1>1. Entered' = Entered \cup {t} /\ t \in Entered'
  BY NoTxnAssumption DEF Entered, TypeOK, ControllerTypeOK
<1>2. IsFiniteSet(Entered')
  BY <1>1, FS_AddElement DEF Explained
<1>3. ASSUME NEW a \in Account
      PROVE  accounts'[a].balance = Opening[a] + SumFunction([s \in Entered' |-> Effect(s, a)'])
  <2> DEFINE f == [s \in Entered |-> Effect(s, a)]
             g == [s \in Entered' |-> Effect(s, a)']
  <2>1. \A s \in Entered : f[s] \in Int
    BY EffectIsWorth
  <2>2. g[t] = Worth(x, a)
    <3>1. ledger'[t] = x
      BY DEF TypeOK, ControllerTypeOK
    <3>2. QED
      BY <1>1, <3>1 DEF Effect, Worth
  <2>3. \A s \in Entered \ {t} : g[s] = f[s]
    BY <1>1 DEF Effect, Entered
  <2>4. t \in Entered => f[t] = 0
    BY DEF Effect
  <2>5. accounts[a].balance = Opening[a] + SumFunctionOnSet(f, Entered)
    BY DEF Explained, BalanceMatchesLedger, SumFunction
  <2>6. SumFunction(g) = SumFunctionOnSet(g, Entered \cup {t})
    BY <1>1 DEF SumFunction
  <2>7. Worth(x, a) \in Int /\ Opening[a] \in Int
    BY WorthType, OpeningAssumption
  <2> HIDE DEF f, g
  <2>8. SumFunctionOnSet(f, Entered) \in Int
    BY <2>1, SumType DEF Explained
  <2>9. SumFunctionOnSet(g, Entered \cup {t}) =
          SumFunctionOnSet(f, Entered) + g[t] - (IF t \in Entered THEN f[t] ELSE 0)
    <3>1. PICK F, H, S : F = f /\ H = g /\ S = Entered
      OBVIOUS
    <3>2. /\ IsFiniteSet(S) /\ H[t] \in Int
          /\ \A s \in S : F[s] \in Int
          /\ \A s \in S \ {t} : H[s] = F[s]
      BY <2>1, <2>2, <2>3, <2>7, <3>1 DEF Explained
    <3>3. SumFunctionOnSet(H, S \cup {t}) =
            SumFunctionOnSet(F, S) + H[t] - (IF t \in S THEN F[t] ELSE 0)
      BY <3>2, SumWithOneSet
    <3>4. QED
      BY <3>1, <3>3
  <2>10. SumFunction(g) = SumFunctionOnSet(f, Entered) + Worth(x, a)
    BY <2>2, <2>4, <2>6, <2>7, <2>8, <2>9
  <2>11. accounts'[a].balance = Opening[a] + SumFunction(g)
    BY <2>5, <2>7, <2>8, <2>10
  <2>12. QED
    BY <2>11 DEF g
<1>4. BalanceMatchesLedger'
  BY <1>3 DEF BalanceMatchesLedger
<1>5. QED
  BY <1>2, <1>4 DEF Explained

(* Each step of the ledger keeps the explanation.                          *)
LEMMA LedgerExplained ==
  ASSUME TypeOK, TypeOK', Explained, Ledger!Next
  PROVE  Explained'
<1> DEFINE bal == [b \in Account |-> accounts[b].balance]
<1>1. /\ ledger \in [TxnId -> Txn \cup {NoTxn}]
      /\ accounts \in [Account -> AccountDoc] /\ accounts' \in [Account -> AccountDoc]
  BY DEF TypeOK, ControllerTypeOK
<1>2. \A b \in Account : accounts[b].balance \in Int
  BY <1>1 DEF AccountDoc
<1>3. ASSUME NEW x \in Txn, x.status = "SUCCESS", bal' = Ledger!Posted(bal, x), NEW a \in Account
      PROVE  accounts'[a].balance = accounts[a].balance + Worth(x, a)
  <2>1. accounts'[a].balance = Ledger!Posted(bal, x)[a]
    <3>1. bal'[a] = accounts'[a].balance
      OBVIOUS
    <3>2. QED
      BY <1>3, <3>1, Zenon
  <2>2. QED
    BY <1>2, <1>3, <2>1, Records DEF Ledger!Posted, Worth
<1>4. ASSUME bal' = bal, NEW a \in Account PROVE accounts'[a].balance = accounts[a].balance
  <2>1. bal[a] = accounts[a].balance /\ bal'[a] = accounts'[a].balance
    OBVIOUS
  <2>2. QED
    BY <1>4, <2>1, Zenon
<1>5. ASSUME NEW t \in TxnId, Ledger!FileDeposit(t) PROVE Explained'
  <2>1. PICK x \in Txn : x = ledger'[t]
    BY <1>5 DEF Ledger!FileDeposit, Ledger!Enter, Ledger!Txn, Txn, Ledger!TxnType, TxnType,
       Ledger!TxnStatus, TxnStatus
  <2>2. /\ ledger[t] = NoTxn /\ ledger' = [ledger EXCEPT ![t] = x]
        /\ x.status = "PENDING" /\ bal' = bal
    BY <1>5, <2>1 DEF Ledger!FileDeposit, Ledger!Enter
  <2>3. t \notin Entered
    BY <2>2 DEF Entered
  <2>4. \A a \in Account : accounts'[a].balance = accounts[a].balance + Worth(x, a)
    BY <1>2, <1>4, <2>2 DEF Worth
  <2>5. QED
    BY <2>2, <2>3, <2>4, Booked
<1>6. ASSUME NEW t \in TxnId, Ledger!Post(t) PROVE Explained'
  <2>1. PICK x \in Txn : x = ledger'[t]
    BY <1>6 DEF Ledger!Post, Ledger!Enter, Ledger!Txn, Txn, Ledger!TxnType, TxnType,
       Ledger!TxnStatus, TxnStatus
  <2>2. /\ ledger[t] = NoTxn /\ ledger' = [ledger EXCEPT ![t] = x]
        /\ x.status = "SUCCESS" /\ bal' = Ledger!Posted(bal, x)
    BY <1>6, <2>1 DEF Ledger!Post, Ledger!Enter, Ledger!Posted
  <2>3. t \notin Entered
    BY <2>2 DEF Entered
  <2>4. \A a \in Account : accounts'[a].balance = accounts[a].balance + Worth(x, a)
    BY <1>3, <2>2
  <2>5. QED
    BY <2>2, <2>3, <2>4, Booked
<1>7. ASSUME NEW t \in TxnId, Ledger!Approve(t) PROVE Explained'
  <2>1. PICK old \in Txn : old = ledger[t]
    BY <1>1, <1>7 DEF Ledger!Approve
  <2> DEFINE x == [old EXCEPT !.status = "SUCCESS"]
  <2>2. /\ x \in Txn /\ x.status = "SUCCESS"
        /\ x.to = old.to /\ x.from = old.from /\ x.amount = old.amount
    BY DEF Txn, TxnStatus
  <2>3. /\ ledger' = [ledger EXCEPT ![t] = x]
        /\ old.status = "PENDING" /\ bal' = Ledger!Posted(bal, old)
    BY <1>1, <1>7, <2>1 DEF Ledger!Approve, Ledger!Posted
  <2> HIDE DEF x
  <2>4. bal' = Ledger!Posted(bal, x)
    BY <2>2, <2>3 DEF Ledger!Posted
  <2>5. \A a \in Account : accounts'[a].balance = accounts[a].balance + Worth(x, a)
    BY <1>3, <2>2, <2>4
  <2>6. QED
    BY <2>1, <2>2, <2>3, <2>5, Booked
<1>8. ASSUME NEW t \in TxnId, Ledger!Reject(t) PROVE Explained'
  <2>1. PICK old \in Txn : old = ledger[t]
    BY <1>1, <1>8 DEF Ledger!Reject
  <2> DEFINE x == [old EXCEPT !.status = "FAILED"]
  <2>2. x \in Txn /\ x.status = "FAILED"
    BY DEF Txn, TxnStatus
  <2>3. /\ ledger' = [ledger EXCEPT ![t] = x]
        /\ old.status = "PENDING" /\ bal' = bal
    BY <1>1, <1>8, <2>1 DEF Ledger!Reject
  <2> HIDE DEF x
  <2>4. \A a \in Account : accounts'[a].balance = accounts[a].balance + Worth(x, a)
    BY <1>2, <1>4, <2>2, <2>3 DEF Worth
  <2>5. QED
    BY <2>1, <2>2, <2>3, <2>4, Booked
<1>9. ASSUME NEW b \in Account, NEW st \in Ledger!AccountStatus, Ledger!SetStatus(b, st)
      PROVE  Explained'
  <2>1. bal' = bal /\ ledger' = ledger
    BY <1>9 DEF Ledger!SetStatus
  <2>2. \A a \in Account : accounts'[a].balance = accounts[a].balance
    BY <1>4, <2>1
  <2>3. QED
    BY <2>1, <2>2 DEF Explained, Entered, BalanceMatchesLedger, Effect
<1>10. QED
  BY <1>5, <1>6, <1>7, <1>8, <1>9 DEF Ledger!Next, Ledger!TxnId, TxnId

LEMMA InitExplained == Init => Explained
<1> SUFFICES ASSUME Init PROVE Explained
  OBVIOUS
<1>1. Entered = Filed /\ \A t \in Filed : ledger[t] = FiledDeposit[t]
  BY FiledAssumption, NoTxnAssumption DEF Init, ControllerInit, Entered, TxnId
<1>2. IsFiniteSet(Entered)
  BY <1>1, FiniteAssumption
<1>3. ASSUME NEW a \in Account
      PROVE  accounts[a].balance = Opening[a] + SumFunction([t \in Entered |-> Effect(t, a)])
  <2> DEFINE f == [t \in Entered |-> Effect(t, a)]
  <2>1. \A t \in Entered : f[t] = 0
    BY <1>1, FiledAssumption DEF Effect
  <2>2. SumFunction(f) = SumFunctionOnSet(f, Entered)
    BY DEF SumFunction
  <2> HIDE DEF f
  <2>3. SumFunctionOnSet(f, Entered) = 0
    BY <1>2, <2>1, SumOfZeros
  <2>4. accounts[a].balance = Opening[a] /\ Opening[a] \in Int
    BY OpeningAssumption DEF Init, ControllerInit
  <2>5. accounts[a].balance = Opening[a] + SumFunction(f)
    BY <2>2, <2>3, <2>4
  <2>6. QED
    BY <2>5 DEF f
<1>4. QED
  BY <1>2, <1>3 DEF Explained, BalanceMatchesLedger

LEMMA StepExplained == Inv /\ Inv' /\ Explained /\ [Next]_vars => Explained'
<1> SUFFICES ASSUME Inv, Inv', Explained, [Next]_vars PROVE Explained'
  OBVIOUS
<1>1. TypeOK /\ TypeOK'
  BY DEF Inv
<1>2. CASE Ledger!Next
  BY <1>1, <1>2, LedgerExplained
<1>3. CASE UNCHANGED docs
  BY <1>3 DEF docs, Explained, Entered, BalanceMatchesLedger, Effect
<1>4. QED
  BY <1>2, <1>3, StepOfLedger

LEMMA AlwaysExplained == Spec => []Explained
BY InitExplained, StepExplained, InvHolds, PTL DEF Spec

(* The balance of every account is what it opened with and what the posted *)
(* records did to it, however many requests raced, retried or died.        *)
THEOREM BalancesExplained == Spec => []BalanceMatchesLedger
<1>1. Explained => BalanceMatchesLedger
  BY DEF Explained
<1>2. QED
  BY <1>1, AlwaysExplained, PTL

-----------------------------------------------------------------------------
(* Sums over the records of the ledger. *)

(* What t contributes to the total of a set of records.                    *)
Share(t, T) == IF t \in T THEN ledger[t].amount ELSE 0

LEMMA ShareType ==
  ASSUME TypeOK, NEW t \in Entered, NEW T
  PROVE  ledger[t].amount \in Int /\ Share(t, T) \in Int
BY EffectIsWorth, Records DEF Share

LEMMA TotalIsShares ==
  ASSUME TypeOK, IsFiniteSet(Entered), NEW T, T \subseteq Entered
  PROVE  /\ Total(T) = SumFunctionOnSet([t \in Entered |-> Share(t, T)], Entered)
         /\ Total(T) \in Int
<1>1. PICK f, g, E : /\ f = [t \in Entered |-> Share(t, T)]
                     /\ g = [t \in T |-> ledger[t].amount]
                     /\ E = Entered
  OBVIOUS
<1>2. /\ \A t \in T : f[t] \in Int /\ g[t] = f[t]
      /\ \A t \in E \ T : f[t] = 0
      /\ \A t \in E : f[t] \in Int
  BY <1>1, ShareType DEF Share
<1>3. SumFunctionOnSet(f, E) = SumFunctionOnSet(g, T)
  BY <1>1, <1>2, SumOnSupport
<1>4. Total(T) = SumFunctionOnSet(g, T)
  BY <1>1 DEF Total, SumFunction
<1>5. SumFunctionOnSet(f, E) \in Int
  BY <1>1, <1>2, SumType
<1>6. QED
  BY <1>1, <1>3, <1>4, <1>5

(* Sets of records that balance record by record, balance in all.          *)
LEMMA TotalsBalance ==
  ASSUME TypeOK, IsFiniteSet(Entered), NEW f, \A t \in Entered : f[t] \in Int,
         NEW A, NEW B, NEW C, NEW D, NEW E,
         A \subseteq Entered, B \subseteq Entered, C \subseteq Entered,
         D \subseteq Entered, E \subseteq Entered,
         \A t \in Entered : Share(t, A) + Share(t, B) + Share(t, C) =
                              f[t] + Share(t, D) + Share(t, E)
  PROVE  Total(A) + Total(B) + Total(C) =
           SumFunctionOnSet(f, Entered) + Total(D) + Total(E)
<1>1. PICK a, b, c, d, e, h, S :
        /\ a = [t \in Entered |-> Share(t, A)] /\ b = [t \in Entered |-> Share(t, B)]
        /\ c = [t \in Entered |-> Share(t, C)] /\ d = [t \in Entered |-> Share(t, D)]
        /\ e = [t \in Entered |-> Share(t, E)]
        /\ h = [t \in Entered |-> Share(t, A) + Share(t, B) + Share(t, C)]
        /\ S = Entered
  OBVIOUS
<1>2. \A t \in S : a[t] \in Int /\ b[t] \in Int /\ c[t] \in Int /\ d[t] \in Int /\ e[t] \in Int
  BY <1>1, ShareType
<1>3. \A t \in S : h[t] = a[t] + b[t] + c[t] /\ h[t] = f[t] + d[t] + e[t]
  BY <1>1
<1>4. SumFunctionOnSet(h, S) =
        SumFunctionOnSet(a, S) + SumFunctionOnSet(b, S) + SumFunctionOnSet(c, S)
  BY <1>1, <1>2, <1>3, SumAddsThree
<1>5. SumFunctionOnSet(h, S) =
        SumFunctionOnSet(f, S) + SumFunctionOnSet(d, S) + SumFunctionOnSet(e, S)
  BY <1>1, <1>2, <1>3, SumAddsThree
<1>6. /\ Total(A) = SumFunctionOnSet(a, S) /\ Total(B) = SumFunctionOnSet(b, S)
      /\ Total(C) = SumFunctionOnSet(c, S) /\ Total(D) = SumFunctionOnSet(d, S)
      /\ Total(E) = SumFunctionOnSet(e, S)
  BY <1>1, TotalIsShares
<1>7. QED
  BY <1>1, <1>4, <1>5, <1>6

LEMMA EmptyTotal == Total({}) = 0
BY SumOfNothing DEF Total, SumFunction
-----------------------------------------------------------------------------
(* The statement. What is not posted is a deposit: it is listed as a       *)
(* credit and again as open.                                               *)
LEMMA LinesBalance ==
  ASSUME Inv, NEW t \in Entered, NEW a \in Account,
         NEW C, C = {s \in StatementLines(a) : isCredit(s, a)},
         NEW D, D = {s \in StatementLines(a) : ~isCredit(s, a)},
         NEW O, O = {s \in StatementLines(a) : ~Successful(s)}
  PROVE  Share(t, C) = Effect(t, a) + Share(t, D) + Share(t, O)
<1>1. TypeOK /\ t \in TxnId /\ ledger[t] # NoTxn /\ Shape(ledger[t])
  BY DEF Inv, Entered, LedgerInv
<1>2. ledger[t].amount \in Int /\ ledger[t].type \in {"DEPOSIT", "WITHDRAW", "TRANSFER"}
  BY <1>1, EffectIsWorth, Records
<1>3. t \in StatementLines(a) <=> a \in {ledger[t].from, ledger[t].to}
  BY <1>1 DEF StatementLines, Recent
<1>4. /\ t \in C <=> ledger[t].to = a
      /\ t \in D <=> ledger[t].to # a /\ ledger[t].from = a
      /\ t \in O <=> ledger[t].status # "SUCCESS" /\ a \in {ledger[t].from, ledger[t].to}
  BY <1>1, <1>3 DEF isCredit, Successful, Recent
<1>5. ledger[t].status # "SUCCESS" => ledger[t].from # a
  BY <1>1, <1>2, NoAccountAssumption DEF Shape
<1>6. QED
  BY <1>2, <1>4, <1>5 DEF Share, Effect

LEMMA StatementBalances ==
  ASSUME Inv, Explained, NEW a \in Account
  PROVE  LET s == generateStatement(a)
         IN  accounts[a].balance = Opening[a] + s.credits - s.debits - s.open
<1>1. PICK C, D, O, f :
        /\ C = {s \in StatementLines(a) : isCredit(s, a)}
        /\ D = {s \in StatementLines(a) : ~isCredit(s, a)}
        /\ O = {s \in StatementLines(a) : ~Successful(s)}
        /\ f = [t \in Entered |-> Effect(t, a)]
  OBVIOUS
<1>2. TypeOK /\ IsFiniteSet(Entered) /\ Opening[a] \in Int
  BY OpeningAssumption DEF Inv, Explained
<1>3. C \subseteq Entered /\ D \subseteq Entered /\ O \subseteq Entered
  BY <1>1 DEF StatementLines, Recent, Entered
<1>4. \A t \in Entered : f[t] \in Int /\ f[t] = Effect(t, a)
  BY <1>1, <1>2, EffectIsWorth
<1>5. \A t \in Entered : Share(t, C) + Share(t, {}) + Share(t, {}) =
                           f[t] + Share(t, D) + Share(t, O)
  <2>1. SUFFICES ASSUME NEW t \in Entered
                 PROVE  Share(t, C) + Share(t, {}) + Share(t, {}) = f[t] + Share(t, D) + Share(t, O)
    OBVIOUS
  <2>2. Share(t, C) = f[t] + Share(t, D) + Share(t, O)
    BY <1>1, <1>4, LinesBalance
  <2>3. Share(t, {}) = 0 /\ Share(t, C) \in Int
    BY <1>2, ShareType DEF Share
  <2>4. QED
    BY <2>2, <2>3
<1>6. Total(C) + Total({}) + Total({}) = SumFunctionOnSet(f, Entered) + Total(D) + Total(O)
  BY <1>2, <1>3, <1>4, <1>5, TotalsBalance
<1>7. Total(C) \in Int /\ Total(D) \in Int /\ Total(O) \in Int
  BY <1>2, <1>3, TotalIsShares
<1>8. SumFunctionOnSet(f, Entered) \in Int
  BY <1>2, <1>4, SumType
<1>9. accounts[a].balance = Opening[a] + SumFunctionOnSet(f, Entered)
  BY <1>1 DEF Explained, BalanceMatchesLedger, SumFunction
<1>10. accounts[a].balance = Opening[a] + Total(C) - Total(D) - Total(O)
  BY <1>2, <1>6, <1>7, <1>8, <1>9, EmptyTotal
<1>11. QED
  BY <1>1, <1>10 DEF generateStatement

(* The statement of an account explains its balance.                       *)
THEOREM StatementsHold == Spec => []StatementsAddUp
<1>1. Inv /\ Explained => StatementsAddUp
  BY StatementBalances DEF StatementsAddUp
<1>2. QED
  BY <1>1, InvHolds, AlwaysExplained, PTL

-----------------------------------------------------------------------------
(* The savings. What the analytics count is compared, record by record,    *)
(* with what the record did to all accounts of the user together.          *)

(* The deposits that were pending from the start are still deposits.       *)
FiledDeposits == \A t \in Filed : ledger[t] # NoTxn /\ ledger[t].type = "DEPOSIT"

LEMMA AlwaysFiled == Spec => []FiledDeposits
<1>1. Init => FiledDeposits
  BY FiledAssumption, NoTxnAssumption DEF Init, ControllerInit, TxnId, FiledDeposits
<1>2. ASSUME Inv, FiledDeposits, [Next]_vars PROVE FiledDeposits'
  <2>1. SUFFICES ASSUME NEW t \in Filed
                 PROVE  ledger'[t] # NoTxn /\ ledger'[t].type = "DEPOSIT"
    BY DEF FiledDeposits
  <2>2. t \in TxnId /\ ledger[t] # NoTxn /\ ledger[t].type = "DEPOSIT" /\ ledger[t] \in Txn
    BY <1>2 DEF TxnId, FiledDeposits, Inv, TypeOK, ControllerTypeOK
  <2>3. ledger'[t] = ledger[t] \/ Decides(ledger[t], ledger'[t])
    BY <1>2, <2>2, StepOfLedger, LedgerDecides DEF docs, Inv
  <2>4. ASSUME NEW x \in Txn, NEW y, x.type = "DEPOSIT", Decides(x, y)
        PROVE  y # NoTxn /\ y.type = "DEPOSIT"
    <3>1. y \in Txn
      BY <2>4 DEF Decides, Txn, TxnStatus
    <3>2. QED
      BY <2>4, <3>1, NoTxnAssumption DEF Decides, Txn
  <2>5. QED
    BY <2>2, <2>3, <2>4
<1>3. QED
  BY <1>1, <1>2, InvHolds, PTL DEF Spec

(* What t did to the accounts of U together.                               *)
Gain(U, t) == SumFunctionOnSet([a \in U |-> Effect(t, a)], U)

LEMMA FiniteAccounts == ASSUME NEW U \in SUBSET Account PROVE IsFiniteSet(U)
BY FiniteAssumption, FS_Subset

LEMMA GainIs ==
  ASSUME Inv, NEW t \in Entered, NEW U \in SUBSET Account
  PROVE  Gain(U, t) =
           IF ledger[t].status # "SUCCESS" THEN 0
           ELSE (IF ledger[t].to \in U THEN ledger[t].amount ELSE 0)
                - (IF ledger[t].from \in U /\ ledger[t].from # ledger[t].to
                   THEN ledger[t].amount ELSE 0)
<1>1. PICK x \in Txn : x = ledger[t]
  BY EffectIsWorth DEF Inv
<1>2. IsFiniteSet(U) /\ x.amount \in Int
  BY <1>1, FiniteAccounts, Records
<1> DEFINE e == [a \in U |-> Worth(x, a)]
           p == [a \in U |-> IF a = x.to THEN x.amount ELSE 0]
           n == [a \in U |-> IF a = x.from THEN IF x.from = x.to THEN 0 ELSE x.amount ELSE 0]
<1>3. Gain(U, t) = SumFunctionOnSet(e, U)
  <2>1. \A a \in U : Effect(t, a) = Worth(x, a)
    BY <1>1, EffectIsWorth DEF Inv
  <2>2. [a \in U |-> Effect(t, a)] = e
    BY <2>1
  <2>3. QED
    BY <2>2, Zenon DEF Gain
<1>4. CASE x.status # "SUCCESS"
  <2>1. \A a \in U : e[a] = 0
    BY <1>4 DEF Worth
  <2> HIDE DEF e
  <2>2. SumFunctionOnSet(e, U) = 0
    BY <1>2, <2>1, SumOfZeros
  <2>3. QED
    BY <1>1, <1>3, <1>4, <2>2
<1>5. CASE x.status = "SUCCESS"
  <2>1. \A a \in U : e[a] \in Int /\ n[a] \in Int /\ p[a] = e[a] + n[a]
    BY <1>2, <1>5 DEF Worth
  <2>2. \A a \in U : p[a] = IF a = x.to THEN x.amount ELSE 0
    OBVIOUS
  <2>3. PICK v \in Int : v = IF x.from = x.to THEN 0 ELSE x.amount
    BY <1>2
  <2>4. \A a \in U : n[a] = IF a = x.from THEN v ELSE 0
    BY <2>3
  <2> HIDE DEF e, p, n
  <2>5. SumFunctionOnSet(p, U) = SumFunctionOnSet(e, U) + SumFunctionOnSet(n, U)
    BY <1>2, <2>1, SumAdds
  <2>6. SumFunctionOnSet(p, U) = IF x.to \in U THEN x.amount ELSE 0
    BY <1>2, <2>2, SumAtPoint
  <2>7. SumFunctionOnSet(n, U) = IF x.from \in U THEN v ELSE 0
    BY <1>2, <2>4, SumAtPoint
  <2>8. SumFunctionOnSet(e, U) \in Int
    BY <1>2, <2>1, SumType
  <2>9. SumFunctionOnSet(e, U) =
          (IF x.to \in U THEN x.amount ELSE 0)
          - (IF x.from \in U /\ x.from # x.to THEN x.amount ELSE 0)
    BY <1>2, <2>3, <2>5, <2>6, <2>7, <2>8
  <2>10. QED
    BY <1>1, <1>3, <1>5, <2>9
<1>6. QED
  BY <1>4, <1>5

Inflows(u) == {t \in flowMatch(u) : IsInflow(u, t)}
Outflows(u) == {t \in flowMatch(u) : IsOutflow(u, t)}

(* Who the record says took part is who owns its accounts, but for the     *)
(* customer who files a deposit for another.                               *)
LEMMA PartsOf ==
  ASSUME Inv, AskedInv, FiledDeposits, NEW t \in Entered, NEW u
  PROVE  /\ ledger[t].type = "DEPOSIT" =>
              /\ ledger[t].from \notin UserAccounts(u)
              /\ Pays(u, t) <=> u \in Senders(t)
              /\ IsPaid(u, t) <=> ledger[t].to \in UserAccounts(u)
         /\ ledger[t].type = "WITHDRAW" =>
              /\ ledger[t].to \notin UserAccounts(u)
              /\ Pays(u, t) <=> ledger[t].from \in UserAccounts(u)
              /\ ~IsPaid(u, t)
         /\ ledger[t].type = "TRANSFER" =>
              /\ Pays(u, t) <=> ledger[t].from \in UserAccounts(u)
              /\ IsPaid(u, t) <=> ledger[t].to \in UserAccounts(u)
<1>1. /\ t \in Request \cup Filed /\ Shape(ledger[t])
      /\ t \in Request => Asked(t, ledger[t])
      /\ t \in Filed => ledger[t].type = "DEPOSIT"
  BY DEF Inv, LedgerInv, Entered, TxnId, AskedInv, RecordsWereAsked, FiledDeposits
<1>2. Request \cap Filed = {}
  BY FiledAssumption
<1>3. NoAccount \notin UserAccounts(u)
  BY NoAccountAssumption DEF UserAccounts
<1>4. \A a \in Account : a \in UserAccounts(u) <=> Owner[a] = u
  BY DEF UserAccounts
<1>5. CASE ledger[t].type = "DEPOSIT"
  BY <1>1, <1>3, <1>4, <1>5 DEF Shape, Pays, IsPaid, Receivers
<1>6. CASE ledger[t].type = "WITHDRAW"
  <2>1. t \in Request /\ t \notin Filed /\ op[t].kind = "withdraw"
    BY <1>1, <1>2, <1>6 DEF Asked
  <2>2. Senders(t) = {}
    BY <2>1 DEF Senders
  <2>3. Receivers(t) = {}
    BY <1>6 DEF Receivers
  <2>4. QED
    BY <1>1, <1>3, <1>6, <2>2, <2>3 DEF Shape, Pays, IsPaid
<1>7. CASE ledger[t].type = "TRANSFER"
  <2>1. /\ t \in Request /\ t \notin Filed /\ op[t].kind = "transfer"
        /\ Owner[ledger[t].from] = op[t].user /\ Owner[ledger[t].to] = op[t].payee
    BY <1>1, <1>2, <1>7 DEF Asked
  <2>2. Senders(t) = {op[t].user}
    BY <2>1 DEF Senders
  <2>3. Receivers(t) = {op[t].payee}
    BY <1>7 DEF Receivers
  <2>4. QED
    BY <1>1, <1>4, <1>7, <2>1, <2>2, <2>3 DEF Shape, Pays, IsPaid
<1>8. QED
  BY <1>5, <1>6, <1>7

LEMMA FlowsBalance ==
  ASSUME Inv, AskedInv, FiledDeposits, NEW t \in Entered, NEW u,
         NEW I, NEW O, NEW W, NEW L, NEW G, I = Inflows(u), O = Outflows(u),
         W = Own(u), L = Loops(u), G = Gifts(u)
  PROVE  Share(t, I) + Share(t, W) + Share(t, L) =
           Gain(UserAccounts(u), t) + Share(t, O) + Share(t, G)
<1> DEFINE mine(a) == a \in UserAccounts(u)
           from == ledger[t].from
           to == ledger[t].to
           n == ledger[t].amount
<1>1. /\ t \in TxnId /\ Recent(t) /\ n \in Int
      /\ ledger[t].type \in {"DEPOSIT", "WITHDRAW", "TRANSFER"}
  <2>1. ledger[t] \in Txn
    BY EffectIsWorth DEF Inv
  <2>2. QED
    BY <2>1, Records DEF Entered, Recent
<1>2. Successful(t) <=> ledger[t].status = "SUCCESS"
  BY <1>1 DEF Successful
<1>3. /\ t \in I <=> Successful(t) /\ TookPart(u, t) /\ IsInflow(u, t)
      /\ t \in O <=> Successful(t) /\ TookPart(u, t) /\ IsOutflow(u, t)
      /\ t \in W <=> Successful(t) /\ mine(from) /\ mine(to)
      /\ t \in L <=> Successful(t) /\ mine(from) /\ mine(to) /\ from = to
      /\ t \in G <=> /\ Successful(t) /\ ledger[t].type = "DEPOSIT"
                     /\ u \in Senders(t) /\ ~mine(to)
  BY <1>1 DEF Inflows, Outflows, flowMatch, Own, Loops, Gifts
<1>4. CASE ~Successful(t)
  <2>1. Gain(UserAccounts(u), t) = 0
    BY <1>2, <1>4, GainIs DEF UserAccounts
  <2>2. QED
    BY <1>3, <1>4, <2>1 DEF Share
<1>5. CASE Successful(t)
  <2>1. Gain(UserAccounts(u), t) =
          (IF mine(to) THEN n ELSE 0) - (IF mine(from) /\ from # to THEN n ELSE 0)
    BY <1>2, <1>5, GainIs DEF UserAccounts
  <2>2. CASE ledger[t].type = "DEPOSIT"
    <3>1. /\ t \in I <=> u \in Senders(t) \/ mine(to)
          /\ t \notin O /\ t \notin W /\ t \notin L
          /\ t \in G <=> u \in Senders(t) /\ ~mine(to)
          /\ ~mine(from)
      BY <1>3, <1>5, <2>2, PartsOf DEF TookPart, IsInflow, IsOutflow
    <3>2. QED
      BY <1>1, <2>1, <3>1 DEF Share
  <2>3. CASE ledger[t].type = "WITHDRAW"
    <3>1. /\ t \notin I /\ t \notin W /\ t \notin L /\ t \notin G
          /\ t \in O <=> mine(from)
          /\ ~mine(to)
      BY <1>3, <1>5, <2>3, PartsOf DEF TookPart, IsInflow, IsOutflow
    <3>2. mine(from) => from # to
      BY <3>1
    <3>3. QED
      BY <1>1, <2>1, <3>1, <3>2 DEF Share
  <2>4. CASE ledger[t].type = "TRANSFER"
    <3>1. /\ t \in I <=> mine(to) /\ ~mine(from)
          /\ t \in O <=> mine(from)
          /\ t \in W <=> mine(from) /\ mine(to)
          /\ t \in L <=> mine(from) /\ mine(to) /\ from = to
          /\ t \notin G
      BY <1>3, <1>5, <2>4, PartsOf DEF TookPart, IsInflow, IsOutflow
    <3>2. mine(from) /\ ~mine(to) => from # to
      OBVIOUS
    <3>3. QED
      BY <1>1, <2>1, <3>1, <3>2 DEF Share
  <2>5. QED
    BY <1>1, <2>2, <2>3, <2>4
<1>6. QED
  BY <1>4, <1>5

(* What all records together did to the accounts of U is what became of    *)
(* their balances.                                                         *)
LEMMA GainsAddUp ==
  ASSUME Inv, Explained, NEW U \in SUBSET Account
  PROVE  LET opened == SumFunction([a \in U |-> Opening[a]])
             gains == SumFunctionOnSet([t \in Entered |-> Gain(U, t)], Entered)
         IN  /\ opened \in Int /\ gains \in Int
             /\ \A t \in Entered : Gain(U, t) \in Int
             /\ SumFunction([a \in U |-> accounts[a].balance]) = opened + gains
<1>1. PICK E, m : E = Entered /\ m = [a \in U |-> [t \in E |-> Effect(t, a)]]
  OBVIOUS
<1>2. /\ IsFiniteSet(U) /\ IsFiniteSet(E) /\ U \subseteq Account
      /\ TypeOK
  BY <1>1, FiniteAccounts DEF Explained, Inv
<1>3. \A a \in U, t \in E : m[a][t] = Effect(t, a) /\ m[a][t] \in Int
  BY <1>1, <1>2, EffectIsWorth
<1> DEFINE row == [a \in U |-> SumFunctionOnSet(m[a], E)]
           col == [t \in E |-> SumFunctionOnSet([a \in U |-> m[a][t]], U)]
           opn == [a \in U |-> Opening[a]]
           bal == [a \in U |-> accounts[a].balance]
<1>4. SumFunctionOnSet(row, U) = SumFunctionOnSet(col, E)
  BY <1>2, <1>3, SumOfRows
<1>5. ASSUME NEW t \in E PROVE col[t] = Gain(U, t) /\ col[t] \in Int
  <2> DEFINE c == [a \in U |-> m[a][t]]
  <2>1. c = [a \in U |-> Effect(t, a)]
    BY <1>3
  <2>2. \A a \in U : c[a] \in Int
    BY <1>3
  <2>3. col[t] = SumFunctionOnSet(c, U)
    OBVIOUS
  <2> HIDE DEF c
  <2>4. SumFunctionOnSet(c, U) \in Int
    BY <1>2, <2>2, SumType
  <2>5. Gain(U, t) = SumFunctionOnSet(c, U)
    BY <2>1, Zenon DEF Gain
  <2>6. QED
    BY <2>3, <2>4, <2>5
<1>6. col = [t \in Entered |-> Gain(U, t)]
  <2>1. \A t \in E : col[t] = Gain(U, t)
    BY <1>5
  <2>2. QED
    BY <1>1, <2>1
<1>7. ASSUME NEW a \in U
      PROVE  opn[a] \in Int /\ row[a] \in Int /\ bal[a] = opn[a] + row[a]
  <2>1. opn[a] = Opening[a] /\ Opening[a] \in Int /\ a \in Account
    BY <1>2, OpeningAssumption
  <2>2. m[a] = [t \in Entered |-> Effect(t, a)] /\ row[a] = SumFunctionOnSet(m[a], E)
    BY <1>1
  <2>3. SumFunctionOnSet(m[a], E) \in Int
    BY <1>2, <1>3, SumType
  <2>4. accounts[a].balance = Opening[a] + SumFunction(m[a])
    BY <2>1, <2>2 DEF Explained, BalanceMatchesLedger
  <2>5. SumFunction(m[a]) = SumFunctionOnSet(m[a], E)
    BY <1>1, <2>2 DEF SumFunction
  <2>6. QED
    BY <2>1, <2>2, <2>3, <2>4, <2>5
<1>8. /\ SumFunction([a \in U |-> Opening[a]]) = SumFunctionOnSet(opn, U)
      /\ SumFunction([a \in U |-> accounts[a].balance]) = SumFunctionOnSet(bal, U)
  BY DEF SumFunction
<1>9. \A t \in E : col[t] \in Int /\ Gain(U, t) \in Int
  BY <1>5
<1> HIDE DEF row, col, opn, bal
<1>10. SumFunctionOnSet(bal, U) = SumFunctionOnSet(opn, U) + SumFunctionOnSet(row, U)
  BY <1>2, <1>7, SumAdds
<1>11. SumFunctionOnSet(opn, U) \in Int /\ SumFunctionOnSet(col, E) \in Int
  BY <1>2, <1>7, <1>9, SumType
<1>12. QED
  BY <1>1, <1>4, <1>6, <1>8, <1>9, <1>10, <1>11

LEMMA SavingsBalance ==
  ASSUME Inv, AskedInv, Explained, FiledDeposits, NEW u \in User, UserAccounts(u) # {}
  PROVE  LET shown == getAnalytics(u)
             opened == SumFunction([a \in UserAccounts(u) |-> Opening[a]])
         IN  /\ shown.totalSpent = shown.flow.outflow
             /\ shown.flow.netSavings =
                  getSummary(u).totalBalance - opened
                    - Total(Own(u)) - Total(Loops(u)) + Total(Gifts(u))
<1>1. PICK I, O, W, L, G, f :
        /\ I = Inflows(u) /\ O = Outflows(u) /\ W = Own(u) /\ L = Loops(u) /\ G = Gifts(u)
        /\ f = [t \in Entered |-> Gain(UserAccounts(u), t)]
  OBVIOUS
<1>2. TypeOK /\ IsFiniteSet(Entered)
  BY DEF Inv, Explained
<1>3. /\ I \subseteq Entered /\ O \subseteq Entered /\ W \subseteq Entered
      /\ L \subseteq Entered /\ G \subseteq Entered
  BY <1>1 DEF Inflows, Outflows, Own, Loops, Gifts, flowMatch, Successful, Recent, Entered
<1>4. \A t \in Entered : f[t] \in Int /\ f[t] = Gain(UserAccounts(u), t)
  BY <1>1, GainsAddUp DEF UserAccounts
<1>5. \A t \in Entered : Share(t, I) + Share(t, W) + Share(t, L) =
                           f[t] + Share(t, O) + Share(t, G)
  BY <1>1, <1>4, FlowsBalance
<1>6. Total(I) + Total(W) + Total(L) = SumFunctionOnSet(f, Entered) + Total(O) + Total(G)
  BY <1>2, <1>3, <1>4, <1>5, TotalsBalance
<1>7. /\ Total(I) \in Int /\ Total(O) \in Int /\ Total(W) \in Int
      /\ Total(L) \in Int /\ Total(G) \in Int
  BY <1>2, <1>3, TotalIsShares
<1>8. PICK opened \in Int, gains \in Int :
        /\ opened = SumFunction([a \in UserAccounts(u) |-> Opening[a]])
        /\ gains = SumFunctionOnSet(f, Entered)
        /\ getSummary(u).totalBalance = opened + gains
  BY <1>1, GainsAddUp DEF UserAccounts, getSummary
<1>9. outflowMatch(u) = O
  <2>1. ASSUME NEW t \in TxnId, Successful(t)
        PROVE  ledger[t].type \in {"WITHDRAW", "TRANSFER"} /\ Pays(u, t)
                 <=> TookPart(u, t) /\ IsOutflow(u, t)
    <3>1. t \in Entered
      BY <2>1 DEF Successful, Recent, Entered
    <3>2. QED
      BY <3>1, PartsOf DEF TookPart, IsOutflow
  <2>2. QED
    BY <1>1, <2>1 DEF outflowMatch, Outflows, flowMatch
<1>10. /\ getAnalytics(u).totalSpent = Total(O)
       /\ getAnalytics(u).flow.outflow = Total(O)
       /\ getAnalytics(u).flow.netSavings = Total(I) - Total(O)
  BY <1>1, <1>9 DEF getAnalytics, inflowVsOutflow, Inflows, Outflows
<1>11. Total(I) - Total(O) =
         getSummary(u).totalBalance - opened - Total(W) - Total(L) + Total(G)
  <2>1. PICK i, o, w, l, g, b :
          /\ i = Total(I) /\ o = Total(O) /\ w = Total(W) /\ l = Total(L) /\ g = Total(G)
          /\ b = getSummary(u).totalBalance
    OBVIOUS
  <2>2. i + w + l = gains + o + g
    BY <1>6, <1>8, <2>1, Zenon
  <2>3. b = opened + gains
    BY <1>8, <2>1, Zenon
  <2>4. i \in Int /\ o \in Int /\ w \in Int /\ l \in Int /\ g \in Int
    BY <1>7, <2>1, Zenon
  <2>5. opened \in Int /\ gains \in Int
    BY <1>8
  <2>6. i - o = b - opened - w - l + g
    BY <2>2, <2>3, <2>4, <2>5
  <2>7. QED
    BY <2>1, <2>6, Zenon
<1>12. QED
  BY <1>1, <1>8, <1>10, <1>11

(* The analytics agree with the summary, but for the transfers between     *)
(* one's own accounts and the deposits for others.                         *)
THEOREM SavingsHold == Spec => []SavingsAreExplained
<1>1. Inv /\ AskedInv /\ Explained /\ FiledDeposits => SavingsAreExplained
  BY SavingsBalance DEF SavingsAreExplained
<1>2. QED
  BY <1>1, InvHolds, AlwaysAsked, AlwaysExplained, AlwaysFiled, PTL
-----------------------------------------------------------------------------
(* The overview. *)

(* For one record, its type says what it did to the money in the bank.     *)
LEMMA MoneyBalances ==
  ASSUME Inv, NEW t \in Entered, NEW D, NEW W, NEW T, NEW O, NEW L, NEW S,
         D = {s \in TxnId : Recent(s) /\ ledger[s].type = "DEPOSIT"},
         W = {s \in TxnId : Recent(s) /\ ledger[s].type = "WITHDRAW"},
         T = {s \in TxnId : Recent(s) /\ ledger[s].type = "TRANSFER"},
         S = {s \in TxnId : Successful(s)}, O = Unposted, L = SelfTransfers
  PROVE  /\ Share(t, D) + Share(t, L) + Share(t, {}) =
              Gain(Account, t) + Share(t, W) + Share(t, O)
         /\ Share(t, D) + Share(t, W) + Share(t, T) =
              0 + Share(t, S) + Share(t, O)
<1>1. PICK x \in Txn : x = ledger[t]
  BY EffectIsWorth DEF Inv
<1>2. /\ t \in TxnId /\ Recent(t) /\ Shape(x)
      /\ x.amount \in Int /\ x.type \in {"DEPOSIT", "WITHDRAW", "TRANSFER"}
  BY <1>1, Records DEF Inv, LedgerInv, Entered, Recent
<1>3. /\ t \in D <=> x.type = "DEPOSIT"
      /\ t \in W <=> x.type = "WITHDRAW"
      /\ t \in T <=> x.type = "TRANSFER"
      /\ t \in S <=> x.status = "SUCCESS"
      /\ t \in O <=> x.status # "SUCCESS"
      /\ t \in L <=> x.status = "SUCCESS" /\ x.from = x.to
  BY <1>1, <1>2 DEF Successful, Unposted, SelfTransfers
<1>4. Gain(Account, t) =
        IF x.status # "SUCCESS" THEN 0
        ELSE (IF x.to \in Account THEN x.amount ELSE 0)
             - (IF x.from \in Account /\ x.from # x.to THEN x.amount ELSE 0)
  BY <1>1, GainIs
<1>5. /\ x.type = "DEPOSIT" => x.to \in Account /\ x.from \notin Account
      /\ x.type = "WITHDRAW" => x.from \in Account /\ x.to \notin Account
      /\ x.type = "TRANSFER" => x.from \in Account /\ x.to \in Account
      /\ x.status # "SUCCESS" => x.type = "DEPOSIT"
  BY <1>2, NoAccountAssumption DEF Shape
<1>6. /\ Share(t, D) = IF x.type = "DEPOSIT" THEN x.amount ELSE 0
      /\ Share(t, W) = IF x.type = "WITHDRAW" THEN x.amount ELSE 0
      /\ Share(t, T) = IF x.type = "TRANSFER" THEN x.amount ELSE 0
      /\ Share(t, S) = IF x.status = "SUCCESS" THEN x.amount ELSE 0
      /\ Share(t, O) = IF x.status # "SUCCESS" THEN x.amount ELSE 0
      /\ Share(t, L) = IF x.status = "SUCCESS" /\ x.from = x.to THEN x.amount ELSE 0
      /\ Share(t, {}) = 0
  BY <1>1, <1>3 DEF Share
<1>7. Share(t, D) + Share(t, L) + Share(t, {}) =
        Gain(Account, t) + Share(t, W) + Share(t, O)
  BY <1>2, <1>4, <1>5, <1>6
<1>8. Share(t, D) + Share(t, W) + Share(t, T) = 0 + Share(t, S) + Share(t, O)
  BY <1>2, <1>6
<1>9. QED
  BY <1>7, <1>8

LEMMA StatsBalance == ASSUME Inv, Explained PROVE StatsAddUp
<1>1. PICK D, W, T, S, O, L, f, z :
        /\ D = {s \in TxnId : Recent(s) /\ ledger[s].type = "DEPOSIT"}
        /\ W = {s \in TxnId : Recent(s) /\ ledger[s].type = "WITHDRAW"}
        /\ T = {s \in TxnId : Recent(s) /\ ledger[s].type = "TRANSFER"}
        /\ S = {s \in TxnId : Successful(s)} /\ O = Unposted /\ L = SelfTransfers
        /\ f = [t \in Entered |-> Gain(Account, t)] /\ z = [t \in Entered |-> 0]
  OBVIOUS
<1>2. TypeOK /\ IsFiniteSet(Entered)
  BY DEF Inv, Explained
<1>3. /\ D \subseteq Entered /\ W \subseteq Entered /\ T \subseteq Entered
      /\ S \subseteq Entered /\ O \subseteq Entered /\ L \subseteq Entered /\ {} \subseteq Entered
  BY <1>1 DEF Recent, Successful, Unposted, SelfTransfers, Entered
<1>4. \A t \in Entered : f[t] \in Int /\ f[t] = Gain(Account, t) /\ z[t] \in Int /\ z[t] = 0
  <2>1. Account \in SUBSET Account
    OBVIOUS
  <2>2. \A t \in Entered : Gain(Account, t) \in Int
    BY <2>1, GainsAddUp
  <2>3. QED
    BY <1>1, <2>2
<1>5. \A t \in Entered :
        /\ Share(t, D) + Share(t, L) + Share(t, {}) = f[t] + Share(t, W) + Share(t, O)
        /\ Share(t, D) + Share(t, W) + Share(t, T) = z[t] + Share(t, S) + Share(t, O)
  <2>1. SUFFICES ASSUME NEW t \in Entered
                 PROVE  /\ Share(t, D) + Share(t, L) + Share(t, {}) =
                             f[t] + Share(t, W) + Share(t, O)
                        /\ Share(t, D) + Share(t, W) + Share(t, T) =
                             z[t] + Share(t, S) + Share(t, O)
    OBVIOUS
  <2>2. f[t] = Gain(Account, t) /\ z[t] = 0
    BY <1>4
  <2>3. /\ Share(t, D) + Share(t, L) + Share(t, {}) =
              Gain(Account, t) + Share(t, W) + Share(t, O)
        /\ Share(t, D) + Share(t, W) + Share(t, T) = 0 + Share(t, S) + Share(t, O)
    BY <1>1, MoneyBalances
  <2>4. QED
    BY <2>2, <2>3
<1>6. /\ Total(D) + Total(L) + Total({}) = SumFunctionOnSet(f, Entered) + Total(W) + Total(O)
      /\ Total(D) + Total(W) + Total(T) = SumFunctionOnSet(z, Entered) + Total(S) + Total(O)
  <2>1. Total(D) + Total(L) + Total({}) = SumFunctionOnSet(f, Entered) + Total(W) + Total(O)
    BY <1>2, <1>3, <1>4, <1>5, TotalsBalance
  <2>2. Total(D) + Total(W) + Total(T) = SumFunctionOnSet(z, Entered) + Total(S) + Total(O)
    BY <1>2, <1>3, <1>4, <1>5, TotalsBalance
  <2>3. QED
    BY <2>1, <2>2
<1>7. SumFunctionOnSet(z, Entered) = 0
  BY <1>2, <1>4, SumOfZeros
<1>8. /\ Total(D) \in Int /\ Total(W) \in Int /\ Total(T) \in Int
      /\ Total(S) \in Int /\ Total(O) \in Int /\ Total(L) \in Int
  BY <1>2, <1>3, TotalIsShares
<1>9. PICK opened \in Int, gains \in Int :
        /\ opened = SumFunction(Opening)
        /\ gains = SumFunctionOnSet(f, Entered)
        /\ SumFunction([a \in Account |-> accounts[a].balance]) = opened + gains
  <2>1. Opening = [a \in Account |-> Opening[a]]
    BY OpeningAssumption
  <2>2. QED
    BY <1>1, <2>1, GainsAddUp
<1>10. PICK stats : stats = getSystemStats
  OBVIOUS
<1>11. /\ stats.totalBalance = opened + gains
       /\ stats.totalVolume = Total(S)
       /\ stats.byType["DEPOSIT"] = Total(D)
       /\ stats.byType["WITHDRAW"] = Total(W)
       /\ stats.byType["TRANSFER"] = Total(T)
  BY <1>1, <1>9, <1>10 DEF getSystemStats, TxnType
<1>12. PICK d, w, v, s, o, l :
         /\ d = Total(D) /\ w = Total(W) /\ v = Total(T)
         /\ s = Total(S) /\ o = Total(O) /\ l = Total(L)
  OBVIOUS
<1>13. d + l + 0 = gains + w + o /\ d + w + v = 0 + s + o
  BY <1>6, <1>7, <1>9, <1>12, EmptyTotal, Zenon
<1>14. /\ d \in Int /\ w \in Int /\ v \in Int /\ s \in Int /\ o \in Int /\ l \in Int
       /\ opened \in Int /\ gains \in Int
  BY <1>8, <1>9, <1>12
<1>15. opened + gains = opened + d - o - w + l /\ s = d + w + v - o
  BY <1>13, <1>14
<1>16. QED
  BY <1>1, <1>9, <1>10, <1>11, <1>12, <1>15, Zenon DEF StatsAddUp

(* The overview explains the money in the bank.                            *)
THEOREM StatsHold == Spec => []StatsAddUp
<1>1. Inv /\ Explained => StatsAddUp
  BY StatsBalance
<1>2. QED
  BY <1>1, InvHolds, AlwaysExplained, PTL
=============================================================================
