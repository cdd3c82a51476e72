----------------------------- MODULE ClientProofs -----------------------------
(***************************************************************************)
(* Proofs about Client, for any of the roles, pages and clicks, and any    *)
(* number of requests in flight.                                           *)
(***************************************************************************)
EXTENDS Client, SequenceTheorems, TLAPS

-----------------------------------------------------------------------------
(* What the pages send: deposits and withdrawals only from buttons that    *)
(* wait for the flag of the money pages, and no money after another        *)
(* request.                                                                *)
Cash == MoneyThunks \ {"executeTransfer"}
Afters == {"nothing", "getMe", "read", "updateProfileImage", "disable2FAViaOTP"}
Gos == {"stay", "home", "public"}

GoodHandler(h) ==
  /\ h = Handler(h.sends, h.from, h.step, h.go, h.after)
  /\ h.after \in Afters /\ h.go \in Gos

GoodButton(b) ==
  /\ GoodHandler(b.does)
  /\ b.does.sends \in Cash => b.needs \in {"txn", "modal"}

LEMMA GoodButtons ==
  ASSUME NEW at, NEW sends, NEW from, NEW step, NEW go \in Gos, NEW after \in Afters, NEW busy,
         sends \in Cash => busy \in {"txn", "modal"}
  PROVE  GoodButton(Button(at, Handler(sends, from, step, go, after), busy))
BY DEF GoodButton, GoodHandler, Button, Handler

LEMMA LoginButtons == \A b \in Login.buttons : GoodButton(b)
BY DEF Login, PasswordForm, SecondForm, ForgotModal, onSubmit, handle2FAVerify,
       handleSendDisable2FAOTP, handleVerifyDisable2FA, handleResendDisable2FAOTP,
       handleSendForgotOTP, handleVerifyForgotOTP, handleResetPasswordSubmit,
       handleResendForgotOTP, Page, Stay, Thence, Shows, Key, Resend, Cash,
       MoneyThunks, GoodButton, GoodHandler, Button, Handler, Gos, Afters

LEMMA RestrictedButtons ==
  \A b \in Register.buttons \cup ApprovalRequired.buttons \cup AccountFrozen.buttons
            \cup Plain.buttons \cup Messages.buttons : GoodButton(b)
BY DEF Register, ApprovalRequired, AccountFrozen, Plain, Messages, RegisterSubmit,
       handleLogout, handleDisputeSubmit, Page, Stay, Thence, Shows, Key, Resend,
       Cash, MoneyThunks, GoodButton, GoodHandler, Button, Handler, Gos, Afters

LEMMA HomeButtons ==
  \A b \in DashboardHome.buttons \cup Accounts.buttons \cup Transactions.buttons
            \cup Analytics.buttons : GoodButton(b)
BY DEF DashboardHome, Accounts, Transactions, Analytics, DepositModal, WithdrawModal,
       DownloadStatementModal, CreateAccountModal, BalanceCheckModal, Page, Stay,
       Thence, Shows, Key, Resend, Cash, MoneyThunks, GoodButton, GoodHandler, Button,
       Handler, Gos, Afters

LEMMA KycButtons == \A b \in KYC.buttons : GoodButton(b)
BY DEF KYC, handleSubmit, handleViewDocument, DocumentsForm, DocumentsStatus, Page,
       Stay, Thence, Shows, Key, Resend, Cash, MoneyThunks, GoodButton, GoodHandler,
       Button, Handler, Gos, Afters

LEMMA TransferButtons == \A b \in Transfer.buttons : GoodButton(b)
BY DEF Transfer, handleTransfer, ReceiverSearch, TpinStep, TPINRecoveryModal,
       RecoverySendOTP, RecoveryVerifyOTP, handleResetTPIN, Page, Stay, Thence, Shows,
       Key, Resend, Cash, MoneyThunks, GoodButton, GoodHandler, Button, Handler, Gos,
       Afters

LEMMA ProfileButtons == \A b \in Profile.buttons : GoodButton(b)
BY DEF Profile, ProfileSubmit, handleImageUpload, TPINSetupWizard, WizardSetup,
       WizardChange, handleAction2FA, TwoFactorSetup, ProfileHeader,
       ContactInformation, Security, TPINRecoveryModal, RecoverySendOTP,
       RecoveryVerifyOTP, handleResetTPIN, Page, Stay, Thence, Shows, Key, Resend,
       Cash, MoneyThunks, GoodButton, GoodHandler, Button, Handler, Gos, Afters

LEMMA StaffButtons ==
  \A b \in ApproveDeposits.buttons \cup PendingApprovals.buttons
            \cup FreezeAccounts.buttons \cup FreezeDisputes.buttons : GoodButton(b)
BY DEF ApproveDeposits, PendingApprovals, FreezeAccounts, FreezeDisputes,
       handleApprove, handleReject, handleAction, handleFreeze, handleUnfreeze, Page,
       Stay, Thence, Shows, Key, Resend, Cash, MoneyThunks, GoodButton, GoodHandler,
       Button, Handler, Gos, Afters

LEMMA UsersButtons == \A b \in Users.buttons : GoodButton(b)
BY DEF Users, handleKycAudit, handleRoleChange, handleLoadKycDocs, KycTab,
       DocumentViewer, DirectoryTab, Page, Stay, Thence, Shows, Key, Resend, Cash,
       MoneyThunks, GoodButton, GoodHandler, Button, Handler, Gos, Afters

LEMMA ButtonsAreGood == \A p \in AllPages : \A b \in PageAt[p].buttons : GoodButton(b)
<1>1. \A p \in AllPages :
        PageAt[p] \in {Plain, ApprovalRequired, Login, Register, DashboardHome, Profile,
                       AccountFrozen, Accounts, Transfer, Transactions, Analytics, KYC, Messages,
                       ApproveDeposits, PendingApprovals, Users, FreezeAccounts, FreezeDisputes}
  BY DEF PageAt, AllPages, GuestPages, DashboardPages, CustomerPages, ManagerPages
<1>2. QED
  BY <1>1, LoginButtons, RestrictedButtons, HomeButtons, KycButtons, TransferButtons,
     ProfileButtons, StaffButtons, UsersButtons

Fetched == {"read", "fetchTransactions"}
LEMMA FetchesAreReads == \A p \in AllPages : PageAt[p].fetches \subseteq Fetched
BY DEF PageAt, AllPages, GuestPages, DashboardPages, CustomerPages, ManagerPages, Fetched, Page,
       Plain, ApprovalRequired, Login, Register, DashboardHome, Profile, AccountFrozen, Accounts,
       Transfer, Transactions, Analytics, KYC, Messages, ApproveDeposits, PendingApprovals, Users,
       FreezeAccounts, FreezeDisputes

(* Every request in flight is what a button or a page sent, or what       *)
(* follows one of them; detached from its page it sends the same.          *)
LEMMA GoodDoes == \A h \in Does : GoodHandler(h) /\ Unseen(h) \in Does
<1>1. \A h \in ButtonsDo : GoodHandler(h)
  BY ButtonsAreGood DEF ButtonsDo, Buttons, GoodButton
<1>2. \A h : GoodHandler(h) => GoodHandler(Unseen(h)) /\ Unseen(Unseen(h)) = Unseen(h)
  BY DEF GoodHandler, Handler, Unseen
<1> DEFINE Ks == {"nothing", "logoutUser", "getMe", "read", "fetchTransactions",
                  "updateProfileImage"}
           Chained == Handler("disable2FAViaOTP", {}, "view", "home", "nothing")
<1>3. /\ \A k \in Ks : GoodHandler(Stay(k)) /\ Unseen(Stay(k)) = Stay(k)
      /\ GoodHandler(Chained) /\ Unseen(Chained) = Chained
  BY DEF Stay, GoodHandler, Handler, Unseen, Gos, Afters
<1>4. Does = ButtonsDo \cup {Unseen(h) : h \in ButtonsDo}
                \cup {Stay(k) : k \in Ks} \cup {Chained}
  BY DEF Does
<1> HIDE DEF Ks, Chained
<1>5. ASSUME NEW h \in Does PROVE GoodHandler(h) /\ Unseen(h) \in Does
  <2>1. CASE h \in ButtonsDo
    BY <1>1, <1>4, <2>1
  <2>2. CASE h \in {Unseen(g) : g \in ButtonsDo}
    BY <1>1, <1>2, <1>4, <2>2
  <2>3. CASE h \in {Stay(k) : k \in Ks} \cup {Chained}
    BY <1>3, <1>4, <2>3
  <2>4. QED
    BY <1>4, <2>1, <2>2, <2>3
<1>6. QED
  BY <1>5

LEMMA Removed ==
  ASSUME NEW T, NEW s \in Seq(T), NEW i \in 1 .. Len(s)
  PROVE  /\ RemoveAt(s, i) \in Seq(T) /\ Len(RemoveAt(s, i)) = Len(s) - 1
         /\ \A j \in 1 .. (Len(s) - 1) :
              RemoveAt(s, i)[j] = IF j < i THEN s[j] ELSE s[j + 1]
<1>1. Len(s) \in Nat /\ \A j \in 1 .. Len(s) : s[j] \in T
  OBVIOUS
<1> DEFINE x == SubSeq(s, 1, i - 1)
           y == SubSeq(s, i + 1, Len(s))
<1>2. /\ x \in Seq(T) /\ Len(x) = i - 1
      /\ \A j \in 1 .. (i - 1) : x[j] = s[j]
  BY <1>1, SubSeqProperties
<1>3. /\ y \in Seq(T) /\ Len(y) = Len(s) - i
      /\ \A j \in 1 .. (Len(s) - i) : y[j] = s[i + j]
  BY <1>1, SubSeqProperties
<1>4. RemoveAt(s, i) = x \o y
  BY DEF RemoveAt
<1> HIDE DEF x, y
<1>5. /\ x \o y \in Seq(T) /\ Len(x \o y) = Len(x) + Len(y)
      /\ \A j \in 1 .. Len(x) + Len(y) :
           (x \o y)[j] = IF j <= Len(x) THEN x[j] ELSE y[j - Len(x)]
  BY <1>2, <1>3, ConcatProperties
<1>6. ASSUME NEW j \in 1 .. (Len(s) - 1)
      PROVE  RemoveAt(s, i)[j] = IF j < i THEN s[j] ELSE s[j + 1]
  <2>1. CASE j < i
    BY <1>1, <1>2, <1>3, <1>4, <1>5, <2>1
  <2>2. CASE j >= i
    <3>1. j - (i - 1) \in 1 .. (Len(s) - i) /\ i + (j - (i - 1)) = j + 1
      BY <1>1, <2>2
    <3>2. (x \o y)[j] = y[j - (i - 1)]
      BY <1>1, <1>2, <1>3, <1>5, <2>2
    <3>3. y[j - (i - 1)] = s[j + 1]
      BY <1>3, <3>1
    <3>4. QED
      BY <1>1, <1>4, <2>2, <3>2, <3>3
  <2>3. QED
    BY <1>1, <2>1, <2>2
<1>7. Len(x) + Len(y) = Len(s) - 1
  BY <1>1, <1>2, <1>3
<1>8. RemoveAt(s, i) \in Seq(T) /\ Len(RemoveAt(s, i)) = Len(s) - 1
  BY <1>4, <1>5, <1>7
<1>9. QED
  BY <1>6, <1>8

-----------------------------------------------------------------------------
(* The invariant.                                                          *)
Known == [approval : Approvals \cup {"none"}, frozen : Flags \cup {"none"}]
Auth == [user : Known, isAuthenticated : BOOLEAN, loading : BOOLEAN]
Flying ==
  [does : Does, busy : {b.busy : b \in Buttons} \cup {"none"}, signed : BOOLEAN, live : BOOLEAN,
   answer : AnswerKinds \cup {"none"}, user : Known]

GoodRequest(q) ==
  /\ q.answer = "second" => q.does.sends = "loginUser"
  /\ q.answer = "ok" /\ q.does.sends \in UserThunks => q.user # NoUser

(* A question who is signed in that is not going to be answered "nobody".  *)
Telling(q) ==
  /\ q.does.sends = "getMe"
  /\ q.answer \in {"ok", "refused"} \/ (q.answer = "none" /\ q.signed)

Flight(r) == r \in Seq(Flying) /\ \A s \in 1 .. Len(r) : GoodRequest(r[s])
Waits(r, thunks) == \E s \in 1 .. Len(r) : r[s].does.sends \in thunks
Twice(r) ==
  \E s, u \in 1 .. Len(r) :
    s < u /\ r[s].does.sends \in MoneyThunks /\ r[u].does.sends \in Cash
Tells(r) == \E s \in 1 .. Len(r) : Telling(r[s])

Typed ==
  /\ server \in [role : UserRoles, approval : {"none", "PENDING", "APPROVED"}, frozen : BOOLEAN]
  /\ cookie \in BOOLEAN /\ blind \in BOOLEAN /\ disturbed \in BOOLEAN
  /\ page \in AllPages
  /\ auth \in Auth /\ txn \in TransactionSlice
  /\ Flight(requests)

Fits ==
  /\ auth.isAuthenticated => auth.user # NoUser
  /\ auth.loading => Waits(requests, AuthThunks)
  /\ txn.loading => Waits(requests, TransactionThunks)
  /\ form # "none" => Mountable(auth, page)

Money ==
  /\ Waits(requests, MoneyThunks) /\ ~disturbed => txn.loading
  /\ Twice(requests) => disturbed

Session == cookie /\ ~blind /\ ~auth.isAuthenticated => Tells(requests)

IInv == Typed /\ Fits /\ Money /\ Session

LEMMA Consequences == IInv => StoreFits /\ SessionIsKnown /\ OnlyTransfersOverlap
<1>1. IInv => StoreFits
  BY DEF IInv, Fits, StoreFits, Waits, InFlight
<1>2. Len(<<>>) = 0
  OBVIOUS
<1>3. IInv => SessionIsKnown
  BY <1>2 DEF IInv, Typed, Auth, Session, SessionIsKnown, Tells
<1>4. IInv => OnlyTransfersOverlap
  BY DEF IInv, Money, OnlyTransfersOverlap, Twice, InFlight, Cash
<1>5. QED
  BY <1>1, <1>3, <1>4

-----------------------------------------------------------------------------
(* A request goes on without its page.                                     *)
LEMMA DetachedIsGood ==
  ASSUME NEW q \in Flying
  PROVE  /\ Detached(q) \in Flying
         /\ Detached(q).does.sends = q.does.sends
         /\ GoodRequest(q) => GoodRequest(Detached(q))
         /\ Telling(q) => Telling(Detached(q))
<1>1. Unseen(q.does) \in Does /\ Unseen(q.does).sends = q.does.sends
  <2>1. q.does \in Does
    BY DEF Flying
  <2>2. QED
    BY <2>1, GoodDoes DEF Unseen, Handler
<1>2. Detached(q) \in Flying
  BY <1>1 DEF Detached, Flying
<1>3. /\ Detached(q).does = Unseen(q.does) /\ Detached(q).signed = q.signed
      /\ Detached(q).answer = q.answer /\ Detached(q).user = q.user
  BY DEF Detached, Flying
<1>4. QED
  BY <1>1, <1>2, <1>3 DEF GoodRequest, Telling

LEMMA GuardStays ==
  ASSUME NEW a, NEW p, Mountable(a, p), auth' = a, page' = p, server'.role = server.role
  PROVE  Mountable(auth, page)'
BY DEF Mountable, Spinner, Guard

(* What a dispatch or a navigation leaves of the tab.                      *)
LEMMA Becoming ==
  ASSUME NEW a \in Auth, NEW t \in TransactionSlice, NEW r, Flight(r), NEW p, NEW step,
         Become(a, t, r, p, step)
  PROVE  /\ auth' = a /\ page' = p /\ (form' # "none" => Mountable(a, p))
         /\ txn' \in TransactionSlice /\ (txn'.loading => t.loading)
         /\ Flight(requests') /\ Len(requests') = Len(r)
         /\ \A s \in 1 .. Len(r) :
              /\ requests'[s].does.sends = r[s].does.sends
              /\ Telling(r[s]) => Telling(requests'[s])
         /\ disturbed' \in BOOLEAN
         /\ Waits(r, MoneyThunks) => disturbed' = (disturbed \/ ~txn'.loading)
<1> DEFINE kept == form # "none" /\ p = page /\ Mountable(a, p)
           held == IF kept THEN r ELSE [s \in DOMAIN r |-> Detached(r[s])]
<1>1. /\ auth' = a /\ page' = p /\ form' = IF kept THEN step ELSE "none"
      /\ txn' = t \/ txn' = TxnCleared
  BY DEF Become
<1>2. requests' = held
  BY DEF Become
<1>3. disturbed' = ((\E s \in DOMAIN held : held[s].does.sends \in MoneyThunks)
                     /\ (disturbed \/ ~txn'.loading))
  BY DEF Become
<1>4. /\ r \in Seq(Flying) /\ Len(r) \in Nat /\ DOMAIN r = 1 .. Len(r)
      /\ \A s \in 1 .. Len(r) : r[s] \in Flying /\ GoodRequest(r[s])
  BY DEF Flight
<1>5. \A s \in 1 .. Len(r) : held[s] = r[s] \/ held[s] = Detached(r[s])
  BY <1>4
<1>6. held \in Seq(Flying) /\ Len(held) = Len(r) /\ DOMAIN held = 1 .. Len(r)
  <2>1. CASE kept
    BY <1>4, <2>1
  <2>2. CASE ~kept
    <3>1. held = [s \in 1 .. Len(r) |-> Detached(r[s])]
      BY <1>4, <2>2
    <3>2. \A s \in 1 .. Len(r) : Detached(r[s]) \in Flying
      BY <1>4, DetachedIsGood
    <3>3. QED
      BY <1>4, <3>1, <3>2
  <2>3. QED
    BY <2>1, <2>2
<1>7. \A s \in 1 .. Len(r) :
        /\ GoodRequest(held[s])
        /\ held[s].does.sends = r[s].does.sends
        /\ Telling(r[s]) => Telling(held[s])
  BY <1>4, <1>5, DetachedIsGood
<1>8. TxnCleared \in TransactionSlice /\ ~TxnCleared.loading
  BY DEF TxnCleared, transactionInitial, TransactionSlice
<1> HIDE DEF held, kept
<1>9. Flight(requests') /\ Len(requests') = Len(r)
  BY <1>2, <1>6, <1>7 DEF Flight
<1>10. Waits(r, MoneyThunks) => disturbed' = (disturbed \/ ~txn'.loading)
  <2>1. ASSUME Waits(r, MoneyThunks)
        PROVE  \E s \in DOMAIN held : held[s].does.sends \in MoneyThunks
    BY <1>6, <1>7, <2>1 DEF Waits
  <2>2. QED
    BY <1>3, <2>1
<1>11. disturbed' \in BOOLEAN
  BY <1>3
<1>12. auth' = a /\ page' = p /\ (form' # "none" => Mountable(a, p))
  BY <1>1 DEF kept
<1>13. txn' \in TransactionSlice /\ (txn'.loading => t.loading)
  BY <1>1, <1>8
<1>14. \A s \in 1 .. Len(r) :
        /\ requests'[s].does.sends = r[s].does.sends
        /\ Telling(r[s]) => Telling(requests'[s])
  BY <1>2, <1>7
<1>15. QED
  BY <1>9, <1>10, <1>11, <1>12, <1>13, <1>14

LEMMA Moving ==
  ASSUME IInv, NEW a \in Auth, NEW t \in TransactionSlice, NEW r, Flight(r), NEW p \in AllPages,
         NEW step, Become(a, t, r, p, step),
         a.isAuthenticated => a.user # NoUser,
         a.loading => Waits(r, AuthThunks), t.loading => Waits(r, TransactionThunks),
         Twice(r) => disturbed,
         cookie' /\ ~blind' /\ ~a.isAuthenticated => Tells(r),
         cookie' \in BOOLEAN, blind' \in BOOLEAN, server' = server
  PROVE  IInv'
<1>1. /\ auth' = a /\ page' = p /\ (form' # "none" => Mountable(a, p))
      /\ txn' \in TransactionSlice /\ (txn'.loading => t.loading)
      /\ Flight(requests') /\ Len(requests') = Len(r)
      /\ \A s \in 1 .. Len(r) :
           /\ requests'[s].does.sends = r[s].does.sends
           /\ Telling(r[s]) => Telling(requests'[s])
      /\ disturbed' \in BOOLEAN
      /\ Waits(r, MoneyThunks) => disturbed' = (disturbed \/ ~txn'.loading)
  BY Becoming
<1>2. Flight(requests)'
  BY <1>1 DEF Flight, GoodRequest
<1>3. Typed'
  BY <1>1, <1>2 DEF IInv, Typed
<1>4. \A K : Waits(requests', K) <=> Waits(r, K)
  BY <1>1 DEF Waits
<1>5. Fits'
  <2>1. (auth.loading => Waits(requests, AuthThunks))'
    BY <1>1, <1>4
  <2>2. (txn.loading => Waits(requests, TransactionThunks))'
    BY <1>1, <1>4
  <2>3. (form # "none" => Mountable(auth, page))'
    BY <1>1, GuardStays
  <2>4. QED
    BY <1>1, <2>1, <2>2, <2>3 DEF Fits
<1>6. Money'
  <2>1. ASSUME Waits(requests', MoneyThunks), ~disturbed' PROVE txn'.loading
    BY <1>1, <1>4, <2>1 DEF TransactionSlice
  <2>2. ASSUME Twice(requests') PROVE disturbed'
    <3>1. Twice(r) /\ Waits(r, MoneyThunks)
      BY <1>1, <2>2 DEF Twice, Waits
    <3>2. QED
      BY <1>1, <3>1
  <2>3. QED
    BY <2>1, <2>2 DEF Money
<1>7. Session'
  BY <1>1 DEF Session, Tells
<1>8. QED
  BY <1>3, <1>5, <1>6, <1>7 DEF IInv

-----------------------------------------------------------------------------
(* Requests are added at the end and taken out where they are answered.    *)
Busies == {b.busy : b \in Buttons} \cup {"none"}

LEMMA NewRequest ==
  ASSUME cookie \in BOOLEAN, NEW h \in Does, NEW busy \in Busies
  PROVE  /\ Request(h, busy) \in Flying /\ GoodRequest(Request(h, busy))
         /\ Request(h, busy).does = h
         /\ h.sends = "getMe" /\ cookie => Telling(Request(h, busy))
<1>1. NoUser \in Known
  BY DEF NoUser, Known
<1>2. Request(h, busy) \in Flying
  BY <1>1 DEF Request, Flying, Busies
<1>3. QED
  BY <1>2 DEF Request, GoodRequest, Telling

LEMMA Appended ==
  ASSUME NEW r, Flight(r), NEW x \in Flying, GoodRequest(x)
  PROVE  /\ Flight(Append(r, x))
         /\ \A K : Waits(r, K) \/ x.does.sends \in K => Waits(Append(r, x), K)
         /\ Tells(r) \/ Telling(x) => Tells(Append(r, x))
         /\ Twice(Append(r, x)) =>
              Twice(r) \/ (Waits(r, MoneyThunks) /\ x.does.sends \in Cash)
<1>1. /\ r \in Seq(Flying) /\ Len(r) \in Nat
      /\ Append(r, x) \in Seq(Flying) /\ Len(Append(r, x)) = Len(r) + 1
      /\ Append(r, x)[Len(r) + 1] = x
      /\ \A s \in 1 .. Len(r) : Append(r, x)[s] = r[s]
  BY DEF Flight
<1> DEFINE n == Append(r, x)
<1>2. \A s \in 1 .. Len(n) : s \in 1 .. Len(r) \/ s = Len(r) + 1
  BY <1>1
<1>3. (Len(r) + 1) \in 1 .. Len(n) /\ \A s \in 1 .. Len(r) : s \in 1 .. Len(n)
  BY <1>1
<1> HIDE DEF n
<1>4. /\ n \in Seq(Flying) /\ n[Len(r) + 1] = x
      /\ \A s \in 1 .. Len(r) : n[s] = r[s]
  BY <1>1 DEF n
<1>5. Flight(n)
  BY <1>2, <1>4 DEF Flight
<1>6. \A K : Waits(r, K) \/ x.does.sends \in K => Waits(n, K)
  BY <1>3, <1>4 DEF Waits
<1>7. Tells(r) \/ Telling(x) => Tells(n)
  BY <1>3, <1>4 DEF Tells
<1>8. Twice(n) => Twice(r) \/ (Waits(r, MoneyThunks) /\ x.does.sends \in Cash)
  BY <1>1, <1>2, <1>4 DEF Twice, Waits
<1>9. QED
  BY <1>5, <1>6, <1>7, <1>8 DEF n

LEMMA Dropped ==
  ASSUME NEW r, Flight(r), NEW s \in 1 .. Len(r)
  PROVE  /\ Flight(RemoveAt(r, s))
         /\ \A K : Waits(r, K) /\ r[s].does.sends \notin K => Waits(RemoveAt(r, s), K)
         /\ Tells(r) /\ ~Telling(r[s]) => Tells(RemoveAt(r, s))
         /\ Twice(RemoveAt(r, s)) => Twice(r)
<1> DEFINE n == RemoveAt(r, s)
           at(j) == IF j < s THEN j ELSE j + 1
<1>1. r \in Seq(Flying) /\ Len(r) \in Nat
  BY DEF Flight
<1>2. /\ n \in Seq(Flying) /\ Len(n) = Len(r) - 1
      /\ \A j \in 1 .. Len(n) : n[j] = IF j < s THEN r[j] ELSE r[j + 1]
  BY <1>1, Removed
<1>3. \A j \in 1 .. Len(n) : n[j] = r[at(j)] /\ at(j) \in 1 .. Len(r)
  BY <1>1, <1>2
<1>4. \A j, k \in 1 .. Len(n) : j < k => at(j) < at(k)
  BY <1>1, <1>2
<1>5. \A u \in 1 .. Len(r) : u # s => \E j \in 1 .. Len(n) : n[j] = r[u]
  <2>1. ASSUME NEW u \in 1 .. Len(r), u < s PROVE u \in 1 .. Len(n) /\ n[u] = r[u]
    BY <1>1, <1>2, <2>1
  <2>2. ASSUME NEW u \in 1 .. Len(r), u > s PROVE (u - 1) \in 1 .. Len(n) /\ n[u - 1] = r[u]
    BY <1>1, <1>2, <2>2
  <2>3. QED
    BY <2>1, <2>2
<1> HIDE DEF n, at
<1>6. Flight(n)
  BY <1>2, <1>3 DEF Flight
<1>7. \A K : Waits(r, K) /\ r[s].does.sends \notin K => Waits(n, K)
  BY <1>5 DEF Waits
<1>8. Tells(r) /\ ~Telling(r[s]) => Tells(n)
  BY <1>5 DEF Tells
<1>9. Twice(n) => Twice(r)
  BY <1>3, <1>4 DEF Twice
<1>10. QED
  BY <1>6, <1>7, <1>8, <1>9 DEF n

-----------------------------------------------------------------------------
(* The slices of the store.                                                *)
LEMMA ThunkSets ==
  /\ SessionThunks \subseteq AuthThunks /\ ReplacingThunks \subseteq AuthThunks
  /\ CookieThunks \subseteq SessionThunks /\ SessionThunks \cap ReplacingThunks = {}
  /\ "getMe" \in SessionThunks /\ "loginUser" \in SessionThunks
  /\ "logoutUser" \in AuthThunks \ (SessionThunks \cup ReplacingThunks)
  /\ MoneyThunks \subseteq TransactionThunks
BY DEF SessionThunks, ReplacingThunks, AuthThunks, CookieThunks, MoneyThunks, TransactionThunks

LEMMA AuthWaits ==
  ASSUME NEW a \in Auth, NEW thunk
  PROVE  /\ AuthPending(a, thunk) \in Auth
         /\ AuthPending(a, thunk).user = a.user
         /\ AuthPending(a, thunk).isAuthenticated = a.isAuthenticated
         /\ AuthPending(a, thunk).loading => a.loading \/ thunk \in AuthThunks
BY DEF AuthPending, Auth

LEMMA TxnWaits ==
  ASSUME NEW t \in TransactionSlice, NEW thunk
  PROVE  /\ TxnPending(t, thunk) \in TransactionSlice
         /\ TxnPending(t, thunk).loading => t.loading \/ thunk \in TransactionThunks
         /\ t.loading => TxnPending(t, thunk).loading
<1>1. CASE thunk \in MoneyThunks
  BY <1>1, ThunkSets DEF TxnPending, TransactionSlice
<1>2. CASE thunk \in TransactionThunks \ MoneyThunks
  BY <1>2 DEF TxnPending, TransactionSlice
<1>3. CASE thunk \notin MoneyThunks \cup TransactionThunks
  BY <1>3 DEF TxnPending
<1>4. QED
  BY <1>1, <1>2, <1>3

LEMMA TxnAnswered ==
  ASSUME NEW t \in TransactionSlice, NEW thunk
  PROVE  /\ TxnFulfilled(t, thunk) \in TransactionSlice
         /\ TxnRejected(t, thunk) \in TransactionSlice
         /\ TxnFulfilled(t, thunk).loading => t.loading /\ thunk \notin TransactionThunks
         /\ TxnRejected(t, thunk).loading => t.loading /\ thunk \notin TransactionThunks
<1>1. TxnFulfilled(t, thunk) \in TransactionSlice
      /\ (TxnFulfilled(t, thunk).loading => t.loading /\ thunk \notin TransactionThunks)
  <2>1. CASE thunk \in MoneyThunks
    BY <2>1, ThunkSets DEF TxnFulfilled, TransactionSlice
  <2>2. CASE thunk \in TransactionThunks \ MoneyThunks
    BY <2>2 DEF TxnFulfilled, TransactionSlice
  <2>3. CASE thunk \notin MoneyThunks \cup TransactionThunks
    BY <2>3 DEF TxnFulfilled
  <2>4. QED
    BY <2>1, <2>2, <2>3
<1>2. TxnRejected(t, thunk) \in TransactionSlice
      /\ (TxnRejected(t, thunk).loading => t.loading /\ thunk \notin TransactionThunks)
  <2>1. "executeTransfer" \in TransactionThunks
    BY DEF MoneyThunks, TransactionThunks
  <2>2. CASE thunk = "executeTransfer"
    BY <2>2 DEF TxnRejected, transactionInitial, TransactionSlice
  <2>3. CASE thunk \in TransactionThunks \ {"executeTransfer"}
    BY <2>3 DEF TxnRejected, TransactionSlice
  <2>4. CASE thunk \notin TransactionThunks
    BY <2>1, <2>4 DEF TxnRejected
  <2>5. QED
    BY <2>2, <2>3, <2>4
<1>3. QED
  BY <1>1, <1>2

LEMMA SignedOutHolds ==
  SignedOut \in Auth /\ ~SignedOut.isAuthenticated /\ ~SignedOut.loading /\ SignedOut.user = NoUser
BY DEF SignedOut, Auth, Known, NoUser

LEMMA AuthAnswered ==
  ASSUME NEW a \in Auth, NEW thunk, NEW user \in Known, a.isAuthenticated => a.user # NoUser,
         thunk \in ReplacingThunks => user # NoUser
  PROVE  LET f == AuthFulfilled(a, thunk, user)
         IN  /\ f \in Auth /\ (f.isAuthenticated => f.user # NoUser)
             /\ f.loading => a.loading /\ thunk \notin AuthThunks
             /\ a.isAuthenticated /\ ~f.isAuthenticated => thunk = "logoutUser" /\ f.user = NoUser
             /\ thunk \in SessionThunks /\ user # NoUser => f.isAuthenticated
<1> DEFINE f == AuthFulfilled(a, thunk, user)
<1>1. CASE thunk \in SessionThunks /\ user # NoUser
  <2>1. /\ thunk \notin ReplacingThunks \cup {"logoutUser", "setTPIN", "resetTPIN"}
        /\ thunk \in AuthThunks
    BY <1>1, ThunkSets DEF SessionThunks
  <2>2. f = [user |-> user, isAuthenticated |-> TRUE, loading |-> FALSE]
    BY <1>1, <2>1 DEF AuthFulfilled
  <2>3. QED
    BY <1>1, <2>1, <2>2 DEF Auth
<1>2. CASE thunk \in ReplacingThunks
  <2>1. thunk \notin SessionThunks \cup {"logoutUser", "setTPIN", "resetTPIN"}
    BY <1>2 DEF ReplacingThunks, SessionThunks
  <2>2. f = [a EXCEPT !.user = user, !.loading = FALSE]
    BY <1>2, <2>1 DEF AuthFulfilled
  <2>3. QED
    BY <1>2, <2>1, <2>2, ThunkSets DEF Auth
<1>3. CASE thunk = "logoutUser"
  <2>1. f = SignedOut
    BY <1>3, ThunkSets DEF AuthFulfilled
  <2>2. QED
    BY <1>3, <2>1, ThunkSets, SignedOutHolds
<1>4. CASE thunk \in {"setTPIN", "resetTPIN"}
  <2>1. /\ thunk \in AuthThunks
        /\ thunk \notin SessionThunks \cup ReplacingThunks \cup {"logoutUser"}
    BY <1>4 DEF AuthThunks, SessionThunks, ReplacingThunks
  <2>2. f = [a EXCEPT !.loading = FALSE,
                      !.user = IF @ = NoUser THEN [approval |-> "unsaid", frozen |-> "unsaid"] ELSE @]
    BY <1>4, <2>1 DEF AuthFulfilled
  <2>3. /\ [approval |-> "unsaid", frozen |-> "unsaid"] # NoUser
        /\ [approval |-> "unsaid", frozen |-> "unsaid"] \in Known
    BY DEF NoUser, Known, Approvals, Flags
  <2>4. QED
    BY <1>4, <2>1, <2>2, <2>3 DEF Auth
<1>5. CASE /\ thunk \in AuthThunks \ (ReplacingThunks \cup {"logoutUser", "setTPIN", "resetTPIN"})
           /\ thunk \in SessionThunks => user = NoUser
  <2>1. f = [a EXCEPT !.loading = FALSE]
    BY <1>5, ThunkSets DEF AuthFulfilled
  <2>2. QED
    BY <1>5, <2>1 DEF Auth
<1>6. CASE thunk \notin AuthThunks
  <2>1. thunk \notin {"setTPIN", "resetTPIN", "logoutUser"}
    BY <1>6 DEF AuthThunks
  <2>2. f = a
    BY <1>6, <2>1, ThunkSets DEF AuthFulfilled
  <2>3. QED
    BY <1>6, <2>2, ThunkSets
<1>7. QED
  BY <1>1, <1>2, <1>3, <1>4, <1>5, <1>6, Zenon

LEMMA AuthFailed ==
  ASSUME NEW a \in Auth, NEW thunk, a.isAuthenticated => a.user # NoUser
  PROVE  LET f == AuthRejected(a, thunk)
         IN  /\ f \in Auth /\ (f.isAuthenticated => f.user # NoUser)
             /\ f.loading => a.loading /\ thunk \notin AuthThunks
             /\ a.isAuthenticated /\ ~f.isAuthenticated => f.user = NoUser
<1>1. CASE thunk \in {"getMe", "logoutUser"}
  <2>1. AuthRejected(a, thunk) = SignedOut
    BY <1>1 DEF AuthRejected
  <2>2. QED
    BY <2>1, SignedOutHolds
<1>2. CASE thunk \in AuthThunks \ {"getMe", "logoutUser"}
  <2>1. AuthRejected(a, thunk) = [a EXCEPT !.loading = FALSE]
    BY <1>2 DEF AuthRejected
  <2>2. QED
    BY <2>1 DEF Auth
<1>3. CASE thunk \notin AuthThunks
  <2>1. AuthRejected(a, thunk) = a
    BY <1>3, ThunkSets DEF AuthRejected
  <2>2. QED
    BY <1>3, <2>1
<1>4. QED
  BY <1>1, <1>2, <1>3

-----------------------------------------------------------------------------
(* A dispatch that sends a request.                                        *)
LEMMA Sending ==
  ASSUME IInv, NEW a \in Auth, NEW t \in TransactionSlice, NEW r, Flight(r), NEW p \in AllPages,
         NEW step, NEW h \in Does, NEW busy \in Busies, Send(h, busy, a, t, r, p, step),
         a.isAuthenticated => a.user # NoUser,
         a.loading => Waits(r, AuthThunks), t.loading => Waits(r, TransactionThunks),
         Twice(r) \/ (Waits(r, MoneyThunks) /\ h.sends \in Cash) => disturbed,
         cookie' /\ ~blind' /\ ~a.isAuthenticated => Tells(r) \/ (h.sends = "getMe" /\ cookie),
         cookie' \in BOOLEAN, blind' \in BOOLEAN, server' = server
  PROVE  IInv'
<1>1. PICK x : x = Request(h, busy)
  OBVIOUS
<1>2. /\ x \in Flying /\ GoodRequest(x) /\ x.does = h
      /\ h.sends = "getMe" /\ cookie => Telling(x)
  BY <1>1, NewRequest DEF IInv, Typed
<1>3. PICK a1, t1, n : /\ a1 = AuthPending(a, h.sends) /\ t1 = TxnPending(t, h.sends)
                       /\ n = Append(r, x)
  OBVIOUS
<1>4. Become(a1, t1, n, p, step)
  BY <1>1, <1>3 DEF Send
<1>5. /\ Flight(n)
      /\ \A K : Waits(r, K) \/ h.sends \in K => Waits(n, K)
      /\ Tells(r) \/ Telling(x) => Tells(n)
      /\ Twice(n) => Twice(r) \/ (Waits(r, MoneyThunks) /\ h.sends \in Cash)
  BY <1>2, <1>3, Appended
<1>6. /\ a1 \in Auth /\ a1.user = a.user /\ a1.isAuthenticated = a.isAuthenticated
      /\ a1.loading => a.loading \/ h.sends \in AuthThunks
  BY <1>3, AuthWaits
<1>7. t1 \in TransactionSlice /\ (t1.loading => t.loading \/ h.sends \in TransactionThunks)
  BY <1>3, TxnWaits
<1>8. /\ a1.isAuthenticated => a1.user # NoUser
      /\ a1.loading => Waits(n, AuthThunks)
      /\ t1.loading => Waits(n, TransactionThunks)
      /\ Twice(n) => disturbed
      /\ cookie' /\ ~blind' /\ ~a1.isAuthenticated => Tells(n)
  BY <1>2, <1>5, <1>6, <1>7
<1>9. QED
  BY <1>4, <1>5, <1>6, <1>7, <1>8, Moving

-----------------------------------------------------------------------------
(* The router and the user.                                                *)
LEMMA InitHolds == Init => IInv
<1> SUFFICES ASSUME Init PROVE IInv
  OBVIOUS
<1> DEFINE q == Request(Stay("getMe"), "none")
<1>1. Stay("getMe") \in Does /\ Stay("getMe").sends = "getMe" /\ "none" \in Busies
  BY DEF Does, Stay, Handler, Busies
<1>2. cookie \in BOOLEAN
  BY DEF Init
<1>3. q \in Flying /\ GoodRequest(q) /\ q.does.sends = "getMe" /\ (cookie => Telling(q))
  BY <1>1, <1>2, NewRequest
<1> HIDE DEF q
<1>4. /\ <<q>> \in Seq(Flying) /\ Len(<<q>>) = 1 /\ <<q>>[1] = q
      /\ \A s \in 1 .. 1 : s = 1
  BY <1>3
<1>5. requests = <<q>>
  BY DEF Init, q
<1>6. authInitial \in Auth /\ ~authInitial.isAuthenticated
  BY DEF authInitial, Auth, Known, NoUser
<1>7. transactionInitial \in TransactionSlice /\ ~transactionInitial.loading
  BY DEF transactionInitial, TransactionSlice
<1>8. Typed
  <2>1. Flight(requests)
    BY <1>3, <1>4, <1>5 DEF Flight
  <2>2. "public" \in AllPages
    BY DEF AllPages
  <2>3. QED
    BY <1>2, <1>6, <1>7, <2>1, <2>2 DEF Init, Typed
<1>9. Fits
  BY <1>3, <1>4, <1>5, <1>6, <1>7, ThunkSets DEF Init, Fits, Waits
<1>10. "getMe" \notin MoneyThunks
  BY DEF MoneyThunks
<1>11. Money /\ Session
  BY <1>3, <1>4, <1>5, <1>10 DEF Money, Session, Waits, Twice, Tells
<1>12. QED
  BY <1>8, <1>9, <1>11 DEF IInv

LEMMA Loading ==
  ASSUME IInv, NEW p \in AllPages, Load(p), UNCHANGED <<server, cookie>>
  PROVE  IInv'
<1> DEFINE q == Request(Stay("getMe"), "none")
<1>1. Stay("getMe") \in Does /\ Stay("getMe").sends = "getMe" /\ "none" \in Busies
  BY DEF Does, Stay, Handler, Busies
<1>2. cookie \in BOOLEAN
  BY DEF IInv, Typed
<1>3. q \in Flying /\ GoodRequest(q) /\ q.does.sends = "getMe" /\ (cookie => Telling(q))
  BY <1>1, <1>2, NewRequest
<1>4. /\ auth' = authInitial /\ txn' = transactionInitial /\ page' = p /\ form' = "none"
      /\ requests' = <<q>> /\ blind' = FALSE /\ disturbed' = FALSE
  BY DEF Load
<1> HIDE DEF q
<1>5. /\ <<q>> \in Seq(Flying) /\ Len(<<q>>) = 1 /\ <<q>>[1] = q
      /\ \A s \in 1 .. 1 : s = 1
  BY <1>3
<1>6. authInitial \in Auth /\ ~authInitial.isAuthenticated
  BY DEF authInitial, Auth, Known, NoUser
<1>7. transactionInitial \in TransactionSlice /\ ~transactionInitial.loading
  BY DEF transactionInitial, TransactionSlice
<1>8. Typed'
  <2>1. Flight(requests')
    BY <1>3, <1>4, <1>5 DEF Flight
  <2>2. Flight(requests)'
    BY <2>1 DEF Flight, GoodRequest
  <2>3. QED
    BY <1>4, <1>6, <1>7, <2>2 DEF IInv, Typed
<1>9. Waits(requests', AuthThunks) /\ ~Waits(requests', MoneyThunks) /\ ~Twice(requests')
      /\ (cookie => Tells(requests'))
  <2>1. "getMe" \notin MoneyThunks
    BY DEF MoneyThunks
  <2>2. QED
    BY <1>3, <1>4, <1>5, <2>1, ThunkSets DEF Waits, Twice, Tells
<1>10. Fits'
  BY <1>4, <1>6, <1>7, <1>9 DEF Fits
<1>11. Money' /\ Session'
  BY <1>9 DEF Money, Session, Tells
<1>12. QED
  BY <1>8, <1>10, <1>11 DEF IInv

LEMMA Cleared == TxnCleared \in TransactionSlice /\ ~TxnCleared.loading
BY DEF TxnCleared, transactionInitial, TransactionSlice

LEMMA GuardLeads ==
  ASSUME NEW a, NEW p \in AllPages PROVE Guard(a, p) \in AllPages
<1>1. {"home", "login", "approval", "frozen", "deposits", "users"} \subseteq AllPages
  BY DEF AllPages, GuestPages, DashboardPages, ManagerPages
<1>2. CASE p \in GuestPages
  BY <1>1, <1>2 DEF Guard, GuestPages, DashboardPages, CustomerPages, ManagerPages
<1>3. CASE p \notin GuestPages \cup DashboardPages
  BY <1>3 DEF Guard
<1>4. CASE p \in DashboardPages /\ p \notin GuestPages
  BY <1>1, <1>4 DEF Guard
<1>5. QED
  BY <1>2, <1>3, <1>4

(* A page changes or a step does, with the store but for its money slice.  *)
LEMMA Wandering ==
  ASSUME IInv, NEW t \in {txn, TxnCleared}, NEW p \in AllPages, NEW step,
         Become(auth, t, requests, p, step), UNCHANGED <<server, cookie, blind>>
  PROVE  IInv'
<1>1. /\ auth \in Auth /\ t \in TransactionSlice /\ Flight(requests)
      /\ cookie' \in BOOLEAN /\ blind' \in BOOLEAN
  BY Cleared DEF IInv, Typed
<1>2. /\ auth.isAuthenticated => auth.user # NoUser
      /\ auth.loading => Waits(requests, AuthThunks)
      /\ t.loading => Waits(requests, TransactionThunks)
      /\ Twice(requests) => disturbed
      /\ cookie' /\ ~blind' /\ ~auth.isAuthenticated => Tells(requests)
  BY Cleared DEF IInv, Fits, Money, Session
<1>3. QED
  BY <1>1, <1>2, Moving

LEMMA Routing ==
  ASSUME IInv,
         \/ Redirect \/ Back
         \/ \E p \in AllPages : Reload(p) \/ Follow(p)
         \/ \E move \in PageAt[page].moves : Step(move[2])
         \/ \E modal \in closing : CloseModal(modal)
  PROVE  IInv'
<1>1. page \in AllPages
  BY DEF IInv, Typed
<1>2. CASE Redirect
  BY <1>1, <1>2, GuardLeads, Wandering DEF Redirect
<1>3. CASE Back
  <2>1. "public" \in AllPages
    BY DEF AllPages
  <2>2. QED
    BY <1>3, <2>1, Wandering DEF Back
<1>4. ASSUME NEW p \in AllPages, Reload(p) PROVE IInv'
  BY <1>4, Loading DEF Reload
<1>5. ASSUME NEW p \in AllPages, Follow(p) PROVE IInv'
  BY <1>5, Wandering DEF Follow
<1>6. ASSUME NEW to, Step(to) PROVE IInv'
  <2>1. PICK t \in {txn, TxnCleared} : Become(auth, t, requests, page, to)
    BY <1>6 DEF Step
  <2>2. QED
    BY <1>1, <1>6, <2>1, Wandering DEF Step
<1>7. ASSUME NEW modal, CloseModal(modal) PROVE IInv'
  <2>1. PICK step : Become(auth, TxnCleared, requests, page, step)
    BY <1>7 DEF CloseModal
  <2>2. QED
    BY <1>1, <1>7, <2>1, Wandering DEF CloseModal
<1>8. QED
  BY <1>2, <1>3, <1>4, <1>5, <1>6, <1>7

(* A page is mounted and may fetch something.                              *)
LEMMA Mounting ==
  ASSUME IInv, Mount PROVE IInv'
<1>1. /\ UNCHANGED <<server, cookie, auth, page, blind, disturbed>>
      /\ Mountable(auth, page)
  BY DEF Mount
<1>2. (form # "none" => Mountable(auth, page))'
  <2>1. PICK a, p : a = auth /\ p = page
    OBVIOUS
  <2>2. QED
    BY <1>1, <2>1, GuardStays
<1>3. page \in AllPages /\ Flight(requests) /\ cookie \in BOOLEAN /\ txn \in TransactionSlice
  BY DEF IInv, Typed
<1>4. CASE UNCHANGED <<txn, requests>>
  BY <1>1, <1>2, <1>4
     DEF IInv, Typed, Fits, Money, Session, Flight, GoodRequest, Waits, Twice, Tells, Telling
<1>5. CASE \E thunk \in PageAt[page].fetches :
             /\ txn' = TxnPending(txn, thunk)
             /\ requests' = Append(requests, Request(Stay(thunk), "none"))
  <2>1. PICK thunk \in Fetched :
          /\ txn' = TxnPending(txn, thunk)
          /\ requests' = Append(requests, Request(Stay(thunk), "none"))
    BY <1>3, <1>5, FetchesAreReads
  <2>2. Stay(thunk) \in Does /\ Stay(thunk).sends = thunk /\ "none" \in Busies
    BY DEF Does, Stay, Handler, Busies, Fetched
  <2>3. thunk \notin MoneyThunks /\ thunk \notin Cash
    BY DEF Fetched, MoneyThunks, Cash
  <2>4. PICK x \in Flying : /\ GoodRequest(x) /\ x.does.sends = thunk
                            /\ requests' = Append(requests, x)
    BY <1>3, <2>1, <2>2, NewRequest
  <2>5. /\ Flight(requests')
        /\ \A K : Waits(requests, K) \/ thunk \in K => Waits(requests', K)
        /\ Tells(requests) => Tells(requests')
        /\ Twice(requests') => Twice(requests)
    BY <1>3, <2>3, <2>4, Appended
  <2>6. Waits(requests', MoneyThunks) => Waits(requests, MoneyThunks)
    <3>1. ASSUME NEW s \in 1 .. Len(requests'), requests'[s].does.sends \in MoneyThunks
          PROVE  Waits(requests, MoneyThunks)
      <4>1. requests \in Seq(Flying) /\ Len(requests) \in Nat
        BY <1>3 DEF Flight
      <4>2. s \in 1 .. Len(requests) /\ requests'[s] = requests[s]
        BY <2>3, <2>4, <3>1, <4>1
      <4>3. QED
        BY <3>1, <4>2 DEF Waits
    <3>2. QED
      BY <3>1 DEF Waits
  <2>7. /\ txn' \in TransactionSlice /\ (txn.loading => txn'.loading)
        /\ txn'.loading => txn.loading \/ thunk \in TransactionThunks
    BY <1>3, <2>1, TxnWaits
  <2>8. Flight(requests)'
    BY <2>5 DEF Flight, GoodRequest
  <2>9. Typed'
    BY <1>1, <2>7, <2>8 DEF IInv, Typed
  <2>10. Fits'
    <3>1. /\ (auth.isAuthenticated => auth.user # NoUser)'
          /\ (auth.loading => Waits(requests, AuthThunks))'
      BY <1>1, <2>5 DEF IInv, Fits, Waits
    <3>2. (txn.loading => Waits(requests, TransactionThunks))'
      BY <2>5, <2>7 DEF IInv, Fits, Waits
    <3>3. QED
      BY <1>2, <3>1, <3>2 DEF Fits
  <2>11. Money'
    <3>1. (Waits(requests, MoneyThunks) /\ ~disturbed => txn.loading)'
      BY <1>1, <2>6, <2>7 DEF IInv, Money, Waits
    <3>2. (Twice(requests) => disturbed)'
      BY <1>1, <2>5 DEF IInv, Money, Twice
    <3>3. QED
      BY <3>1, <3>2 DEF Money
  <2>12. Session'
    BY <1>1, <2>5 DEF IInv, Session, Tells, Telling
  <2>13. QED
    BY <2>9, <2>10, <2>11, <2>12 DEF IInv
<1>6. QED
  BY <1>4, <1>5 DEF Mount

(* A button is clicked or a key pressed: one that deposits or withdraws    *)
(* only while the flag of the money pages is down.                         *)
LEMMA Clicking ==
  ASSUME IInv, NEW b \in PageAt[page].buttons \cup LogoutButtons, Click(b) PROVE IInv'
<1>1. /\ Send(b.does, b.busy, auth, txn, requests, page, form) /\ ~Disabled(b.needs)
      /\ UNCHANGED <<server, cookie, blind>>
  BY DEF Click
<1>2. /\ page \in AllPages /\ Flight(requests) /\ auth \in Auth /\ txn \in TransactionSlice
      /\ cookie' \in BOOLEAN /\ blind' \in BOOLEAN
  BY <1>1 DEF IInv, Typed
<1>3. b.does \in Does /\ b.busy \in Busies
      /\ (b.does.sends \in Cash => b.needs \in {"txn", "modal"})
  <2>1. CASE b \in PageAt[page].buttons
    <3>1. b \in Buttons /\ GoodButton(b)
      BY <1>2, <2>1, ButtonsAreGood DEF Buttons
    <3>2. QED
      BY <3>1 DEF Does, ButtonsDo, Busies, GoodButton
  <2>2. CASE b \in LogoutButtons
    BY <2>2 DEF LogoutButtons, Button, Logout, Stay, Handler, Does, Busies, MoneyThunks, Cash
  <2>3. QED
    BY <2>1, <2>2
<1>4. b.does.sends \in Cash => ~txn.loading
  BY <1>1, <1>3 DEF Disabled
<1>5. /\ auth.isAuthenticated => auth.user # NoUser
      /\ auth.loading => Waits(requests, AuthThunks)
      /\ txn.loading => Waits(requests, TransactionThunks)
      /\ Twice(requests) \/ (Waits(requests, MoneyThunks) /\ b.does.sends \in Cash)
           => disturbed
      /\ cookie' /\ ~blind' /\ ~auth.isAuthenticated => Tells(requests)
  BY <1>1, <1>4 DEF IInv, Fits, Money, Session
<1>6. QED
  BY <1>1, <1>2, <1>3, <1>5, Sending

-----------------------------------------------------------------------------
(* The server and the staff.                                               *)
LEMMA Elsewhere ==
  ASSUME IInv, UNCHANGED <<auth, txn, page, form, requests, blind, disturbed>>,
         server' \in [role : UserRoles, approval : {"none", "PENDING", "APPROVED"},
                      frozen : BOOLEAN],
         server'.role = server.role, cookie' \in BOOLEAN, cookie' => cookie
  PROVE  IInv'
<1>1. (form # "none" => Mountable(auth, page))'
  <2>1. PICK a, p : a = auth /\ p = page
    OBVIOUS
  <2>2. QED
    BY <2>1, GuardStays DEF IInv, Fits
<1>2. Typed'
  BY DEF IInv, Typed, Flight, GoodRequest
<1>3. Fits'
  BY <1>1 DEF IInv, Fits, Waits
<1>4. Money' /\ Session'
  BY DEF IInv, Money, Session, Waits, Twice, Tells, Telling
<1>5. QED
  BY <1>2, <1>3, <1>4 DEF IInv

LEMMA Staff ==
  ASSUME IInv, Approve \/ Freeze \/ Unfreeze \/ Expire PROVE IInv'
<1>1. UNCHANGED <<auth, txn, page, form, requests, blind, disturbed>>
  BY DEF Approve, Freeze, Unfreeze, Expire
<1>2. cookie' \in BOOLEAN /\ (cookie' => cookie)
  <2>1. cookie' = cookie \/ cookie' = FALSE
    BY DEF Approve, Freeze, Unfreeze, Expire
  <2>2. cookie' \in BOOLEAN
    BY <2>1 DEF IInv, Typed
  <2>3. cookie' => cookie
    BY <2>1, Zenon
  <2>4. QED
    BY <2>2, <2>3
<1>3. /\ server' \in [role : UserRoles, approval : {"none", "PENDING", "APPROVED"},
                      frozen : BOOLEAN]
      /\ server'.role = server.role
  BY DEF Approve, Freeze, Unfreeze, Expire, IInv, Typed
<1>4. QED
  BY <1>1, <1>2, <1>3, Elsewhere

(* The server answers a request that asks for the user: a question who is  *)
(* signed in that carries the cookie is not answered "unauthorized".       *)
LEMMA UsersAnswered ==
  ASSUME Typed, NEW thunk \in UserThunks, NEW q, q.does.sends = thunk, "ok" \in Answers(q)
  PROVE  AnsweredUser(thunk) # NoUser
<1>1. NoUser.frozen = "none"
  BY DEF NoUser
<1>2. AnsweredUser(thunk).frozen \in {"yes", "no", "unsaid"}
  <2>1. CASE thunk = "registerUser"
    BY <2>1 DEF AnsweredUser
  <2>2. CASE thunk \in SessionThunks \ {"registerUser"}
    BY <2>2 DEF AnsweredUser
  <2>3. CASE thunk \in ReplacingThunks
    <3>1. thunk \notin SessionThunks /\ thunk # "registerUser"
      BY <2>3 DEF ReplacingThunks, SessionThunks
    <3>2. QED
      BY <2>3, <3>1 DEF AnsweredUser
  <2>4. QED
    BY <2>1, <2>2, <2>3 DEF UserThunks
<1>3. QED
  BY <1>1, <1>2

LEMMA UsersKnown ==
  ASSUME Typed, NEW thunk PROVE AnsweredUser(thunk) \in Known
<1>1. NoUser \in Known
  BY DEF NoUser, Known
<1>2. server.approval \in Approvals \cup {"none"}
  BY DEF Typed, Approvals
<1>3. CASE thunk = "registerUser"
  <2>1. AnsweredUser(thunk) = [approval |-> "PENDING", frozen |-> "unsaid"]
    BY <1>3 DEF AnsweredUser, ReplacingThunks
  <2>2. QED
    BY <2>1 DEF Known, Approvals, Flags
<1>4. CASE thunk \in SessionThunks \ {"registerUser"}
  BY <1>2, <1>4 DEF AnsweredUser, Known, Flags
<1>5. CASE thunk \in ReplacingThunks /\ thunk \notin SessionThunks
  BY <1>2, <1>5 DEF AnsweredUser, Known, Flags, SessionThunks
<1>6. CASE thunk \notin SessionThunks \cup ReplacingThunks
  BY <1>1, <1>6 DEF AnsweredUser, SessionThunks
<1>7. QED
  BY <1>3, <1>4, <1>5, <1>6

LEMMA AnswersAre ==
  ASSUME NEW q
  PROVE  /\ Answers(q) \subseteq AnswerKinds
         /\ "second" \in Answers(q) => q.does.sends = "loginUser"
         /\ "unauthorized" \in Answers(q) /\ q.does.sends = "getMe" => ~q.signed
BY DEF Answers, AnswerKinds, Unauthorized

LEMMA Serving ==
  ASSUME IInv, NEW s \in InFlight, Serve(s) PROVE IInv'
<1> DEFINE q == requests[s]
           thunk == q.does.sends
<1>1. /\ UNCHANGED <<cookie, auth, txn, page, form, blind, disturbed>>
      /\ thunk \in UserThunks /\ q.answer = "none"
      /\ server' = server \/ server' = [server EXCEPT !.approval = "PENDING"]
  BY DEF Serve
<1>2. PICK answer \in Answers(q) :
        requests' = [requests EXCEPT ![s].answer = answer, ![s].signed = FALSE,
                       ![s].user = IF answer = "ok" THEN AnsweredUser(thunk) ELSE NoUser]
  BY DEF Serve
<1>3. /\ Typed /\ requests \in Seq(Flying) /\ Len(requests) \in Nat
      /\ DOMAIN requests = 1 .. Len(requests) /\ s \in 1 .. Len(requests) /\ q \in Flying
  BY DEF IInv, Typed, Flight, InFlight
<1>4. PICK user : user = IF answer = "ok" THEN AnsweredUser(thunk) ELSE NoUser
  OBVIOUS
<1>5. user \in Known /\ (answer = "ok" => user # NoUser)
  <2>1. NoUser \in Known
    BY DEF NoUser, Known
  <2>2. QED
    BY <1>1, <1>2, <1>3, <1>4, <2>1, UsersAnswered, UsersKnown
<1>6. PICK f : /\ f = [q EXCEPT !.answer = answer, !.signed = FALSE, !.user = user]
               /\ requests' = [requests EXCEPT ![s] = f]
  BY <1>2, <1>4, Zenon
<1>7. /\ f \in Flying /\ f.does = q.does /\ f.answer = answer /\ f.signed = FALSE /\ f.user = user
  BY <1>2, <1>3, <1>5, <1>6, AnswersAre DEF Flying
<1>8. GoodRequest(f) /\ (Telling(q) => Telling(f))
  <2>1. answer = "second" => thunk = "loginUser"
    BY <1>2, AnswersAre
  <2>2. GoodRequest(f)
    BY <1>5, <1>7, <2>1 DEF GoodRequest
  <2>3. ASSUME Telling(q) PROVE Telling(f)
    <3>1. q.does.sends = "getMe" /\ q.signed
      BY <1>1, <2>3 DEF Telling
    <3>2. answer \in AnswerKinds /\ answer # "second" /\ answer # "unauthorized"
      BY <1>2, <3>1, AnswersAre
    <3>3. answer \in {"ok", "refused"}
      BY <3>2 DEF AnswerKinds
    <3>4. QED
      BY <1>7, <3>1, <3>3 DEF Telling
  <2>4. QED
    BY <2>2, <2>3
<1> HIDE DEF q, thunk
<1>9. /\ requests' \in Seq(Flying) /\ Len(requests') = Len(requests)
      /\ \A u \in 1 .. Len(requests) : requests'[u] = IF u = s THEN f ELSE requests[u]
  BY <1>3, <1>6, <1>7, ExceptSeq
<1>10. \A u \in 1 .. Len(requests) :
         /\ requests'[u].does.sends = requests[u].does.sends
         /\ GoodRequest(requests[u]) => GoodRequest(requests'[u])
         /\ Telling(requests[u]) => Telling(requests'[u])
  BY <1>7, <1>8, <1>9 DEF q
<1>11. server'.role = server.role
       /\ server' \in [role : UserRoles, approval : {"none", "PENDING", "APPROVED"},
                       frozen : BOOLEAN]
  BY <1>1, <1>3 DEF Typed
<1>12. Flight(requests')
  BY <1>9, <1>10 DEF IInv, Typed, Flight
<1>13. Typed'
  <2>1. Flight(requests)'
    BY <1>12 DEF Flight, GoodRequest
  <2>2. QED
    BY <1>1, <1>11, <2>1 DEF IInv, Typed
<1>14. \A K : Waits(requests', K) <=> Waits(requests, K)
  BY <1>9, <1>10 DEF Waits
<1>15. Fits'
  <2>1. (form # "none" => Mountable(auth, page))'
    <3>1. PICK a, p : a = auth /\ p = page
      OBVIOUS
    <3>2. QED
      BY <1>1, <1>11, <3>1, GuardStays DEF IInv, Fits
  <2>2. /\ auth'.loading => Waits(requests', AuthThunks)
        /\ txn'.loading => Waits(requests', TransactionThunks)
        /\ auth'.isAuthenticated => auth'.user # NoUser
    BY <1>1, <1>14 DEF IInv, Fits
  <2>3. QED
    BY <2>1, <2>2 DEF Fits
<1>16. Money'
  <2>1. Twice(requests') => Twice(requests)
    BY <1>9, <1>10 DEF Twice
  <2>2. Waits(requests', MoneyThunks) /\ ~disturbed' => txn'.loading
    BY <1>1, <1>14 DEF IInv, Money
  <2>3. Twice(requests') => disturbed'
    BY <1>1, <2>1 DEF IInv, Money
  <2>4. QED
    BY <2>2, <2>3 DEF Money
<1>17. Session'
  <2>1. Tells(requests) => Tells(requests')
    BY <1>9, <1>10 DEF Tells
  <2>2. cookie' /\ ~blind' /\ ~auth'.isAuthenticated => Tells(requests')
    BY <1>1, <2>1 DEF IInv, Session
  <2>3. QED
    BY <2>2 DEF Session, Tells, Telling
<1>18. QED
  BY <1>13, <1>15, <1>16, <1>17 DEF IInv

-----------------------------------------------------------------------------
(* An answer arrives.                                                      *)
LEMMA AfterwardsGood ==
  ASSUME NEW q \in Flying
  PROVE  /\ Afterwards(q) \in Does /\ Afterwards(q).sends \notin MoneyThunks
         /\ GoesTo(q) \in AllPages \cup {page} /\ q.busy \in Busies
<1>1. q.does \in Does /\ q.does.after \in Afters /\ q.does.go \in Gos
  BY GoodDoes DEF Flying, GoodHandler
<1>2. Afterwards(q) \in Does
  BY <1>1 DEF Afterwards, Does, Afters
<1>3. Afterwards(q).sends = q.does.after
  BY DEF Afterwards, Stay, Handler
<1>4. q.does.after \notin MoneyThunks
  BY <1>1 DEF Afters, MoneyThunks
<1>5. {"frozen", "home", "public"} \subseteq AllPages
  BY DEF AllPages, DashboardPages
<1>6. GoesTo(q) \in {page, "frozen", "home", "public"}
  <2>1. CASE q.answer # "ok" \/ q.does.go = "stay"
    BY <2>1 DEF GoesTo
  <2>2. CASE q.answer = "ok" /\ q.does.go \in {"home", "public"}
    BY <2>2 DEF GoesTo
  <2>3. QED
    BY <1>1, <2>1, <2>2 DEF Gos
<1>7. QED
  BY <1>2, <1>3, <1>4, <1>5, <1>6 DEF Flying, Busies

\* The request with its answer.
Arrived(s, answer) == [requests[s] EXCEPT !.answer = answer]

LEMMA Received ==
  ASSUME IInv, NEW s \in InFlight, NEW answer \in AnswerKinds, Receive(s, answer),
         NEW q, q = Arrived(s, answer)
  PROVE  /\ s \in 1 .. Len(requests)
         /\ q \in Flying /\ q.does = requests[s].does /\ q.answer = answer
         /\ answer \in {"ok", "second"} /\ q.does.sends \in ReplacingThunks => q.user # NoUser
         /\ answer = "ok" /\ q.does.sends \in SessionThunks => q.user # NoUser
         /\ Telling(requests[s]) => q.does.sends = "getMe" /\ answer \in {"ok", "refused"}
<1>1. /\ s \in 1 .. Len(requests) /\ requests[s] \in Flying /\ GoodRequest(requests[s])
  BY DEF IInv, Typed, Flight, InFlight
<1>2. /\ q \in Flying /\ q.does = requests[s].does /\ q.answer = answer
      /\ q.user = requests[s].user
  BY <1>1 DEF Flying, Arrived
<1>3. answer \in IF q.does.sends \in UserThunks THEN {requests[s].answer} \ {"none"}
                 ELSE Answers(q)
  BY DEF Receive, Arrived
<1>4. q.does.sends \in UserThunks => answer = requests[s].answer
  BY <1>3
<1>5. answer = "second" => q.does.sends = "loginUser"
  BY <1>1, <1>2, <1>3, <1>4, AnswersAre DEF GoodRequest
<1>6. answer = "ok" /\ q.does.sends \in UserThunks => q.user # NoUser
  BY <1>1, <1>2, <1>4 DEF GoodRequest
<1>7. answer \in {"ok", "second"} /\ q.does.sends \in ReplacingThunks => q.user # NoUser
  BY <1>5, <1>6, ThunkSets DEF UserThunks
<1>8. ASSUME Telling(requests[s]) PROVE q.does.sends = "getMe" /\ answer \in {"ok", "refused"}
  <2>1. q.does.sends = "getMe"
    BY <1>2, <1>8 DEF Telling
  <2>2. answer = requests[s].answer /\ answer # "none"
    BY <1>3, <2>1, ThunkSets DEF UserThunks
  <2>3. QED
    BY <1>8, <2>1, <2>2 DEF Telling
<1>9. answer = "ok" /\ q.does.sends \in SessionThunks => q.user # NoUser
  BY <1>6 DEF UserThunks
<1>10. QED
  BY <1>1, <1>2, <1>7, <1>8, <1>9

(* Nobody is left signed out with a good cookie: either the session goes   *)
(* on, or the application asks, or it has asked already.                   *)
LEMMA AskedOrTold ==
  ASSUME IInv, NEW s \in InFlight, NEW answer \in AnswerKinds, Receive(s, answer),
         NEW q, q = Arrived(s, answer), ~ThrownOut(q),
         NEW a,
         auth.isAuthenticated /\ ~a.isAuthenticated => a.user = NoUser,
         answer = "ok" /\ q.does.sends \in SessionThunks => a.isAuthenticated,
         cookie', ~blind', ~a.isAuthenticated
  PROVE  cookie /\ (Tells(RemoveAt(requests, s)) \/ AsksWhoIsSignedIn(a))
<1>1. /\ s \in 1 .. Len(requests)
      /\ q.does = requests[s].does /\ q.answer = answer
      /\ Telling(requests[s]) => q.does.sends = "getMe" /\ answer \in {"ok", "refused"}
  BY Received
<1>2. ~(answer = "ok" /\ q.does.sends \in SessionThunks)
  OBVIOUS
<1>3. cookie' \in CookiesAfter(q)
  BY DEF Receive, Arrived
<1>4. cookie
  <2>1. CASE answer = "ok" /\ q.does.sends = "logoutUser"
    BY <1>1, <1>3, <2>1, ThunkSets DEF CookiesAfter
  <2>2. CASE ~(answer = "ok" /\ q.does.sends = "logoutUser")
    BY <1>1, <1>2, <1>3, <2>2, ThunkSets DEF CookiesAfter
  <2>3. QED
    BY <2>1, <2>2
<1>5. blind' = CASE q.does.sends = "getMe" /\ q.answer = "refused" -> TRUE
                 [] q.does.sends \in SessionThunks /\ q.answer = "ok" -> FALSE
                 [] OTHER -> blind
  BY DEF Receive, Arrived
<1>6. ~(q.does.sends = "getMe" /\ answer = "refused") /\ ~blind
  <2>1. CASE q.does.sends = "getMe" /\ answer = "refused"
    <3>1. q.answer # "ok"
      BY <1>1, <2>1
    <3>2. QED
      BY <1>1, <1>5, <2>1, <3>1
  <2>2. CASE ~(q.does.sends = "getMe" /\ answer = "refused")
    BY <1>1, <1>2, <1>5, <2>2
  <2>3. QED
    BY <2>1, <2>2
<1>7. CASE auth.isAuthenticated
  BY <1>4, <1>7 DEF AsksWhoIsSignedIn, IInv, Fits
<1>8. CASE ~auth.isAuthenticated
  <2>1. Tells(requests) /\ Flight(requests)
    BY <1>4, <1>6, <1>8 DEF IInv, Session, Typed
  <2>2. ~Telling(requests[s])
    BY <1>1, <1>2, <1>6, ThunkSets
  <2>3. QED
    BY <1>1, <1>4, <2>1, <2>2, Dropped
<1>9. QED
  BY <1>7, <1>8

LEMMA Receiving ==
  ASSUME IInv, NEW s \in InFlight, NEW answer \in AnswerKinds, Receive(s, answer)
  PROVE  IInv'
<1>1. PICK q : q = Arrived(s, answer)
  OBVIOUS
<1> DEFINE thunk == q.does.sends
           fine == q.answer \in {"ok", "second"}
           a == IF fine THEN AuthFulfilled(auth, thunk, q.user) ELSE AuthRejected(auth, thunk)
           t == IF fine THEN TxnFulfilled(txn, thunk) ELSE TxnRejected(txn, thunk)
           r == RemoveAt(requests, s)
           next == CASE AsksWhoIsSignedIn(a) -> Stay("getMe")
                     [] ~AsksWhoIsSignedIn(a) /\ q.answer = "ok" -> Afterwards(q)
                     [] OTHER -> Stay("nothing")
<1>2. /\ s \in 1 .. Len(requests)
      /\ q \in Flying /\ q.does = requests[s].does /\ q.answer = answer
      /\ fine /\ thunk \in ReplacingThunks => q.user # NoUser
      /\ answer = "ok" /\ thunk \in SessionThunks => q.user # NoUser
  <2> HIDE DEF thunk, fine, a, t, r, next
  <2>1. /\ s \in 1 .. Len(requests)
        /\ q \in Flying /\ q.does = requests[s].does /\ q.answer = answer
        /\ answer \in {"ok", "second"} /\ q.does.sends \in ReplacingThunks => q.user # NoUser
        /\ answer = "ok" /\ q.does.sends \in SessionThunks => q.user # NoUser
    BY <1>1, Received
  <2>2. QED
    BY <2>1 DEF fine, thunk
<1>3. cookie' \in CookiesAfter(q) /\ server' = server
  BY <1>1 DEF Receive, Arrived
<1>4. cookie \in BOOLEAN /\ blind \in BOOLEAN /\ page \in AllPages /\ auth \in Auth
      /\ txn \in TransactionSlice /\ Flight(requests) /\ q.user \in Known
      /\ (auth.isAuthenticated => auth.user # NoUser)
  BY <1>2 DEF IInv, Typed, Flying, Fits
<1>5. CASE ThrownOut(q)
  <2>1. cookie' = cookie
    BY <1>3, <1>5 DEF ThrownOut, CookiesAfter
  <2>2. Load("login") /\ "login" \in AllPages
    BY <1>1, <1>5 DEF Receive, Arrived, AllPages, GuestPages
  <2>3. QED
    BY <1>3, <2>1, <2>2, Loading
<1>6. CASE ~ThrownOut(q)
  <2>1. /\ next.sends = "nothing" => Become(a, t, r, GoesTo(q), ShownAfter(q))
        /\ next.sends # "nothing" => Send(next, q.busy, a, t, r, GoesTo(q), ShownAfter(q))
    BY <1>1, <1>6 DEF Receive, Arrived
  <2>2. /\ a \in Auth /\ (a.isAuthenticated => a.user # NoUser)
        /\ a.loading => auth.loading /\ thunk \notin AuthThunks
        /\ auth.isAuthenticated /\ ~a.isAuthenticated => a.user = NoUser
        /\ answer = "ok" /\ thunk \in SessionThunks => a.isAuthenticated
    <3>1. CASE fine
      BY <1>2, <1>4, <3>1, AuthAnswered
    <3>2. CASE ~fine
      BY <1>2, <1>4, <3>2, AuthFailed
    <3>3. QED
      BY <3>1, <3>2
  <2>3. t \in TransactionSlice /\ (t.loading => txn.loading /\ thunk \notin TransactionThunks)
    BY <1>4, TxnAnswered
  <2>4. /\ next \in Does /\ next.sends \notin MoneyThunks /\ next.sends \notin Cash
        /\ AsksWhoIsSignedIn(a) => next.sends = "getMe"
    <3>1. /\ Stay("getMe") \in Does /\ Stay("getMe").sends = "getMe"
          /\ Stay("nothing") \in Does /\ Stay("nothing").sends = "nothing"
          /\ "getMe" \notin MoneyThunks /\ "nothing" \notin MoneyThunks
          /\ Cash \subseteq MoneyThunks
      BY DEF Does, Stay, Handler, MoneyThunks, Cash
    <3>2. Afterwards(q) \in Does /\ Afterwards(q).sends \notin MoneyThunks
      BY <1>2, AfterwardsGood
    <3>3. next \in {Stay("getMe"), Afterwards(q), Stay("nothing")}
          /\ (AsksWhoIsSignedIn(a) => next = Stay("getMe"))
      <4> HIDE DEF a
      <4>1. QED
        OBVIOUS
    <3> HIDE DEF next, a
    <3>4. QED
      BY <3>1, <3>2, <3>3
  <2>5. cookie' /\ ~blind' /\ ~a.isAuthenticated =>
          Tells(r) \/ (AsksWhoIsSignedIn(a) /\ cookie)
    <3> HIDE DEF a
    <3>1. QED
      BY <1>1, <1>2, <1>6, <2>2, AskedOrTold
  <2>6. cookie' \in BOOLEAN /\ blind' \in BOOLEAN
    <3>1. cookie' \in BOOLEAN
      BY <1>3, <1>4 DEF CookiesAfter
    <3>2. blind' = CASE thunk = "getMe" /\ q.answer = "refused" -> TRUE
                     [] thunk \in SessionThunks /\ q.answer = "ok" -> FALSE
                     [] OTHER -> blind
      BY <1>1, <1>6 DEF Receive, Arrived
    <3>3. CASE q.answer = "ok"
      <4>1. blind' = FALSE \/ blind' = blind
        BY <3>2, <3>3
      <4>2. QED
        BY <1>4, <3>1, <4>1
    <3>4. CASE q.answer # "ok"
      <4>1. blind' = TRUE \/ blind' = blind
        BY <3>2, <3>4
      <4>2. QED
        BY <1>4, <3>1, <4>1
    <3>5. QED
      BY <3>3, <3>4
  <2>7. GoesTo(q) \in AllPages /\ q.busy \in Busies
    BY <1>2, <1>4, AfterwardsGood
  <2> HIDE DEF a, t, next, r
  <2>8. /\ Flight(r)
        /\ a.loading => Waits(r, AuthThunks)
        /\ t.loading => Waits(r, TransactionThunks)
        /\ Twice(r) => disturbed
    BY <1>2, <1>4, <2>2, <2>3, Dropped DEF r, IInv, Fits, Money
  <2>9. CASE next.sends = "nothing"
    <3>1. ~AsksWhoIsSignedIn(a)
      BY <2>4, <2>9
    <3>2. QED
      BY <1>3, <2>1, <2>2, <2>3, <2>5, <2>6, <2>7, <2>8, <2>9, <3>1, Moving
  <2>10. CASE next.sends # "nothing"
    BY <1>3, <2>1, <2>2, <2>3, <2>4, <2>5, <2>6, <2>7, <2>8, <2>10, Sending
  <2>11. QED
    BY <2>9, <2>10
<1>7. QED
  BY <1>5, <1>6

-----------------------------------------------------------------------------
LEMMA StepHolds == IInv /\ [Next]_vars => IInv'
<1> SUFFICES ASSUME IInv, [Next]_vars PROVE IInv'
  OBVIOUS
<1>1. CASE Proceed
  <2>1. ASSUME NEW s \in InFlight, Serve(s) PROVE IInv'
    BY <2>1, Serving
  <2>2. ASSUME NEW s \in InFlight, NEW answer \in AnswerKinds, Receive(s, answer) PROVE IInv'
    BY <2>2, Receiving
  <2>3. QED
    BY <1>1, <2>1, <2>2, Routing, Mounting DEF Proceed
<1>2. ASSUME NEW b \in PageAt[page].buttons \cup LogoutButtons, Click(b) PROVE IInv'
  BY <1>2, Clicking
<1>3. CASE UNCHANGED vars
  <2>1. UNCHANGED <<server, cookie, auth, txn, page, form, requests, blind, disturbed>>
    BY <1>3 DEF vars
  <2>2. /\ server' \in [role : UserRoles, approval : {"none", "PENDING", "APPROVED"},
                        frozen : BOOLEAN]
        /\ cookie' \in BOOLEAN
    BY <2>1 DEF IInv, Typed
  <2>3. QED
    BY <2>1, <2>2, Elsewhere
<1>4. QED
  BY <1>1, <1>2, <1>3, Routing, Staff DEF Next

LEMMA AlwaysIInv == Spec => []IInv
BY InitHolds, StepHolds, PTL DEF Spec

(* While nothing is in flight, the tab shows its user signed in if its     *)
(* cookie is good, unless the last question who is signed in failed.       *)
THEOREM SessionKnown == Spec => []SessionIsKnown
BY AlwaysIInv, Consequences, PTL

(* A deposit or a withdrawal is sent while another money request is in     *)
(* flight only after the loading flag the money pages share was cleared    *)
(* under that request, for any number of requests in flight; of transfers, *)
(* which a key sends, nothing of the kind is claimed.                      *)
THEOREM CashIsSentAlone == Spec => []OnlyTransfersOverlap
BY AlwaysIInv, Consequences, PTL
-----------------------------------------------------------------------------
(***************************************************************************)
(* Type correctness, on top of that: a step is shown only on the page that *)
(* has it, and an answer carries a user only of an account that exists.    *)
(***************************************************************************)

(* The account exists: registered, and nothing takes that back.            *)
Registered == server.approval # "none"

(* A handler that shows a step belongs to the page on view, as long as its *)
(* component is mounted.                                                   *)
Placed(q) == q.live /\ q.does.from # {} => \E b \in PageAt[page].buttons : b.does = q.does

Exact(q) ==
  /\ q.user \in ClientUser \cup {NoUser}
  /\ q.signed \/ (q.answer = "ok" /\ q.does.sends \in UserThunks) => Registered

Placing == \A s \in 1 .. Len(requests) : Placed(requests[s]) /\ Exact(requests[s])

Bounds ==
  /\ Len(requests) =< MaxRequests
  /\ form \in StepsOf(page) \cup {"none"}
  /\ closing \subseteq {"deposit", "withdraw"} /\ warned \in BOOLEAN
  /\ auth.user \in ClientUser \cup {NoUser}
  /\ cookie => Registered

Shape == Placing /\ Bounds

LEMMA ShapeIsTyped == IInv /\ Shape => Inv
<1> SUFFICES ASSUME IInv, Shape PROVE Inv
  OBVIOUS
<1>1. auth \in AuthSlice
  BY DEF IInv, Typed, Auth, AuthSlice, Shape, Bounds
<1>2. ASSUME NEW s \in InFlight PROVE requests[s] \in RequestType
  <2>1. requests[s] \in Flying /\ requests[s].user \in ClientUser \cup {NoUser}
    BY DEF IInv, Typed, Flight, Shape, Placing, Exact, InFlight
  <2>2. QED
    BY <2>1 DEF Flying, RequestType
<1>3. TypeOK
  BY <1>1, <1>2 DEF TypeOK, IInv, Typed, Shape, Bounds
<1>4. QED
  BY <1>3, Consequences DEF Inv

LEMMA NobodyIsNobody == NoUser \in ClientUser \cup {NoUser}
OBVIOUS

-----------------------------------------------------------------------------
(* A dispatch or a navigation: either the page stays, or every handler     *)
(* goes on without its component.                                          *)
LEMMA DetachedKeeps ==
  ASSUME NEW q \in Flying
  PROVE  /\ ~Detached(q).live /\ Detached(q).signed = q.signed
         /\ Detached(q).answer = q.answer /\ Detached(q).user = q.user
BY DEF Detached, Flying

LEMMA Shaping ==
  ASSUME IInv, Shape, NEW a, a.user \in ClientUser \cup {NoUser}, NEW t, NEW r \in Seq(Flying),
         NEW p, NEW step \in StepsOf(page) \cup {"none"}, Become(a, t, r, p, step),
         Len(r) =< MaxRequests, \A s \in 1 .. Len(r) : Placed(r[s]) /\ Exact(r[s]),
         closing' \subseteq {"deposit", "withdraw"}, warned' \in BOOLEAN,
         server' = server, cookie' => Registered
  PROVE  Shape'
<1> DEFINE kept == form # "none" /\ p = page /\ Mountable(a, p)
           held == IF kept THEN r ELSE [s \in DOMAIN r |-> Detached(r[s])]
<1>1. /\ auth' = a /\ page' = p /\ form' = (IF kept THEN step ELSE "none")
      /\ requests' = held
  BY DEF Become
<1>2. Len(r) \in Nat /\ DOMAIN r = 1 .. Len(r) /\ \A s \in 1 .. Len(r) : r[s] \in Flying
  OBVIOUS
<1>3. Registered' <=> Registered
  BY DEF Registered
<1>4. CASE kept
  <2>1. requests' = r /\ page' = page /\ form' = step
    BY <1>1, <1>4
  <2>2. Placing'
    BY <1>3, <2>1 DEF Placing, Placed, Exact
  <2>3. Bounds'
    BY <1>1, <1>3, <2>1 DEF Bounds, StepsOf
  <2>4. QED
    BY <2>2, <2>3 DEF Shape
<1>5. CASE ~kept
  <2>1. requests' = [s \in 1 .. Len(r) |-> Detached(r[s])] /\ form' = "none"
    BY <1>1, <1>2, <1>5
  <2>2. \A s \in 1 .. Len(r) : Detached(r[s]) \in Flying
    BY <1>2, DetachedIsGood
  <2>3. requests' \in Seq(Flying) /\ Len(requests') = Len(r)
    BY <1>2, <2>1, <2>2
  <2>4. ASSUME NEW s \in 1 .. Len(r) PROVE (Placed(requests[s]) /\ Exact(requests[s]))'
    <3>1. requests'[s] = Detached(r[s])
      BY <2>1
    <3>2. /\ ~requests'[s].live /\ requests'[s].signed = r[s].signed
          /\ requests'[s].answer = r[s].answer /\ requests'[s].user = r[s].user
          /\ requests'[s].does.sends = r[s].does.sends
      BY <1>2, <3>1, DetachedIsGood, DetachedKeeps
    <3>3. QED
      BY <1>3, <3>2 DEF Placed, Exact
  <2>5. Placing'
    BY <2>3, <2>4 DEF Placing
  <2>6. Bounds'
    BY <1>1, <1>3, <2>1, <2>3 DEF Bounds
  <2>7. QED
    BY <2>5, <2>6 DEF Shape
<1>6. QED
  BY <1>4, <1>5

LEMMA PlacedStays ==
  ASSUME IInv, Shape
  PROVE  /\ requests \in Seq(Flying) /\ Len(requests) =< MaxRequests
         /\ \A s \in 1 .. Len(requests) : Placed(requests[s]) /\ Exact(requests[s])
         /\ auth.user \in ClientUser \cup {NoUser} /\ form \in StepsOf(page) \cup {"none"}
         /\ closing \subseteq {"deposit", "withdraw"} /\ warned \in BOOLEAN
         /\ cookie => Registered
         /\ page \in AllPages
BY DEF IInv, Typed, Flight, Shape, Placing, Bounds

(* What a button of the page sends belongs to the page; what is sent       *)
(* without a button shows no step.                                         *)
LEMMA RequestPlaced ==
  ASSUME IInv, Shape, NEW h \in Does, NEW busy \in Busies,
         h.from = {} \/ \E b \in PageAt[page].buttons : b.does = h
  PROVE  Placed(Request(h, busy)) /\ Exact(Request(h, busy))
<1>1. /\ Request(h, busy).does = h /\ Request(h, busy).signed = cookie
      /\ Request(h, busy).answer = "none" /\ Request(h, busy).user = NoUser
  BY DEF Request
<1>2. QED
  BY <1>1, NobodyIsNobody, PlacedStays DEF Placed, Exact

LEMMA Added ==
  ASSUME NEW r \in Seq(Flying), NEW x \in Flying, NEW n \in Nat, Len(r) < n,
         \A s \in 1 .. Len(r) : Placed(r[s]) /\ Exact(r[s]), Placed(x) /\ Exact(x)
  PROVE  /\ Append(r, x) \in Seq(Flying) /\ Len(Append(r, x)) =< n
         /\ \A s \in 1 .. Len(Append(r, x)) :
              Placed(Append(r, x)[s]) /\ Exact(Append(r, x)[s])
<1>1. /\ Len(r) \in Nat /\ Append(r, x) \in Seq(Flying) /\ Len(Append(r, x)) = Len(r) + 1
      /\ Append(r, x)[Len(r) + 1] = x
      /\ \A s \in 1 .. Len(r) : Append(r, x)[s] = r[s]
  OBVIOUS
<1>2. \A s \in 1 .. Len(Append(r, x)) : s \in 1 .. Len(r) \/ s = Len(r) + 1
  BY <1>1
<1>3. QED
  BY <1>1, <1>2

LEMMA SendingShapes ==
  ASSUME IInv, Shape, NEW a, a.user \in ClientUser \cup {NoUser}, a \in Auth, NEW t,
         NEW r \in Seq(Flying), NEW p, NEW step \in StepsOf(page) \cup {"none"},
         NEW h \in Does, NEW busy \in Busies, Send(h, busy, a, t, r, p, step),
         h.from = {} \/ \E b \in PageAt[page].buttons : b.does = h,
         Len(r) < MaxRequests, \A s \in 1 .. Len(r) : Placed(r[s]) /\ Exact(r[s]),
         closing' \subseteq {"deposit", "withdraw"}, warned' \in BOOLEAN,
         server' = server, cookie' => Registered
  PROVE  Shape'
<1>1. PICK x : x = Request(h, busy)
  OBVIOUS
<1>2. x \in Flying /\ Placed(x) /\ Exact(x)
  BY <1>1, NewRequest, RequestPlaced DEF IInv, Typed
<1>3. PICK a1, t1, n : /\ a1 = AuthPending(a, h.sends) /\ t1 = TxnPending(t, h.sends)
                       /\ n = Append(r, x)
  OBVIOUS
<1>4. Become(a1, t1, n, p, step)
  BY <1>1, <1>3 DEF Send
<1>5. a1.user \in ClientUser \cup {NoUser}
  BY <1>3, AuthWaits
<1>6. n \in Seq(Flying) /\ Len(n) =< MaxRequests /\ \A s \in 1 .. Len(n) : Placed(n[s]) /\ Exact(n[s])
  BY <1>2, <1>3, Added, ClientAssumption DEF ClientAssumption
<1>7. QED
  BY <1>4, <1>5, <1>6, Shaping

-----------------------------------------------------------------------------
(* The application starts, with one request that is of no page.            *)
LEMMA Started ==
  ASSUME cookie => Registered, NEW q, q = Request(Stay("getMe"), "none")
  PROVE  \A s \in 1 .. 1 : <<q>>[s] = q /\ q.does.from = {} /\ Exact(q)
<1>1. /\ q.does = Stay("getMe") /\ q.signed = cookie /\ q.answer = "none" /\ q.user = NoUser
  BY DEF Request
<1>2. q.does.from = {}
  BY <1>1 DEF Stay, Handler
<1>3. Exact(q)
  BY <1>1, NobodyIsNobody DEF Exact
<1>4. QED
  BY <1>2, <1>3

LEMMA InitShapes == Init => Shape
<1> SUFFICES ASSUME Init PROVE Shape
  OBVIOUS
<1>1. cookie => Registered
  BY DEF Init, Registered
<1>2. PICK q : q = Request(Stay("getMe"), "none")
  OBVIOUS
<1>3. requests = <<q>> /\ Len(<<q>>) = 1 /\ \A s \in 1 .. 1 : <<q>>[s] = q /\ q.does.from = {} /\ Exact(q)
  BY <1>1, <1>2, Started DEF Init
<1>4. Placing
  BY <1>3 DEF Placing, Placed
<1>5. auth.user = NoUser
  BY DEF Init, authInitial
<1>6. 1 =< MaxRequests
  BY ClientAssumption DEF ClientAssumption
<1>7. form = "none" /\ closing = {} /\ warned = FALSE
  BY DEF Init
<1>8. Bounds
  BY <1>1, <1>3, <1>5, <1>6, <1>7, NobodyIsNobody DEF Bounds
<1>9. QED
  BY <1>4, <1>8 DEF Shape

LEMMA LoadingShapes ==
  ASSUME IInv, Shape, NEW p, Load(p), UNCHANGED <<server, cookie>>
  PROVE  Shape'
<1>1. cookie => Registered
  BY PlacedStays
<1>2. PICK q : q = Request(Stay("getMe"), "none")
  OBVIOUS
<1>3. Len(<<q>>) = 1 /\ \A s \in 1 .. 1 : <<q>>[s] = q /\ q.does.from = {} /\ Exact(q)
  BY <1>1, <1>2, Started
<1>4. requests' = <<q>> /\ auth' = authInitial /\ form' = "none" /\ closing' = {} /\ warned' = FALSE
  BY <1>2 DEF Load
<1>5. Placing'
  BY <1>3, <1>4 DEF Placing, Placed, Exact, Registered
<1>6. authInitial.user = NoUser
  BY DEF authInitial
<1>7. 1 =< MaxRequests
  BY ClientAssumption DEF ClientAssumption
<1>8. Bounds'
  BY <1>1, <1>3, <1>4, <1>6, <1>7, NobodyIsNobody DEF Bounds, Registered
<1>9. QED
  BY <1>5, <1>8 DEF Shape

-----------------------------------------------------------------------------
(* The router and the user.                                                *)
LEMMA WanderingShapes ==
  ASSUME IInv, Shape, NEW t, NEW p, NEW step \in StepsOf(page) \cup {"none"},
         Become(auth, t, requests, p, step), UNCHANGED <<server, cookie, warned>>,
         closing' \subseteq closing
  PROVE  Shape'
<1>1. /\ requests \in Seq(Flying) /\ Len(requests) =< MaxRequests
      /\ \A s \in 1 .. Len(requests) : Placed(requests[s]) /\ Exact(requests[s])
      /\ auth.user \in ClientUser \cup {NoUser}
      /\ closing' \subseteq {"deposit", "withdraw"} /\ warned' \in BOOLEAN
      /\ cookie' => Registered
  BY PlacedStays
<1>2. QED
  BY <1>1, Shaping

LEMMA StepsAre ==
  /\ \A p \in AllPages : \A m \in PageAt[p].moves : m[2] \in StepsOf(p)
  /\ \A p \in AllPages : PageAt[p].first \subseteq StepsOf(p)
  /\ \A p \in AllPages : \A b \in PageAt[p].buttons :
       b.does.from # {} => b.does.step \in StepsOf(p)
  /\ "view" \in StepsOf("home")
<1> DEFINE Moved(p) == {{m[1], m[2]} : m \in PageAt[p].moves}
           Shown(p) == {b.does.step : b \in {c \in PageAt[p].buttons : c.does.from # {}}}
<1>1. ASSUME NEW p PROVE StepsOf(p) = PageAt[p].first \cup (UNION Moved(p)) \cup Shown(p)
  BY Zenon DEF StepsOf
<1>2. ASSUME NEW p, NEW k \in PageAt[p].moves PROVE k[2] \in StepsOf(p)
  <2>1. {k[1], k[2]} \in Moved(p)
    OBVIOUS
  <2> HIDE DEF Moved, Shown
  <2>2. QED
    BY <1>1, <2>1
<1>3. ASSUME NEW p, NEW d \in PageAt[p].buttons, d.does.from # {}
      PROVE  d.does.step \in Shown(p)
  BY <1>3
<1>4. PageAt["home"].first = {"view"}
  BY DEF PageAt, DashboardHome, Page
<1> HIDE DEF Moved, Shown
<1>5. ASSUME NEW p PROVE PageAt[p].first \subseteq StepsOf(p) /\ Shown(p) \subseteq StepsOf(p)
  BY <1>1
<1>6. QED
  BY <1>2, <1>3, <1>4, <1>5

LEMMA RoutingShapes ==
  ASSUME IInv, Shape,
         \/ Redirect \/ Back
         \/ \E p \in AllPages : Reload(p) \/ Follow(p)
         \/ \E move \in PageAt[page].moves : Step(move[2])
         \/ \E modal \in closing : CloseModal(modal)
  PROVE  Shape'
<1>1. CASE Redirect
  BY <1>1, WanderingShapes DEF Redirect
<1>2. CASE Back
  BY <1>2, WanderingShapes DEF Back
<1>3. ASSUME NEW p, Reload(p) PROVE Shape'
  BY <1>3, LoadingShapes DEF Reload
<1>4. ASSUME NEW p, Follow(p) PROVE Shape'
  BY <1>4, WanderingShapes DEF Follow
<1>5. ASSUME NEW move \in PageAt[page].moves, Step(move[2]) PROVE Shape'
  <2>1. move[2] \in StepsOf(page)
    BY StepsAre, PlacedStays
  <2>2. PICK t : Become(auth, t, requests, page, move[2])
    BY <1>5 DEF Step
  <2>3. QED
    BY <1>5, <2>1, <2>2, WanderingShapes DEF Step
<1>6. ASSUME NEW modal, CloseModal(modal) PROVE Shape'
  <2>1. PICK step \in {"view", form} :
          /\ Become(auth, TxnCleared, requests, page, step)
          /\ step = "view" => page = "home" \/ step = form
    BY <1>6 DEF CloseModal
  <2>2. step \in StepsOf(page) \cup {"none"}
    BY <2>1, StepsAre, PlacedStays
  <2>3. QED
    BY <1>6, <2>1, <2>2, WanderingShapes DEF CloseModal
<1>7. QED
  BY <1>1, <1>2, <1>3, <1>4, <1>5, <1>6

LEMMA MountingShapes ==
  ASSUME IInv, Shape, Mount PROVE Shape'
<1>1. /\ UNCHANGED <<server, cookie, auth, page, closing, warned>>
      /\ form' \in PageAt[page].first
  BY DEF Mount
<1>2. form' \in StepsOf(page)
  BY <1>1, StepsAre, PlacedStays
<1>3. CASE UNCHANGED requests
  BY <1>1, <1>2, <1>3, PlacedStays
     DEF Shape, Placing, Bounds, Placed, Exact, Registered, StepsOf
<1>4. CASE /\ Room
           /\ \E thunk \in PageAt[page].fetches :
                requests' = Append(requests, Request(Stay(thunk), "none"))
  <2>1. PICK thunk \in Fetched : requests' = Append(requests, Request(Stay(thunk), "none"))
    BY <1>4, PlacedStays, FetchesAreReads
  <2>2. PICK x : x = Request(Stay(thunk), "none")
    OBVIOUS
  <2>3. Stay(thunk) \in Does /\ Stay(thunk).from = {} /\ "none" \in Busies
    BY DEF Does, Stay, Handler, Busies, Fetched
  <2>4. x \in Flying /\ Placed(x) /\ Exact(x)
    BY <2>2, <2>3, NewRequest, RequestPlaced DEF IInv, Typed
  <2>5. MaxRequests \in Nat /\ Len(requests) < MaxRequests
    BY <1>4, ClientAssumption DEF ClientAssumption, Room
  <2>6. /\ Len(requests') =< MaxRequests
        /\ \A s \in 1 .. Len(requests') : Placed(requests'[s]) /\ Exact(requests'[s])
    BY <2>1, <2>2, <2>4, <2>5, PlacedStays, Added
  <2>7. Placing'
    BY <1>1, <2>6 DEF Placing, Placed, Exact, Registered
  <2>8. Bounds'
    BY <1>1, <1>2, <2>6, PlacedStays DEF Bounds, Registered, StepsOf
  <2>9. QED
    BY <2>7, <2>8 DEF Shape
<1>5. QED
  BY <1>3, <1>4 DEF Mount

LEMMA ClickingShapes ==
  ASSUME IInv, Shape, NEW b \in PageAt[page].buttons \cup LogoutButtons, Click(b) PROVE Shape'
<1>1. /\ Send(b.does, b.busy, auth, txn, requests, page, form) /\ Room
      /\ UNCHANGED <<server, cookie, closing, warned>>
  BY DEF Click
<1>2. /\ b.does \in Does /\ b.busy \in Busies
      /\ b.does.from = {} \/ \E c \in PageAt[page].buttons : c.does = b.does
  <2>1. CASE b \in PageAt[page].buttons
    <3>1. b \in Buttons
      BY <2>1, PlacedStays DEF Buttons
    <3>2. QED
      BY <2>1, <3>1 DEF Does, ButtonsDo, Busies
  <2>2. CASE b \in LogoutButtons
    BY <2>2 DEF LogoutButtons, Button, Logout, Stay, Handler, Does, Busies
  <2>3. QED
    BY <2>1, <2>2
<1>3. auth \in Auth /\ Len(requests) < MaxRequests
  BY <1>1 DEF IInv, Typed, Room
<1>4. QED
  BY <1>1, <1>2, <1>3, PlacedStays, SendingShapes

-----------------------------------------------------------------------------
(* The server and the staff.                                               *)
LEMMA StaffShapes ==
  ASSUME IInv, Shape, Approve \/ Freeze \/ Unfreeze \/ Expire PROVE Shape'
<1>1. UNCHANGED <<auth, page, form, requests, closing>>
  BY DEF Approve, Freeze, Unfreeze, Expire
<1>2. warned' \in BOOLEAN /\ (cookie' => cookie)
  <2>1. (warned' = warned \/ warned' = FALSE) /\ (cookie' = cookie \/ cookie' = FALSE)
    BY DEF Approve, Freeze, Unfreeze, Expire
  <2>2. cookie' => cookie
    BY <2>1, Zenon
  <2>3. QED
    BY <2>1, <2>2, PlacedStays
<1>3. Registered' <=> Registered
  BY DEF Approve, Freeze, Unfreeze, Expire, Registered, IInv, Typed
<1>4. Placing'
  BY <1>1, <1>3 DEF Shape, Placing, Placed, Exact
<1>5. Bounds'
  BY <1>1, <1>2, <1>3 DEF Shape, Bounds, StepsOf
<1>6. QED
  BY <1>4, <1>5 DEF Shape

(* An answer carries the user of an account that exists.                   *)
LEMMA UsersExact ==
  ASSUME Typed, NEW q, q.signed => Registered, q.does.sends \in UserThunks, Servable(q)
  PROVE  /\ AnsweredUser(q.does.sends) \in ClientUser
         /\ q.does.sends # "registerUser" => Registered
<1> DEFINE thunk == q.does.sends
<1>1. thunk # "registerUser" => Registered
  <2>1. CASE thunk \in CookieThunks
    BY <2>1 DEF Servable, Registered
  <2>2. CASE thunk \in ReplacingThunks \cup {"getMe"}
    BY <2>2 DEF Servable, PublicThunks, ReplacingThunks
  <2>3. QED
    BY <2>1, <2>2 DEF UserThunks, SessionThunks, CookieThunks
<1>2. CASE thunk = "registerUser"
  <2>1. AnsweredUser(thunk) = [approval |-> "PENDING", frozen |-> "unsaid"]
    BY <1>2 DEF AnsweredUser, ReplacingThunks
  <2>2. QED
    BY <1>2, <2>1 DEF ClientUser, Approvals, Flags
<1>3. CASE thunk # "registerUser"
  <2>1. server.approval \in {"PENDING", "APPROVED"}
    BY <1>1, <1>3 DEF Typed, Registered
  <2>2. CASE thunk \in SessionThunks \ {"registerUser"}
    BY <1>1, <2>1, <2>2 DEF AnsweredUser, ClientUser, Approvals, Flags
  <2>3. CASE thunk \in ReplacingThunks /\ thunk \notin SessionThunks
    BY <1>1, <2>1, <2>3 DEF AnsweredUser, ClientUser, Approvals, Flags, SessionThunks
  <2>4. QED
    BY <1>3, <2>2, <2>3 DEF UserThunks
<1>4. QED
  BY <1>2, <1>3

LEMMA ServingShapes ==
  ASSUME IInv, Shape, NEW s \in InFlight, Serve(s) PROVE Shape'
<1> DEFINE q == requests[s]
           thunk == q.does.sends
<1>1. /\ UNCHANGED <<cookie, auth, page, form, closing, warned>>
      /\ thunk \in UserThunks
      /\ server' = server \/ server' = [server EXCEPT !.approval = "PENDING"]
  BY DEF Serve
<1>2. PICK answer \in Answers(q) :
        requests' = [requests EXCEPT ![s].answer = answer, ![s].signed = FALSE,
                       ![s].user = IF answer = "ok" THEN AnsweredUser(thunk) ELSE NoUser]
  BY DEF Serve
<1>3. /\ Typed /\ requests \in Seq(Flying) /\ Len(requests) \in Nat
      /\ s \in 1 .. Len(requests) /\ q \in Flying /\ Placed(q) /\ Exact(q)
      /\ server \in [role : UserRoles, approval : {"none", "PENDING", "APPROVED"},
                     frozen : BOOLEAN]
  BY PlacedStays DEF IInv, Typed, Flight, InFlight
<1>4. PICK user : user = IF answer = "ok" THEN AnsweredUser(thunk) ELSE NoUser
  OBVIOUS
<1>5. answer = "ok" => Servable(q)
  BY <1>2 DEF Answers
<1>6. user \in ClientUser \cup {NoUser}
  BY <1>1, <1>3, <1>4, <1>5, NobodyIsNobody, UsersExact DEF Exact
<1>7. PICK f : /\ f = [q EXCEPT !.answer = answer, !.signed = FALSE, !.user = user]
               /\ requests' = [requests EXCEPT ![s] = f]
  BY <1>2, <1>4, Zenon
<1>8. /\ f.does = q.does /\ f.answer = answer /\ f.signed = FALSE /\ f.user = user
      /\ f.live = q.live
  BY <1>3, <1>7 DEF Flying
<1>9. Registered => Registered'
  BY <1>1, <1>3 DEF Registered
<1>10. /\ Len(requests') = Len(requests)
       /\ \A u \in 1 .. Len(requests) : requests'[u] = IF u = s THEN f ELSE requests[u]
  <2> HIDE DEF q, thunk
  <2>1. QED
    BY <1>3, <1>7
<1>11. answer = "ok" => Registered'
  <2>1. ASSUME answer = "ok", thunk = "registerUser" PROVE Registered'
    <3>1. requests'[s] = f
      BY <1>3, <1>10
    <3>2. server' # server
      BY <1>5, <1>8, <2>1, <3>1 DEF Serve
    <3>3. server'.approval = "PENDING"
      BY <1>1, <1>3, <3>2
    <3>4. QED
      BY <3>3 DEF Registered
  <2>2. ASSUME answer = "ok", thunk # "registerUser" PROVE Registered'
    BY <1>1, <1>3, <1>5, <1>9, <2>2, UsersExact DEF Exact
  <2>3. QED
    BY <2>1, <2>2
<1> HIDE DEF q, thunk
<1>12. ASSUME NEW u \in 1 .. Len(requests) PROVE (Placed(requests[u]) /\ Exact(requests[u]))'
  <2>1. CASE u = s
    BY <1>1, <1>3, <1>6, <1>8, <1>10, <1>11, <2>1 DEF Placed, Exact
  <2>2. CASE u # s
    BY <1>1, <1>9, <1>10, <2>2, PlacedStays DEF Placed, Exact
  <2>3. QED
    BY <2>1, <2>2
<1>13. Placing'
  BY <1>10, <1>12 DEF Placing
<1>14. Bounds'
  BY <1>1, <1>9, <1>10 DEF Shape, Bounds, StepsOf
<1>15. QED
  BY <1>13, <1>14 DEF Shape

-----------------------------------------------------------------------------
(* An answer arrives.                                                      *)
LEMMA StoredExact ==
  ASSUME NEW a, a.user \in ClientUser \cup {NoUser}, a \in Auth, NEW thunk,
         NEW user \in ClientUser \cup {NoUser}
  PROVE  /\ AuthFulfilled(a, thunk, user).user \in ClientUser \cup {NoUser}
         /\ AuthRejected(a, thunk).user \in ClientUser \cup {NoUser}
<1> DEFINE f == AuthFulfilled(a, thunk, user)
<1>1. f.user \in {a.user, user, NoUser, [approval |-> "unsaid", frozen |-> "unsaid"]}
  <2>1. CASE thunk \in SessionThunks /\ user # NoUser
    <3>1. thunk \notin ReplacingThunks \cup {"logoutUser", "setTPIN", "resetTPIN"}
      BY <2>1, ThunkSets DEF SessionThunks
    <3>2. QED
      BY <2>1, <3>1 DEF AuthFulfilled
  <2>2. CASE thunk \in ReplacingThunks
    <3>1. thunk \notin SessionThunks \cup {"logoutUser", "setTPIN", "resetTPIN"}
      BY <2>2 DEF ReplacingThunks, SessionThunks
    <3>2. QED
      BY <2>2, <3>1 DEF AuthFulfilled, Auth
  <2>3. CASE thunk = "logoutUser"
    <3>1. f = SignedOut
      BY <2>3, ThunkSets DEF AuthFulfilled
    <3>2. QED
      BY <3>1, SignedOutHolds
  <2>4. CASE thunk \in {"setTPIN", "resetTPIN"}
    <3>1. /\ thunk \in AuthThunks
          /\ thunk \notin SessionThunks \cup ReplacingThunks \cup {"logoutUser"}
      BY <2>4 DEF AuthThunks, SessionThunks, ReplacingThunks
    <3>2. QED
      BY <2>4, <3>1 DEF AuthFulfilled, Auth
  <2>5. CASE /\ thunk \in AuthThunks \ (ReplacingThunks \cup {"logoutUser", "setTPIN", "resetTPIN"})
             /\ thunk \in SessionThunks => user = NoUser
    <3>1. f = [a EXCEPT !.loading = FALSE]
      BY <2>5, ThunkSets DEF AuthFulfilled
    <3>2. QED
      BY <3>1 DEF Auth
  <2>6. CASE thunk \notin AuthThunks
    <3>1. thunk \notin {"setTPIN", "resetTPIN", "logoutUser"}
      BY <2>6 DEF AuthThunks
    <3>2. f = a
      BY <2>6, <3>1, ThunkSets DEF AuthFulfilled
    <3>3. QED
      BY <3>2
  <2>7. QED
    BY <2>1, <2>2, <2>3, <2>4, <2>5, <2>6, Zenon
<1>2. [approval |-> "unsaid", frozen |-> "unsaid"] \in ClientUser
  BY DEF ClientUser, Approvals, Flags
<1>3. AuthRejected(a, thunk).user \in {a.user, NoUser}
  BY SignedOutHolds DEF AuthRejected, Auth
<1> HIDE DEF f
<1>4. f.user \in ClientUser \cup {NoUser}
  BY <1>1, <1>2, NobodyIsNobody
<1>5. AuthRejected(a, thunk).user \in ClientUser \cup {NoUser}
  BY <1>3, NobodyIsNobody
<1>6. QED
  BY <1>4, <1>5 DEF f

LEMMA ReceivingShapes ==
  ASSUME IInv, Shape, NEW s \in InFlight, NEW answer \in AnswerKinds, Receive(s, answer)
  PROVE  Shape'
<1>1. PICK q : q = Arrived(s, answer)
  OBVIOUS
<1> DEFINE thunk == q.does.sends
           fine == q.answer \in {"ok", "second"}
           a == IF fine THEN AuthFulfilled(auth, thunk, q.user) ELSE AuthRejected(auth, thunk)
           t == IF fine THEN TxnFulfilled(txn, thunk) ELSE TxnRejected(txn, thunk)
           r == RemoveAt(requests, s)
           next == CASE AsksWhoIsSignedIn(a) -> Stay("getMe")
                     [] ~AsksWhoIsSignedIn(a) /\ q.answer = "ok" -> Afterwards(q)
                     [] OTHER -> Stay("nothing")
<1>2. /\ s \in 1 .. Len(requests) /\ Placed(requests[s]) /\ Exact(requests[s])
      /\ q \in Flying /\ q.does = requests[s].does /\ q.answer = answer
  <2> HIDE DEF thunk, fine, a, t, r, next
  <2>1. QED
    BY <1>1, Received, PlacedStays
<1>3. q.user = requests[s].user /\ q.live = requests[s].live
  <2>1. requests[s] \in Flying
    BY <1>2, PlacedStays
  <2>2. QED
    BY <1>1, <2>1 DEF Arrived, Flying
<1>4. cookie' \in CookiesAfter(q) /\ server' = server
  BY <1>1 DEF Receive, Arrived
<1>5. answer = "ok" /\ thunk \in UserThunks => Registered
  <2>1. thunk \in UserThunks => answer = requests[s].answer
    BY <1>1, <1>2 DEF Receive, Arrived
  <2>2. QED
    BY <1>2, <2>1 DEF Exact
<1>6. cookie' => Registered
  <2>1. CASE answer = "ok" /\ thunk \in CookieThunks
    BY <1>5, <2>1, ThunkSets DEF UserThunks
  <2>2. CASE ~(answer = "ok" /\ thunk \in CookieThunks)
    <3>1. cookie' = FALSE \/ cookie' = cookie
      BY <1>2, <1>4, <2>2 DEF CookiesAfter
    <3>2. cookie' => cookie
      BY <3>1, Zenon
    <3>3. QED
      BY <3>2, PlacedStays
  <2>3. QED
    BY <2>1, <2>2
<1>7. CASE ThrownOut(q)
  <2>1. cookie' = cookie
    BY <1>4, <1>7 DEF ThrownOut, CookiesAfter
  <2>2. Load("login")
    BY <1>1, <1>7 DEF Receive, Arrived
  <2>3. QED
    BY <1>4, <2>1, <2>2, LoadingShapes
<1>8. CASE ~ThrownOut(q)
  <2>1. /\ next.sends = "nothing" => Become(a, t, r, GoesTo(q), ShownAfter(q))
        /\ next.sends # "nothing" => Send(next, q.busy, a, t, r, GoesTo(q), ShownAfter(q))
    BY <1>1, <1>8 DEF Receive, Arrived
  <2>2. closing' \subseteq {"deposit", "withdraw"} /\ warned' \in BOOLEAN
    <3>1. closing' \subseteq {"deposit", "withdraw"}
      <4>1. closing' \subseteq closing \cup {"deposit", "withdraw"}
        BY <1>1, <1>8 DEF Receive, Arrived
      <4>2. QED
        BY <4>1, PlacedStays
    <3>2. warned' = CASE a.user = NoUser -> FALSE
                      [] fine /\ q.user.frozen = "yes" -> server.frozen
                      [] fine /\ q.user.frozen = "no" -> FALSE
                      [] OTHER -> warned
      BY <1>1, <1>8 DEF Receive, Arrived
    <3>3. warned \in BOOLEAN /\ server.frozen \in BOOLEAN
      BY PlacedStays DEF IInv, Typed
    <3> HIDE DEF a, fine
    <3>4. warned' \in {FALSE, server.frozen, warned}
      BY <3>2
    <3>5. QED
      BY <3>1, <3>3, <3>4
  <2>3. a.user \in ClientUser \cup {NoUser} /\ a \in Auth
    <3>1. q.user \in ClientUser \cup {NoUser} /\ auth.user \in ClientUser \cup {NoUser}
          /\ auth \in Auth /\ (auth.isAuthenticated => auth.user # NoUser)
      BY <1>2, <1>3, PlacedStays DEF Exact, IInv, Typed, Fits
    <3>2. a.user \in ClientUser \cup {NoUser}
      BY <3>1, StoredExact
    <3>3. q.user \in Known
      BY <1>2 DEF Flying
    <3>4. fine /\ thunk \in ReplacingThunks => q.user # NoUser
      <4>1. answer \in {"ok", "second"} /\ q.does.sends \in ReplacingThunks => q.user # NoUser
        <5> HIDE DEF thunk, fine, a, t, r, next
        <5>1. QED
          BY <1>1, Received
      <4>2. QED
        BY <1>2, <4>1
    <3>5. a \in Auth
      <4>1. CASE fine
        BY <3>1, <3>3, <3>4, <4>1, AuthAnswered
      <4>2. CASE ~fine
        BY <3>1, <4>2, AuthFailed
      <4>3. QED
        BY <4>1, <4>2
    <3>6. QED
      BY <3>2, <3>5
  <2>4. next \in Does /\ next.from = {} /\ q.busy \in Busies
    <3>1. /\ Stay("getMe") \in Does /\ Stay("getMe").from = {}
          /\ Stay("nothing") \in Does /\ Stay("nothing").from = {}
      BY DEF Does, Stay, Handler
    <3>2. Afterwards(q) \in Does /\ Afterwards(q).from = {} /\ q.busy \in Busies
      BY <1>2, AfterwardsGood DEF Afterwards, Stay, Handler
    <3> HIDE DEF a
    <3>3. next \in {Stay("getMe"), Afterwards(q), Stay("nothing")}
      OBVIOUS
    <3> HIDE DEF next
    <3>4. QED
      BY <3>1, <3>2, <3>3
  <2>5. ShownAfter(q) \in StepsOf(page) \cup {"none"}
    <3>1. CASE q.live /\ form \in q.does.from
      <4>1. PICK b \in PageAt[page].buttons : b.does = q.does
        BY <1>2, <1>3, <3>1 DEF Placed
      <4>2. q.does.step \in StepsOf(page)
        BY <3>1, <4>1, StepsAre, PlacedStays
      <4>3. QED
        BY <4>2, PlacedStays DEF ShownAfter
    <3>2. CASE ~(q.live /\ form \in q.does.from)
      BY <3>2, PlacedStays DEF ShownAfter
    <3>3. QED
      BY <3>1, <3>2
  <2>6. /\ r \in Seq(Flying) /\ Len(r) < MaxRequests
        /\ \A u \in 1 .. Len(r) : Placed(r[u]) /\ Exact(r[u])
    <3>1. /\ r \in Seq(Flying) /\ Len(r) = Len(requests) - 1
          /\ \A u \in 1 .. (Len(requests) - 1) :
               r[u] = IF u < s THEN requests[u] ELSE requests[u + 1]
      BY <1>2, PlacedStays, Removed
    <3>2. Len(requests) \in Nat /\ MaxRequests \in Nat
      BY PlacedStays, ClientAssumption DEF ClientAssumption
    <3> HIDE DEF r
    <3>3. ASSUME NEW u \in 1 .. Len(r) PROVE \E v \in 1 .. Len(requests) : r[u] = requests[v]
      BY <3>1, <3>2
    <3>4. QED
      BY <3>1, <3>2, <3>3, PlacedStays
  <2> HIDE DEF a, t, next, r
  <2>7. CASE next.sends = "nothing"
    <3>1. Len(r) =< MaxRequests
      BY <2>6, ClientAssumption DEF ClientAssumption
    <3>2. QED
      BY <1>4, <1>6, <2>1, <2>2, <2>3, <2>5, <2>6, <2>7, <3>1, Shaping
  <2>8. CASE next.sends # "nothing"
    BY <1>4, <1>6, <2>1, <2>2, <2>3, <2>4, <2>5, <2>6, <2>8, SendingShapes
  <2>9. QED
    BY <2>7, <2>8
<1>9. QED
  BY <1>7, <1>8

-----------------------------------------------------------------------------
LEMMA StepShapes == IInv /\ Shape /\ [Next]_vars => Shape'
<1> SUFFICES ASSUME IInv, Shape, [Next]_vars PROVE Shape'
  OBVIOUS
<1>1. CASE Proceed
  <2>1. ASSUME NEW s \in InFlight, Serve(s) PROVE Shape'
    BY <2>1, ServingShapes
  <2>2. ASSUME NEW s \in InFlight, NEW answer \in AnswerKinds, Receive(s, answer) PROVE Shape'
    BY <2>2, ReceivingShapes
  <2>3. QED
    BY <1>1, <2>1, <2>2, RoutingShapes, MountingShapes DEF Proceed
<1>2. ASSUME NEW b \in PageAt[page].buttons \cup LogoutButtons, Click(b) PROVE Shape'
  BY <1>2, ClickingShapes
<1>3. CASE UNCHANGED vars
  BY <1>3 DEF vars, Shape, Placing, Bounds, Placed, Exact, Registered, StepsOf
<1>4. QED
  BY <1>1, <1>2, <1>3, RoutingShapes, StaffShapes DEF Next

(* Every variable keeps its type: the step on view is one of its page, no  *)
(* more than MaxRequests are in flight; and the store fits what is in      *)
(* flight and the page on view.                                            *)
THEOREM InvHolds == Spec => []Inv
<1>1. Spec => [](IInv /\ Shape)
  BY InitHolds, StepHolds, InitShapes, StepShapes, PTL DEF Spec
<1>2. QED
  BY <1>1, ShapeIsTyped, PTL
=============================================================================
