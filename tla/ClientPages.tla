--------------------------- MODULE ClientPages ---------------------------
(***************************************************************************)
(* The pages of the single-page client: what each one fetches when it is   *)
(* mounted, the steps it shows, the buttons and keys of a step with the    *)
(* handler each runs and the flag that disables it meanwhile, and the      *)
(* moves between steps that send nothing.  The module Client gives them    *)
(* their meaning.  What a form holds is left out: a button can be clicked  *)
(* when its form may have been filled in.                                  *)
(***************************************************************************)
EXTENDS Naturals

\* A handler: the request it sends; where a success of it is shown, `step'
\* if one of the steps `from' is on view when it arrives; the page it then
\* navigates to; the request it sends after a success.
Handler(sends, from, step, go, after) ==
  [sends |-> sends, from |-> from, step |-> step, go |-> go, after |-> after]

Stay(sends) == Handler(sends, {}, "view", "stay", "nothing")
Thence(sends, after) == Handler(sends, {}, "view", "stay", after)
Shows(sends, from, step) == Handler(sends, from, step, "stay", "nothing")

\* The handler goes on when its component is gone: no step is shown any more.
Unseen(h) == Handler(h.sends, {}, "view", h.go, h.after)

\* `needs' names the flag that disables the button, `busy' the one that is up
\* while its request is unanswered: "auth" and "txn" are the loading flags of
\* two slices of the store, "modal" also wants no success to be on display,
\* any other name is a state of the component or of a slice.
Button(at, handler, busy) == [at |-> at, does |-> handler, needs |-> busy, busy |-> busy]

\* The Enter key of a field, or the last digit of a code: the handler runs
\* whatever the flag is, which only the button beside it waits for.
Key(at, handler, busy) == [at |-> at, does |-> handler, needs |-> "none", busy |-> busy]

\* The link below a code: its handler raises no flag of its own.
Resend(at, handler, needs) == [at |-> at, does |-> handler, needs |-> needs, busy |-> "none"]

Page(first, fetches, moves, buttons) ==
  [first |-> first, fetches |-> fetches, moves |-> moves, buttons |-> buttons]

Logout == Stay("logoutUser")
---------------------------------------------------------------------------
(* The login page: the password, the second factor, the forgotten password *)

onSubmit == Handler("loginUser", {"password"}, "second", "home", "nothing")
handle2FAVerify == Handler("verify2FA", {}, "view", "home", "nothing")
handleSendDisable2FAOTP == Shows("sendOTP", {"second"}, "second-otp")
handleVerifyDisable2FA == Thence("verifyOTP", "disable2FAViaOTP")
handleResendDisable2FAOTP == Stay("sendOTP")

Forgotten == {"email", "otp", "reset", "success"}
handleSendForgotOTP == Shows("sendOTP", Forgotten, "otp")
handleVerifyForgotOTP == Shows("verifyOTP", Forgotten, "reset")
handleResetPasswordSubmit == Shows("resetPassword", Forgotten, "success")
handleResendForgotOTP == Stay("sendOTP")

PasswordForm == {Button("password", onSubmit, "auth")}

SecondForm ==
  {Button("second", handle2FAVerify, "auth"),
   Button("second", handleSendDisable2FAOTP, "second"),
   Key("second-otp", handleVerifyDisable2FA, "second"),
   Resend("second-otp", handleResendDisable2FAOTP, "second")}

ForgotModal ==
  {Button("email", handleSendForgotOTP, "forgot"),
   Key("otp", handleVerifyForgotOTP, "forgot"),
   Resend("otp", handleResendForgotOTP, "forgot"),
   Button("reset", handleResetPasswordSubmit, "forgot")}

ForgotMoves == {<<"password", "email">>, <<"otp", "email">>}
               \cup {<<s, "password">> : s \in Forgotten}
SecondMoves == {<<"second", "password">>, <<"second-otp", "second">>}

Login == Page({"password"}, {}, ForgotMoves \cup SecondMoves,
              PasswordForm \cup SecondForm \cup ForgotModal)
---------------------------------------------------------------------------
(* Registration, approval, the restricted account                          *)

RegisterSubmit == Handler("registerUser", {}, "view", "home", "nothing")
Register == Page({"view"}, {}, {}, {Button("view", RegisterSubmit, "auth")})

handleLogout == Handler("logoutUser", {}, "view", "public", "nothing")
ApprovalRequired == Page({"view"}, {}, {}, {Button("view", handleLogout, "none")})

handleDisputeSubmit == Thence("dispute", "getMe")
AccountFrozen == Page({"view"}, {}, {}, {Button("view", handleDisputeSubmit, "submitting")})
---------------------------------------------------------------------------
(* The customer's pages                                                    *)

DepositModal == {Button("deposit", Thence("deposit", "read"), "modal")}
WithdrawModal == {Button("withdraw", Thence("withdraw", "read"), "modal")}
DownloadStatementModal == {Button("statement", Stay("read"), "downloading")}
CreateAccountModal == {Button("opening", Stay("createAccount"), "opening")}
BalanceCheckModal == {Button("view", Stay("read"), "none")}

\* The modals of a page open over its view and close back to it.
OpenAndClose(modals) == {<<"view", s>> : s \in modals} \cup {<<s, "view">> : s \in modals}

QuickActions == OpenAndClose({"deposit", "withdraw", "statement", "opening"})
DashboardHome ==
  Page({"view"}, {"read"}, QuickActions,
       DepositModal \cup WithdrawModal \cup DownloadStatementModal
         \cup CreateAccountModal \cup {Button("view", Stay("read"), "none")})

Accounts == Page({"view"}, {"read"}, OpenAndClose({"opening"}),
                 CreateAccountModal \cup BalanceCheckModal)

Transactions == Page({"view"}, {"fetchTransactions"}, OpenAndClose({"statement"}),
                     {Button("view", Stay("fetchTransactions"), "none")} \cup DownloadStatementModal)

Analytics == Page({"view"}, {"read"}, {}, {Button("view", Stay("read"), "none")})

handleSubmit == Shows("submitKYC", {"view"}, "submitted")
handleViewDocument == Stay("read")
DocumentsForm == {Button("view", handleSubmit, "submitting")}
DocumentsStatus == {Button("submitted", handleViewDocument, "viewing")}
KYC == Page({"view", "submitted"}, {}, {}, DocumentsForm \cup DocumentsStatus)

RecoverySendOTP == Shows("sendOTP", Forgotten, "otp")
RecoveryVerifyOTP == Shows("verifyOTP", Forgotten, "reset")
handleResetTPIN == Shows("resetTPIN", Forgotten, "success")
TPINRecoveryModal ==
  {Button("email", RecoverySendOTP, "forgot"),
   Key("otp", RecoveryVerifyOTP, "forgot"),
   Resend("otp", Stay("sendOTP"), "forgot"),
   Button("reset", handleResetTPIN, "forgot")}
\* The modal is opened from the step `opener' and closes back to `under'.
RecoveryMoves(opener, under) ==
  {<<opener, "email">>, <<"otp", "email">>} \cup {<<s, under>> : s \in Forgotten}

TransferSteps == {"view", "amount", "tpin", "done"}
handleTransfer == Shows("executeTransfer", TransferSteps, "done")
handleNextStep == {<<"view", "amount">>, <<"amount", "tpin">>}
handleBackStep == {<<"amount", "view">>, <<"tpin", "amount">>}
Receipt == {<<"done", "view">>}
ReceiverSearch == {Button("view", Stay("searchUsers"), "none")}
TpinStep ==
  {Button("tpin", handleTransfer, "txn"), Key("tpin", handleTransfer, "txn")}
    \cup TPINRecoveryModal
Transfer ==
  Page({"view"}, {"read"},
       handleNextStep \cup handleBackStep \cup Receipt \cup RecoveryMoves("tpin", "tpin"),
       ReceiverSearch \cup TpinStep)
---------------------------------------------------------------------------
(* The profile: the details, the picture, the TPIN, the second factor      *)

ProfileSubmit == Shows("updateProfile", {"editing"}, "view")
handleImageUpload == Thence("upload", "updateProfileImage")

\* The wizard sets a first TPIN, or asks for the old one and changes it.
WizardSetup == Shows("setTPIN", {"pin", "confirm"}, "view")
WizardChange == Shows("changeTPIN", {"old", "newpin", "reconfirm"}, "view")
TPINSetupWizard ==
  {Button("confirm", WizardSetup, "wizard"), Key("confirm", WizardSetup, "wizard"),
   Button("reconfirm", WizardChange, "wizard"), Key("reconfirm", WizardChange, "wizard")}
WizardMoves ==
  {<<"view", "pin">>, <<"pin", "confirm">>, <<"confirm", "pin">>, <<"pin", "view">>,
   <<"view", "old">>, <<"old", "newpin">>, <<"newpin", "reconfirm">>,
   <<"newpin", "old">>, <<"reconfirm", "newpin">>, <<"old", "view">>, <<"newpin", "view">>}

handleAction2FA == {Shows("enable2FA", {"code"}, "view"), Shows("disable2FA", {"code"}, "view")}
TwoFactorSetup ==
  {Button("view", Shows("get2FASetup", {"view"}, "code"), "setup")}
    \cup {Button("code", h, "verifying") : h \in handleAction2FA}
    \cup {Key("code", h, "verifying") : h \in handleAction2FA}

ProfileHeader == {Button("view", handleImageUpload, "uploading")}
EditMoves == {<<"view", "editing">>, <<"editing", "view">>}
ContactInformation == {Button("editing", ProfileSubmit, "auth")}
Security == TPINSetupWizard \cup TwoFactorSetup \cup TPINRecoveryModal
SecurityMoves == WizardMoves \cup RecoveryMoves("old", "view") \cup {<<"code", "view">>}
Profile == Page({"view"}, {}, EditMoves \cup SecurityMoves,
                ProfileHeader \cup ContactInformation \cup Security)
---------------------------------------------------------------------------
(* The staff's pages                                                       *)

handleApprove == Thence("decide", "read")
handleReject == Thence("decide", "read")
ApproveDeposits ==
  Page({"view"}, {"read"}, {},
       {Button("view", handleApprove, "action"), Button("view", handleReject, "action"),
        Button("view", Stay("read"), "none")})

handleAction == Thence("decide", "read")
PendingApprovals == Page({"view"}, {"read"}, {}, {Button("view", handleAction, "none")})

handleFreeze == Thence("decide", "read")
FreezeAccounts ==
  Page({"view"}, {"read"}, {},
       {Button("view", handleFreeze, "action"), Button("view", Stay("read"), "none")})

handleUnfreeze == Stay("decide")
FreezeDisputes == Page({"view"}, {"read"}, {}, {Button("view", handleUnfreeze, "unfreezing")})

handleKycAudit == Shows("decide", {"documents"}, "kyc")
handleRoleChange == Stay("decide")
handleLoadKycDocs == Shows("read", {"kyc"}, "documents")
KycTab == {Button("kyc", handleLoadKycDocs, "documents"), Button("kyc", handleKycAudit, "admin")}
DocumentViewer == {Button("documents", handleKycAudit, "admin")}
DirectoryTab == {Button("directory", handleRoleChange, "admin"),
                 Button("directory", Stay("read"), "none")}
Tabs == {"view", "kyc", "directory"}
Users == Page({"view"}, {"read"}, (Tabs \X Tabs) \cup {<<"documents", "kyc">>},
              KycTab \cup DocumentViewer \cup DirectoryTab)
---------------------------------------------------------------------------
Plain == Page({"view"}, {}, {}, {})
Messages == Page({"view"}, {"read"}, {}, {})

\* The routes of the application and the page of each.
GuestPages == {"login", "register"}
CustomerPages == {"accounts", "transfer", "transactions", "analytics", "kyc", "messages"}
ManagerPages == {"users", "freeze", "disputes"}
DashboardPages ==
  {"home", "profile", "settings", "frozen", "deposits", "approvals"}
    \cup CustomerPages \cup ManagerPages
AllPages == {"public", "approval"} \cup GuestPages \cup DashboardPages

PageAt ==
  [public |-> Plain, approval |-> ApprovalRequired, login |-> Login, register |-> Register,
   home |-> DashboardHome, profile |-> Profile, settings |-> Plain, frozen |-> AccountFrozen,
   accounts |-> Accounts, transfer |-> Transfer, transactions |-> Transactions,
   analytics |-> Analytics, kyc |-> KYC, messages |-> Messages,
   deposits |-> ApproveDeposits, approvals |-> PendingApprovals,
   users |-> Users, freeze |-> FreezeAccounts, disputes |-> FreezeDisputes]

Roles == {"CUSTOMER", "CASHIER", "MANAGER", "ADMIN"}
\* The roles a route of the dashboard is open to.
RolesAt(p) ==
  CASE p \in CustomerPages -> {"CUSTOMER"}
    [] p = "deposits" -> {"CASHIER", "MANAGER"}
    [] p = "approvals" -> {"ADMIN", "MANAGER"}
    [] p \in ManagerPages -> {"MANAGER"}
    [] OTHER -> Roles

\* What the sidebar and the bar at the top link to; a customer with some of
\* his accounts frozen, which the flag does not tell, has the frozen page too.
Menu(role, frozen) ==
  CASE role = "ADMIN" -> {"profile", "approvals", "settings"}
    [] role = "CASHIER" -> {"profile", "deposits", "settings"}
    [] role = "MANAGER" -> {"profile", "approvals", "users", "freeze", "disputes", "settings"}
    [] role = "CUSTOMER" /\ frozen = "yes" -> {"frozen", "profile", "settings"}
    [] OTHER -> {"home", "profile", "accounts", "analytics", "transfer", "transactions",
                 "messages", "frozen", "settings"}
=============================================================================
