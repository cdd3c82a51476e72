--------------------------- MODULE ClientStore ---------------------------
(***************************************************************************)
(* The two slices of the client's store that pages wait for: auth (who is  *)
(* signed in) and transaction (the flags the money pages share).  A thunk  *)
(* dispatches "pending" when it sends its request and "fulfilled" or       *)
(* "rejected" with the answer; each case is one operator.                  *)
(***************************************************************************)
EXTENDS Naturals

\* What the client knows of its user.  An answer that does not carry the
\* freeze flags leaves them undefined, which the pages read as not frozen.
Approvals == {"PENDING", "APPROVED", "unsaid"}
Flags == {"yes", "no", "unsaid"}
ClientUser == [approval : Approvals, frozen : Flags]
NoUser == [approval |-> "none", frozen |-> "none"]

AuthSlice == [user : ClientUser \cup {NoUser}, isAuthenticated : BOOLEAN, loading : BOOLEAN]
TransactionSlice == [loading : BOOLEAN, success : BOOLEAN]

authInitial == [user |-> NoUser, isAuthenticated |-> FALSE, loading |-> TRUE]
transactionInitial == [loading |-> FALSE, success |-> FALSE]

SessionThunks == {"loginUser", "verify2FA", "disable2FAViaOTP", "registerUser", "getMe"}
ReplacingThunks == {"updateProfile", "submitKYC"}
AuthThunks ==
  SessionThunks \cup ReplacingThunks
    \cup {"logoutUser", "updateProfileImage", "resetPassword", "setTPIN", "changeTPIN", "resetTPIN"}

MoneyThunks == {"deposit", "withdraw", "executeTransfer"}
TransactionThunks == MoneyThunks \cup {"searchUsers", "fetchTransactions"}
---------------------------------------------------------------------------
AuthPending(auth, thunk) ==
  IF thunk \in AuthThunks THEN [auth EXCEPT !.loading = TRUE] ELSE auth

SignedOut == [user |-> NoUser, isAuthenticated |-> FALSE, loading |-> FALSE]

\* The answer to a login that still wants the second factor only ends the
\* loading; resetTPIN and setTPIN end with updateUser, which spreads the user
\* it finds, or nothing, under the new field.
AuthFulfilled(auth, thunk, user) ==
  CASE thunk \in SessionThunks /\ user # NoUser ->
         [user |-> user, isAuthenticated |-> TRUE, loading |-> FALSE]
    [] thunk \in ReplacingThunks -> [auth EXCEPT !.user = user, !.loading = FALSE]
    [] thunk = "logoutUser" -> SignedOut
    [] thunk \in {"setTPIN", "resetTPIN"} ->
         [auth EXCEPT !.loading = FALSE,
                      !.user = IF @ = NoUser THEN [approval |-> "unsaid", frozen |-> "unsaid"] ELSE @]
    [] /\ thunk \in AuthThunks \ (ReplacingThunks \cup {"logoutUser", "setTPIN", "resetTPIN"})
       /\ thunk \in SessionThunks => user = NoUser ->
         [auth EXCEPT !.loading = FALSE]
    [] OTHER -> auth

\* (a mutant: a rejection keeps the pages waiting)
KeepsLoading(auth, thunk) == IF thunk \in {"getMe", "logoutUser"} THEN SignedOut ELSE auth

\* Nobody is signed in after a getMe or a logout that failed.
AuthRejected(auth, thunk) ==
  CASE thunk \in {"getMe", "logoutUser"} -> SignedOut
    [] thunk \in AuthThunks \ {"getMe", "logoutUser"} -> [auth EXCEPT !.loading = FALSE]
    [] OTHER -> auth
---------------------------------------------------------------------------
TxnPending(txn, thunk) ==
  CASE thunk \in MoneyThunks -> [loading |-> TRUE, success |-> FALSE]
    [] thunk \in TransactionThunks \ MoneyThunks -> [txn EXCEPT !.loading = TRUE]
    [] OTHER -> txn

TxnFulfilled(txn, thunk) ==
  CASE thunk \in MoneyThunks -> [loading |-> FALSE, success |-> TRUE]
    [] thunk \in TransactionThunks \ MoneyThunks -> [txn EXCEPT !.loading = FALSE]
    [] OTHER -> txn

TxnRejected(txn, thunk) ==
  CASE thunk = "executeTransfer" -> transactionInitial
    [] thunk \in TransactionThunks \ {"executeTransfer"} -> [txn EXCEPT !.loading = FALSE]
    [] OTHER -> txn

\* resetTransactionState and clearTransactionStatus.
TxnCleared == transactionInitial
=============================================================================
