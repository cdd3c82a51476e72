----------------------------- MODULE MCClient -----------------------------
(* Instances of Client for TLC. *)
EXTENDS Client

\* client: a customer or a manager.  He comes in by the public page, the login
\* or the registration; every other page he reaches by links or redirections,
\* if they lead there.  His clicks send the requests that sign him in and out
\* and those about money, its TPIN and its freeze.
EntryPages == {"public", "login", "register", "transfer", "users"}
MoneyClicks ==
  {"registerUser", "loginUser", "verify2FA", "logoutUser", "deposit", "executeTransfer",
   "searchUsers", "resetTPIN", "dispute", "decide"}

\* client_frozen: a customer edits his profile.
ProfileEntry == {"public", "login", "home", "profile"}
ProfileClicks == {"loginUser", "updateProfile", "logoutUser"}
=============================================================================
