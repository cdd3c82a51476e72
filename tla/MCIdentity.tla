------------------------------ MODULE MCIdentity ------------------------------
(***************************************************************************)
(* A small instance of Identity: alice has set up two-factor login and     *)
(* switched it off, and her TPIN is from before the tpinSet flag; carol    *)
(* has set up nothing; nobody has registered the third address. Two codes  *)
(* are in the mail to alice, and a third was verified.                     *)
(***************************************************************************)
EXTENDS Identity, TLC

CONSTANTS alice, carol, nobody, r1, r2, pw, pw2, tpin, tpin2, key

MCStart ==
  alice :> [password |-> pw, tpin |-> tpin, tpinSet |-> FALSE,
            twoFactor |-> FALSE, key |-> key]
  @@ carol :> [password |-> pw, tpin |-> NoSecret, tpinSet |-> FALSE,
               twoFactor |-> FALSE, key |-> NoSecret]

Ask(kind, email, purpose, given, new) ==
  [kind |-> kind, email |-> email, purpose |-> purpose, given |-> given, new |-> new]

MCVerified == {<<alice, "disable_2fa">>}
MCPosted ==
  MCVerified \cup {<<alice, "password_reset">>, <<alice, "tpin_reset">>}

(* Every kind of request that does something for the user, or is refused   *)
(* in a way of its own.                                                    *)
MCOperations ==
  {Ask("login", alice, "general", p, pw) : p \in {pw, pw2}}
  \cup {Ask("sendOTP", alice, "password_reset", pw, pw),
        Ask("sendOTP", nobody, "password_reset", pw, pw),
        Ask("sendOTP", nobody, "general", pw, pw)}
  \cup {Ask("verifyOTP", alice, "password_reset", c, pw) :
          c \in Request \cup {<<alice, "password_reset">>}}
  \cup {Ask("verifyOTP", alice, "tpin_reset", <<alice, "tpin_reset">>, pw),
        Ask("verify2FA", alice, "general", key, pw),
        Ask("resetPassword", alice, "general", pw, pw2),
        Ask("resetPassword", nobody, "general", pw, pw2),
        Ask("resetTPIN", alice, "general", pw, tpin2),
        Ask("disable2FALogin", alice, "general", pw, pw),
        Ask("changeTPIN", alice, "general", tpin, tpin2),
        Ask("setTPIN", alice, "general", pw, tpin2),
        Ask("setTPIN", nobody, "general", pw, tpin2),
        Ask("disable2FA", alice, "general", key, pw)}
  \cup {Ask("setTPIN", carol, "general", pw, tpin2)}
  \cup {Ask("get2FASetup", u, "general", pw, pw) : u \in {alice, carol}}
  \cup {Ask("enable2FA", carol, "general", k, pw) : k \in Request}
  \cup {Ask("enable2FA", alice, "general", key, pw),
        Ask("transfer", alice, "general", tpin, pw),
        Ask("transfer", carol, "general", tpin2, pw)}

(* backend/README.md:404: the TPIN of a user is set once; to set it again  *)
(* is an error. Of two setTPIN of one user, one at most is answered "ok".  *)
TpinIsSetOnce ==
  \A q, r \in Request :
    /\ q # r /\ answer[q] = "ok" /\ answer[r] = "ok"
    /\ op[q].kind = "setTPIN" /\ op[r].kind = "setTPIN"
    => op[q].email # op[r].email
=============================================================================
