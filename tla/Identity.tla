------------------------------- MODULE Identity -------------------------------
(***************************************************************************)
(* Login, one-time codes, the transaction PIN and two-factor               *)
(* authentication: the handlers of auth.controller.js, tpin.controller.js  *)
(* and 2fa.controller.js with isAuth and verifyTPIN, over the user         *)
(* documents in MongoDB and the codes and verification marks in Redis.     *)
(* Each request is a process with one step per await. A hash is modelled   *)
(* by the secret it was made from, a token of an authenticator app by the  *)
(* key the app holds.                                                      *)
(***************************************************************************)
EXTENDS Naturals

CONSTANTS
  Email,       \* the addresses requests may name
  User,        \* the addresses that belong to a registered user
  Start,       \* Start[u]: the user document when the model starts
  Request,     \* the requests clients may send, one id per HTTP request
  Given,       \* the secrets clients know of otherwise: passwords, TPINs, keys
  Operations,  \* the request bodies clients may send
  Posted,      \* mailboxes <<email, purpose>> to which a code was sent already
  Verified,    \* those of them whose code was given back already
  MaxCrashes,  \* bound: how often the server process dies
  NoSecret,    \* a secret that is not there
  NoOp         \* the body of a request that has not arrived

Purpose == {"general", "password_reset", "tpin_reset", "disable_2fa"}

(* The codes and the authenticator keys the server draws are as good as    *)
(* unique: each is named after the request that draws it, or after the key *)
(* it was posted for before the model starts.                              *)
Mailbox == Email \X Purpose
Secret == Request \cup Given \cup Mailbox

UserDoc == [password : Secret \cup {NoSecret}, tpin : Secret \cup {NoSecret}, tpinSet : BOOLEAN,
            twoFactor : BOOLEAN, key : Secret \cup {NoSecret}]

(* A request: what the client presents ("given": a code, a password, a     *)
(* TPIN, the key of the app) and what it asks for ("new").                 *)
OpenRoutes == {"login", "verify2FA", "sendOTP", "verifyOTP", "resetPassword",
               "disable2FALogin"}
AuthRoutes == {"setTPIN", "changeTPIN", "resetTPIN", "get2FASetup", "enable2FA",
               "disable2FA", "transfer"}
Operation == [kind : OpenRoutes \cup AuthRoutes, email : Email, purpose : Purpose,
              given : Secret \cup {NoSecret}, new : Secret]

ASSUME UserAssumption == User \subseteq Email
ASSUME StartAssumption == Start \in [User -> UserDoc]
ASSUME OperationsAssumption == Operations \subseteq Operation
ASSUME PostedAssumption == Posted \subseteq Mailbox /\ Verified \subseteq Posted
ASSUME DistinctAssumption ==
  /\ Request \cap Given = {} /\ Request \cap Mailbox = {} /\ Given \cap Mailbox = {}
  /\ NoSecret \notin Secret /\ NoOp \notin Operation
ASSUME CrashAssumption == MaxCrashes \in Nat
(* A user with two-factor login has a key; two-factor login was set up.    *)
ASSUME KeyAssumption == \A u \in User : Start[u].twoFactor => Start[u].key # NoSecret

VARIABLES
  users,    \* users[u]: the user document
  code,     \* code[k]: the one-time code stored for the mailbox k
  mark,     \* mark[k]: whether otp_verified is set for k
  mailed,   \* the codes handed to the mail queue, as <<mailbox, code>>
  op,       \* op[r]: the body of request r
  pc,       \* pc[r]: what its handler does next
  doc,      \* doc[r]: the user document as r loaded it
  answer,   \* answer[r]: "none", "ok", "second" (requires2FA), "session", "error"
  crashes,  \* how often the process has died
  spent,    \* history: the codes that were verified, as <<mailbox, code>>
  earned    \* history: whether what r asks for was right at some moment of r

stores == <<users, code, mark, mailed>>
handlers == <<op, pc, doc, answer>>
vars == <<stores, handlers, crashes, spent, earned>>

Running == {"auth", "mark", "load", "store", "mail", "get", "delete", "set",
            "save", "clear", "answer"}
PC == {"new", "done", "lost"} \cup Running

(***************************************************************************)
(* The handlers. Each is a record that says, for every await, which one    *)
(* comes after it; "new" names the first. d is the user as it is loaded.   *)
(***************************************************************************)
login == [new |-> "load", load |-> "answer"]
verify2FA == [new |-> "load", load |-> "answer"]
sendOTP(o) == [new |-> IF o.purpose = "general" THEN "store" ELSE "load",
               load |-> "store", store |-> "mail", mail |-> "answer"]
verifyOTP == [new |-> "get", get |-> "delete", delete |-> "set", set |-> "answer"]

(* Mutant: the new password is taken without a verification.               *)
resetPasswordUnverified == [new |-> "load", mark |-> "load", load |-> "save",
                            save |-> "clear", clear |-> "answer"]

resetPassword == [new |-> "mark", mark |-> "load", load |-> "save",
                  save |-> "clear", clear |-> "answer"]
disable2FALogin == [new |-> "mark", mark |-> "load", load |-> "save",
                    save |-> "clear", clear |-> "answer"]
setTPIN == [new |-> "auth", auth |-> "load", load |-> "save", save |-> "answer"]
changeTPIN == [new |-> "auth", auth |-> "load", load |-> "save", save |-> "answer"]
resetTPIN == [new |-> "auth", auth |-> "mark", mark |-> "load", load |-> "save",
              save |-> "clear", clear |-> "answer"]
get2FASetup(d) == [new |-> "auth", auth |-> "load",
                   load |-> IF d.key # NoSecret THEN "answer" ELSE "save",
                   save |-> "answer"]
enable2FA == [new |-> "auth", auth |-> "load", load |-> "save", save |-> "answer"]
disable2FA == [new |-> "auth", auth |-> "load", load |-> "save", save |-> "answer"]
verifyTPIN == [new |-> "auth", auth |-> "load", load |-> "answer"]

Handler(o, d) ==
  CASE o.kind = "login"           -> login
    [] o.kind = "verify2FA"       -> verify2FA
    [] o.kind = "sendOTP"         -> sendOTP(o)
    [] o.kind = "verifyOTP"       -> verifyOTP
    [] o.kind = "resetPassword"   -> resetPassword
    [] o.kind = "disable2FALogin" -> disable2FALogin
    [] o.kind = "setTPIN"         -> setTPIN
    [] o.kind = "changeTPIN"      -> changeTPIN
    [] o.kind = "resetTPIN"       -> resetTPIN
    [] o.kind = "get2FASetup"     -> get2FASetup(d)
    [] o.kind = "enable2FA"       -> enable2FA
    [] o.kind = "disable2FA"      -> disable2FA
    [] o.kind = "transfer"        -> verifyTPIN

(* The mailbox whose verification a request needs, stores or checks.       *)
PurposeOf(o) ==
  CASE o.kind = "resetPassword"   -> "password_reset"
    [] o.kind = "resetTPIN"       -> "tpin_reset"
    [] o.kind = "disable2FALogin" -> "disable_2fa"
    [] OTHER -> o.purpose
BoxOf(o) == <<o.email, PurposeOf(o)>>
Box(r) == BoxOf(op[r])
Resets == {"resetPassword", "resetTPIN", "disable2FALogin"}
Blank == [password |-> NoSecret, tpin |-> NoSecret, tpinSet |-> FALSE,
          twoFactor |-> FALSE, key |-> NoSecret]

Init ==
  /\ users = Start
  /\ code = [k \in Mailbox |-> IF k \in Posted \ Verified THEN k ELSE NoSecret]
  /\ mark = [k \in Mailbox |-> k \in Verified]
  /\ mailed = {<<k, k>> : k \in Posted}
  /\ op = [r \in Request |-> NoOp]
  /\ pc = [r \in Request |-> "new"]
  /\ doc = [r \in Request |-> Blank]
  /\ answer = [r \in Request |-> "none"]
  /\ crashes = 0
  /\ spent = {<<k, k>> : k \in Verified}
  /\ earned = [r \in Request |-> FALSE]

-----------------------------------------------------------------------------
(* Requests arrive and end. A client sends a code it got by mail.          *)

Sendable(o) ==
  o.kind = "verifyOTP" => \E k \in {o.email} \X Purpose : <<k, o.given>> \in mailed

Receive(r) ==
  /\ pc[r] = "new"
  /\ \E o \in Operations :
       /\ Sendable(o)
       /\ op' = [op EXCEPT ![r] = o]
       /\ pc' = [pc EXCEPT ![r] = Handler(o, Blank).new]
  /\ UNCHANGED <<stores, doc, answer, crashes, spent>>

End(r, ans) ==
  /\ pc' = [pc EXCEPT ![r] = "done"]
  /\ answer' = [answer EXCEPT ![r] = ans]
  /\ UNCHANGED <<op, doc>>

Continue(r, next) ==
  /\ pc' = [pc EXCEPT ![r] = next]
  /\ UNCHANGED <<op, doc, answer>>

(* A call of MongoDB, Redis or the queue fails: next(error).               *)
Throw(r) ==
  /\ pc[r] \in Running
  /\ End(r, "error")
  /\ UNCHANGED <<stores, crashes, spent>>

(* The answer. Three handlers set the session cookie.                      *)
SessionRoutes == {"login", "verify2FA", "disable2FALogin"}

(* Mutant: a login with two-factor login on is answered with a session.    *)
AnswerWithoutSecond(r) ==
  /\ pc[r] = "answer"
  /\ End(r, IF op[r].kind \in SessionRoutes THEN "session" ELSE "ok")
  /\ UNCHANGED <<stores, crashes, spent>>

Answer(r) ==
  /\ pc[r] = "answer"
  /\ End(r, IF op[r].kind = "login" /\ doc[r].twoFactor THEN "second"
            ELSE IF op[r].kind \in SessionRoutes THEN "session" ELSE "ok")
  /\ UNCHANGED <<stores, crashes, spent>>

-----------------------------------------------------------------------------
(* isAuth finds the user and repairs the tpinSet flag of an old document.  *)
Authenticate(r) ==
  LET u == op[r].email
  IN  /\ pc[r] = "auth"
      /\ IF u \in User
         THEN /\ users' = [users EXCEPT ![u].tpinSet = @ \/ users[u].tpin # NoSecret]
              /\ Continue(r, Handler(op[r], Blank).auth)
         ELSE End(r, "error") /\ UNCHANGED users
      /\ UNCHANGED <<code, mark, mailed, crashes, spent>>

(* Mutant: any verification of the address will do.                        *)
ReadMarkAnyPurpose(r) ==
  /\ pc[r] = "mark"
  /\ IF \E p \in Purpose : mark[<<op[r].email, p>>]
     THEN Continue(r, Handler(op[r], Blank).mark) ELSE End(r, "error")
  /\ UNCHANGED <<stores, crashes, spent>>

(* isOTPVerified, first thing in the handlers that reset something.        *)
ReadMark(r) ==
  /\ pc[r] = "mark"
  /\ IF mark[Box(r)]
     THEN Continue(r, Handler(op[r], Blank).mark) ELSE End(r, "error")
  /\ UNCHANGED <<stores, crashes, spent>>

(* The checks on the loaded user, with the comparison of what was given.   *)
(* Decrypting a key that is not there throws.                              *)
HasKey(o, d) == d.key # NoSecret /\ o.given = d.key
HasTPIN(o, d) == d.tpin # NoSecret /\ o.given = d.tpin

(* Mutant: enabling two-factor login does not ask for a token.             *)
MayProceedWithoutKey(o, d) ==
  CASE o.kind = "login" -> o.given = d.password
    [] o.kind \in {"verify2FA", "disable2FA"} -> d.twoFactor /\ HasKey(o, d)
    [] o.kind = "enable2FA" -> TRUE
    [] o.kind = "setTPIN" -> d.tpin = NoSecret
    [] o.kind \in {"changeTPIN", "transfer"} -> HasTPIN(o, d)
    [] OTHER -> TRUE

MayProceed(o, d) ==
  CASE o.kind = "login" -> o.given = d.password
    [] o.kind \in {"verify2FA", "disable2FA"} -> d.twoFactor /\ HasKey(o, d)
    [] o.kind = "enable2FA" -> HasKey(o, d)
    [] o.kind = "setTPIN" -> d.tpin = NoSecret
    [] o.kind \in {"changeTPIN", "transfer"} -> HasTPIN(o, d)
    [] OTHER -> TRUE

Load(r) ==
  LET o == op[r]
      u == o.email
  IN  /\ pc[r] = "load"
      /\ IF u \in User /\ MayProceed(o, users[u])
         THEN /\ doc' = [doc EXCEPT ![r] = users[u]]
              /\ pc' = [pc EXCEPT ![r] = Handler(o, users[u]).load]
              /\ UNCHANGED <<op, answer>>
         ELSE End(r, "error")
      /\ UNCHANGED <<stores, crashes, spent>>

(* save() writes the paths that were modified; a value that is set to what *)
(* was loaded is not modified.                                             *)
Written(r, current) ==
  LET o == op[r]
  IN  CASE o.kind = "resetPassword" -> [current EXCEPT !.password = o.new]
        [] o.kind \in {"setTPIN", "changeTPIN", "resetTPIN"} ->
             [current EXCEPT !.tpin = o.new, !.tpinSet = TRUE]
        [] o.kind = "get2FASetup" -> [current EXCEPT !.key = r]
        [] o.kind = "enable2FA" -> [current EXCEPT !.twoFactor = @ \/ ~doc[r].twoFactor]
        [] o.kind = "disable2FA" -> [current EXCEPT !.twoFactor = FALSE]
        [] o.kind = "disable2FALogin" ->
             [current EXCEPT !.twoFactor = @ /\ ~doc[r].twoFactor, !.key = NoSecret]

Save(r) ==
  /\ pc[r] = "save"
  /\ users' = [users EXCEPT ![op[r].email] = Written(r, @)]
  /\ Continue(r, Handler(op[r], doc[r]).save)
  /\ UNCHANGED <<code, mark, mailed, crashes, spent>>

Clear(r) ==
  /\ pc[r] = "clear"
  /\ mark' = [mark EXCEPT ![Box(r)] = FALSE]
  /\ Continue(r, Handler(op[r], Blank).clear)
  /\ UNCHANGED <<users, code, mailed, crashes, spent>>

-----------------------------------------------------------------------------
(* One-time codes: storeOTP and the mail, then the three calls of verifyOTP.*)

StoreCode(r) ==
  /\ pc[r] = "store"
  /\ code' = [code EXCEPT ![Box(r)] = r]
  /\ Continue(r, Handler(op[r], Blank).store)
  /\ UNCHANGED <<users, mark, mailed, crashes, spent>>

MailCode(r) ==
  /\ pc[r] = "mail"
  /\ mailed' = mailed \cup {<<Box(r), r>>}
  /\ Continue(r, Handler(op[r], Blank).mail)
  /\ UNCHANGED <<users, code, mark, crashes, spent>>

GetCode(r) ==
  /\ pc[r] = "get"
  /\ IF code[Box(r)] = op[r].given
     THEN Continue(r, Handler(op[r], Blank).get) ELSE End(r, "error")
  /\ UNCHANGED <<stores, crashes, spent>>

(* Mutant: the code stays in Redis.                                        *)
DeleteCodeNot(r) ==
  /\ pc[r] = "delete"
  /\ spent' = spent \cup {<<Box(r), op[r].given>>}
  /\ Continue(r, Handler(op[r], Blank).delete)
  /\ UNCHANGED <<stores, crashes>>

(* Whatever code is there now is deleted, also a newer one.                *)
DeleteCode(r) ==
  /\ pc[r] = "delete"
  /\ code' = [code EXCEPT ![Box(r)] = NoSecret]
  /\ spent' = spent \cup {<<Box(r), op[r].given>>}
  /\ Continue(r, Handler(op[r], Blank).delete)
  /\ UNCHANGED <<users, mark, mailed, crashes>>

SetMark(r) ==
  /\ pc[r] = "set"
  /\ mark' = [mark EXCEPT ![Box(r)] = TRUE]
  /\ Continue(r, Handler(op[r], Blank).set)
  /\ UNCHANGED <<users, code, mailed, crashes, spent>>

(* Mutant: marks are stored without an expiry.                             *)
ExpireCodesOnly(k) ==
  /\ code[k] # NoSecret /\ code' = [code EXCEPT ![k] = NoSecret]
  /\ UNCHANGED <<users, mailed, handlers, crashes, spent, mark>>

(* The 300 seconds of a code or of a mark are over.                        *)
Expire(k) ==
  /\ \/ /\ code[k] # NoSecret /\ code' = [code EXCEPT ![k] = NoSecret]
        /\ UNCHANGED mark
     \/ /\ mark[k] /\ mark' = [mark EXCEPT ![k] = FALSE]
        /\ UNCHANGED code
  /\ UNCHANGED <<users, mailed, handlers, crashes, spent>>

Crash ==
  /\ crashes < MaxCrashes
  /\ crashes' = crashes + 1
  /\ pc' = [r \in Request |-> IF pc[r] \in Running THEN "lost" ELSE pc[r]]
  /\ UNCHANGED <<stores, op, doc, answer, spent>>

-----------------------------------------------------------------------------
Handle(r) ==
  \/ Authenticate(r) \/ ReadMark(r) \/ Load(r) \/ Save(r) \/ Clear(r)
  \/ StoreCode(r) \/ MailCode(r) \/ GetCode(r) \/ DeleteCode(r) \/ SetMark(r)
  \/ Answer(r)

Step ==
  \/ \E r \in Request : Receive(r) \/ Handle(r) \/ Throw(r)
  \/ \E k \in Mailbox : Expire(k)
  \/ Crash

(* What must have been true, while r ran, for the session, the go-ahead or *)
(* the change it asks for. That of verify2FA is the token alone: nothing   *)
(* ties it to a login that was answered "second".                          *)
Rightful(r) ==
  LET o == op[r]
      d == users[o.email]
  IN  /\ o # NoOp /\ o.email \in User
      /\ CASE o.kind = "login" -> o.given = d.password /\ ~d.twoFactor
           [] o.kind \in {"verify2FA", "disable2FA"} -> d.twoFactor /\ HasKey(o, d)
           [] o.kind = "enable2FA" -> HasKey(o, d)
           [] o.kind \in {"changeTPIN", "transfer"} -> HasTPIN(o, d)
           [] o.kind = "setTPIN" -> d.tpin = NoSecret
           [] OTHER -> FALSE

Witness == earned' = [r \in Request |-> earned[r] \/ Rightful(r)']

Next == Step /\ Witness

Spec == Init /\ [][Next]_vars

(* Node resumes a handler whose call has returned; Redis drops what has    *)
(* expired.                                                                *)
Fairness ==
  /\ \A r \in Request : WF_vars(Handle(r) /\ Witness)
  /\ \A k \in Mailbox : WF_vars(Expire(k) /\ Witness)

FairSpec == Spec /\ Fairness

-----------------------------------------------------------------------------
TypeOK ==
  /\ users \in [User -> UserDoc]
  /\ code \in [Mailbox -> Secret \cup {NoSecret}]
  /\ mark \in [Mailbox -> BOOLEAN]
  /\ mailed \in SUBSET (Mailbox \X Secret)
  /\ op \in [Request -> Operations \cup {NoOp}]
  /\ pc \in [Request -> PC]
  /\ doc \in [Request -> UserDoc]
  /\ answer \in [Request -> {"none", "ok", "second", "session", "error"}]
  /\ crashes \in 0 .. MaxCrashes
  /\ spent \in SUBSET (Mailbox \X Secret)
  /\ earned \in [Request -> BOOLEAN]

(* A verified code was mailed to that address for that purpose, and once   *)
(* its deletion is through it is never stored again, however verifications,*)
(* new codes and expiry interleave. (Two verifyOTP that both read the code *)
(* before either deletes it both succeed: otp.util.js gets, then deletes.) *)
CodesAreSpent ==
  /\ spent \subseteq mailed
  /\ \A k \in Mailbox : <<k, code[k]>> \notin spent

(* The owner of the address proved it for the purpose: a code mailed for   *)
(* it was given back.                                                      *)
Proven(u, p) == \E c \in Secret : <<<<u, p>>, c>> \in spent

Saves(r, u, kind) == pc[r] = "save" /\ op[r].kind = kind /\ op[r].email = u

(* The document d of user u may become w in one step.                      *)
Sanctioned(u, d, w) ==
  /\ w.password # d.password =>
       \E r \in Request : /\ Saves(r, u, "resetPassword") /\ Proven(u, "password_reset")
                          /\ w.password = op[r].new
  /\ w.tpin # d.tpin =>
       \E r \in Request : /\ \/ Saves(r, u, "setTPIN") /\ earned[r]
                             \/ Saves(r, u, "changeTPIN") /\ earned[r]
                             \/ Saves(r, u, "resetTPIN") /\ Proven(u, "tpin_reset")
                          /\ w.tpin = op[r].new
  /\ w.twoFactor # d.twoFactor =>
       \E r \in Request : IF w.twoFactor
                          THEN Saves(r, u, "enable2FA") /\ earned[r]
                          ELSE \/ Saves(r, u, "disable2FA") /\ earned[r]
                               \/ Saves(r, u, "disable2FALogin") /\ Proven(u, "disable_2fa")

(* Every time a password, a TPIN or the two-factor flag of a user changes, *)
(* it becomes what a request of that user asked for, and either a code was *)
(* given back for that very purpose or, at some moment while the request   *)
(* ran, it presented the user's TPIN or a token of the user's key, or the  *)
(* user had no TPIN (setTPIN). That moment is the load: two setTPIN may    *)
(* both save, a changeTPIN may save over a TPIN that was reset meanwhile,  *)
(* and two resets may use one mark (the code reads it, and clears it last).*)
SettingsAreProtected ==
  [][\A u \in User : Sanctioned(u, users[u], users'[u])]_vars

(* A session or a go-ahead for a transfer is answered only if, at some     *)
(* moment while the request ran, the password was right and two-factor     *)
(* login off (login), the token was right and two-factor login on          *)
(* (verify2FA), the TPIN was right (transfer), or the address was proven   *)
(* (disable2FALogin). It does not say that the password was given before   *)
(* the token: verify2FA asks for the address and the token only.           *)
SessionsAreEarned ==
  \A r \in Request :
    /\ answer[r] = "session" => IF op[r].kind = "disable2FALogin"
                                 THEN Proven(op[r].email, "disable_2fa")
                                 ELSE earned[r]
    /\ answer[r] = "ok" /\ op[r].kind = "transfer" => earned[r]

(* Two-factor login that is on has a key to check tokens with, except for  *)
(* a user who asked to have it removed (disable2FALogin drops the key      *)
(* while an enable2FA that loaded it is under way).                        *)
NobodyIsLockedOut ==
  \A u \in User : users[u].twoFactor /\ users[u].key = NoSecret =>
                     Proven(u, "disable_2fa")

(* The server comes to rest: every handler ends, and no verification is    *)
(* good for ever, its mark lapses whether or not it was used.              *)
EverythingLapses ==
  []<>(/\ \A r \in Request : pc[r] \notin Running
       /\ \A k \in Mailbox : ~mark[k])

-----------------------------------------------------------------------------
(***************************************************************************)
(* Why it works: where a request is says what it has seen, and codes named *)
(* after a request are where its handler has put them.                     *)
(***************************************************************************)

(* A code is the one posted for its mailbox, or was drawn for it by a      *)
(* request that has got further than those places.                         *)
DrawnFor(k, c, places) ==
  \/ c = k
  \/ c \in Request /\ op[c] # NoOp /\ BoxOf(op[c]) = k /\ pc[c] \notin places

Unstored == {"new", "auth", "mark", "load", "store"}
SpentFor(k) == \E c \in Secret : <<k, c>> \in spent

CodeInv ==
  /\ \A k \in Mailbox :
       /\ code[k] # NoSecret => DrawnFor(k, code[k], Unstored)
       /\ mark[k] => SpentFor(k)
  /\ \A e \in mailed : DrawnFor(e[1], e[2], Unstored \cup {"mail"})

Loaded == {"save", "clear"}
Checked(r) ==
  pc[r] \in Loaded \/ (pc[r] = "answer" /\ op[r].kind \notin {"sendOTP", "verifyOTP"})

(* The requests that present something, or set a TPIN for the first time.  *)
Weighed == {"login", "verify2FA", "transfer", "setTPIN", "changeTPIN", "enable2FA", "disable2FA"}

StageInv(r) ==
  LET o == op[r]
  IN  /\ IF pc[r] = "new" THEN o = NoOp ELSE o \in Operations
      /\ answer[r] # "none" => pc[r] = "done"
      /\ pc[r] \in Unstored \ {"store"} => doc[r] = Blank
      /\ pc[r] = "auth" => o.kind \in AuthRoutes
      /\ pc[r] = "load" => o.kind # "verifyOTP"
      /\ pc[r] \in {"store", "mail"} => o.kind = "sendOTP"
      /\ pc[r] \in {"get", "delete", "set"} => o.kind = "verifyOTP" /\ o.given # NoSecret
      /\ pc[r] = "get" => Sendable(o)
      /\ pc[r] \in {"delete", "set"} => <<Box(r), o.given>> \in mailed
      /\ pc[r] = "set" => <<Box(r), o.given>> \in spent
      /\ pc[r] \in {"mark", "clear"} => o.kind \in Resets
      /\ pc[r] = "save" => o.kind \in (AuthRoutes \cup Resets) \ {"transfer"}
      /\ pc[r] \in {"load", "save", "clear", "answer"} /\ o.kind \in Resets =>
           SpentFor(Box(r))
      /\ Checked(r) => o.email \in User /\ MayProceed(o, doc[r])
      /\ Checked(r) /\ o.kind \in Weighed =>
           earned[r] \/ (o.kind = "login" /\ doc[r].twoFactor)

(* What a user document has had, it keeps: a TPIN always, a key unless the *)
(* user asked to have it removed.                                          *)
KeepInv ==
  /\ \A u \in User : users[u].tpin = NoSecret => Start[u].tpin = NoSecret
  /\ \A r \in Request : Checked(r) =>
       LET u == op[r].email
       IN  /\ doc[r].tpin = NoSecret => Start[u].tpin = NoSecret
           /\ doc[r].key # NoSecret =>
                users[u].key # NoSecret \/ Proven(u, "disable_2fa")

Inv ==
  /\ TypeOK
  /\ CodesAreSpent
  /\ CodeInv
  /\ \A r \in Request : StageInv(r)
  /\ KeepInv
  /\ SessionsAreEarned
  /\ NobodyIsLockedOut
=============================================================================
