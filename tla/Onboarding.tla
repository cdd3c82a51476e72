------------------------------ MODULE Onboarding ------------------------------
(***************************************************************************)
(* Registration and its approval, roles, profiles, KYC and the opening of  *)
(* accounts: register of auth.controller.js, admin.controller.js,          *)
(* user.controller.js and createAccount of account.controller.js, over the *)
(* collections of users and accounts with their unique indexes. Each       *)
(* request is a process with one step per await. What a field holds is a   *)
(* model value; names, passwords and the other fields that no handler      *)
(* looks at are left out.                                                  *)
(***************************************************************************)
EXTENDS Naturals

CONSTANTS
  Request,     \* the requests clients may send, one id per HTTP request
  First,       \* the users who are there when the model starts
  Start,       \* Start[u]: their documents
  Operations,  \* the request bodies clients may send
  Email, Mobile, Key,  \* addresses, mobile numbers, keys of uploaded files
  Number,      \* account numbers
  MaxCrashes,  \* bound: how often the server process dies
  NoUser,      \* no document
  NoKey,       \* no file
  NoOp         \* the body of a request that has not arrived

(* A user that is registered here is named after the request that does it. *)
(* One key stands for the two KYC documents, which are submitted together. *)
User == First \cup Request

Role == {"CUSTOMER", "CASHIER", "MANAGER", "ADMIN"}
KycStatus == {"NOT_STARTED", "PENDING", "VERIFIED", "REJECTED"}
UserDoc == [email : Email, mobile : Mobile, role : Role, approvalStatus : {"PENDING", "APPROVED"},
            kycStatus : KycStatus, kycDocumentKey : Key \cup {NoKey},
            profileImageKey : Key \cup {NoKey}]
AccountType == {"SAVINGS", "CURRENT"}
Account == [user : User, accountType : AccountType, accountNumber : Number]

(* The bodies, after validation. "by" is the user the session belongs to.  *)
RegisterOp == [kind : {"register"}, email : Email, mobile : Mobile, role : Role]
ApproveOp == [kind : {"approveRegistration"}, by : User, id : User,
              action : {"APPROVE", "REJECT"}]
RoleOp == [kind : {"updateUserRole"}, by : User, id : User, role : Role]
KycOp == [kind : {"updateKycStatus"}, by : User, id : User, status : {"VERIFIED", "REJECTED"}]
SubmitOp == [kind : {"submitKYC"}, by : User, key : Key]
ImageOp == [kind : {"updateProfileImage"}, by : User, key : Key]
ProfileOp == [kind : {"updateProfile"}, by : User, email : Email, mobile : Mobile]
AccountOp == [kind : {"createAccount"}, by : User, accountType : AccountType]
Operation == RegisterOp \cup ApproveOp \cup RoleOp \cup KycOp \cup SubmitOp \cup ImageOp
             \cup ProfileOp \cup AccountOp

ASSUME StartAssumption == Start \in [First -> UserDoc]
ASSUME OperationsAssumption == Operations \subseteq Operation
ASSUME NamesAssumption ==
  First \cap Request = {} /\ NoUser \notin UserDoc /\ NoOp \notin Operation /\ NoKey \notin Key
ASSUME ContactsAssumption ==
  \A u, v \in First : u # v => Start[u].email # Start[v].email /\ Start[u].mobile # Start[v].mobile
ASSUME NumberAssumption == Number # {}
ASSUME CrashAssumption == MaxCrashes \in Nat

VARIABLES
  users,     \* users[u]: the document of u
  accounts,  \* the accounts that were opened
  mailed,    \* the mails that were started, as <<kind, user>>
  op, pc,    \* op[r]: the body of request r; pc[r]: what its handler does next
  role,      \* role[r]: the role in req.user, as isAuth loaded it
  doc,       \* doc[r]: the document that r loaded
  number,    \* number[r]: the account number r has found to be free
  answer,    \* answer[r]: "none", "ok", "refused" (an AppError), "error"
  crashes,
  decided    \* history: what approvals and rejections were about, as <<role, document>>

stores == <<users, accounts, mailed>>
handlers == <<op, pc, role, doc, number, answer>>
vars == <<stores, handlers, crashes, decided>>

Running == {"auth", "find", "load", "update", "save", "delete", "number", "create", "mail",
            "answer"}
Managing == {"approveRegistration", "updateUserRole", "updateKycStatus"}

Init ==
  /\ users = [u \in User |-> IF u \in First THEN Start[u] ELSE NoUser]
  /\ accounts = {} /\ mailed = {}
  /\ op = [r \in Request |-> NoOp] /\ pc = [r \in Request |-> "new"]
  /\ role = [r \in Request |-> "CUSTOMER"] /\ doc = [r \in Request |-> NoUser]
  /\ number = [r \in Request |-> CHOOSE n \in Number : TRUE]
  /\ answer = [r \in Request |-> "none"]
  /\ crashes = 0 /\ decided = {}

-----------------------------------------------------------------------------
Goto(r, next) == pc' = [pc EXCEPT ![r] = next] /\ UNCHANGED answer

End(r, ans) ==
  pc' = [pc EXCEPT ![r] = "done"] /\ answer' = [answer EXCEPT ![r] = ans]

Receive(r) ==
  /\ pc[r] = "new"
  /\ \E o \in Operations :
       /\ op' = [op EXCEPT ![r] = o]
       /\ Goto(r, IF o.kind = "register" THEN "find" ELSE "auth")
  /\ UNCHANGED <<stores, role, doc, number, crashes, decided>>

(* Mutant: the routes of the managers are open to every session.           *)
RefusedNobody(o, r) ==
  o.kind = "updateUserRole" /\ o.by = o.id /\ o.role # "MANAGER"

(* isAuth, checkRole('MANAGER', 'ADMIN') on the routes of the managers, and *)
(* what the handlers check before their first await.                       *)
Refused(o, r) ==
  \/ o.kind \in Managing /\ r \notin {"MANAGER", "ADMIN"}
  \/ o.kind = "updateUserRole" /\ o.by = o.id /\ o.role # "MANAGER"

AfterAuth(o) ==
  CASE o.kind \in {"approveRegistration", "updateKycStatus"} -> "load"
    [] o.kind = "createAccount" -> "find"
    [] OTHER -> "update"

Authenticate(r) ==
  LET u == users[op[r].by]
  IN  /\ pc[r] = "auth"
      /\ IF u = NoUser THEN End(r, "refused") /\ UNCHANGED role
         ELSE /\ role' = [role EXCEPT ![r] = u.role]
              /\ IF Refused(op[r], u.role) THEN End(r, "refused") ELSE Goto(r, AfterAuth(op[r]))
      /\ UNCHANGED <<stores, op, doc, number, crashes, decided>>

-----------------------------------------------------------------------------
(* register: look for the address or the number, create, queue the mail.   *)

Taken(email, mobile, others) ==
  \E u \in others : users[u] # NoUser /\ (users[u].email = email \/ users[u].mobile = mobile)

FindUser(r) ==
  /\ pc[r] = "find" /\ op[r].kind = "register"
  /\ IF Taken(op[r].email, op[r].mobile, User) THEN End(r, "refused") ELSE Goto(r, "create")
  /\ UNCHANGED <<stores, op, role, doc, number, crashes, decided>>

NewUser(o) ==
  [email |-> o.email, mobile |-> o.mobile, role |-> o.role, approvalStatus |-> "PENDING",
   kycStatus |-> "NOT_STARTED", kycDocumentKey |-> NoKey, profileImageKey |-> NoKey]

(* Mutant: there are no unique indexes; register has looked already.       *)
CreateUserUnchecked(r) ==
  /\ pc[r] = "create" /\ op[r].kind = "register"
  /\ users' = [users EXCEPT ![r] = NewUser(op[r])] /\ Goto(r, "mail")
  /\ UNCHANGED <<accounts, mailed, op, role, doc, number, crashes, decided>>

(* The unique indexes refuse what was taken in the meantime.               *)
CreateUser(r) ==
  /\ pc[r] = "create" /\ op[r].kind = "register"
  /\ IF Taken(op[r].email, op[r].mobile, User)
     THEN End(r, "error") /\ UNCHANGED users
     ELSE users' = [users EXCEPT ![r] = NewUser(op[r])] /\ Goto(r, "mail")
  /\ UNCHANGED <<accounts, mailed, op, role, doc, number, crashes, decided>>

EnqueueWelcome(r) ==
  /\ pc[r] = "mail"
  /\ mailed' = mailed \cup {<<"welcome", r>>} /\ Goto(r, "answer")
  /\ UNCHANGED <<users, accounts, op, role, doc, number, crashes, decided>>

-----------------------------------------------------------------------------
(* approveRegistration and updateKycStatus load, check and save.           *)

(* Mutant: an administrator may decide on everybody.                       *)
MayDecideAnybody(r, d) ==
  d.approvalStatus = "PENDING" /\ (role[r] = "MANAGER" => d.role = "CUSTOMER")

MayDecide(r, d) ==
  /\ d.approvalStatus = "PENDING"
  /\ role[r] = "MANAGER" => d.role = "CUSTOMER"
  /\ role[r] = "ADMIN" => d.role \in {"CASHIER", "MANAGER"}

Load(r) ==
  LET o == op[r]
      d == users[o.id]
  IN  /\ pc[r] = "load"
      /\ doc' = [doc EXCEPT ![r] = d]
      /\ IF d = NoUser \/ (o.kind = "approveRegistration" /\ ~MayDecide(r, d))
         THEN End(r, "refused")
         ELSE Goto(r, IF o.kind = "approveRegistration" /\ o.action = "REJECT"
                      THEN "delete" ELSE "save")
      /\ UNCHANGED <<stores, op, role, number, crashes, decided>>

(* Mutant: the whole document that was loaded is written.                  *)
WrittenWhole(r, current) ==
  IF op[r].kind = "approveRegistration"
  THEN [doc[r] EXCEPT !.approvalStatus = "APPROVED"]
  ELSE [doc[r] EXCEPT !.kycStatus = op[r].status]

(* save writes the path that was modified; a status that is set to what    *)
(* was loaded is not modified.                                             *)
Written(r, current) ==
  IF op[r].kind = "approveRegistration"
  THEN [current EXCEPT !.approvalStatus = "APPROVED"]
  ELSE IF doc[r].kycStatus = op[r].status THEN current
  ELSE [current EXCEPT !.kycStatus = op[r].status]

(* Mutant: the save of a document that is gone is taken for a success.     *)
SaveAnyway(r) ==
  LET u == op[r].id
  IN  /\ pc[r] = "save" /\ Goto(r, "answer")
      /\ IF users[u] = NoUser THEN UNCHANGED <<users, mailed, decided>>
         ELSE /\ users' = [users EXCEPT ![u] = Written(r, @)]
              /\ mailed' = mailed \cup {<<"approval", u>>}
              /\ decided' = decided \cup {<<role[r], u, doc[r]>>}
      /\ UNCHANGED <<accounts, op, role, doc, number, crashes>>

(* Saving a document that is gone is an error, also when nothing changed   *)
(* in it: save looks for it then. An approval starts its mail.             *)
Save(r) ==
  LET u == op[r].id
  IN  /\ pc[r] = "save"
      /\ IF users[u] = NoUser THEN End(r, "error") /\ UNCHANGED <<users, mailed, decided>>
         ELSE /\ users' = [users EXCEPT ![u] = Written(r, @)] /\ Goto(r, "answer")
              /\ IF op[r].kind = "approveRegistration"
                 THEN /\ mailed' = mailed \cup {<<"approval", u>>}
                      /\ decided' = decided \cup {<<role[r], u, doc[r]>>}
                 ELSE UNCHANGED <<mailed, decided>>
      /\ UNCHANGED <<accounts, op, role, doc, number, crashes>>

(* The user is deleted, whatever became of the registration since.         *)
Delete(r) ==
  LET u == op[r].id
  IN  /\ pc[r] = "delete"
      /\ users' = [users EXCEPT ![u] = NoUser]
      /\ mailed' = mailed \cup {<<"rejection", u>>}
      /\ decided' = decided \cup {<<role[r], u, doc[r]>>}
      /\ Goto(r, "answer")
      /\ UNCHANGED <<accounts, op, role, doc, number, crashes>>

-----------------------------------------------------------------------------
(* updateUserRole, submitKYC, updateProfile and updateProfileImage:         *)
(* findByIdAndUpdate.                                                      *)

Target(o) == IF o.kind = "updateUserRole" THEN o.id ELSE o.by

Changed(o, d) ==
  CASE o.kind = "updateUserRole" -> [d EXCEPT !.role = o.role]
    [] o.kind = "submitKYC" -> [d EXCEPT !.kycDocumentKey = o.key, !.kycStatus = "PENDING"]
    [] o.kind = "updateProfileImage" -> [d EXCEPT !.profileImageKey = o.key]
    [] o.kind = "updateProfile" -> [d EXCEPT !.email = o.email, !.mobile = o.mobile]

Update(r) ==
  LET o == op[r]
      u == Target(o)
  IN  /\ pc[r] = "update"
      /\ IF users[u] = NoUser THEN End(r, "refused") /\ UNCHANGED users
         ELSE IF o.kind = "updateProfile" /\ Taken(o.email, o.mobile, User \ {u})
         THEN End(r, "error") /\ UNCHANGED users
         ELSE users' = [users EXCEPT ![u] = Changed(o, @)] /\ Goto(r, "answer")
      /\ UNCHANGED <<accounts, mailed, op, role, doc, number, crashes, decided>>

-----------------------------------------------------------------------------
(* createAccount: look for an account of the type, draw numbers until one  *)
(* is free, create. Only the number is unique in the database.             *)

FindAccount(r) ==
  /\ pc[r] = "find" /\ op[r].kind = "createAccount"
  /\ IF \E a \in accounts : a.user = op[r].by /\ a.accountType = op[r].accountType
     THEN End(r, "refused") ELSE Goto(r, "number")
  /\ UNCHANGED <<stores, op, role, doc, number, crashes, decided>>

InUse(n) == \E a \in accounts : a.accountNumber = n

(* Mutant: the loop is left when a number is in use, not when it is free.  *)
generateAccountNumberInverted(r) ==
  /\ pc[r] = "number"
  /\ \E n \in Number : InUse(n) /\ number' = [number EXCEPT ![r] = n]
  /\ Goto(r, "create")
  /\ UNCHANGED <<stores, op, role, doc, crashes, decided>>

(* Each number that is drawn and found in use is a draw again.             *)
generateAccountNumber(r) ==
  /\ pc[r] = "number"
  /\ \E n \in Number : ~InUse(n) /\ number' = [number EXCEPT ![r] = n]
  /\ Goto(r, "create")
  /\ UNCHANGED <<stores, op, role, doc, crashes, decided>>

CreateAccount(r) ==
  /\ pc[r] = "create" /\ op[r].kind = "createAccount"
  /\ IF InUse(number[r]) THEN End(r, "error") /\ UNCHANGED accounts
     ELSE /\ accounts' = accounts \cup {[user |-> op[r].by, accountType |-> op[r].accountType,
                                          accountNumber |-> number[r]]}
          /\ Goto(r, "answer")
  /\ UNCHANGED <<users, mailed, op, role, doc, number, crashes, decided>>

-----------------------------------------------------------------------------
Answer(r) ==
  /\ pc[r] = "answer" /\ End(r, "ok")
  /\ UNCHANGED <<stores, op, role, doc, number, crashes, decided>>

(* A call of the database fails: next(error).                              *)
Throw(r) ==
  /\ pc[r] \in Running \ {"mail", "answer"} /\ End(r, "error")
  /\ UNCHANGED <<stores, op, role, doc, number, crashes, decided>>

Crash ==
  /\ crashes < MaxCrashes /\ crashes' = crashes + 1
  /\ pc' = [r \in Request |-> IF pc[r] \in Running THEN "lost" ELSE pc[r]]
  /\ UNCHANGED <<stores, op, role, doc, number, answer, decided>>

Handle(r) ==
  \/ Authenticate(r) \/ FindUser(r) \/ CreateUser(r) \/ EnqueueWelcome(r)
  \/ Load(r) \/ Save(r) \/ Delete(r) \/ Update(r)
  \/ FindAccount(r) \/ generateAccountNumber(r) \/ CreateAccount(r) \/ Answer(r)

Next == (\E r \in Request : Receive(r) \/ Handle(r) \/ Throw(r)) \/ Crash

Spec == Init /\ [][Next]_vars

(* Node resumes a handler whose call has returned.                         *)
Fairness == \A r \in Request : WF_vars(Handle(r))

FairSpec == Spec /\ Fairness

-----------------------------------------------------------------------------
TypeOK ==
  /\ users \in [User -> UserDoc \cup {NoUser}]
  /\ accounts \in SUBSET Account
  /\ mailed \in SUBSET ({"welcome", "approval", "rejection"} \X User)
  /\ op \in [Request -> Operations \cup {NoOp}]
  /\ pc \in [Request -> Running \cup {"new", "done", "lost"}]
  /\ role \in [Request -> Role]
  /\ doc \in [Request -> UserDoc \cup {NoUser}]
  /\ number \in [Request -> Number]
  /\ answer \in [Request -> {"none", "ok", "refused", "error"}]
  /\ crashes \in 0 .. MaxCrashes
  /\ decided \in SUBSET (Role \X User \X UserDoc)

(* No two users share an address or a mobile number and no two accounts a  *)
(* number, although register, updateProfile and createAccount look first   *)
(* and write later.                                                        *)
NothingIsShared ==
  /\ \A u, v \in User : users[u] # NoUser /\ users[v] # NoUser /\ u # v =>
       users[u].email # users[v].email /\ users[u].mobile # users[v].mobile
  /\ \A a, b \in accounts : a.accountNumber = b.accountNumber => a = b

(* A step of a request of one of these kinds is what happens.              *)
Asked(kinds) == \E r \in Request : pc[r] # "new" /\ pc'[r] # pc[r] /\ op[r].kind \in kinds

OnlyAsked(u) ==
  LET old == users[u]
      new == users'[u]
  IN  /\ old = NoUser /\ new # NoUser =>
           u \in Request /\ pc[u] = "create" /\ op[u].kind = "register"
      /\ old # NoUser /\ new # NoUser =>
           /\ new.role # old.role => Asked({"updateUserRole"})
           /\ new.email # old.email \/ new.mobile # old.mobile => Asked({"updateProfile"})
           /\ new.approvalStatus # old.approvalStatus => Asked({"approveRegistration"})
           /\ new.kycDocumentKey # old.kycDocumentKey => Asked({"submitKYC"})
           /\ new.profileImageKey # old.profileImageKey => Asked({"updateProfileImage"})
           /\ new.kycStatus # old.kycStatus => Asked({"submitKYC", "updateKycStatus"})

(* A request about one field of a user leaves the others as they are now,  *)
(* not as it loaded them, and nobody who was rejected comes back.          *)
NothingIsUndone == [][\A u \in User : OnlyAsked(u)]_vars

(* Who is approved or deleted was, when the decision was taken, a pending  *)
(* user of a role that the decider's role decides about; nobody approves   *)
(* an ADMIN.                                                               *)
DecisionsAreFounded ==
  /\ \A e \in decided : /\ e[3].approvalStatus = "PENDING"
                        /\ \/ e[1] = "MANAGER" /\ e[3].role = "CUSTOMER"
                           \/ e[1] = "ADMIN" /\ e[3].role \in {"CASHIER", "MANAGER"}
  /\ \A u \in User :
       /\ users[u] # NoUser /\ users[u].approvalStatus = "APPROVED" =>
            (u \in First /\ Start[u].approvalStatus = "APPROVED")
            \/ \E e \in decided : e[2] = u
       /\ u \in First /\ users[u] = NoUser => \E e \in decided : e[2] = u

(* What an answer of success to r says.                                    *)
Truthful(r) ==
  LET o == op[r]
  IN  CASE o.kind = "register" -> /\ <<"welcome", r>> \in mailed
                                  /\ users[r] = NoUser => <<"rejection", r>> \in mailed
        [] o.kind = "createAccount" ->
             \E a \in accounts : a.user = o.by /\ a.accountType = o.accountType
        [] o.kind = "approveRegistration" ->
             /\ \E e \in decided : e[2] = o.id
             /\ IF o.action = "APPROVE" THEN <<"approval", o.id>> \in mailed
                ELSE users[o.id] = NoUser /\ <<"rejection", o.id>> \in mailed
        [] OTHER -> TRUE

(* An answer of success is true: the account or the user was created, the  *)
(* approval or the rejection is among the decisions and its mail started.  *)
AnswersStayTrue == \A r \in Request : answer[r] = "ok" => Truthful(r)

(* Every request is answered or dies with the process: the search for a    *)
(* free account number ends too.                                           *)
RequestsEnd == []<>(\A r \in Request : pc[r] \in {"new", "done", "lost"})

-----------------------------------------------------------------------------
(***************************************************************************)
(* Why it works: where a request is says what it has checked, and a user   *)
(* who is deleted cannot be created again.                                 *)
(***************************************************************************)

(* Between the authentication and the end of a handler of managers its     *)
(* session is a manager's or an administrator's, and what it decides about *)
(* was pending and his to decide when it was loaded.                       *)
Founded(r) ==
  /\ pc[r] # "new" => op[r] # NoOp
  /\ pc[r] = "auth" => op[r].kind # "register"
  /\ pc[r] \in {"load", "save", "delete"} =>
       op[r].kind \in {"approveRegistration", "updateKycStatus"}
       /\ role[r] \in {"MANAGER", "ADMIN"}
  /\ pc[r] = "delete" => op[r].kind = "approveRegistration" /\ op[r].action = "REJECT"
  /\ pc[r] = "save" /\ op[r].kind = "approveRegistration" => op[r].action = "APPROVE"
  /\ pc[r] \in {"save", "delete"} =>
       doc[r] # NoUser /\ (op[r].kind = "approveRegistration" => MayDecide(r, doc[r]))
  /\ pc[r] = "update" =>
       op[r].kind \in {"updateUserRole", "submitKYC", "updateProfile", "updateProfileImage"}
  /\ op[r] # NoOp /\ op[r].kind = "updateUserRole" /\ pc[r] = "update" =>
       role[r] \in {"MANAGER", "ADMIN"}
  /\ pc[r] \in {"find", "create"} => op[r].kind \in {"register", "createAccount"}
  /\ pc[r] = "mail" => op[r].kind = "register"
  /\ pc[r] = "number" => op[r].kind = "createAccount"

(* The request that registers u has done so, or will not do so any more.   *)
Settled(u) == u \in Request => pc[u] \in {"mail", "answer", "done", "lost"}

(* What r will answer is true already.                                     *)
Sound(r) ==
  /\ answer[r] # "none" => pc[r] = "done"
  /\ pc[r] = "answer" => Truthful(r)
  /\ pc[r] = "mail" => (users[r] = NoUser => <<"rejection", r>> \in mailed)
  /\ op[r] # NoOp /\ op[r].kind = "approveRegistration"
       /\ (pc[r] \in {"save", "delete", "answer"} \/ answer[r] = "ok") => Settled(op[r].id)

Inv ==
  /\ TypeOK
  /\ NothingIsShared
  /\ DecisionsAreFounded
  /\ AnswersStayTrue
  /\ \A u \in User : users[u] # NoUser => Settled(u)
  /\ \A r \in Request : Founded(r) /\ Sound(r)
=============================================================================
