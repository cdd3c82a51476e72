--------------------------- MODULE OnboardingProofs ---------------------------
(***************************************************************************)
(* Proofs about Onboarding, for every set of users, requests, addresses,   *)
(* numbers and files, and every number of crashes.                         *)
(***************************************************************************)
EXTENDS Onboarding, TLAPS

(* What a body holds, by its kind.                                         *)
LEMMA Bodies ==
  ASSUME NEW o \in Operation
  PROVE  /\ o.kind = "register" => o.email \in Email /\ o.mobile \in Mobile /\ o.role \in Role
         /\ o.kind # "register" => o.by \in User
         /\ o.kind \in Managing => o.id \in User
         /\ o.kind = "approveRegistration" => o.action \in {"APPROVE", "REJECT"}
         /\ o.kind = "updateUserRole" => o.role \in Role
         /\ o.kind = "updateKycStatus" => o.status \in {"VERIFIED", "REJECTED"}
         /\ o.kind \in {"submitKYC", "updateProfileImage"} => o.key \in Key
         /\ o.kind = "updateProfile" => o.email \in Email /\ o.mobile \in Mobile
         /\ o.kind = "createAccount" => o.accountType \in AccountType
         /\ o.kind \in {"register", "approveRegistration", "updateUserRole", "updateKycStatus",
                        "submitKYC", "updateProfileImage", "updateProfile", "createAccount"}
<1>1. CASE o \in RegisterOp
  BY <1>1 DEF RegisterOp, Managing
<1>2. CASE o \in ApproveOp
  BY <1>2 DEF ApproveOp, Managing
<1>3. CASE o \in RoleOp
  BY <1>3 DEF RoleOp, Managing
<1>4. CASE o \in KycOp
  BY <1>4 DEF KycOp, Managing
<1>5. CASE o \in SubmitOp
  BY <1>5 DEF SubmitOp, Managing
<1>6. CASE o \in ImageOp
  BY <1>6 DEF ImageOp, Managing
<1>7. CASE o \in ProfileOp
  BY <1>7 DEF ProfileOp, Managing
<1>8. CASE o \in AccountOp
  BY <1>8 DEF AccountOp, Managing
<1>9. QED
  BY <1>1, <1>2, <1>3, <1>4, <1>5, <1>6, <1>7, <1>8 DEF Operation

LEMMA BodiesHere ==
  ASSUME TypeOK, NEW r \in Request, op[r] # NoOp PROVE op[r] \in Operation
BY OperationsAssumption DEF TypeOK

LEMMA AfterAuthPlaces ==
  ASSUME NEW o
  PROVE  /\ o.kind \in {"approveRegistration", "updateKycStatus"} => AfterAuth(o) = "load"
         /\ o.kind = "createAccount" => AfterAuth(o) = "find"
         /\ o.kind \notin {"approveRegistration", "updateKycStatus", "createAccount"} =>
              AfterAuth(o) = "update"
BY Zenon DEF AfterAuth

(* What success means, by the kind of the request.                         *)
Registered(r) ==
  <<"welcome", r>> \in mailed /\ (users[r] = NoUser => <<"rejection", r>> \in mailed)
Opened(r) == \E a \in accounts : a.user = op[r].by /\ a.accountType = op[r].accountType
Decided(r) ==
  /\ \E e \in decided : e[2] = op[r].id
  /\ IF op[r].action = "APPROVE" THEN <<"approval", op[r].id>> \in mailed
     ELSE users[op[r].id] = NoUser /\ <<"rejection", op[r].id>> \in mailed

LEMMA TruthByKind ==
  ASSUME NEW r
  PROVE  /\ op[r].kind = "register" => Truthful(r) = Registered(r)
         /\ op[r].kind = "createAccount" => Truthful(r) = Opened(r)
         /\ op[r].kind = "approveRegistration" => Truthful(r) = Decided(r)
         /\ op[r].kind \notin {"register", "createAccount", "approveRegistration"} => Truthful(r)
BY Zenon DEF Truthful, Registered, Opened, Decided

-----------------------------------------------------------------------------
(* A step of r as the other requests and the stores see it.                *)
Past == {"mail", "answer", "done", "lost"}
Alone(r) ==
  /\ \A q \in Request \ {r} :
       /\ op'[q] = op[q] /\ pc'[q] = pc[q] /\ role'[q] = role[q]
       /\ doc'[q] = doc[q] /\ answer'[q] = answer[q]
  /\ pc[r] \in Past => pc'[r] \in Past

(* Mails, decisions and accounts only come; a user who comes back is being *)
(* registered, and who goes was rejected.                                  *)
Grows ==
  /\ mailed \subseteq mailed' /\ decided \subseteq decided' /\ accounts \subseteq accounts'
  /\ \A u \in User : users[u] = NoUser /\ users'[u] # NoUser =>
       u \in Request /\ pc[u] = "create" /\ pc'[u] = "mail"
  /\ \A u \in User : users[u] # NoUser /\ users'[u] = NoUser => <<"rejection", u>> \in mailed'

LEMMA SettledStays ==
  ASSUME NEW r \in Request, Alone(r), NEW u, Settled(u) PROVE Settled(u)'
BY DEF Alone, Settled, Past

LEMMA RequestsAreUsers == \A r \in Request : r \in User
BY DEF User

(* What is true of q stays true while its own state stays.                 *)
LEMMA TruthStays ==
  ASSUME TypeOK, NEW q \in Request, Grows, op'[q] = op[q], op[q] # NoOp, pc[q] # "create",
         op[q].kind = "approveRegistration" => Settled(op[q].id), Truthful(q)
  PROVE  Truthful(q)'
<1>1. op[q] \in Operation
  BY BodiesHere
<1>2. CASE op[q].kind = "register"
  <2>1. Registered(q)
    BY <1>2, TruthByKind
  <2>2. Registered(q)'
    BY <2>1, RequestsAreUsers DEF Registered, Grows
  <2>3. QED
    BY <1>2, <2>2, Zenon DEF Truthful, Registered
<1>3. CASE op[q].kind = "createAccount"
  <2>1. Opened(q)
    BY <1>3, TruthByKind
  <2>2. Opened(q)'
    BY <2>1 DEF Opened, Grows
  <2>3. QED
    BY <1>3, <2>2, Zenon DEF Truthful, Opened
<1>4. CASE op[q].kind = "approveRegistration"
  <2>1. Decided(q) /\ op[q].id \in User /\ Settled(op[q].id)
    BY <1>1, <1>4, TruthByKind, Bodies DEF Managing
  <2>2. Decided(q)'
    BY <2>1 DEF Decided, Grows, Settled
  <2>3. QED
    BY <1>4, <2>2, Zenon DEF Truthful, Decided
<1>5. CASE op[q].kind \notin {"register", "createAccount", "approveRegistration"}
  BY <1>5, Zenon DEF Truthful
<1>6. QED
  BY <1>2, <1>3, <1>4, <1>5

(* The invariant of one request.                                           *)
Local(q) == Founded(q) /\ Sound(q) /\ (answer[q] = "ok" => Truthful(q))

LEMMA Parts ==
  Inv <=> /\ TypeOK /\ NothingIsShared /\ DecisionsAreFounded
          /\ \A u \in User : users[u] # NoUser => Settled(u)
          /\ \A q \in Request : Local(q)
BY DEF Inv, Local, AnswersStayTrue

LEMMA Frame ==
  ASSUME TypeOK, NEW r \in Request, NEW q \in Request, q # r, Alone(r), Grows, Local(q)
  PROVE  Local(q)'
<1>1. /\ op'[q] = op[q] /\ pc'[q] = pc[q] /\ role'[q] = role[q]
      /\ doc'[q] = doc[q] /\ answer'[q] = answer[q]
  BY DEF Alone
<1>2. Founded(q)'
  BY <1>1 DEF Local, Founded, MayDecide
<1>3. CASE pc[q] = "answer" \/ answer[q] = "ok"
  <2>1. op[q] # NoOp /\ pc[q] # "create" /\ Truthful(q)
    BY <1>3 DEF Local, Founded, Sound
  <2>2. op[q].kind = "approveRegistration" => Settled(op[q].id)
    BY <1>3, <2>1 DEF Local, Sound
  <2>3. Truthful(q)'
    BY <1>1, <2>1, <2>2, TruthStays
  <2>4. PICK o : o = op[q]
    OBVIOUS
  <2>5. op'[q] = o
    BY <1>1, <2>4
  <2>6. o.kind = "approveRegistration" => Settled(o.id)'
    BY <2>2, <2>4, SettledStays
  <2>7. Sound(q)'
    BY <1>1, <1>3, <2>3, <2>5, <2>6 DEF Local, Sound
  <2>8. QED
    BY <1>2, <2>3, <2>7 DEF Local
<1>4. CASE pc[q] # "answer" /\ answer[q] # "ok"
  <2>1. PICK o : o = op[q]
    OBVIOUS
  <2>2. o # NoOp /\ o.kind = "approveRegistration" /\ pc[q] \in {"save", "delete", "answer"} =>
          Settled(o.id)'
    BY <2>1, SettledStays DEF Local, Sound
  <2>3. pc[q] = "mail" => (users'[q] = NoUser => <<"rejection", q>> \in mailed')
    BY RequestsAreUsers DEF Local, Sound, Grows
  <2>4. Sound(q)'
    BY <1>1, <1>4, <2>1, <2>2, <2>3 DEF Local, Sound
  <2>5. QED
    BY <1>1, <1>2, <1>4, <2>4 DEF Local
<1>5. QED
  BY <1>3, <1>4

(* A step of r keeps the invariant.                                        *)
Good(r) ==
  /\ TypeOK' /\ Alone(r) /\ Grows /\ Local(r)'
  /\ NothingIsShared' /\ DecisionsAreFounded'

LEMMA GoodKeepsInv ==
  ASSUME Inv, NEW r \in Request, Good(r) PROVE Inv'
<1>1. TypeOK /\ (\A u \in User : users[u] # NoUser => Settled(u)) /\ \A q \in Request : Local(q)
  BY Parts
<1>2. ASSUME NEW u \in User, users'[u] # NoUser PROVE Settled(u)'
  <2>1. CASE users[u] # NoUser
    BY <1>1, <2>1, SettledStays DEF Good
  <2>2. CASE users[u] = NoUser
    BY <1>2, <2>2 DEF Good, Grows, Settled
  <2>3. QED
    BY <2>1, <2>2
<1>3. ASSUME NEW q \in Request PROVE Local(q)'
  <2>1. CASE q = r
    BY <2>1 DEF Good
  <2>2. CASE q # r
    BY <1>1, <2>2, Frame DEF Good
  <2>3. QED
    BY <2>1, <2>2
<1>4. QED
  BY <1>2, <1>3 DEF Good, Inv, Local, AnswersStayTrue

(* A step that changes nothing that is stored.                             *)
LEMMA QuietGood ==
  ASSUME Inv, NEW r \in Request, TypeOK', Alone(r), Local(r)', UNCHANGED <<stores, decided>>
  PROVE  Good(r)
<1>1. NothingIsShared' /\ DecisionsAreFounded'
  BY DEF Inv, NothingIsShared, DecisionsAreFounded, stores
<1>2. Grows
  BY DEF Grows, stores
<1>3. QED
  BY <1>1, <1>2 DEF Good

(* A request that ends without success.                                    *)
LEMMA EndGood ==
  ASSUME Inv, NEW r \in Request, pc[r] \in Running, NEW ans \in {"refused", "error"}, End(r, ans),
         op'[r] = op[r], TypeOK', \A q \in Request \ {r} : role'[q] = role[q] /\ doc'[q] = doc[q],
         op' = op, UNCHANGED <<stores, decided>>
  PROVE  Good(r)
<1>1. TypeOK /\ Local(r)
  BY Parts
<1>2. pc'[r] = "done" /\ answer'[r] = ans /\ op[r] # NoOp
  BY <1>1 DEF End, TypeOK, Local, Founded, Running
<1>3. Alone(r)
  BY <1>1 DEF Alone, End, TypeOK, Past
<1>4. Local(r)'
  BY <1>2 DEF Local, Founded, Sound
<1>5. QED
  BY <1>3, <1>4, QuietGood

(* What holds of every running request.                                    *)
LEMMA RunningFacts ==
  ASSUME Inv, NEW r \in Request, pc[r] # "new"
  PROVE  /\ TypeOK /\ Local(r) /\ op[r] \in Operation /\ op[r] # NoOp
         /\ pc[r] # "done" => answer[r] = "none"
BY Parts, BodiesHere DEF Local, Founded, Sound, TypeOK

LEMMA ReceiveGood ==
  ASSUME Inv, NEW r \in Request, Receive(r) PROVE Good(r)
<1>1. TypeOK /\ Local(r)
  BY Parts
<1>2. PICK o \in Operations :
        /\ op' = [op EXCEPT ![r] = o]
        /\ Goto(r, IF o.kind = "register" THEN "find" ELSE "auth")
  BY DEF Receive
<1>3. o \in Operation /\ o # NoOp
  BY OperationsAssumption, NamesAssumption
<1>4. PICK next \in {"find", "auth"} :
        next = (IF o.kind = "register" THEN "find" ELSE "auth")
  OBVIOUS
<1>5. /\ pc[r] = "new" /\ UNCHANGED <<stores, role, doc, number, crashes, decided, answer>>
      /\ pc' = [pc EXCEPT ![r] = next] /\ answer[r] = "none"
  BY <1>1, <1>2, <1>4 DEF Receive, Goto, Local, Sound, TypeOK
<1>6. op'[r] = o /\ pc'[r] = next /\ answer'[r] = "none"
  BY <1>1, <1>2, <1>5 DEF TypeOK
<1>7. TypeOK'
  BY <1>1, <1>2, <1>5 DEF TypeOK, Running, stores
<1>8. Alone(r)
  BY <1>1, <1>2, <1>5 DEF Alone, TypeOK, Past
<1>9. Local(r)'
  BY <1>3, <1>4, <1>6 DEF Local, Founded, Sound
<1>10. QED
  BY <1>5, <1>7, <1>8, <1>9, QuietGood

LEMMA AuthenticateGood ==
  ASSUME Inv, NEW r \in Request, Authenticate(r) PROVE Good(r)
<1> DEFINE u == users[op[r].by]
<1>1. /\ TypeOK /\ Local(r) /\ op[r] \in Operation /\ op[r] # NoOp /\ pc[r] = "auth"
      /\ answer[r] = "none" /\ op[r].by \in User /\ op[r].kind # "register"
      /\ UNCHANGED <<stores, op, doc, number, crashes, decided>>
  BY RunningFacts, Bodies DEF Authenticate, Local, Founded
<1>2. u = NoUser \/ u \in UserDoc
  BY <1>1 DEF TypeOK
<1>3. role' \in [Request -> Role] /\ \A q \in Request \ {r} : role'[q] = role[q]
  BY <1>1, <1>2 DEF Authenticate, TypeOK, UserDoc
<1>4. CASE End(r, "refused")
  <2>1. TypeOK'
    BY <1>1, <1>3, <1>4 DEF End, TypeOK, stores
  <2>2. QED
    BY <1>1, <1>3, <1>4, <2>1, EndGood DEF Running
<1>5. CASE ~End(r, "refused")
  <2>1. /\ u # NoUser /\ role' = [role EXCEPT ![r] = u.role] /\ ~Refused(op[r], u.role)
        /\ Goto(r, AfterAuth(op[r]))
    BY <1>5 DEF Authenticate
  <2>2. PICK next \in {"load", "find", "update"} : next = AfterAuth(op[r])
    BY AfterAuthPlaces
  <2>3. /\ next = "load" => op[r].kind \in {"approveRegistration", "updateKycStatus"}
        /\ next = "find" => op[r].kind = "createAccount"
        /\ next = "update" =>
             op[r].kind \in {"updateUserRole", "submitKYC", "updateProfile", "updateProfileImage"}
    BY <1>1, <2>2, AfterAuthPlaces, Bodies
  <2>4. pc' = [pc EXCEPT ![r] = next] /\ answer' = answer
    BY <2>1, <2>2 DEF Goto
  <2>5. op[r].kind \in Managing => u.role \in {"MANAGER", "ADMIN"}
    BY <2>1 DEF Refused
  <2>6. /\ op'[r] = op[r] /\ pc'[r] = next /\ answer'[r] = "none" /\ role'[r] = u.role
    BY <1>1, <2>1, <2>4 DEF TypeOK
  <2>7. TypeOK'
    BY <1>1, <1>3, <2>4 DEF TypeOK, Running, stores
  <2>8. Alone(r)
    BY <1>1, <1>3, <2>4 DEF Alone, TypeOK, Past
  <2>9. Local(r)'
    BY <1>1, <2>3, <2>5, <2>6 DEF Local, Founded, Sound, Managing
  <2>10. QED
    BY <1>1, <2>7, <2>8, <2>9, QuietGood
<1>6. QED
  BY <1>4, <1>5

(* FindUser and FindAccount.                                               *)
LEMMA FindGood ==
  ASSUME Inv, NEW r \in Request, FindUser(r) \/ FindAccount(r) PROVE Good(r)
<1>1. /\ TypeOK /\ Local(r) /\ op[r] \in Operation /\ op[r] # NoOp /\ pc[r] = "find"
      /\ answer[r] = "none"
      /\ UNCHANGED <<stores, op, role, doc, number, crashes, decided>>
  BY RunningFacts DEF FindUser, FindAccount
<1>2. CASE End(r, "refused")
  <2>1. TypeOK'
    BY <1>1, <1>2 DEF End, TypeOK, stores
  <2>2. QED
    BY <1>1, <1>2, <2>1, EndGood DEF Running
<1>3. CASE ~End(r, "refused")
  <2>1. PICK next \in {"create", "number"} :
          /\ Goto(r, next)
          /\ op[r].kind = IF next = "create" THEN "register" ELSE "createAccount"
    BY <1>3 DEF FindUser, FindAccount
  <2>2. pc'[r] = next /\ op'[r] = op[r] /\ answer'[r] = "none"
    BY <1>1, <2>1 DEF Goto, TypeOK
  <2>3. TypeOK'
    BY <1>1, <2>1 DEF Goto, TypeOK, Running, stores
  <2>4. Alone(r)
    BY <1>1, <2>1 DEF Goto, Alone, TypeOK, Past
  <2>5. Local(r)'
    BY <1>1, <2>1, <2>2 DEF Local, Founded, Sound
  <2>6. QED
    BY <1>1, <2>3, <2>4, <2>5, QuietGood
<1>4. QED
  BY <1>2, <1>3

LEMMA LoadGood ==
  ASSUME Inv, NEW r \in Request, Load(r) PROVE Good(r)
<1> DEFINE d == users[op[r].id]
<1>1. /\ TypeOK /\ Local(r) /\ op[r] \in Operation /\ op[r] # NoOp /\ pc[r] = "load"
      /\ answer[r] = "none" /\ op[r].kind \in {"approveRegistration", "updateKycStatus"}
      /\ role[r] \in {"MANAGER", "ADMIN"} /\ op[r].id \in User
      /\ op[r].kind = "approveRegistration" => op[r].action \in {"APPROVE", "REJECT"}
      /\ UNCHANGED <<stores, op, role, number, crashes, decided>>
  BY RunningFacts, Bodies DEF Load, Local, Founded, Managing
<1>2. d \in UserDoc \cup {NoUser} /\ doc' = [doc EXCEPT ![r] = d]
  BY <1>1 DEF Load, TypeOK
<1>3. CASE End(r, "refused")
  <2>1. TypeOK'
    BY <1>1, <1>2, <1>3 DEF End, TypeOK, stores
  <2>2. \A q \in Request \ {r} : doc'[q] = doc[q]
    BY <1>1, <1>2 DEF TypeOK
  <2>3. QED
    BY <1>1, <1>3, <2>1, <2>2, EndGood DEF Running
<1>4. CASE ~End(r, "refused")
  <2>1. PICK next \in {"save", "delete"} :
          /\ Goto(r, next) /\ d # NoUser
          /\ op[r].kind = "approveRegistration" => MayDecide(r, d)
          /\ next = "delete" => op[r].kind = "approveRegistration" /\ op[r].action = "REJECT"
          /\ next = "save" /\ op[r].kind = "approveRegistration" => op[r].action # "REJECT"
    BY <1>4 DEF Load
  <2>2. /\ pc'[r] = next /\ op'[r] = op[r] /\ answer'[r] = "none" /\ doc'[r] = d
        /\ role'[r] = role[r]
    BY <1>1, <1>2, <2>1 DEF Goto, TypeOK
  <2>3. TypeOK'
    BY <1>1, <1>2, <2>1 DEF Goto, TypeOK, Running, stores
  <2>4. Alone(r)
    BY <1>1, <1>2, <2>1 DEF Goto, Alone, TypeOK, Past
  <2>5. op[r].kind = "approveRegistration" => MayDecide(r, doc[r])'
    BY <2>1, <2>2 DEF MayDecide
  <2>6. Founded(r)'
    BY <1>1, <2>1, <2>2, <2>5 DEF Founded
  <2>7. PICK o : o = op[r]
    OBVIOUS
  <2>8. Settled(o.id)'
    <3>1. Settled(o.id)
      BY <1>1, <2>1, <2>7, Parts
    <3>2. QED
      BY <2>4, <3>1, SettledStays
  <2>9. Sound(r)' /\ answer'[r] # "ok"
    BY <2>2, <2>7, <2>8 DEF Sound
  <2>10. QED
    BY <1>1, <2>3, <2>4, <2>6, <2>9, QuietGood DEF Local
<1>5. QED
  BY <1>3, <1>4

(* generateAccountNumber, and the errors that reach errorHandler.          *)
LEMMA NumberGood ==
  ASSUME Inv, NEW r \in Request, generateAccountNumber(r) PROVE Good(r)
<1>1. /\ TypeOK /\ Local(r) /\ op[r] \in Operation /\ op[r] # NoOp /\ pc[r] = "number"
      /\ answer[r] = "none" /\ op[r].kind = "createAccount" /\ Goto(r, "create")
      /\ UNCHANGED <<stores, op, role, doc, crashes, decided>>
  BY RunningFacts DEF generateAccountNumber, Local, Founded
<1>2. number' \in [Request -> Number]
  BY <1>1 DEF generateAccountNumber, TypeOK
<1>3. pc'[r] = "create" /\ op'[r] = op[r] /\ answer'[r] = "none"
  BY <1>1 DEF Goto, TypeOK
<1>4. TypeOK'
  BY <1>1, <1>2 DEF Goto, TypeOK, Running, stores
<1>5. Alone(r)
  BY <1>1 DEF Goto, Alone, TypeOK, Past
<1>6. Local(r)'
  BY <1>1, <1>3 DEF Local, Founded, Sound
<1>7. QED
  BY <1>1, <1>4, <1>5, <1>6, QuietGood

LEMMA ThrowGood ==
  ASSUME Inv, NEW r \in Request, Throw(r) PROVE Good(r)
<1>1. TypeOK /\ pc[r] \in Running /\ End(r, "error")
      /\ UNCHANGED <<stores, op, role, doc, number, crashes, decided>>
  BY Parts DEF Throw
<1>2. TypeOK'
  BY <1>1 DEF End, TypeOK, stores
<1>3. QED
  BY <1>1, <1>2, EndGood

LEMMA AnswerGood ==
  ASSUME Inv, NEW r \in Request, Answer(r) PROVE Good(r)
<1>1. /\ TypeOK /\ Local(r) /\ op[r] \in Operation /\ op[r] # NoOp /\ pc[r] = "answer"
      /\ End(r, "ok") /\ UNCHANGED <<stores, op, role, doc, number, crashes, decided>>
  BY RunningFacts DEF Answer
<1>2. pc'[r] = "done" /\ answer'[r] = "ok" /\ op'[r] = op[r]
  BY <1>1 DEF End, TypeOK
<1>3. TypeOK'
  BY <1>1 DEF End, TypeOK, stores
<1>4. Alone(r)
  BY <1>1 DEF End, Alone, TypeOK, Past
<1>5. Founded(r)'
  BY <1>1, <1>2 DEF Founded
<1>6. Truthful(r)'
  <2>1. Truthful(r) /\ (op[r].kind = "approveRegistration" => Settled(op[r].id))
    BY <1>1 DEF Local, Sound
  <2>2. Grows
    BY <1>1 DEF Grows, stores
  <2>3. QED
    BY <1>1, <1>2, <2>1, <2>2, TruthStays
<1>7. Sound(r)'
  <2>1. PICK o : o = op[r]
    OBVIOUS
  <2>2. o.kind = "approveRegistration" => Settled(o.id)'
    BY <1>1, <1>4, <2>1, SettledStays DEF Local, Sound
  <2>3. QED
    BY <1>2, <2>1, <2>2 DEF Sound
<1>8. QED
  BY <1>1, <1>3, <1>4, <1>5, <1>6, <1>7, QuietGood DEF Local

-----------------------------------------------------------------------------
(* The steps that write.                                                   *)
LEMMA CreateUserGood ==
  ASSUME Inv, NEW r \in Request, CreateUser(r) PROVE Good(r)
<1>1. /\ TypeOK /\ Local(r) /\ op[r] \in Operation /\ op[r] # NoOp /\ pc[r] = "create"
      /\ answer[r] = "none" /\ op[r].kind = "register"
      /\ UNCHANGED <<accounts, mailed, op, role, doc, number, crashes, decided>>
  BY RunningFacts DEF CreateUser
<1>2. CASE End(r, "error") /\ UNCHANGED users
  <2>1. TypeOK'
    BY <1>1, <1>2 DEF End, TypeOK
  <2>2. QED
    BY <1>1, <1>2, <2>1, EndGood DEF Running, stores
<1>3. CASE ~(End(r, "error") /\ UNCHANGED users)
  <2> DEFINE new == NewUser(op[r])
  <2>1. /\ ~Taken(op[r].email, op[r].mobile, User)
        /\ users' = [users EXCEPT ![r] = new] /\ Goto(r, "mail")
    BY <1>3 DEF CreateUser
  <2>2. /\ new \in UserDoc /\ new.email = op[r].email /\ new.mobile = op[r].mobile
        /\ new.approvalStatus = "PENDING"
    <3>1. op[r].email \in Email /\ op[r].mobile \in Mobile /\ op[r].role \in Role
      BY <1>1, Bodies
    <3>2. "NOT_STARTED" \in KycStatus
      BY DEF KycStatus
    <3>3. QED
      BY <3>1, <3>2 DEF NewUser, UserDoc
  <2>3. r \in User /\ r \notin First /\ new # NoUser
    BY <2>2, NamesAssumption DEF User
  <2>4. users[r] = NoUser
    BY <1>1, <2>3, Parts DEF Settled
  <2>5. users'[r] = new /\ \A u \in User \ {r} : users'[u] = users[u]
    BY <1>1, <2>1, <2>3 DEF TypeOK
  <2>6. TypeOK'
    BY <1>1, <2>1, <2>2, <2>3 DEF Goto, TypeOK, Running
  <2>7. Alone(r)
    BY <1>1, <2>1 DEF Goto, Alone, TypeOK, Past
  <2>8. pc'[r] = "mail" /\ op'[r] = op[r] /\ answer'[r] = "none"
    BY <1>1, <2>1 DEF Goto, TypeOK
  <2>9. Grows
    BY <1>1, <2>3, <2>5, <2>8 DEF Grows
  <2>10. Local(r)'
    BY <1>1, <2>3, <2>5, <2>8 DEF Local, Founded, Sound
  <2>11. NothingIsShared'
    <3>1. NothingIsShared
      BY Parts
    <3>2. \A u \in User : users[u] # NoUser =>
            users[u].email # new.email /\ users[u].mobile # new.mobile
      BY <2>1, <2>2 DEF Taken
    <3>3. QED
      BY <1>1, <2>5, <3>1, <3>2 DEF NothingIsShared
  <2>12. DecisionsAreFounded'
    <3>1. DecisionsAreFounded
      BY Parts
    <3>2. QED
      BY <1>1, <2>2, <2>3, <2>5, <3>1 DEF DecisionsAreFounded
  <2>13. QED
    BY <2>6, <2>7, <2>9, <2>10, <2>11, <2>12 DEF Good
<1>4. QED
  BY <1>2, <1>3

LEMMA EnqueueWelcomeGood ==
  ASSUME Inv, NEW r \in Request, EnqueueWelcome(r) PROVE Good(r)
<1>1. /\ TypeOK /\ Local(r) /\ op[r] \in Operation /\ op[r] # NoOp /\ pc[r] = "mail"
      /\ answer[r] = "none" /\ op[r].kind = "register"
      /\ UNCHANGED <<users, accounts, op, role, doc, number, crashes, decided>>
      /\ mailed' = mailed \cup {<<"welcome", r>>} /\ Goto(r, "answer")
  BY RunningFacts DEF EnqueueWelcome, Local, Founded
<1>2. pc'[r] = "answer" /\ op'[r] = op[r] /\ answer'[r] = "none"
  BY <1>1 DEF Goto, TypeOK
<1>3. TypeOK'
  BY <1>1, RequestsAreUsers DEF Goto, TypeOK, Running
<1>4. Alone(r)
  BY <1>1 DEF Goto, Alone, TypeOK, Past
<1>5. Grows
  BY <1>1 DEF Grows
<1>6. Registered(r)'
  BY <1>1 DEF Local, Sound, Registered
<1>7. Truthful(r)'
  BY <1>1, <1>6, Zenon DEF Truthful, Registered
<1>8. Local(r)'
  BY <1>1, <1>2, <1>7 DEF Local, Founded, Sound
<1>9. NothingIsShared' /\ DecisionsAreFounded'
  BY <1>1, Parts DEF NothingIsShared, DecisionsAreFounded
<1>10. QED
  BY <1>3, <1>4, <1>5, <1>8, <1>9 DEF Good

LEMMA CreateAccountGood ==
  ASSUME Inv, NEW r \in Request, CreateAccount(r) PROVE Good(r)
<1>1. /\ TypeOK /\ Local(r) /\ op[r] \in Operation /\ op[r] # NoOp /\ pc[r] = "create"
      /\ answer[r] = "none" /\ op[r].kind = "createAccount"
      /\ op[r].by \in User /\ op[r].accountType \in AccountType
      /\ UNCHANGED <<users, mailed, op, role, doc, number, crashes, decided>>
  BY RunningFacts, Bodies DEF CreateAccount
<1>2. CASE End(r, "error") /\ UNCHANGED accounts
  <2>1. TypeOK'
    BY <1>1, <1>2 DEF End, TypeOK
  <2>2. QED
    BY <1>1, <1>2, <2>1, EndGood DEF Running, stores
<1>3. CASE ~(End(r, "error") /\ UNCHANGED accounts)
  <2> DEFINE new == [user |-> op[r].by, accountType |-> op[r].accountType,
                     accountNumber |-> number[r]]
  <2>1. ~InUse(number[r]) /\ accounts' = accounts \cup {new} /\ Goto(r, "answer")
    BY <1>3 DEF CreateAccount
  <2>2. new \in Account
    BY <1>1 DEF TypeOK, Account
  <2>3. pc'[r] = "answer" /\ op'[r] = op[r] /\ answer'[r] = "none"
    BY <1>1, <2>1 DEF Goto, TypeOK
  <2>4. TypeOK'
    BY <1>1, <2>1, <2>2 DEF Goto, TypeOK, Running
  <2>5. Alone(r)
    BY <1>1, <2>1 DEF Goto, Alone, TypeOK, Past
  <2>6. Grows
    BY <1>1, <2>1 DEF Grows
  <2>7. Opened(r)'
    <3>1. new \in accounts' /\ new.user = op'[r].by /\ new.accountType = op'[r].accountType
      BY <2>1, <2>3
    <3>2. PICK a \in accounts' : a.user = op'[r].by /\ a.accountType = op'[r].accountType
      BY <3>1
    <3>3. QED
      BY <3>2 DEF Opened
  <2>8. Truthful(r)'
    BY <1>1, <2>7, Zenon DEF Truthful, Opened
  <2>9. Local(r)'
    BY <1>1, <2>3, <2>8 DEF Local, Founded, Sound
  <2>10. NothingIsShared'
    BY <1>1, <2>1, Parts DEF NothingIsShared, InUse
  <2>11. DecisionsAreFounded'
    BY <1>1, Parts DEF DecisionsAreFounded
  <2>12. QED
    BY <2>4, <2>5, <2>6, <2>9, <2>10, <2>11 DEF Good
<1>4. QED
  BY <1>2, <1>3

(* DecisionsAreFounded when r adds its decision about u.                   *)
LEMMA DecisionAdded ==
  ASSUME DecisionsAreFounded, NEW r \in Request, NEW u \in User, MayDecide(r, doc[r]),
         role[r] \in {"MANAGER", "ADMIN"},
         decided' = decided \cup {<<role[r], u, doc[r]>>},
         \A v \in User \ {u} : users'[v] = users[v]
  PROVE  DecisionsAreFounded'
<1>1. PICK e : e = <<role[r], u, doc[r]>>
  OBVIOUS
<1>2. e[1] = role[r] /\ e[2] = u /\ e[3] = doc[r]
  BY <1>1
<1>3. /\ e[3].approvalStatus = "PENDING"
      /\ \/ e[1] = "MANAGER" /\ e[3].role = "CUSTOMER"
         \/ e[1] = "ADMIN" /\ e[3].role \in {"CASHIER", "MANAGER"}
  BY <1>2 DEF MayDecide
<1>4. decided' = decided \cup {e}
  BY <1>1
<1>5. \A f \in decided' : /\ f[3].approvalStatus = "PENDING"
                          /\ \/ f[1] = "MANAGER" /\ f[3].role = "CUSTOMER"
                             \/ f[1] = "ADMIN" /\ f[3].role \in {"CASHIER", "MANAGER"}
  BY <1>3, <1>4 DEF DecisionsAreFounded
<1>6. ASSUME NEW v \in User
      PROVE  /\ users'[v] # NoUser /\ users'[v].approvalStatus = "APPROVED" =>
                  (v \in First /\ Start[v].approvalStatus = "APPROVED")
                  \/ \E f \in decided' : f[2] = v
             /\ v \in First /\ users'[v] = NoUser => \E f \in decided' : f[2] = v
  <2>1. CASE v = u
    BY <1>2, <1>4, <2>1
  <2>2. CASE v # u
    BY <1>4, <2>2 DEF DecisionsAreFounded
  <2>3. QED
    BY <2>1, <2>2
<1>7. QED
  BY <1>5, <1>6 DEF DecisionsAreFounded

(* What a save writes.                                                     *)
LEMMA WrittenKeeps ==
  ASSUME TypeOK, NEW r \in Request, op[r] \in Operation,
         op[r].kind \in {"approveRegistration", "updateKycStatus"}, NEW d \in UserDoc
  PROVE  /\ Written(r, d) \in UserDoc
         /\ Written(r, d).email = d.email /\ Written(r, d).mobile = d.mobile
         /\ op[r].kind # "approveRegistration" =>
              Written(r, d).approvalStatus = d.approvalStatus
<1>1. CASE op[r].kind = "approveRegistration"
  <2>1. Written(r, d) = [d EXCEPT !.approvalStatus = "APPROVED"]
    BY <1>1 DEF Written
  <2>2. QED
    BY <1>1, <2>1 DEF UserDoc
<1>2. CASE op[r].kind = "updateKycStatus"
  <2>1. op[r].status \in KycStatus
    BY <1>2, Bodies DEF KycStatus
  <2>2. Written(r, d) = d \/ Written(r, d) = [d EXCEPT !.kycStatus = op[r].status]
    BY <1>2 DEF Written
  <2>3. QED
    BY <1>2, <2>1, <2>2 DEF UserDoc
<1>3. QED
  BY <1>1, <1>2

LEMMA SaveGood ==
  ASSUME Inv, NEW r \in Request, Save(r) PROVE Good(r)
<1> DEFINE u == op[r].id
           new == Written(r, users[u])
<1>1. /\ TypeOK /\ Local(r) /\ op[r] \in Operation /\ op[r] # NoOp /\ pc[r] = "save"
      /\ answer[r] = "none" /\ op[r].kind \in {"approveRegistration", "updateKycStatus"}
      /\ u \in User /\ doc[r] # NoUser
      /\ op[r].kind = "approveRegistration" =>
           op[r].action = "APPROVE" /\ MayDecide(r, doc[r]) /\ Settled(u)
      /\ role[r] \in {"MANAGER", "ADMIN"}
      /\ UNCHANGED <<accounts, op, role, doc, number, crashes>>
  BY RunningFacts, Bodies DEF Save, Local, Founded, Sound, Managing
<1>2. CASE users[u] = NoUser
  <2>1. End(r, "error") /\ UNCHANGED <<users, mailed, decided>>
    BY <1>2 DEF Save
  <2>2. TypeOK'
    BY <1>1, <2>1 DEF End, TypeOK
  <2>3. QED
    BY <1>1, <2>1, <2>2, EndGood DEF Running, stores
<1>3. CASE users[u] # NoUser
  <2>1. users' = [users EXCEPT ![u] = new] /\ Goto(r, "answer")
    BY <1>3 DEF Save
  <2>2. users[u] \in UserDoc
    BY <1>1, <1>3 DEF TypeOK
  <2>3. /\ new \in UserDoc /\ new.email = users[u].email /\ new.mobile = users[u].mobile
        /\ op[r].kind # "approveRegistration" => new.approvalStatus = users[u].approvalStatus
    BY <1>1, <2>2, WrittenKeeps
  <2>4. new # NoUser
    BY <2>3, NamesAssumption
  <2>5. users'[u] = new /\ \A v \in User \ {u} : users'[v] = users[v]
    BY <1>1, <2>1 DEF TypeOK
  <2>6. /\ op[r].kind = "approveRegistration" =>
             /\ mailed' = mailed \cup {<<"approval", u>>}
             /\ decided' = decided \cup {<<role[r], u, doc[r]>>}
        /\ op[r].kind # "approveRegistration" => UNCHANGED <<mailed, decided>>
    BY <1>3 DEF Save
  <2>7. doc[r] \in UserDoc /\ role[r] \in Role
    BY <1>1 DEF TypeOK
  <2>8. /\ mailed' \in SUBSET ({"welcome", "approval", "rejection"} \X User)
        /\ decided' \in SUBSET (Role \X User \X UserDoc)
        /\ mailed \subseteq mailed' /\ decided \subseteq decided'
    BY <1>1, <2>6, <2>7 DEF TypeOK
  <2>9. pc'[r] = "answer" /\ op'[r] = op[r] /\ answer'[r] = "none"
    BY <1>1, <2>1 DEF Goto, TypeOK
  <2>10. TypeOK'
    BY <1>1, <2>1, <2>3, <2>8 DEF Goto, TypeOK, Running
  <2>11. Alone(r)
    BY <1>1, <2>1 DEF Goto, Alone, TypeOK, Past
  <2>12. Grows
    BY <1>1, <2>4, <2>5, <1>3, <2>8 DEF Grows
  <2>13. Truthful(r)'
    <3>1. CASE op[r].kind = "approveRegistration"
      <4>1. <<"approval", u>> \in mailed' /\ <<role[r], u, doc[r]>> \in decided'
        BY <2>6, <3>1
      <4>2. Decided(r)'
        BY <1>1, <2>9, <3>1, <4>1 DEF Decided
      <4>3. QED
        BY <2>9, <3>1, <4>2, Zenon DEF Truthful, Decided
    <3>2. CASE op[r].kind = "updateKycStatus"
      BY <2>9, <3>2, Zenon DEF Truthful
    <3>3. QED
      BY <1>1, <3>1, <3>2
  <2>14. Local(r)'
    <3>1. PICK o : o = op[r]
      OBVIOUS
    <3>2. o.kind = "approveRegistration" => Settled(o.id)'
      BY <1>1, <2>11, <3>1, SettledStays
    <3>3. QED
      BY <1>1, <2>9, <2>13, <3>1, <3>2 DEF Local, Founded, Sound
  <2>15. NothingIsShared'
    <3>1. NothingIsShared
      BY Parts
    <3>2. QED
      BY <1>1, <1>3, <2>3, <2>5, <3>1 DEF NothingIsShared
  <2>16. DecisionsAreFounded'
    <3>1. DecisionsAreFounded
      BY Parts
    <3>2. CASE op[r].kind = "approveRegistration"
      BY <1>1, <2>5, <2>6, <3>1, <3>2, DecisionAdded
    <3>3. CASE op[r].kind # "approveRegistration"
      BY <1>1, <1>3, <2>3, <2>4, <2>5, <2>6, <3>1, <3>3 DEF DecisionsAreFounded
    <3>4. QED
      BY <3>2, <3>3
  <2>17. QED
    BY <2>10, <2>11, <2>12, <2>14, <2>15, <2>16 DEF Good
<1>4. QED
  BY <1>2, <1>3

LEMMA DeleteGood ==
  ASSUME Inv, NEW r \in Request, Delete(r) PROVE Good(r)
<1> DEFINE u == op[r].id
<1>1. /\ TypeOK /\ Local(r) /\ op[r] \in Operation /\ op[r] # NoOp /\ pc[r] = "delete"
      /\ answer[r] = "none" /\ op[r].kind = "approveRegistration" /\ op[r].action = "REJECT"
      /\ u \in User /\ doc[r] # NoUser /\ MayDecide(r, doc[r]) /\ Settled(u)
      /\ role[r] \in {"MANAGER", "ADMIN"}
      /\ UNCHANGED <<accounts, op, role, doc, number, crashes>>
  BY RunningFacts, Bodies DEF Delete, Local, Founded, Sound, Managing
<1>2. /\ users' = [users EXCEPT ![u] = NoUser] /\ Goto(r, "answer")
      /\ mailed' = mailed \cup {<<"rejection", u>>}
      /\ decided' = decided \cup {<<role[r], u, doc[r]>>}
  BY DEF Delete
<1>3. users'[u] = NoUser /\ \A v \in User \ {u} : users'[v] = users[v]
  BY <1>1, <1>2 DEF TypeOK
<1>4. doc[r] \in UserDoc /\ role[r] \in Role
  BY <1>1 DEF TypeOK
<1>5. /\ mailed' \in SUBSET ({"welcome", "approval", "rejection"} \X User)
      /\ decided' \in SUBSET (Role \X User \X UserDoc)
  BY <1>1, <1>2, <1>4 DEF TypeOK
<1>6. pc'[r] = "answer" /\ op'[r] = op[r] /\ answer'[r] = "none"
  BY <1>1, <1>2 DEF Goto, TypeOK
<1>7. TypeOK'
  BY <1>1, <1>2, <1>5 DEF Goto, TypeOK, Running
<1>8. Alone(r)
  BY <1>1, <1>2 DEF Goto, Alone, TypeOK, Past
<1>9. Grows
  BY <1>1, <1>2, <1>3 DEF Grows
<1>10. Truthful(r)'
  <2>1. /\ <<"rejection", u>> \in mailed' /\ <<role[r], u, doc[r]>> \in decided'
        /\ users'[u] = NoUser
    BY <1>2, <1>3
  <2>2. Decided(r)'
    BY <1>1, <1>6, <2>1 DEF Decided
  <2>3. QED
    BY <1>1, <1>6, <2>2, Zenon DEF Truthful, Decided
<1>11. Local(r)'
  <2>1. PICK o : o = op[r]
    OBVIOUS
  <2>2. Settled(o.id)'
    BY <1>1, <1>8, <2>1, SettledStays
  <2>3. QED
    BY <1>1, <1>6, <1>10, <2>1, <2>2 DEF Local, Founded, Sound
<1>12. NothingIsShared'
  <2>1. NothingIsShared
    BY Parts
  <2>2. QED
    BY <1>1, <1>3, <2>1 DEF NothingIsShared
<1>13. DecisionsAreFounded'
  <2>1. DecisionsAreFounded
    BY Parts
  <2>2. QED
    BY <1>1, <1>2, <1>3, <2>1, DecisionAdded
<1>14. QED
  BY <1>7, <1>8, <1>9, <1>11, <1>12, <1>13 DEF Good

(* What an update writes, by the kind of the request.                      *)
UpdateKinds == {"updateUserRole", "submitKYC", "updateProfileImage", "updateProfile"}
LEMMA ChangedByKind ==
  ASSUME NEW o, NEW d
  PROVE  /\ o.kind = "updateUserRole" => Changed(o, d) = [d EXCEPT !.role = o.role]
         /\ o.kind = "submitKYC" =>
              Changed(o, d) = [d EXCEPT !.kycDocumentKey = o.key, !.kycStatus = "PENDING"]
         /\ o.kind = "updateProfileImage" => Changed(o, d) = [d EXCEPT !.profileImageKey = o.key]
         /\ o.kind = "updateProfile" =>
              Changed(o, d) = [d EXCEPT !.email = o.email, !.mobile = o.mobile]
BY Zenon DEF Changed

LEMMA ChangedKeeps ==
  ASSUME NEW o \in Operation, o.kind \in UpdateKinds, NEW d \in UserDoc
  PROVE  /\ Changed(o, d) \in UserDoc /\ Changed(o, d).approvalStatus = d.approvalStatus
         /\ IF o.kind = "updateProfile"
            THEN Changed(o, d).email = o.email /\ Changed(o, d).mobile = o.mobile
            ELSE Changed(o, d).email = d.email /\ Changed(o, d).mobile = d.mobile
<1>1. CASE o.kind = "updateUserRole"
  <2>1. o.role \in Role
    BY <1>1, Bodies
  <2>2. Changed(o, d) = [d EXCEPT !.role = o.role]
    BY <1>1, ChangedByKind
  <2>3. [d EXCEPT !.role = o.role] \in UserDoc
    BY <2>1 DEF UserDoc
  <2>4. QED
    BY <1>1, <2>2, <2>3 DEF UserDoc
<1>2. CASE o.kind = "submitKYC"
  <2>1. o.key \in Key /\ "PENDING" \in KycStatus
    BY <1>2, Bodies DEF KycStatus
  <2>2. Changed(o, d) = [d EXCEPT !.kycDocumentKey = o.key, !.kycStatus = "PENDING"]
    BY <1>2, ChangedByKind
  <2>3. [d EXCEPT !.kycDocumentKey = o.key, !.kycStatus = "PENDING"] \in UserDoc
    BY <2>1 DEF UserDoc
  <2>4. QED
    BY <1>2, <2>2, <2>3 DEF UserDoc
<1>3. CASE o.kind = "updateProfileImage"
  <2>1. o.key \in Key
    BY <1>3, Bodies
  <2>2. Changed(o, d) = [d EXCEPT !.profileImageKey = o.key]
    BY <1>3, ChangedByKind
  <2>3. [d EXCEPT !.profileImageKey = o.key] \in UserDoc
    BY <2>1 DEF UserDoc
  <2>4. QED
    BY <1>3, <2>2, <2>3 DEF UserDoc
<1>4. CASE o.kind = "updateProfile"
  <2>1. o.email \in Email /\ o.mobile \in Mobile
        /\ Changed(o, d) = [d EXCEPT !.email = o.email, !.mobile = o.mobile]
    BY <1>4, ChangedByKind, Bodies
  <2>2. [d EXCEPT !.email = o.email, !.mobile = o.mobile] \in UserDoc
    BY <2>1 DEF UserDoc
  <2>3. QED
    BY <1>4, <2>1, <2>2 DEF UserDoc
<1>5. QED
  BY <1>1, <1>2, <1>3, <1>4 DEF UpdateKinds

LEMMA UpdateGood ==
  ASSUME Inv, NEW r \in Request, Update(r) PROVE Good(r)
<1> DEFINE o == op[r]
           u == Target(o)
           new == Changed(o, users[u])
<1>1. /\ TypeOK /\ Local(r) /\ o \in Operation /\ o # NoOp /\ pc[r] = "update"
      /\ answer[r] = "none" /\ o.kind \in UpdateKinds /\ u \in User
      /\ UNCHANGED <<accounts, mailed, op, role, doc, number, crashes, decided>>
  <2>1. /\ TypeOK /\ Local(r) /\ o \in Operation /\ o # NoOp /\ pc[r] = "update"
        /\ answer[r] = "none" /\ o.kind \in UpdateKinds
        /\ UNCHANGED <<accounts, mailed, op, role, doc, number, crashes, decided>>
    BY RunningFacts DEF Update, Local, Founded, UpdateKinds
  <2>2. u \in User
    BY <2>1, Bodies DEF Target, UpdateKinds, Managing
  <2>3. QED
    BY <2>1, <2>2
<1>2. CASE UNCHANGED users /\ (End(r, "refused") \/ End(r, "error"))
  <2>1. PICK ans \in {"refused", "error"} : End(r, ans)
    BY <1>2
  <2>2. TypeOK'
    BY <1>1, <1>2, <2>1 DEF End, TypeOK
  <2>3. QED
    BY <1>1, <1>2, <2>1, <2>2, EndGood DEF Running, stores
<1>3. CASE ~(UNCHANGED users /\ (End(r, "refused") \/ End(r, "error")))
  <2>1. /\ users[u] # NoUser /\ users' = [users EXCEPT ![u] = new] /\ Goto(r, "answer")
        /\ o.kind = "updateProfile" => ~Taken(o.email, o.mobile, User \ {u})
    BY <1>3 DEF Update
  <2>2. users[u] \in UserDoc
    BY <1>1, <2>1 DEF TypeOK
  <2>3. /\ new \in UserDoc /\ new.approvalStatus = users[u].approvalStatus
        /\ IF o.kind = "updateProfile" THEN new.email = o.email /\ new.mobile = o.mobile
           ELSE new.email = users[u].email /\ new.mobile = users[u].mobile
    BY <1>1, <2>2, ChangedKeeps
  <2>4. new # NoUser
    BY <2>3, NamesAssumption
  <2>5. users'[u] = new /\ \A v \in User \ {u} : users'[v] = users[v]
    BY <1>1, <2>1 DEF TypeOK
  <2>6. pc'[r] = "answer" /\ op'[r] = op[r] /\ answer'[r] = "none"
    BY <1>1, <2>1 DEF Goto, TypeOK
  <2>7. TypeOK'
    BY <1>1, <2>1, <2>3 DEF Goto, TypeOK, Running
  <2>8. Alone(r)
    BY <1>1, <2>1 DEF Goto, Alone, TypeOK, Past
  <2>9. Grows
    BY <1>1, <2>1, <2>4, <2>5 DEF Grows
  <2>10. Truthful(r)'
    BY <1>1, <2>6, Zenon DEF Truthful, UpdateKinds
  <2>11. Local(r)'
    BY <1>1, <2>6, <2>10 DEF Local, Founded, Sound, UpdateKinds
  <2>12. NothingIsShared'
    <3>1. NothingIsShared
      BY Parts
    <3>2. ASSUME NEW v \in User, v # u, users[v] # NoUser
          PROVE  users[v].email # new.email /\ users[v].mobile # new.mobile
      <4>1. CASE o.kind = "updateProfile"
        BY <2>1, <2>3, <3>2, <4>1 DEF Taken
      <4>2. CASE o.kind # "updateProfile"
        BY <1>1, <2>1, <2>3, <3>1, <3>2, <4>2 DEF NothingIsShared
      <4>3. QED
        BY <4>1, <4>2
    <3>3. QED
      BY <1>1, <2>5, <3>1, <3>2 DEF NothingIsShared
  <2>13. DecisionsAreFounded'
    <3>1. DecisionsAreFounded
      BY Parts
    <3>2. QED
      BY <1>1, <2>1, <2>3, <2>4, <2>5, <3>1 DEF DecisionsAreFounded
  <2>14. QED
    BY <2>7, <2>8, <2>9, <2>11, <2>12, <2>13 DEF Good
<1>4. QED
  BY <1>2, <1>3 DEF Update

-----------------------------------------------------------------------------
LEMMA HandleGood ==
  ASSUME Inv, NEW r \in Request, Receive(r) \/ Handle(r) \/ Throw(r) PROVE Good(r)
<1>1. CASE Receive(r)
  BY <1>1, ReceiveGood
<1>2. CASE Throw(r)
  BY <1>2, ThrowGood
<1>3. CASE Handle(r)
  BY <1>3, AuthenticateGood, FindGood, CreateUserGood, EnqueueWelcomeGood, LoadGood, SaveGood,
     DeleteGood, UpdateGood, NumberGood, CreateAccountGood, AnswerGood DEF Handle
<1>4. QED
  BY <1>1, <1>2, <1>3

LEMMA CrashKeepsInv == ASSUME Inv, Crash PROVE Inv'
<1>1. /\ TypeOK /\ NothingIsShared /\ DecisionsAreFounded
      /\ \A u \in User : users[u] # NoUser => Settled(u)
      /\ \A q \in Request : Local(q)
  BY Parts
<1>2. UNCHANGED <<stores, op, role, doc, number, answer, decided>>
  BY DEF Crash
<1>3. ASSUME NEW q \in Request
      PROVE  (pc[q] \in Running /\ pc'[q] = "lost") \/ (pc[q] \notin Running /\ pc'[q] = pc[q])
  BY Zenon DEF Crash
<1>4. TypeOK'
  BY <1>1, CrashAssumption DEF Crash, TypeOK, stores, Running
<1>5. NothingIsShared' /\ DecisionsAreFounded'
  BY <1>1, <1>2 DEF NothingIsShared, DecisionsAreFounded, stores
<1>6. ASSUME NEW u, Settled(u) PROVE Settled(u)'
  BY <1>3, <1>6 DEF Settled, Running
<1>7. \A u \in User : users'[u] # NoUser => Settled(u)'
  BY <1>1, <1>2, <1>6 DEF stores
<1>8. ASSUME NEW q \in Request PROVE Local(q)'
  <2>1. Local(q) /\ op'[q] = op[q] /\ answer'[q] = answer[q]
        /\ role'[q] = role[q] /\ doc'[q] = doc[q]
    BY <1>1, <1>2
  <2>2. (pc[q] \in Running /\ pc'[q] = "lost") \/ (pc[q] \notin Running /\ pc'[q] = pc[q])
    BY <1>3
  <2>3. Founded(q)'
    BY <2>1, <2>2 DEF Local, Founded, Running
  <2>4. answer[q] = "ok" => op[q] # NoOp /\ pc[q] = "done" /\ Truthful(q)
    BY <2>1 DEF Local, Founded, Sound
  <2>5. answer[q] = "ok" => Truthful(q)'
    <3>1. SUFFICES ASSUME answer[q] = "ok" PROVE Truthful(q)'
      OBVIOUS
    <3>2. Grows
      BY <1>2 DEF Grows, stores
    <3>3. op[q].kind = "approveRegistration" => Settled(op[q].id)
      BY <2>1, <2>4, <3>1 DEF Local, Sound
    <3>4. QED
      BY <1>1, <2>1, <2>4, <3>1, <3>2, <3>3, TruthStays
  <2>6. Sound(q)'
    <3>1. PICK o : o = op[q]
      OBVIOUS
    <3>2. answer[q] = "ok" /\ o.kind = "approveRegistration" => Settled(o.id)'
      BY <1>6, <2>1, <2>4, <3>1 DEF Local, Sound
    <3>3. answer[q] # "none" => pc'[q] = "done"
      BY <2>1, <2>2 DEF Local, Sound, Running
    <3>4. pc'[q] \notin {"answer", "mail", "save", "delete"}
      BY <2>2 DEF Running
    <3>5. QED
      BY <2>1, <3>1, <3>2, <3>3, <3>4 DEF Sound
  <2>7. QED
    BY <2>1, <2>3, <2>5, <2>6 DEF Local
<1>9. QED
  BY <1>4, <1>5, <1>7, <1>8 DEF Inv, Local, AnswersStayTrue

LEMMA StutterKeepsInv == ASSUME Inv, UNCHANGED vars PROVE Inv'
<1>1. UNCHANGED <<users, accounts, mailed, op, pc, role, doc, number, answer, crashes, decided>>
  BY DEF vars, stores, handlers
<1>2. TypeOK' /\ NothingIsShared' /\ DecisionsAreFounded'
  BY <1>1, Parts DEF TypeOK, NothingIsShared, DecisionsAreFounded
<1>3. ASSUME NEW u PROVE Settled(u) => Settled(u)'
  BY <1>1 DEF Settled
<1>4. ASSUME NEW r \in Request PROVE Local(r)'
  <2>1. Local(r)
    BY Parts
  <2>2. Truthful(r) => Truthful(r)'
    BY <1>1, Zenon DEF Truthful
  <2>3. Founded(r)'
    BY <1>1, <2>1 DEF Local, Founded, MayDecide
  <2>4. PICK o : o = op[r]
    OBVIOUS
  <2>5. Settled(o.id) => Settled(o.id)'
    BY <1>3
  <2>6. Sound(r)'
    BY <1>1, <2>1, <2>2, <2>4, <2>5 DEF Local, Sound
  <2>7. QED
    BY <1>1, <2>1, <2>2, <2>3, <2>6 DEF Local
<1>5. \A u \in User : users'[u] # NoUser => Settled(u)'
  BY <1>1, <1>3, Parts
<1>6. QED
  BY <1>2, <1>4, <1>5 DEF Inv, Local, AnswersStayTrue

LEMMA InitInv == Init => Inv
<1>1. SUFFICES ASSUME Init PROVE Inv
  OBVIOUS
<1>2. /\ \A u \in First : users[u] = Start[u] /\ users[u] \in UserDoc /\ users[u] # NoUser
      /\ \A u \in User \ First : users[u] = NoUser
  BY <1>1, StartAssumption, NamesAssumption DEF Init, User
<1>3. /\ users \in [User -> UserDoc \cup {NoUser}] /\ accounts = {} /\ mailed = {}
      /\ decided = {}
  BY <1>1, <1>2 DEF Init
<1>4. TypeOK
  BY <1>1, <1>3, NumberAssumption, CrashAssumption DEF Init, TypeOK, Role
<1>5. NothingIsShared
  BY <1>2, <1>3, ContactsAssumption DEF NothingIsShared
<1>6. DecisionsAreFounded
  BY <1>2, <1>3 DEF DecisionsAreFounded
<1>7. \A u \in User : users[u] # NoUser => Settled(u)
  BY <1>2, NamesAssumption DEF Settled
<1>8. ASSUME NEW r \in Request PROVE Local(r)
  <2>1. pc[r] = "new" /\ answer[r] = "none" /\ op[r] = NoOp
    BY <1>1 DEF Init
  <2>2. QED
    BY <2>1 DEF Local, Founded, Sound
<1>9. QED
  BY <1>4, <1>5, <1>6, <1>7, <1>8, Parts

LEMMA NextKeepsInv == Inv /\ [Next]_vars => Inv'
<1>1. SUFFICES ASSUME Inv, [Next]_vars PROVE Inv'
  OBVIOUS
<1>2. CASE \E r \in Request : Receive(r) \/ Handle(r) \/ Throw(r)
  BY <1>1, <1>2, HandleGood, GoodKeepsInv
<1>3. CASE Crash
  BY <1>1, <1>3, CrashKeepsInv
<1>4. CASE UNCHANGED vars
  BY <1>1, <1>4, StutterKeepsInv
<1>5. QED
  BY <1>1, <1>2, <1>3, <1>4 DEF Next

-----------------------------------------------------------------------------
(* The inductive invariant: what is stored, and what each request may      *)
(* assume where it is.                                                     *)
THEOREM InvHolds == Spec => []Inv
BY InitInv, NextKeepsInv, PTL DEF Spec

(* However many register, change their profiles and open accounts at once, *)
(* nobody shares an address, a mobile number or an account number.         *)
THEOREM Unshared == Spec => []NothingIsShared
<1>1. Inv => NothingIsShared
  BY DEF Inv
<1>2. QED
  BY <1>1, InvHolds, PTL

(* Whoever is approved or gone was decided on by somebody who could, when  *)
(* the registration was pending.                                           *)
THEOREM DecisionsFounded == Spec => []DecisionsAreFounded
<1>1. Inv => DecisionsAreFounded
  BY DEF Inv
<1>2. QED
  BY <1>1, InvHolds, PTL

(* An answer of success stays true, whatever others do afterwards.         *)
THEOREM AnswersHold == Spec => []AnswersStayTrue
<1>1. Inv => AnswersStayTrue
  BY DEF Inv
<1>2. QED
  BY <1>1, InvHolds, PTL

-----------------------------------------------------------------------------
(* A step that keeps u as it is undoes nothing of u.                       *)
LEMMA KeptIsNotUndone ==
  ASSUME NEW u, users'[u] = users[u] PROVE OnlyAsked(u)
BY DEF OnlyAsked

(* What each kind of request may change of a document.                     *)
LEMMA ChangesAreAsked ==
  ASSUME NEW r \in Request, pc[r] # "new", pc'[r] # pc[r], NEW u,
         users[u] \in UserDoc, users[u] # NoUser,
         \/ op[r].kind = "approveRegistration"
               /\ users'[u] = [users[u] EXCEPT !.approvalStatus = "APPROVED"]
         \/ op[r].kind = "updateKycStatus"
               /\ users'[u] = [users[u] EXCEPT !.kycStatus = op[r].status]
         \/ op[r].kind \in UpdateKinds /\ users'[u] = Changed(op[r], users[u])
  PROVE  OnlyAsked(u)
<1> DEFINE old == users[u]
           new == users'[u]
<1>1. ASSUME NEW kinds, op[r].kind \in kinds PROVE Asked(kinds)
  BY <1>1 DEF Asked
<1>2. CASE op[r].kind = "approveRegistration"
  <2>1. new = [old EXCEPT !.approvalStatus = "APPROVED"]
    BY <1>2 DEF UpdateKinds
  <2>2. Asked({"approveRegistration"})
    BY <1>1, <1>2
  <2>3. QED
    BY <2>1, <2>2 DEF OnlyAsked, UserDoc
<1>3. CASE op[r].kind = "updateKycStatus"
  <2>1. new = [old EXCEPT !.kycStatus = op[r].status]
    BY <1>3 DEF UpdateKinds
  <2>2. Asked({"submitKYC", "updateKycStatus"})
    BY <1>1, <1>3
  <2>3. QED
    BY <2>1, <2>2 DEF OnlyAsked, UserDoc
<1>4. CASE op[r].kind \in UpdateKinds
  <2>1. new = Changed(op[r], old)
    BY <1>4 DEF UpdateKinds
  <2>2. CASE op[r].kind = "updateUserRole"
    <3>1. new = [old EXCEPT !.role = op[r].role]
      BY <2>1, <2>2, ChangedByKind
    <3>2. Asked({"updateUserRole"})
      BY <1>1, <2>2
    <3>3. QED
      BY <3>1, <3>2 DEF OnlyAsked, UserDoc
  <2>3. CASE op[r].kind = "submitKYC"
    <3>1. new = [old EXCEPT !.kycDocumentKey = op[r].key, !.kycStatus = "PENDING"]
      BY <2>1, <2>3, ChangedByKind
    <3>2. Asked({"submitKYC"}) /\ Asked({"submitKYC", "updateKycStatus"})
      BY <1>1, <2>3
    <3>3. QED
      BY <3>1, <3>2 DEF OnlyAsked, UserDoc
  <2>4. CASE op[r].kind = "updateProfileImage"
    <3>1. new = [old EXCEPT !.profileImageKey = op[r].key]
      BY <2>1, <2>4, ChangedByKind
    <3>2. Asked({"updateProfileImage"})
      BY <1>1, <2>4
    <3>3. QED
      BY <3>1, <3>2 DEF OnlyAsked, UserDoc
  <2>5. CASE op[r].kind = "updateProfile"
    <3>1. new = [old EXCEPT !.email = op[r].email, !.mobile = op[r].mobile]
      BY <2>1, <2>5, ChangedByKind
    <3>2. Asked({"updateProfile"})
      BY <1>1, <2>5
    <3>3. QED
      BY <3>1, <3>2 DEF OnlyAsked, UserDoc
  <2>6. QED
    BY <1>4, <2>2, <2>3, <2>4, <2>5 DEF UpdateKinds
<1>5. QED
  BY <1>2, <1>3, <1>4

LEMMA HandleUndoesNothing ==
  ASSUME Inv, NEW r \in Request, Receive(r) \/ Handle(r) \/ Throw(r), NEW u \in User
  PROVE  OnlyAsked(u)
<1>1. CASE UNCHANGED users
  BY <1>1, KeptIsNotUndone
<1>2. CASE CreateUser(r)
  <2>1. pc[r] = "create" /\ op[r].kind = "register" /\ TypeOK
    BY <1>2, Parts DEF CreateUser
  <2>2. users[r] = NoUser
    BY <2>1, RequestsAreUsers, Parts DEF Settled
  <2>3. \A v \in User \ {r} : users'[v] = users[v]
    BY <1>2, <2>1 DEF CreateUser, TypeOK
  <2>4. CASE u = r
    BY <2>1, <2>2, <2>4 DEF OnlyAsked
  <2>5. CASE u # r
    BY <2>3, <2>5, KeptIsNotUndone
  <2>6. QED
    BY <2>4, <2>5
<1>3. CASE Save(r)
  <2> DEFINE v == op[r].id
  <2>1. /\ TypeOK /\ Local(r) /\ pc[r] = "save" /\ op[r] \in Operation
        /\ op[r].kind \in {"approveRegistration", "updateKycStatus"} /\ v \in User
    BY <1>3, RunningFacts, Bodies DEF Save, Local, Founded, Managing
  <2>2. CASE users[v] = NoUser
    BY <1>3, <2>2, KeptIsNotUndone DEF Save
  <2>3. CASE users[v] # NoUser
    <3>1. users' = [users EXCEPT ![v] = Written(r, users[v])] /\ Goto(r, "answer")
      BY <1>3, <2>3 DEF Save
    <3>2. users'[v] = Written(r, users[v]) /\ \A w \in User \ {v} : users'[w] = users[w]
      BY <2>1, <3>1 DEF TypeOK
    <3>3. pc'[r] = "answer" /\ users[v] \in UserDoc
      BY <2>1, <2>3, <3>1 DEF Goto, TypeOK
    <3>4. CASE u # v
      BY <3>2, <3>4, KeptIsNotUndone
    <3>5. CASE u = v /\ users'[u] # users[u]
      <4>1. \/ op[r].kind = "approveRegistration"
                 /\ users'[u] = [users[u] EXCEPT !.approvalStatus = "APPROVED"]
            \/ op[r].kind = "updateKycStatus"
                 /\ users'[u] = [users[u] EXCEPT !.kycStatus = op[r].status]
        BY <2>1, <3>2, <3>5 DEF Written
      <4>2. QED
        BY <2>1, <2>3, <3>3, <3>5, <4>1, ChangesAreAsked
    <3>6. QED
      BY <3>4, <3>5, KeptIsNotUndone
  <2>4. QED
    BY <2>2, <2>3
<1>4. CASE Delete(r)
  <2>1. TypeOK /\ users' = [users EXCEPT ![op[r].id] = NoUser]
    BY <1>4, Parts DEF Delete
  <2>2. users'[u] = NoUser \/ users'[u] = users[u]
    BY <2>1 DEF TypeOK
  <2>3. QED
    BY <2>2 DEF OnlyAsked
<1>5. CASE Update(r) /\ ~UNCHANGED users
  <2> DEFINE v == Target(op[r])
  <2>1. /\ TypeOK /\ Local(r) /\ pc[r] = "update" /\ op[r] \in Operation
        /\ op[r].kind \in UpdateKinds
    BY <1>5, RunningFacts DEF Update, Local, Founded, UpdateKinds
  <2>2. v \in User
    BY <2>1, Bodies DEF Target, UpdateKinds, Managing
  <2>3. /\ users[v] # NoUser /\ users' = [users EXCEPT ![v] = Changed(op[r], users[v])]
        /\ Goto(r, "answer")
    BY <1>5 DEF Update
  <2>4. /\ users'[v] = Changed(op[r], users[v]) /\ \A w \in User \ {v} : users'[w] = users[w]
        /\ pc'[r] = "answer" /\ users[v] \in UserDoc
    BY <2>1, <2>2, <2>3 DEF Goto, TypeOK
  <2>5. CASE u # v
    BY <2>4, <2>5, KeptIsNotUndone
  <2>6. CASE u = v
    BY <2>1, <2>3, <2>4, <2>6, ChangesAreAsked
  <2>7. QED
    BY <2>5, <2>6
<1>6. UNCHANGED users \/ CreateUser(r) \/ Save(r) \/ Delete(r) \/ (Update(r) /\ ~UNCHANGED users)
  BY DEF Receive, Throw, Handle, Authenticate, FindUser, EnqueueWelcome, Load, FindAccount,
     generateAccountNumber, CreateAccount, Answer, stores
<1>7. QED
  BY <1>1, <1>2, <1>3, <1>4, <1>5, <1>6

(* Whatever the handlers loaded, each changes only the fields it is about, *)
(* and a user who was rejected does not come back.                         *)
THEOREM NothingUndone == Spec => NothingIsUndone
<1>1. Inv /\ [Next]_vars => [\A u \in User : OnlyAsked(u)]_vars
  <2>1. SUFFICES ASSUME Inv, Next PROVE \A u \in User : OnlyAsked(u)
    OBVIOUS
  <2>2. CASE \E r \in Request : Receive(r) \/ Handle(r) \/ Throw(r)
    BY <2>1, <2>2, HandleUndoesNothing
  <2>3. CASE Crash
    BY <2>3, KeptIsNotUndone DEF Crash, stores
  <2>4. QED
    BY <2>1, <2>2, <2>3 DEF Next
<1>2. QED
  BY <1>1, InvHolds, PTL DEF Spec, NothingIsUndone
=============================================================================
