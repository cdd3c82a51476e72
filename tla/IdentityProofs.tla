---------------------------- MODULE IdentityProofs ----------------------------
(***************************************************************************)
(* Proofs about Identity, for every set of addresses, users and requests,  *)
(* every start and every number of crashes.                                *)
(***************************************************************************)
EXTENDS Identity, TLAPS

(* What the handlers are, by the kind of the request.                      *)
LEMMA Handlers ==
  ASSUME NEW o, NEW d
  PROVE  /\ o.kind = "login" => Handler(o, d) = login
         /\ o.kind = "verify2FA" => Handler(o, d) = verify2FA
         /\ o.kind = "sendOTP" => Handler(o, d) = sendOTP(o)
         /\ o.kind = "verifyOTP" => Handler(o, d) = verifyOTP
         /\ o.kind = "resetPassword" => Handler(o, d) = resetPassword
         /\ o.kind = "disable2FALogin" => Handler(o, d) = disable2FALogin
         /\ o.kind = "setTPIN" => Handler(o, d) = setTPIN
         /\ o.kind = "changeTPIN" => Handler(o, d) = changeTPIN
         /\ o.kind = "resetTPIN" => Handler(o, d) = resetTPIN
         /\ o.kind = "get2FASetup" => Handler(o, d) = get2FASetup(d)
         /\ o.kind = "enable2FA" => Handler(o, d) = enable2FA
         /\ o.kind = "disable2FA" => Handler(o, d) = disable2FA
         /\ o.kind = "transfer" => Handler(o, d) = verifyTPIN
BY Zenon DEF Handler

LEMMA Checks ==
  ASSUME NEW o, NEW d
  PROVE  /\ o.kind = "login" => MayProceed(o, d) = (o.given = d.password)
         /\ o.kind \in {"verify2FA", "disable2FA"} =>
              MayProceed(o, d) = (d.twoFactor /\ HasKey(o, d))
         /\ o.kind = "enable2FA" => MayProceed(o, d) = HasKey(o, d)
         /\ o.kind = "setTPIN" => MayProceed(o, d) = (d.tpin = NoSecret)
         /\ o.kind \in {"changeTPIN", "transfer"} => MayProceed(o, d) = HasTPIN(o, d)
BY Zenon DEF MayProceed

LEMMA Purposes ==
  ASSUME NEW o
  PROVE  /\ o.kind = "resetPassword" => PurposeOf(o) = "password_reset"
         /\ o.kind = "resetTPIN" => PurposeOf(o) = "tpin_reset"
         /\ o.kind = "disable2FALogin" => PurposeOf(o) = "disable_2fa"
         /\ o.kind \notin Resets => PurposeOf(o) = o.purpose
BY Zenon DEF PurposeOf, Resets

(* Where a handler goes from each place.                                   *)
LEMMA Places ==
  ASSUME NEW o \in Operation, NEW d
  PROVE  LET next == Handler(o, d)
             kind == o.kind
         IN  /\ next.new \in {"auth", "mark", "load", "store", "get"}
             /\ next.new = "auth" => kind \in AuthRoutes
             /\ next.new = "mark" => kind \in Resets
             /\ next.new = "load" => kind \notin Resets \cup {"verifyOTP"}
             /\ next.new = "store" => kind = "sendOTP"
             /\ next.new = "get" => kind = "verifyOTP"
             /\ kind \in AuthRoutes =>
                  /\ next.auth \in {"mark", "load"}
                  /\ next.auth = "mark" => kind \in Resets
                  /\ next.auth = "load" => kind \notin Resets \cup {"verifyOTP"}
             /\ kind \in Resets => next.mark = "load" /\ next.clear = "answer"
             /\ kind # "verifyOTP" =>
                  /\ next.load \in {"store", "save", "answer"}
                  /\ next.load = "store" => kind = "sendOTP"
                  /\ kind = "sendOTP" => next.load = "store"
                  /\ next.load = "save" => kind \in (AuthRoutes \cup Resets) \ {"transfer"}
             /\ kind \in (AuthRoutes \cup Resets) \ {"transfer"} =>
                  /\ next.save \in {"clear", "answer"}
                  /\ next.save = "clear" => kind \in Resets
             /\ kind = "sendOTP" => next.store = "mail" /\ next.mail = "answer"
             /\ kind = "verifyOTP" =>
                  next.get = "delete" /\ next.delete = "set" /\ next.set = "answer"
<1>1. o.kind \in OpenRoutes \cup AuthRoutes
  BY DEF Operation
<1>2. CASE o.kind = "login"
  BY <1>2, Handlers DEF login, AuthRoutes, Resets
<1>3. CASE o.kind = "verify2FA"
  BY <1>3, Handlers DEF verify2FA, AuthRoutes, Resets
<1>4. CASE o.kind = "sendOTP"
  BY <1>4, Handlers DEF sendOTP, AuthRoutes, Resets
<1>5. CASE o.kind = "verifyOTP"
  BY <1>5, Handlers DEF verifyOTP, AuthRoutes, Resets
<1>6. CASE o.kind = "resetPassword"
  BY <1>6, Handlers DEF resetPassword, AuthRoutes, Resets
<1>7. CASE o.kind = "disable2FALogin"
  BY <1>7, Handlers DEF disable2FALogin, AuthRoutes, Resets
<1>8. CASE o.kind = "setTPIN"
  BY <1>8, Handlers DEF setTPIN, AuthRoutes, Resets
<1>9. CASE o.kind = "changeTPIN"
  BY <1>9, Handlers DEF changeTPIN, AuthRoutes, Resets
<1>10. CASE o.kind = "resetTPIN"
  BY <1>10, Handlers DEF resetTPIN, AuthRoutes, Resets
<1>11. CASE o.kind = "get2FASetup"
  BY <1>11, Handlers DEF get2FASetup, AuthRoutes, Resets
<1>12. CASE o.kind = "enable2FA"
  BY <1>12, Handlers DEF enable2FA, AuthRoutes, Resets
<1>13. CASE o.kind = "disable2FA"
  BY <1>13, Handlers DEF disable2FA, AuthRoutes, Resets
<1>14. CASE o.kind = "transfer"
  BY <1>14, Handlers DEF verifyTPIN, AuthRoutes, Resets
<1>15. QED
  BY <1>1, <1>2, <1>3, <1>4, <1>5, <1>6, <1>7, <1>8, <1>9, <1>10, <1>11, <1>12, <1>13,
     <1>14 DEF OpenRoutes, AuthRoutes

-----------------------------------------------------------------------------
(* The invariant in parts: of the mailboxes, of a request, of a user.      *)
Boxes == CodesAreSpent /\ CodeInv
KeepOf(r) ==
  Checked(r) =>
    LET u == op[r].email
    IN  /\ doc[r].tpin = NoSecret => Start[u].tpin = NoSecret
        /\ doc[r].key # NoSecret => users[u].key # NoSecret \/ Proven(u, "disable_2fa")
SessionOf(r) ==
  /\ answer[r] = "session" => IF op[r].kind = "disable2FALogin"
                               THEN Proven(op[r].email, "disable_2fa")
                               ELSE earned[r]
  /\ answer[r] = "ok" /\ op[r].kind = "transfer" => earned[r]
Local(r) == StageInv(r) /\ KeepOf(r) /\ SessionOf(r)
UserInv(u) ==
  /\ users[u].tpin = NoSecret => Start[u].tpin = NoSecret
  /\ users[u].twoFactor /\ users[u].key = NoSecret => Proven(u, "disable_2fa")

LEMMA Parts ==
  Inv <=> /\ TypeOK /\ Boxes
          /\ \A r \in Request : Local(r)
          /\ \A u \in User : UserInv(u)
BY DEF Inv, Boxes, Local, KeepOf, SessionOf, UserInv, KeepInv, SessionsAreEarned,
       NobodyIsLockedOut

(* The histories grow.                                                     *)
Grows ==
  /\ spent \subseteq spent' /\ mailed \subseteq mailed'
  /\ \A q \in Request : earned[q] => earned'[q]

(* A step of r, as the other requests and the mailboxes see it: it goes    *)
(* forward, and looks at a document once.                                  *)
Moves(r) ==
  /\ \A q \in Request \ {r} : /\ op'[q] = op[q] /\ pc'[q] = pc[q]
                              /\ doc'[q] = doc[q] /\ answer'[q] = answer[q]
  /\ op'[r] = op[r] \/ op[r] = NoOp
  /\ doc'[r] = doc[r] \/ doc[r] = Blank
  /\ pc[r] \in Unstored \/ pc'[r] \notin Unstored \cup {"mail"}

(* A key leaves a document only for who asked for that.                    *)
KeysKept ==
  \A u \in User : users[u].key # NoSecret =>
     users'[u].key # NoSecret \/ Proven(u, "disable_2fa")'

LEMMA SpentGrows ==
  ASSUME Grows
  PROVE  /\ \A u, p : Proven(u, p) => Proven(u, p)'
         /\ \A k : SpentFor(k) => SpentFor(k)'
BY DEF Grows, Proven, SpentFor

LEMMA WitnessGrows ==
  ASSUME Witness, earned \in [Request -> BOOLEAN]
  PROVE  /\ earned' \in [Request -> BOOLEAN]
         /\ \A q \in Request : earned[q] \/ Rightful(q)' => earned'[q]
BY DEF Witness

(* A request that is left alone keeps its part of the invariant.           *)
LEMMA Frame ==
  ASSUME NEW q \in Request, Local(q), Grows, KeysKept, op[q] \in Operations \cup {NoOp},
         op'[q] = op[q], pc'[q] = pc[q], doc'[q] = doc[q], answer'[q] = answer[q]
  PROVE  Local(q)'
<1>1. Box(q)' = Box(q) /\ Checked(q)' = Checked(q)
  BY DEF Box, BoxOf, PurposeOf, Checked
<1>2. Sendable(op[q]) => Sendable(op[q])'
  BY DEF Grows, Sendable
<1>3. StageInv(q)'
  BY <1>1, <1>2, SpentGrows DEF Grows, Local, StageInv
<1>4. KeepOf(q)'
  <2>1. Checked(q) => op[q].email \in User
    BY DEF Local, StageInv
  <2>2. QED
    BY <1>1, <2>1, SpentGrows DEF Local, KeepOf, KeysKept
<1>5. SessionOf(q)'
  BY SpentGrows DEF Local, SessionOf, Grows
<1>6. QED
  BY <1>3, <1>4, <1>5 DEF Local

(* Requests go forward.                                                    *)
Forward ==
  \A q \in Request :
    /\ op'[q] = op[q] \/ op[q] = NoOp
    /\ pc'[q] = pc[q] \/ pc[q] \in Unstored \/ pc'[q] \notin Unstored \cup {"mail"}

(* A code stays drawn for its mailbox while requests go forward.           *)
LEMMA DrawnStays ==
  ASSUME Forward, NEW k, NEW c,
         NEW places \in {Unstored, Unstored \cup {"mail"}}, DrawnFor(k, c, places)
  PROVE  DrawnFor(k, c, places)'
BY DEF Forward, DrawnFor, Unstored

LEMMA MovesForward ==
  ASSUME NEW r \in Request, Moves(r) PROVE Forward
BY DEF Moves, Forward

(* The mailboxes are in order while codes and marks only go.               *)
LEMMA BoxesStay ==
  ASSUME TypeOK, TypeOK', Boxes, Forward, mailed' = mailed, spent' = spent,
         \A k \in Mailbox : code'[k] \in {code[k], NoSecret} /\ (mark'[k] => mark[k])
  PROVE  Boxes'
<1>1. CodesAreSpent'
  <2>1. \A k \in Mailbox : <<k, NoSecret>> \notin spent
    BY DistinctAssumption DEF TypeOK
  <2>2. QED
    BY <2>1 DEF Boxes, CodesAreSpent
<1>2. ASSUME NEW k \in Mailbox, code'[k] # NoSecret PROVE DrawnFor(k, code[k], Unstored)'
  <2>1. code'[k] = code[k] /\ DrawnFor(k, code[k], Unstored)
    BY <1>2 DEF Boxes, CodeInv
  <2>2. PICK c : c = code[k]
    OBVIOUS
  <2>3. DrawnFor(k, c, Unstored)'
    BY <2>1, <2>2, DrawnStays
  <2>4. QED
    BY <2>1, <2>2, <2>3
<1>3. ASSUME NEW k \in Mailbox, mark'[k] PROVE SpentFor(k)'
  BY <1>3 DEF Boxes, CodeInv, SpentFor
<1>4. ASSUME NEW e \in mailed' PROVE DrawnFor(e[1], e[2], Unstored \cup {"mail"})'
  BY <1>4, DrawnStays DEF Boxes, CodeInv
<1>5. QED
  BY <1>1, <1>2, <1>3, <1>4 DEF Boxes, CodeInv

(* A user is in order while what a document protects stays.                *)
LEMMA UsersStay ==
  ASSUME NEW u \in User, UserInv(u), Grows,
         users'[u].tpin = users[u].tpin, users'[u].twoFactor = users[u].twoFactor,
         users'[u].key = users[u].key
  PROVE  UserInv(u)'
BY SpentGrows DEF UserInv

-----------------------------------------------------------------------------
(* The steps of a request, each with what it keeps and changes.            *)
Good(r) == TypeOK' /\ Local(r)' /\ Moves(r) /\ Grows

LEMMA NamesAreDistinct ==
  /\ NoSecret \notin Secret /\ NoOp \notin Operations
  /\ \A r \in Request : r \in Secret /\ r \notin Mailbox
BY DistinctAssumption, OperationsAssumption DEF Secret

LEMMA BlankIsDoc == Blank \in UserDoc
BY DEF Blank, UserDoc

LEMMA ReceiveGood ==
  ASSUME Inv, Witness, NEW r \in Request, Receive(r) PROVE Good(r)
<1>1. TypeOK /\ Local(r)
  BY Parts
<1>2. PICK o \in Operations : /\ Sendable(o) /\ op' = [op EXCEPT ![r] = o]
                              /\ pc' = [pc EXCEPT ![r] = Handler(o, Blank).new]
  BY DEF Receive
<1>3. PICK next \in {"auth", "mark", "load", "store", "get"} :
        /\ next = Handler(o, Blank).new
        /\ next = "auth" => o.kind \in AuthRoutes
        /\ next = "mark" => o.kind \in Resets
        /\ next = "load" => o.kind \notin Resets \cup {"verifyOTP"}
        /\ next = "store" => o.kind = "sendOTP"
        /\ next = "get" => o.kind = "verifyOTP"
  BY Places, OperationsAssumption
<1>4. /\ pc[r] = "new" /\ UNCHANGED <<stores, doc, answer, crashes, spent>>
      /\ op'[r] = o /\ pc'[r] = next /\ doc[r] = Blank /\ op[r] = NoOp /\ answer[r] = "none"
  BY <1>1, <1>2, <1>3 DEF Receive, TypeOK, Local, StageInv, Unstored
<1>5. Grows
  BY <1>1, <1>4, WitnessGrows DEF Grows, TypeOK, stores
<1>6. TypeOK'
  BY <1>1, <1>2, <1>3, <1>4, WitnessGrows DEF TypeOK, PC, Running, stores
<1>7. Moves(r)
  BY <1>1, <1>2, <1>3, <1>4 DEF Moves, TypeOK, Unstored
<1>8. o.kind = "verifyOTP" => o.given # NoSecret
  BY <1>1, <1>2, NamesAreDistinct DEF Sendable, TypeOK
<1>9. Local(r)'
  <2>1. StageInv(r)'
    <3>1. Sendable(o)'
      BY <1>2, <1>4 DEF Sendable, stores
    <3>2. ~Checked(r)'
      BY <1>4 DEF Checked, Loaded
    <3>3. QED
      BY <1>3, <1>4, <1>8, <3>1, <3>2 DEF StageInv, Unstored
  <2>2. KeepOf(r)' /\ SessionOf(r)'
    BY <1>4 DEF KeepOf, SessionOf, Checked, Loaded
  <2>3. QED
    BY <2>1, <2>2 DEF Local
<1>10. QED
  BY <1>5, <1>6, <1>7, <1>9 DEF Good

(* A request that ends with an error keeps what it has seen.               *)
LEMMA EndGood ==
  ASSUME Inv, Witness, NEW r \in Request, pc[r] \in Running, End(r, "error"),
         UNCHANGED <<stores, crashes, spent>>
  PROVE  Good(r)
<1>1. TypeOK /\ Local(r)
  BY Parts
<1>2. Grows
  BY <1>1, WitnessGrows DEF Grows, TypeOK, stores
<1>3. TypeOK'
  BY <1>1, WitnessGrows DEF TypeOK, PC, stores, End
<1>4. Moves(r)
  BY <1>1 DEF Moves, TypeOK, Unstored, End
<1>5. pc'[r] = "done" /\ answer'[r] = "error" /\ op'[r] = op[r] /\ op[r] \in Operations
  BY <1>1 DEF End, TypeOK, Local, StageInv, Running
<1>6. Local(r)'
  BY <1>5 DEF Local, StageInv, KeepOf, SessionOf, Checked, Loaded, Unstored
<1>7. QED
  BY <1>2, <1>3, <1>4, <1>6 DEF Good

LEMMA AnswerGood ==
  ASSUME Inv, Witness, NEW r \in Request, Answer(r) PROVE Good(r)
<1>1. TypeOK /\ Local(r)
  BY Parts
<1>2. PICK ans \in {"second", "session", "ok"} :
        /\ End(r, ans)
        /\ ans = IF op[r].kind = "login" /\ doc[r].twoFactor THEN "second"
                 ELSE IF op[r].kind \in SessionRoutes THEN "session" ELSE "ok"
  BY DEF Answer
<1>3. pc[r] = "answer" /\ UNCHANGED <<stores, crashes, spent>>
  BY DEF Answer
<1>4. Grows
  BY <1>1, <1>3, WitnessGrows DEF Grows, TypeOK, stores
<1>5. TypeOK'
  BY <1>1, <1>2, <1>3, WitnessGrows DEF TypeOK, PC, stores, End
<1>6. Moves(r)
  BY <1>1, <1>2 DEF Moves, TypeOK, Unstored, End
<1>7. /\ pc'[r] = "done" /\ answer'[r] = ans /\ op'[r] = op[r] /\ op[r] \in Operations
      /\ doc'[r] = doc[r]
  BY <1>1, <1>2, <1>3 DEF End, TypeOK, Local, StageInv
<1>8. StageInv(r)' /\ KeepOf(r)'
  BY <1>7 DEF StageInv, KeepOf, Checked, Loaded, Unstored
<1>9. SessionOf(r)'
  <2>1. ans = "session" /\ op[r].kind = "disable2FALogin" =>
          Proven(op[r].email, "disable_2fa")
    BY <1>1, <1>3, Purposes DEF Local, StageInv, Resets, SpentFor, Proven, Box, BoxOf
  <2>2. ans = "session" /\ op[r].kind # "disable2FALogin" => earned[r]
    BY <1>1, <1>2, <1>3 DEF Local, StageInv, SessionRoutes, Checked, Weighed
  <2>3. ans = "ok" /\ op[r].kind = "transfer" => earned[r]
    BY <1>1, <1>3 DEF Local, StageInv, Checked, Weighed
  <2>4. QED
    BY <1>4, <1>7, <2>1, <2>2, <2>3, SpentGrows DEF SessionOf, Grows
<1>10. QED
  BY <1>4, <1>5, <1>6, <1>8, <1>9 DEF Good, Local

(* Where a step takes a request, and what of it stays.                     *)
LEMMA ContinueMoves ==
  ASSUME TypeOK, NEW r \in Request, NEW next, Continue(r, next)
  PROVE  /\ pc'[r] = next /\ op'[r] = op[r] /\ doc'[r] = doc[r] /\ answer'[r] = answer[r]
         /\ pc[r] \in Unstored \/ next \notin Unstored \cup {"mail"} => Moves(r)
         /\ next \in Running => pc' \in [Request -> PC]
         /\ op' = op /\ doc' = doc /\ answer' = answer
BY DEF TypeOK, Continue, Moves, PC

LEMMA AuthenticateGood ==
  ASSUME Inv, Witness, NEW r \in Request, Authenticate(r) PROVE Good(r)
<1>1. TypeOK /\ Local(r)
  BY Parts
<1>2. pc[r] = "auth" /\ op[r] \in Operations /\ op[r] \in Operation
      /\ op[r].kind \in AuthRoutes /\ doc[r] = Blank /\ answer[r] = "none"
  BY <1>1, OperationsAssumption DEF Authenticate, TypeOK, Local, StageInv, Unstored
<1>3. CASE op[r].email \notin User
  <2>1. UNCHANGED <<stores, crashes, spent>> /\ End(r, "error")
    BY <1>3 DEF Authenticate, stores
  <2>2. QED
    BY <1>2, <2>1, EndGood DEF Running
<1>4. CASE op[r].email \in User
  <2>1. PICK next \in {"mark", "load"} :
          /\ next = Handler(op[r], Blank).auth
          /\ next = "mark" => op[r].kind \in Resets
          /\ next = "load" => op[r].kind \notin Resets \cup {"verifyOTP"}
    BY <1>2, Places
  <2>2. /\ Continue(r, next) /\ UNCHANGED <<code, mark, mailed, crashes, spent>>
        /\ users' = [users EXCEPT ![op[r].email].tpinSet =
                       @ \/ users[op[r].email].tpin # NoSecret]
    BY <1>4, <2>1 DEF Authenticate
  <2>3. Grows
    BY <1>1, <2>2, WitnessGrows DEF Grows, TypeOK
  <2>4. users' \in [User -> UserDoc]
    <3>1. users[op[r].email] \in UserDoc
      BY <1>1, <1>4 DEF TypeOK
    <3>2. PICK b \in BOOLEAN :
            b = (users[op[r].email].tpinSet \/ users[op[r].email].tpin # NoSecret)
      OBVIOUS
    <3>3. users' = [users EXCEPT ![op[r].email].tpinSet = b]
      BY <2>2, <3>2
    <3>4. [users[op[r].email] EXCEPT !.tpinSet = b] \in UserDoc
      BY <3>1 DEF UserDoc
    <3>5. QED
      BY <1>1, <3>3, <3>4 DEF TypeOK
  <2>5. TypeOK'
    BY <1>1, <2>1, <2>2, <2>4, ContinueMoves, WitnessGrows DEF TypeOK, Running
  <2>6. Moves(r)
    BY <1>1, <1>2, <2>2, ContinueMoves DEF Unstored
  <2>7. Local(r)'
    <3>1. pc'[r] = next /\ op'[r] = op[r] /\ doc'[r] = Blank /\ answer'[r] = "none"
      BY <1>1, <1>2, <2>2, ContinueMoves
    <3>2. QED
      BY <1>2, <2>1, <3>1 DEF Local, StageInv, KeepOf, SessionOf, Checked, Loaded, Unstored
  <2>8. QED
    BY <2>3, <2>5, <2>6, <2>7 DEF Good
<1>5. QED
  BY <1>3, <1>4

LEMMA ReadMarkGood ==
  ASSUME Inv, Witness, NEW r \in Request, ReadMark(r) PROVE Good(r)
<1>1. TypeOK /\ Local(r) /\ CodeInv
  BY Parts DEF Boxes
<1>2. pc[r] = "mark" /\ op[r] \in Operations /\ op[r] \in Operation
      /\ op[r].kind \in Resets /\ doc[r] = Blank /\ answer[r] = "none"
      /\ UNCHANGED <<stores, crashes, spent>>
  BY <1>1, OperationsAssumption DEF ReadMark, TypeOK, Local, StageInv, Unstored
<1>3. CASE End(r, "error")
  BY <1>2, <1>3, EndGood DEF Running
<1>4. CASE mark[Box(r)] /\ Continue(r, Handler(op[r], Blank).mark)
  <2>1. Continue(r, "load")
    BY <1>2, <1>4, Places
  <2>2. Box(r) \in Mailbox
    <3>1. op[r].email \in Email /\ op[r].kind \in {"resetPassword", "resetTPIN", "disable2FALogin"}
      BY <1>2 DEF Operation, Resets
    <3>2. PurposeOf(op[r]) \in Purpose
      BY <3>1, Purposes DEF Purpose
    <3>3. QED
      BY <3>1, <3>2 DEF Box, BoxOf, Mailbox
  <2>3. SpentFor(Box(r))
    BY <1>1, <1>4, <2>2 DEF CodeInv
  <2>4. Grows
    BY <1>1, <1>2, WitnessGrows DEF Grows, TypeOK, stores
  <2>5. TypeOK'
    BY <1>1, <1>2, <2>1, ContinueMoves, WitnessGrows DEF TypeOK, Running, stores
  <2>6. Moves(r)
    BY <1>1, <1>2, <2>1, ContinueMoves DEF Unstored
  <2>7. Local(r)'
    <3>1. pc'[r] = "load" /\ op'[r] = op[r] /\ doc'[r] = Blank /\ answer'[r] = "none"
      BY <1>1, <1>2, <2>1, ContinueMoves
    <3>2. SpentFor(Box(r))'
      <4>1. Box(r)' = Box(r)
        BY <3>1 DEF Box, BoxOf, PurposeOf
      <4>2. QED
        BY <2>3, <2>4, <4>1, SpentGrows
    <3>3. op[r].kind # "verifyOTP"
      BY <1>2 DEF Resets
    <3>4. QED
      BY <1>2, <3>1, <3>2, <3>3
         DEF Local, StageInv, KeepOf, SessionOf, Checked, Loaded, Unstored
  <2>8. QED
    BY <2>4, <2>5, <2>6, <2>7 DEF Good
<1>5. QED
  BY <1>3, <1>4 DEF ReadMark

LEMMA LoadGood ==
  ASSUME Inv, Witness, NEW r \in Request, Load(r) PROVE Good(r)
<1> DEFINE u == op[r].email
           d == users[u]
<1>1. TypeOK /\ Local(r) /\ \A v \in User : UserInv(v)
  BY Parts
<1>2. pc[r] = "load" /\ op[r] \in Operations /\ op[r] \in Operation
      /\ op[r].kind # "verifyOTP" /\ doc[r] = Blank /\ answer[r] = "none"
      /\ UNCHANGED <<stores, crashes, spent>>
  BY <1>1, OperationsAssumption DEF Load, TypeOK, Local, StageInv, Unstored
<1>3. CASE End(r, "error")
  BY <1>2, <1>3, EndGood DEF Running
<1>4. CASE ~End(r, "error")
  <2>1. /\ u \in User /\ MayProceed(op[r], d)
        /\ doc' = [doc EXCEPT ![r] = d]
        /\ pc' = [pc EXCEPT ![r] = Handler(op[r], d).load]
        /\ UNCHANGED <<op, answer>>
    BY <1>4 DEF Load
  <2>2. PICK next \in {"store", "save", "answer"} :
          /\ next = Handler(op[r], d).load
          /\ next = "store" => op[r].kind = "sendOTP"
          /\ op[r].kind = "sendOTP" => next = "store"
          /\ next = "save" => op[r].kind \in (AuthRoutes \cup Resets) \ {"transfer"}
    BY <1>2, Places
  <2>3. d \in UserDoc /\ UserInv(u)
    BY <1>1, <2>1 DEF TypeOK
  <2>4. pc' = [pc EXCEPT ![r] = next]
    BY <2>1, <2>2
  <2>5. pc'[r] = next /\ op'[r] = op[r] /\ doc'[r] = d /\ answer'[r] = "none"
    BY <1>1, <1>2, <2>1, <2>4 DEF TypeOK
  <2>6. Grows
    BY <1>1, <1>2, WitnessGrows DEF Grows, TypeOK, stores
  <2>7. TypeOK'
    BY <1>1, <1>2, <2>1, <2>3, <2>4, WitnessGrows DEF TypeOK, PC, Running, stores
  <2>8. Moves(r)
    BY <1>1, <1>2, <2>1, <2>4 DEF Moves, TypeOK, Unstored
  <2>9. op[r].kind \in Weighed => earned'[r] \/ (op[r].kind = "login" /\ d.twoFactor)
    <3>1. SUFFICES ASSUME op[r].kind \in Weighed, op[r].kind = "login" => ~d.twoFactor
                   PROVE  Rightful(r)'
      BY <1>1, WitnessGrows DEF TypeOK
    <3>2. /\ users' = users /\ op[r] # NoOp
          /\ HasKey(op[r], d)' = HasKey(op[r], d) /\ HasTPIN(op[r], d)' = HasTPIN(op[r], d)
      BY <1>2, <2>5, NamesAreDistinct DEF stores, HasKey, HasTPIN
    <3>3. CASE op[r].kind = "login"
      <4>1. op[r].given = d.password
        BY <2>1, <3>3, Checks
      <4>2. QED
        BY <2>1, <2>5, <3>1, <3>2, <3>3, <4>1, Zenon DEF Rightful
    <3>4. CASE op[r].kind \in {"verify2FA", "disable2FA"}
      <4>1. d.twoFactor /\ HasKey(op[r], d)
        BY <2>1, <3>4, Checks
      <4>2. QED
        BY <2>1, <2>5, <3>2, <3>4, <4>1, Zenon DEF Rightful
    <3>5. CASE op[r].kind = "enable2FA"
      <4>1. HasKey(op[r], d)
        BY <2>1, <3>5, Checks
      <4>2. QED
        BY <2>1, <2>5, <3>2, <3>5, <4>1, Zenon DEF Rightful
    <3>6. CASE op[r].kind \in {"changeTPIN", "transfer"}
      <4>1. HasTPIN(op[r], d)
        BY <2>1, <3>6, Checks
      <4>2. QED
        BY <2>1, <2>5, <3>2, <3>6, <4>1, Zenon DEF Rightful
    <3>7. CASE op[r].kind = "setTPIN"
      <4>1. d.tpin = NoSecret
        BY <2>1, <3>7, Checks
      <4>2. QED
        BY <2>1, <2>5, <3>2, <3>7, <4>1, Zenon DEF Rightful
    <3>8. QED
      BY <3>1, <3>3, <3>4, <3>5, <3>6, <3>7 DEF Weighed
  <2>10. op[r].kind \in Resets => SpentFor(Box(r))'
    <3>1. Box(r)' = Box(r)
      BY <2>5 DEF Box, BoxOf, PurposeOf
    <3>2. op[r].kind \in Resets => SpentFor(Box(r))
      BY <1>1, <1>2 DEF Local, StageInv
    <3>3. QED
      BY <2>6, <3>1, <3>2, SpentGrows
  <2>11. MayProceed(op[r], doc[r])' = MayProceed(op[r], d)
    BY <2>5 DEF MayProceed, HasKey, HasTPIN
  <2>12. StageInv(r)'
    BY <1>2, <2>1, <2>2, <2>5, <2>9, <2>10, <2>11
       DEF StageInv, Checked, Loaded, Unstored, Resets
  <2>13. KeepOf(r)'
    <3>1. d.tpin = NoSecret => Start[u].tpin = NoSecret
      BY <2>3 DEF UserInv
    <3>2. users' = users
      BY <1>2 DEF stores
    <3>3. QED
      BY <2>5, <3>1, <3>2 DEF KeepOf
  <2>14. SessionOf(r)'
    BY <2>5 DEF SessionOf
  <2>15. QED
    BY <2>6, <2>7, <2>8, <2>12, <2>13, <2>14 DEF Good, Local
<1>5. QED
  BY <1>3, <1>4

(* The steps after the document was looked at only go on.                  *)
LEMMA SaveFacts ==
  ASSUME Inv, NEW r \in Request, Save(r)
  PROVE  /\ op[r] \in Operations /\ op[r] \in Operation
         /\ op[r].kind \in (AuthRoutes \cup Resets) \ {"transfer"}
         /\ op[r].email \in User /\ MayProceed(op[r], doc[r])
         /\ op[r].new \in Secret /\ op[r].new # NoSecret
         /\ users' = [users EXCEPT ![op[r].email] = Written(r, users[op[r].email])]
<1>1. TypeOK /\ Local(r) /\ pc[r] = "save"
  BY Parts DEF Save
<1>2. op[r] \in Operations /\ op[r] \in Operation
  BY <1>1, OperationsAssumption DEF Local, StageInv
<1>3. op[r].new \in Secret
  BY <1>2 DEF Operation
<1>4. QED
  BY <1>1, <1>2, <1>3, NamesAreDistinct DEF Local, StageInv, Checked, Loaded, Save

(* What save writes, by the kind of the request.                           *)
LEMMA Writes ==
  ASSUME NEW r \in Request, NEW d
  PROVE  /\ op[r].kind = "resetPassword" => Written(r, d) = [d EXCEPT !.password = op[r].new]
         /\ op[r].kind \in {"setTPIN", "changeTPIN", "resetTPIN"} =>
              Written(r, d) = [d EXCEPT !.tpin = op[r].new, !.tpinSet = TRUE]
         /\ op[r].kind = "get2FASetup" => Written(r, d) = [d EXCEPT !.key = r]
         /\ op[r].kind = "enable2FA" =>
              Written(r, d) = [d EXCEPT !.twoFactor = @ \/ ~doc[r].twoFactor]
         /\ op[r].kind = "disable2FA" => Written(r, d) = [d EXCEPT !.twoFactor = FALSE]
         /\ op[r].kind = "disable2FALogin" =>
              Written(r, d) = [d EXCEPT !.twoFactor = @ /\ ~doc[r].twoFactor, !.key = NoSecret]
BY Zenon DEF Written

(* What a document that is written may have lost, and by whose leave.      *)
Lawful(d, w, u) ==
  /\ w.key = NoSecret => d.key = NoSecret \/ Proven(u, "disable_2fa")
  /\ w.tpin = NoSecret => d.tpin = NoSecret
  /\ w.twoFactor /\ w.key = NoSecret => Proven(u, "disable_2fa")
  /\ Sanctioned(u, d, w)

LEMMA SaveEffects ==
  ASSUME Inv, NEW r \in Request, Save(r)
  PROVE  LET u == op[r].email
             d == users[u]
             w == Written(r, d)
         IN  w \in UserDoc /\ Lawful(d, w, u)
<1> DEFINE u == op[r].email
           d == users[u]
           w == Written(r, d)
<1>1. /\ op[r] \in Operations /\ op[r] \in Operation
      /\ op[r].kind \in (AuthRoutes \cup Resets) \ {"transfer"}
      /\ u \in User /\ MayProceed(op[r], doc[r])
      /\ op[r].new \in Secret /\ op[r].new # NoSecret /\ op[r] # NoOp
  BY SaveFacts, NamesAreDistinct
<1>2. TypeOK /\ Local(r) /\ UserInv(u) /\ pc[r] = "save"
  BY <1>1, Parts DEF Save
<1>3. d \in UserDoc /\ doc[r] \in UserDoc
  BY <1>1, <1>2 DEF TypeOK
<1>4. /\ d.twoFactor /\ d.key = NoSecret => Proven(u, "disable_2fa")
      /\ doc[r].tpin = NoSecret => Start[u].tpin = NoSecret
      /\ doc[r].key # NoSecret => d.key # NoSecret \/ Proven(u, "disable_2fa")
  BY <1>2 DEF Local, KeepOf, UserInv, Checked, Loaded
<1>5. /\ op[r].kind \in Resets => Proven(u, PurposeOf(op[r]))
      /\ op[r].kind \in Weighed \ {"login"} => earned[r]
  BY <1>2 DEF Local, StageInv, SpentFor, Proven, Box, BoxOf, Checked, Loaded
<1>6. CASE op[r].kind = "resetPassword"
  <2>1. w = [d EXCEPT !.password = op[r].new]
    BY <1>6, Writes
  <2>2. /\ w \in UserDoc /\ w.key = d.key /\ w.tpin = d.tpin /\ w.password = op[r].new
        /\ w.twoFactor = d.twoFactor
    BY <1>1, <1>3, <2>1 DEF UserDoc
  <2>3. Saves(r, u, "resetPassword") /\ Proven(u, "password_reset")
    BY <1>2, <1>5, <1>6, Purposes DEF Resets, Saves
  <2>4. Sanctioned(u, d, w)
    BY <2>2, <2>3 DEF Sanctioned
  <2>5. QED
    BY <1>4, <2>2, <2>4 DEF Lawful
<1>7. CASE op[r].kind \in {"setTPIN", "changeTPIN", "resetTPIN"}
  <2>1. w = [d EXCEPT !.tpin = op[r].new, !.tpinSet = TRUE]
    BY <1>7, Writes
  <2>2. \/ Saves(r, u, "setTPIN") /\ earned[r]
        \/ Saves(r, u, "changeTPIN") /\ earned[r]
        \/ Saves(r, u, "resetTPIN") /\ Proven(u, "tpin_reset")
    BY <1>2, <1>5, <1>7, Purposes DEF Resets, Weighed, Saves
  <2>3. w \in UserDoc
    BY <1>1, <1>3, <2>1 DEF UserDoc
  <2>4. /\ w.key = d.key /\ w.tpin = op[r].new /\ w.password = d.password
        /\ w.twoFactor = d.twoFactor
    BY <1>3, <2>1 DEF UserDoc
  <2>5. Sanctioned(u, d, w)
    BY <2>2, <2>4 DEF Sanctioned
  <2>6. QED
    BY <1>1, <1>4, <2>3, <2>4, <2>5 DEF Lawful
<1>8. CASE op[r].kind = "get2FASetup"
  <2>1. w = [d EXCEPT !.key = r]
    BY <1>8, Writes
  <2>2. r \in Secret /\ r # NoSecret
    BY NamesAreDistinct
  <2>3. QED
    BY <1>3, <1>4, <2>1, <2>2 DEF UserDoc, Lawful, Sanctioned
<1>9. CASE op[r].kind = "enable2FA"
  <2>1. PICK b \in BOOLEAN : b = (d.twoFactor \/ ~doc[r].twoFactor)
    OBVIOUS
  <2>2. w = [d EXCEPT !.twoFactor = b]
    <3>1. w = [d EXCEPT !.twoFactor = @ \/ ~doc[r].twoFactor]
      BY <1>9, Zenon DEF Written
    <3>2. QED
      BY <2>1, <3>1, Zenon
  <2>3. w \in UserDoc
    BY <1>3, <2>2 DEF UserDoc
  <2>4. /\ w.key = d.key /\ w.tpin = d.tpin /\ w.password = d.password
        /\ w.twoFactor = b
    BY <1>3, <2>2 DEF UserDoc
  <2>5. d.key # NoSecret \/ Proven(u, "disable_2fa")
    BY <1>1, <1>4, <1>9, Checks DEF HasKey
  <2>6. w.twoFactor # d.twoFactor => w.twoFactor
    <3>1. d.twoFactor => w.twoFactor
      BY <2>1, <2>4
    <3>2. d.twoFactor \in BOOLEAN /\ w.twoFactor \in BOOLEAN
      BY <1>3, <2>3 DEF UserDoc
    <3>3. QED
      BY <3>1, <3>2
  <2>7. Saves(r, u, "enable2FA") /\ earned[r]
    BY <1>2, <1>5, <1>9 DEF Weighed, Saves
  <2>8. Sanctioned(u, d, w)
    BY <2>4, <2>6, <2>7 DEF Sanctioned
  <2>9. QED
    BY <1>4, <2>3, <2>4, <2>5, <2>8 DEF Lawful
<1>10. CASE op[r].kind = "disable2FA"
  <2>1. w = [d EXCEPT !.twoFactor = FALSE]
    BY <1>10, Zenon DEF Written
  <2>2. Saves(r, u, "disable2FA") /\ earned[r]
    BY <1>2, <1>5, <1>10 DEF Weighed, Saves
  <2>3. /\ w \in UserDoc /\ w.key = d.key /\ w.tpin = d.tpin /\ w.password = d.password
        /\ w.twoFactor = FALSE
    BY <1>3, <2>1 DEF UserDoc
  <2>4. Sanctioned(u, d, w)
    BY <2>2, <2>3 DEF Sanctioned
  <2>5. QED
    BY <2>3, <2>4 DEF Lawful
<1>11. CASE op[r].kind = "disable2FALogin"
  <2>1. PICK b \in BOOLEAN : b = (d.twoFactor /\ ~doc[r].twoFactor)
    OBVIOUS
  <2>2. w = [d EXCEPT !.twoFactor = b, !.key = NoSecret]
    <3>1. w = [d EXCEPT !.twoFactor = @ /\ ~doc[r].twoFactor, !.key = NoSecret]
      BY <1>11, Zenon DEF Written
    <3>2. QED
      BY <2>1, <3>1, Zenon
  <2>3. Proven(u, "disable_2fa")
    BY <1>5, <1>11, Purposes DEF Resets
  <2>4. w \in UserDoc
    BY <1>3, <2>2 DEF UserDoc
  <2>5. w.tpin = d.tpin /\ w.password = d.password /\ w.twoFactor = b
    BY <1>3, <2>2 DEF UserDoc
  <2>6. w.twoFactor # d.twoFactor => ~w.twoFactor
    BY <2>1, <2>5
  <2>7. Saves(r, u, "disable2FALogin")
    BY <1>2, <1>11 DEF Saves
  <2>8. Sanctioned(u, d, w)
    BY <2>3, <2>5, <2>6, <2>7 DEF Sanctioned
  <2>9. QED
    BY <1>4, <2>3, <2>4, <2>5, <2>8 DEF Lawful
<1>12. QED
  BY <1>1, <1>6, <1>7, <1>8, <1>9, <1>10, <1>11 DEF AuthRoutes, Resets

(* A request that has looked at its document and goes on keeps its part of *)
(* the invariant.                                                          *)
LEMMA OnwardLocal ==
  ASSUME NEW r \in Request, TypeOK, Local(r), Grows, KeysKept, pc[r] \in {"save", "clear"},
         op[r] \in Operations, NEW next \in {"clear", "answer"}, Continue(r, next),
         next = "clear" => op[r].kind \in Resets,
         op[r].kind \in (AuthRoutes \cup Resets) \ {"transfer"}
  PROVE  Local(r)'
<1>1. /\ pc'[r] = next /\ op'[r] = op[r] /\ doc'[r] = doc[r] /\ answer'[r] = answer[r]
      /\ answer[r] = "none" /\ Checked(r)
  BY ContinueMoves DEF Local, StageInv, Checked, Loaded
<1>2. Box(r)' = Box(r) /\ MayProceed(op[r], doc[r])' = MayProceed(op[r], doc[r])
  BY <1>1 DEF Box, BoxOf, PurposeOf, MayProceed, HasKey, HasTPIN
<1>3. StageInv(r)'
  <2>1. op[r].email \in User /\ MayProceed(op[r], doc[r])
    BY <1>1 DEF Local, StageInv
  <2>2. op[r].kind \in Resets => SpentFor(Box(r))'
    BY <1>2, SpentGrows DEF Local, StageInv
  <2>3. op[r].kind \in Weighed => earned'[r]
    BY <1>1 DEF Local, StageInv, Grows, AuthRoutes, Resets
  <2>4. QED
    BY <1>1, <1>2, <2>1, <2>2, <2>3
       DEF StageInv, Checked, Loaded, Unstored, AuthRoutes, Resets, Weighed
<1>4. KeepOf(r)'
  <2>1. op[r].email \in User
    BY <1>1 DEF Local, StageInv
  <2>2. QED
    BY <1>1, <2>1, SpentGrows DEF Local, KeepOf, KeysKept
<1>5. SessionOf(r)'
  BY <1>1 DEF SessionOf
<1>6. QED
  BY <1>3, <1>4, <1>5 DEF Local

LEMMA SaveGood ==
  ASSUME Inv, Witness, NEW r \in Request, Save(r) PROVE Good(r) /\ KeysKept
<1> DEFINE u == op[r].email
           w == Written(r, users[u])
<1>1. TypeOK /\ Local(r)
  BY Parts
<1>2. /\ op[r] \in Operations /\ op[r] \in Operation /\ u \in User
      /\ op[r].kind \in (AuthRoutes \cup Resets) \ {"transfer"}
      /\ users' = [users EXCEPT ![u] = w]
  BY SaveFacts
<1>3. pc[r] = "save" /\ UNCHANGED <<code, mark, mailed, crashes, spent>>
  BY DEF Save
<1>4. PICK next \in {"clear", "answer"} :
        /\ next = Handler(op[r], doc[r]).save
        /\ next = "clear" => op[r].kind \in Resets
  BY <1>2, Places
<1>5. Continue(r, next)
  BY <1>4 DEF Save
<1>6. w \in UserDoc /\ Lawful(users[u], w, u)
  BY SaveEffects
<1>7. Grows
  BY <1>1, <1>3, WitnessGrows DEF Grows, TypeOK
<1>8. TypeOK'
  BY <1>1, <1>2, <1>3, <1>4, <1>5, <1>6, ContinueMoves, WitnessGrows DEF TypeOK, Running
<1>9. Moves(r)
  BY <1>1, <1>5, ContinueMoves DEF Unstored
<1>10. KeysKept
  BY <1>1, <1>2, <1>6, <1>7, SpentGrows DEF KeysKept, TypeOK, Lawful
<1>11. Local(r)'
  BY <1>1, <1>2, <1>3, <1>4, <1>5, <1>7, <1>10, OnwardLocal
<1>12. QED
  BY <1>7, <1>8, <1>9, <1>10, <1>11 DEF Good

LEMMA ClearGood ==
  ASSUME Inv, Witness, NEW r \in Request, Clear(r) PROVE Good(r)
<1>1. TypeOK /\ Local(r)
  BY Parts
<1>2. pc[r] = "clear" /\ op[r] \in Operations /\ op[r] \in Operation /\ op[r].kind \in Resets
      /\ UNCHANGED <<users, code, mailed, crashes, spent>>
  BY <1>1, OperationsAssumption DEF Clear, Local, StageInv
<1>3. Continue(r, "answer")
  BY <1>2, Places DEF Clear
<1>4. Grows /\ KeysKept
  BY <1>1, <1>2, WitnessGrows DEF Grows, KeysKept, TypeOK
<1>5. TypeOK'
  BY <1>1, <1>2, <1>3, ContinueMoves, WitnessGrows DEF Clear, TypeOK, Running
<1>6. Moves(r)
  BY <1>1, <1>3, ContinueMoves DEF Unstored
<1>7. Local(r)'
  BY <1>1, <1>2, <1>3, <1>4, OnwardLocal DEF Resets
<1>8. QED
  BY <1>4, <1>5, <1>6, <1>7 DEF Good

(* The steps of sendOTP and verifyOTP look at no document.                 *)
LEMMA CodeStepGood ==
  ASSUME Inv, Witness, NEW r \in Request, NEW next \in {"mail", "delete", "set", "answer"},
         Continue(r, next), op[r] \in Operations, pc[r] \in {"store", "mail", "get", "delete", "set"},
         next = "mail" => pc[r] = "store",
         op[r].kind = IF pc[r] \in {"store", "mail"} THEN "sendOTP" ELSE "verifyOTP",
         next \in {"delete", "set"} =>
           op[r].kind = "verifyOTP" /\ <<Box(r), op[r].given>> \in mailed,
         next = "set" => <<Box(r), op[r].given>> \in spent',
         op[r].kind = "verifyOTP" => op[r].given # NoSecret,
         users' = users, crashes' = crashes, mailed \subseteq mailed', spent \subseteq spent',
         code' \in [Mailbox -> Secret \cup {NoSecret}], mark' \in [Mailbox -> BOOLEAN],
         mailed' \in SUBSET (Mailbox \X Secret), spent' \in SUBSET (Mailbox \X Secret)
  PROVE  Good(r)
<1>1. TypeOK /\ Local(r)
  BY Parts
<1>2. Grows
  BY <1>1, WitnessGrows DEF Grows, TypeOK
<1>3. TypeOK'
  BY <1>1, ContinueMoves, WitnessGrows DEF TypeOK, Running
<1>4. Moves(r)
  BY <1>1, ContinueMoves DEF Unstored
<1>5. /\ pc'[r] = next /\ op'[r] = op[r] /\ answer'[r] = "none" /\ Box(r)' = Box(r)
  BY <1>1, ContinueMoves DEF Local, StageInv, Box, BoxOf, PurposeOf
<1>6. StageInv(r)'
  BY <1>5 DEF StageInv, Checked, Loaded, Unstored, Resets
<1>7. KeepOf(r)' /\ SessionOf(r)'
  BY <1>5 DEF KeepOf, SessionOf, Checked, Loaded
<1>8. QED
  BY <1>2, <1>3, <1>4, <1>6, <1>7 DEF Good, Local

LEMMA BoxesAreMailboxes ==
  ASSUME NEW r \in Request, op[r] \in Operation PROVE Box(r) \in Mailbox
<1>1. op[r].email \in Email /\ op[r].purpose \in Purpose
  BY DEF Operation
<1>2. PurposeOf(op[r]) \in Purpose
  BY <1>1, Purposes DEF Purpose, Resets
<1>3. QED
  BY <1>1, <1>2 DEF Box, BoxOf, Mailbox

(* What a request of sendOTP or verifyOTP has seen.                        *)
LEMMA CodeFacts ==
  ASSUME Inv, NEW r \in Request, pc[r] \in {"store", "mail", "get", "delete", "set"}
  PROVE  /\ TypeOK /\ Boxes /\ Local(r)
         /\ op[r] \in Operations /\ op[r] \in Operation /\ Box(r) \in Mailbox
         /\ r \in Secret /\ r # NoSecret
         /\ op[r].kind = IF pc[r] \in {"store", "mail"} THEN "sendOTP" ELSE "verifyOTP"
         /\ pc[r] \in {"get", "delete", "set"} => op[r].given \in Secret /\ op[r].given # NoSecret
<1>1. TypeOK /\ Boxes /\ Local(r)
  BY Parts
<1>2. op[r] \in Operations /\ op[r] \in Operation
  BY <1>1, OperationsAssumption DEF Local, StageInv
<1>3. op[r].given \in Secret \cup {NoSecret}
  BY <1>2 DEF Operation
<1>4. QED
  BY <1>1, <1>2, <1>3, NamesAreDistinct, BoxesAreMailboxes DEF Local, StageInv

LEMMA StoreCodeGood ==
  ASSUME Inv, Witness, NEW r \in Request, StoreCode(r) PROVE Good(r) /\ Boxes'
<1> DEFINE k == Box(r)
<1>1. /\ TypeOK /\ Boxes /\ op[r] \in Operations /\ op[r] \in Operation /\ k \in Mailbox
      /\ r \in Secret /\ r # NoSecret /\ op[r].kind = "sendOTP" /\ pc[r] = "store"
      /\ UNCHANGED <<users, mark, mailed, crashes, spent>> /\ code' = [code EXCEPT ![k] = r]
  BY CodeFacts DEF StoreCode
<1>2. Continue(r, "mail")
  BY <1>1, Places DEF StoreCode
<1>3. Good(r)
  <2>1. /\ code' \in [Mailbox -> Secret \cup {NoSecret}] /\ mark' \in [Mailbox -> BOOLEAN]
        /\ mailed' \in SUBSET (Mailbox \X Secret) /\ spent' \in SUBSET (Mailbox \X Secret)
    BY <1>1 DEF TypeOK
  <2>2. /\ users' = users /\ crashes' = crashes
        /\ mailed \subseteq mailed' /\ spent \subseteq spent'
    BY <1>1
  <2>3. QED
    BY <1>1, <1>2, <2>1, <2>2, CodeStepGood
<1>4. CodesAreSpent'
  <2>1. <<k, r>> \notin mailed
    <3>1. ~DrawnFor(k, r, Unstored \cup {"mail"})
      BY <1>1, NamesAreDistinct DEF DrawnFor, Unstored
    <3>2. QED
      BY <1>1, <3>1 DEF Boxes, CodeInv
  <2>2. QED
    BY <1>1, <2>1 DEF Boxes, CodesAreSpent, TypeOK
<1>5. Forward
  BY <1>3, MovesForward DEF Good
<1>6. ASSUME NEW b \in Mailbox, code'[b] # NoSecret PROVE DrawnFor(b, code[b], Unstored)'
  <2>1. CASE b = k
    <3>1. code'[b] = r
      BY <1>1, <2>1 DEF TypeOK
    <3>2. op'[r] = op[r] /\ pc'[r] = "mail" /\ op[r] # NoOp
      BY <1>1, <1>2, ContinueMoves, NamesAreDistinct
    <3>3. BoxOf(op[r])' = b
      BY <2>1, <3>2 DEF Box, BoxOf, PurposeOf
    <3>4. QED
      BY <3>1, <3>2, <3>3 DEF DrawnFor, Unstored
  <2>2. CASE b # k
    <3>1. code'[b] = code[b] /\ DrawnFor(b, code[b], Unstored)
      BY <1>1, <1>6, <2>2 DEF TypeOK, Boxes, CodeInv
    <3>2. PICK c : c = code[b]
      OBVIOUS
    <3>3. DrawnFor(b, c, Unstored)'
      BY <1>5, <3>1, <3>2, DrawnStays
    <3>4. QED
      BY <3>1, <3>2, <3>3
  <2>3. QED
    BY <2>1, <2>2
<1>7. ASSUME NEW b \in Mailbox, mark'[b] PROVE SpentFor(b)'
  BY <1>1, <1>7 DEF Boxes, CodeInv, SpentFor
<1>8. ASSUME NEW e \in mailed' PROVE DrawnFor(e[1], e[2], Unstored \cup {"mail"})'
  BY <1>1, <1>5, <1>8, DrawnStays DEF Boxes, CodeInv
<1>9. QED
  BY <1>3, <1>4, <1>6, <1>7, <1>8 DEF Boxes, CodeInv

LEMMA MailCodeGood ==
  ASSUME Inv, Witness, NEW r \in Request, MailCode(r) PROVE Good(r) /\ Boxes'
<1> DEFINE k == Box(r)
<1>1. /\ TypeOK /\ Boxes /\ op[r] \in Operations /\ op[r] \in Operation /\ k \in Mailbox
      /\ r \in Secret /\ r # NoSecret /\ op[r].kind = "sendOTP" /\ pc[r] = "mail"
      /\ UNCHANGED <<users, code, mark, crashes, spent>> /\ mailed' = mailed \cup {<<k, r>>}
  BY CodeFacts DEF MailCode
<1>2. Continue(r, "answer")
  BY <1>1, Places DEF MailCode
<1>3. Good(r)
  <2>1. /\ code' \in [Mailbox -> Secret \cup {NoSecret}] /\ mark' \in [Mailbox -> BOOLEAN]
        /\ mailed' \in SUBSET (Mailbox \X Secret) /\ spent' \in SUBSET (Mailbox \X Secret)
    BY <1>1 DEF TypeOK
  <2>2. /\ users' = users /\ crashes' = crashes
        /\ mailed \subseteq mailed' /\ spent \subseteq spent'
    BY <1>1
  <2>3. QED
    BY <1>1, <1>2, <2>1, <2>2, CodeStepGood
<1>4. CodesAreSpent'
  BY <1>1 DEF Boxes, CodesAreSpent
<1>5. Forward
  BY <1>3, MovesForward DEF Good
<1>6. ASSUME NEW b \in Mailbox, code'[b] # NoSecret PROVE DrawnFor(b, code[b], Unstored)'
  <2>1. code'[b] = code[b] /\ DrawnFor(b, code[b], Unstored)
    BY <1>1, <1>6 DEF Boxes, CodeInv
  <2>2. PICK c : c = code[b]
    OBVIOUS
  <2>3. DrawnFor(b, c, Unstored)'
    BY <1>5, <2>1, <2>2, DrawnStays
  <2>4. QED
    BY <2>1, <2>2, <2>3
<1>7. ASSUME NEW b \in Mailbox, mark'[b] PROVE SpentFor(b)'
  BY <1>1, <1>7 DEF Boxes, CodeInv, SpentFor
<1>8. ASSUME NEW e \in mailed' PROVE DrawnFor(e[1], e[2], Unstored \cup {"mail"})'
  <2>1. CASE e \in mailed
    BY <1>1, <1>5, <2>1, DrawnStays DEF Boxes, CodeInv
  <2>2. CASE e = <<k, r>>
    <3>1. op'[r] = op[r] /\ pc'[r] = "answer" /\ op[r] # NoOp
      BY <1>1, <1>2, ContinueMoves, NamesAreDistinct
    <3>2. BoxOf(op[r])' = k
      BY <3>1 DEF Box, BoxOf, PurposeOf
    <3>3. e[1] = k /\ e[2] = r
      BY <2>2
    <3>4. QED
      BY <3>1, <3>2, <3>3 DEF DrawnFor, Unstored
  <2>3. QED
    BY <1>1, <1>8, <2>1, <2>2
<1>9. QED
  BY <1>3, <1>4, <1>6, <1>7, <1>8 DEF Boxes, CodeInv

(* A code that is the one stored, and that came by mail, came by mail for  *)
(* that mailbox.                                                           *)
LEMMA GetCodeGood ==
  ASSUME Inv, Witness, NEW r \in Request, GetCode(r) PROVE Good(r)
<1> DEFINE k == Box(r)
<1>1. /\ TypeOK /\ Boxes /\ Local(r) /\ op[r] \in Operations /\ op[r] \in Operation
      /\ k \in Mailbox /\ op[r].kind = "verifyOTP" /\ pc[r] = "get"
      /\ op[r].given \in Secret /\ op[r].given # NoSecret
      /\ UNCHANGED <<stores, crashes, spent>>
  BY CodeFacts DEF GetCode
<1>2. CASE End(r, "error")
  BY <1>1, <1>2, EndGood DEF Running
<1>3. CASE code[k] = op[r].given /\ Continue(r, Handler(op[r], Blank).get)
  <2>1. Continue(r, "delete")
    BY <1>1, <1>3, Places
  <2>2. <<k, op[r].given>> \in mailed
    <3>1. PICK b \in {op[r].email} \X Purpose : <<b, op[r].given>> \in mailed
      BY <1>1 DEF Local, StageInv, Sendable
    <3>2. DrawnFor(b, op[r].given, Unstored \cup {"mail"})
      BY <1>1, <3>1 DEF Boxes, CodeInv
    <3>3. DrawnFor(k, op[r].given, Unstored)
      BY <1>1, <1>3 DEF Boxes, CodeInv
    <3>4. b \in Mailbox
      BY <1>1, <3>1 DEF TypeOK
    <3>5. b = k
      BY <1>1, <3>2, <3>3, <3>4, NamesAreDistinct DEF DrawnFor
    <3>6. QED
      BY <3>1, <3>5
  <2>3. /\ code' \in [Mailbox -> Secret \cup {NoSecret}] /\ mark' \in [Mailbox -> BOOLEAN]
        /\ mailed' \in SUBSET (Mailbox \X Secret) /\ spent' \in SUBSET (Mailbox \X Secret)
    BY <1>1 DEF TypeOK, stores
  <2>4. /\ users' = users /\ crashes' = crashes
        /\ mailed \subseteq mailed' /\ spent \subseteq spent'
    BY <1>1 DEF stores
  <2>5. QED
    BY <1>1, <2>1, <2>2, <2>3, <2>4, CodeStepGood
<1>4. QED
  BY <1>2, <1>3 DEF GetCode

LEMMA DeleteCodeGood ==
  ASSUME Inv, Witness, NEW r \in Request, DeleteCode(r) PROVE Good(r) /\ Boxes'
<1> DEFINE k == Box(r)
           c == op[r].given
<1>1. /\ TypeOK /\ Boxes /\ op[r] \in Operations /\ op[r] \in Operation /\ k \in Mailbox
      /\ op[r].kind = "verifyOTP" /\ pc[r] = "delete" /\ c \in Secret /\ c # NoSecret
      /\ <<k, c>> \in mailed
      /\ UNCHANGED <<users, mark, mailed, crashes>>
      /\ code' = [code EXCEPT ![k] = NoSecret] /\ spent' = spent \cup {<<k, c>>}
  BY CodeFacts DEF DeleteCode, Local, StageInv
<1>2. Continue(r, "set")
  BY <1>1, Places DEF DeleteCode
<1>3. Good(r)
  <2>1. /\ code' \in [Mailbox -> Secret \cup {NoSecret}] /\ mark' \in [Mailbox -> BOOLEAN]
        /\ mailed' \in SUBSET (Mailbox \X Secret) /\ spent' \in SUBSET (Mailbox \X Secret)
    BY <1>1 DEF TypeOK
  <2>2. /\ users' = users /\ crashes' = crashes
        /\ mailed \subseteq mailed' /\ spent \subseteq spent'
    BY <1>1
  <2>3. QED
    BY <1>1, <1>2, <2>1, <2>2, CodeStepGood
<1>4. CodesAreSpent'
  <2>1. \A b \in Mailbox : <<b, NoSecret>> \notin spent'
    BY <1>1, NamesAreDistinct DEF TypeOK
  <2>2. QED
    BY <1>1, <2>1 DEF Boxes, CodesAreSpent, TypeOK
<1>5. Forward
  BY <1>3, MovesForward DEF Good
<1>6. ASSUME NEW b \in Mailbox, code'[b] # NoSecret PROVE DrawnFor(b, code[b], Unstored)'
  <2>1. code'[b] = code[b] /\ DrawnFor(b, code[b], Unstored)
    BY <1>1, <1>6 DEF Boxes, CodeInv, TypeOK
  <2>2. PICK d : d = code[b]
    OBVIOUS
  <2>3. DrawnFor(b, d, Unstored)'
    BY <1>5, <2>1, <2>2, DrawnStays
  <2>4. QED
    BY <2>1, <2>2, <2>3
<1>7. ASSUME NEW b \in Mailbox, mark'[b] PROVE SpentFor(b)'
  BY <1>1, <1>7 DEF Boxes, CodeInv, SpentFor
<1>8. ASSUME NEW e \in mailed' PROVE DrawnFor(e[1], e[2], Unstored \cup {"mail"})'
  BY <1>1, <1>5, <1>8, DrawnStays DEF Boxes, CodeInv
<1>9. QED
  BY <1>3, <1>4, <1>6, <1>7, <1>8 DEF Boxes, CodeInv

LEMMA SetMarkGood ==
  ASSUME Inv, Witness, NEW r \in Request, SetMark(r) PROVE Good(r) /\ Boxes'
<1> DEFINE k == Box(r)
           c == op[r].given
<1>1. /\ TypeOK /\ Boxes /\ op[r] \in Operations /\ op[r] \in Operation /\ k \in Mailbox
      /\ op[r].kind = "verifyOTP" /\ pc[r] = "set" /\ c \in Secret /\ c # NoSecret
      /\ <<k, c>> \in spent
      /\ UNCHANGED <<users, code, mailed, crashes, spent>>
      /\ mark' = [mark EXCEPT ![k] = TRUE]
  BY CodeFacts DEF SetMark, Local, StageInv
<1>2. Continue(r, "answer")
  BY <1>1, Places DEF SetMark
<1>3. Good(r)
  <2>1. /\ code' \in [Mailbox -> Secret \cup {NoSecret}] /\ mark' \in [Mailbox -> BOOLEAN]
        /\ mailed' \in SUBSET (Mailbox \X Secret) /\ spent' \in SUBSET (Mailbox \X Secret)
    BY <1>1 DEF TypeOK
  <2>2. /\ users' = users /\ crashes' = crashes
        /\ mailed \subseteq mailed' /\ spent \subseteq spent'
    BY <1>1
  <2>3. QED
    BY <1>1, <1>2, <2>1, <2>2, CodeStepGood
<1>4. CodesAreSpent'
  BY <1>1 DEF Boxes, CodesAreSpent
<1>5. Forward
  BY <1>3, MovesForward DEF Good
<1>6. ASSUME NEW b \in Mailbox, code'[b] # NoSecret PROVE DrawnFor(b, code[b], Unstored)'
  <2>1. code'[b] = code[b] /\ DrawnFor(b, code[b], Unstored)
    BY <1>1, <1>6 DEF Boxes, CodeInv
  <2>2. PICK d : d = code[b]
    OBVIOUS
  <2>3. DrawnFor(b, d, Unstored)'
    BY <1>5, <2>1, <2>2, DrawnStays
  <2>4. QED
    BY <2>1, <2>2, <2>3
<1>7. ASSUME NEW b \in Mailbox, mark'[b] PROVE SpentFor(b)'
  <2>1. CASE b = k
    BY <1>1, <2>1 DEF SpentFor
  <2>2. CASE b # k
    BY <1>1, <1>7, <2>2 DEF Boxes, CodeInv, SpentFor, TypeOK
  <2>3. QED
    BY <2>1, <2>2
<1>8. ASSUME NEW e \in mailed' PROVE DrawnFor(e[1], e[2], Unstored \cup {"mail"})'
  BY <1>1, <1>5, <1>8, DrawnStays DEF Boxes, CodeInv
<1>9. QED
  BY <1>3, <1>4, <1>6, <1>7, <1>8 DEF Boxes, CodeInv

-----------------------------------------------------------------------------
(* A step of a request keeps the invariant.                                *)
LEMMA GoodKeepsInv ==
  ASSUME Inv, NEW r \in Request, Good(r), Boxes', KeysKept, \A u \in User : UserInv(u)'
  PROVE  Inv'
<1>1. ASSUME NEW q \in Request PROVE Local(q)'
  <2>1. CASE q = r
    BY <2>1 DEF Good
  <2>2. CASE q # r
    <3>1. Local(q) /\ op[q] \in Operations \cup {NoOp}
      BY Parts DEF TypeOK
    <3>2. op'[q] = op[q] /\ pc'[q] = pc[q] /\ doc'[q] = doc[q] /\ answer'[q] = answer[q]
      BY <2>2 DEF Good, Moves
    <3>3. QED
      BY <3>1, <3>2, Frame DEF Good
  <2>3. QED
    BY <2>1, <2>2
<1>2. QED
  BY <1>1 DEF Good, Inv, Boxes, Local, KeepOf, SessionOf, UserInv, KeepInv,
              SessionsAreEarned, NobodyIsLockedOut

(* All steps but save keep the documents, but for a flag.                  *)
LEMMA UsersKept ==
  ASSUME Inv, NEW r \in Request, Moves(r), Grows, users' = users
  PROVE  KeysKept /\ \A u \in User : UserInv(u)'
<1>1. KeysKept
  BY DEF KeysKept
<1>2. \A q \in Request : (op'[q] = op[q] \/ op[q] = NoOp) /\ (doc'[q] = doc[q] \/ doc[q] = Blank)
  BY DEF Moves
<1>3. QED
  BY <1>1, <1>2, Parts, UsersStay

(* Requests whose step changes nothing that is stored.                     *)
LEMMA QuietKeepsInv ==
  ASSUME Inv, NEW r \in Request, Good(r), UNCHANGED <<stores, spent>>
  PROVE  Inv'
<1>1. Boxes'
  BY Parts, MovesForward, BoxesStay DEF Good, stores
<1>2. KeysKept /\ \A u \in User : UserInv(u)'
  BY UsersKept DEF Good, stores
<1>3. QED
  BY <1>1, <1>2, GoodKeepsInv

(* isAuth changes a flag at most.                                          *)
LEMMA AuthenticateSettings ==
  ASSUME TypeOK, NEW r \in Request, Authenticate(r), NEW u \in User
  PROVE  /\ users'[u].password = users[u].password /\ users'[u].tpin = users[u].tpin
         /\ users'[u].twoFactor = users[u].twoFactor /\ users'[u].key = users[u].key
<1>1. users[u] \in UserDoc
  BY DEF TypeOK
<1>2. CASE users' = users
  BY <1>2
<1>3. CASE users' # users
  <2>1. PICK b : users' = [users EXCEPT ![op[r].email].tpinSet = b]
    BY <1>3 DEF Authenticate
  <2>2. CASE u # op[r].email
    BY <2>1, <2>2 DEF TypeOK
  <2>3. CASE u = op[r].email
    <3>1. users'[u] = [users[u] EXCEPT !.tpinSet = b]
      BY <2>1, <2>3 DEF TypeOK
    <3>2. QED
      BY <1>1, <3>1 DEF UserDoc
  <2>4. QED
    BY <2>2, <2>3
<1>4. QED
  BY <1>2, <1>3

LEMMA AuthenticateKeepsInv ==
  ASSUME Inv, Witness, NEW r \in Request, Authenticate(r) PROVE Inv'
<1>1. TypeOK /\ Boxes /\ Good(r)
  BY Parts, AuthenticateGood
<1>2. UNCHANGED <<code, mark, mailed, crashes, spent>>
  BY DEF Authenticate
<1>3. Boxes'
  BY <1>1, <1>2, MovesForward, BoxesStay DEF Good
<1>4. KeysKept
  BY <1>1, AuthenticateSettings DEF KeysKept
<1>5. ASSUME NEW u \in User PROVE UserInv(u)'
  BY <1>1, Parts, AuthenticateSettings, UsersStay DEF Good
<1>6. QED
  BY <1>1, <1>3, <1>4, <1>5, GoodKeepsInv

LEMMA SaveKeepsInv ==
  ASSUME Inv, Witness, NEW r \in Request, Save(r) PROVE Inv'
<1>0. PICK v \in User : v = op[r].email
  BY SaveFacts
<1> DEFINE w == Written(r, users[v])
<1>1. TypeOK /\ Boxes /\ Good(r) /\ KeysKept
  BY Parts, SaveGood
<1>2. UNCHANGED <<code, mark, mailed, crashes, spent>>
  BY DEF Save
<1>3. Boxes'
  BY <1>1, <1>2, MovesForward, BoxesStay DEF Good
<1>4. v \in User /\ users' = [users EXCEPT ![v] = w] /\ Lawful(users[v], w, v)
  BY <1>0, SaveFacts, SaveEffects
<1>5. \A q \in Request : (op'[q] = op[q] \/ op[q] = NoOp) /\ (doc'[q] = doc[q] \/ doc[q] = Blank)
  BY <1>1 DEF Good, Moves
<1>6. Grows
  BY <1>1 DEF Good
<1>7. ASSUME NEW u \in User, u # v PROVE UserInv(u)'
  BY <1>1, <1>4, <1>5, <1>6, <1>7, Parts, UsersStay DEF TypeOK
<1>8. UserInv(v)'
  <2>1. UserInv(v) /\ users'[v] = w
    BY <1>1, <1>4, Parts DEF TypeOK
  <2>2. \A p : Proven(v, p) => Proven(v, p)'
    BY <1>6, SpentGrows
  <2>3. QED
    BY <1>4, <2>1, <2>2 DEF UserInv, Lawful
<1>9. \A u \in User : UserInv(u)'
  <2>1. ASSUME NEW u \in User PROVE UserInv(u)'
    <3>1. CASE u = v
      BY <1>8, <3>1
    <3>2. QED
      BY <1>7, <3>1
  <2>2. QED
    BY <2>1
<1>10. QED
  BY <1>1, <1>3, <1>9, GoodKeepsInv

(* The mailboxes lapse, and the process dies.                              *)
LEMMA IdleKeepsInv ==
  ASSUME Inv, Grows, TypeOK', Boxes', users' = users, op' = op, doc' = doc, answer' = answer,
         \A q \in Request : pc'[q] = pc[q] \/ (pc[q] \in Running /\ pc'[q] = "lost")
  PROVE  Inv'
<1>1. KeysKept
  BY DEF KeysKept
<1>2. \A u \in User : UserInv(u)'
  BY Parts, UsersStay
<1>3. ASSUME NEW q \in Request PROVE Local(q)'
  <2>1. Local(q) /\ op[q] \in Operations \cup {NoOp}
    BY Parts DEF TypeOK
  <2>2. CASE pc'[q] = pc[q]
    BY <1>1, <2>1, <2>2, Frame
  <2>3. CASE pc[q] \in Running /\ pc'[q] = "lost"
    <3>1. answer[q] = "none" /\ op[q] \in Operations
      BY <2>1, <2>3 DEF Local, StageInv, Running
    <3>2. QED
      BY <2>3, <3>1 DEF Local, StageInv, KeepOf, SessionOf, Checked, Loaded, Unstored
  <2>4. QED
    BY <2>2, <2>3
<1>4. QED
  BY <1>2, <1>3 DEF Inv, Boxes, Local, KeepOf, SessionOf, UserInv, KeepInv,
                    SessionsAreEarned, NobodyIsLockedOut

LEMMA ExpireKeepsInv ==
  ASSUME Inv, Witness, NEW k \in Mailbox, Expire(k) PROVE Inv'
<1>1. TypeOK /\ Boxes
  BY Parts
<1>2. UNCHANGED <<users, mailed, handlers, crashes, spent>>
  BY DEF Expire
<1>3. Grows
  BY <1>1, <1>2, WitnessGrows DEF Grows, TypeOK
<1>4. /\ code' \in [Mailbox -> Secret \cup {NoSecret}] /\ mark' \in [Mailbox -> BOOLEAN]
      /\ \A b \in Mailbox : code'[b] \in {code[b], NoSecret} /\ (mark'[b] => mark[b])
  BY <1>1 DEF Expire, TypeOK
<1>5. TypeOK'
  BY <1>1, <1>2, <1>4, WitnessGrows DEF TypeOK, handlers
<1>6. Boxes'
  BY <1>1, <1>2, <1>4, <1>5, BoxesStay DEF Forward, handlers
<1>7. QED
  BY <1>2, <1>3, <1>5, <1>6, IdleKeepsInv DEF handlers

LEMMA CrashKeepsInv ==
  ASSUME Inv, Witness, Crash PROVE Inv'
<1>1. TypeOK /\ Boxes
  BY Parts
<1>2. UNCHANGED <<stores, op, doc, answer, spent>>
  BY DEF Crash
<1>3. Grows
  BY <1>1, <1>2, WitnessGrows DEF Grows, TypeOK, stores
<1>4. \A q \in Request : pc'[q] = pc[q] \/ (pc[q] \in Running /\ pc'[q] = "lost")
  BY DEF Crash
<1>5. TypeOK'
  BY <1>1, <1>2, CrashAssumption, WitnessGrows DEF Crash, TypeOK, PC, stores
<1>6. Boxes'
  BY <1>1, <1>2, <1>4, <1>5, BoxesStay DEF Forward, Unstored, stores
<1>7. QED
  BY <1>2, <1>3, <1>4, <1>5, <1>6, IdleKeepsInv DEF stores

(* The invariant holds at the start.                                       *)
LEMMA InitInv == Init => Inv
<1> SUFFICES ASSUME Init PROVE Inv
  OBVIOUS
<1>1. \A k \in Mailbox : k \in Secret /\ k # NoSecret
  BY DistinctAssumption DEF Secret
<1>2. TypeOK
  BY <1>1, StartAssumption, CrashAssumption, PostedAssumption, BlankIsDoc DEF Init, TypeOK, PC
<1>3. Boxes
  <2>1. CodesAreSpent
    BY <1>1, PostedAssumption DEF Init, CodesAreSpent
  <2>2. \A k \in Mailbox : code[k] # NoSecret => DrawnFor(k, code[k], Unstored)
    BY DEF Init, DrawnFor
  <2>3. ASSUME NEW k \in Mailbox, mark[k] PROVE SpentFor(k)
    <3>1. k \in Verified
      BY <2>3 DEF Init
    <3>2. <<k, k>> \in spent /\ k \in Secret
      BY <1>1, <3>1 DEF Init
    <3>3. QED
      BY <3>2 DEF SpentFor
  <2>4. \A e \in mailed : DrawnFor(e[1], e[2], Unstored \cup {"mail"})
    BY DEF Init, DrawnFor
  <2>5. QED
    BY <2>1, <2>2, <2>3, <2>4 DEF Boxes, CodeInv
<1>4. ASSUME NEW r \in Request PROVE Local(r)
  BY DEF Init, Local, StageInv, KeepOf, SessionOf, Checked, Loaded, Unstored
<1>5. ASSUME NEW u \in User PROVE UserInv(u)
  BY KeyAssumption DEF Init, UserInv
<1>6. QED
  BY <1>2, <1>3, <1>4, <1>5, Parts

(* No step breaks the invariant.                                           *)
LEMMA NextKeepsInv == Inv /\ [Next]_vars => Inv'
<1> SUFFICES ASSUME Inv, [Next]_vars PROVE Inv'
  OBVIOUS
<1>1. CASE Next
  <2>1. Witness /\ Step
    BY <1>1 DEF Next
  <2>2. ASSUME NEW r \in Request, Receive(r) \/ Handle(r) \/ Throw(r) PROVE Inv'
    <3>1. CASE Receive(r)
      BY <2>1, <3>1, ReceiveGood, QuietKeepsInv DEF Receive
    <3>2. CASE Throw(r)
      BY <2>1, <3>2, EndGood, QuietKeepsInv DEF Throw
    <3>3. CASE Authenticate(r)
      BY <2>1, <3>3, AuthenticateKeepsInv
    <3>4. CASE ReadMark(r)
      BY <2>1, <3>4, ReadMarkGood, QuietKeepsInv DEF ReadMark
    <3>5. CASE Load(r)
      BY <2>1, <3>5, LoadGood, QuietKeepsInv DEF Load
    <3>6. CASE Save(r)
      BY <2>1, <3>6, SaveKeepsInv
    <3>7. CASE Clear(r)
      <4>1. Good(r) /\ TypeOK /\ Boxes
        BY <2>1, <3>7, ClearGood, Parts
      <4>2. UNCHANGED <<users, code, mailed, spent>>
            /\ \A k \in Mailbox : mark'[k] => mark[k]
        BY <3>7, <4>1 DEF Clear, TypeOK
      <4>3. Boxes'
        BY <4>1, <4>2, MovesForward, BoxesStay DEF Good
      <4>4. QED
        BY <4>1, <4>2, <4>3, UsersKept, GoodKeepsInv DEF Good
    <3>8. CASE StoreCode(r) \/ MailCode(r) \/ DeleteCode(r) \/ SetMark(r)
      <4>1. Good(r) /\ Boxes'
        BY <2>1, <3>8, StoreCodeGood, MailCodeGood, DeleteCodeGood, SetMarkGood
      <4>2. users' = users
        BY <3>8 DEF StoreCode, MailCode, DeleteCode, SetMark
      <4>3. QED
        BY <4>1, <4>2, UsersKept, GoodKeepsInv DEF Good
    <3>9. CASE GetCode(r)
      BY <2>1, <3>9, GetCodeGood, QuietKeepsInv DEF GetCode
    <3>10. CASE Answer(r)
      BY <2>1, <3>10, AnswerGood, QuietKeepsInv DEF Answer
    <3>11. QED
      BY <2>2, <3>1, <3>2, <3>3, <3>4, <3>5, <3>6, <3>7, <3>8, <3>9, <3>10 DEF Handle
  <2>3. QED
    BY <2>1, <2>2, ExpireKeepsInv, CrashKeepsInv DEF Step
<1>2. CASE UNCHANGED vars
  <2>1. TypeOK' /\ Boxes' /\ Grows
    <3>1. TypeOK'
      BY <1>2, Parts DEF vars, stores, handlers, TypeOK
    <3>2. Grows
      BY <1>2 DEF vars, stores, handlers, Grows
    <3>3. Boxes'
      BY <1>2, <3>1, Parts, BoxesStay DEF vars, stores, handlers, Forward
    <3>4. QED
      BY <3>1, <3>2, <3>3
  <2>2. QED
    BY <1>2, <2>1, IdleKeepsInv DEF vars, stores, handlers
<1>3. QED
  BY <1>1, <1>2

-----------------------------------------------------------------------------
(* What a request has seen and what the histories say agree in every       *)
(* reachable state.                                                        *)
THEOREM InvHolds == Spec => []Inv
BY InitInv, NextKeepsInv, PTL DEF Spec

(* A code that was verified came by mail, and is not stored again. Two     *)
(* verifyOTP that both read it before it is deleted both succeed.          *)
THEOREM SingleUse == Spec => []CodesAreSpent
<1>1. Inv => CodesAreSpent
  BY DEF Inv
<1>2. QED
  BY <1>1, InvHolds, PTL

(* What a step does to a user document is sanctioned.                      *)
LEMMA StepsAreSanctioned ==
  ASSUME Inv, [Next]_vars, NEW u \in User
  PROVE  Sanctioned(u, users[u], users'[u])
<1>1. CASE users' = users
  BY <1>1 DEF Sanctioned
<1>2. CASE users' # users
  <2>1. Step /\ TypeOK
    BY <1>2, Parts DEF Next, vars, stores
  <2>2. PICK r \in Request : Authenticate(r) \/ Save(r)
    BY <1>2, <2>1 DEF Step, Receive, Throw, Handle, ReadMark, Load, Clear, StoreCode, MailCode,
         GetCode, DeleteCode, SetMark, Answer, Expire, Crash, stores
  <2>3. CASE Authenticate(r)
    BY <2>1, <2>3, AuthenticateSettings DEF Sanctioned
  <2>4. CASE Save(r)
    <3>1. PICK v \in User : v = op[r].email
      BY <2>4, SaveFacts
    <3>2. /\ users' = [users EXCEPT ![v] = Written(r, users[v])]
          /\ Lawful(users[v], Written(r, users[v]), v)
      BY <2>4, <3>1, SaveFacts, SaveEffects
    <3>3. CASE u = v
      BY <2>1, <3>2, <3>3 DEF TypeOK, Lawful
    <3>4. CASE u # v
      <4>1. users'[u] = users[u]
        BY <2>1, <3>2, <3>4 DEF TypeOK
      <4>2. QED
        BY <4>1 DEF Sanctioned
    <3>5. QED
      BY <3>3, <3>4
  <2>5. QED
    BY <2>2, <2>3, <2>4
<1>3. QED
  BY <1>1, <1>2

(* Every change of a password, of a TPIN or of two-factor login is one     *)
(* that its request was entitled to when it loaded the user, or that the   *)
(* owner of the address proved.                                            *)
THEOREM Protected == Spec => SettingsAreProtected
<1>1. Inv /\ [Next]_vars => [\A u \in User : Sanctioned(u, users[u], users'[u])]_vars
  BY StepsAreSanctioned
<1>2. QED
  BY <1>1, InvHolds, PTL DEF Spec, SettingsAreProtected

(* No interleaving of logins and changes of settings hands out a session   *)
(* nobody has earned.                                                      *)
THEOREM Earned == Spec => []SessionsAreEarned
<1>1. Inv => SessionsAreEarned
  BY DEF Inv
<1>2. QED
  BY <1>1, InvHolds, PTL

(* Two-factor login that is on has a key, unless its removal was asked for.*)
THEOREM NoLockOut == Spec => []NobodyIsLockedOut
<1>1. Inv => NobodyIsLockedOut
  BY DEF Inv
<1>2. QED
  BY <1>1, InvHolds, PTL
=============================================================================
