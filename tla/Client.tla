------------------------------ MODULE Client ------------------------------
(***************************************************************************)
(* One tab of the browser: the router with its guards, the page on view    *)
(* (ClientPages), the store (ClientStore), the requests in flight, whose   *)
(* answers arrive in any order or are lost, and as much of the server as   *)
(* the answers tell: the user's approval, the freeze of all his accounts   *)
(* and the cookie.                                                         *)
(***************************************************************************)
EXTENDS ClientPages, ClientStore, SequencesExt

CONSTANTS
  UserRoles,    \* the roles the user of the tab may have
  Visited,      \* the pages whose links he follows and whose address he types
  Clicked,      \* the requests his clicks send
  MaxRequests   \* bound: requests in flight at once

ASSUME ClientAssumption ==
  /\ UserRoles \subseteq Roles
  /\ Visited \subseteq AllPages
  /\ MaxRequests \in Nat \ {0}

VARIABLES
  server,     \* the user's document and the freeze of his accounts
  cookie,     \* the browser holds a cookie the server accepts
  auth,       \* the slice auth of the store
  txn,        \* the slice transaction of the store
  page,       \* the route
  form,       \* the step of the page that is mounted, "none" while none is
  requests,   \* the requests in flight, in the order they were sent
  closing,    \* the modals whose timer is running
  blind,      \* history: the last getMe failed without a word on the session
  disturbed,  \* history: the money pages were re-enabled with money in flight
  warned      \* history: an answer said "completely frozen" and it is still so

vars == <<server, cookie, auth, txn, page, form, requests, closing, blind, disturbed, warned>>
---------------------------------------------------------------------------
\* A request carries the cookie of the moment; its handler goes on with the
\* answer even if its component is no longer mounted (`live').
Request(handler, busy) ==
  [does |-> handler, signed |-> cookie, live |-> TRUE, answer |-> "none", user |-> NoUser,
   busy |-> IF busy \in {"auth", "txn", "modal"} THEN "none" ELSE busy]
Detached(q) ==
  [q EXCEPT !.live = FALSE, !.does = Unseen(@), !.busy = IF @ = "admin" THEN @ ELSE "none"]

InFlight == 1 .. Len(requests)
Room == Len(requests) < MaxRequests

\* (a mutant: who waits for his approval is sent back to the login)
ToTheLogin(a, p) ==
  CASE p \in GuestPages -> IF a.isAuthenticated THEN "home" ELSE p
    [] p \in DashboardPages /\ (~a.isAuthenticated \/ a.user.approval = "PENDING") -> "login"
    [] OTHER -> p

\* The guards of the routes: the page shown for a route, itself or another.
Guard(a, p) ==
  CASE p \in GuestPages -> IF a.isAuthenticated THEN "home" ELSE p
    [] p \notin GuestPages \cup DashboardPages -> p
    [] p \in DashboardPages /\ ~a.isAuthenticated -> "login"
    [] p \in DashboardPages /\ a.isAuthenticated ->
         CASE a.user.approval = "PENDING" -> "approval"
           [] a.user.approval # "PENDING" /\ a.user.frozen = "yes"
              /\ p \notin {"frozen", "profile", "settings"} -> "frozen"
           [] OTHER ->
                CASE server.role \notin RolesAt(p) -> "home"
                  [] p = "home" /\ server.role = "CASHIER" -> "deposits"
                  [] p = "home" /\ server.role = "MANAGER" -> "users"
                  [] OTHER -> p

\* The layout of the dashboard shows a spinner instead of its page.
Spinner(a, p) == p \in DashboardPages /\ a.loading
Mountable(a, p) == ~Spinner(a, p) /\ Guard(a, p) = p

\* The tab after a dispatch or a navigation: a page that is not shown any
\* more is unmounted with its steps, and the transfer page clears its slice.
Become(a, t, r, p, step) ==
  LET kept == form # "none" /\ p = page /\ Mountable(a, p)
      shown == IF ~kept /\ form # "none" /\ page = "transfer" THEN TxnCleared ELSE t
      held == IF kept THEN r ELSE [s \in DOMAIN r |-> Detached(r[s])]
      money == \E s \in DOMAIN held : held[s].does.sends \in MoneyThunks
  IN /\ auth' = a
     /\ txn' = shown
     /\ requests' = held
     /\ page' = p
     /\ form' = IF kept THEN step ELSE "none"
     /\ disturbed' = (money /\ (disturbed \/ ~shown.loading))

Send(handler, busy, a, t, r, p, step) ==
  Become(AuthPending(a, handler.sends), TxnPending(t, handler.sends),
         Append(r, Request(handler, busy)), p, step)
---------------------------------------------------------------------------
\* The application starts: an empty store, and getMe because it has no user.
\* What was in flight is forgotten.
Load(p) ==
  /\ auth' = authInitial
  /\ txn' = transactionInitial
  /\ page' = p
  /\ form' = "none"
  /\ requests' = <<Request(Stay("getMe"), "none")>>
  /\ closing' = {}
  /\ blind' = FALSE
  /\ disturbed' = FALSE
  /\ warned' = FALSE

Init ==
  /\ server \in [role : UserRoles, approval : {"none", "PENDING", "APPROVED"}, frozen : {FALSE}]
  /\ cookie \in (IF server.approval = "none" THEN {FALSE} ELSE BOOLEAN)
  /\ auth = authInitial
  /\ txn = transactionInitial
  /\ page = "public"
  /\ form = "none"
  /\ requests = <<Request(Stay("getMe"), "none")>>
  /\ closing = {}
  /\ blind = FALSE
  /\ disturbed = FALSE
  /\ warned = FALSE

\* The page is reloaded, or an address typed on the public page.  Both happen
\* on a page that is mounted: from an unmounted one they lead to the same
\* state, and a user who never waits for his page sees none.
Reload(p) ==
  /\ p \in {page} \cup (IF page = "public" THEN Visited ELSE {})
  /\ form # "none"
  /\ Load(p)
  /\ UNCHANGED <<server, cookie>>

Redirect ==
  /\ ~Spinner(auth, page)
  /\ Guard(auth, page) # page
  /\ Become(auth, txn, requests, Guard(auth, page), "none")
  /\ UNCHANGED <<server, cookie, closing, blind, warned>>

Mount ==
  /\ form = "none"
  /\ Mountable(auth, page)
  /\ form' \in PageAt[page].first
  /\ IF PageAt[page].fetches = {}
     THEN UNCHANGED <<txn, requests, disturbed>>
     ELSE \E thunk \in PageAt[page].fetches :
            /\ Room
            /\ txn' = TxnPending(txn, thunk)
            /\ requests' = Append(requests, Request(Stay(thunk), "none"))
            /\ UNCHANGED disturbed
  /\ UNCHANGED <<server, cookie, auth, page, closing, blind, warned>>

\* The links of the sidebar, of the bar at the top and of the logo.
Links ==
  IF auth.isAuthenticated THEN Menu(server.role, auth.user.frozen) \cup {"public"}
  ELSE GuestPages \cup {"public"}

Follow(p) ==
  /\ p \in (Links \cap Visited) \ {page}
  /\ form # "none"
  /\ Become(auth, txn, requests, p, "none")
  /\ UNCHANGED <<server, cookie, closing, blind, warned>>

\* The browser's back button leads out of any page, the spinner included, to
\* the home page the visit began with.
Back ==
  /\ page # "public"
  /\ Become(auth, txn, requests, "public", "none")
  /\ UNCHANGED <<server, cookie, closing, blind, warned>>
---------------------------------------------------------------------------
\* A click on a button of the step on view, or on the logout of the sidebar
\* or of the bar at the top; or a key of a field of the step.
LogoutButtons ==
  IF page \in DashboardPages \/ (page # "approval" /\ auth.isAuthenticated)
  THEN {Button(form, Logout, "none")} ELSE {}

\* (a mutant: the buttons of the money pages ignore the flag)
AlwaysEnabled(flag) == flag \notin {"txn", "modal"} /\ \E s \in InFlight : requests[s].busy = flag

Disabled(flag) ==
  CASE flag = "none" -> FALSE
    [] flag = "auth" -> auth.loading
    [] flag = "txn" -> txn.loading
    [] flag = "modal" -> txn.loading \/ txn.success
    [] flag = "admin" -> \E s \in InFlight : requests[s].busy = "admin"
    [] OTHER -> \E s \in InFlight : requests[s].busy = flag /\ requests[s].live

Click(b) ==
  /\ b \in PageAt[page].buttons \cup LogoutButtons
  /\ b.does.sends \in Clicked
  /\ form # "none" /\ b.at = form
  /\ ~Disabled(b.needs)
  /\ Room
  /\ Send(b.does, b.busy, auth, txn, requests, page, form)
  /\ UNCHANGED <<server, cookie, closing, blind, warned>>

\* A move between steps; "Send More" of the transfer page clears its slice.
Step(to) ==
  /\ form # "none" /\ <<form, to>> \in PageAt[page].moves
  /\ Become(auth, IF form = "done" THEN TxnCleared ELSE txn, requests, page, to)
  /\ UNCHANGED <<server, cookie, closing, blind, warned>>

\* A modal closes itself some seconds after its success.
CloseModal(modal) ==
  /\ modal \in closing
  /\ closing' = closing \ {modal}
  /\ Become(auth, TxnCleared, requests, page,
            IF page = "home" /\ form = modal THEN "view" ELSE form)
  /\ UNCHANGED <<server, cookie, blind, warned>>
---------------------------------------------------------------------------
(* The server                                                              *)

PublicThunks ==
  {"registerUser", "loginUser", "verify2FA", "sendOTP", "verifyOTP", "resetPassword",
   "disable2FAViaOTP", "logoutUser"}
CookieThunks == {"registerUser", "loginUser", "verify2FA", "disable2FAViaOTP"}

\* The user an answer carries: login, its second factor and the profile
\* compute the freeze flags; the other answers are the bare document.
AnsweredUser(thunk) ==
  CASE thunk = "registerUser" -> [approval |-> "PENDING", frozen |-> "unsaid"]
    [] thunk \in SessionThunks \ {"registerUser"} ->
         [approval |-> server.approval, frozen |-> IF server.frozen THEN "yes" ELSE "no"]
    [] thunk \in ReplacingThunks -> [approval |-> server.approval, frozen |-> "unsaid"]
    [] OTHER -> NoUser

\* The thunks the server may serve: with a session, or public and about an
\* account that exists, but for the registration.
Servable(q) ==
  /\ q.does.sends \in PublicThunks \/ q.signed
  /\ q.does.sends \in CookieThunks =>
       ((server.approval = "none") <=> (q.does.sends = "registerUser"))

\* Wrong credentials, a wrong code and a wrong old TPIN are answered 401 too.
Unauthorized(q) ==
  \/ ~(q.does.sends \in PublicThunks \/ q.signed)
  \/ q.does.sends \in {"loginUser", "verify2FA", "changeTPIN"}

AnswerKinds == {"ok", "second", "refused", "unauthorized"}

\* A request is answered "ok"; "second", a login that wants the second
\* factor; "unauthorized"; or "refused", for any other failure, the loss of
\* the answer after the effect included.
Answers(q) ==
  {"refused"} \cup (IF Servable(q) THEN {"ok"} ELSE {})
    \cup (IF Servable(q) /\ q.does.sends = "loginUser" THEN {"second"} ELSE {})
    \cup (IF Unauthorized(q) THEN {"unauthorized"} ELSE {})

\* The answers that carry the user are as old as the handler's reading of it;
\* the others say nothing of the server, and are decided when they arrive.
UserThunks == SessionThunks \cup ReplacingThunks

Serve(s) ==
  LET q == requests[s] IN
  /\ s \in InFlight
  /\ q.does.sends \in UserThunks /\ q.answer = "none"
  /\ \E answer \in Answers(q) :
       requests' = [requests EXCEPT ![s].answer = answer, ![s].signed = FALSE,
                      ![s].user = IF answer = "ok" THEN AnsweredUser(q.does.sends) ELSE NoUser]
  /\ IF q.does.sends = "registerUser" /\ Servable(q)
     THEN server' \in {server, [server EXCEPT !.approval = "PENDING"]}
          /\ (requests'[s].answer = "ok" => server' # server)
     ELSE UNCHANGED server
  /\ UNCHANGED <<cookie, auth, txn, page, form, closing, blind, disturbed, warned>>

\* The staff approves the registration, freezes the customer's accounts and
\* unfreezes one; the cookie runs out.
Approve ==
  /\ server.approval = "PENDING"
  /\ server' = [server EXCEPT !.approval = "APPROVED"]
  /\ UNCHANGED <<cookie, auth, txn, page, form, requests, closing, blind, disturbed, warned>>

Freeze ==
  /\ server.approval = "APPROVED" /\ server.role = "CUSTOMER" /\ ~server.frozen
  /\ server' = [server EXCEPT !.frozen = TRUE]
  /\ UNCHANGED <<cookie, auth, txn, page, form, requests, closing, blind, disturbed, warned>>

Unfreeze ==
  /\ server.frozen
  /\ server' = [server EXCEPT !.frozen = FALSE]
  /\ warned' = FALSE
  /\ UNCHANGED <<cookie, auth, txn, page, form, requests, closing, blind, disturbed>>

Expire ==
  /\ cookie
  /\ cookie' = FALSE
  /\ UNCHANGED <<server, auth, txn, page, form, requests, closing, blind, disturbed, warned>>
---------------------------------------------------------------------------
(* An answer arrives                                                       *)

ProfileThunks == {"getMe", "updateProfile", "updateProfileImage"}

\* The interceptor of the client's requests: a 401 reloads the tab at the
\* login page, except for the login itself, the registration, the profile,
\* and while the login page is shown.
ThrownOut(q) ==
  /\ q.answer = "unauthorized"
  /\ q.does.sends \notin ProfileThunks \cup {"loginUser", "registerUser"}
  /\ page # "login"

\* The server's cookies expire a day after it started: what a login sets
\* later than that is dropped at once, with the cookie it replaces.
CookiesAfter(q) ==
  CASE q.answer = "ok" /\ q.does.sends \in CookieThunks -> BOOLEAN
    [] q.answer = "ok" /\ q.does.sends = "logoutUser" -> {FALSE}
    [] OTHER -> {cookie}

\* navigate() works from a handler whose page is gone, setState does not.
GoesTo(q) ==
  CASE q.answer # "ok" \/ q.does.go = "stay" -> page
    [] q.answer = "ok" /\ q.does.go = "home" /\ q.user.frozen = "yes" -> "frozen"
    [] OTHER -> q.does.go

ShownAfter(q) ==
  IF q.live /\ form \in q.does.from
     /\ q.answer = (IF q.does.sends = "loginUser" THEN "second" ELSE "ok")
  THEN q.does.step ELSE form

Afterwards(q) ==
  IF q.does.after = "disable2FAViaOTP"
  THEN Handler("disable2FAViaOTP", {}, "view", "home", "nothing") ELSE Stay(q.does.after)

\* (a mutant of the next definition: the application asks when it starts only)
AsksAtTheStartOnly(a) == FALSE
\* The effect of the application: whenever its user becomes nobody it asks
\* the server who is signed in.
AsksWhoIsSignedIn(a) == a.user = NoUser /\ auth.user # NoUser

Receive(s, answer) ==
  LET q == [requests[s] EXCEPT !.answer = answer]
      thunk == q.does.sends
      fine == q.answer \in {"ok", "second"}
      a == IF fine THEN AuthFulfilled(auth, thunk, q.user) ELSE AuthRejected(auth, thunk)
      t == IF fine THEN TxnFulfilled(txn, thunk) ELSE TxnRejected(txn, thunk)
      r == RemoveAt(requests, s)
      next == CASE AsksWhoIsSignedIn(a) -> Stay("getMe")
                [] ~AsksWhoIsSignedIn(a) /\ q.answer = "ok" -> Afterwards(q)
                [] OTHER -> Stay("nothing")
  IN /\ s \in InFlight
     /\ answer \in IF thunk \in UserThunks THEN {requests[s].answer} \ {"none"} ELSE Answers(q)
     /\ cookie' \in CookiesAfter(q)
     /\ UNCHANGED server
     /\ IF ThrownOut(q) THEN Load("login")
        ELSE /\ IF next.sends = "nothing"
                THEN Become(a, t, r, GoesTo(q), ShownAfter(q))
                ELSE Send(next, q.busy, a, t, r, GoesTo(q), ShownAfter(q))
             /\ closing' = closing \cup (IF q.answer = "ok" THEN {thunk} \cap {"deposit", "withdraw"} ELSE {})
             /\ blind' = CASE thunk = "getMe" /\ q.answer = "refused" -> TRUE
                           [] thunk \in SessionThunks /\ q.answer = "ok" -> FALSE
                           [] OTHER -> blind
             /\ warned' = CASE a.user = NoUser -> FALSE
                            [] fine /\ q.user.frozen = "yes" -> server.frozen
                            [] fine /\ q.user.frozen = "no" -> FALSE
                            [] OTHER -> warned
---------------------------------------------------------------------------
\* What happens without the user: the router renders, requests are answered.
Proceed ==
  \/ Redirect \/ Mount
  \/ \E s \in InFlight : Serve(s) \/ \E answer \in AnswerKinds : Receive(s, answer)

Next ==
  \/ Proceed
  \/ \E p \in AllPages : Reload(p) \/ Follow(p)
  \/ Back
  \/ \E b \in PageAt[page].buttons \cup LogoutButtons : Click(b)
  \/ \E move \in PageAt[page].moves : Step(move[2])
  \/ \E modal \in closing : CloseModal(modal)
  \/ Approve \/ Freeze \/ Unfreeze \/ Expire

\* While no page is mounted the browser goes on rendering and requests are
\* answered or fail; the user, the staff and the clock may do nothing, and
\* nothing more is assumed once he has a page.
Fairness == WF_vars(form = "none" /\ Proceed)

Spec == Init /\ [][Next]_vars /\ Fairness
---------------------------------------------------------------------------
Buttons == UNION {PageAt[p].buttons : p \in AllPages}
ButtonsDo == {b.does : b \in Buttons}
Does ==
  ButtonsDo \cup {Unseen(h) : h \in ButtonsDo}
    \cup {Stay(k) : k \in {"nothing", "logoutUser", "getMe", "read", "fetchTransactions",
                           "updateProfileImage"}}
    \cup {Handler("disable2FAViaOTP", {}, "view", "home", "nothing")}

RequestType ==
  [does : Does, busy : {b.busy : b \in Buttons} \cup {"none"}, signed : BOOLEAN, live : BOOLEAN,
   answer : AnswerKinds \cup {"none"}, user : ClientUser \cup {NoUser}]

StepsOf(p) ==
  PageAt[p].first \cup (UNION {{m[1], m[2]} : m \in PageAt[p].moves})
    \cup {b.does.step : b \in {c \in PageAt[p].buttons : c.does.from # {}}}

TypeOK ==
  /\ server \in [role : UserRoles, approval : {"none", "PENDING", "APPROVED"}, frozen : BOOLEAN]
  /\ cookie \in BOOLEAN
  /\ auth \in AuthSlice
  /\ txn \in TransactionSlice
  /\ page \in AllPages
  /\ form \in StepsOf(page) \cup {"none"}
  /\ Len(requests) =< MaxRequests /\ \A s \in InFlight : requests[s] \in RequestType
  /\ closing \subseteq {"deposit", "withdraw"}
  /\ {blind, disturbed, warned} \subseteq BOOLEAN

\* The store and what is in flight fit together: somebody is signed in only
\* with a user, the pages wait only for an answer that will come, and a page
\* is mounted only where the guards let it be.
StoreFits ==
  /\ auth.isAuthenticated => auth.user # NoUser
  /\ auth.loading => \E s \in InFlight : requests[s].does.sends \in AuthThunks
  /\ txn.loading => \E s \in InFlight : requests[s].does.sends \in TransactionThunks
  /\ form # "none" => Mountable(auth, page)

Inv == TypeOK /\ StoreFits

\* While nothing is in flight the client is signed in if its cookie is good,
\* unless the last time it asked the server failed to say (App.jsx asks again
\* whenever the user becomes null, after a logout that failed too).
SessionIsKnown ==
  (requests = <<>> /\ cookie /\ ~blind) => auth.isAuthenticated

\* The money pages share one loading flag, that other requests clear too
\* (transactionSlice): a deposit or a withdrawal is sent while another money
\* request is in flight only after the flag was cleared under that one.  A
\* transfer is not so careful: the Enter key of its TPIN field sends one more
\* each time, whatever the flag says (handleTransfer of Transfer.jsx).
OnlyTransfersOverlap ==
  \A s, u \in InFlight :
    (/\ s < u
     /\ requests[s].does.sends \in MoneyThunks
     /\ requests[u].does.sends \in MoneyThunks \ {"executeTransfer"})
      => disturbed

\* A page comes into view again and again: no spinner stays, and the
\* redirections of the guards end.
PageSettles == []<>(form # "none")

\* Who was told that all his accounts are frozen sees no page of the dashboard
\* but three (frontend/README.md, Protected Layout).
FrozenStayAway ==
  (warned /\ page \in DashboardPages /\ form # "none")
    => page \in {"frozen", "profile", "settings"}
=============================================================================
