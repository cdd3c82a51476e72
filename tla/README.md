# A verification project for PortalRupee

TLA+ models of the digital bank in `src/`, checked with TLC on small instances
and, where it matters most, proved with TLAPS for every instance. Paths below
are relative to `src/`.

## 1. The system

One Node process (Express 4, `backend/src/app.js`, `backend/src/server.js`)
serves REST handlers and a Socket.io server over MongoDB (a replica set, with
transactions), Redis (one-time codes) and RabbitMQ (background jobs that the
same process consumes). A React client (`frontend/src`) talks to it. Handlers
are `async`: between two `await`s a handler runs alone, at every `await` any
other handler may run. Docker restarts the process when it exits, which it does
on an unhandled rejection or exception (`server.js:31-45`).

| Component | State | Operations | Talks to |
|---|---|---|---|
| Money handlers (`transaction.controller.js`, `transaction.util.js`) | account balances, transaction documents, open MongoDB sessions | `deposit`, `withdraw`, `transferMoney`, `approveDeposit`, each in `runInTransaction` | accounts, queue (alerts) |
| Account handlers (`account.controller.js`) | account status, freeze dispute, new accounts | `createAccount`, `updateAccountStatus`, `freezeAccount`, `unfreezeAccount`, `submitFreezeDispute` | shares the account documents with the money handlers |
| Registration, roles, KYC (`auth`, `admin`, `user` controllers) | user documents | `register`, `approveRegistration`, `updateUserRole`, `updateKycStatus`, `submitKYC`, `updateProfile` | mailer, every later role check |
| Login, OTP, TPIN, 2FA (`auth`, `tpin`, `2fa` controllers, `otp.util.js`) | codes and verification marks in Redis (300 s), password, TPIN, 2FA secret, session cookie | `login`, `verify2FA`, `sendOTP`, `verifyOTP`, `resetPassword`, `disable2FALogin`, `setTPIN`, `changeTPIN`, `resetTPIN`, `get2FASetup`, `enable2FA`, `disable2FA` | queue (mails) |
| Queue and workers (`queue.js`, `rabbitmq.js`) | four durable queues, unacknowledged messages | `enqueue*`, the processors, fallbacks without a broker | sockets, MongoDB, mailer |
| Chat (`socket.js`, `chat.controller.js`) | socket rooms, stored messages, read marks | `join_chat`, `send_message`, `getMessages`, `getChatRooms` | queue |
| Audit, rate limiter, validators | audit documents, counters | middleware | queue |
| Reads (history, statement, dashboards, searches) | none | queries and aggregations | MongoDB |
| Uploads (`s3.helper.js`) | files, signed URLs | upload, presign, verify | S3 or the disk |
| Client (`frontend/src`) | store slices, notifications, open conversation | thunks, socket listeners, pages | all of the above |

What is hard in each, and what makes it correct:

- *Money and account handlers.* Several handlers read and write the same
  documents; status and balance are checked long before the commit; attempts
  fail on write conflicts and are retried; commits lose their acknowledgement;
  the process dies. Correct means that each operation looks as if it happened
  in one step on an active, covered account, once, and that the answer says
  what happened.
- *Registration, roles, KYC.* Check-then-create without an index, load-then-save
  over a newer document, decisions by two managers. Correct means that
  addresses and numbers stay unique, that no request undoes what another wrote,
  and that decisions were the decider's to take and are answered truly.
- *Login, OTP, TPIN, 2FA.* Redis calls that together are not atomic, expiry
  between them. Correct means that settings change only by a request entitled to
  it, sessions are earned, a verified code is gone and nothing stays authorised
  for ever.
- *Queue and chat.* At-least-once delivery, dropped messages, consumers that
  overlap. Correct means that no job is forgotten without a fault, none is
  done twice without a redelivery, and what is shown was stored.
- *Client.* Answers that arrive late, out of order or not at all. Correct means
  that the store agrees with the session, the loading flags hold money requests
  apart, no spinner stays and the guards' redirections end.

The hazards are listed one by one, with their lines and the properties that
watch them, in `PROJECT.json`.

## 2. The plan

In this order; a tick marks what is here.

1. [x] `BankTypes`, `BankLedger` (abstract), `TransactionController`,
   `AccountController`, `Bank` (their composition), `MCBank`.
2. [x] `BankProofs`: the inductive invariant, and that the ledger is implemented.
3. [x] `Identity`: one-time codes and marks with expiry, what they authorise,
   TPIN and 2FA secrets. `IdentityProofs`.
4. [x] `Jobs` (abstract: a job is done or given up) and `Queue`: the four queues,
   consumers, fallbacks, the channel, the process. `QueueProofs`: the inductive
   invariant and that `Queue` implements `Jobs`.
5. [x] `Chat`: browser, sockets, history and stored messages, over `Jobs`.
   `ChatProofs`.
6. [x] `Onboarding`: registration and its decision, roles, profiles, KYC, account
   opening. `OnboardingProofs`.
7. [x] `Reports`: statement, summary, analytics and overview over the bank's documents.
   `Sums` (sums over finite sets), `ReportsProofs`.
8. [x] `ClientPages`, `ClientStore`, `Client`: the pages, the store, the router and
   the requests in flight. `ClientProofs`.

How the modules depend on each other:

    BankTypes <- TransactionController, AccountController <- Bank <- Reports <- MCBank
    BankLedger <-(refinement)- Bank          Bank <- BankProofs
    Reports, BankProofs, Sums <- ReportsProofs
    Jobs <-(refinement)- Queue <- QueueProofs
    Jobs <-(its actions)- Chat <- ChatProofs
    Identity <- IdentityProofs               Onboarding <- OnboardingProofs
    ClientPages, ClientStore <- Client <- ClientProofs

What could still be added: the slices `admin` and `account` of the store, and the
order in which messages of a room are shown.

## 3. The bank

### Modules

| Module | What it is |
|---|---|
| `BankTypes` | users, accounts, transaction documents and request bodies, from the Mongoose models and zod schemas; `Posted`, the effect of a record on the balances |
| `BankLedger` | the abstract specification: file, post, approve, reject and set a status, each in one step |
| `TransactionController` | the four money handlers and `runInTransaction` |
| `AccountController` | the account handlers that change an existing account |
| `Bank` | both over the same documents, the crash, the properties, the inductive invariant `Inv`, the refinement mapping |
| `MCBank` | instances for TLC; what the documents say and the code does not do |
| `BankProofs` | the theorems, but for the sums (`ReportsProofs`) |

### How the state corresponds to the code

`accounts` and `ledger` are the committed documents of the two collections. A
request `r` is one HTTP request: `op[r]` is its body, `pc[r]` says which `await`
its handler is at, `attempt[r]` counts the attempts of `runInTransaction`. What
its open session holds is `loaded[r]` (the balances in the snapshot), `record[r]`
(the transaction document it creates or decides), `dirty[r]` (the documents it
has written, which are locked), `image[r]` (the balances it has written) and
`stale[r]` (what others committed after the snapshot, which it can no longer
write). The MongoDB part (`WriteConflict`, `Overwrite`, `Install`, `Reap`) is
external: it is snapshot isolation with first-writer-wins conflicts as the
transactions of `transaction.util.js` rely on it. A task `m` is a request to an
account handler, with the document it loaded in `taskDoc[m]`.

| Action | Code |
|---|---|
| `Receive`, `Refuse` | the routes; TPIN, 2FA and user lookups before the transaction |
| `BeginDeposit`, `BeginWithdraw`, `BeginTransfer`, `BeginApprove` | a body up to its first save: the snapshot, the checks, `Transaction.create` |
| `Throw` | an `AppError` of a body: abort, no retry |
| `SaveDebit`, `SaveCredit`, `SaveDecision` | `account.save({ session })`, `transaction.save({ session })` |
| `ConflictAbort`, `DatabaseError` | the catch block of `runInTransaction` |
| `Commit`, `CommitUnacknowledged` | `commitTransaction`, answered or not |
| `LookUpReceiver`, `LookUpFails`, `AlertSender`, `AlertOwner` | what follows the transaction, to the answer |
| `Crash`, `Reap` | the process dies; MongoDB aborts the orphaned transaction |
| `LoadAccount`, `RefuseTask`, `SaveAccount` | the two halves of an account handler |

Three readings of the code deserve a word.

- *Several reads are one step.* The reads of a body, and the creation of its new
  document, happen in its `Begin` action. They read one snapshot, and nobody
  else knows the new document's id, so splitting them adds no behaviour.
- *Two copies of one account.* `transferMoney` loads sender and receiver
  separately. A save therefore writes the loaded balance plus or minus the
  amount, also when both are the same account. That is why `Posted` credits an
  account that is both, and why the total is not kept (`bank_total`).
- *A commit is not retried.* When `commitTransaction` fails after it was sent,
  `abortTransaction` in the catch block throws in its turn, so the `continue` is
  not reached. Only a filed deposit, whose one write may still be buffered when
  the body returns, can fail at the commit with a retriable error.

### Runs

All use users alice and bob, a cashier and a manager; alice's accounts `a1`
(opens with 2) and `a2` (0), bob's `b1` (1, frozen); a pending deposit `f1` of 2
to `a1`; amounts 1 and 2; two attempts.

| Run | Instance | Shows |
|---|---|---|
| `bank_safety` | two requests out of 14 bodies, one account task out of five, one crash | the invariants and action properties of `Bank`, the three of `Reports`, and that `Bank` implements `BankLedger` |
| `bank_liveness` | five bodies, two tasks to choose from, one crash, fairness | `EveryRequestEnds` |
| `bank_total` (violated) | as `bank_safety` | a transfer to the same account creates money |
| `bank_error` (violated) | no crash | an error answer for money that moved |
| `bank_dispute` (violated) | one request, two tasks | a dispute saved after an unfreeze |

*Why the bounds are enough.* A conflict needs two writers; two requests with two
attempts each give a conflict, a retry after it, a retry that runs out, and a
retry that meets a committed write. The amounts make two debits of `a1` exceed
it, and a deposit to `a1` cover a debit that was not covered before. `f1` and the
two requests' own deposits are each approved and rejected by either request.
One crash leaves orphans of every kind; a second one adds only more of them.
The five attempts of the code are `MaxAttempts`, a parameter of the theorems.

*What each property watches.* `NeverOverdrawn` relies on the handlers' own checks:
the schema's `min: 0` on balances, a second line of defence, is left out on
purpose. `BalanceMatchesLedger` says that no retry, race or crash loses or
doubles a record's effect. `RecordsWereAsked` compares each record with the request
that made it: `transferMoney` looks the two accounts up again in every attempt, and
they may have been frozen meanwhile, so the record need not name the accounts of
the first attempt, but only accounts of the sender and the payee, and those the
body named. `AnswersAreTrue` is about success answers and alerts
only, which is the half that holds. `DecisionsAreFinal` and
`MoneyMovesOnlyOnActive` constrain every step. Each property has a mutant of the
code in `TransactionController`, `AccountController` or `Reports` that breaks it.

*Fairness.* `FairSpec` asks weak fairness of the steps of a request that has
arrived (Node resumes a handler whose database call has returned, and MongoDB
answers or fails every call), of `Reap` (the server ends a transaction whose
client is gone) and of the account saves. Clients need not send anything; no
failure, crash or client step is fair. A retry terminates because attempts are
bounded, and an account save cannot be starved because the requests that could
hold its lock end.

## 4. The other components

### Identity

`users[u]` is the user document with what the handlers compare: password, TPIN,
`tpinSet`, `twoFactor` and the authenticator key. `code[k]` and `mark[k]` are the
Redis entries `otp:` and `otp_verified:` of a mailbox `k` (an address and a
purpose). A hash is modelled by the secret it was made from; a token by the key
of the app that shows it.

Each handler is a record that says which `await` follows which (`login`,
`resetPassword`, ...), and there is one action per kind of `await`: `Authenticate`
(`isAuth`), `Load`, `ReadMark`, `StoreCode`, `MailCode`, `GetCode`,
`DeleteCode`, `SetMark`, `Save`, `Clear`, `Answer`. What a handler checks on the loaded
document is `MayProceed`; what it saves is written to those fields only, as
Mongoose does. `Throw` is a failing call, `Expire` the end of the 300 seconds of a
code or a mark, `Crash` the death of the process between any two of these.

Nothing in this component is atomic across awaits, and the races are there: two
`verifyOTP` requests may both use a code, two resets may use one mark, two
`setTPIN` requests may both save (`identity_tpin`), a `changeTPIN` may save over a
reset. The properties state what holds in spite of them.

- `SettingsAreProtected` constrains every step that changes a password, a TPIN or
  the two-factor flag, whatever value it had: the request that saves asked for
  that value, and either a code was given back for that very purpose at some
  time before, or what the request presented was right at some moment while it
  ran (`earned`, a history of the stored documents, not of what the handler
  believes). It does not say that this is still so at the save; the three races
  on saves above are what that leaves open.
- `SessionsAreEarned` says of each route what it asks for. For `verify2FA` that is the
  address and the token: the handler (`auth.controller.js:148-183`) does not know
  whether a login with the password came first, although `backend/README.md:426`
  calls the token an additional step of a login. The property holds of the code
  as it is and is no statement that both factors were shown.
- `CodesAreSpent`: a verified code was mailed and is never stored again.
- `NobodyIsLockedOut` makes an exception of users who asked to have two-factor login
  removed, since `disable2FALogin` may drop the key under an `enable2FA`.
- `EverythingLapses`: no verification serves for ever.

The run `identity` has two requests out of 26 bodies of thirteen kinds, two
registered users and an address nobody has, three codes posted before, and a
crash (410,020 states). Two requests give every race of two handlers on one user;
a third state of a user document would come from a third request only, and the
theorems have any number of them. `identity_tpin` is the same instance without the
crash.

### Jobs and Queue

`Jobs` is the promise: what somebody asked for is done, perhaps again, or given
up, and what was given up is not done later. `Queue` is `utils/queue.js` and
`config/rabbitmq.js` with the start and end of `server.js`. A job is, at any time,
in the handler that enqueues it (`pc`), in the channel's buffer, in the broker's
queue, or delivered and not acknowledged, where `work` says what its consumer does
next. `Enqueue` and `Produce` are the four `enqueue*` functions with their inline
path and their fallback, `Consume` the consumer with its effect, `ack` and `nack`,
`Connect` and `SetupConsumer` the start of the worker. The broker (`Publish`,
`CloseChannel`, `Requeue`) is external: durable queues, redelivery of what was not
acknowledged. `Exit` and `Restart` are the process after a rejected promise, which
waits for its connections, and Docker.

The run `delivery` has a chat message, one that the schema refuses for ever, an
alert and a mail, and one fault of any kind: the channel closes, the process
crashes, an effect fails before or after it took place. `Accounted` says that
nothing is forgotten without one of the reasons it names; the loss of a job in
the buffer of a dead process is one of them, and so is a failed effect, since
`nack` does not requeue. `NoNeedlessCopies` allows one copy more for each
redelivery. `QueuesDrain` makes the exception the code makes: when the channel is
closed under a process that lives on, nothing opens it again.

### Chat

The browser of one user (`Messages.jsx`, `SocketContext.jsx`), the socket server
and `getMessages`. The connection carries packets in order in both directions and
may break, which empties the server's rooms and loses what was under way to the
browser; what the browser sends while it is not connected waits. HTTP answers
come in any order and may be lost. The queue is `Jobs`: a message that was sent is
stored at some time, or never.

The page never leaves a room, appends whatever arrives to what it shows, and a
late history replaces what is shown. So a message may be shown in the
conversation of another contact that was opened before; `PaneIsKnown` states what
is left: what is shown was stored, and belongs to a conversation that was opened.
`ListeningIsJoined` needs `Rejoin`, the effect that runs when the connection comes
back. `getMessages` marks every unread message of the room as read and then finds
one page of the newest (`FirstPage`). `NewestReadIsReturned` states that a message
that is read was returned, or will be, unless messages stored later filled the page: marking
before finding loses nothing else. A message beyond the page is read unseen, against
`backend/README.md:575` ("Messages are marked as read when fetched"); the client
asks for pages of 100 (`Messages.jsx:97`).

The run `chat` has two contacts, a message to the one and two from the other, and
a page of one message (`PageSize`), so that the page is full after the first. The
bounds in `MCChat.cfg` are two selections, one visit of the page, one broken
connection and one served history (`MaxServed`: any one of the requests for a
history, the others stay under way): enough for a history that arrives after
another contact was selected, after a reconnection, or after the page was left
(1,642,145 states).

### Onboarding

`users[u]` is a user document; who is registered here is named after the request
that does it. Each request has one step per `await`: `Authenticate` (`isAuth` and
`checkRole`, with the role as it is then), `FindUser`, `CreateUser` and
`EnqueueWelcome` (`register`), `Load`, `Save` and `Delete` (`approveRegistration`,
`updateKycStatus`), `Update` (the handlers that use `findByIdAndUpdate`),
`FindAccount`, `generateAccountNumber` and `CreateAccount` (`createAccount`),
`Answer`, `Throw`. A save writes the modified path only and fails when the document
is gone; the unique indexes refuse what was taken between a check and the write.

`NothingIsShared` is what the indexes keep although every handler looks first and
writes later. `NothingIsUndone` says that a handler changes only the fields its
request is about, from whatever document it loaded, and that nobody who was
rejected comes back. `DecisionsAreFounded` and `AnswersStayTrue` relate documents,
decisions, mails and answers; a decision is founded on the document its handler
loaded and on the role it was authenticated with, which may have changed since. Two
accounts of one type for one user are possible, as no index forbids them, although
`backend/README.md:450` promises one of each. The run `onboarding` has two requests of any kind, a
manager, an administrator and two users who wait.

### Reports

The handlers that only read are operators over the documents of the bank, and the
run `bank_safety` checks them in each of its states: a statement explains the
balance of an active account except for the lines that are pending or rejected
(`StatementsAddUp`), and the savings of the analytics differ from the change of
the balance by exactly the transfers between one's own accounts and the deposits
one files for others (`SavingsAreExplained`). `StatsAddUp` is about all the money in
the bank, as `getSystemStats` shows it to a manager: it is what the bank opened
with, plus the deposits, minus the withdrawals. Only a transfer from an account to
itself adds to it, which is what `bank_total` finds. The volume of a type also counts
deposits that are pending or were rejected, while the total volume does not.
`ReportsProofs` proves the three, with `BalanceMatchesLedger`, for any number of
requests. A handler that reads in several queries is taken to find the documents as
they are at one moment.

### Client

`ClientPages` describes each page and modal by its steps, the moves between them
and its buttons: which request a button sends, what disables it, and where the
handler goes when the answer is good. `ClientStore` has the slices `auth` and
`transaction` with their reducers. `Client` puts them behind the router: `Redirect`
and `Mount` are the guards and the layout (`GuestRoute`, `ProtectedLayout`,
`RoleBasedRoute`), `Click`, `Follow`, `Step`, `Back`, `Reload` and `CloseModal` what the
user does, `Serve` and `Receive` an answer that is computed and that arrives, in any
order, after a navigation or a logout, or as a failure. The server is as much of
it as the answers tell.

The run `client` has a customer or a manager, who enters by the pages of
`EntryPages` and whose clicks send the requests of `MoneyClicks`, two in flight at a
time. Two requests are enough for an answer to overtake another and for the
answer of one to clear the flag of the other. The user reloads only a page that
is mounted; from any other moment that leads to the same state.
`client_frozen` has a customer who edits his profile.

A button has the flag that disables it (`needs`) and the flag its request keeps up
(`busy`). A field that runs the same handler on Enter, or on the last digit of a
code, is a `Key`: it looks at no flag. The TPIN field of the transfer page is one
(`Transfer.jsx:423`, `TPINInput.jsx:38`), and `handleTransfer` does not look at
`loading` either, so Enter twice sends two transfers.

`OnlyTransfersOverlap` and `SessionIsKnown` state what the code guarantees, with the
exceptions it leaves: a deposit or a withdrawal is sent while another money request
is in flight only after another request cleared the shared loading flag (`disturbed`);
a transfer may be sent again at any time; `getMe` may fail for another reason than a
missing session (`blind`).

### Fairness

| Specification | Fair steps | Why |
|---|---|---|
| `Identity`, `Onboarding` | the next step of a request that has arrived; in `Identity` also the expiry of codes and marks | Node resumes a handler whose call has returned or failed; Redis keeps its clock |
| `Queue` | producing, delivering and consuming; connecting and setting up consumers; the restart | Node and the broker go on with what they have; Docker starts the process again. Leaving (`Exit`) is not fair: browsers may stay connected |
| `Chat` | packets arrive and are served; reconnecting | TCP while the connection lasts; the socket client tries again. HTTP answers and the processing of a message are not fair |
| `Client` | the router and the answers, while no page is mounted | React renders, axios answers or fails. The user, the staff and the clock need do nothing |

### Runs

| Run | Checks |
|---|---|
| `identity` | `Inv`, `CodesAreSpent`, `SettingsAreProtected`, `SessionsAreEarned`, `NobodyIsLockedOut`, `EverythingLapses` |
| `identity_tpin` (violated) | `TpinIsSetOnce` |
| `delivery` | `Inv`, `Accounted`, `NoNeedlessCopies`, `QueuesDrain`, `ImplementsJobs` |
| `chat` | `Inv`, `PaneIsKnown`, `ListeningIsJoined`, `NewestReadIsReturned`, `VerifyingEnds` |
| `onboarding` | `Inv`, `NothingIsShared`, `DecisionsAreFounded`, `AnswersStayTrue`, `NothingIsUndone`, `RequestsEnd` |
| `client` | `Inv`, `SessionIsKnown`, `OnlyTransfersOverlap`, `PageSettles` |
| `client_frozen` (violated) | `FrozenStayAway` |

`Inv` is the invariant the proofs are about; it contains the type invariant.
Deadlock is not checked where all requests, messages or visits may be used up.
Each property has a mutant of the code that breaks it.

## 5. What is proved

Every theorem holds for all values of the constants that satisfy the named
assumptions of the modules: well-typed parameters and distinct names.

### The bank

For every set of users, accounts, requests, tasks, amounts and operations, every
number of attempts and crashes, under the named assumptions of `BankTypes`,
`TransactionController` and `AccountController` (well-typed parameters, distinct
ids; finitely many accounts, and deposits pending at the start):

| Theorem | Says |
|---|---|
| `InvHolds` | `Spec => []Inv` |
| `TypeCorrect`, `Covered`, `RetriesAreClean`, `AnswersHold`, `AskedFor` | `TypeOK`, `NeverOverdrawn`, `NoRetryAfterCommit`, `AnswersAreTrue`, `RecordsWereAsked` |
| `BalancesExplained`, `StatementsHold`, `SavingsHold`, `StatsHold` (in `ReportsProofs`) | `BalanceMatchesLedger`, `StatementsAddUp`, `SavingsAreExplained`, `StatsAddUp` |
| `LedgerImplemented` | `Spec => Ledger!Spec` |
| `MoneyOnActive`, `DecidedOnce` | the two action properties |

None of the safety properties is inductive. That a commit leaves no account
negative, for example, depends on the balance the body saw, perhaps many steps
ago, being the balance now. `Inv` supplies the argument: a document that is not
in `stale[r]` is as `r` loaded it (`FreshInv`); what `r` has written is neither
stale nor written by anybody else (`FreshInv`, `LockInv`); what it has written
follows from where it is (`BodyInv`) and is the loaded balance plus or minus the
amount, which was covered (`ImageInv`). At the commit everything a record names
is in `dirty[r]`, so the committed balance is the current one plus or minus the
amount, and the account is active now. `PhaseInv` ties the position of a request
to its record in the ledger; `AlertInv` keeps alerts true.

`BankProofs` has one lemma per action. The frame lemmas say what a step of one
request leaves alone of the others: `QuietStep` for steps that touch only the
request's own session, `SaveStep` for a save, `CommitStep` for a commit, which
makes documents stale for the others. The last part of `BankProofs` shows that a
commit is a `Post`, `FileDeposit`, `Approve` or `Reject` (`CommitSimulation`), an account save
is a `SetStatus` or a stutter, and everything else a stutter; the two action
properties then follow from the abstract steps.

`RecordsWereAsked` is not inductive either: what enters the ledger is the record a
body has prepared, so `AskedInv` adds that every prepared record is as asked
(`Drafted`). One lemma, `StepFaithful`, says of any step and any request what becomes of
its body, its prepared record and its record in the ledger; another user's verdict
is the one change to a record that is not its request's own (`AskedDecided`).

### Sums and reports

The properties that sum over accounts or records are proved in
`ReportsProofs`. `SumFunction` picks the elements of a set one after the other, in
an order nobody knows, through a recursion of the community modules. `Sums` proves
what does not depend on the order: the sum over the empty set, what adding,
changing or taking out one element does, that pointwise sums add up, that zeros do
not count, and that rows and columns of a table sum to the same (`SumOfRows`). Its
inductions are over the finite subsets of a set. The library's induction theorems
take an operator as a parameter; `SubsetInduction` takes instead the *set* of the
subsets for which the claim holds, and follows from the theorem that the strict
subsets of a finite set are well-founded.

*Balances.* `Explained` is `BalanceMatchesLedger` together with the finiteness of
`Entered`, the records in the ledger. The requests that may come are any set, also
an infinite one; a step enters at most one record, so `Entered` stays finite. A
commit is one step of the abstract ledger; `Booked` says that a record that is
entered or decided moves each balance by what the record is now worth (`Worth`)
and the sum by the same.

*Statements.* For each record the amounts on the statement's lines, less those that
are open, are its effect (`LinesBalance`); summed with
`TotalsBalance` and compared with `Explained` this is the statement.

*Savings.* The summary sums over accounts, the analytics over records: the gain of a
set of accounts is a table of records by accounts, and `SumOfRows` turns the one order of
summation into the other (`GainsAddUp`). For one record, what the analytics count and
what the accounts gained differ by its share in the transfers between own accounts
and in the deposits for others (`FlowsBalance`). That needs to know who took part:
`Senders` and `Receivers` are the users a record names, and they are the owners of
its accounts because the record is as asked (`AskedInv`), or was pending from the
start (`FiledDeposits`).

*Overview.* The same lemma about gains, for the set of all accounts, gives the money
in the bank. What a record did to it follows from its type, its status and whether its
two accounts are one (`MoneyBalances`), since a record has the accounts its type calls for and only deposits are ever
unposted (`Shape`, a part of `Inv`).

### Queue, Identity, Chat, Onboarding, Client

| Module | Theorems |
|---|---|
| `QueueProofs` | `InvHolds`; `NothingForgotten` (`Accounted`), `CopiesAreBounded` (`NoNeedlessCopies`), `JobsImplemented` (`Spec => Jobs!Spec`) |
| `IdentityProofs` | `InvHolds`; `SingleUse` (`CodesAreSpent`), the action property `Protected` (`SettingsAreProtected`), `Earned` (`SessionsAreEarned`), `NoLockOut` (`NobodyIsLockedOut`) |
| `ChatProofs` | `InvHolds`; `PaneKnown` (`PaneIsKnown`), `Listening` (`ListeningIsJoined`), `ReadReturned` (`NewestReadIsReturned`) |
| `OnboardingProofs` | `InvHolds`; `Unshared` (`NothingIsShared`), `DecisionsFounded`, `AnswersHold`, and the action property `NothingUndone` (`NothingIsUndone`) |
| `ClientProofs` | `SessionKnown` (`SessionIsKnown`), `CashIsSentAlone` (`OnlyTransfersOverlap`); `InvHolds` |

*Queue.* That a job is not done twice depends on its being in one place only.
`PlaceInv` says where it may be, with the state of its consumer, the channel and
the process; `CopyInv` that where it may still take place it has not yet, or has
been put back. Each action moves the jobs of one place, so its lemma goes through
`PlaceInv` and `CopyInv` of one job. For the refinement every action is an `Ask`, a
`Do`, a `Drop`, both at once, or a stutter.

*Identity.* `StageInv` says of a request what it has seen by the step it is at: a
request about to save has passed its checks on the document it loaded, and, for a
reset, a code of its purpose was spent; what it presented was right when it loaded
the document (`Weighed`), which is what `StepsAreSanctioned` needs at the save. `CodeInv` says that a code in the store or
in the mail was drawn for that mailbox by a request that has got that far, so that
a code, once deleted, cannot be stored again. `KeepInv` says what documents loaded
earlier have in common with the current one. The histories `spent` and `earned` only
grow, which is the frame lemma: what a request knows of them stays true whatever
the others do.

*Chat.* What is shown is known because everything under way is: each packet for the
browser names a stored message of an opened conversation (`ClientPacketInv`), each
history holds stored messages of its contact (`FetchInv`). A room is active only
after a `join_chat` packet came back, and such a packet is under way only while the
server has the socket in the room; a broken connection takes the packets, the rooms
and the active room away together. `Parts` is `Inv` split by what it is about, so
that each action is shown to keep the parts it touches and the `...Stay` lemmas do the
rest; the sequences of packets are handled by what they hold (`Elems`).

*Onboarding.* `Founded` is the same for the checks of `approveRegistration`, `Sound` for
what a request will answer. An answer must stay true although users are deleted,
and it does because a user, once created, cannot be created again (`Settled`: the
request that registers him is past that step). `Good` is what each step is shown to
do; `Frame` and `GoodKeepsInv` turn it into the invariant, once for all actions.

*Client.* For any roles, pages, clicks and number of requests in flight. `IInv` has
four parts. `Typed`: every request in flight is what some button or page sends, or
what follows it (`ButtonsAreGood` goes through the buttons of all pages). `Fits`: a
slice that is loading has a request in flight that will end it. `Money`: while a
money request is in flight and nothing else interfered, the shared flag is up, and
the buttons that deposit and withdraw wait for it. `Session`: whenever the cookie is good and
nobody is shown signed in, a `getMe` that will not be answered "nobody" is in
flight (`Telling`); it is what the effect in `App.jsx` is for, and its inductive step is
`AskedOrTold`. `Moving` and `Sending` are the frame lemmas for a dispatch without and
with a new request. Its last part adds what the types need: a mounted handler
that shows a step belongs to the page on view (`Placed`), and an answer, or a
cookie, is of an account that exists (`Exact`).

### Only model-checked

- The liveness properties `EveryRequestEnds`, `RequestsEnd`, `EverythingLapses`, `QueuesDrain`,
  `VerifyingEnds` and `PageSettles`: liveness is out of the prover's reach.

Every other property of a passing run is stated by a theorem.

The violated properties are refuted, not proved.

## 6. What the checks found

- A transfer whose sender and receiver are the same account adds the amount to it
  (`bank_total`).
- An exception after the commit is answered as an error (`bank_error`).
- Two requests that set a first TPIN at the same time are both answered with
  success, and the second TPIN replaces the first (`identity_tpin`), although
  `backend/README.md:404` says that setting it is "one-time, errors if already set".
- A dispute can be left on an active account (`bank_dispute`).
- A customer whose accounts are all frozen gets the dashboard back by saving his
  profile or his KYC documents: the answer replaces the user in the store and has
  no freeze flags (`client_frozen`).

Noticed while modelling, where a document promises otherwise and no run is spent on it:

- `PATCH /accounts/:id/status` answers 404 to every request, because `validate()`
  (`validate.js:13`) drops the path parameters that the route's schema does not name;
  `backend/README.md:443` documents the route. `AccountController` models it
  (`IdArrives`).
- One user can open two accounts of one type (`account.controller.js:17`);
  `backend/README.md:450`: "Each user can have one Savings and one Current account".
- `verify2FA` gives a session for an address and a token, without the login it is
  to complete (`backend/README.md:426`: "an additional TOTP verification step").
- A message beyond the first page is marked as read without being fetched
  (`chat.controller.js:229`, `backend/README.md:575`).

Noticed without such a document: the Enter key of the TPIN field sends a second
transfer while the first is in flight (`Transfer.jsx:423`); the expiry of the session
cookie is computed when the process starts (`auth.controller.js:28`), so that a day
later no login lasts; two requests can use one verification mark; a message can be
shown in the conversation of another contact; a transfer between one's own accounts
counts as spent.

## 7. What is not modelled

Amounts are whole rupees: floating-point rounding, and the rejection of amounts
below 1 by the schema of the transaction document, are left out. TPIN and 2FA
checks are a refusal that may happen (`Refuse`). Descriptions, names and the text
of alerts carry no meaning for a property. What becomes of an alert after it was
handed to the queue belongs to `Queue`. Roles do not change while a request of the
bank runs, as its handlers use the role that `isAuth` loaded; `Onboarding` lets them
change.

The rate limiter counts in a library; uploads put one file per request under a
fresh key; the mailer, the contact form, the calculator and the seeding scripts
keep no state. Pagination, searches and the other statistics of the administrators
only list or count. Of the client, what the pages render, their filters and charts, and the
slices `admin` and `account` are left out; of the chat, typing events and the order
of the messages in a room. Two tabs of one browser are not modelled. Times are
not: a timer may run out at any moment after it was set. `PROJECT.json` gives a
reason for each component that is left out.
