--------------------------------- MODULE Chat ---------------------------------
(***************************************************************************)
(* A conversation end to end: the Messages page and the SocketContext of   *)
(* one user's browser, the socket server of config/socket.js, getMessages  *)
(* of chat.controller.js and the message queue, of which only what Jobs    *)
(* promises is used. Packets of one connection arrive in order; answers of *)
(* HTTP requests do not. A room is named after the contact it is shared    *)
(* with. Typing events and the list of rooms are left out.                 *)
(***************************************************************************)
EXTENDS Naturals, Sequences, FiniteSets

CONSTANTS
  Contact,     \* the users the owner of the browser talks to
  Sent, Got,   \* messages the owner may send, contacts may send to the owner
  Peer,        \* Peer[m]: the contact a message goes to or comes from
  Nobody,      \* no contact
  PageSize,    \* how many messages a history holds (the page asks for 100)
  MaxSelects,  \* bound: how often a contact is selected
  MaxVisits,   \* bound: how often the page is opened
  MaxDrops,    \* bound: how often the connection breaks
  MaxServed    \* bound: how many histories the server gets to serve

Message == Sent \cup Got
ASSUME PeerAssumption == Peer \in [Message -> Contact]
ASSUME NamesAssumption == Nobody \notin Contact /\ Sent \cap Got = {}
ASSUME PageAssumption == PageSize \in Nat \ {0}
ASSUME BoundsAssumption == {MaxSelects, MaxVisits, MaxDrops, MaxServed} \subseteq Nat

VARIABLES
  connected,           \* isConnected: the socket, as both ends see it
  rooms,               \* the chat rooms the server has joined the socket to
  toServer, toClient,  \* packets under way
  asked, done, dropped,\* the messages handed to the queue, stored, given up (never)
  older,               \* older[m]: what was stored when m was, the order of createdAt
  read,                \* the messages marked as read
  onPage,              \* whether the Messages page is mounted
  selected, verifying, active,  \* selectedContact, isVerifyingPermission, activeRoomId
  pane,                \* chatMessages
  fetches,             \* the requests for a history: contact, stage, messages
  notified,            \* the messages in the list of notifications
  opened,              \* history: the contacts that were ever selected
  selects, visits, drops

server == <<rooms, asked, done, dropped, older, read>>
page == <<onPage, selected, verifying, active, pane>>
bounds == <<selects, visits, drops>>
vars == <<connected, toServer, toClient, server, page, fetches, notified, opened, bounds>>

Queue == INSTANCE Jobs WITH Job <- Message

Packet == [type : {"join_chat"}, contact : Contact, visit : Nat]
          \cup [type : {"receive_message", "new_message_notification", "send_message"},
                message : Message]
Stages == {"mark", "find", "answer", "shown"}

Init ==
  /\ connected = TRUE /\ rooms = {} /\ toServer = <<>> /\ toClient = <<>>
  /\ asked = Got /\ done = {} /\ dropped = {} /\ read = {}
  /\ older = [m \in Message |-> {}]
  /\ onPage = FALSE /\ selected = Nobody /\ verifying = FALSE /\ active = Nobody
  /\ pane = {} /\ fetches = <<>> /\ notified = {} /\ opened = {}
  /\ selects = 0 /\ visits = 0 /\ drops = 0

-----------------------------------------------------------------------------
(* The page.                                                               *)

(* joinChatRoom, the effect that runs when the contact or the connection   *)
(* changes. A packet is sent at once or kept until the socket is connected.*)
Join(c) == [type |-> "join_chat", contact |-> c, visit |-> visits]

joinChatRoom(c) ==
  /\ verifying' = TRUE /\ active' = Nobody
  /\ toServer' = Append(toServer, Join(c))

OpenPage ==
  /\ ~onPage /\ visits < MaxVisits
  /\ onPage' = TRUE /\ visits' = visits + 1
  /\ selected' = Nobody /\ verifying' = FALSE /\ active' = Nobody /\ pane' = {}
  /\ UNCHANGED <<connected, toServer, toClient, server, fetches, notified, opened, selects, drops>>

ClosePage ==
  /\ onPage /\ onPage' = FALSE
  /\ selected' = Nobody /\ verifying' = FALSE /\ active' = Nobody /\ pane' = {}
  /\ UNCHANGED <<connected, toServer, toClient, server, fetches, notified, opened, bounds>>

(* Contacts are shown while none is selected; the messages shown before    *)
(* stay until the history of the new contact arrives.                      *)
Select(c) ==
  /\ onPage /\ selected = Nobody /\ selects < MaxSelects
  /\ selected' = c /\ opened' = opened \cup {c} /\ selects' = selects + 1
  /\ joinChatRoom(c)
  /\ UNCHANGED <<connected, toClient, server, onPage, pane, fetches, notified, visits, drops>>

Back ==
  /\ onPage /\ selected # Nobody
  /\ selected' = Nobody /\ active' = Nobody
  /\ UNCHANGED <<connected, toServer, toClient, server, onPage, verifying, pane, fetches,
                 notified, opened, bounds>>

handleSendMessage(m) ==
  /\ onPage /\ selected # Nobody /\ active # Nobody /\ ~verifying
  /\ m \in Sent \ asked /\ Peer[m] = selected
  /\ ~\E i \in DOMAIN toServer : toServer[i] = [type |-> "send_message", message |-> m]
  /\ toServer' = Append(toServer, [type |-> "send_message", message |-> m])
  /\ UNCHANGED <<connected, toClient, server, page, fetches, notified, opened, bounds>>

-----------------------------------------------------------------------------
(* What arrives at the browser. The callback of join_chat was made by the  *)
(* effect of an earlier render: it belongs to the contact selected then,   *)
(* and does nothing when that page is gone.                                *)

Callback(c, visit) ==
  /\ fetches' = Append(fetches, [contact |-> c, stage |-> "mark", found |-> {},
                                 visit |-> visit])
  /\ IF onPage /\ visit = visits
     THEN verifying' = FALSE /\ active' = c ELSE UNCHANGED <<verifying, active>>
  /\ UNCHANGED <<pane, notified>>

(* The listener is there while a room is active, for messages of any room. *)
handleReceiveMessage(m) ==
  /\ pane' = IF onPage /\ active # Nobody THEN pane \cup {m} ELSE pane
  /\ UNCHANGED <<verifying, active, fetches, notified>>

Notify(m) ==
  /\ notified' = IF onPage THEN notified ELSE notified \cup {m}
  /\ UNCHANGED <<verifying, active, pane, fetches>>

Arrive ==
  /\ connected /\ toClient # <<>>
  /\ toClient' = Tail(toClient)
  /\ LET p == Head(toClient)
     IN  CASE p.type = "join_chat" -> Callback(p.contact, p.visit)
           [] p.type = "receive_message" -> handleReceiveMessage(p.message)
           [] p.type = "new_message_notification" -> Notify(p.message)
  /\ UNCHANGED <<connected, toServer, server, onPage, selected, opened, bounds>>

-----------------------------------------------------------------------------
(* The socket server. checkChatPermission refuses only oneself.            *)

Serve ==
  /\ connected /\ toServer # <<>>
  /\ toServer' = Tail(toServer)
  /\ LET p == Head(toServer)
     IN  CASE p.type = "join_chat" ->
                /\ rooms' = rooms \cup {p.contact}
                /\ toClient' = Append(toClient, p)
                /\ UNCHANGED <<asked, done, dropped>>
           [] p.type = "send_message" ->
                Queue!Ask(p.message) /\ UNCHANGED <<rooms, toClient>>
  /\ UNCHANGED <<connected, older, read, page, fetches, notified, opened, bounds>>

(* Mutant: the message is emitted to its receiver instead of its room.     *)
EmittedToUser(m) ==
  <<[type |-> "receive_message", message |-> m]>>
  \o (IF m \in Got THEN <<[type |-> "new_message_notification", message |-> m]>> ELSE <<>>)

(* What the browser is sent once m is stored: the room's event if it has   *)
(* joined the room, and the notification if the owner is the receiver.     *)
Emitted(m) ==
  (IF Peer[m] \in rooms THEN <<[type |-> "receive_message", message |-> m]>> ELSE <<>>)
  \o (IF m \in Got THEN <<[type |-> "new_message_notification", message |-> m]>> ELSE <<>>)

processChatMessage(m) ==
  /\ m \notin done /\ Queue!Do(m)
  /\ older' = [older EXCEPT ![m] = done]
  /\ toClient' = IF connected THEN toClient \o Emitted(m) ELSE toClient
  /\ UNCHANGED <<connected, toServer, rooms, read, page, fetches, notified, opened, bounds>>

-----------------------------------------------------------------------------
(* getMessages: mark every message of the conversation as read, then find  *)
(* the first page of it, the newest first; and the answer at the page.     *)

Of(c) == {m \in done : Peer[m] = c}

FirstPage(c) ==
  {P \in SUBSET Of(c) :
     /\ Cardinality(P) <= PageSize
     /\ \A m \in Of(c) \ P : Cardinality(P) = PageSize /\ \A n \in P : m \in older[n]}

FindNow(i, from, to) ==
  /\ fetches[i].stage = from
  /\ \E P \in FirstPage(fetches[i].contact) :
       fetches' = [fetches EXCEPT ![i].stage = to, ![i].found = P]

MarkNow(i, from, to) ==
  /\ fetches[i].stage = from
  /\ fetches' = [fetches EXCEPT ![i].stage = to]
  /\ read' = read \cup (Got \cap Of(fetches[i].contact))

(* Mutant: the messages are found first and marked as read afterwards.     *)
getMessagesReversed(i) ==
  /\ \/ FindNow(i, "mark", "find") /\ UNCHANGED read
     \/ MarkNow(i, "find", "answer")
  /\ UNCHANGED <<connected, toServer, toClient, rooms, asked, done, dropped, older, page, notified,
                 opened, bounds>>

getMessages(i) ==
  /\ \/ MarkNow(i, "mark", "find")
     \/ FindNow(i, "find", "answer") /\ UNCHANGED read
  /\ UNCHANGED <<connected, toServer, toClient, rooms, asked, done, dropped, older, page, notified,
                 opened, bounds>>

(* The history replaces what is shown, whoever is selected now; a page     *)
(* that was left in the meantime shows nothing.                            *)
Show(i) ==
  /\ fetches[i].stage = "answer"
  /\ fetches' = [fetches EXCEPT ![i].stage = "shown"]
  /\ pane' = IF onPage /\ fetches[i].visit = visits THEN fetches[i].found ELSE pane
  /\ UNCHANGED <<connected, toServer, toClient, server, onPage, selected, verifying, active,
                 notified, opened, bounds>>

-----------------------------------------------------------------------------
(* The connection breaks: what is under way is lost, with the callbacks    *)
(* that waited for it, and the server forgets the rooms. The effect runs   *)
(* again when isConnected changes, in both directions.                     *)

(* Mutant: the effect does not depend on isConnected.                      *)
RejoinNot(kept) == toServer' = kept /\ UNCHANGED <<verifying, active>>

Rejoin(kept) ==
  IF selected # Nobody
  THEN /\ verifying' = TRUE /\ active' = Nobody
       /\ toServer' = Append(kept, Join(selected))
  ELSE active' = Nobody /\ toServer' = kept /\ UNCHANGED verifying

Disconnect ==
  /\ connected /\ drops < MaxDrops
  /\ connected' = FALSE /\ rooms' = {} /\ toClient' = <<>> /\ drops' = drops + 1
  /\ Rejoin(<<>>)
  /\ UNCHANGED <<asked, done, dropped, older, read, onPage, selected, pane, fetches, notified, opened,
                 selects, visits>>

Reconnect ==
  /\ ~connected /\ connected' = TRUE
  /\ Rejoin(toServer)
  /\ UNCHANGED <<toClient, server, onPage, selected, pane, fetches, notified, opened, bounds>>

-----------------------------------------------------------------------------
(* Any of the requests may be the ones that are served.                    *)
Served == {i \in DOMAIN fetches : fetches[i].stage # "mark"}
History ==
  \E i \in DOMAIN fetches :
    /\ Cardinality(Served \cup {i}) <= MaxServed
    /\ getMessages(i) \/ Show(i)

Next ==
  \/ OpenPage \/ ClosePage \/ Back \/ Arrive \/ Serve \/ Disconnect \/ Reconnect
  \/ \E c \in Contact : Select(c)
  \/ \E m \in Message : handleSendMessage(m) \/ processChatMessage(m)
  \/ History

Spec == Init /\ [][Next]_vars

(* A message that is lost is one that is never processed, a request that   *)
(* fails one that goes no further: neither is fair.                        *)
(* Packets arrive while the connection lasts, and the client of socket.io  *)
(* connects again (it tries five times, MaxDrops is below that).           *)
Fairness == WF_vars(Arrive) /\ WF_vars(Serve) /\ WF_vars(Reconnect)

FairSpec == Spec /\ Fairness

-----------------------------------------------------------------------------
TypeOK ==
  /\ connected \in BOOLEAN /\ rooms \in SUBSET Contact
  /\ toServer \in Seq(Packet) /\ toClient \in Seq(Packet)
  /\ Queue!TypeOK /\ read \in SUBSET Got /\ older \in [Message -> SUBSET Message]
  /\ onPage \in BOOLEAN /\ selected \in Contact \cup {Nobody}
  /\ verifying \in BOOLEAN /\ active \in Contact \cup {Nobody}
  /\ pane \in SUBSET Message /\ notified \in SUBSET Got
  /\ fetches \in Seq([contact : Contact, stage : Stages, found : SUBSET Message, visit : Nat])
  /\ opened \in SUBSET Contact
  /\ selects \in 0 .. MaxSelects /\ visits \in 0 .. MaxVisits /\ drops \in 0 .. MaxDrops

(* What the page renders below the name of the selected contact.           *)
Shown == IF selected # Nobody /\ active # Nobody /\ ~verifying THEN pane ELSE {}

(* What is shown, or announced, has been stored, and no message of a       *)
(* conversation that was never opened is shown, whatever arrives late.     *)
PaneIsKnown ==
  /\ Shown \cup notified \subseteq done
  /\ \A m \in Shown : Peer[m] \in opened

(* While a room is active on a connected page the server has the socket in *)
(* that room: a broken connection does not leave the page deaf.            *)
ListeningIsJoined == active # Nobody /\ connected => active \in rooms

(* A message is marked as read only by a request of its conversation that  *)
(* has not looked for its messages yet, whose answer holds it, or whose    *)
(* page was full of messages stored later: getMessages marks them all and  *)
(* returns one page, so a message beyond the first page is read unseen. It *)
(* never happens to one of the page's newest, whatever is stored between   *)
(* the two calls.                                                          *)
Accounts(f, m) ==
  /\ f.contact = Peer[m]
  /\ \/ f.stage = "find"
     \/ m \in f.found
     \/ Cardinality(f.found) = PageSize /\ \A n \in f.found : m \in older[n]

NewestReadIsReturned == \A m \in read : \E i \in DOMAIN fetches : Accounts(fetches[i], m)

(* The page does not verify a permission for ever, although the callback   *)
(* it waits for may be lost with a connection.                             *)
VerifyingEnds == []<>(selected = Nobody \/ ~verifying)

-----------------------------------------------------------------------------
(***************************************************************************)
(* Why it works: packets and answers under way are about rooms that were   *)
(* opened and messages that were stored, and a broken connection leaves    *)
(* neither a room nor a packet for the browser.                            *)
(***************************************************************************)
PacketInv(p) ==
  /\ p.type = "join_chat" => p.contact \in opened
  /\ p.type # "join_chat" => p.message \in Message

ClientPacketInv(p) ==
  /\ p.type # "send_message"
  /\ p.type = "join_chat" => p.contact \in opened \cap rooms
  /\ p.type \in {"receive_message", "new_message_notification"} => p.message \in done
  /\ p.type = "receive_message" => Peer[p.message] \in opened
  /\ p.type = "new_message_notification" => p.message \in Got

FetchInv(f) ==
  /\ f.contact \in opened
  /\ \A m \in f.found : m \in done /\ Peer[m] = f.contact

Inv ==
  /\ TypeOK
  /\ PaneIsKnown
  /\ ListeningIsJoined
  /\ NewestReadIsReturned
  /\ pane \subseteq done /\ \A m \in pane : Peer[m] \in opened
  /\ rooms \subseteq opened /\ read \subseteq done
  /\ selected # Nobody => selected \in opened
  /\ ~connected => rooms = {} /\ toClient = <<>> /\ active = Nobody
  /\ \A i \in DOMAIN toServer : PacketInv(toServer[i]) /\ toServer[i].type \in {"join_chat", "send_message"}
  /\ \A i \in DOMAIN toClient : ClientPacketInv(toClient[i])
  /\ \A i \in DOMAIN fetches : FetchInv(fetches[i])
=============================================================================
