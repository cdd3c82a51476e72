------------------------------ MODULE ChatProofs ------------------------------
(***************************************************************************)
(* Proofs about Chat, for any contacts and messages and any number of      *)
(* selections, visits, broken connections and histories.                   *)
(***************************************************************************)
EXTENDS Chat, TLAPS

(* What a sequence holds, and how the operators on sequences change it.    *)
Elems(s) == {s[i] : i \in DOMAIN s}

LEMMA ElemsAppend ==
  ASSUME NEW T, NEW s \in Seq(T), NEW x \in T
  PROVE  Append(s, x) \in Seq(T) /\ Elems(Append(s, x)) = Elems(s) \cup {x}
<1>1. /\ Append(s, x) \in Seq(T) /\ Len(Append(s, x)) = Len(s) + 1
      /\ DOMAIN s = 1 .. Len(s) /\ DOMAIN Append(s, x) = 1 .. (Len(s) + 1)
      /\ Len(s) \in Nat
  OBVIOUS
<1>2. \A i \in 1 .. Len(s) : Append(s, x)[i] = s[i]
  OBVIOUS
<1>3. Append(s, x)[Len(s) + 1] = x
  OBVIOUS
<1>4. \A i \in 1 .. (Len(s) + 1) : i \in 1 .. Len(s) \/ i = Len(s) + 1
  BY <1>1
<1>5. \A i \in 1 .. Len(s) : i \in 1 .. (Len(s) + 1)
  BY <1>1
<1>6. Len(s) + 1 \in 1 .. (Len(s) + 1)
  BY <1>1
<1>7. QED
  BY <1>1, <1>2, <1>3, <1>4, <1>5, <1>6 DEF Elems

LEMMA ElemsTail ==
  ASSUME NEW T, NEW s \in Seq(T), s # <<>>
  PROVE  /\ Tail(s) \in Seq(T) /\ Elems(Tail(s)) \subseteq Elems(s)
         /\ Head(s) \in T /\ Head(s) \in Elems(s)
<1>1. /\ Tail(s) \in Seq(T) /\ Len(Tail(s)) = Len(s) - 1 /\ Len(s) \in Nat \ {0}
      /\ DOMAIN s = 1 .. Len(s) /\ DOMAIN Tail(s) = 1 .. (Len(s) - 1)
      /\ Head(s) = s[1] /\ Head(s) \in T
  OBVIOUS
<1>2. \A i \in 1 .. (Len(s) - 1) : Tail(s)[i] = s[i + 1] /\ i + 1 \in 1 .. Len(s)
  BY <1>1
<1>3. 1 \in 1 .. Len(s)
  BY <1>1
<1>4. QED
  BY <1>1, <1>2, <1>3 DEF Elems

LEMMA ElemsExcept ==
  ASSUME NEW T, NEW s \in Seq(T), NEW i \in DOMAIN s, NEW x \in T
  PROVE  [s EXCEPT ![i] = x] \in Seq(T)
<1>1. s \in [1 .. Len(s) -> T] /\ Len(s) \in Nat /\ DOMAIN s = 1 .. Len(s)
  OBVIOUS
<1>2. [s EXCEPT ![i] = x] \in [1 .. Len(s) -> T]
  BY <1>1
<1>3. \A n \in Nat : \A t \in [1 .. n -> T] : t \in Seq(T)
  OBVIOUS
<1>4. QED
  BY <1>1, <1>2, <1>3

LEMMA ElemsConcat ==
  ASSUME NEW T, NEW s \in Seq(T), NEW t \in Seq(T)
  PROVE  s \o t \in Seq(T) /\ Elems(s \o t) \subseteq Elems(s) \cup Elems(t)
<1>1. /\ s \o t \in Seq(T) /\ Len(s) \in Nat /\ Len(t) \in Nat
      /\ DOMAIN s = 1 .. Len(s) /\ DOMAIN t = 1 .. Len(t)
      /\ DOMAIN (s \o t) = 1 .. (Len(s) + Len(t))
  OBVIOUS
<1>2. ASSUME NEW i \in DOMAIN (s \o t) PROVE (s \o t)[i] \in Elems(s) \cup Elems(t)
  <2>1. CASE i \in 1 .. Len(s)
    BY <1>1, <2>1 DEF Elems
  <2>2. CASE i \notin 1 .. Len(s)
    <3>1. i - Len(s) \in 1 .. Len(t) /\ (s \o t)[i] = t[i - Len(s)]
      BY <1>1, <2>2
    <3>2. QED
      BY <1>1, <3>1 DEF Elems
  <2>3. QED
    BY <2>1, <2>2
<1>3. QED
  BY <1>1, <1>2 DEF Elems

-----------------------------------------------------------------------------
(* The invariant by what its parts are about.                              *)
Fetch == [contact : Contact, stage : Stages, found : SUBSET Message, visit : Nat]

Plain ==
  /\ connected \in BOOLEAN /\ rooms \in SUBSET Contact
  /\ asked \in SUBSET Message /\ done \in SUBSET Message /\ dropped \in SUBSET Message
  /\ read \in SUBSET Got /\ older \in [Message -> SUBSET Message]
  /\ onPage \in BOOLEAN /\ selected \in Contact \cup {Nobody}
  /\ verifying \in BOOLEAN /\ active \in Contact \cup {Nobody}
  /\ pane \in SUBSET Message /\ notified \in SUBSET Got
  /\ opened \in SUBSET Contact
  /\ selects \in 0 .. MaxSelects /\ visits \in 0 .. MaxVisits /\ drops \in 0 .. MaxDrops

PageHolds ==
  /\ pane \subseteq done /\ notified \subseteq done
  /\ \A m \in pane : Peer[m] \in opened
  /\ selected # Nobody => selected \in opened

RoomsHold ==
  /\ rooms \subseteq opened
  /\ ListeningIsJoined
  /\ ~connected => rooms = {} /\ toClient = <<>> /\ active = Nobody

ReadHolds ==
  read \subseteq done /\ \A m \in read : \E f \in Elems(fetches) : Accounts(f, m)

ToServer(p) == PacketInv(p) /\ p.type \in {"join_chat", "send_message"}
ToServerHolds == toServer \in Seq(Packet) /\ \A p \in Elems(toServer) : ToServer(p)
ToClientHolds == toClient \in Seq(Packet) /\ \A p \in Elems(toClient) : ClientPacketInv(p)
FetchesHold == fetches \in Seq(Fetch) /\ \A f \in Elems(fetches) : FetchInv(f)

Parts ==
  Plain /\ PageHolds /\ RoomsHold /\ ReadHolds
  /\ ToServerHolds /\ ToClientHolds /\ FetchesHold

LEMMA InvIsParts == Inv <=> Parts
<1>1. TypeOK <=> Plain /\ toServer \in Seq(Packet) /\ toClient \in Seq(Packet)
                       /\ fetches \in Seq(Fetch)
  BY DEF TypeOK, Plain, Fetch, Queue!TypeOK
<1>2. (\A i \in DOMAIN toServer : PacketInv(toServer[i])
                                 /\ toServer[i].type \in {"join_chat", "send_message"})
      <=> \A p \in Elems(toServer) : ToServer(p)
  BY DEF Elems, ToServer
<1>3. (\A i \in DOMAIN toClient : ClientPacketInv(toClient[i]))
      <=> \A p \in Elems(toClient) : ClientPacketInv(p)
  BY DEF Elems
<1>4. (\A i \in DOMAIN fetches : FetchInv(fetches[i]))
      <=> \A f \in Elems(fetches) : FetchInv(f)
  BY DEF Elems
<1>5. PageHolds => PaneIsKnown
  BY DEF PageHolds, PaneIsKnown, Shown
<1>6. PaneIsKnown => notified \subseteq done
  BY DEF PaneIsKnown
<1>7. NewestReadIsReturned <=> \A m \in read : \E f \in Elems(fetches) : Accounts(f, m)
  BY DEF NewestReadIsReturned, Elems
<1>8. QED
  BY <1>1, <1>2, <1>3, <1>4, <1>5, <1>6, <1>7
     DEF Inv, Parts, PageHolds, RoomsHold, ReadHolds, ToServerHolds, ToClientHolds, FetchesHold

-----------------------------------------------------------------------------
(* What stays true of what an action leaves alone, while contacts are only *)
(* added to those opened and messages to those stored.                     *)
LEMMA ToServerStays ==
  ASSUME ToServerHolds, toServer' = toServer, opened \subseteq opened'
  PROVE  ToServerHolds'
BY DEF ToServerHolds, ToServer, PacketInv

LEMMA ToClientStays ==
  ASSUME ToClientHolds, toClient' = toClient,
         opened \subseteq opened', rooms \subseteq rooms', done \subseteq done'
  PROVE  ToClientHolds'
BY DEF ToClientHolds, ClientPacketInv

LEMMA FetchesStay ==
  ASSUME FetchesHold, fetches' = fetches, opened \subseteq opened', done \subseteq done'
  PROVE  FetchesHold'
BY DEF FetchesHold, FetchInv

(* What was stored before a stored message never changes, so a request     *)
(* that accounts for a message keeps doing so.                             *)
LEMMA AccountsStay ==
  ASSUME NEW f, NEW m, FetchInv(f), Accounts(f, m), \A n \in done : older'[n] = older[n]
  PROVE  Accounts(f, m)'
BY DEF FetchInv, Accounts

LEMMA ReadStays ==
  ASSUME ReadHolds, FetchesHold, read' = read, Elems(fetches) \subseteq Elems(fetches'),
         done \subseteq done', \A n \in done : older'[n] = older[n]
  PROVE  ReadHolds'
<1>1. ASSUME NEW m \in read PROVE \E f \in Elems(fetches') : Accounts(f, m)'
  <2>1. PICK f \in Elems(fetches) : Accounts(f, m)
    BY DEF ReadHolds
  <2>2. FetchInv(f)
    BY DEF FetchesHold
  <2>3. Accounts(f, m)'
    BY <2>1, <2>2, AccountsStay
  <2>4. QED
    BY <2>1, <2>3
<1>2. QED
  BY <1>1 DEF ReadHolds

LEMMA Bounds ==
  MaxSelects \in Nat /\ MaxVisits \in Nat /\ MaxDrops \in Nat /\ MaxServed \in Nat
BY BoundsAssumption

(* Packets are what their types say.                                       *)
LEMMA Packets ==
  ASSUME NEW p \in Packet
  PROVE  /\ p.type = "join_chat" => p.contact \in Contact /\ p.visit \in Nat
         /\ p.type # "join_chat" => p.message \in Message
         /\ p.type \in {"join_chat", "receive_message", "new_message_notification",
                        "send_message"}
BY DEF Packet

LEMMA NewPackets ==
  ASSUME Plain
  PROVE  /\ \A c \in Contact : Join(c) \in Packet
         /\ \A m \in Message, t \in {"receive_message", "new_message_notification", "send_message"} :
              [type |-> t, message |-> m] \in Packet
BY Bounds DEF Plain, Join, Packet

-----------------------------------------------------------------------------
LEMMA InitHolds == Init => Parts
<1> SUFFICES ASSUME Init PROVE Parts
  OBVIOUS
<1>1. Elems(<<>>) = {}
  BY DEF Elems
<1>2. Plain
  <2>1. asked \in SUBSET Message /\ older \in [Message -> SUBSET Message]
    BY DEF Init, Message
  <2>2. selects \in 0 .. MaxSelects /\ visits \in 0 .. MaxVisits /\ drops \in 0 .. MaxDrops
    BY Bounds DEF Init
  <2>3. QED
    BY <2>1, <2>2 DEF Init, Plain
<1>3. PageHolds /\ RoomsHold /\ ReadHolds
  BY DEF Init, PageHolds, RoomsHold, ReadHolds, ListeningIsJoined
<1>4. ToServerHolds /\ ToClientHolds /\ FetchesHold
  BY <1>1 DEF Init, ToServerHolds, ToClientHolds, FetchesHold
<1>5. QED
  BY <1>2, <1>3, <1>4 DEF Parts

(* The page is opened, left, or goes back to the contacts.                 *)
LEMMA Leaving ==
  ASSUME Parts, OpenPage \/ ClosePage \/ Back PROVE Parts'
<1>1. /\ UNCHANGED <<connected, toServer, toClient, server, fetches, notified, opened>>
      /\ active' = Nobody /\ selected' = Nobody /\ (pane' = {} \/ pane' = pane)
  BY DEF OpenPage, ClosePage, Back
<1>2. UNCHANGED <<rooms, asked, done, dropped, older, read>>
  BY <1>1 DEF server
<1>3. Plain'
  <2>1. /\ UNCHANGED <<selects, drops>>
        /\ visits' = visits \/ (visits < MaxVisits /\ visits' = visits + 1)
        /\ onPage' \in BOOLEAN /\ (verifying' = FALSE \/ verifying' = verifying)
    BY DEF OpenPage, ClosePage, Back, bounds, Parts, Plain
  <2>2. visits' \in 0 .. MaxVisits
    BY <2>1, Bounds DEF Parts, Plain
  <2>3. QED
    BY <1>1, <1>2, <2>1, <2>2 DEF Parts, Plain
<1>4. PageHolds' /\ RoomsHold'
  BY <1>1, <1>2 DEF Parts, PageHolds, RoomsHold, ListeningIsJoined
<1>5. ReadHolds' /\ ToServerHolds' /\ ToClientHolds' /\ FetchesHold'
  BY <1>1, <1>2, ReadStays, ToServerStays, ToClientStays, FetchesStay DEF Parts
<1>6. QED
  BY <1>3, <1>4, <1>5 DEF Parts

LEMMA Selecting ==
  ASSUME Parts, NEW c \in Contact, Select(c) PROVE Parts'
<1>1. /\ UNCHANGED <<connected, toClient, rooms, asked, done, dropped, older, read, onPage, pane,
                     fetches, notified, visits, drops>>
      /\ selected' = c /\ active' = Nobody /\ verifying' = TRUE
      /\ opened' = opened \cup {c} /\ toServer' = Append(toServer, Join(c))
      /\ selects < MaxSelects /\ selects' = selects + 1
  BY DEF Select, joinChatRoom, server
<1>2. Plain'
  BY <1>1, Bounds DEF Parts, Plain
<1>3. PageHolds' /\ RoomsHold'
  BY <1>1 DEF Parts, PageHolds, RoomsHold, ListeningIsJoined
<1>4. ReadHolds' /\ ToClientHolds' /\ FetchesHold'
  BY <1>1, ReadStays, ToClientStays, FetchesStay DEF Parts
<1>5. ToServerHolds'
  <2>1. Join(c) \in Packet /\ toServer \in Seq(Packet)
    BY NewPackets DEF Parts, ToServerHolds
  <2>2. toServer' \in Seq(Packet) /\ Elems(toServer') = Elems(toServer) \cup {Join(c)}
    BY <1>1, <2>1, ElemsAppend
  <2>3. \A p : p = Join(c) => ToServer(p)'
    BY <1>1 DEF ToServer, PacketInv, Join
  <2>4. \A p \in Elems(toServer) : ToServer(p)'
    BY <1>1 DEF Parts, ToServerHolds, ToServer, PacketInv
  <2>5. QED
    BY <2>2, <2>3, <2>4 DEF ToServerHolds
<1>6. QED
  BY <1>2, <1>3, <1>4, <1>5 DEF Parts

LEMMA Sending ==
  ASSUME Parts, NEW m \in Message, handleSendMessage(m) PROVE Parts'
<1> DEFINE P == [type |-> "send_message", message |-> m]
<1>1. /\ UNCHANGED <<connected, toClient, rooms, asked, done, dropped, older, read, onPage, selected,
                     verifying, active, pane, fetches, notified, opened, selects, visits, drops>>
      /\ toServer' = Append(toServer, P)
  BY DEF handleSendMessage, server, page, bounds
<1>2. Plain' /\ PageHolds' /\ RoomsHold'
  BY <1>1 DEF Parts, Plain, PageHolds, RoomsHold, ListeningIsJoined
<1>3. ReadHolds' /\ ToClientHolds' /\ FetchesHold'
  BY <1>1, ReadStays, ToClientStays, FetchesStay DEF Parts
<1>4. ToServerHolds'
  <2>1. P \in Packet /\ toServer \in Seq(Packet)
    BY NewPackets DEF Parts, ToServerHolds
  <2>2. toServer' \in Seq(Packet) /\ Elems(toServer') = Elems(toServer) \cup {P}
    BY <1>1, <2>1, ElemsAppend
  <2>3. ToServer(P)'
    BY DEF ToServer, PacketInv
  <2>4. \A p \in Elems(toServer) : ToServer(p)'
    BY <1>1 DEF Parts, ToServerHolds, ToServer, PacketInv
  <2>5. QED
    BY <2>2, <2>3, <2>4 DEF ToServerHolds
<1>5. QED
  BY <1>2, <1>3, <1>4 DEF Parts

(* A packet arrives at the browser.                                        *)
LEMMA Arriving ==
  ASSUME Parts, Arrive PROVE Parts'
<1> DEFINE p == Head(toClient)
<1>1. /\ UNCHANGED <<connected, toServer, rooms, asked, done, dropped, older, read, onPage, selected,
                     opened, selects, visits, drops>>
      /\ connected /\ toClient # <<>> /\ toClient' = Tail(toClient)
  BY DEF Arrive, server, bounds
<1>2. /\ toClient' \in Seq(Packet) /\ Elems(toClient') \subseteq Elems(toClient)
      /\ p \in Packet /\ p \in Elems(toClient)
  BY <1>1, ElemsTail DEF Parts, ToClientHolds
<1>3. ClientPacketInv(p)
  BY <1>2 DEF Parts, ToClientHolds
<1>4. ToClientHolds'
  BY <1>1, <1>2 DEF Parts, ToClientHolds, ClientPacketInv
<1>5. ToServerHolds'
  BY <1>1, ToServerStays DEF Parts
<1>6. CASE p.type = "join_chat"
  <2> DEFINE f == [contact |-> p.contact, stage |-> "mark", found |-> {}, visit |-> p.visit]
  <2>1. Callback(p.contact, p.visit)
    BY <1>6, Zenon DEF Arrive
  <2>2. /\ fetches' = Append(fetches, f) /\ UNCHANGED <<pane, notified>>
        /\ \/ verifying' = FALSE /\ active' = p.contact
           \/ UNCHANGED <<verifying, active>>
    BY <2>1 DEF Callback
  <2>3. p.contact \in Contact /\ p.visit \in Nat /\ p.contact \in opened \cap rooms
    BY <1>2, <1>3, <1>6, Packets DEF ClientPacketInv
  <2>4. Plain' /\ PageHolds' /\ RoomsHold'
    BY <1>1, <2>2, <2>3 DEF Parts, Plain, PageHolds, RoomsHold, ListeningIsJoined
  <2>5. f \in Fetch /\ fetches \in Seq(Fetch)
    BY <2>3 DEF Fetch, Stages, Parts, FetchesHold
  <2> HIDE DEF f
  <2>6. fetches' \in Seq(Fetch) /\ Elems(fetches') = Elems(fetches) \cup {f}
    BY <2>2, <2>5, ElemsAppend
  <2>7. FetchesHold'
    <3>1. \A g : g = f => FetchInv(g)'
      BY <1>1, <2>3 DEF FetchInv, f
    <3>2. \A g \in Elems(fetches) : FetchInv(g)'
      BY <1>1 DEF Parts, FetchesHold, FetchInv
    <3>3. QED
      BY <2>6, <3>1, <3>2 DEF FetchesHold
  <2>8. ReadHolds'
    BY <1>1, <2>6, ReadStays DEF Parts
  <2>9. QED
    BY <1>4, <1>5, <2>4, <2>7, <2>8 DEF Parts
<1>7. CASE p.type = "receive_message"
  <2>1. handleReceiveMessage(p.message)
    BY <1>7, Zenon DEF Arrive
  <2>2. /\ UNCHANGED <<verifying, active, fetches, notified>>
        /\ pane' = pane \/ pane' = pane \cup {p.message}
    BY <2>1 DEF handleReceiveMessage
  <2>3. p.message \in Message /\ p.message \in done /\ Peer[p.message] \in opened
    BY <1>2, <1>3, <1>7, Packets DEF ClientPacketInv
  <2>4. Plain' /\ PageHolds' /\ RoomsHold'
    BY <1>1, <2>2, <2>3 DEF Parts, Plain, PageHolds, RoomsHold, ListeningIsJoined
  <2>5. ReadHolds' /\ FetchesHold'
    BY <1>1, <2>2, ReadStays, FetchesStay DEF Parts
  <2>6. QED
    BY <1>4, <1>5, <2>4, <2>5 DEF Parts
<1>8. CASE p.type = "new_message_notification"
  <2>1. Notify(p.message)
    BY <1>8, Zenon DEF Arrive
  <2>2. /\ UNCHANGED <<verifying, active, pane, fetches>>
        /\ notified' = notified \/ notified' = notified \cup {p.message}
    BY <2>1 DEF Notify
  <2>3. p.message \in Got /\ p.message \in done
    BY <1>2, <1>3, <1>8, Packets DEF ClientPacketInv
  <2>4. Plain' /\ PageHolds' /\ RoomsHold'
    BY <1>1, <2>2, <2>3 DEF Parts, Plain, PageHolds, RoomsHold, ListeningIsJoined
  <2>5. ReadHolds' /\ FetchesHold'
    BY <1>1, <2>2, ReadStays, FetchesStay DEF Parts
  <2>6. QED
    BY <1>4, <1>5, <2>4, <2>5 DEF Parts
<1>9. QED
  BY <1>2, <1>3, <1>6, <1>7, <1>8, Packets DEF ClientPacketInv

(* The socket server takes a packet.                                       *)
LEMMA Serving ==
  ASSUME Parts, Serve PROVE Parts'
<1> DEFINE p == Head(toServer)
<1>1. /\ UNCHANGED <<connected, older, read, onPage, selected, verifying, active, pane, fetches,
                     notified, opened, selects, visits, drops>>
      /\ connected /\ toServer # <<>> /\ toServer' = Tail(toServer)
  BY DEF Serve, page, bounds
<1>2. /\ toServer' \in Seq(Packet) /\ Elems(toServer') \subseteq Elems(toServer)
      /\ p \in Packet /\ p \in Elems(toServer)
  BY <1>1, ElemsTail DEF Parts, ToServerHolds
<1>3. ToServer(p)
  BY <1>2 DEF Parts, ToServerHolds
<1>4. ToServerHolds'
  BY <1>1, <1>2 DEF Parts, ToServerHolds, ToServer, PacketInv
<1>5. CASE p.type = "join_chat"
  <2>1. /\ rooms' = rooms \cup {p.contact} /\ toClient' = Append(toClient, p)
        /\ UNCHANGED <<asked, done, dropped>>
    BY <1>5, Zenon DEF Serve
  <2>2. p.contact \in Contact /\ p.contact \in opened
    BY <1>2, <1>3, <1>5, Packets DEF ToServer, PacketInv
  <2>3. Plain' /\ PageHolds' /\ RoomsHold'
    BY <1>1, <2>1, <2>2 DEF Parts, Plain, PageHolds, RoomsHold, ListeningIsJoined
  <2>4. ReadHolds' /\ FetchesHold'
    BY <1>1, <2>1, ReadStays, FetchesStay DEF Parts
  <2>5. ToClientHolds'
    <3>1. toClient \in Seq(Packet)
      BY DEF Parts, ToClientHolds
    <3>2. toClient' \in Seq(Packet) /\ Elems(toClient') = Elems(toClient) \cup {p}
      BY <1>2, <2>1, <3>1, ElemsAppend
    <3>3. \A q : q = p => ClientPacketInv(q)'
      BY <1>1, <1>5, <2>1, <2>2 DEF ClientPacketInv
    <3>4. \A q \in Elems(toClient) : ClientPacketInv(q)'
      BY <1>1, <2>1 DEF Parts, ToClientHolds, ClientPacketInv
    <3>5. QED
      BY <3>2, <3>3, <3>4 DEF ToClientHolds
  <2>6. QED
    BY <1>4, <2>3, <2>4, <2>5 DEF Parts
<1>6. CASE p.type = "send_message"
  <2>1. Queue!Ask(p.message) /\ UNCHANGED <<rooms, toClient>>
    BY <1>6, Zenon DEF Serve
  <2>2. asked' = asked \cup {p.message} /\ UNCHANGED <<done, dropped>> /\ p.message \in Message
    BY <1>2, <1>6, <2>1, Packets DEF Queue!Ask
  <2>3. Plain' /\ PageHolds' /\ RoomsHold'
    BY <1>1, <2>1, <2>2 DEF Parts, Plain, PageHolds, RoomsHold, ListeningIsJoined
  <2>4. ReadHolds' /\ FetchesHold' /\ ToClientHolds'
    BY <1>1, <2>1, <2>2, ReadStays, FetchesStay, ToClientStays DEF Parts
  <2>5. QED
    BY <1>4, <2>3, <2>4 DEF Parts
<1>7. QED
  BY <1>3, <1>5, <1>6 DEF ToServer

(* A message is stored and what follows is emitted.                        *)
LEMMA EmittedHold ==
  ASSUME Parts, NEW m \in Message
  PROVE  /\ Emitted(m) \in Seq(Packet)
         /\ \A p \in Elems(Emitted(m)) :
              /\ p.message = m
              /\ \/ p.type = "receive_message" /\ Peer[m] \in rooms
                 \/ p.type = "new_message_notification" /\ m \in Got
<1> DEFINE a == [type |-> "receive_message", message |-> m]
           b == [type |-> "new_message_notification", message |-> m]
           x == IF Peer[m] \in rooms THEN <<a>> ELSE <<>>
           y == IF m \in Got THEN <<b>> ELSE <<>>
<1>1. a \in Packet /\ b \in Packet
  BY NewPackets DEF Parts
<1>2. \A e : Elems(<<e>>) = {e}
  BY DEF Elems
<1>3. Elems(<<>>) = {}
  BY DEF Elems
<1>4. x \in Seq(Packet) /\ \A p \in Elems(x) : p = a /\ Peer[m] \in rooms
  BY <1>1, <1>2, <1>3
<1>5. y \in Seq(Packet) /\ \A p \in Elems(y) : p = b /\ m \in Got
  BY <1>1, <1>2, <1>3
<1>6. Emitted(m) = x \o y
  BY DEF Emitted
<1> HIDE DEF x, y
<1>7. Emitted(m) \in Seq(Packet) /\ Elems(Emitted(m)) \subseteq Elems(x) \cup Elems(y)
  BY <1>4, <1>5, <1>6, ElemsConcat
<1>8. QED
  BY <1>4, <1>5, <1>7

LEMMA Storing ==
  ASSUME Parts, NEW m \in Message, processChatMessage(m) PROVE Parts'
<1>1. /\ UNCHANGED <<connected, toServer, rooms, asked, dropped, read, onPage, selected, verifying,
                     active, pane, fetches, notified, opened, selects, visits, drops>>
      /\ m \notin done /\ done' = done \cup {m} /\ older' = [older EXCEPT ![m] = done]
      /\ toClient' = IF connected THEN toClient \o Emitted(m) ELSE toClient
  BY DEF processChatMessage, Queue!Do, page, bounds
<1>2. Plain' /\ PageHolds' /\ RoomsHold'
  <2>1. older' \in [Message -> SUBSET Message]
    BY <1>1 DEF Parts, Plain
  <2>2. QED
    BY <1>1, <2>1 DEF Parts, Plain, PageHolds, RoomsHold, ListeningIsJoined
<1>3. ReadHolds' /\ FetchesHold' /\ ToServerHolds'
  <2>1. \A n \in done : older'[n] = older[n]
    BY <1>1 DEF Parts, Plain
  <2>2. QED
    BY <1>1, <2>1, ReadStays, FetchesStay, ToServerStays DEF Parts
<1>4. ToClientHolds'
  <2>1. CASE ~connected
    BY <1>1, <2>1, ToClientStays DEF Parts
  <2>2. CASE connected
    <3>1. toClient \in Seq(Packet) /\ toClient' = toClient \o Emitted(m)
      BY <1>1, <2>2 DEF Parts, ToClientHolds
    <3>2. /\ toClient' \in Seq(Packet)
          /\ Elems(toClient') \subseteq Elems(toClient) \cup Elems(Emitted(m))
      BY <3>1, EmittedHold, ElemsConcat
    <3>3. \A q \in Elems(Emitted(m)) : ClientPacketInv(q)'
      BY <1>1, EmittedHold DEF ClientPacketInv, Parts, RoomsHold
    <3>4. \A q \in Elems(toClient) : ClientPacketInv(q)'
      BY <1>1 DEF Parts, ToClientHolds, ClientPacketInv
    <3>5. QED
      BY <3>2, <3>3, <3>4 DEF ToClientHolds
  <2>3. QED
    BY <2>1, <2>2
<1>5. QED
  BY <1>2, <1>3, <1>4 DEF Parts

-----------------------------------------------------------------------------
(* A history is served and shown. A request keeps its contact and its      *)
(* visit; what it found are messages stored with that contact.             *)
LEMMA FetchesAt ==
  ASSUME Parts, NEW i \in DOMAIN fetches
  PROVE  fetches[i] \in Fetch /\ FetchInv(fetches[i]) /\ fetches[i].found \in SUBSET Message
<1>1. fetches[i] \in Fetch
  BY DEF Parts, FetchesHold
<1>2. FetchInv(fetches[i])
  BY DEF Parts, FetchesHold, Elems
<1>3. QED
  BY <1>1, <1>2 DEF Fetch

LEMMA FetchesChange ==
  ASSUME Parts, NEW i \in DOMAIN fetches, NEW f \in Fetch, f.contact = fetches[i].contact,
         opened' = opened, done' = done,
         \A m \in f.found : m \in done /\ Peer[m] = f.contact,
         fetches' = [fetches EXCEPT ![i] = f]
  PROVE  /\ FetchesHold'
         /\ \A g \in Elems(fetches) : g \in Elems(fetches') \/ g = fetches[i]
         /\ f \in Elems(fetches')
<1>1. fetches \in Seq(Fetch) /\ FetchInv(fetches[i])
  BY FetchesAt DEF Parts, FetchesHold
<1>2. fetches' \in Seq(Fetch)
  <2>1. [fetches EXCEPT ![i] = f] \in Seq(Fetch)
    BY <1>1, ElemsExcept
  <2>2. QED
    BY <2>1, Zenon
<1>3. \A j \in DOMAIN fetches : fetches'[j] = IF j = i THEN f ELSE fetches[j]
  BY Zenon
<1>4. DOMAIN fetches' = DOMAIN fetches
  BY Zenon
<1>5. FetchInv(f)'
  BY <1>1 DEF FetchInv
<1>6. \A g \in Elems(fetches) : FetchInv(g)'
  BY DEF Parts, FetchesHold, FetchInv
<1>7. \A g \in Elems(fetches') : FetchInv(g)'
  BY <1>3, <1>4, <1>5, <1>6 DEF Elems
<1>8. f \in Elems(fetches') /\ \A g \in Elems(fetches) : g \in Elems(fetches') \/ g = fetches[i]
  BY <1>3, <1>4 DEF Elems
<1>9. QED
  BY <1>2, <1>7, <1>8 DEF FetchesHold

(* What a request accounted for is accounted for when the request changes, *)
(* if the changed request still does.                                      *)
LEMMA ReadChanges ==
  ASSUME Parts, NEW i \in DOMAIN fetches, NEW f \in Elems(fetches'),
         \A g \in Elems(fetches) : g \in Elems(fetches') \/ g = fetches[i],
         UNCHANGED <<done, older>>, read \subseteq read', read' \subseteq done,
         \A m \in read : Accounts(fetches[i], m) => Accounts(f, m),
         \A m \in read' \ read : Accounts(f, m)
  PROVE  ReadHolds'
<1>1. ASSUME NEW g, NEW m, Accounts(g, m) PROVE Accounts(g, m)'
  BY <1>1 DEF Accounts
<1>2. ASSUME NEW m \in read' PROVE \E g \in Elems(fetches') : Accounts(g, m)
  <2>1. CASE m \in read
    <3>1. PICK g \in Elems(fetches) : Accounts(g, m)
      BY <2>1 DEF Parts, ReadHolds
    <3>2. QED
      BY <2>1, <3>1
  <2>2. QED
    BY <1>2, <2>1
<1>3. QED
  BY <1>1, <1>2 DEF ReadHolds

LEMMA Fetching ==
  ASSUME Parts, NEW i \in DOMAIN fetches, getMessages(i) PROVE Parts'
<1>1. UNCHANGED <<connected, toServer, toClient, rooms, asked, done, dropped, older, onPage, selected,
                  verifying, active, pane, notified, opened, selects, visits, drops>>
  BY DEF getMessages, page, bounds
<1>2. Of(fetches[i].contact) \subseteq done /\ Of(fetches[i].contact) \in SUBSET Message
  BY DEF Of, Parts, Plain
<1>3. PageHolds' /\ RoomsHold' /\ ToServerHolds' /\ ToClientHolds'
  BY <1>1, ToServerStays, ToClientStays
     DEF Parts, PageHolds, RoomsHold, ListeningIsJoined
<1>4. CASE MarkNow(i, "mark", "find")
  <2>1. /\ fetches' = [fetches EXCEPT ![i].stage = "find"] /\ fetches[i].stage = "mark"
        /\ read' = read \cup (Got \cap Of(fetches[i].contact))
    BY <1>4 DEF MarkNow
  <2>2. PICK f \in Fetch :
          /\ f.contact = fetches[i].contact /\ f.stage = "find" /\ f.found = fetches[i].found
          /\ fetches' = [fetches EXCEPT ![i] = f]
    <3> DEFINE f == [fetches[i] EXCEPT !.stage = "find"]
    <3>1. f \in Fetch /\ f.contact = fetches[i].contact /\ f.stage = "find"
          /\ f.found = fetches[i].found
      BY FetchesAt DEF Fetch, Stages
    <3>2. fetches' = [fetches EXCEPT ![i] = f]
      BY <2>1, Zenon
    <3>3. QED
      BY <3>1, <3>2
  <2>3. /\ FetchesHold' /\ f \in Elems(fetches')
        /\ \A g \in Elems(fetches) : g \in Elems(fetches') \/ g = fetches[i]
    <3>1. \A m \in f.found : m \in done /\ Peer[m] = f.contact
      BY <2>2, FetchesAt DEF FetchInv
    <3>2. QED
      BY <1>1, <2>2, <3>1, FetchesChange
  <2>4. Plain'
    BY <1>1, <2>1 DEF Parts, Plain
  <2>5. ReadHolds'
    <3>1. read \subseteq read' /\ read' \subseteq done
      BY <1>2, <2>1 DEF Parts, ReadHolds
    <3>2. \A m \in read : Accounts(fetches[i], m) => Accounts(f, m)
      BY <2>2 DEF Accounts
    <3>3. \A m \in read' \ read : Accounts(f, m)
      BY <2>1, <2>2 DEF Accounts, Of
    <3>4. QED
      BY <1>1, <2>3, <3>1, <3>2, <3>3, ReadChanges
  <2>6. QED
    BY <1>3, <2>3, <2>4, <2>5 DEF Parts
<1>5. CASE FindNow(i, "find", "answer") /\ UNCHANGED read
  <2>1. PICK P \in FirstPage(fetches[i].contact) :
          fetches' = [fetches EXCEPT ![i].stage = "answer", ![i].found = P]
    BY <1>5 DEF FindNow
  <2>2. /\ P \in SUBSET Of(fetches[i].contact)
        /\ \A m \in Of(fetches[i].contact) \ P :
             Cardinality(P) = PageSize /\ \A n \in P : m \in older[n]
    BY DEF FirstPage
  <2>3. PICK f \in Fetch :
          /\ f.contact = fetches[i].contact /\ f.found = P
          /\ fetches' = [fetches EXCEPT ![i] = f]
    <3> DEFINE f == [fetches[i] EXCEPT !.stage = "answer", !.found = P]
    <3>1. f \in Fetch /\ f.contact = fetches[i].contact /\ f.found = P
      BY <1>2, <2>2, FetchesAt DEF Fetch, Stages
    <3>2. fetches' = [fetches EXCEPT ![i] = f]
      BY <2>1, Zenon
    <3>3. QED
      BY <3>1, <3>2
  <2>4. /\ FetchesHold' /\ f \in Elems(fetches')
        /\ \A g \in Elems(fetches) : g \in Elems(fetches') \/ g = fetches[i]
    <3>1. \A m \in f.found : m \in done /\ Peer[m] = f.contact
      BY <2>2, <2>3 DEF Of
    <3>2. QED
      BY <1>1, <2>3, <3>1, FetchesChange
  <2>5. Plain'
    BY <1>1, <1>5 DEF Parts, Plain
  <2>6. ReadHolds'
    <3>1. read' = read /\ read \subseteq done
      BY <1>5 DEF Parts, ReadHolds
    <3>2. ASSUME NEW m \in read, Accounts(fetches[i], m) PROVE Accounts(f, m)
      <4>1. m \in Of(fetches[i].contact)
        BY <3>1, <3>2 DEF Accounts, Of, Parts, Plain
      <4>2. m \in P \/ (Cardinality(P) = PageSize /\ \A n \in P : m \in older[n])
        BY <2>2, <4>1
      <4>3. f.found = P /\ f.contact = Peer[m]
        BY <2>3, <3>2 DEF Accounts
      <4>4. QED
        BY <4>2, <4>3, Zenon DEF Accounts
    <3>3. QED
      BY <1>1, <2>4, <3>1, <3>2, ReadChanges
  <2>7. QED
    BY <1>3, <2>4, <2>5, <2>6 DEF Parts
<1>6. QED
  BY <1>4, <1>5 DEF getMessages

LEMMA Showing ==
  ASSUME Parts, NEW i \in DOMAIN fetches, Show(i) PROVE Parts'
<1>1. /\ UNCHANGED <<connected, toServer, toClient, rooms, asked, done, dropped, older, read, onPage,
                     selected, verifying, active, notified, opened, selects, visits, drops>>
      /\ fetches' = [fetches EXCEPT ![i].stage = "shown"] /\ fetches[i].stage = "answer"
      /\ pane' = pane \/ pane' = fetches[i].found
  BY DEF Show, server, bounds
<1>2. PICK f \in Fetch :
        /\ f.contact = fetches[i].contact /\ f.found = fetches[i].found
        /\ fetches' = [fetches EXCEPT ![i] = f]
  <2> DEFINE f == [fetches[i] EXCEPT !.stage = "shown"]
  <2>1. f \in Fetch /\ f.contact = fetches[i].contact /\ f.found = fetches[i].found
    BY FetchesAt DEF Fetch, Stages
  <2>2. fetches' = [fetches EXCEPT ![i] = f]
    BY <1>1, Zenon
  <2>3. QED
    BY <2>1, <2>2
<1>3. /\ FetchesHold' /\ f \in Elems(fetches')
      /\ \A g \in Elems(fetches) : g \in Elems(fetches') \/ g = fetches[i]
  <2>1. \A m \in f.found : m \in done /\ Peer[m] = f.contact
    BY <1>2, FetchesAt DEF FetchInv
  <2>2. QED
    BY <1>1, <1>2, <2>1, FetchesChange
<1>4. Plain' /\ PageHolds' /\ RoomsHold'
  BY <1>1, FetchesAt DEF FetchInv, Parts, Plain, PageHolds, RoomsHold, ListeningIsJoined
<1>5. ToServerHolds' /\ ToClientHolds'
  BY <1>1, ToServerStays, ToClientStays DEF Parts
<1>6. ReadHolds'
  <2>1. read' = read /\ read \subseteq done
    BY <1>1 DEF Parts, ReadHolds
  <2>2. \A m \in read : Accounts(fetches[i], m) => Accounts(f, m)
    BY <1>1, <1>2 DEF Accounts
  <2>3. QED
    BY <1>1, <1>3, <2>1, <2>2, ReadChanges
<1>7. QED
  BY <1>3, <1>4, <1>5, <1>6 DEF Parts

-----------------------------------------------------------------------------
(* The connection breaks and comes back.                                   *)
LEMMA Rejoining ==
  ASSUME Parts, NEW kept \in Seq(Packet), \A p \in Elems(kept) : ToServer(p),
         Rejoin(kept), UNCHANGED <<opened, visits>>
  PROVE  ToServerHolds' /\ active' = Nobody /\ verifying' \in BOOLEAN
<1>1. \A p \in Elems(kept) : ToServer(p)'
  BY DEF ToServer, PacketInv
<1>2. CASE selected # Nobody
  <2>1. toServer' = Append(kept, Join(selected)) /\ active' = Nobody /\ verifying' = TRUE
    BY <1>2 DEF Rejoin
  <2>2. selected \in Contact /\ selected \in opened /\ Join(selected) \in Packet
    BY <1>2, NewPackets DEF Parts, Plain, PageHolds
  <2>3. toServer' \in Seq(Packet) /\ Elems(toServer') = Elems(kept) \cup {Join(selected)}
    BY <2>1, <2>2, ElemsAppend
  <2>4. \A p : p = Join(selected) => ToServer(p)'
    BY <2>2 DEF ToServer, PacketInv, Join
  <2>5. QED
    BY <1>1, <2>1, <2>3, <2>4 DEF ToServerHolds
<1>3. CASE selected = Nobody
  <2>1. toServer' = kept /\ active' = Nobody /\ verifying' = verifying
    BY <1>3 DEF Rejoin
  <2>2. QED
    BY <1>1, <2>1 DEF ToServerHolds, Parts, Plain
<1>4. QED
  BY <1>2, <1>3

LEMMA Disconnecting ==
  ASSUME Parts, Disconnect PROVE Parts'
<1>1. /\ UNCHANGED <<asked, done, dropped, older, read, onPage, selected, pane, fetches, notified,
                     opened, selects, visits>>
      /\ connected' = FALSE /\ rooms' = {} /\ toClient' = <<>>
      /\ drops < MaxDrops /\ drops' = drops + 1 /\ Rejoin(<<>>)
  BY DEF Disconnect
<1>2. Elems(<<>>) = {} /\ <<>> \in Seq(Packet)
  BY DEF Elems
<1>3. ToServerHolds' /\ active' = Nobody /\ verifying' \in BOOLEAN
  BY <1>1, <1>2, Rejoining
<1>4. drops' \in 0 .. MaxDrops
  BY <1>1, Bounds DEF Parts, Plain
<1>5. Plain'
  BY <1>1, <1>3, <1>4 DEF Parts, Plain
<1>6. PageHolds' /\ RoomsHold'
  BY <1>1, <1>3 DEF Parts, PageHolds, RoomsHold, ListeningIsJoined
<1>7. ReadHolds' /\ FetchesHold'
  BY <1>1, ReadStays, FetchesStay DEF Parts
<1>8. ToClientHolds'
  BY <1>1, <1>2 DEF ToClientHolds
<1>9. QED
  BY <1>3, <1>5, <1>6, <1>7, <1>8 DEF Parts

LEMMA Reconnecting ==
  ASSUME Parts, Reconnect PROVE Parts'
<1>1. /\ UNCHANGED <<toClient, rooms, asked, done, dropped, older, read, onPage, selected, pane,
                     fetches, notified, opened, selects, visits, drops>>
      /\ connected' = TRUE /\ Rejoin(toServer)
  BY DEF Reconnect, server, bounds
<1>2. ToServerHolds' /\ active' = Nobody /\ verifying' \in BOOLEAN
  BY <1>1, Rejoining DEF Parts, ToServerHolds
<1>3. Plain' /\ PageHolds' /\ RoomsHold'
  BY <1>1, <1>2 DEF Parts, Plain, PageHolds, RoomsHold, ListeningIsJoined
<1>4. ReadHolds' /\ FetchesHold' /\ ToClientHolds'
  BY <1>1, ReadStays, FetchesStay, ToClientStays DEF Parts
<1>5. QED
  BY <1>2, <1>3, <1>4 DEF Parts

-----------------------------------------------------------------------------
LEMMA StepHolds == Parts /\ [Next]_vars => Parts'
<1> SUFFICES ASSUME Parts, [Next]_vars PROVE Parts'
  OBVIOUS
<1>1. CASE UNCHANGED vars
  <2>1. /\ UNCHANGED <<connected, toServer, toClient, rooms, asked, done, dropped, older, read, onPage,
                       selected, verifying, active, pane, fetches, notified, opened, selects,
                       visits, drops>>
    BY <1>1 DEF vars, server, page, bounds
  <2>2. Plain' /\ PageHolds' /\ RoomsHold'
    BY <2>1 DEF Parts, Plain, PageHolds, RoomsHold, ListeningIsJoined
  <2>3. ReadHolds' /\ ToServerHolds' /\ ToClientHolds' /\ FetchesHold'
    BY <2>1, ReadStays, ToServerStays, ToClientStays, FetchesStay DEF Parts
  <2>4. QED
    BY <2>2, <2>3 DEF Parts
<1>2. CASE OpenPage \/ ClosePage \/ Back
  BY <1>2, Leaving
<1>3. CASE Arrive
  BY <1>3, Arriving
<1>4. CASE Serve
  BY <1>4, Serving
<1>5. CASE Disconnect
  BY <1>5, Disconnecting
<1>6. CASE Reconnect
  BY <1>6, Reconnecting
<1>7. CASE \E c \in Contact : Select(c)
  BY <1>7, Selecting
<1>8. CASE \E m \in Message : handleSendMessage(m) \/ processChatMessage(m)
  BY <1>8, Sending, Storing
<1>9. CASE History
  BY <1>9, Fetching, Showing DEF History
<1>10. QED
  BY <1>1, <1>2, <1>3, <1>4, <1>5, <1>6, <1>7, <1>8, <1>9 DEF Next

(* The invariant holds of every conversation.                              *)
THEOREM InvHolds == Spec => []Inv
<1>1. Inv <=> Parts
  BY InvIsParts
<1>2. Spec => []Parts
  BY InitHolds, StepHolds, PTL DEF Spec
<1>3. QED
  BY <1>1, <1>2, InvIsParts, PTL

(* What is shown or announced has been stored, and what is shown is of a   *)
(* conversation that was opened, whatever arrives late.                    *)
THEOREM PaneKnown == Spec => []PaneIsKnown
<1>1. Inv => PaneIsKnown
  BY DEF Inv
<1>2. QED
  BY <1>1, InvHolds, PTL

(* While a room is active on a connected page, the server has the socket   *)
(* in it, however often the connection broke.                              *)
THEOREM Listening == Spec => []ListeningIsJoined
<1>1. Inv => ListeningIsJoined
  BY DEF Inv
<1>2. QED
  BY <1>1, InvHolds, PTL

(* Whatever is stored between the two calls of getMessages, and whatever   *)
(* the size of a page, a message that is read is one of the newest some    *)
(* request returned, will be looked for, or lies beyond a full page.       *)
THEOREM ReadReturned == Spec => []NewestReadIsReturned
<1>1. Inv => NewestReadIsReturned
  BY DEF Inv
<1>2. QED
  BY <1>1, InvHolds, PTL
=============================================================================
