------------------------ MODULE ChattingServer_proofs -----------------------
(***************************************************************************)
(* Theorems about ChattingServer, for any number of sessions, honest or    *)
(* not, of workers, sectors and packets.                                   *)
(***************************************************************************)
EXTENDS ChattingServer, FiniteSetTheorems, TLAPS

-----------------------------------------------------------------------------
(* What the handlers do to the player map *)

PlayerMap == mPlayerMap \in [Sessions -> Player \cup {NoPlayer}]
SectorMap == mSectors \in [Sectors -> SUBSET Sessions]

\* The player of s becomes p.
Updated(s, p) == p \in Player /\ mPlayerMap' = [mPlayerMap EXCEPT ![s] = p]

LEMMA UpdatedPlayers ==
  ASSUME PlayerMap, NEW s \in Sessions, NEW p, Updated(s, p)
  PROVE  PlayerMap' /\ Players' = Players \cup {s}
BY NoPlayerAssumption DEF PlayerMap, Updated, Players

LEMMA RemovedPlayers ==
  ASSUME PlayerMap, NEW s \in Sessions, mPlayerMap' = [mPlayerMap EXCEPT ![s] = NoPlayer]
  PROVE  PlayerMap' /\ Players' = Players \ {s}
BY DEF PlayerMap, Players

LEMMA PlayerIs ==
  ASSUME PlayerMap, NEW s \in Players
  PROVE  s \in Sessions /\ mPlayerMap[s] \in Player
BY DEF PlayerMap, Players

\* Players are counted.
LEMMA PlayersFinite ==
  IsFiniteSet(Players) /\ Cardinality(Players) \in Nat
BY ChattingServerAssumption, FS_Subset, FS_CardinalityType DEF Players

-----------------------------------------------------------------------------
(* Types *)

ServerTypes    == {"SC_LOGIN", "SC_AUTH", "SC_CHAT"}
ServerMessages == [type : ServerTypes, seq : Int, sector : Sectors \cup {Outside}]
Knowledge      == [phase : {"new", "login", "logged", "auth", "in"}, seq : Int,
                   sector : Sectors \cup {Outside}]

\* TypeOK in parts: what handlers change, and the rest
Contents == PlayerMap /\ SectorMap
Counter  == mUserCnt \in Nat
Thread   == pc \in {"wait", "pop", "packetProc", "stopped"} /\ msg \in Message
Queue    == mContentsQ \in Seq(Message) /\ hEchoEvent \in BOOLEAN
Sockets  == /\ wpc \in [Workers -> Sessions \cup {"idle"}]
            /\ conn \in [Sessions -> {"none", "open", "released"}]
            /\ disconnected \subseteq Sessions
Clients  == client \in [Sessions -> Knowledge] /\ nPackets \in Nat
Sends    == sendQ \in [Sessions -> Seq(ServerMessages)]

LEMMA TypeParts ==
  TypeOK <=> Contents /\ Counter /\ Thread /\ Queue /\ Sockets /\ Clients /\ Sends
BY DEF TypeOK, Contents, PlayerMap, SectorMap, Counter, Thread, Queue, Sockets, Clients, Sends,
       Knowledge, ServerMessages, ServerTypes

LEMMA SendPostTypes ==
  ASSUME Sends, NEW S, NEW m \in ServerMessages, sendPost(S, m)
  PROVE  Sends'
<1>1. \A s \in Sessions : Append(sendQ[s], m) \in Seq(ServerMessages)
  BY DEF Sends
<1>2. sendQ' = [s \in Sessions |-> IF s \in S /\ conn[s] = "open"
                                     THEN Append(sendQ[s], m) ELSE sendQ[s]]
  BY DEF sendPost
<1> QED
  BY <1>1, <1>2 DEF Sends

LEMMA InternalType ==
  ASSUME NEW s \in Sessions, NEW ty \in {"ALLOC", "DELETE"}
  PROVE  /\ Internal(ty, s) \in Message
         /\ Internal(ty, s).owner = s /\ Internal(ty, s).type = ty
         /\ Internal(ty, s).size = "exact"
BY DEF Internal, Message, Types, WrongSeq, Tokens, Sizes

\* A packet of a client; one that follows the protocol sends whole packets of the
\* types that are meant for clients.
Proper(m)  == m.size = "exact" /\ m.type # "unknown"
Packets(s) == {m \in Message :
                 /\ m.owner = s
                 /\ s \in Honest => Proper(m) /\ m.type \notin {"ALLOC", "DELETE"}}

ClientTypes == {"CS_LOGIN", "CS_AUTH", "CS_MOVE", "CS_CHAT"}

LEMMA HonestPackets ==
  ASSUME TypeOK, NEW s \in Sessions, HonestSends(s)
  PROVE  Clients' /\ \E m \in Packets(s) : onRecv(s, m)
<1> DEFINE c == client[s]
<1>t. c \in Knowledge /\ c.seq \in Int /\ c.seq + 1 \in Int /\ c.sector \in Sectors \cup {Outside}
  BY DEF TypeOK, Knowledge
<1>1. ASSUME NEW ph \in {"new", "login", "logged", "auth", "in"}, NEW p \in Sectors \cup {Outside},
             Sent(s, ph, p), nPackets' = nPackets + 1
      PROVE  Clients'
  <2>1. client' = [client EXCEPT ![s] = [phase |-> ph, seq |-> c.seq + 1, sector |-> p]]
    BY <1>1 DEF Sent
  <2>2. [phase |-> ph, seq |-> c.seq + 1, sector |-> p] \in Knowledge
    BY <1>t DEF Knowledge
  <2> QED
    BY <1>1, <2>1, <2>2 DEF Clients, TypeOK, Knowledge
<1>2. ASSUME NEW ty \in ClientTypes, NEW k \in Tokens,
             NEW p \in Sectors \cup {Outside}, NEW fits \in BOOLEAN
      PROVE  Packet(s, ty, k, p, fits) \in Packets(s)
  BY <1>t DEF Packet, AnyPacket, Packets, Message, Proper, ClientTypes, Types, Sizes
<1> HIDE DEF c
<1>3. PICK ty \in ClientTypes, k \in Tokens, p \in Sectors \cup {Outside},
           ph \in {"new", "login", "logged", "auth", "in"}, q \in Sectors \cup {Outside} :
         onRecv(s, Packet(s, ty, k, p, TRUE)) /\ Sent(s, ph, q)
  BY <1>t DEF HonestSends, ClientTypes, Tokens, c
<1>4. nPackets' = nPackets + 1
  BY <1>3 DEF onRecv
<1> QED
  BY <1>1, <1>2, <1>3, <1>4

LEMMA OtherPackets ==
  ASSUME TypeOK, NEW s \in Sessions, OtherSends(s)
  PROVE  Clients' /\ \E m \in Packets(s) : onRecv(s, m)
<1>t. /\ client[s].seq \in Int /\ client[s].seq + 1 \in Int
      /\ client[s].sector \in Sectors \cup {Outside}
      /\ client[s].phase \in {"new", "login", "logged", "auth", "in"}
  BY DEF TypeOK
<1>1. PICK ty \in Types, n \in {client[s].seq, WrongSeq}, k \in Tokens,
           p \in Sectors \cup {Outside}, fits \in BOOLEAN, size \in Sizes :
         /\ onRecv(s, AnyPacket(s, ty, n, k, p, fits, size))
         /\ Numbers(s, ty)
  BY DEF OtherSends
<1>2. AnyPacket(s, ty, n, k, p, fits, size) \in Packets(s)
  BY <1>t DEF AnyPacket, Packets, Message, WrongSeq, OtherSends
<1>3. FirstSeq \in Int
  BY ChattingServerAssumption
<1>4. nPackets' = nPackets + 1
  BY <1>1 DEF onRecv
<1>5. client' \in [Sessions -> Knowledge]
  <2>1. PICK x : x = IF ty = "ALLOC" THEN FirstSeq ELSE client[s].seq + 1
    OBVIOUS
  <2>2. x \in Int /\ client' = [client EXCEPT ![s] = [client[s] EXCEPT !.seq = x]]
    BY <1>t, <1>1, <1>3, <2>1 DEF Numbers
  <2>3. client \in [Sessions -> Knowledge]
    BY DEF TypeOK, Knowledge
  <2>4. [client[s] EXCEPT !.seq = x] \in Knowledge
    BY <2>2, <2>3 DEF Knowledge
  <2> QED
    BY <2>2, <2>3, <2>4
<1>6. Clients'
  BY <1>4, <1>5 DEF Clients, TypeOK
<1> QED
  BY <1>1, <1>2, <1>6

-----------------------------------------------------------------------------
(* The order of the messages *)

\* Messages pushed and not done, numbered: number 0 is the one being handled.
Holds   == pc \in {"packetProc", "stopped"}
At(i)   == IF i = 0 THEN msg ELSE mContentsQ[i]
Pending == (IF Holds THEN 0 ELSE 1) .. Len(mContentsQ)
Of(s)   == {i \in Pending : At(i).owner = s}

\* Of a client that follows the protocol: the message that makes the player comes
\* first, the one that deletes it last, and between the two there is a player.
Ordered(s) ==
  /\ conn[s] = "none" => s \notin Players /\ Of(s) = {}
  /\ conn[s] = "open" => s \in Players \/ \E j \in Of(s) : At(j).type = "ALLOC"
  /\ \A i \in Of(s) :
       /\ Proper(At(i))
       /\ At(i).type = "ALLOC" => s \notin Players /\ \A j \in Of(s) : i <= j
       /\ At(i).type = "DELETE" => conn[s] = "released" /\ \A j \in Of(s) : j <= i
       /\ At(i).type # "ALLOC" => s \in Players \/ \E j \in Of(s) : j < i /\ At(j).type = "ALLOC"

Order == \A s \in Honest : Ordered(s)

LEMMA OrderSame ==
  ASSUME Order, UNCHANGED <<mContentsQ, msg, conn, Players, Holds>>
  PROVE  Order'
<1>1. Pending' = Pending /\ \A i : At(i)' = At(i)
  BY DEF Pending, At
<1>2. \A s : Of(s)' = Of(s)
  BY <1>1 DEF Of
<1> QED
  BY <1>1, <1>2 DEF Order, Ordered

\* What a callback may push: the state of the session before and after it
Pushes(m, s) ==
  /\ m.owner = s
  /\ s \in Honest => Proper(m)
  /\ \/ m.type = "ALLOC" /\ conn[s] = "none" /\ conn' = [conn EXCEPT ![s] = "open"]
     \/ m.type = "DELETE" /\ conn[s] = "open" /\ conn' = [conn EXCEPT ![s] = "released"]
     \/ /\ s \in Honest => m.type \notin {"ALLOC", "DELETE"}
        /\ conn[s] = "open" /\ conn' = conn

LEMMA OrderPush ==
  ASSUME TypeOK, Order, NEW s \in Sessions, NEW m \in Message, Pushes(m, s),
         pushContentsQ(m), UNCHANGED <<pc, msg, mPlayerMap>>
  PROVE  Order'
<1>n. PICK n : n = Len(mContentsQ) + 1
  OBVIOUS
<1>1. n \in Nat /\ Pending' = Pending \cup {n} /\ \A i \in Pending : i \in Nat /\ i < n
  BY <1>n DEF pushContentsQ, Pending, Holds, TypeOK
<1>2. At(n)' = m /\ \A i \in Pending : At(i)' = At(i)
  BY <1>n, <1>1 DEF At, pushContentsQ, TypeOK, Pending
<1>3. \A r : Of(r)' = IF r = s THEN Of(r) \cup {n} ELSE Of(r)
  BY <1>1, <1>2 DEF Of, Pushes
<1>4. Players' = Players
  BY DEF Players
<1>5. \A r : Of(r) \subseteq Pending
  BY DEF Of
<1>6. s \in Honest => Ordered(s)
  BY DEF Order
<1>7. conn \in [Sessions -> {"none", "open", "released"}] /\ Honest \subseteq Sessions
  BY ChattingServerAssumption DEF TypeOK
<1>8. ASSUME NEW r \in Honest PROVE Ordered(r)'
  <2>1. CASE r # s
    <3>1. Of(r)' = Of(r) /\ conn'[r] = conn[r] /\ Ordered(r) /\ \A i \in Of(r) : At(i)' = At(i)
      BY <1>2, <1>3, <1>5, <1>7, <2>1 DEF Pushes, Order
    <3> QED
      BY <1>4, <3>1 DEF Ordered, Proper
  <2>2. CASE r = s
    <3>0. Proper(m) /\ Ordered(s)
      BY <1>6, <2>2 DEF Pushes
    <3>1. Of(r)' = Of(s) \cup {n} /\ At(n)' = m /\ \A i \in Of(s) : At(i)' = At(i) /\ i < n /\ i \in Nat
      BY <1>1, <1>2, <1>3, <1>5, <2>2
    <3>2. CASE m.type = "ALLOC"
      <4>1. conn'[r] = "open" /\ Of(s) = {} /\ s \notin Players
        BY <1>7, <2>2, <3>0, <3>2 DEF Pushes, Ordered
      <4> QED
        BY <1>1, <1>4, <2>2, <3>0, <3>1, <3>2, <4>1 DEF Ordered, Proper
    <3>3. CASE m.type = "DELETE"
      <4>1. conn[s] = "open" /\ conn'[r] = "released"
        BY <1>7, <2>2, <3>0, <3>3 DEF Pushes
      <4> QED
        BY <1>1, <1>4, <2>2, <3>0, <3>1, <3>3, <4>1 DEF Ordered, Proper
    <3>4. CASE m.type \notin {"ALLOC", "DELETE"}
      <4>1. conn[s] = "open" /\ conn'[r] = "open"
        BY <1>7, <2>2, <3>4 DEF Pushes
      <4> QED
        BY <1>1, <1>4, <2>2, <3>0, <3>1, <3>4, <4>1 DEF Ordered, Proper
    <3> QED
      BY <3>2, <3>3, <3>4
  <2> QED
    BY <2>1, <2>2
<1> QED
  BY <1>8 DEF Order

LEMMA OrderPop ==
  ASSUME TypeOK, Order, popContentsQ
  PROVE  Order'
<1>1. Players' = Players /\ conn' = conn
  BY DEF popContentsQ, contents, network, Players
<1>2. CASE mContentsQ = <<>>
  <2>1. UNCHANGED <<mContentsQ, msg, conn, Players, Holds>>
    BY <1>1, <1>2 DEF popContentsQ, Holds
  <2> QED
    BY <2>1, OrderSame
<1>3. CASE mContentsQ # <<>>
  <2>1. /\ Len(mContentsQ) \in Nat \ {0} /\ Len(mContentsQ)' = Len(mContentsQ) - 1
        /\ msg' = mContentsQ[1] /\ \A i \in 1 .. Len(mContentsQ) - 1 : mContentsQ'[i] = mContentsQ[i + 1]
    <3>1. msg' = Head(mContentsQ) /\ mContentsQ' = Tail(mContentsQ)
      BY <1>3 DEF popContentsQ
    <3>2. mContentsQ \in Seq(Message)
      BY DEF TypeOK
    <3> QED
      BY <1>3, <3>1, <3>2
  <2>2. ~ Holds /\ Holds'
    BY <1>3 DEF popContentsQ, Holds
  <2>3. Pending = 1 .. Len(mContentsQ) /\ Pending' = 0 .. Len(mContentsQ) - 1
    BY <2>1, <2>2 DEF Pending
  <2>4. \A i \in Pending' : i \in Int /\ i + 1 \in Pending /\ At(i)' = At(i + 1)
    BY <2>1, <2>3 DEF At
  <2>5. \A i \in Pending : i \in Int /\ i - 1 \in Pending' /\ At(i - 1)' = At(i)
    BY <2>1, <2>3 DEF At
  <2>6. ASSUME NEW r \in Honest PROVE Ordered(r)'
    <3>1. \A i \in Of(r)' : i \in Int /\ i + 1 \in Of(r) /\ At(i)' = At(i + 1)
      BY <2>4 DEF Of
    <3>2. \A i \in Of(r) : i \in Int /\ i - 1 \in Of(r)' /\ At(i - 1)' = At(i)
      BY <2>5 DEF Of
    <3>3. Ordered(r)
      BY DEF Order
    <3>4. conn'[r] = "none" => r \notin Players' /\ Of(r)' = {}
      BY <1>1, <3>1, <3>3 DEF Ordered
    <3>5. conn'[r] = "open" => r \in Players' \/ \E j \in Of(r)' : At(j)'.type = "ALLOC"
      BY <1>1, <3>2, <3>3 DEF Ordered
    <3>6. ASSUME NEW i \in Of(r)'
          PROVE  /\ Proper(At(i))'
                 /\ At(i)'.type = "ALLOC" => r \notin Players' /\ \A j \in Of(r)' : i <= j
                 /\ At(i)'.type = "DELETE" => conn'[r] = "released" /\ \A j \in Of(r)' : j <= i
                 /\ At(i)'.type # "ALLOC" =>
                      r \in Players' \/ \E j \in Of(r)' : j < i /\ At(j)'.type = "ALLOC"
      <4>1. i \in Int /\ i + 1 \in Of(r) /\ At(i)' = At(i + 1)
        BY <3>1
      <4>2. ASSUME At(i)'.type = "ALLOC" PROVE r \notin Players' /\ \A j \in Of(r)' : i <= j
        BY <1>1, <3>1, <3>3, <4>1, <4>2 DEF Ordered
      <4>3. ASSUME At(i)'.type = "DELETE" PROVE conn'[r] = "released" /\ \A j \in Of(r)' : j <= i
        BY <1>1, <3>1, <3>3, <4>1, <4>3 DEF Ordered
      <4>4. ASSUME At(i)'.type # "ALLOC", r \notin Players'
            PROVE  \E j \in Of(r)' : j < i /\ At(j)'.type = "ALLOC"
        <5>1. PICK j \in Of(r) : j < i + 1 /\ At(j).type = "ALLOC"
          BY <1>1, <3>3, <4>1, <4>4 DEF Ordered
        <5>2. j - 1 \in Of(r)' /\ j - 1 < i /\ At(j - 1)'.type = "ALLOC"
          BY <3>2, <4>1, <5>1
        <5> QED
          BY <5>2
      <4>5. Proper(At(i))'
        BY <3>3, <4>1 DEF Ordered, Proper
      <4> QED
        BY <4>2, <4>3, <4>4, <4>5
    <3> QED
      BY <3>4, <3>5, <3>6 DEF Ordered
  <2> QED
    BY <2>6 DEF Order
<1> QED
  BY <1>2, <1>3

\* The players after the message m was handled
After(m) == IF m.type = "ALLOC" THEN Players \cup {m.owner}
            ELSE IF m.type = "DELETE" THEN Players \ {m.owner} ELSE Players

LEMMA OrderDone ==
  ASSUME TypeOK, Order, pc = "packetProc", pc' = "pop", UNCHANGED <<mContentsQ, msg, conn>>,
         Players' = After(msg)
  PROVE  Order'
<1>1. Pending = Pending' \cup {0} /\ \A i \in Pending' : i \in Nat /\ i > 0 /\ At(i)' = At(i)
  BY DEF Pending, Holds, TypeOK, At
<1>2. At(0) = msg /\ msg.owner \in Sessions
  BY DEF At, TypeOK, Message
<1>3. ASSUME NEW r \in Honest PROVE Ordered(r)'
  <2>1. /\ Of(r) = IF r = msg.owner THEN Of(r)' \cup {0} ELSE Of(r)'
        /\ \A i \in Of(r)' : i \in Nat /\ i > 0 /\ At(i)' = At(i)
    BY <1>1, <1>2 DEF Of
  <2>2. Ordered(r)
    BY DEF Order
  <2>3. CASE r # msg.owner
    BY <2>1, <2>2, <2>3 DEF Ordered, After, Proper
  <2>4. CASE r = msg.owner /\ msg.type = "ALLOC"
    <3>1. r \in Players' /\ conn[r] # "none"
      BY <2>1, <2>2, <2>4 DEF After, Ordered
    <3>2. \A i \in Of(r)' : At(i).type # "ALLOC"
      BY <1>2, <2>1, <2>2, <2>4 DEF Ordered
    <3> QED
      BY <2>1, <2>2, <3>1, <3>2 DEF Ordered, Proper
  <2>5. CASE r = msg.owner /\ msg.type = "DELETE"
    <3>1. r \notin Players' /\ conn[r] = "released" /\ \A i \in Of(r)' : i <= 0
      BY <1>2, <2>1, <2>2, <2>5 DEF After, Ordered
    <3>2. Of(r)' = {}
      BY <2>1, <3>1
    <3> QED
      BY <2>1, <3>1, <3>2 DEF Ordered
  <2>6. CASE r = msg.owner /\ msg.type \notin {"ALLOC", "DELETE"}
    <3>1. Players' = Players
      BY <2>6 DEF After
    <3>2. r \in Players
      BY <1>2, <2>1, <2>2, <2>6 DEF Ordered
    <3> QED
      BY <2>1, <2>2, <2>6, <3>1, <3>2 DEF Ordered, Proper
  <2> QED
    BY <2>3, <2>4, <2>5, <2>6
<1> QED
  BY <1>3 DEF Order

\* The message at hand finds its player.
LEMMA Found ==
  ASSUME TypeOK, Order, Holds, msg.owner \in Honest
  PROVE  /\ msg.type = "ALLOC" <=> msg.owner \notin Players
         /\ Proper(msg) /\ conn[msg.owner] # "none"
<1>1. 0 \in Of(msg.owner) /\ At(0) = msg /\ msg.owner \in Sessions
  BY DEF Of, Pending, At, Holds, TypeOK, Message
<1>2. \A i \in Pending : i >= 0
  BY DEF Pending, TypeOK
<1>3. Ordered(msg.owner)
  BY <1>1 DEF Order
<1>4. \A j \in Of(msg.owner) : j >= 0 /\ j \in Int
  BY <1>2 DEF Of, Pending
<1> QED
  BY <1>1, <1>3, <1>4 DEF Ordered

-----------------------------------------------------------------------------
(* The handlers *)

\* The stops that are reached
Stops == \/ WrongSize
         \/ msg.type = "unknown"
         \/ msg.type = "CS_AUTH" /\ mPlayerMap[msg.owner].bAuth
         \/ msg.type = "ALLOC" /\ msg.owner \in Players
         \/ msg.type = "DELETE" /\ msg.owner \notin Players

\* What every handler does: its message is done, or the thread stops.
Handled ==
  /\ Contents' /\ SectorsMatch' /\ Sends' /\ disconnected' \subseteq Sessions
  /\ \/ pc' = "pop" /\ Players' = After(msg)
     \/ pc' = "stopped" /\ mPlayerMap' = mPlayerMap /\ Stops
  /\ Elsewhere

\* The state a handler starts from
Ready == TypeOK /\ SectorsMatch /\ Order /\ pc = "packetProc"

LEMMA ReadyFacts ==
  ASSUME Ready
  PROVE  /\ PlayerMap /\ SectorMap /\ Sends /\ mUserCnt \in Nat
         /\ msg \in Message /\ msg.owner \in Sessions
         /\ mUserCnt = Cardinality(Players)
         /\ \A p \in Sectors : mSectors[p] =
              {s \in Players : mPlayerMap[s].bAuth /\ mPlayerMap[s].sector = p}
<1>1. msg.owner \in Sessions
  BY DEF Ready, TypeOK, Message
<1>2. PlayerMap /\ SectorMap /\ Sends /\ mUserCnt \in Nat /\ msg \in Message
  BY TypeParts DEF Ready, Contents, Counter, Thread
<1> QED
  BY <1>1, <1>2 DEF Ready, SectorsMatch

LEMMA disconnectTypes ==
  ASSUME TypeOK, NEW s \in Sessions, disconnectSession(s)
  PROVE  disconnected' \subseteq Sessions
BY DEF TypeOK, disconnectSession

\* A player's number and token change, its place does not.
LEMMA KeepsSectors ==
  ASSUME Ready, msg.owner \in Players, NEW p \in Player, Updated(msg.owner, p),
         p.bAuth = mPlayerMap[msg.owner].bAuth, p.sector = mPlayerMap[msg.owner].sector,
         UNCHANGED <<mSectors, mUserCnt>>
  PROVE  Contents' /\ SectorsMatch' /\ Players' = Players
<1> DEFINE s == msg.owner
<1>1. PlayerMap' /\ Players' = Players
  <2>1. PlayerMap /\ s \in Sessions
    BY ReadyFacts
  <2>2. PlayerMap' /\ Players' = Players \cup {s}
    BY <2>1, UpdatedPlayers
  <2> QED
    BY <2>2
<1>2. \A r \in Players : /\ mPlayerMap'[r].bAuth = mPlayerMap[r].bAuth
                         /\ mPlayerMap'[r].sector = mPlayerMap[r].sector
  BY ReadyFacts DEF Updated, PlayerMap, Players
<1>3. SectorMap'
  BY ReadyFacts DEF SectorMap
<1> QED
  BY <1>1, <1>2, <1>3, ReadyFacts DEF SectorsMatch, Contents

LEMMA CountedPlayer ==
  ASSUME Ready, msg.owner \in Players
  PROVE  /\ Counted \in Player
         /\ Counted.bAuth = mPlayerMap[msg.owner].bAuth
         /\ Counted.sector = mPlayerMap[msg.owner].sector
         /\ Counted.tokenKey = mPlayerMap[msg.owner].tokenKey
<1>1. mPlayerMap[msg.owner] \in Player
  BY ReadyFacts, PlayerIs
<1> QED
  BY <1>1 DEF Counted, Player

LEMMA RefuseHandles ==
  ASSUME Ready, msg.owner \in Players, msg.type \notin {"ALLOC", "DELETE"}, Refuse, Elsewhere
  PROVE  Handled
<1>1. Contents' /\ SectorsMatch' /\ Players' = Players
  BY CountedPlayer, KeepsSectors DEF Refuse, Updated
<1>2. Sends' /\ disconnected' \subseteq Sessions
  BY ReadyFacts, disconnectTypes DEF Refuse, Ready, Sends
<1> QED
  BY <1>1, <1>2 DEF Handled, Refuse, Done, After

LEMMA StopHandles ==
  ASSUME Ready, Stop, Elsewhere, Stops
  PROVE  Handled
<1>1. UNCHANGED <<mPlayerMap, mSectors, mUserCnt, disconnected, sendQ>> /\ pc' = "stopped"
  BY DEF Stop, contents
<1>2. Players' = Players
  BY <1>1 DEF Players
<1>3. Contents' /\ Sends' /\ disconnected' \subseteq Sessions
  BY <1>1, ReadyFacts DEF Contents, PlayerMap, SectorMap, Sends, Ready, TypeOK
<1>4. SectorsMatch'
  BY <1>1, <1>2 DEF Ready, SectorsMatch
<1> QED
  BY <1>1, <1>3, <1>4 DEF Handled

LEMMA AllocHandles ==
  ASSUME Ready, chatPlayerAlloc
  PROVE  Handled
<1> DEFINE s == msg.owner
<1>0. CASE s \in Players \/ WrongSize
  BY <1>0, StopHandles DEF chatPlayerAlloc, Handles, Stops
<1> SUFFICES ASSUME ~ (s \in Players \/ WrongSize) PROVE Handled
  BY <1>0
<1>1. msg.type = "ALLOC" /\ s \notin Players /\ s \in Sessions
  BY ReadyFacts DEF chatPlayerAlloc, Handles
<1>2. /\ mPlayerMap' = [mPlayerMap EXCEPT ![s] = NewPlayer]
      /\ mUserCnt' = mUserCnt + 1 /\ pc' = "pop"
      /\ UNCHANGED <<mSectors, disconnected, sendQ>> /\ Elsewhere
  BY <1>1 DEF chatPlayerAlloc, Done
<1>3. NewPlayer \in Player /\ ~ NewPlayer.bAuth
  BY ChattingServerAssumption DEF NewPlayer, Player, Tokens, Sectors
<1>4. PlayerMap' /\ Players' = Players \cup {s}
  BY <1>1, <1>2, <1>3, ReadyFacts, UpdatedPlayers DEF Updated
<1>5. mUserCnt' = Cardinality(Players')
  BY <1>1, <1>2, <1>4, ReadyFacts, PlayersFinite, FS_AddElement
<1>6. mPlayerMap'[s] = NewPlayer /\ \A r \in Players : mPlayerMap'[r] = mPlayerMap[r]
  BY <1>1, <1>2, ReadyFacts DEF PlayerMap, Players
<1>7. \A p \in Sectors : mSectors'[p] =
        {r \in Players' : mPlayerMap'[r].bAuth /\ mPlayerMap'[r].sector = p}
  BY <1>1, <1>2, <1>3, <1>4, <1>6, ReadyFacts
<1>8. SectorMap' /\ Sends' /\ disconnected' \subseteq Sessions
  BY <1>2, ReadyFacts DEF SectorMap, Sends, Ready, TypeOK
<1> QED
  BY <1>1, <1>2, <1>4, <1>5, <1>7, <1>8 DEF Handled, After, Contents, SectorsMatch

LEMMA DeleteHandles ==
  ASSUME Ready, chatPlayerDelete
  PROVE  Handled
<1> DEFINE s == msg.owner
           p == mPlayerMap[s]
<1>0. CASE s \notin Players
  BY <1>0, StopHandles DEF chatPlayerDelete, Handles, Stops
<1> SUFFICES ASSUME s \in Players PROVE Handled
  BY <1>0
<1>1. msg.type = "DELETE" /\ s \in Players /\ s \in Sessions
  BY ReadyFacts DEF chatPlayerDelete, Handles
<1>2. p \in Player
  BY <1>1, ReadyFacts, PlayerIs
<1>3. p.bAuth => s \in mSectors[p.sector]
  BY <1>1, <1>2, ReadyFacts DEF Player
<1>4. /\ mSectors' = IF p.bAuth THEN [mSectors EXCEPT ![p.sector] = @ \ {s}] ELSE mSectors
      /\ mPlayerMap' = [mPlayerMap EXCEPT ![s] = NoPlayer]
      /\ mUserCnt' = mUserCnt - 1 /\ pc' = "pop"
      /\ UNCHANGED <<disconnected, sendQ>> /\ Elsewhere
  BY <1>1, <1>3 DEF chatPlayerDelete, Done
<1>5. PlayerMap' /\ Players' = Players \ {s}
  BY <1>1, <1>4, ReadyFacts, RemovedPlayers
<1>6. mUserCnt' = Cardinality(Players')
  <2>1. IsFiniteSet(Players) /\ mUserCnt = Cardinality(Players)
    BY ReadyFacts, PlayersFinite
  <2>2. Cardinality(Players \ {s}) = Cardinality(Players) - 1
    BY <1>1, <2>1, FS_RemoveElement
  <2> QED
    BY <1>4, <1>5, <2>1, <2>2
<1>7. \A r \in Players' : mPlayerMap'[r] = mPlayerMap[r]
  BY <1>1, <1>4, <1>5, ReadyFacts DEF PlayerMap, Players
<1>8. \A q \in Sectors : mSectors'[q] = mSectors[q] \ {s}
  BY <1>2, <1>4, ReadyFacts DEF SectorMap, Player
<1>9. \A q \in Sectors : mSectors'[q] =
        {r \in Players' : mPlayerMap'[r].bAuth /\ mPlayerMap'[r].sector = q}
  BY <1>5, <1>7, <1>8, ReadyFacts
<1>10. SectorMap' /\ Sends' /\ disconnected' \subseteq Sessions
  BY <1>2, <1>4, ReadyFacts DEF SectorMap, Sends, Ready, TypeOK, Player
<1> QED
  BY <1>1, <1>4, <1>5, <1>6, <1>9, <1>10 DEF Handled, After, Contents, SectorsMatch

LEMMA NotValidHandles ==
  ASSUME Ready, NotValid
  PROVE  Handled
<1>1. msg.type \notin {"ALLOC", "DELETE"} /\ Elsewhere
  BY DEF NotValid
<1>2. CASE msg.owner \notin Players
  <2>1. pc' = "pop" /\ UNCHANGED <<mPlayerMap, mSectors, mUserCnt, disconnected, sendQ>>
    BY <1>2 DEF NotValid, Done, contents
  <2>2. Players' = Players
    BY <2>1 DEF Players
  <2>3. Contents' /\ Sends' /\ disconnected' \subseteq Sessions
    BY <2>1, ReadyFacts DEF Contents, PlayerMap, SectorMap, Sends, Ready, TypeOK
  <2>4. SectorsMatch'
    BY <2>1, <2>2 DEF Ready, SectorsMatch
  <2> QED
    BY <1>1, <2>1, <2>2, <2>3, <2>4 DEF Handled, After
<1>3. CASE msg.owner \in Players /\ Stop /\ WrongSize
  BY <1>1, <1>3, StopHandles DEF Stops
<1>4. CASE msg.owner \in Players /\ Refuse
  BY <1>1, <1>4, RefuseHandles
<1> QED
  BY <1>2, <1>3, <1>4 DEF NotValid, Refuse, WrongSize

LEMMA NoTypeHandles ==
  ASSUME Ready, NoType
  PROVE  Handled
BY StopHandles DEF NoType, HasType, Stops, WrongSize, Ready

LEMMA LoginHandles ==
  ASSUME Ready, loginProc
  PROVE  Handled
<1>1. msg.type = "CS_LOGIN" /\ msg.owner \in Players /\ Elsewhere /\ msg.owner \in Sessions
  BY ReadyFacts DEF loginProc, Accepts, Handles, HasType
<1>s. CASE WrongSize /\ Stop
  BY <1>1, <1>s, StopHandles DEF Stops
<1>2. CASE Refuse
  BY <1>1, <1>2, RefuseHandles
<1>3. ASSUME NEW k \in {"own", "other"}, NEW n \in RandomSeqs,
             mPlayerMap' = [mPlayerMap EXCEPT ![msg.owner] = [@ EXCEPT !.tokenKey = k, !.SeqNumber = n]],
             sendPost({msg.owner}, ServerMessage("SC_LOGIN", n, Outside)), Done,
             UNCHANGED <<mSectors, mUserCnt, disconnected>>
      PROVE  Handled
  <2> DEFINE p == [mPlayerMap[msg.owner] EXCEPT !.tokenKey = k, !.SeqNumber = n]
  <2>0. mPlayerMap[msg.owner] \in Player /\ n \in Int
    BY <1>1, ReadyFacts, PlayerIs, ChattingServerAssumption
  <2>1. p \in Player /\ p.bAuth = mPlayerMap[msg.owner].bAuth
        /\ p.sector = mPlayerMap[msg.owner].sector
    BY <2>0 DEF Player, Tokens
  <2>2. mPlayerMap' = [mPlayerMap EXCEPT ![msg.owner] = p]
    BY <1>3
  <2> HIDE DEF p
  <2>3. Contents' /\ SectorsMatch' /\ Players' = Players
    BY <1>1, <1>3, <2>1, <2>2, KeepsSectors DEF Updated
  <2>4. ServerMessage("SC_LOGIN", n, Outside) \in ServerMessages
    BY <2>0 DEF ServerMessage, ServerMessages, ServerTypes
  <2>5. Sends'
    BY <1>3, <2>4, ReadyFacts, SendPostTypes
  <2>6. disconnected' \subseteq Sessions
    BY <1>3 DEF Ready, TypeOK
  <2> QED
    BY <1>1, <1>3, <2>3, <2>5, <2>6 DEF Handled, Done, After
<1> QED
  BY <1>1, <1>s, <1>2, <1>3 DEF loginProc

LEMMA AuthHandles ==
  ASSUME Ready, authProc
  PROVE  Handled
<1> DEFINE s == msg.owner
<1>1. msg.type = "CS_AUTH" /\ s \in Players /\ Elsewhere /\ s \in Sessions
  BY ReadyFacts DEF authProc, Accepts, Handles, HasType
<1>2. CASE mPlayerMap[s].bAuth \/ WrongSize
  BY <1>1, <1>2, StopHandles DEF authProc, Stops
<1>3. CASE ~ mPlayerMap[s].bAuth /\ Refuse
  BY <1>1, <1>3, RefuseHandles
<1>4. ASSUME ~ mPlayerMap[s].bAuth, ~ WrongSize, ~ Refuse PROVE Handled
  <2>1. \A p \in Sectors : s \notin mSectors[p]
    BY <1>4, ReadyFacts
  <2>2. PICK p \in Sectors :
          /\ mPlayerMap' = [mPlayerMap EXCEPT ![s] = [Counted EXCEPT !.bAuth = TRUE, !.sector = p]]
          /\ mSectors' = [mSectors EXCEPT ![p] = @ \cup {s}]
          /\ sendPost({s}, ServerMessage("SC_AUTH", 0, p))
          /\ Done
          /\ UNCHANGED <<mUserCnt, disconnected>>
    BY <1>4, <2>1 DEF authProc
  <2>a. PICK a : a = [Counted EXCEPT !.bAuth = TRUE, !.sector = p]
    OBVIOUS
  <2>3. a \in Player /\ a.bAuth /\ a.sector = p
    BY <1>1, <2>a, CountedPlayer DEF Player
  <2>4. mPlayerMap' = [mPlayerMap EXCEPT ![s] = a]
    BY <2>2, <2>a
  <2>5. PlayerMap' /\ Players' = Players
    <3>1. PlayerMap' /\ Players' = Players \cup {s}
      BY <1>1, <2>3, <2>4, ReadyFacts, UpdatedPlayers DEF Updated
    <3> QED
      BY <1>1, <3>1
  <2>6. mPlayerMap'[s] = a /\ \A r \in Players : r # s => mPlayerMap'[r] = mPlayerMap[r]
    BY <1>1, <2>4, ReadyFacts DEF PlayerMap, Players
  <2>7. SectorMap' /\ \A q \in Sectors : mSectors'[q] = IF q = p THEN mSectors[q] \cup {s} ELSE mSectors[q]
    BY <1>1, <2>2, ReadyFacts DEF SectorMap
  <2>8. \A q \in Sectors : mSectors'[q] =
          {r \in Players' : mPlayerMap'[r].bAuth /\ mPlayerMap'[r].sector = q}
    <3>1. ASSUME NEW q \in Sectors, NEW r
          PROVE  r \in mSectors'[q] <=>
                   r \in Players /\ mPlayerMap'[r].bAuth /\ mPlayerMap'[r].sector = q
      <4>1. r \in mSectors[q] <=> r \in Players /\ mPlayerMap[r].bAuth /\ mPlayerMap[r].sector = q
        BY ReadyFacts
      <4>2. CASE r = s
        BY <1>1, <1>4, <2>3, <2>6, <2>7, <4>1, <4>2
      <4>3. CASE r # s
        BY <2>6, <2>7, <4>1, <4>3
      <4> QED
        BY <4>2, <4>3
    <3> QED
      BY <2>5, <3>1
  <2>9. mUserCnt' = Cardinality(Players')
    BY <2>2, <2>5, ReadyFacts
  <2>10. ServerMessage("SC_AUTH", 0, p) \in ServerMessages
    BY DEF ServerMessage, ServerMessages, ServerTypes
  <2>11. Sends'
    BY <2>2, <2>10, ReadyFacts, SendPostTypes
  <2>12. disconnected' \subseteq Sessions
    BY <2>2 DEF Ready, TypeOK
  <2> QED
    BY <1>1, <2>2, <2>5, <2>7, <2>8, <2>9, <2>11, <2>12 DEF Handled, Done, After, Contents,
       SectorsMatch
<1> QED
  BY <1>2, <1>3, <1>4

LEMMA MoveHandles ==
  ASSUME Ready, moveSectorProc
  PROVE  Handled
<1> DEFINE s   == msg.owner
           old == mPlayerMap[s].sector
           new == msg.sector
           left == [mSectors EXCEPT ![old] = @ \ {s}]
<1>1. msg.type = "CS_MOVE" /\ s \in Players /\ Elsewhere /\ s \in Sessions
  BY ReadyFacts DEF moveSectorProc, Accepts, Handles, HasType
<1>s. CASE mPlayerMap[s].bAuth /\ WrongSize
  BY <1>1, <1>s, StopHandles DEF moveSectorProc, Stops
<1>2. CASE ~ mPlayerMap[s].bAuth \/ (~ WrongSize /\ ~ IsMove(old, new))
  BY <1>1, <1>2, RefuseHandles DEF moveSectorProc
<1>3. ASSUME mPlayerMap[s].bAuth, ~ WrongSize, IsMove(old, new) PROVE Handled
  <2>1. new \in Sectors /\ old # new /\ old \in Sectors
    BY <1>1, <1>3, ReadyFacts, PlayerIs DEF IsMove, Player
  <2>2. s \in mSectors[old] /\ \A q \in Sectors : q # old => s \notin mSectors[q]
    BY <1>1, <1>3, <2>1, ReadyFacts
  <2>3. \A q \in Sectors : left[q] = mSectors[q] \ {s}
    BY <2>1, <2>2, ReadyFacts DEF SectorMap
  <2>4. /\ mSectors' = [left EXCEPT ![new] = @ \cup {s}]
        /\ mPlayerMap' = [mPlayerMap EXCEPT ![s] = [Counted EXCEPT !.sector = new]]
        /\ Done
        /\ UNCHANGED <<mUserCnt, disconnected, sendQ>>
    BY <1>3, <2>1, <2>2, <2>3 DEF moveSectorProc
  <2>a. PICK a : a = [Counted EXCEPT !.sector = new]
    OBVIOUS
  <2>5. a \in Player /\ a.bAuth /\ a.sector = new
    BY <1>1, <1>3, <2>1, <2>a, CountedPlayer DEF Player
  <2>6. mPlayerMap' = [mPlayerMap EXCEPT ![s] = a]
    BY <2>4, <2>a
  <2>7. PlayerMap' /\ Players' = Players
    <3>1. PlayerMap' /\ Players' = Players \cup {s}
      BY <1>1, <2>5, <2>6, ReadyFacts, UpdatedPlayers DEF Updated
    <3> QED
      BY <1>1, <3>1
  <2>8. mPlayerMap'[s] = a /\ \A r \in Players : r # s => mPlayerMap'[r] = mPlayerMap[r]
    BY <1>1, <2>6, ReadyFacts DEF PlayerMap, Players
  <2>9. \A q \in Sectors : mSectors'[q] = IF q = new THEN mSectors[q] \cup {s} ELSE mSectors[q] \ {s}
    BY <1>1, <2>1, <2>2, <2>3, <2>4, ReadyFacts DEF SectorMap
  <2>10. SectorMap'
    BY <1>1, <2>1, <2>4, ReadyFacts DEF SectorMap
  <2>11. \A q \in Sectors : mSectors'[q] =
          {r \in Players' : mPlayerMap'[r].bAuth /\ mPlayerMap'[r].sector = q}
    <3>1. ASSUME NEW q \in Sectors, NEW r
          PROVE  r \in mSectors'[q] <=>
                   r \in Players /\ mPlayerMap'[r].bAuth /\ mPlayerMap'[r].sector = q
      <4>1. r \in mSectors[q] <=> r \in Players /\ mPlayerMap[r].bAuth /\ mPlayerMap[r].sector = q
        BY ReadyFacts
      <4>m. mSectors'[q] = IF q = new THEN mSectors[q] \cup {s} ELSE mSectors[q] \ {s}
        BY <2>9
      <4>2. CASE r = s
        <5>1. r \in mSectors'[q] <=> q = new
          BY <4>m, <4>2
        <5> QED
          BY <1>1, <2>5, <2>8, <4>2, <5>1
      <4>3. CASE r # s
        <5>1. r \in mSectors'[q] <=> r \in mSectors[q]
          BY <4>m, <4>3
        <5>2. r \in Players => mPlayerMap'[r] = mPlayerMap[r]
          BY <2>8, <4>3
        <5> QED
          BY <4>1, <5>1, <5>2
      <4> QED
        BY <4>2, <4>3
    <3> QED
      BY <2>7, <3>1
  <2>12. mUserCnt' = Cardinality(Players')
    BY <2>4, <2>7, ReadyFacts
  <2>13. Sends' /\ disconnected' \subseteq Sessions
    BY <2>4, ReadyFacts DEF Ready, TypeOK, Sends
  <2> QED
    BY <1>1, <2>4, <2>7, <2>10, <2>11, <2>12, <2>13 DEF Handled, Done, After, Contents, SectorsMatch
<1> QED
  BY <1>s, <1>2, <1>3

LEMMA ChatHandles ==
  ASSUME Ready, chatMessageProc
  PROVE  Handled
<1> DEFINE s    == msg.owner
           near == UNION {mSectors[q] : q \in Around(mPlayerMap[s].sector)}
<1>1. msg.type = "CS_CHAT" /\ s \in Players /\ Elsewhere /\ s \in Sessions
  BY ReadyFacts DEF chatMessageProc, Accepts, Handles, HasType
<1>2. CASE ~ mPlayerMap[s].bAuth \/ ~ msg.fits
  BY <1>1, <1>2, RefuseHandles DEF chatMessageProc
<1>s. CASE mPlayerMap[s].bAuth /\ msg.fits /\ WrongSize
  BY <1>1, <1>s, StopHandles DEF chatMessageProc, Stops
<1>3. ASSUME mPlayerMap[s].bAuth, msg.fits, ~ WrongSize PROVE Handled
  <2>1. \A t \in near : t \in Players /\ mPlayerMap[t].bAuth
    BY ReadyFacts DEF Around
  <2>2. /\ mPlayerMap' = [mPlayerMap EXCEPT ![s] = Counted]
        /\ sendPost(near, ServerMessage("SC_CHAT", 0, Outside))
        /\ Done
        /\ UNCHANGED <<mSectors, mUserCnt, disconnected>>
    BY <1>3, <2>1 DEF chatMessageProc
  <2>3. Contents' /\ SectorsMatch' /\ Players' = Players
    BY <1>1, <2>2, CountedPlayer, KeepsSectors DEF Updated
  <2>4. ServerMessage("SC_CHAT", 0, Outside) \in ServerMessages
    BY DEF ServerMessage, ServerMessages, ServerTypes
  <2>5. Sends'
    BY <2>2, <2>4, ReadyFacts, SendPostTypes
  <2>6. disconnected' \subseteq Sessions
    BY <2>2 DEF Ready, TypeOK
  <2> QED
    BY <1>1, <2>2, <2>3, <2>5, <2>6 DEF Handled, Done, After
<1> QED
  BY <1>s, <1>2, <1>3

LEMMA UnknownHandles ==
  ASSUME Ready, UnknownType
  PROVE  Handled
BY StopHandles DEF UnknownType, Stops, Accepts, Handles

LEMMA AllHandle ==
  ASSUME Ready, packetProc
  PROVE  Handled
BY NoTypeHandles, AllocHandles, DeleteHandles, NotValidHandles, LoginHandles, AuthHandles, MoveHandles,
   ChatHandles, UnknownHandles DEF packetProc

-----------------------------------------------------------------------------
(* The invariant *)

Stopped == pc = "stopped" => Stops

IInv == TypeOK /\ SectorsMatch /\ Order /\ Stopped /\ EventFollows

\* The handlers are called with a message at hand.
LEMMA StartsReady ==
  ASSUME IInv, packetProc
  PROVE  Ready
BY DEF IInv, Ready, packetProc, NoType, chatPlayerAlloc, chatPlayerDelete, NotValid, loginProc,
       authProc, moveSectorProc, chatMessageProc, UnknownType, Accepts, Handles, HasType

LEMMA InvInit == Init => IInv
<1> SUFFICES ASSUME Init PROVE IInv
  OBVIOUS
<1>1. Players = {}
  BY DEF Init, Players
<1>2. TypeOK
  <2>1. (CHOOSE s \in Sessions : TRUE) \in Sessions
    BY ChattingServerAssumption
  <2>2. msg \in Message
    BY <2>1, InternalType DEF Init
  <2>3. mContentsQ \in Seq(Message) /\ <<>> \in Seq(ServerMessages)
    BY DEF Init
  <2>4. Sends
    BY <2>3 DEF Init, Sends
  <2>5. Clients
    BY ChattingServerAssumption DEF Init, Clients, Knowledge
  <2>6. Contents /\ Counter /\ Thread /\ Queue /\ Sockets
    BY <2>2, <2>3 DEF Init, Contents, PlayerMap, SectorMap, Counter, Thread, Queue, Sockets
  <2> QED
    BY <2>4, <2>5, <2>6, TypeParts
<1>3. SectorsMatch
  BY <1>1, FS_EmptySet DEF Init, SectorsMatch
<1>4. Order
  <2>1. Pending = {}
    BY DEF Init, Pending, Holds
  <2>2. \A s : Of(s) = {}
    BY <2>1 DEF Of
  <2> QED
    BY <1>1, <2>2, ChattingServerAssumption DEF Init, Order, Ordered
<1> QED
  BY <1>2, <1>3, <1>4 DEF Init, IInv, Stopped, EventFollows

\* A handler keeps the invariant.
LEMMA HandlerKeeps ==
  ASSUME IInv, packetProc
  PROVE  IInv'
<1>1. Ready
  BY StartsReady
<1>2. Handled
  BY <1>1, AllHandle
<1>3. /\ Contents' /\ SectorsMatch' /\ Sends' /\ disconnected' \subseteq Sessions
      /\ UNCHANGED <<mContentsQ, hEchoEvent, msg, wpc, conn, client, nPackets>>
      /\ pc' \in {"pop", "stopped"} /\ pc = "packetProc"
  BY <1>1, <1>2 DEF Handled, Elsewhere, queue, Ready
<1>4. TypeOK'
  <2>1. Counter'
    <3>1. IsFiniteSet(Players')
      BY ChattingServerAssumption, FS_Subset DEF Players
    <3> QED
      BY <1>3, <3>1, FS_CardinalityType DEF SectorsMatch, Counter
  <2>2. Thread /\ Queue /\ Sockets /\ Clients
    BY <1>1, TypeParts DEF Ready
  <2>3. Thread' /\ Queue' /\ Sockets' /\ Clients'
    BY <1>3, <2>2 DEF Thread, Queue, Sockets, Clients
  <2>4. TypeOK' <=> (Contents /\ Counter /\ Thread /\ Queue /\ Sockets /\ Clients /\ Sends)'
    BY DEF TypeOK, Contents, PlayerMap, SectorMap, Counter, Thread, Queue, Sockets, Clients, Sends,
           Knowledge, ServerMessages, ServerTypes
  <2> QED
    BY <1>3, <2>1, <2>3, <2>4
<1>5. CASE pc' = "pop"
  <2>1. Players' = After(msg)
    BY <1>2, <1>5 DEF Handled
  <2>2. Order'
    BY <1>1, <1>3, <1>5, <2>1, OrderDone DEF Ready
  <2> QED
    BY <1>3, <1>4, <1>5, <2>2 DEF IInv, Stopped, EventFollows
<1>6. CASE pc' = "stopped"
  <2>1. mPlayerMap' = mPlayerMap /\ Stops
    BY <1>2, <1>6 DEF Handled
  <2>2. UNCHANGED <<mContentsQ, msg, conn, Players, Holds>>
    BY <1>3, <1>6, <2>1 DEF Players, Holds
  <2>3. Order'
    BY <1>1, <2>2, OrderSame DEF Ready
  <2> QED
    BY <1>3, <1>4, <1>6, <2>1, <2>2, <2>3 DEF IInv, Stopped, EventFollows, Stops, WrongSize
<1> QED
  BY <1>3, <1>5, <1>6

\* A step that leaves players, sectors and the handler alone: types, order and the
\* event are what is left to show.
LEMMA OutsideKeeps ==
  ASSUME IInv, UNCHANGED <<mPlayerMap, mSectors, mUserCnt>>,
         UNCHANGED msg \/ pc' # "stopped", pc' = "stopped" => pc = "stopped",
         Thread', Queue', Sockets', Clients', Sends', Order', EventFollows'
  PROVE  IInv'
<1>1. Players' = Players
  BY DEF Players
<1>2. SectorsMatch'
  BY <1>1 DEF IInv, SectorsMatch
<1>3. Stopped'
  BY <1>1 DEF IInv, Stopped, Stops, WrongSize
<1>4. TypeOK'
  <2>1. Contents /\ Counter
    BY TypeParts DEF IInv
  <2>2. Contents' /\ Counter'
    BY <2>1 DEF Contents, PlayerMap, SectorMap, Counter
  <2>3. TypeOK' <=> (Contents /\ Counter /\ Thread /\ Queue /\ Sockets /\ Clients /\ Sends)'
    BY DEF TypeOK, Contents, PlayerMap, SectorMap, Counter, Thread, Queue, Sockets, Clients, Sends,
           Knowledge, ServerMessages, ServerTypes
  <2> QED
    BY <2>2, <2>3
<1> QED
  BY <1>2, <1>3, <1>4 DEF IInv

\* A callback pushes its message; the event is set, or the worker is about to set it.
LEMMA PushKeeps ==
  ASSUME IInv, NEW s \in Sessions, NEW m \in Message, Pushes(m, s), pushContentsQ(m),
         UNCHANGED <<pc, msg, contents, disconnected, sendQ>>,
         Clients', wpc' \in [Workers -> Sessions \cup {"idle"}], hEchoEvent' \in BOOLEAN,
         hEchoEvent' \/ \E w \in Workers : wpc'[w] # "idle"
  PROVE  IInv'
<1>1. Thread /\ Queue /\ Sockets /\ Sends /\ TypeOK /\ Order
  BY TypeParts DEF IInv
<1>2. Thread' /\ Sends'
  BY <1>1 DEF Thread, Sends
<1>3. Queue'
  BY <1>1 DEF Queue, pushContentsQ
<1>4. Sockets'
  BY <1>1 DEF Sockets, Pushes
<1>5. EventFollows'
  BY DEF EventFollows
<1>6. UNCHANGED <<mPlayerMap, mSectors, mUserCnt>>
  BY DEF contents
<1>7. Order'
  BY <1>1, <1>6, OrderPush
<1> QED
  BY <1>2, <1>3, <1>4, <1>5, <1>6, <1>7, OutsideKeeps

LEMMA InvNext == IInv /\ [Next]_vars => IInv'
<1> SUFFICES ASSUME IInv, [Next]_vars PROVE IInv'
  OBVIOUS
<1> USE DEF queue, contents, network
<1>t. /\ Thread /\ Queue /\ Sockets /\ Clients /\ Sends /\ TypeOK /\ Order /\ EventFollows
      /\ ChattingServerAssumption
  BY TypeParts, ChattingServerAssumption DEF IInv
<1>1. CASE UNCHANGED vars
  <2>1. UNCHANGED <<mContentsQ, msg, conn, Players, Holds>>
    BY <1>1 DEF vars, Players, Holds
  <2>2. Order'
    BY <1>t, <2>1, OrderSame
  <2> QED
    BY <1>t, <1>1, <2>2, OutsideKeeps DEF vars, Thread, Queue, Sockets, Clients, Sends, EventFollows
<1>2. CASE packetProc
  BY <1>2, HandlerKeeps
<1>3. CASE popContentsQ
  <2>1. Order'
    BY <1>3, <1>t, OrderPop
  <2>2. Thread' /\ Queue'
    <3>1. CASE mContentsQ = <<>>
      BY <1>3, <1>t, <3>1 DEF popContentsQ, Thread, Queue
    <3>2. CASE mContentsQ # <<>>
      <4>1. msg' = Head(mContentsQ) /\ mContentsQ' = Tail(mContentsQ) /\ pc' = "packetProc"
            /\ hEchoEvent' = hEchoEvent
        BY <1>3, <3>2 DEF popContentsQ
      <4>2. Head(mContentsQ) \in Message /\ Tail(mContentsQ) \in Seq(Message)
        BY <1>t, <3>2 DEF Queue
      <4> QED
        BY <1>t, <4>1, <4>2 DEF Thread, Queue
    <3> QED
      BY <3>1, <3>2
  <2>3. Sockets' /\ Clients' /\ Sends'
    BY <1>3, <1>t DEF popContentsQ, Sockets, Clients, Sends
  <2>4. EventFollows' /\ pc' # "stopped"
    BY <1>3, <1>t DEF popContentsQ, EventFollows
  <2>5. UNCHANGED <<mPlayerMap, mSectors, mUserCnt>>
    BY <1>3 DEF popContentsQ
  <2> QED
    BY <2>1, <2>2, <2>3, <2>4, <2>5, OutsideKeeps
<1>4. CASE Wake
  <2>1. UNCHANGED <<mContentsQ, msg, conn, Players, Holds>>
    BY <1>4 DEF Wake, Players, Holds
  <2>2. Order'
    BY <1>t, <2>1, OrderSame
  <2> QED
    BY <1>t, <1>4, <2>2, OutsideKeeps DEF Wake, Thread, Queue, Sockets, Clients, Sends, EventFollows
<1>5. ASSUME NEW w \in Workers, SetEvent(w) PROVE IInv'
  <2>1. UNCHANGED <<mContentsQ, msg, conn, Players, Holds>>
    BY <1>5 DEF SetEvent, Players, Holds
  <2>2. Order'
    BY <1>t, <2>1, OrderSame
  <2> QED
    BY <1>t, <1>5, <2>2, OutsideKeeps DEF SetEvent, Thread, Queue, Sockets, Clients, Sends, EventFollows
<1>6. ASSUME NEW w \in Workers, NEW s \in Sessions, OnAccept(w, s) PROVE IInv'
  <2>1. Pushes(Internal("ALLOC", s), s) /\ Internal("ALLOC", s) \in Message
    BY <1>6, InternalType DEF OnAccept, Pushes, Proper
  <2>2. Clients' /\ wpc' \in [Workers -> Sessions \cup {"idle"}] /\ hEchoEvent' \in BOOLEAN
        /\ wpc'[w] # "idle"
    BY <1>6, <1>t DEF OnAccept, Clients, Sockets, Queue, ChattingServerAssumption
  <2> QED
    BY <1>6, <2>1, <2>2, PushKeeps DEF OnAccept
<1>7. ASSUME NEW w \in Workers, NEW s \in Sessions, OnRelease(w, s) PROVE IInv'
  <2>1. Pushes(Internal("DELETE", s), s) /\ Internal("DELETE", s) \in Message
    BY <1>7, InternalType DEF OnRelease, Pushes, Proper
  <2>2. Clients' /\ wpc' \in [Workers -> Sessions \cup {"idle"}] /\ hEchoEvent' \in BOOLEAN
        /\ wpc'[w] # "idle"
    BY <1>7, <1>t DEF OnRelease, Clients, Sockets, Queue, ChattingServerAssumption
  <2> QED
    BY <1>7, <2>1, <2>2, PushKeeps DEF OnRelease
<1>8. ASSUME NEW s \in Sessions, HonestSends(s) \/ OtherSends(s) PROVE IInv'
  <2>1. Clients' /\ \E m \in Packets(s) : onRecv(s, m)
    BY <1>8, <1>t, HonestPackets, OtherPackets
  <2>2. PICK m \in Packets(s) : onRecv(s, m)
    BY <2>1
  <2>3. Pushes(m, s) /\ m \in Message
    BY <2>2 DEF Packets, Pushes, onRecv
  <2>4. wpc' \in [Workers -> Sessions \cup {"idle"}] /\ hEchoEvent' = TRUE
    BY <1>t, <2>2 DEF onRecv, Sockets
  <2> QED
    BY <2>1, <2>2, <2>3, <2>4, PushKeeps DEF onRecv
<1>9. ASSUME NEW s \in Sessions, ClientReads(s) PROVE IInv'
  <2>1. UNCHANGED <<mContentsQ, msg, conn, Players, Holds>>
    BY <1>9 DEF ClientReads, Players, Holds
  <2>2. Order'
    BY <1>t, <2>1, OrderSame
  <2>3. Clients'
    <3>1. Head(sendQ[s]) \in ServerMessages /\ client[s] \in Knowledge
      BY <1>9, <1>t DEF ClientReads, Sends, Clients
    <3>2. client' = [client EXCEPT ![s] =
            CASE Head(sendQ[s]).type = "SC_LOGIN" -> [@ EXCEPT !.phase = "logged", !.seq = Head(sendQ[s]).seq]
              [] Head(sendQ[s]).type = "SC_AUTH"  -> [@ EXCEPT !.phase = "in", !.sector = Head(sendQ[s]).sector]
              [] Head(sendQ[s]).type = "SC_CHAT"  -> @]
      BY <1>9 DEF ClientReads
    <3>3. /\ Head(sendQ[s]).type \in ServerTypes /\ Head(sendQ[s]).seq \in Int
          /\ Head(sendQ[s]).sector \in Sectors \cup {Outside}
      BY <3>1 DEF ServerMessages
    <3>4. client'[s] \in Knowledge
      BY <1>t, <3>1, <3>2, <3>3 DEF Clients, Knowledge, ServerTypes
    <3>5. nPackets' = nPackets
      BY <1>9 DEF ClientReads
    <3> QED
      BY <1>t, <3>2, <3>4, <3>5 DEF Clients
  <2>4. Sends'
    <3>1. Tail(sendQ[s]) \in Seq(ServerMessages) /\ sendQ' = [sendQ EXCEPT ![s] = Tail(@)]
      BY <1>9, <1>t DEF ClientReads, Sends
    <3> QED
      BY <1>t, <3>1 DEF Sends
  <2> QED
    BY <1>t, <1>9, <2>2, <2>3, <2>4, OutsideKeeps DEF ClientReads, Thread, Queue, Sockets, EventFollows
<1> QED
  BY <1>1, <1>2, <1>3, <1>4, <1>5, <1>6, <1>7, <1>8, <1>9
     DEF Next, contentsThread, Signalled, TimesOut

\* Every variable keeps its type.
THEOREM TypeCorrect == Spec => []TypeOK
<1> QED
  BY InvInit, InvNext, PTL DEF Spec, IInv

\* Sectors hold exactly the authenticated players, each in the sector its Player names,
\* and mUserCnt counts the players, whatever clients send.
THEOREM SectorsMatchHolds == Spec => []SectorsMatch
<1> QED
  BY InvInit, InvNext, PTL DEF Spec, IInv

\* Every message of a client that follows the protocol, and of its session's
\* callbacks, finds the player it is for, though the callbacks are pushed by different
\* workers and other clients send messages that make and delete players of their own.
THEOREM PlayerFoundHolds == Spec => []PlayerFound
<1>1. IInv => PlayerFound
  BY Found DEF IInv, PlayerFound, Holds
<1> QED
  BY <1>1, InvInit, InvNext, PTL DEF Spec

\* The contents thread never sleeps on a message.
THEOREM EventFollowsHolds == Spec => []EventFollows
<1> QED
  BY InvInit, InvNext, PTL DEF Spec, IInv
-----------------------------------------------------------------------------
(* The dialogue with a client that follows the protocol *)

\* Its packets that were pushed and are not done
Asking(s) == {i \in Of(s) : At(i).type \notin {"ALLOC", "DELETE"}}
Inbox(s)  == {At(i) : i \in Asking(s)}
Sorted(s) == \A i, j \in Asking(s) : i < j => At(i).seq < At(j).seq

\* What the contents thread knows of the session, or will when the player is made
Base(s)  == IF s \in Players THEN mPlayerMap[s].SeqNumber ELSE FirstSeq
Auth(s)  == s \in Players /\ mPlayerMap[s].bAuth
Token(s) == IF s \in Players THEN mPlayerMap[s].tokenKey ELSE "none"

Chats(q) == \A i \in 1 .. Len(q) : q[i].type = "SC_CHAT"

\* Nothing is under way, and the next packet will have the number expected.
Idle(s) ==
  /\ client[s].phase \in {"new", "logged"} /\ client[s].seq = Base(s)
  /\ Inbox(s) = {} /\ sendQ[s] = <<>> /\ ~ Auth(s)
  /\ client[s].phase = "new" => Token(s) = "none"

\* The login or the authentication is in the queue.
Asked(s) ==
  /\ client[s].phase \in {"login", "auth"} /\ sendQ[s] = <<>> /\ ~ Auth(s)
  /\ client[s].phase = "login" => Token(s) = "none"
  /\ client[s].seq = Base(s) + 1
  /\ \E m \in Inbox(s) :
       /\ Inbox(s) = {m} /\ m.seq = Base(s)
       /\ IF client[s].phase = "login" THEN m.type = "CS_LOGIN"
                                       ELSE m.type = "CS_AUTH" /\ m.token = "own"

\* The login was accepted, and the client has not read so.
LoggedIn(s) ==
  /\ client[s].phase = "login" /\ Inbox(s) = {} /\ ~ Auth(s)
  /\ Len(sendQ[s]) = 1 /\ sendQ[s][1].type = "SC_LOGIN" /\ sendQ[s][1].seq = Base(s)

Refused(s) ==
  /\ client[s].phase \in {"login", "auth"} /\ Inbox(s) = {} /\ sendQ[s] = <<>> /\ ~ Auth(s)

\* The client is authenticated, and has not read so.
Entered(s) ==
  /\ client[s].phase = "auth" /\ client[s].seq = Base(s) /\ Inbox(s) = {} /\ Auth(s)
  /\ Len(sendQ[s]) > 0 /\ sendQ[s][1].type = "SC_AUTH"
  /\ sendQ[s][1].sector = mPlayerMap[s].sector /\ Chats(Tail(sendQ[s]))

\* A packet of a client that is in, when it takes the player from sector p to q
Steps(m, p, q) ==
  \/ m.type = "CS_MOVE" /\ q = m.sector /\ p # q
  \/ m.type = "CS_CHAT" /\ q = p /\ m.fits

\* way[n] is the sector of the player when packet n is handled: the packets in the
\* queue, one for each number, lead from where the player is to where the client
\* believes it to be.
Way(s) == [Base(s) .. client[s].seq -> Sectors]
Leads(s, way) ==
  /\ way[Base(s)] = mPlayerMap[s].sector
  /\ way[client[s].seq] = client[s].sector
  /\ \A m \in Inbox(s) : /\ m.seq \in Base(s) .. client[s].seq - 1
                         /\ Steps(m, way[m.seq], way[m.seq + 1])
  /\ \A n \in Base(s) .. client[s].seq - 1 : \E m \in Inbox(s) : m.seq = n

Inside(s) ==
  /\ client[s].phase = "in" /\ Auth(s) /\ Chats(sendQ[s])
  /\ Base(s) <= client[s].seq
  /\ \E way \in Way(s) : Leads(s, way)

Talk(s) == Idle(s) \/ Asked(s) \/ LoggedIn(s) \/ Refused(s) \/ Entered(s) \/ Inside(s)

\* What RepliesInOrder says of one session
Answered(s) ==
  sendQ[s] # <<>> => client[s].phase = CASE Head(sendQ[s]).type = "SC_LOGIN" -> "login"
                                         [] Head(sendQ[s]).type = "SC_AUTH"  -> "auth"
                                         [] Head(sendQ[s]).type = "SC_CHAT"  -> "in"

\* A CS_AUTH is the only packet in the queue, and its player is not authenticated.
AsksOnce(s) == \A m \in Inbox(s) : m.type = "CS_AUTH" => Inbox(s) = {m} /\ ~ Auth(s)

Untouched(s) ==
  client[s].phase = "new" /\ client[s].seq = FirstSeq /\ sendQ[s] = <<>>

Dialogue(s) ==
  /\ conn[s] = "none" => Untouched(s)
  /\ conn[s] = "open" => Sorted(s) /\ Talk(s)
  /\ conn[s] = "released" => Sorted(s) /\ AsksOnce(s) /\ Answered(s)

-----------------------------------------------------------------------------
(* What of a dialogue a step leaves alone *)

\* The packets are the same, though they may have moved up in the queue.
SameInbox(s) == Inbox(s)' = Inbox(s) /\ (Sorted(s) => Sorted(s)')

LEMMA InboxSame ==
  ASSUME UNCHANGED <<mContentsQ, msg, Holds>>, NEW s
  PROVE  SameInbox(s)
<1>1. Pending' = Pending /\ \A i : At(i)' = At(i)
  BY DEF Pending, At
<1>2. Of(s)' = Of(s)
  BY <1>1 DEF Of
<1>3. Asking(s)' = Asking(s)
  BY <1>1, <1>2 DEF Asking
<1> QED
  BY <1>1, <1>3 DEF SameInbox, Inbox, Sorted

LEMMA InboxPop ==
  ASSUME TypeOK, popContentsQ, NEW s
  PROVE  SameInbox(s)
<1>1. CASE mContentsQ = <<>>
  BY <1>1, InboxSame DEF popContentsQ, Holds
<1>2. CASE mContentsQ # <<>>
  <2>1. /\ Len(mContentsQ) \in Nat \ {0} /\ Len(mContentsQ)' = Len(mContentsQ) - 1
        /\ msg' = mContentsQ[1] /\ \A i \in 1 .. Len(mContentsQ) - 1 : mContentsQ'[i] = mContentsQ[i + 1]
    <3>1. msg' = Head(mContentsQ) /\ mContentsQ' = Tail(mContentsQ)
      BY <1>2 DEF popContentsQ
    <3>2. mContentsQ \in Seq(Message)
      BY DEF TypeOK
    <3> QED
      BY <1>2, <3>1, <3>2
  <2>2. Pending = 1 .. Len(mContentsQ) /\ Pending' = 0 .. Len(mContentsQ) - 1
    BY <1>2, <2>1 DEF popContentsQ, Holds, Pending
  <2>3. \A i \in Pending' : i \in Int /\ i + 1 \in Pending /\ At(i)' = At(i + 1)
    BY <2>1, <2>2 DEF At
  <2>4. \A i \in Pending : i \in Int /\ i - 1 \in Pending' /\ At(i - 1)' = At(i)
    BY <2>1, <2>2 DEF At
  <2>5. \A i \in Asking(s)' : i \in Int /\ i + 1 \in Asking(s) /\ At(i)' = At(i + 1)
    BY <2>3 DEF Asking, Of
  <2>6. \A i \in Asking(s) : i \in Int /\ i - 1 \in Asking(s)' /\ At(i - 1)' = At(i)
    BY <2>4 DEF Asking, Of
  <2>7. Inbox(s)' = Inbox(s)
    BY <2>5, <2>6 DEF Inbox
  <2>8. Sorted(s) => Sorted(s)'
    BY <2>5 DEF Sorted
  <2> QED
    BY <2>7, <2>8 DEF SameInbox
<1> QED
  BY <1>1, <1>2

\* A message is pushed: the inbox of its session gets it if it is a packet.
LEMMA InboxPush ==
  ASSUME TypeOK, NEW m \in Message, pushContentsQ(m), UNCHANGED <<pc, msg>>, NEW s
  PROVE  IF m.owner = s /\ m.type \notin {"ALLOC", "DELETE"}
           THEN /\ Inbox(s)' = Inbox(s) \cup {m}
                /\ Sorted(s) /\ (\A k \in Inbox(s) : k.seq < m.seq) => Sorted(s)'
           ELSE SameInbox(s)
<1>n. PICK n : n = Len(mContentsQ) + 1
  OBVIOUS
<1>1. n \in Nat /\ Pending' = Pending \cup {n} /\ \A i \in Pending : i \in Nat /\ i < n
  BY <1>n DEF pushContentsQ, Pending, Holds, TypeOK
<1>2. At(n)' = m /\ \A i \in Pending : At(i)' = At(i)
  BY <1>n, <1>1 DEF At, pushContentsQ, TypeOK, Pending
<1>3. CASE m.owner = s /\ m.type \notin {"ALLOC", "DELETE"}
  <2>1. Asking(s)' = Asking(s) \cup {n} /\ Asking(s) \subseteq Pending
    BY <1>1, <1>2, <1>3 DEF Asking, Of
  <2>2. Inbox(s)' = Inbox(s) \cup {m}
    BY <1>2, <2>1 DEF Inbox
  <2>3. ASSUME Sorted(s), \A k \in Inbox(s) : k.seq < m.seq PROVE Sorted(s)'
    <3>1. \A i \in Asking(s) : At(i).seq < m.seq
      BY <2>3 DEF Inbox
    <3>2. \A i, j \in Asking(s)' : i < j => i \in Asking(s) /\ (j \in Asking(s) \/ j = n)
      BY <1>1, <2>1
    <3>3. \A i \in Asking(s) : At(i)' = At(i)
      BY <1>2, <2>1
    <3> QED
      BY <1>2, <2>3, <3>1, <3>2, <3>3 DEF Sorted
  <2> QED
    BY <1>3, <2>2, <2>3
<1>4. CASE ~ (m.owner = s /\ m.type \notin {"ALLOC", "DELETE"})
  <2>1. Asking(s)' = Asking(s) /\ Asking(s) \subseteq Pending
    BY <1>1, <1>2, <1>4 DEF Asking, Of
  <2>2. \A i \in Asking(s) : At(i)' = At(i)
    BY <1>2, <2>1
  <2> QED
    BY <1>4, <2>1, <2>2 DEF SameInbox, Inbox, Sorted
<1> QED
  BY <1>3, <1>4

\* The message at hand is done: the inbox of its session loses it if it is a packet.
LEMMA InboxDone ==
  ASSUME TypeOK, pc = "packetProc", pc' = "pop", UNCHANGED <<mContentsQ, msg>>, NEW s
  PROVE  IF msg.owner = s /\ msg.type \notin {"ALLOC", "DELETE"}
           THEN msg \in Inbox(s) /\ (Sorted(s) =>
                  /\ Inbox(s)' = Inbox(s) \ {msg} /\ Sorted(s)'
                  /\ \A k \in Inbox(s)' : msg.seq < k.seq)
           ELSE SameInbox(s)
<1>1. Pending = Pending' \cup {0} /\ \A i \in Pending' : i \in Nat /\ i > 0 /\ At(i)' = At(i)
  BY DEF Pending, Holds, TypeOK, At
<1>2. At(0) = msg /\ msg.seq \in Int
  BY DEF At, TypeOK, Message
<1>3. CASE msg.owner = s /\ msg.type \notin {"ALLOC", "DELETE"}
  <2>1. Asking(s) = Asking(s)' \cup {0} /\ \A i \in Asking(s)' : i \in Nat /\ i > 0 /\ At(i)' = At(i)
    BY <1>1, <1>2, <1>3 DEF Asking, Of
  <2>2. msg \in Inbox(s)
    BY <1>2, <2>1 DEF Inbox
  <2>3. ASSUME Sorted(s)
        PROVE  Inbox(s)' = Inbox(s) \ {msg} /\ Sorted(s)' /\ \A k \in Inbox(s)' : msg.seq < k.seq
    <3>1. \A i \in Asking(s)' : msg.seq < At(i).seq
      BY <1>2, <2>1, <2>3 DEF Sorted
    <3>2. \A k \in Inbox(s)' : msg.seq < k.seq
      BY <2>1, <3>1 DEF Inbox
    <3>3. Inbox(s) = Inbox(s)' \cup {msg}
      BY <1>2, <2>1 DEF Inbox
    <3>4. msg \notin Inbox(s)'
      BY <1>2, <3>2
    <3>5. Sorted(s)'
      BY <2>1, <2>3 DEF Sorted
    <3> QED
      BY <3>2, <3>3, <3>4, <3>5
  <2> QED
    BY <1>3, <2>2, <2>3
<1>4. CASE ~ (msg.owner = s /\ msg.type \notin {"ALLOC", "DELETE"})
  <2>1. Asking(s) = Asking(s)' /\ \A i \in Asking(s)' : At(i)' = At(i)
    BY <1>1, <1>2, <1>4 DEF Asking, Of
  <2> QED
    BY <1>4, <2>1 DEF SameInbox, Inbox, Sorted
<1> QED
  BY <1>3, <1>4
\* The contents thread knows the same of the session.
SameKnown(s) ==
  /\ Base(s)' = Base(s) /\ (Auth(s)' <=> Auth(s)) /\ Token(s)' = Token(s)
  /\ Auth(s) => mPlayerMap'[s].sector = mPlayerMap[s].sector

LEMMA KnownSame ==
  ASSUME NEW s, mPlayerMap'[s] = mPlayerMap[s], s \in Sessions
  PROVE  SameKnown(s)
<1>1. s \in Players' <=> s \in Players
  BY DEF Players
<1> QED
  BY <1>1 DEF SameKnown, Base, Auth, Token

LEMMA TalkSame ==
  ASSUME NEW s, Talk(s), SameInbox(s), SameKnown(s),
         client'[s] = client[s], sendQ'[s] = sendQ[s]
  PROVE  Talk(s)'
<1> USE DEF SameInbox, SameKnown
<1>1. CASE Idle(s)
  <2>1. Idle(s)'
    BY <1>1 DEF Idle
  <2> QED
    BY <2>1 DEF Talk
<1>2. CASE Asked(s)
  <2>1. Asked(s)'
    BY <1>2 DEF Asked
  <2> QED
    BY <2>1 DEF Talk
<1>3. CASE LoggedIn(s)
  <2>1. LoggedIn(s)'
    BY <1>3 DEF LoggedIn
  <2> QED
    BY <2>1 DEF Talk
<1>4. CASE Refused(s)
  <2>1. Refused(s)'
    BY <1>4 DEF Refused
  <2> QED
    BY <2>1 DEF Talk
<1>5. CASE Entered(s)
  <2>1. Entered(s)'
    BY <1>5 DEF Entered
  <2> QED
    BY <2>1 DEF Talk
<1>6. CASE Inside(s)
  <2>1. PICK way \in Way(s) : Leads(s, way)
    BY <1>6 DEF Inside
  <2>2. way \in Way(s)' /\ Leads(s, way)'
    BY <1>6, <2>1 DEF Way, Leads, Inside
  <2>3. Inside(s)'
    BY <1>6, <2>2 DEF Inside
  <2> QED
    BY <2>3 DEF Talk
<1> QED
  BY <1>1, <1>2, <1>3, <1>4, <1>5, <1>6 DEF Talk

\* Whatever the stage, what the client has not read is what it waits for.
LEMMA TalkAnswers ==
  ASSUME TypeOK, NEW s \in Sessions, Talk(s)
  PROVE  Answered(s)
<1>1. sendQ[s] \in Seq(ServerMessages)
  BY TypeParts DEF Sends
<1>2. SUFFICES ASSUME sendQ[s] # <<>>
               PROVE  client[s].phase = CASE Head(sendQ[s]).type = "SC_LOGIN" -> "login"
                                          [] Head(sendQ[s]).type = "SC_AUTH"  -> "auth"
                                          [] Head(sendQ[s]).type = "SC_CHAT"  -> "in"
  BY DEF Answered
<1>3. Head(sendQ[s]) = sendQ[s][1] /\ Len(sendQ[s]) \in Nat \ {0}
  BY <1>1, <1>2
<1>4. CASE LoggedIn(s)
  BY <1>3, <1>4 DEF LoggedIn
<1>5. CASE Entered(s)
  BY <1>3, <1>5 DEF Entered
<1>6. CASE Inside(s)
  BY <1>3, <1>6 DEF Inside, Chats
<1> QED
  BY <1>2, <1>4, <1>5, <1>6 DEF Talk, Idle, Asked, Refused

LEMMA TalkAsksOnce ==
  ASSUME NEW s, Talk(s)
  PROVE  AsksOnce(s)
<1>1. CASE Asked(s)
  BY <1>1 DEF Asked, AsksOnce
<1>2. CASE Inside(s)
  BY <1>2 DEF Inside, Leads, Steps, AsksOnce
<1>3. CASE Inbox(s) = {}
  BY <1>3 DEF AsksOnce
<1> QED
  BY <1>1, <1>2, <1>3 DEF Talk, Idle, LoggedIn, Refused, Entered

LEMMA DialogueSame ==
  ASSUME NEW s, Dialogue(s), SameInbox(s), SameKnown(s),
         client'[s] = client[s], sendQ'[s] = sendQ[s], conn'[s] = conn[s]
  PROVE  Dialogue(s)'
<1>1. conn[s] = "open" => Sorted(s)' /\ Talk(s)'
  BY TalkSame DEF Dialogue, SameInbox
<1>2. conn[s] = "released" => Sorted(s)' /\ AsksOnce(s)'
  BY DEF Dialogue, AsksOnce, SameInbox, SameKnown
<1> QED
  BY <1>1, <1>2 DEF Dialogue, Untouched, Answered

-----------------------------------------------------------------------------
(* The steps of the client and of the library *)

LEMMA AcceptDialogue ==
  ASSUME TypeOK, Order, NEW s \in Honest, Dialogue(s), NEW w, NEW t \in Sessions, OnAccept(w, t)
  PROVE  Dialogue(s)'
<1> USE DEF contents
<1>0. s \in Sessions
  BY ChattingServerAssumption
<1>1. SameInbox(s)
  BY InboxPush, InternalType DEF OnAccept
<1>2. SameKnown(s)
  BY <1>0, KnownSame DEF OnAccept
<1>3. client' = client /\ sendQ' = sendQ /\ conn' = [conn EXCEPT ![t] = "open"] /\ conn[t] = "none"
  BY DEF OnAccept
<1>4. CASE s # t
  <2>1. conn'[s] = conn[s]
    BY <1>0, <1>3, <1>4 DEF TypeOK
  <2> QED
    BY <1>1, <1>2, <1>3, <2>1, DialogueSame
<1>5. CASE s = t
  <2>1. conn'[s] = "open"
    BY <1>3, <1>5 DEF TypeOK
  <2>2. s \notin Players /\ Of(s) = {}
    BY <1>3, <1>5 DEF Order, Ordered
  <2>3. Asking(s) = {}
    BY <2>2 DEF Asking
  <2>4. Inbox(s) = {} /\ Sorted(s)
    BY <2>3 DEF Inbox, Sorted
  <2>5. Idle(s)
    BY <1>3, <1>5, <2>2, <2>4 DEF Dialogue, Untouched, Idle, Base, Auth, Token
  <2>6. Talk(s)'
    BY <1>1, <1>2, <1>3, <2>5, TalkSame DEF Talk
  <2> QED
    BY <1>1, <2>1, <2>4, <2>6 DEF Dialogue, SameInbox
<1> QED
  BY <1>4, <1>5

LEMMA ReleaseDialogue ==
  ASSUME TypeOK, NEW s \in Sessions, Dialogue(s), NEW w, NEW t \in Sessions, OnRelease(w, t)
  PROVE  Dialogue(s)'
<1> USE DEF contents
<1>1. SameInbox(s)
  BY InboxPush, InternalType DEF OnRelease
<1>2. SameKnown(s)
  BY KnownSame DEF OnRelease
<1>3. client' = client /\ sendQ' = sendQ /\ conn' = [conn EXCEPT ![t] = "released"] /\ conn[t] = "open"
  BY DEF OnRelease
<1>4. CASE s # t
  <2>1. conn'[s] = conn[s]
    BY <1>3, <1>4 DEF TypeOK
  <2> QED
    BY <1>1, <1>2, <1>3, <2>1, DialogueSame
<1>5. CASE s = t
  <2>1. conn'[s] = "released"
    BY <1>3, <1>5 DEF TypeOK
  <2>2. Answered(s) /\ AsksOnce(s) /\ Sorted(s)
    BY <1>3, <1>5, TalkAnswers, TalkAsksOnce DEF Dialogue
  <2>3. Answered(s)' /\ AsksOnce(s)' /\ Sorted(s)'
    BY <1>1, <1>2, <1>3, <2>2 DEF Answered, AsksOnce, SameInbox, SameKnown
  <2> QED
    BY <2>1, <2>3 DEF Dialogue
<1> QED
  BY <1>4, <1>5

\* The packet of another client
LEMMA OtherDialogue ==
  ASSUME TypeOK, NEW s \in Sessions, Dialogue(s), NEW t \in Sessions, t # s,
         HonestSends(t) \/ OtherSends(t)
  PROVE  Dialogue(s)'
<1>1. PICK m \in Packets(t) : onRecv(t, m)
  BY HonestPackets, OtherPackets
<1>2. m \in Message /\ m.owner = t
  BY <1>1 DEF Packets
<1>3. SameInbox(s)
  BY <1>1, <1>2, InboxPush DEF onRecv
<1>4. SameKnown(s)
  BY <1>1, KnownSame DEF onRecv, contents
<1>5. client'[s] = client[s]
  <2>1. CASE HonestSends(t)
    BY <2>1 DEF HonestSends, Sent, TypeOK
  <2>2. CASE OtherSends(t)
    <3>1. \E ty \in Types : Numbers(t, ty)
      BY <2>2 DEF OtherSends
    <3> QED
      BY <3>1 DEF Numbers, TypeOK
  <2> QED
    BY <2>1, <2>2
<1>6. sendQ' = sendQ /\ conn' = conn
  BY <1>1 DEF onRecv, network
<1> QED
  BY <1>3, <1>4, <1>5, <1>6, DialogueSame

LEMMA NothingLeft ==
  ASSUME NEW S, NEW q \in Seq(S), Len(q) = 0
  PROVE  q = <<>>
OBVIOUS

\* Reading a chat message changes nothing the client knows.
LEMMA ReadDialogue ==
  ASSUME TypeOK, NEW s \in Sessions, Dialogue(s), NEW t \in Sessions, ClientReads(t)
  PROVE  Dialogue(s)'
<1> DEFINE m == Head(sendQ[t])
<1>1. SameInbox(s)
  BY InboxSame DEF ClientReads, queue, Holds
<1>2. SameKnown(s)
  BY KnownSame DEF ClientReads, contents
<1>3. /\ conn' = conn /\ conn[t] = "open" /\ sendQ[t] # <<>> /\ sendQ' = [sendQ EXCEPT ![t] = Tail(@)]
      /\ client' = [client EXCEPT ![t] =
           CASE m.type = "SC_LOGIN" -> [@ EXCEPT !.phase = "logged", !.seq = m.seq]
             [] m.type = "SC_AUTH"  -> [@ EXCEPT !.phase = "in", !.sector = m.sector]
             [] m.type = "SC_CHAT"  -> @]
  BY DEF ClientReads
<1>4. CASE s # t
  <2>1. client'[s] = client[s] /\ sendQ'[s] = sendQ[s]
    BY <1>3, <1>4 DEF TypeOK
  <2> QED
    BY <1>1, <1>2, <1>3, <2>1, DialogueSame
<1>5. CASE s = t
  <2>0. sendQ[s] \in Seq(ServerMessages) /\ client[s] \in Knowledge
    BY TypeParts DEF Sends, Clients
  <2>1. /\ m = sendQ[s][1] /\ Len(sendQ[s]) \in Nat \ {0}
        /\ Tail(sendQ[s]) \in Seq(ServerMessages) /\ Len(Tail(sendQ[s])) = Len(sendQ[s]) - 1
        /\ \A i \in 1 .. Len(Tail(sendQ[s])) : Tail(sendQ[s])[i] = sendQ[s][i + 1]
    BY <1>3, <1>5, <2>0
  <2>2. sendQ'[s] = Tail(sendQ[s])
    BY <1>3, <1>5 DEF TypeOK
  <2>3. client'[s] = CASE m.type = "SC_LOGIN" -> [client[s] EXCEPT !.phase = "logged", !.seq = m.seq]
                       [] m.type = "SC_AUTH"  -> [client[s] EXCEPT !.phase = "in", !.sector = m.sector]
                       [] m.type = "SC_CHAT"  -> client[s]
    BY <1>3, <1>5 DEF TypeOK
  <2> HIDE DEF m
  <2>4. Talk(s) /\ Sorted(s)
    BY <1>3, <1>5 DEF Dialogue
  <2>5. ASSUME LoggedIn(s) PROVE Talk(s)'
    <3>0. Len(sendQ[s]) = 1 /\ sendQ[s][1].type = "SC_LOGIN" /\ sendQ[s][1].seq = Base(s)
      BY <2>5 DEF LoggedIn
    <3>t. Tail(sendQ[s]) = <<>>
      <4>1. Len(Tail(sendQ[s])) = 0 /\ Tail(sendQ[s]) \in Seq(ServerMessages)
        BY <2>1, <3>0
      <4> QED
        BY <4>1, NothingLeft
    <3>1. m.type = "SC_LOGIN" /\ m.seq = Base(s) /\ sendQ'[s] = <<>>
      BY <2>1, <2>2, <3>0, <3>t
    <3>2. client'[s].phase = "logged" /\ client'[s].seq = Base(s)
      BY <2>0, <2>3, <3>1 DEF Knowledge
    <3>3. Idle(s)'
      BY <1>1, <1>2, <2>5, <3>1, <3>2 DEF Idle, LoggedIn, SameInbox, SameKnown
    <3> QED
      BY <3>3 DEF Talk
  <2>6. ASSUME Entered(s) PROVE Talk(s)'
    <3>1. m.type = "SC_AUTH" /\ m.sector = mPlayerMap[s].sector /\ Chats(sendQ'[s])
      BY <2>1, <2>2, <2>6 DEF Entered
    <3>2. client'[s].phase = "in" /\ client'[s].seq = Base(s) /\ client'[s].sector = m.sector
      BY <2>0, <2>3, <2>6, <3>1 DEF Knowledge, Entered
    <3>3. Inbox(s)' = {} /\ Base(s)' = Base(s) /\ Auth(s)' /\ Auth(s) /\ Base(s) \in Int
      BY <1>1, <1>2, <2>0, <2>6 DEF Entered, SameInbox, SameKnown, Knowledge
    <3>4. mPlayerMap[s].sector \in Sectors /\ mPlayerMap'[s].sector = mPlayerMap[s].sector
      BY <1>2, <3>3, TypeParts, PlayerIs DEF Auth, Contents, SameKnown, Player
    <3>5. PICK way : way = [n \in Base(s) .. Base(s) |-> m.sector]
      OBVIOUS
    <3>6. Base(s) .. Base(s) - 1 = {} /\ Base(s) .. Base(s) = {Base(s)}
      BY <3>3
    <3>7. way \in Way(s)' /\ Leads(s, way)'
      BY <3>1, <3>2, <3>3, <3>4, <3>5, <3>6 DEF Way, Leads
    <3>8. Inside(s)'
      BY <3>1, <3>2, <3>3, <3>7 DEF Inside, Chats
    <3> QED
      BY <3>8 DEF Talk
  <2>7. ASSUME Inside(s) PROVE Talk(s)'
    <3>1. m.type = "SC_CHAT" /\ Chats(sendQ'[s])
      BY <2>1, <2>2, <2>7 DEF Inside, Chats
    <3>2. client'[s] = client[s]
      BY <2>3, <3>1
    <3>3. PICK way \in Way(s) : Leads(s, way)
      BY <2>7 DEF Inside
    <3>4. way \in Way(s)' /\ Leads(s, way)'
      BY <1>1, <1>2, <2>7, <3>2, <3>3 DEF Way, Leads, Inside, SameInbox, SameKnown
    <3>5. Inside(s)'
      BY <1>2, <2>7, <3>1, <3>2, <3>4 DEF Inside, SameKnown, Chats
    <3> QED
      BY <3>5 DEF Talk
  <2>8. Talk(s)'
    BY <1>3, <1>5, <2>4, <2>5, <2>6, <2>7 DEF Talk, Idle, Asked, Refused
  <2> QED
    BY <1>1, <1>3, <1>5, <2>4, <2>8 DEF Dialogue, SameInbox
<1> QED
  BY <1>4, <1>5

\* Packet m is pushed, and its client is now in phase ph and at sector q.
Posted(s, m, ph, q) ==
  /\ m \in Message /\ m.seq = client[s].seq
  /\ Inbox(s)' = Inbox(s) \cup {m}
  /\ (\A i \in Inbox(s) : i.seq < m.seq) => Sorted(s)'
  /\ client'[s].phase = ph /\ client'[s].seq = client[s].seq + 1 /\ client'[s].sector = q

\* A client that follows the protocol: what it sends and becomes in each phase
LEMMA SendDialogue ==
  ASSUME TypeOK, NEW s \in Sessions, Dialogue(s), HonestSends(s)
  PROVE  Dialogue(s)'
<1>0. client[s] \in Knowledge /\ client[s].seq \in Int
  BY TypeParts DEF Clients, Knowledge
<1>1. /\ conn[s] = "open" /\ Talk(s) /\ Sorted(s)
      /\ UNCHANGED <<conn, sendQ, pc, msg, mPlayerMap>>
  BY DEF HonestSends, onRecv, Dialogue, network, contents
<1>2. SameKnown(s)
  BY <1>1, KnownSame
<1>3. ASSUME NEW ty \in ClientTypes, NEW k \in Tokens,
             NEW p \in Sectors \cup {Outside}, NEW ph, NEW q,
             onRecv(s, Packet(s, ty, k, p, TRUE)), Sent(s, ph, q)
      PROVE  Posted(s, Packet(s, ty, k, p, TRUE), ph, q)
  <2>1. PICK m : m = Packet(s, ty, k, p, TRUE)
    OBVIOUS
  <2>2. m \in Message /\ m.owner = s /\ m.type = ty /\ m.seq = client[s].seq
    BY <1>0, <2>1 DEF Packet, AnyPacket, Message, ClientTypes, Types, Sizes
  <2>3. client'[s] = [phase |-> ph, seq |-> client[s].seq + 1, sector |-> q]
    BY <1>3 DEF Sent, TypeOK
  <2>4. pushContentsQ(m)
    BY <1>3, <2>1 DEF onRecv
  <2>5. Inbox(s)' = Inbox(s) \cup {m} /\ ((\A i \in Inbox(s) : i.seq < m.seq) => Sorted(s)')
    BY <1>1, <2>2, <2>4, InboxPush DEF ClientTypes
  <2>6. Posted(s, m, ph, q)
    BY <2>2, <2>3, <2>5 DEF Posted
  <2> QED
    BY <2>1, <2>6
<1>c. /\ {"CS_LOGIN", "CS_AUTH", "CS_MOVE", "CS_CHAT"} \subseteq ClientTypes
      /\ "own" \in Tokens /\ "none" \in Tokens /\ Outside \in Sectors \cup {Outside}
  BY DEF ClientTypes, Tokens
<1>4. ASSUME client[s].phase = "new" PROVE Sorted(s)' /\ Talk(s)'
  <2>1. Idle(s)
    BY <1>1, <1>4 DEF Talk, Asked, LoggedIn, Refused, Entered, Inside
  <2>2. onRecv(s, Packet(s, "CS_LOGIN", "none", Outside, TRUE)) /\ Sent(s, "login", Outside)
    BY <1>4 DEF HonestSends
  <2>3. PICK m : m = Packet(s, "CS_LOGIN", "none", Outside, TRUE)
    OBVIOUS
  <2>p. m.type = "CS_LOGIN" /\ m.token = "none" /\ Posted(s, m, "login", Outside)
    BY <1>3, <1>c, <2>2, <2>3 DEF Packet, AnyPacket
  <2>4. Asked(s)' /\ Sorted(s)'
    BY <1>1, <1>2, <1>4, <2>1, <2>p DEF Idle, Asked, SameKnown, Posted
  <2> QED
    BY <2>4 DEF Talk
<1>5. ASSUME client[s].phase = "logged" PROVE Sorted(s)' /\ Talk(s)'
  <2>1. Idle(s)
    BY <1>1, <1>5 DEF Talk, Asked, LoggedIn, Refused, Entered, Inside
  <2>2. onRecv(s, Packet(s, "CS_AUTH", "own", Outside, TRUE)) /\ Sent(s, "auth", Outside)
    BY <1>5 DEF HonestSends
  <2>3. PICK m : m = Packet(s, "CS_AUTH", "own", Outside, TRUE)
    OBVIOUS
  <2>p. m.type = "CS_AUTH" /\ m.token = "own" /\ Posted(s, m, "auth", Outside)
    BY <1>3, <1>c, <2>2, <2>3 DEF Packet, AnyPacket
  <2>4. Asked(s)' /\ Sorted(s)'
    BY <1>1, <1>2, <1>5, <2>1, <2>p DEF Idle, Asked, SameKnown, Posted
  <2> QED
    BY <2>4 DEF Talk
<1>6. ASSUME client[s].phase = "in" PROVE Sorted(s)' /\ Talk(s)'
  <2> DEFINE b == Base(s)
             n == client[s].seq
  <2>1. Inside(s)
    BY <1>1, <1>6 DEF Talk, Idle, Asked, LoggedIn, Refused, Entered
  <2>2. PICK way \in Way(s) : Leads(s, way)
    BY <2>1 DEF Inside
  <2>3. b \in Int /\ n \in Int /\ b <= n
    <3>1. b <= n /\ s \in Players
      BY <2>1 DEF Inside, Auth
    <3>2. mPlayerMap[s] \in Player
      BY <3>1, TypeParts, PlayerIs DEF Contents
    <3> QED
      BY <1>0, <3>1, <3>2 DEF Base, Player
  <2>4. way \in [b .. n -> Sectors] /\ way[n] = client[s].sector /\ way[n] \in Sectors
    BY <2>2, <2>3 DEF Way, Leads
  <2>5. \E q \in Sectors, m \in Message :
          m.seq = n /\ Steps(m, way[n], q) /\ Posted(s, m, "in", q)
    <3>1. ASSUME NEW q \in Sectors \ {client[s].sector},
                 onRecv(s, Packet(s, "CS_MOVE", "none", q, TRUE)), Sent(s, "in", q)
          PROVE  \E m \in Message : m.seq = n /\ Steps(m, way[n], q) /\ Posted(s, m, "in", q)
      <4>1. PICK m : m = Packet(s, "CS_MOVE", "none", q, TRUE)
        OBVIOUS
      <4>2. Posted(s, m, "in", q) /\ m.type = "CS_MOVE" /\ m.sector = q
        BY <1>3, <1>c, <3>1, <4>1 DEF Packet, AnyPacket
      <4> QED
        BY <2>4, <4>2 DEF Steps, Posted
    <3>2. ASSUME onRecv(s, Packet(s, "CS_CHAT", "none", Outside, TRUE)),
                 Sent(s, "in", client[s].sector)
          PROVE  \E m \in Message : m.seq = n /\ Steps(m, way[n], way[n]) /\ Posted(s, m, "in", way[n])
      <4>1. PICK m : m = Packet(s, "CS_CHAT", "none", Outside, TRUE)
        OBVIOUS
      <4>2. Posted(s, m, "in", client[s].sector) /\ m.type = "CS_CHAT" /\ m.fits
        BY <1>3, <1>c, <3>2, <4>1 DEF Packet, AnyPacket
      <4> QED
        BY <2>4, <4>2 DEF Steps, Posted
    <3>3. \/ \E q \in Sectors \ {client[s].sector} :
               onRecv(s, Packet(s, "CS_MOVE", "none", q, TRUE)) /\ Sent(s, "in", q)
          \/ onRecv(s, Packet(s, "CS_CHAT", "none", Outside, TRUE)) /\ Sent(s, "in", client[s].sector)
      BY <1>6 DEF HonestSends
    <3> QED
      BY <2>4, <3>1, <3>2, <3>3
  <2>6. PICK q \in Sectors, m \in Message :
          /\ m.seq = n /\ Steps(m, way[n], q)
          /\ Inbox(s)' = Inbox(s) \cup {m}
          /\ (\A i \in Inbox(s) : i.seq < m.seq) => Sorted(s)'
          /\ client'[s].phase = "in" /\ client'[s].seq = n + 1 /\ client'[s].sector = q
    BY <2>5 DEF Posted
  <2>7. /\ way[b] = mPlayerMap[s].sector
        /\ \A i \in Inbox(s) : i.seq \in b .. n - 1 /\ Steps(i, way[i.seq], way[i.seq + 1])
        /\ \A j \in b .. n - 1 : \E i \in Inbox(s) : i.seq = j
    BY <2>2 DEF Leads
  <2>o. PICK on : on = [j \in b .. n + 1 |-> IF j = n + 1 THEN q ELSE way[j]]
    OBVIOUS
  <2>8. Base(s)' = b /\ Auth(s) /\ Auth(s)' /\ mPlayerMap' = mPlayerMap
    BY <1>1, <1>2, <2>1 DEF SameKnown, Inside
  <2> HIDE DEF b, n
  <2>9. on \in [b .. n + 1 -> Sectors]
    BY <2>3, <2>4, <2>o
  <2>10. on[b] = way[b] /\ on[n + 1] = q /\ on[n] = way[n]
    BY <2>3, <2>o
  <2>11. ASSUME NEW i \in Inbox(s)'
         PROVE  i.seq \in b .. n /\ Steps(i, on[i.seq], on[i.seq + 1])
    <3>1. CASE i = m
      BY <2>3, <2>6, <2>10, <3>1
    <3>2. CASE i # m
      <4>1. i.seq \in b .. n - 1 /\ Steps(i, way[i.seq], way[i.seq + 1])
        BY <2>6, <2>7, <3>2
      <4>2. on[i.seq] = way[i.seq] /\ on[i.seq + 1] = way[i.seq + 1]
        BY <2>3, <2>o, <4>1
      <4> QED
        BY <2>3, <4>1, <4>2
    <3> QED
      BY <3>1, <3>2
  <2>12. ASSUME NEW j \in b .. n PROVE \E i \in Inbox(s)' : i.seq = j
    <3>1. CASE j = n
      BY <2>6, <3>1
    <3>2. CASE j # n
      <4>1. j \in b .. n - 1
        BY <2>3, <3>2
      <4> QED
        BY <2>6, <2>7, <4>1
    <3> QED
      BY <3>1, <3>2
  <2>13. n + 1 - 1 = n
    BY <2>3
  <2>14. on \in Way(s)'
    BY <2>6, <2>8, <2>9 DEF Way
  <2>l. Leads(s, on)'
    BY <2>6, <2>7, <2>8, <2>10, <2>11, <2>12, <2>13 DEF Leads
  <2>15. Inside(s)'
    <3>1. client[s].phase' = "in" /\ Base(s)' <= client[s].seq' /\ Chats(sendQ[s])'
      BY <1>1, <2>1, <2>3, <2>6, <2>8 DEF Inside, Chats
    <3> QED
      BY <2>8, <2>14, <2>l, <3>1 DEF Inside
  <2>16. Sorted(s)'
    BY <2>3, <2>6, <2>7
  <2> QED
    BY <2>15, <2>16 DEF Talk
<1>7. Sorted(s)' /\ Talk(s)'
  BY <1>4, <1>5, <1>6 DEF HonestSends
<1> QED
  BY <1>1, <1>7 DEF Dialogue

-----------------------------------------------------------------------------
(* The handlers and the dialogues *)

\* The thread that stops has changed nothing.
LEMMA StopLeaves ==
  ASSUME packetProc, pc' = "stopped"
  PROVE  UNCHANGED <<mPlayerMap, mSectors, mUserCnt, disconnected, sendQ>>
<1> USE DEF Stop, Done, Refuse, contents
<1>1. CASE chatPlayerAlloc
  BY <1>1 DEF chatPlayerAlloc
<1>2. CASE chatPlayerDelete
  BY <1>2 DEF chatPlayerDelete
<1>3. CASE NotValid
  BY <1>3 DEF NotValid
<1>4. CASE loginProc
  BY <1>4 DEF loginProc
<1>5. CASE authProc
  BY <1>5 DEF authProc
<1>6. CASE moveSectorProc
  BY <1>6 DEF moveSectorProc
<1>7. CASE chatMessageProc
  BY <1>7 DEF chatMessageProc
<1>8. CASE UnknownType
  BY <1>8 DEF UnknownType
<1>9. CASE NoType
  BY <1>9 DEF NoType
<1> QED
  BY <1>1, <1>2, <1>3, <1>4, <1>5, <1>6, <1>7, <1>8, <1>9 DEF packetProc

\* A step by which the thread goes on is not one of NoType.
LEMMA NotNoType ==
  ASSUME pc' = "pop"
  PROVE  ~ NoType
BY DEF NoType, Stop

LEMMA PlayerBecomes ==
  ASSUME PlayerMap, NEW s \in Players, NEW p \in Player, mPlayerMap' = [mPlayerMap EXCEPT ![s] = p]
  PROVE  /\ mPlayerMap'[s] = p
         /\ Base(s)' = p.SeqNumber /\ (Auth(s)' <=> p.bAuth) /\ Token(s)' = p.tokenKey
<1>1. Players' = Players \cup {s} /\ s \in Sessions
  BY UpdatedPlayers DEF Updated, Players
<1>2. mPlayerMap'[s] = p
  BY <1>1 DEF PlayerMap
<1> QED
  BY <1>1, <1>2 DEF Base, Auth, Token

LEMMA ChatsAppend ==
  ASSUME NEW q \in Seq(ServerMessages), NEW m \in ServerMessages, m.type = "SC_CHAT"
  PROVE  /\ Chats(q) => Chats(Append(q, m))
         /\ Len(q) > 0 => /\ Append(q, m)[1] = q[1] /\ Len(Append(q, m)) > 0
                          /\ Chats(Tail(q)) => Chats(Tail(Append(q, m)))
<1>1. Append(q, m) \in Seq(ServerMessages) /\ Len(Append(q, m)) = Len(q) + 1 /\ Len(q) \in Nat
  OBVIOUS
<1>2. \A i \in 1 .. Len(q) + 1 : Append(q, m)[i] = IF i = Len(q) + 1 THEN m ELSE q[i]
  OBVIOUS
<1>3. Chats(q) => Chats(Append(q, m))
  BY <1>1, <1>2 DEF Chats
<1>4. ASSUME Len(q) > 0, Chats(Tail(q)) PROVE Chats(Tail(Append(q, m)))
  <2>1. Len(Tail(q)) = Len(q) - 1 /\ \A i \in 1 .. Len(q) - 1 : Tail(q)[i] = q[i + 1]
    BY <1>4
  <2>2. /\ Len(Tail(Append(q, m))) = Len(q)
        /\ \A i \in 1 .. Len(q) : Tail(Append(q, m))[i] = Append(q, m)[i + 1]
    BY <1>1, <1>4
  <2>3. ASSUME NEW i \in 1 .. Len(q) PROVE Append(q, m)[i + 1].type = "SC_CHAT"
    <3>1. CASE i = Len(q)
      BY <1>1, <1>2, <3>1
    <3>2. CASE i # Len(q)
      <4>1. i \in 1 .. Len(q) - 1 /\ i + 1 \in 1 .. Len(q) + 1 /\ i + 1 # Len(q) + 1
        BY <1>1, <3>2
      <4> QED
        BY <1>2, <1>4, <2>1, <4>1 DEF Chats
    <3> QED
      BY <3>1, <3>2
  <2> QED
    BY <2>2, <2>3 DEF Chats
<1> QED
  BY <1>1, <1>2, <1>3, <1>4

\* A chat message arrives at a session that is in a sector.
Hears(s) == \E m \in ServerMessages : m.type = "SC_CHAT" /\ sendQ'[s] = Append(sendQ[s], m)

LEMMA TalkHears ==
  ASSUME TypeOK, NEW s \in Sessions, Talk(s), Auth(s), Hears(s), SameInbox(s), SameKnown(s),
         client'[s] = client[s]
  PROVE  Talk(s)'
<1> USE DEF SameInbox, SameKnown
<1>1. PICK m \in ServerMessages : m.type = "SC_CHAT" /\ sendQ'[s] = Append(sendQ[s], m)
  BY DEF Hears
<1>2. sendQ[s] \in Seq(ServerMessages)
  BY TypeParts DEF Sends
<1>3. CASE Entered(s)
  <2>1. Entered(s)'
    BY <1>1, <1>2, <1>3, ChatsAppend DEF Entered
  <2> QED
    BY <2>1 DEF Talk
<1>4. CASE Inside(s)
  <2>1. PICK way \in Way(s) : Leads(s, way)
    BY <1>4 DEF Inside
  <2>2. way \in Way(s)' /\ Leads(s, way)'
    BY <1>4, <2>1 DEF Way, Leads, Inside
  <2>3. Chats(sendQ'[s])
    BY <1>1, <1>2, <1>4, ChatsAppend DEF Inside
  <2>4. Inside(s)'
    BY <1>4, <2>2, <2>3 DEF Inside, Chats
  <2> QED
    BY <2>4 DEF Talk
<1> QED
  BY <1>3, <1>4 DEF Talk, Idle, Asked, LoggedIn, Refused

\* A handler does to another session no more than send it a chat message.
LEMMA OthersUntouched ==
  ASSUME Ready, packetProc, NEW s \in Sessions, s # msg.owner
  PROVE  /\ mPlayerMap'[s] = mPlayerMap[s]
         /\ sendQ'[s] = sendQ[s] \/ (conn[s] = "open" /\ Auth(s) /\ Hears(s))
         /\ s \in disconnected' => s \in disconnected
<1> USE ReadyFacts DEF Stop, Done, Refuse, contents, PlayerMap, disconnectSession
<1>1. CASE chatPlayerAlloc
  BY <1>1 DEF chatPlayerAlloc
<1>2. CASE chatPlayerDelete
  BY <1>2 DEF chatPlayerDelete
<1>3. CASE NotValid
  BY <1>3 DEF NotValid
<1>4. CASE loginProc
  BY <1>4 DEF loginProc, sendPost
<1>5. CASE authProc
  BY <1>5 DEF authProc, sendPost, WrongSize
<1>6. CASE moveSectorProc
  BY <1>6 DEF moveSectorProc
<1>7. CASE chatMessageProc
  <2> DEFINE near == UNION {mSectors[q] : q \in Around(mPlayerMap[msg.owner].sector)}
  <2>1. CASE pc' = "stopped" \/ Refuse
    BY <2>1, StopLeaves
  <2>2. CASE ~ (pc' = "stopped" \/ Refuse)
    <3>1. /\ mPlayerMap' = [mPlayerMap EXCEPT ![msg.owner] = Counted]
          /\ sendPost(near, ServerMessage("SC_CHAT", 0, Outside))
          /\ disconnected' = disconnected
      BY <1>7, <2>2 DEF chatMessageProc
    <3>2. \A t \in near : t \in Players /\ mPlayerMap[t].bAuth
      BY DEF Around
    <3>3. ServerMessage("SC_CHAT", 0, Outside) \in ServerMessages
          /\ ServerMessage("SC_CHAT", 0, Outside).type = "SC_CHAT"
      BY DEF ServerMessage, ServerMessages, ServerTypes
    <3>4. sendQ'[s] = IF s \in near /\ conn[s] = "open"
                        THEN Append(sendQ[s], ServerMessage("SC_CHAT", 0, Outside)) ELSE sendQ[s]
      BY <3>1 DEF sendPost
    <3>5. s \in near /\ conn[s] = "open" => Auth(s) /\ Hears(s)
      BY <3>2, <3>3, <3>4 DEF Auth, Hears
    <3> QED
      BY <3>1, <3>4, <3>5
  <2> QED
    BY <2>1, <2>2
<1>8. CASE UnknownType
  BY <1>8 DEF UnknownType
<1>9. CASE NoType
  BY <1>9 DEF NoType
<1> QED
  BY <1>1, <1>2, <1>3, <1>4, <1>5, <1>6, <1>7, <1>8, <1>9 DEF packetProc

\* The messages of other sessions leave a dialogue as it is.
LEMMA OthersDialogue ==
  ASSUME Ready, packetProc, NEW s \in Sessions, s # msg.owner, Dialogue(s)
  PROVE  Dialogue(s)'
<1>1. Handled /\ TypeOK /\ pc = "packetProc"
  BY AllHandle DEF Ready
<1>2. client' = client /\ conn' = conn /\ UNCHANGED <<mContentsQ, msg>>
  BY <1>1 DEF Handled, Elsewhere, queue
<1>3. SameInbox(s)
  <2>1. CASE pc' = "pop"
    BY <1>1, <1>2, <2>1, InboxDone
  <2>2. CASE pc' = "stopped"
    BY <1>1, <1>2, <2>2, InboxSame DEF Holds
  <2> QED
    BY <1>1, <2>1, <2>2 DEF Handled
<1>4. SameKnown(s)
  BY OthersUntouched, KnownSame
<1>5. CASE sendQ'[s] = sendQ[s]
  BY <1>2, <1>3, <1>4, <1>5, DialogueSame
<1>6. CASE conn[s] = "open" /\ Auth(s) /\ Hears(s)
  <2>1. Talk(s)' /\ Sorted(s)'
    BY <1>1, <1>2, <1>3, <1>4, <1>6, TalkHears DEF Dialogue, SameInbox
  <2> QED
    BY <1>2, <1>6, <2>1 DEF Dialogue
<1> QED
  BY <1>5, <1>6, OthersUntouched

\* sendPost and disconnectSession do nothing for a session that was released.
LEMMA ReleasedSilent ==
  ASSUME Ready, packetProc, NEW s \in Sessions, conn[s] # "open"
  PROVE  sendQ'[s] = sendQ[s] /\ (s \in disconnected' => s \in disconnected)
<1> USE DEF Stop, Refuse, disconnectSession, sendPost
<1>1. CASE chatPlayerAlloc
  BY <1>1 DEF chatPlayerAlloc
<1>2. CASE chatPlayerDelete
  BY <1>2 DEF chatPlayerDelete
<1>3. CASE NotValid
  BY <1>3 DEF NotValid
<1>4. CASE loginProc
  BY <1>4 DEF loginProc
<1>5. CASE authProc
  BY <1>5 DEF authProc
<1>6. CASE moveSectorProc
  BY <1>6 DEF moveSectorProc
<1>7. CASE chatMessageProc
  BY <1>7 DEF chatMessageProc
<1>8. CASE UnknownType
  BY <1>8 DEF UnknownType
<1>9. CASE NoType
  BY <1>9 DEF NoType
<1> QED
  BY <1>1, <1>2, <1>3, <1>4, <1>5, <1>6, <1>7, <1>8, <1>9 DEF packetProc

\* A disconnect the client has to expect: Redis had no token, or another's.
Expected(s) ==
  s \in disconnected' /\ s \notin disconnected =>
    mPlayerMap[s] # NoPlayer /\ mPlayerMap[s].tokenKey # "own"

\* The handler of the session's own packet, the session being open
Own(s) ==
  /\ s \in Honest
  /\ Ready /\ packetProc /\ pc' = "pop" /\ s = msg.owner /\ conn[s] = "open"
  /\ msg.type \notin {"ALLOC", "DELETE"} /\ Sorted(s)

LEMMA OwnFacts ==
  ASSUME NEW s \in Sessions, Own(s)
  PROVE  /\ s \in Players /\ mPlayerMap[s] \in Player /\ PlayerMap /\ Sends
         /\ mPlayerMap[s] # NoPlayer
         /\ Base(s) = mPlayerMap[s].SeqNumber /\ Base(s) \in Int
         /\ (Auth(s) <=> mPlayerMap[s].bAuth) /\ Token(s) = mPlayerMap[s].tokenKey
         /\ client' = client /\ conn' = conn
         /\ msg \in Inbox(s) /\ Inbox(s)' = Inbox(s) \ {msg} /\ Sorted(s)'
         /\ \A k \in Inbox(s)' : msg.seq < k.seq
<1>1. Ready /\ packetProc /\ msg.type # "ALLOC" /\ s = msg.owner /\ s \in Honest
  BY DEF Own
<1>2. s \in Players /\ mPlayerMap[s] \in Player /\ PlayerMap /\ Sends
  BY <1>1, ReadyFacts, Found, PlayerIs DEF Ready, Holds
<1>3. client' = client /\ conn' = conn /\ UNCHANGED <<mContentsQ, msg>>
  BY <1>1, AllHandle DEF Handled, Elsewhere, queue
<1>4. TypeOK /\ pc = "packetProc"
  BY <1>1 DEF Ready
<1>5. msg \in Inbox(s) /\ Inbox(s)' = Inbox(s) \ {msg} /\ Sorted(s)'
      /\ \A k \in Inbox(s)' : msg.seq < k.seq
  BY <1>3, <1>4, InboxDone DEF Own
<1> QED
  BY <1>2, <1>3, <1>5, NoPlayerAssumption DEF Base, Auth, Token, Player

\* The login or the authentication is refused: the client hears no more.
LEMMA RefusedTalks ==
  ASSUME NEW s \in Sessions, Own(s), Asked(s), Refuse
  PROVE  Talk(s)'
<1>1. /\ mPlayerMap' = [mPlayerMap EXCEPT ![s] = Counted] /\ sendQ' = sendQ
      /\ Counted \in Player /\ (Counted.bAuth <=> mPlayerMap[s].bAuth)
  BY CountedPlayer, OwnFacts DEF Refuse, Own
<1>2. ~ Auth(s)'
  BY <1>1, OwnFacts, PlayerBecomes DEF Asked
<1>3. Inbox(s)' = {}
  BY OwnFacts DEF Asked
<1>4. Refused(s)'
  BY <1>1, <1>2, <1>3, OwnFacts DEF Asked, Refused
<1> QED
  BY <1>4 DEF Talk

LEMMA AskedDialogue ==
  ASSUME NEW s \in Sessions, Own(s), Asked(s)
  PROVE  Talk(s)' /\ Expected(s)
<1>1. PICK m \in Inbox(s) :
        /\ Inbox(s) = {m} /\ m.seq = Base(s)
        /\ IF client[s].phase = "login" THEN m.type = "CS_LOGIN"
                                        ELSE m.type = "CS_AUTH" /\ m.token = "own"
  BY DEF Asked
<1>2. msg = m /\ Inbox(s)' = {}
  BY <1>1, OwnFacts
<1>3. /\ client[s].phase \in {"login", "auth"} /\ sendQ[s] = <<>> /\ ~ mPlayerMap[s].bAuth
      /\ client[s].phase = "login" => mPlayerMap[s].tokenKey = "none"
  BY OwnFacts DEF Asked
<1>4. ~ NotValid /\ ~ NoType /\ s = msg.owner
  BY <1>1, <1>2, OwnFacts, NotNoType DEF NotValid, Own, Stop
<1>5. ASSUME client[s].phase = "login" PROVE Talk(s)' /\ Expected(s)
  <2>1. loginProc
    BY <1>1, <1>2, <1>4, <1>5 DEF Own, packetProc, chatPlayerAlloc, chatPlayerDelete, authProc,
       moveSectorProc, chatMessageProc, UnknownType, Accepts, Handles, HasType
  <2>2. CASE Refuse
    BY <1>3, <1>5, <2>2, RefusedTalks, OwnFacts DEF Expected
  <2>3. ASSUME NEW k \in {"own", "other"}, NEW n \in RandomSeqs,
               mPlayerMap' = [mPlayerMap EXCEPT ![s] = [@ EXCEPT !.tokenKey = k, !.SeqNumber = n]],
               sendPost({s}, ServerMessage("SC_LOGIN", n, Outside)), disconnected' = disconnected
        PROVE  Talk(s)' /\ Expected(s)
    <3>1. PICK p : p = [mPlayerMap[s] EXCEPT !.tokenKey = k, !.SeqNumber = n]
      OBVIOUS
    <3>2. p \in Player /\ ~ p.bAuth /\ p.SeqNumber = n
      <4>1. mPlayerMap[s] \in Player /\ n \in Int /\ k \in Tokens
        BY OwnFacts, ChattingServerAssumption DEF Tokens
      <4>2. p \in Player /\ p.bAuth = mPlayerMap[s].bAuth /\ p.SeqNumber = n
        BY <3>1, <4>1 DEF Player
      <4> QED
        BY <1>3, <4>2
    <3>3. Base(s)' = n /\ ~ Auth(s)'
      <4>1. mPlayerMap' = [mPlayerMap EXCEPT ![s] = p]
        BY <2>3, <3>1
      <4> QED
        BY <3>2, <4>1, OwnFacts, PlayerBecomes
    <3>4. sendQ'[s] = <<ServerMessage("SC_LOGIN", n, Outside)>>
      <4>1. sendQ'[s] = Append(sendQ[s], ServerMessage("SC_LOGIN", n, Outside))
        BY <2>3 DEF sendPost, Own
      <4> QED
        BY <1>3, <4>1
    <3>5. Len(sendQ'[s]) = 1 /\ sendQ'[s][1].type = "SC_LOGIN" /\ sendQ'[s][1].seq = n
      BY <3>4 DEF ServerMessage
    <3>6. LoggedIn(s)'
      BY <1>2, <1>5, <3>3, <3>5, OwnFacts DEF LoggedIn
    <3> QED
      BY <2>3, <3>6 DEF Talk, Expected
  <2> QED
    BY <1>4, <2>1, <2>2, <2>3 DEF loginProc, Own, Stop, WrongSize
<1>6. ASSUME client[s].phase = "auth" PROVE Talk(s)' /\ Expected(s)
  <2>1. authProc /\ msg.token = "own"
    BY <1>1, <1>2, <1>4, <1>6 DEF Own, packetProc, chatPlayerAlloc, chatPlayerDelete, loginProc,
       moveSectorProc, chatMessageProc, UnknownType, Accepts, Handles, HasType
  <2>2. CASE mPlayerMap[s].tokenKey # "own"
    <3>1. Refuse
      BY <1>3, <1>4, <2>1, <2>2 DEF authProc, Own, Stop
    <3> QED
      BY <2>2, <3>1, RefusedTalks, OwnFacts DEF Expected
  <2>3. CASE mPlayerMap[s].tokenKey = "own"
    <3>1. PICK p \in Sectors :
            /\ mPlayerMap' = [mPlayerMap EXCEPT ![s] = [Counted EXCEPT !.bAuth = TRUE, !.sector = p]]
            /\ sendPost({s}, ServerMessage("SC_AUTH", 0, p))
            /\ disconnected' = disconnected
      BY <1>3, <1>4, <2>1, <2>3 DEF authProc, Own, Stop
    <3>2. PICK a : a = [Counted EXCEPT !.bAuth = TRUE, !.sector = p]
      OBVIOUS
    <3>3. Counted = [mPlayerMap[s] EXCEPT !.SeqNumber = @ + 1]
      BY <1>4 DEF Counted
    <3>4. a \in Player /\ a.bAuth /\ a.sector = p /\ a.SeqNumber = Base(s) + 1
      <4>1. mPlayerMap[s] \in Player /\ Base(s) = mPlayerMap[s].SeqNumber
        BY OwnFacts
      <4>2. a = [mPlayerMap[s] EXCEPT !.SeqNumber = @ + 1, !.bAuth = TRUE, !.sector = p]
        BY <3>2, <3>3, <4>1 DEF Player
      <4>3. a = [SeqNumber |-> Base(s) + 1, tokenKey |-> mPlayerMap[s].tokenKey, bAuth |-> TRUE,
                 sector |-> p]
        BY <4>1, <4>2 DEF Player
      <4>4. Base(s) + 1 \in Int /\ mPlayerMap[s].tokenKey \in Tokens
        BY <4>1 DEF Player
      <4> QED
        BY <4>3, <4>4 DEF Player
    <3>5. mPlayerMap'[s].sector = p /\ Base(s)' = Base(s) + 1 /\ Auth(s)'
      <4>1. mPlayerMap' = [mPlayerMap EXCEPT ![s] = a]
        BY <3>1, <3>2
      <4> QED
        BY <3>4, <4>1, OwnFacts, PlayerBecomes
    <3>6. sendQ'[s] = <<ServerMessage("SC_AUTH", 0, p)>>
      <4>1. sendQ'[s] = Append(sendQ[s], ServerMessage("SC_AUTH", 0, p))
        BY <3>1 DEF sendPost, Own
      <4> QED
        BY <1>3, <4>1
    <3>7. /\ Len(sendQ'[s]) = 1 /\ sendQ'[s][1].type = "SC_AUTH" /\ sendQ'[s][1].sector = p
          /\ Tail(sendQ'[s]) = <<>>
      BY <3>6 DEF ServerMessage
    <3>8. client'[s].phase = "auth" /\ client'[s].seq = Base(s)'
      BY <1>6, <3>5, OwnFacts DEF Asked
    <3>9. Entered(s)'
      BY <1>2, <3>5, <3>7, <3>8 DEF Entered, Chats
    <3> QED
      BY <3>1, <3>9 DEF Talk, Expected
  <2> QED
    BY <2>2, <2>3
<1> QED
  BY <1>3, <1>5, <1>6

\* The next packet of a client that is in: it is the one expected.
LEMMA InsideNext ==
  ASSUME NEW s \in Sessions, Own(s), Inside(s), NEW way \in Way(s), Leads(s, way)
  PROVE  /\ msg.seq = Base(s) /\ Base(s) + 1 <= client[s].seq /\ client[s].seq \in Int
         /\ Steps(msg, mPlayerMap[s].sector, way[Base(s) + 1]) /\ way[Base(s) + 1] \in Sectors
<1>1. client[s].seq \in Int /\ Base(s) \in Int /\ msg \in Inbox(s)
  BY OwnFacts DEF Own, Ready, TypeOK
<1>2. msg.seq \in Base(s) .. client[s].seq - 1 /\ Steps(msg, way[msg.seq], way[msg.seq + 1])
  BY <1>1 DEF Leads
<1>3. PICK k \in Inbox(s) : k.seq = Base(s)
  BY <1>1, <1>2 DEF Leads
<1>4. k = msg
  <2>1. k # msg => k \in Inbox(s)' /\ msg.seq < k.seq
    BY <1>3, OwnFacts
  <2> QED
    BY <1>1, <1>2, <1>3, <2>1
<1>5. way[Base(s)] = mPlayerMap[s].sector
  BY DEF Leads
<1>6. Base(s) + 1 \in Base(s) .. client[s].seq
  BY <1>1, <1>2
<1>7. way[Base(s) + 1] \in Sectors
  BY <1>6 DEF Way
<1> QED
  BY <1>1, <1>2, <1>3, <1>4, <1>5, <1>6, <1>7

\* It is handled: the rest of the packets lead on from where the player is now.
LEMMA InsideMoves ==
  ASSUME NEW s \in Sessions, Own(s), Inside(s), NEW way \in Way(s), Leads(s, way),
         NEW a \in Player, mPlayerMap' = [mPlayerMap EXCEPT ![s] = a], a.bAuth,
         a.SeqNumber = Base(s) + 1, a.sector = way[Base(s) + 1], Chats(sendQ'[s])
  PROVE  Talk(s)'
<1> DEFINE n == client[s].seq
<1>1. PICK b : b = Base(s)
  OBVIOUS
<1>2. msg.seq = b /\ b \in Int /\ n \in Int /\ b + 1 <= n
  BY <1>1, InsideNext, OwnFacts
<1>3. Base(s)' = b + 1 /\ Auth(s)' /\ mPlayerMap'[s] = a /\ client'[s] = client[s]
  BY <1>1, OwnFacts, PlayerBecomes
<1>4. PICK on : on = [j \in b + 1 .. n |-> way[j]]
  OBVIOUS
<1>5. way \in [b .. n -> Sectors] /\ \A j \in b + 1 .. n : j \in b .. n
  BY <1>1, <1>2 DEF Way
<1>6. on \in [b + 1 .. n -> Sectors] /\ \A j \in b + 1 .. n : on[j] = way[j]
  BY <1>4, <1>5
<1>7. ASSUME NEW k \in Inbox(s)' PROVE k.seq \in b + 1 .. n - 1 /\ Steps(k, on[k.seq], on[k.seq + 1])
  <2>1. k \in Inbox(s) /\ b < k.seq
    BY <1>2, OwnFacts
  <2>2. k.seq \in b .. n - 1 /\ Steps(k, way[k.seq], way[k.seq + 1])
    BY <1>1, <2>1 DEF Leads
  <2>3. k.seq \in b + 1 .. n - 1 /\ k.seq \in b + 1 .. n /\ k.seq + 1 \in b + 1 .. n
    BY <1>2, <2>1, <2>2
  <2> QED
    BY <1>6, <2>2, <2>3
<1>8. ASSUME NEW j \in b + 1 .. n - 1 PROVE \E k \in Inbox(s)' : k.seq = j
  <2>1. j \in b .. n - 1 /\ j # b
    BY <1>2
  <2>2. PICK k \in Inbox(s) : k.seq = j
    BY <1>1, <2>1 DEF Leads
  <2> QED
    BY <1>2, <2>1, <2>2, OwnFacts
<1>9. on[b + 1] = way[b + 1] /\ on[n] = way[n] /\ way[n] = client[s].sector
  BY <1>1, <1>2, <1>6 DEF Leads
<1> HIDE DEF n
<1>n. client[s].seq = n
  BY DEF n
<1>10. on \in Way(s)'
  BY <1>3, <1>6, <1>n DEF Way
<1>11. Leads(s, on)'
  BY <1>1, <1>3, <1>7, <1>8, <1>9, <1>n DEF Leads
<1>12. Inside(s)'
  <2>1. client[s].phase' = "in" /\ Base(s)' <= client[s].seq' /\ Chats(sendQ[s])'
    BY <1>2, <1>3, <1>n DEF Inside, Chats
  <2> QED
    BY <1>3, <1>10, <1>11, <2>1 DEF Inside
<1> QED
  BY <1>12 DEF Talk

LEMMA InsideDialogue ==
  ASSUME NEW s \in Sessions, Own(s), Inside(s)
  PROVE  Talk(s)' /\ Expected(s)
<1>1. PICK way \in Way(s) : Leads(s, way)
  BY DEF Inside
<1>2. PICK q : q = way[Base(s) + 1]
  OBVIOUS
<1>3. /\ msg.seq = mPlayerMap[s].SeqNumber /\ Steps(msg, mPlayerMap[s].sector, q) /\ q \in Sectors
      /\ mPlayerMap[s].bAuth /\ Chats(sendQ[s]) /\ s = msg.owner
  BY <1>1, <1>2, InsideNext, OwnFacts DEF Inside, Own
<1>4. ~ NotValid /\ ~ NoType
  BY <1>3, OwnFacts, NotNoType DEF NotValid, Own, Stop
<1>5. PICK c : c = Counted
  OBVIOUS
<1>6. c \in Player /\ c.bAuth /\ c.sector = mPlayerMap[s].sector /\ c.SeqNumber = Base(s) + 1
  <2>1. c = [mPlayerMap[s] EXCEPT !.SeqNumber = @ + 1]
    BY <1>3, <1>5 DEF Counted
  <2>2. mPlayerMap[s] \in Player /\ Base(s) = mPlayerMap[s].SeqNumber
    BY OwnFacts
  <2>3. c \in Player /\ c.sector = mPlayerMap[s].sector /\ c.bAuth = mPlayerMap[s].bAuth
        /\ c.SeqNumber = Base(s) + 1
    BY <2>1, <2>2 DEF Player
  <2> QED
    BY <1>3, <2>3
<1>7. ASSUME msg.type = "CS_MOVE" PROVE Talk(s)' /\ Expected(s)
  <2>1. moveSectorProc
    BY <1>4, <1>7 DEF Own, packetProc, chatPlayerAlloc, chatPlayerDelete, loginProc, authProc,
       chatMessageProc, UnknownType, Accepts, Handles, HasType
  <2>2. IsMove(mPlayerMap[s].sector, msg.sector) /\ q = msg.sector
    BY <1>3, <1>7 DEF Steps, IsMove
  <2>3. /\ mPlayerMap' = [mPlayerMap EXCEPT ![s] = [Counted EXCEPT !.sector = msg.sector]]
        /\ disconnected' = disconnected /\ sendQ' = sendQ
    BY <1>3, <2>1, <2>2 DEF moveSectorProc, Own, Stop
  <2>4. PICK a : a = [c EXCEPT !.sector = q]
    OBVIOUS
  <2>5. a \in Player /\ a.bAuth = c.bAuth /\ a.sector = q /\ a.SeqNumber = c.SeqNumber
    BY <1>3, <1>6, <2>4 DEF Player
  <2>6. mPlayerMap' = [mPlayerMap EXCEPT ![s] = a] /\ a.bAuth /\ a.SeqNumber = Base(s) + 1
    BY <1>5, <1>6, <2>2, <2>3, <2>4, <2>5
  <2>7. Chats(sendQ'[s])
    BY <1>3, <2>3
  <2>8. Talk(s)'
    BY <1>1, <1>2, <2>5, <2>6, <2>7, InsideMoves
  <2> QED
    BY <2>3, <2>8 DEF Expected
<1>8. ASSUME msg.type = "CS_CHAT" PROVE Talk(s)' /\ Expected(s)
  <2> DEFINE near == UNION {mSectors[r] : r \in Around(mPlayerMap[s].sector)}
             m    == ServerMessage("SC_CHAT", 0, Outside)
  <2>1. chatMessageProc
    BY <1>4, <1>8 DEF Own, packetProc, chatPlayerAlloc, chatPlayerDelete, loginProc, authProc,
       moveSectorProc, UnknownType, Accepts, Handles, HasType
  <2>2. msg.fits /\ q = mPlayerMap[s].sector
    BY <1>3, <1>8 DEF Steps
  <2>3. mPlayerMap' = [mPlayerMap EXCEPT ![s] = Counted] /\ sendPost(near, m)
        /\ disconnected' = disconnected
    BY <1>3, <2>1, <2>2 DEF chatMessageProc, Own, Stop
  <2>4. m \in ServerMessages /\ m.type = "SC_CHAT" /\ sendQ[s] \in Seq(ServerMessages)
    <3>1. m \in ServerMessages /\ m.type = "SC_CHAT"
      BY DEF ServerMessage, ServerMessages, ServerTypes
    <3>2. sendQ[s] \in Seq(ServerMessages)
      BY OwnFacts DEF Sends
    <3> QED
      BY <3>1, <3>2
  <2>5. sendQ'[s] = sendQ[s] \/ sendQ'[s] = Append(sendQ[s], m)
    BY <2>3 DEF sendPost
  <2> HIDE DEF near, m
  <2>6. Chats(sendQ'[s])
    BY <1>3, <2>4, <2>5, ChatsAppend
  <2>7. mPlayerMap' = [mPlayerMap EXCEPT ![s] = c]
    BY <1>5, <2>3
  <2>8. Talk(s)'
    BY <1>1, <1>2, <1>6, <2>2, <2>6, <2>7, InsideMoves
  <2> QED
    BY <2>3, <2>8 DEF Expected
<1> QED
  BY <1>3, <1>7, <1>8 DEF Steps

\* Only its CS_AUTH authenticates a player.
LEMMA AuthBy ==
  ASSUME Ready, packetProc, NEW s \in Sessions, Auth(s)'
  PROVE  Auth(s) \/ (s = msg.owner /\ msg.type = "CS_AUTH")
<1> USE DEF Done, contents
<1>r. PlayerMap
  BY ReadyFacts
<1>1. CASE mPlayerMap'[s] = mPlayerMap[s]
  BY <1>1 DEF Auth, Players
<1>2. CASE s # msg.owner
  BY <1>1, <1>2, OthersUntouched
<1> SUFFICES ASSUME s = msg.owner, mPlayerMap'[s] # mPlayerMap[s], ~ Auth(s)
             PROVE  msg.type = "CS_AUTH"
  BY <1>1, <1>2
<1>3. CASE pc' = "stopped"
  BY <1>3, StopLeaves
<1>4. ASSUME s \in Players, NEW p \in Player, mPlayerMap' = [mPlayerMap EXCEPT ![s] = p],
             p.bAuth = mPlayerMap[s].bAuth
      PROVE  FALSE
  BY <1>4, <1>r, PlayerBecomes DEF Auth
<1>5. CASE s \in Players /\ mPlayerMap' = [mPlayerMap EXCEPT ![s] = Counted]
  BY <1>4, <1>5, CountedPlayer
<1>6. CASE chatPlayerAlloc
  <2>1. mPlayerMap' = [mPlayerMap EXCEPT ![s] = NewPlayer]
    BY <1>3, <1>6 DEF chatPlayerAlloc, Stop
  <2> QED
    BY <1>r, <2>1 DEF Auth, PlayerMap, NewPlayer
<1>7. CASE chatPlayerDelete
  <2>1. mPlayerMap' = [mPlayerMap EXCEPT ![s] = NoPlayer]
    BY <1>3, <1>7 DEF chatPlayerDelete, Stop
  <2> QED
    BY <1>r, <2>1 DEF Auth, Players, PlayerMap
<1>8. CASE NotValid
  BY <1>3, <1>5, <1>8 DEF NotValid, Stop
<1>9. CASE loginProc
  <2>1. s \in Players /\ mPlayerMap[s] \in Player
    BY <1>9, <1>r, PlayerIs DEF loginProc, Accepts
  <2>2. CASE Refuse
    BY <1>5, <2>1, <2>2 DEF Refuse
  <2>3. ASSUME NEW k \in {"own", "other"}, NEW n \in RandomSeqs,
               mPlayerMap' = [mPlayerMap EXCEPT ![s] = [@ EXCEPT !.tokenKey = k, !.SeqNumber = n]]
        PROVE  FALSE
    <3>1. PICK p : p = [mPlayerMap[s] EXCEPT !.tokenKey = k, !.SeqNumber = n]
      OBVIOUS
    <3>2. n \in Int /\ k \in Tokens
      BY ChattingServerAssumption DEF Tokens
    <3>3. p \in Player /\ p.bAuth = mPlayerMap[s].bAuth
      BY <2>1, <3>1, <3>2 DEF Player
    <3>4. mPlayerMap' = [mPlayerMap EXCEPT ![s] = p]
      BY <2>3, <3>1
    <3> QED
      BY <1>4, <2>1, <3>3, <3>4
  <2> QED
    BY <1>3, <1>9, <2>2, <2>3 DEF loginProc, Stop, WrongSize
<1>10. CASE authProc
  BY <1>10 DEF authProc, Accepts, Handles
<1>11. CASE moveSectorProc
  <2>1. s \in Players /\ mPlayerMap[s] \in Player
    BY <1>11, <1>r, PlayerIs DEF moveSectorProc, Accepts
  <2>2. ~ mPlayerMap[s].bAuth
    BY <2>1 DEF Auth
  <2> QED
    BY <1>5, <1>11, <2>1, <2>2 DEF moveSectorProc, Refuse
<1>12. CASE chatMessageProc
  <2>1. s \in Players /\ mPlayerMap[s] \in Player
    BY <1>12, <1>r, PlayerIs DEF chatMessageProc, Accepts
  <2>2. ~ mPlayerMap[s].bAuth
    BY <2>1 DEF Auth
  <2> QED
    BY <1>5, <1>12, <2>1, <2>2 DEF chatMessageProc, Refuse
<1>13. CASE UnknownType \/ NoType
  BY <1>3, <1>13 DEF UnknownType, NoType, Stop
<1> QED
  BY <1>6, <1>7, <1>8, <1>9, <1>10, <1>11, <1>12, <1>13 DEF packetProc

\* The packets of a session that was released are handled like any other.
LEMMA ReleasedDialogue ==
  ASSUME Ready, packetProc, NEW s \in Sessions, Dialogue(s), s = msg.owner, conn[s] # "open",
         pc' = "pop"
  PROVE  Dialogue(s)' /\ Expected(s)
<1>1. Handled /\ TypeOK /\ pc = "packetProc"
  BY AllHandle DEF Ready
<1>2. client' = client /\ conn' = conn /\ UNCHANGED <<mContentsQ, msg>>
  BY <1>1 DEF Handled, Elsewhere, queue
<1>3. sendQ'[s] = sendQ[s] /\ (s \in disconnected' => s \in disconnected)
  BY ReleasedSilent
<1>4. ASSUME conn[s] = "released" PROVE Sorted(s)' /\ AsksOnce(s)'
  <2>1. Sorted(s) /\ AsksOnce(s)
    BY <1>4 DEF Dialogue
  <2>2. CASE msg.type \in {"ALLOC", "DELETE"}
    <3>1. SameInbox(s)
      BY <1>1, <1>2, <2>2, InboxDone
    <3>2. Auth(s)' => Auth(s)
      BY <2>2, AuthBy
    <3> QED
      BY <2>1, <3>1, <3>2 DEF SameInbox, AsksOnce
  <2>3. CASE msg.type \notin {"ALLOC", "DELETE"}
    <3>1. msg \in Inbox(s) /\ Inbox(s)' = Inbox(s) \ {msg} /\ Sorted(s)'
      BY <1>1, <1>2, <2>1, <2>3, InboxDone
    <3> QED
      BY <2>1, <3>1 DEF AsksOnce
  <2> QED
    BY <2>2, <2>3
<1> QED
  BY <1>2, <1>3, <1>4 DEF Dialogue, Untouched, Answered, Expected

LEMMA HandlerDialogue ==
  ASSUME Ready, packetProc, NEW s \in Honest, Dialogue(s)
  PROVE  Dialogue(s)' /\ Expected(s)
<1>0. s \in Sessions
  BY ChattingServerAssumption
<1>1. Handled /\ TypeOK /\ Order /\ pc = "packetProc"
  BY AllHandle DEF Ready
<1>2. client' = client /\ conn' = conn /\ UNCHANGED <<mContentsQ, msg>>
  BY <1>1 DEF Handled, Elsewhere, queue
<1>3. CASE s # msg.owner
  BY <1>0, <1>3, OthersDialogue, OthersUntouched DEF Expected
<1>4. CASE pc' = "stopped"
  <2>1. mPlayerMap' = mPlayerMap /\ sendQ' = sendQ /\ disconnected' = disconnected
    BY <1>4, StopLeaves
  <2>2. SameInbox(s) /\ SameKnown(s)
    BY <1>0, <1>1, <1>2, <1>4, <2>1, InboxSame, KnownSame DEF Holds
  <2> QED
    BY <1>2, <2>1, <2>2, DialogueSame DEF Expected
<1>5. CASE s = msg.owner /\ pc' = "pop" /\ conn[s] # "open"
  BY <1>0, <1>5, ReleasedDialogue
<1>6. ASSUME s = msg.owner, pc' = "pop", conn[s] = "open" PROVE Dialogue(s)' /\ Expected(s)
  <2>1. 0 \in Of(s) /\ At(0) = msg
    BY <1>1, <1>6 DEF Of, Pending, At, Holds, TypeOK
  <2>2. msg.type # "DELETE"
    BY <1>1, <1>6, <2>1 DEF Order, Ordered
  <2>3. CASE msg.type = "ALLOC"
    <3>1. chatPlayerAlloc
      BY <1>6, <2>3, NotNoType DEF packetProc, chatPlayerDelete, NotValid, loginProc, authProc, moveSectorProc,
         chatMessageProc, UnknownType, Accepts, Handles, HasType
    <3>2. s \notin Players
      BY <1>1, <1>6, <2>3, Found DEF Holds
    <3>3. mPlayerMap' = [mPlayerMap EXCEPT ![s] = NewPlayer] /\ sendQ' = sendQ
          /\ disconnected' = disconnected
      BY <1>6, <3>1, <3>2 DEF chatPlayerAlloc, Stop
    <3>4. mPlayerMap'[s] = NewPlayer /\ NewPlayer # NoPlayer
      <4>1. NewPlayer \in Player
        BY ChattingServerAssumption DEF NewPlayer, Player, Tokens, Sectors
      <4> QED
        BY <1>0, <3>3, <4>1, ReadyFacts, NoPlayerAssumption DEF PlayerMap
    <3>5. SameKnown(s)
      BY <1>0, <3>2, <3>4 DEF SameKnown, Base, Auth, Token, Players, NewPlayer
    <3>6. SameInbox(s)
      BY <1>1, <1>2, <1>6, <2>3, InboxDone
    <3> QED
      BY <1>2, <3>3, <3>5, <3>6, DialogueSame DEF Expected
  <2>4. CASE msg.type # "ALLOC"
    <3>1. Own(s)
      BY <1>6, <2>2, <2>4 DEF Own, Dialogue
    <3>2. Asked(s) \/ Inside(s)
      BY <1>0, <1>6, <3>1, OwnFacts DEF Dialogue, Talk, Idle, LoggedIn, Refused, Entered
    <3>3. Talk(s)' /\ Expected(s) /\ Sorted(s)'
      BY <1>0, <3>1, <3>2, AskedDialogue, InsideDialogue, OwnFacts
    <3> QED
      BY <1>2, <1>6, <3>3 DEF Dialogue
  <2> QED
    BY <2>3, <2>4
<1> QED
  BY <1>1, <1>3, <1>4, <1>5, <1>6 DEF Handled

Dialogues == \A s \in Honest : Dialogue(s)

LEMMA DialoguesInit == Init => Dialogues
BY ChattingServerAssumption DEF Init, Dialogues, Dialogue, Untouched

\* Every step keeps the dialogues, and disconnects none that need not expect it.
LEMMA DialoguesNext ==
  ASSUME IInv, Dialogues, [Next]_vars
  PROVE  Dialogues' /\ \A s \in Honest : Expected(s)
<1> USE DEF queue, contents, network
<1>t. TypeOK /\ Order /\ Honest \subseteq Sessions
  BY ChattingServerAssumption DEF IInv
<1> SUFFICES ASSUME NEW s \in Honest PROVE Dialogue(s)' /\ Expected(s)
  BY DEF Dialogues
<1>0. s \in Sessions /\ Dialogue(s)
  BY <1>t DEF Dialogues
<1>1. CASE packetProc
  <2>1. Ready
    BY <1>1, StartsReady
  <2> QED
    BY <1>0, <1>1, <2>1, HandlerDialogue
<1>2. ASSUME SameInbox(s), UNCHANGED <<mPlayerMap, client, sendQ, conn, disconnected>>
      PROVE  Dialogue(s)' /\ Expected(s)
  BY <1>0, <1>2, KnownSame, DialogueSame DEF Expected
<1>3. CASE UNCHANGED vars
  BY <1>2, <1>3, InboxSame DEF vars, Holds
<1>4. CASE popContentsQ
  BY <1>2, <1>4, <1>t, InboxPop DEF popContentsQ
<1>5. CASE Wake
  BY <1>2, <1>5, InboxSame DEF Wake, Holds
<1>6. ASSUME NEW w \in Workers, SetEvent(w) PROVE Dialogue(s)' /\ Expected(s)
  BY <1>2, <1>6, InboxSame DEF SetEvent, Holds
<1>7. ASSUME NEW w \in Workers, NEW t \in Sessions, OnAccept(w, t) PROVE Dialogue(s)' /\ Expected(s)
  BY <1>0, <1>7, <1>t, AcceptDialogue DEF OnAccept, Expected
<1>8. ASSUME NEW w \in Workers, NEW t \in Sessions, OnRelease(w, t) PROVE Dialogue(s)' /\ Expected(s)
  BY <1>0, <1>8, <1>t, ReleaseDialogue DEF OnRelease, Expected
<1>9. ASSUME NEW t \in Sessions, HonestSends(t) \/ OtherSends(t) PROVE Dialogue(s)' /\ Expected(s)
  <2>1. disconnected' = disconnected
    BY <1>9, <1>t, HonestPackets, OtherPackets DEF onRecv
  <2>2. CASE t = s
    <3>1. HonestSends(s)
      BY <1>9, <2>2 DEF OtherSends
    <3> QED
      BY <1>0, <1>t, <2>1, <3>1, SendDialogue DEF Expected
  <2>3. CASE t # s
    BY <1>0, <1>9, <1>t, <2>1, <2>3, OtherDialogue DEF Expected
  <2> QED
    BY <2>2, <2>3
<1>10. ASSUME NEW t \in Sessions, ClientReads(t) PROVE Dialogue(s)' /\ Expected(s)
  BY <1>0, <1>10, <1>t, ReadDialogue DEF ClientReads, Expected
<1> QED
  BY <1>1, <1>3, <1>4, <1>5, <1>6, <1>7, <1>8, <1>9, <1>10
     DEF Next, contentsThread, Signalled, TimesOut

-----------------------------------------------------------------------------
(* What stops the server *)

\* The messages of a client that follows the protocol do not stop the thread.
HonestGoesOn == pc = "stopped" => msg.owner \notin Honest

LEMMA GoesOnHandling ==
  ASSUME Ready, packetProc, NEW s \in Honest, Dialogue(s), s = msg.owner
  PROVE  pc' # "stopped"
<1>1. Handled /\ TypeOK /\ Order /\ pc = "packetProc" /\ s \in Sessions
  BY AllHandle, ReadyFacts DEF Ready
<1>2. (msg.type = "ALLOC" <=> s \notin Players) /\ Proper(msg) /\ conn[s] # "none"
  BY <1>1, Found DEF Holds
<1>3. AsksOnce(s)
  BY <1>1, <1>2, TalkAsksOnce DEF Dialogue, TypeOK
<1>4. msg.type = "CS_AUTH" => msg \in Inbox(s)
  <2>1. 0 \in Of(s) /\ At(0) = msg
    BY <1>1 DEF Of, Pending, At, Holds, TypeOK
  <2> QED
    BY <2>1 DEF Inbox, Asking
<1>5. ~ Stops
  BY <1>2, <1>3, <1>4 DEF Stops, AsksOnce, Auth, Proper, WrongSize
<1> QED
  BY <1>1, <1>5 DEF Handled

LEMMA GoesOnNext ==
  ASSUME IInv, Dialogues, HonestGoesOn, [Next]_vars
  PROVE  HonestGoesOn'
<1> USE DEF queue, contents, network
<1>1. CASE packetProc
  <2>1. Ready /\ Handled
    BY <1>1, StartsReady, AllHandle
  <2>2. msg' = msg
    BY <2>1 DEF Handled, Elsewhere
  <2> QED
    BY <1>1, <2>1, <2>2, GoesOnHandling DEF Dialogues, HonestGoesOn
<1>2. ASSUME pc' # "stopped" \/ UNCHANGED <<pc, msg>> PROVE HonestGoesOn'
  BY <1>2 DEF HonestGoesOn
<1>3. CASE UNCHANGED vars
  BY <1>2, <1>3 DEF vars
<1>4. CASE popContentsQ \/ Wake
  BY <1>2, <1>4 DEF popContentsQ, Wake
<1>5. ASSUME NEW w \in Workers, SetEvent(w) PROVE HonestGoesOn'
  BY <1>2, <1>5 DEF SetEvent
<1>6. ASSUME NEW w \in Workers, NEW t \in Sessions, OnAccept(w, t) \/ OnRelease(w, t)
      PROVE  HonestGoesOn'
  BY <1>2, <1>6 DEF OnAccept, OnRelease
<1>7. ASSUME NEW t \in Sessions, HonestSends(t) \/ OtherSends(t) PROVE HonestGoesOn'
  <2>1. PICK m : onRecv(t, m)
    BY <1>7, HonestPackets, OtherPackets DEF IInv
  <2> QED
    BY <1>2, <2>1 DEF onRecv
<1>8. ASSUME NEW t \in Sessions, ClientReads(t) PROVE HonestGoesOn'
  BY <1>2, <1>8 DEF ClientReads
<1> QED
  BY <1>1, <1>3, <1>4, <1>5, <1>6, <1>7, <1>8 DEF Next, contentsThread, Signalled, TimesOut

\* Nothing a client that follows the protocol sends, and no callback of its session,
\* stops the contents thread, though other clients send anything, the server's own
\* message types and packets of any size too; and no assertion about sectors fails.
THEOREM AssertionsHoldAlways == Spec => []AssertionsHold
<1>1. Init => IInv /\ Dialogues /\ HonestGoesOn
  BY InvInit, DialoguesInit DEF Init, HonestGoesOn
<1>2. IInv /\ Dialogues /\ HonestGoesOn /\ [Next]_vars => (IInv /\ Dialogues /\ HonestGoesOn)'
  BY InvNext, DialoguesNext, GoesOnNext
<1>3. IInv /\ Dialogues /\ HonestGoesOn => AssertionsHold
  BY DEF IInv, Stopped, Stops, HonestGoesOn, AssertionsHold
<1> QED
  BY <1>1, <1>2, <1>3, PTL DEF Spec

\* An honest client reads SC_LOGIN, SC_AUTH and chat each in the phase it waits for it,
\* though the packets of other sessions are handled between its own.
THEOREM RepliesInOrderHolds == Spec => []RepliesInOrder
<1>1. Init => IInv /\ Dialogues
  BY InvInit, DialoguesInit
<1>2. IInv /\ Dialogues /\ [Next]_vars => IInv' /\ Dialogues'
  BY InvNext, DialoguesNext
<1>3. IInv /\ Dialogues => RepliesInOrder
  <2> SUFFICES ASSUME IInv, Dialogues, NEW s \in Honest PROVE Answered(s)
    BY DEF RepliesInOrder, Answered
  <2>1. s \in Sessions /\ TypeOK /\ Dialogue(s)
    BY ChattingServerAssumption DEF IInv, Dialogues
  <2>2. conn[s] \in {"none", "open", "released"}
    BY <2>1 DEF TypeOK
  <2> QED
    BY <2>1, <2>2, TalkAnswers DEF Dialogue, Untouched, Answered
<1> QED
  BY <1>1, <1>2, <1>3, PTL DEF Spec

\* An honest client is disconnected only for a login that Redis did not confirm: its
\* numbers, its moves and its texts are never refused.
THEOREM HonestKeptHolds == Spec => HonestKept
<1>1. Init => IInv /\ Dialogues
  BY InvInit, DialoguesInit
<1>2. IInv /\ Dialogues /\ [Next]_vars => IInv' /\ Dialogues'
  BY InvNext, DialoguesNext
<1>3. IInv /\ Dialogues /\ [Next]_vars =>
        [\A s \in Honest \cap (disconnected' \ disconnected) :
           mPlayerMap[s] # NoPlayer /\ mPlayerMap[s].tokenKey # "own"]_vars
  BY DialoguesNext DEF Expected
<1> QED
  BY <1>1, <1>2, <1>3, PTL DEF Spec, HonestKept

=============================================================================
