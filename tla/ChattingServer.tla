--------------------------- MODULE ChattingServer ---------------------------
(***************************************************************************)
(* The chatting server on top of the network library: worker threads turn  *)
(* the library's callbacks into messages of the contents queue, and one    *)
(* contents thread drains the queue and owns the players and the sectors.  *)
(*                                                                         *)
(* Of the library the module uses what NetworkLib establishes: the         *)
(* callbacks of a session do not overlap, onAccept is the first and        *)
(* onRelease the last, and a session that was disconnected is released.    *)
(* The payload of a packet has the layout PacketCommon.h gives it; names,  *)
(* texts, account numbers and the counters of the monitor are left out.    *)
(***************************************************************************)
EXTENDS Integers, Sequences, FiniteSets

CONSTANTS
  Workers,       \* worker threads of the library
  Sessions,      \* session ids, each used once
  Honest,        \* sessions whose client follows the protocol
  SectorsX, SectorsY,   \* the map has 50 x 50 sectors
  FirstSeq,      \* the SeqNumber of a new Player (0xfdfdfdfd)
  RandomSeqs,    \* the numbers loginProc draws
  NoPlayer,      \* not in mPlayerMap
  MaxPackets     \* bound: packets the clients send

ASSUME ChattingServerAssumption ==
  /\ IsFiniteSet(Workers) /\ IsFiniteSet(Sessions)
  /\ Sessions # {} /\ "idle" \notin Sessions
  /\ Honest \subseteq Sessions
  /\ SectorsX \in Nat \ {0} /\ SectorsY \in Nat \ {0}
  /\ FirstSeq \in Nat /\ RandomSeqs \subseteq Nat
  /\ MaxPackets \in Nat

VARIABLES
  mContentsQ, hEchoEvent,
  pc, msg,             \* the contents thread and the message it handles
  mPlayerMap, mSectors, mUserCnt,
  wpc,                 \* [Workers -> Sessions or "idle"]: a worker that has
                       \* pushed a callback's message and not yet set the event
  conn,                \* sessions as the library sees them
  disconnected,        \* sessions disconnectSession was called for
  sendQ,               \* messages sendPost gave the library and not yet read
  client,              \* what each client knows
  nPackets

contents == <<mPlayerMap, mSectors, mUserCnt>>
network  == <<conn, disconnected, sendQ>>
queue    == <<mContentsQ, hEchoEvent>>
vars     == <<queue, pc, msg, contents, wpc, network, client, nPackets>>

Sectors == (0 .. SectorsX - 1) \X (0 .. SectorsY - 1)
Outside == <<-1, -1>>                \* any sector that is not on the map
Tokens  == {"none", "own", "other"}
WrongSeq == -1

Types == {"ALLOC", "DELETE", "CS_LOGIN", "CS_AUTH", "CS_MOVE", "CS_CHAT", "unknown"}

\* How many bytes a packet has: too few to read its type, too few to read its
\* SeqNumber, or another number than the handler of its type reads.
Sizes == {"noType", "noSeq", "wrong", "exact"}

Message == [type : Types, owner : Sessions, seq : Int, token : Tokens,
            sector : Sectors \cup {Outside}, fits : BOOLEAN, size : Sizes]

Internal(ty, s) == [type |-> ty, owner |-> s, seq |-> WrongSeq, token |-> "none",
                    sector |-> Outside, fits |-> TRUE, size |-> "exact"]

Player == [SeqNumber : Int, tokenKey : Tokens, bAuth : BOOLEAN, sector : Sectors]

ASSUME NoPlayerAssumption == NoPlayer \notin Player

NewPlayer == [SeqNumber |-> FirstSeq, tokenKey |-> "none", bAuth |-> FALSE,
              sector |-> <<0, 0>>]

Players == {s \in Sessions : mPlayerMap[s] # NoPlayer}

\* The sectors a chat message reaches from sector p.
Around(p) == {q \in Sectors : /\ q[1] - p[1] \in -1 .. 1
                              /\ q[2] - p[2] \in -1 .. 1}

-----------------------------------------------------------------------------
(* The callbacks, on worker threads. *)

\* When the contents thread stops, the process is gone.
Up == pc # "stopped"

\* Mutant: the last in is the first out.
PushFront(m) == mContentsQ' = <<m>> \o mContentsQ

pushContentsQ(m) == mContentsQ' = Append(mContentsQ, m)

\* onAccept and onRelease push under the lock and set the event after it.
Handling(s) == \E w \in Workers : wpc[w] = s

OnAccept(w, s) ==
  /\ Up
  /\ wpc[w] = "idle"
  /\ conn[s] = "none"
  /\ conn' = [conn EXCEPT ![s] = "open"]
  /\ pushContentsQ(Internal("ALLOC", s))
  /\ wpc' = [wpc EXCEPT ![w] = s]
  /\ UNCHANGED <<hEchoEvent, pc, msg, contents, disconnected, sendQ, client, nPackets>>

OnRelease(w, s) ==
  /\ Up
  /\ wpc[w] = "idle"
  /\ conn[s] = "open"
  /\ ~Handling(s)
  /\ conn' = [conn EXCEPT ![s] = "released"]
  /\ pushContentsQ(Internal("DELETE", s))
  /\ wpc' = [wpc EXCEPT ![w] = s]
  /\ UNCHANGED <<hEchoEvent, pc, msg, contents, disconnected, sendQ, client, nPackets>>

\* Mutant: the event is not set.
NoSetEvent(w) ==
  /\ Up
  /\ wpc[w] # "idle"
  /\ wpc' = [wpc EXCEPT ![w] = "idle"]
  /\ UNCHANGED <<queue, pc, msg, contents, network, client, nPackets>>

SetEvent(w) ==
  /\ Up
  /\ wpc[w] # "idle"
  /\ hEchoEvent' = TRUE
  /\ wpc' = [wpc EXCEPT ![w] = "idle"]
  /\ UNCHANGED <<mContentsQ, pc, msg, contents, network, client, nPackets>>

\* onRecv pushes and sets the event under one lock.
onRecv(s, m) ==
  /\ Up
  /\ conn[s] = "open"
  /\ ~Handling(s)
  /\ \E w \in Workers : wpc[w] = "idle"
  /\ nPackets < MaxPackets
  /\ nPackets' = nPackets + 1
  /\ pushContentsQ(m)
  /\ hEchoEvent' = TRUE
  /\ UNCHANGED <<pc, msg, contents, wpc, network>>

-----------------------------------------------------------------------------
(* Clients.  An honest one logs in, waits for SC_LOGIN, authenticates with  *)
(* its token, waits for SC_AUTH, then moves and chats; it numbers its       *)
(* packets from the SeqNumber of SC_LOGIN on.                               *)

AnyPacket(s, ty, n, k, sec, fits, size) ==
  [type |-> ty, owner |-> s, seq |-> n, token |-> k, sector |-> sec,
   fits |-> fits, size |-> size]

Packet(s, ty, k, sec, fits) == AnyPacket(s, ty, client[s].seq, k, sec, fits, "exact")

\* The client's state after it has sent a packet.
Sent(s, ph, sec) ==
  client' = [client EXCEPT ![s] = [phase |-> ph, seq |-> @.seq + 1, sector |-> sec]]

HonestSends(s) ==
  LET c == client[s] IN
  /\ s \in Honest
  /\ \/ /\ c.phase = "new"
        /\ onRecv(s, Packet(s, "CS_LOGIN", "none", Outside, TRUE))
        /\ Sent(s, "login", Outside)
     \/ /\ c.phase = "logged"
        /\ onRecv(s, Packet(s, "CS_AUTH", "own", Outside, TRUE))
        /\ Sent(s, "auth", Outside)
     \/ \E p \in Sectors \ {c.sector} :
          /\ c.phase = "in"
          /\ onRecv(s, Packet(s, "CS_MOVE", "none", p, TRUE))
          /\ Sent(s, "in", p)
     \/ /\ c.phase = "in"
        /\ onRecv(s, Packet(s, "CS_CHAT", "none", Outside, TRUE))
        /\ Sent(s, "in", c.sector)

\* The number it knows to be the next: the player an ALLOC makes counts from
\* FirstSeq again.
Numbers(s, ty) ==
  client' = [client EXCEPT ![s].seq = IF ty = "ALLOC" THEN FirstSeq ELSE @ + 1]

\* Any other client sends what it likes, whenever it likes, also the types that
\* are meant for the server's own messages.  What else is in a packet with a
\* wrong number or a wrong size makes no difference, nor does the type when the
\* handler is not reached or does not read on.
OtherSends(s) ==
  /\ s \notin Honest
  /\ \E ty \in Types, n \in {client[s].seq, WrongSeq}, k \in Tokens,
        p \in Sectors \cup {Outside}, fits \in BOOLEAN, size \in Sizes :
       /\ ty # "CS_AUTH" => k = "none"
       /\ ty # "CS_MOVE" => p = Outside
       /\ ty # "CS_CHAT" => fits
       /\ n = WrongSeq => ty = "CS_CHAT" /\ fits /\ size = "exact"
       /\ size # "exact" => k = "none" /\ p = Outside /\ fits
       /\ size = "noType" => ty = "unknown"
       /\ size = "noSeq" => ty \in {"ALLOC", "CS_CHAT"}
       /\ size = "wrong" => ty \notin {"DELETE", "unknown"}
       /\ onRecv(s, AnyPacket(s, ty, n, k, p, fits, size))
       /\ Numbers(s, ty)

\* The client reads the next message the server sent.
ClientReads(s) ==
  /\ Up
  /\ conn[s] = "open"
  /\ sendQ[s] # <<>>
  /\ LET m == Head(sendQ[s]) IN
       client' = [client EXCEPT ![s] =
         CASE m.type = "SC_LOGIN" -> [@ EXCEPT !.phase = "logged", !.seq = m.seq]
           [] m.type = "SC_AUTH"  -> [@ EXCEPT !.phase = "in", !.sector = m.sector]
           [] m.type = "SC_CHAT"  -> @]
  /\ sendQ' = [sendQ EXCEPT ![s] = Tail(@)]
  /\ UNCHANGED <<queue, pc, msg, contents, wpc, conn, disconnected, nPackets>>

-----------------------------------------------------------------------------
(* The contents thread: wait for the event or a second, then drain.         *)

Wake ==
  /\ pc = "wait"
  /\ hEchoEvent' = FALSE      \* an auto-reset event
  /\ pc' = "pop"
  /\ UNCHANGED <<mContentsQ, msg, contents, wpc, network, client, nPackets>>

Signalled == hEchoEvent /\ Wake
TimesOut  == ~hEchoEvent /\ Wake

popContentsQ ==
  /\ pc = "pop"
  /\ IF mContentsQ = <<>>
       THEN pc' = "wait" /\ UNCHANGED <<mContentsQ, msg>>
       ELSE /\ msg' = Head(mContentsQ)
            /\ mContentsQ' = Tail(mContentsQ)
            /\ pc' = "packetProc"
  /\ UNCHANGED <<hEchoEvent, contents, wpc, network, client, nPackets>>

\* RT_ASSERT, __debugbreak and an exception of Message, which nothing catches,
\* stop the thread.
Stop == pc' = "stopped" /\ UNCHANGED <<contents, disconnected, sendQ>>

\* Mutant: one message for each event.
DoneWaits == pc' = "wait"

Done == pc' = "pop"

\* disconnectSession and sendPost do nothing for a session that was released.
disconnectSession(s) ==
  disconnected' = IF conn[s] = "open" THEN disconnected \cup {s} ELSE disconnected

sendPost(S, m) ==
  sendQ' = [s \in Sessions |-> IF s \in S /\ conn[s] = "open"
                                 THEN Append(sendQ[s], m) ELSE sendQ[s]]

ServerMessage(ty, n, p) == [type |-> ty, seq |-> n, sector |-> p]

\* What packetProc leaves to the actions below
HasType     == pc = "packetProc" /\ msg.size # "noType"
Handles(ty) == HasType /\ msg.type = ty
Elsewhere   == UNCHANGED <<queue, msg, wpc, conn, client, nPackets>>

\* Reading the type throws.
NoType == pc = "packetProc" /\ ~HasType /\ Stop /\ Elsewhere

\* The handler reads more bytes than there are, or asserts that none are left.
WrongSize == msg.size # "exact"

\* Without the whole address GetData throws; what follows it is not looked at.
chatPlayerAlloc ==
  LET s == msg.owner IN
  /\ Handles("ALLOC")
  /\ IF s \in Players \/ WrongSize THEN Stop
     ELSE /\ mPlayerMap' = [mPlayerMap EXCEPT ![s] = NewPlayer]
          /\ mUserCnt' = mUserCnt + 1
          /\ Done
          /\ UNCHANGED <<mSectors, disconnected, sendQ>>
  /\ Elsewhere

\* Mutant: the player stays in the sector.
DeleteKeepsSector ==
  LET s == msg.owner IN
  /\ Handles("DELETE")
  /\ mPlayerMap' = [mPlayerMap EXCEPT ![s] = NoPlayer]
  /\ mUserCnt' = mUserCnt - 1
  /\ Done
  /\ UNCHANGED <<mSectors, disconnected, sendQ>>
  /\ Elsewhere

\* Nothing but the type is read.  Erasing a player that is not in its sector is
\* undefined; it stops here.
chatPlayerDelete ==
  LET s == msg.owner
      p == mPlayerMap[s] IN
  /\ Handles("DELETE")
  /\ IF s \notin Players \/ (p.bAuth /\ s \notin mSectors[p.sector]) THEN Stop
     ELSE /\ mSectors' = IF p.bAuth THEN [mSectors EXCEPT ![p.sector] = @ \ {s}]
                                    ELSE mSectors
          /\ mPlayerMap' = [mPlayerMap EXCEPT ![s] = NoPlayer]
          /\ mUserCnt' = mUserCnt - 1
          /\ Done
          /\ UNCHANGED <<disconnected, sendQ>>
  /\ Elsewhere

\* isValidateSeqNumber counts every packet, also one it refuses.
Counted == [mPlayerMap[msg.owner] EXCEPT !.SeqNumber = @ + 1]

\* validatePlayerOrNull drops a packet without a player; isValidateSeqNumber
\* throws when it cannot read the number, and disconnects the sender of a packet
\* that is not numbered next.
NotValid ==
  LET s == msg.owner IN
  /\ HasType
  /\ msg.type \notin {"ALLOC", "DELETE"}
  /\ \/ /\ s \notin Players
        /\ Done
        /\ UNCHANGED <<contents, disconnected, sendQ>>
     \/ /\ s \in Players
        /\ msg.size = "noSeq"
        /\ Stop
     \/ /\ s \in Players
        /\ msg.size # "noSeq"
        /\ msg.seq # mPlayerMap[s].SeqNumber
        /\ mPlayerMap' = [mPlayerMap EXCEPT ![s] = Counted]
        /\ disconnectSession(s)
        /\ Done
        /\ UNCHANGED <<mSectors, mUserCnt, sendQ>>
  /\ Elsewhere

\* A packet of type ty whose player exists and whose number is the next
Accepts(ty) ==
  /\ Handles(ty)
  /\ msg.size # "noSeq"
  /\ msg.owner \in Players
  /\ msg.seq = mPlayerMap[msg.owner].SeqNumber

\* A packet the handler refuses: the session is disconnected.
Refuse ==
  /\ mPlayerMap' = [mPlayerMap EXCEPT ![msg.owner] = Counted]
  /\ disconnectSession(msg.owner)
  /\ Done
  /\ UNCHANGED <<mSectors, mUserCnt, sendQ>>

\* Mutant: the number sent is not the number kept.
LoginKeepsSeq ==
  LET s == msg.owner IN
  /\ Accepts("CS_LOGIN")
  /\ \E k \in {"own", "other"}, n \in RandomSeqs :
       /\ mPlayerMap' = [mPlayerMap EXCEPT ![s] = [Counted EXCEPT !.tokenKey = k]]
       /\ sendPost({s}, ServerMessage("SC_LOGIN", n, Outside))
       /\ Done
       /\ UNCHANGED <<mSectors, mUserCnt, disconnected>>
  /\ Elsewhere

\* Redis has nothing for the account, its token, or the token of a later login.
loginProc ==
  LET s == msg.owner IN
  /\ Accepts("CS_LOGIN")
  /\ \/ WrongSize /\ Stop
     \/ ~WrongSize /\ Refuse
     \/ \E k \in {"own", "other"}, n \in RandomSeqs :
          /\ ~WrongSize
          /\ mPlayerMap' = [mPlayerMap EXCEPT ![s] =
                              [@ EXCEPT !.tokenKey = k, !.SeqNumber = n]]
          /\ sendPost({s}, ServerMessage("SC_LOGIN", n, Outside))
          /\ Done
          /\ UNCHANGED <<mSectors, mUserCnt, disconnected>>
  /\ Elsewhere

authProc ==
  LET s == msg.owner IN
  /\ Accepts("CS_AUTH")
  /\ IF mPlayerMap[s].bAuth \/ WrongSize THEN Stop
     ELSE IF msg.token # mPlayerMap[s].tokenKey THEN Refuse
     ELSE \E p \in Sectors :
       IF s \in mSectors[p] THEN Stop
       ELSE /\ mPlayerMap' = [mPlayerMap EXCEPT ![s] =
                                [Counted EXCEPT !.bAuth = TRUE, !.sector = p]]
            /\ mSectors' = [mSectors EXCEPT ![p] = @ \cup {s}]
            /\ sendPost({s}, ServerMessage("SC_AUTH", 0, p))
            /\ Done
            /\ UNCHANGED <<mUserCnt, disconnected>>
  /\ Elsewhere

\* A sector off the map, or the one the player is in, is refused.
IsMove(p, q) == q \in Sectors /\ p # q

\* Mutant: the player does not learn its new sector.
MoveKeepsPosition ==
  LET s   == msg.owner
      old == mPlayerMap[s].sector IN
  /\ Accepts("CS_MOVE")
  /\ IF ~mPlayerMap[s].bAuth THEN Refuse
     ELSE IF WrongSize THEN Stop
     ELSE IF ~IsMove(old, msg.sector) THEN Refuse
     ELSE IF s \notin mSectors[old] THEN Stop
     ELSE /\ mSectors' = [mSectors EXCEPT ![old] = @ \ {s}, ![msg.sector] = @ \cup {s}]
          /\ mPlayerMap' = [mPlayerMap EXCEPT ![s] = Counted]
          /\ Done
          /\ UNCHANGED <<mUserCnt, disconnected, sendQ>>
  /\ Elsewhere

\* moveSector: out of one sector, into the other
moveSectorProc ==
  LET s    == msg.owner
      old  == mPlayerMap[s].sector
      left == [mSectors EXCEPT ![old] = @ \ {s}] IN
  /\ Accepts("CS_MOVE")
  /\ IF ~mPlayerMap[s].bAuth THEN Refuse
     ELSE IF WrongSize THEN Stop
     ELSE IF ~IsMove(old, msg.sector) THEN Refuse
     ELSE IF s \notin mSectors[old] \/ s \in left[msg.sector] THEN Stop
     ELSE /\ mSectors' = [left EXCEPT ![msg.sector] = @ \cup {s}]
          /\ mPlayerMap' = [mPlayerMap EXCEPT ![s] = [Counted EXCEPT !.sector = msg.sector]]
          /\ Done
          /\ UNCHANGED <<mUserCnt, disconnected, sendQ>>
  /\ Elsewhere

\* Mutant: every player is sent the text, also one that is not in a sector yet.
ChatToAll ==
  LET s == msg.owner IN
  /\ Accepts("CS_CHAT")
  /\ IF ~mPlayerMap[s].bAuth \/ ~msg.fits THEN Refuse
     ELSE /\ mPlayerMap' = [mPlayerMap EXCEPT ![s] = Counted]
          /\ sendPost(Players, ServerMessage("SC_CHAT", 0, Outside))
          /\ Done
          /\ UNCHANGED <<mSectors, mUserCnt, disconnected>>
  /\ Elsewhere

\* A MessageLen out of range is refused before the text is read.
\* aroundLockAndSendMsg: every player in the sectors around is sent the text.
chatMessageProc ==
  LET s    == msg.owner
      near == UNION {mSectors[q] : q \in Around(mPlayerMap[s].sector)} IN
  /\ Accepts("CS_CHAT")
  /\ IF ~mPlayerMap[s].bAuth \/ ~msg.fits THEN Refuse
     ELSE IF WrongSize THEN Stop
     ELSE IF \E t \in near : t \notin Players \/ ~mPlayerMap[t].bAuth THEN Stop
     ELSE /\ mPlayerMap' = [mPlayerMap EXCEPT ![s] = Counted]
          /\ sendPost(near, ServerMessage("SC_CHAT", 0, Outside))
          /\ Done
          /\ UNCHANGED <<mSectors, mUserCnt, disconnected>>
  /\ Elsewhere

\* Whatever its size.  A type past the counters of mPacketTypeTPS has written
\* outside the array before.
UnknownType == Accepts("unknown") /\ Stop /\ Elsewhere

packetProc ==
  \/ NoType \/ chatPlayerAlloc \/ chatPlayerDelete \/ NotValid
  \/ loginProc \/ authProc \/ moveSectorProc \/ chatMessageProc \/ UnknownType

-----------------------------------------------------------------------------
Init ==
  /\ mContentsQ = <<>> /\ hEchoEvent = FALSE
  /\ pc = "wait"
  /\ msg = Internal("ALLOC", CHOOSE s \in Sessions : TRUE)
  /\ mPlayerMap = [s \in Sessions |-> NoPlayer]
  /\ mSectors = [p \in Sectors |-> {}]
  /\ mUserCnt = 0
  /\ wpc = [w \in Workers |-> "idle"]
  /\ conn = [s \in Sessions |-> "none"]
  /\ disconnected = {}
  /\ sendQ = [s \in Sessions |-> <<>>]
  /\ client = [s \in Sessions |-> [phase |-> "new", seq |-> FirstSeq, sector |-> Outside]]
  /\ nPackets = 0

contentsThread == Signalled \/ popContentsQ \/ packetProc

Next ==
  \/ contentsThread \/ TimesOut
  \/ \E w \in Workers : SetEvent(w)
  \/ \E w \in Workers, s \in Sessions : OnAccept(w, s) \/ OnRelease(w, s)
  \/ \E s \in Sessions : HonestSends(s) \/ OtherSends(s) \/ ClientReads(s)

Spec == Init /\ [][Next]_vars

\* The threads run; the library releases a session that was disconnected.  The
\* second's timeout is not relied on.
Fairness ==
  /\ WF_vars(contentsThread)
  /\ \A w \in Workers : WF_vars(SetEvent(w))
  /\ \A s \in Sessions :
       WF_vars(\E w \in Workers : s \in disconnected /\ OnRelease(w, s))

FairSpec == Spec /\ Fairness

-----------------------------------------------------------------------------
TypeOK ==
  /\ mContentsQ \in Seq(Message)
  /\ hEchoEvent \in BOOLEAN
  /\ pc \in {"wait", "pop", "packetProc", "stopped"}
  /\ msg \in Message
  /\ mPlayerMap \in [Sessions -> Player \cup {NoPlayer}]
  /\ mSectors \in [Sectors -> SUBSET Sessions]
  /\ mUserCnt \in Nat
  /\ wpc \in [Workers -> Sessions \cup {"idle"}]
  /\ conn \in [Sessions -> {"none", "open", "released"}]
  /\ disconnected \subseteq Sessions
  /\ sendQ \in [Sessions -> Seq([type : {"SC_LOGIN", "SC_AUTH", "SC_CHAT"}, seq : Int,
                                 sector : Sectors \cup {Outside}])]
  /\ client \in [Sessions -> [phase : {"new", "login", "logged", "auth", "in"}, seq : Int,
                              sector : Sectors \cup {Outside}]]
  /\ nPackets \in Nat

\* The sectors hold exactly the authenticated players, each in the sector its
\* Player names, and no pointer to a player that was deleted; mUserCnt counts
\* mPlayerMap (authProc, moveSector, chatPlayerDelete).
SectorsMatch ==
  /\ \A p \in Sectors : mSectors[p] =
       {s \in Players : mPlayerMap[s].bAuth /\ mPlayerMap[s].sector = p}
  /\ mUserCnt = Cardinality(Players)

\* A message of a client that follows the protocol, or of a callback of its
\* session, finds its player: packets come after the player is made and before it
\* is deleted, so that validatePlayerOrNull never fails for it (there the message
\* would not be freed: MY_DELETE of a reference does nothing).
PlayerFound ==
  pc = "packetProc" /\ msg.owner \in Honest =>
    (msg.type = "ALLOC" <=> msg.owner \notin Players)

\* The contents thread is stopped by nothing but a packet of a client that breaks
\* the protocol: one of the wrong size, of an unknown type, a second CS_AUTH, or one
\* of the types of the server's own messages (also by the message of onRelease of
\* its session, when its own DELETE came before).  The assertions about sectors and
\* the erasure from a sector never fail, whatever is sent.
AssertionsHold ==
  pc = "stopped" =>
    /\ msg.owner \notin Honest
    /\ \/ WrongSize
       \/ msg.type = "unknown"
       \/ msg.type = "CS_AUTH" /\ mPlayerMap[msg.owner].bAuth
       \/ msg.type = "ALLOC" /\ msg.owner \in Players
       \/ msg.type = "DELETE" /\ msg.owner \notin Players

\* A message that was pushed is not slept on: when the contents thread waits
\* and the queue is not empty, the event is set or a worker is about to set it.
EventFollows ==
  pc = "wait" /\ mContentsQ # <<>> =>
    hEchoEvent \/ \E w \in Workers : wpc[w] # "idle"

\* A client hears chat only after its own SC_AUTH, and its SC_AUTH after its
\* SC_LOGIN, though other sessions' packets are handled in between.
RepliesInOrder ==
  \A s \in Honest : sendQ[s] # <<>> =>
    LET ty == Head(sendQ[s]).type IN
    client[s].phase = CASE ty = "SC_LOGIN" -> "login"
                        [] ty = "SC_AUTH"  -> "auth"
                        [] ty = "SC_CHAT"  -> "in"

\* A client that follows the protocol is disconnected for nothing but its
\* login: Redis had no token for it, or the token of another login.
HonestKept ==
  [][\A s \in Honest \cap (disconnected' \ disconnected) :
       mPlayerMap[s] # NoPlayer /\ mPlayerMap[s].tokenKey # "own"]_vars

\* The player of a session that was disconnected or released is deleted.
PlayerLeaves ==
  \A s \in Sessions :
    (s \in disconnected \/ conn[s] = "released") ~> (s \notin Players \/ pc = "stopped")
=============================================================================
