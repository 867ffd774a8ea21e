---------------------------- MODULE RecvFraming -----------------------------
(* How one session turns the bytes it receives into messages: the WSABUFs    *)
(* registerRecv gives to WSARecv, the bytes the system writes there, and the *)
(* frames completeRecv takes out of the ring buffer for onRecv.              *)
(*                                                                           *)
(* A byte is named by its connection and its place in the client's stream,   *)
(* so that a byte lost, doubled, overwritten or left by an earlier           *)
(* connection is seen.  One thread at a time handles the receives of a       *)
(* session (SingleIO of NetworkLib).                                         *)
EXTENDS RingBuffer, FiniteSets

CONSTANTS
  HeaderSize,       \* sizeof(Header)
  Streams,          \* what clients send: sequences of the Len of each frame
  MaxConn           \* bound: connections the slot serves

ASSUME RecvFramingAssumption ==
  /\ HeaderSize \in Nat \ {0}
  /\ MaxConn \in Nat
  /\ \A st \in Streams : st \in Seq(Int)

VARIABLES
  mBuf, mFrontPtr, mRearPtr,   \* mRecvBuffer
  wsabuf,                      \* the buffers of the receive that is outstanding
  mLive,
  pc,                          \* where the session's receive is
  transferred,
  conn, stream, sent,          \* the client: connection, frames, bytes sent
  msgs                         \* messages onRecv was given on this connection

ring   == <<mBuf, mFrontPtr, mRearPtr>>
client == <<conn, stream, sent>>
vars   == <<ring, wsabuf, mLive, pc, transferred, client, msgs>>

Bytes == (0 .. MaxConn) \X Nat
Lens  == UNION {{st[i] : i \in DOMAIN st} : st \in Streams}

\* The place of the first byte of each frame of st, and of the end of st; a
\* frame without a payload is its header.
StartsOf(st) ==
  LET start[i \in 1 .. Len(st) + 1] ==
        IF i = 1 THEN 0
        ELSE start[i - 1] + HeaderSize + (IF st[i - 1] < 0 THEN 0 ELSE st[i - 1])
  IN start

\* The n bytes of the client's stream from place p on
StreamBytes(p, n) == [i \in 1 .. n |-> <<conn, p + i - 1>>]

\* The values header.Len can have when the bytes b are read as a header: what
\* the client wrote, or anything if they are not a header.
LenOf(b) ==
  LET starts == StartsOf(stream)
      heads  == {i \in DOMAIN stream : b = StreamBytes(starts[i], HeaderSize)}
  IN IF heads = {} THEN Lens ELSE {stream[i] : i \in heads}

UseSize == GetUseSize(mFrontPtr, mRearPtr)

-----------------------------------------------------------------------------
\* The room registerRecv gives to WSARecv: from mRearPtr to the end, and from
\* the beginning when that is not all.
RoomFrom(f, r) ==
  LET free   == GetFreeSize(f, r)
      direct == DirectEnqueueSize(f, r)
      first  == [buf |-> r, len |-> direct]
  IN IF free - direct # 0 THEN <<first, [buf |-> 0, len |-> free - direct]>>
                          ELSE <<first>>

\* Mutant: the buffer is not looked at before it is given to WSARecv.
RegisterAlways ==
  /\ pc = "registerRecv"
  /\ IF mLive THEN wsabuf' = RoomFrom(mFrontPtr, mRearPtr) /\ pc' = "io"
              ELSE pc' = "closed" /\ UNCHANGED wsabuf
  /\ UNCHANGED <<ring, mLive, transferred, client, msgs>>

\* freeSize == 0 disconnects; a session that is not live is left to be released.
RegisterRecv ==
  /\ pc = "registerRecv"
  /\ \/ /\ GetFreeSize(mFrontPtr, mRearPtr) = 0
        /\ mLive' = FALSE
        /\ pc' = "closed"
        /\ UNCHANGED wsabuf
     \/ /\ GetFreeSize(mFrontPtr, mRearPtr) # 0
        /\ IF mLive THEN wsabuf' = RoomFrom(mFrontPtr, mRearPtr) /\ pc' = "io"
                    ELSE pc' = "closed" /\ UNCHANGED wsabuf
        /\ UNCHANGED mLive
  /\ UNCHANGED <<ring, transferred, client, msgs>>

\* WSARecv completes with n bytes: the system fills the first WSABUF, then the
\* second.
RoomLen == IF Len(wsabuf) = 2 THEN wsabuf[1].len + wsabuf[2].len ELSE wsabuf[1].len

\* where the i-th byte of the receive goes
Place(i) == IF i <= wsabuf[1].len THEN wsabuf[1].buf + i - 1
                                  ELSE wsabuf[2].buf + i - wsabuf[1].len - 1

Received(n) ==
  /\ pc = "io"
  /\ n <= RoomLen
  /\ sent + n <= StartsOf(stream)[Len(stream) + 1]
  /\ mBuf' = [a \in DOMAIN mBuf |->
                IF \E i \in 1 .. n : Place(i) = a
                  THEN <<conn, sent + (CHOOSE i \in 1 .. n : Place(i) = a) - 1>>
                  ELSE mBuf[a]]
  /\ sent' = sent + n
  /\ transferred' = n
  /\ pc' = "completeRecv"
  /\ wsabuf' = <<>>
  /\ UNCHANGED <<mFrontPtr, mRearPtr, mLive, conn, stream, msgs>>

\* The client's FIN, a receive that was cancelled or that had no room:
\* transferred == 0.
ReceiveEnds ==
  /\ pc = "io"
  /\ mLive' = FALSE
  /\ pc' = "closed"
  /\ wsabuf' = <<>>
  /\ UNCHANGED <<ring, transferred, client, msgs>>

-----------------------------------------------------------------------------
(* completeRecv *)

CompleteRecv ==
  /\ pc = "completeRecv"
  /\ mRearPtr' = Move(mRearPtr, transferred)
  /\ pc' = "header"
  /\ UNCHANGED <<mBuf, mFrontPtr, wsabuf, mLive, transferred, client, msgs>>

Header == Peek(mBuf, mFrontPtr, mRearPtr, HeaderSize)

\* A frame whose payload is empty or negative disconnects.
BadHeader ==
  /\ pc = "header"
  /\ HeaderSize < UseSize
  /\ \E len \in LenOf(Header) : len <= 0
  /\ mLive' = FALSE
  /\ pc' = "closed"
  /\ UNCHANGED <<ring, wsabuf, transferred, client, msgs>>

\* Mutant: a frame is complete one byte later.
TakeLater(len) == len + HeaderSize < UseSize

Complete(len) == len + HeaderSize <= UseSize

Payload(f, r, n) == Peek(mBuf, f, r, n)

\* A frame that is complete leaves the buffer, its payload goes to onRecv.
TakeFrame ==
  /\ pc = "header"
  /\ HeaderSize < UseSize
  /\ \E len \in LenOf(Header) :
       LET f == Move(mFrontPtr, HeaderSize) IN
       /\ len > 0
       /\ Complete(len)
       /\ msgs' = Append(msgs, Payload(f, mRearPtr, len))
       /\ mFrontPtr' = Move(f, len)
  /\ UNCHANGED <<mBuf, mRearPtr, wsabuf, mLive, pc, transferred, client>>

\* The rest has to wait for more bytes.
Incomplete ==
  /\ pc = "header"
  /\ \/ UseSize <= HeaderSize
     \/ \E len \in LenOf(Header) : len > 0 /\ ~Complete(len)
  /\ pc' = "registerRecv"
  /\ UNCHANGED <<ring, wsabuf, mLive, transferred, client, msgs>>

-----------------------------------------------------------------------------
\* disconnectSession, by a thread of the application
Disconnect ==
  /\ mLive
  /\ mLive' = FALSE
  /\ UNCHANGED <<ring, wsabuf, pc, transferred, client, msgs>>

\* Mutant: the buffer is not cleared.
ReleaseSessionKeeps ==
  /\ pc = "closed"
  /\ pc' = "accept"
  /\ UNCHANGED <<ring, wsabuf, mLive, transferred, client, msgs>>

\* Session::ReleaseSession
ReleaseSession ==
  /\ pc = "closed"
  /\ mFrontPtr' = 0 /\ mRearPtr' = 0     \* ClearBuffer
  /\ pc' = "accept"
  /\ UNCHANGED <<mBuf, wsabuf, mLive, transferred, client, msgs>>

\* completeAcceptEx for the next client of the slot
Accept ==
  /\ pc = "accept"
  /\ conn < MaxConn
  /\ conn' = conn + 1
  /\ stream' \in Streams
  /\ sent' = 0
  /\ msgs' = <<>>
  /\ mLive' = TRUE
  /\ pc' = "registerRecv"
  /\ UNCHANGED <<ring, wsabuf, transferred>>

Init ==
  /\ mBuf = [a \in 0 .. Size - 1 |-> <<0, 0>>]
  /\ mFrontPtr = 0 /\ mRearPtr = 0
  /\ wsabuf = <<>>
  /\ mLive = FALSE
  /\ pc = "accept"
  /\ transferred = 0
  /\ conn = 0 /\ stream = <<>> /\ sent = 0
  /\ msgs = <<>>

Worker == CompleteRecv \/ BadHeader \/ TakeFrame \/ Incomplete \/ RegisterRecv

Next ==
  \/ Worker
  \/ \E n \in 1 .. Size : Received(n)
  \/ ReceiveEnds \/ Disconnect \/ ReleaseSession \/ Accept

Spec == Init /\ [][Next]_vars

-----------------------------------------------------------------------------
TypeOK ==
  /\ mBuf \in [0 .. Size - 1 -> Bytes]
  /\ mFrontPtr \in Offsets /\ mRearPtr \in Offsets
  /\ wsabuf \in Seq([buf : Offsets, len : 0 .. Size])
  /\ mLive \in BOOLEAN
  /\ pc \in {"accept", "registerRecv", "io", "completeRecv", "header", "closed"}
  /\ transferred \in 0 .. Size
  /\ conn \in 0 .. MaxConn
  /\ stream \in Streams \cup {<<>>}
  /\ sent \in Nat
  /\ msgs \in Seq(Seq(Bytes))

\* Where the frames that were delivered end.
Read == StartsOf(stream)[Len(msgs) + 1]

\* onRecv is given the payloads of the client's frames, whole and in order,
\* however the bytes were cut into receives and wherever the buffer wraps.
Delivered ==
  \A k \in DOMAIN msgs :
    /\ k <= Len(stream)
    /\ msgs[k] = StreamBytes(StartsOf(stream)[k] + HeaderSize, stream[k])

\* A receive is given room, so that transferred == 0 means the end of the
\* connection, and no room that holds unread bytes.
RoomIsFree ==
  pc = "io" =>
    /\ RoomLen > 0
    /\ \A i \in 1 .. RoomLen :
         /\ Place(i) \in DOMAIN mBuf
         /\ \A j \in 1 .. UseSize : mBuf[Place(i)] # StreamBytes(Read, UseSize)[j]

\* While a receive is outstanding nothing that was received can be delivered:
\* every complete frame was, and a bad one is known after one more byte.
NoFrameLeft ==
  pc = "io" => \A k \in DOMAIN stream :
    /\ sent >= StartsOf(stream)[k + 1] /\ stream[k] > 0 => Len(msgs) >= k
    /\ stream[k] <= 0 => sent <= StartsOf(stream)[k] + HeaderSize

\* The library gives up a connection only for a frame that is empty, negative,
\* or too long for the buffer: every other client is served whatever it sends.
ClosesOnlyBad ==
  [][mLive /\ pc \in {"header", "registerRecv"} /\ pc' = "closed" =>
       LET k == Len(msgs) + 1 IN
       k <= Len(stream) /\ (stream[k] <= 0 \/ stream[k] + HeaderSize > Size - 1)]_vars
=============================================================================
