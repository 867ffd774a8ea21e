------------------------- MODULE RecvFraming_proofs --------------------------
(***************************************************************************)
(* Theorems about RecvFraming, for every size of the buffer and of the     *)
(* header and every stream of frames.                                      *)
(***************************************************************************)
EXTENDS RecvFraming, FiniteSetTheorems, TLAPS

-----------------------------------------------------------------------------
(* Induction over the natural numbers, as a fact about sets: the theorems of *)
(* the library that take an operator cannot be instantiated.                 *)

\* A number missing in S would let the numbers of S below it be mapped one to
\* one, each to its successor, into fewer.
LEMMA SetInduction ==
  ASSUME NEW S, 1 \in S, \A n \in Nat \ {0} : n \in S => n + 1 \in S
  PROVE  \A n \in Nat \ {0} : n \in S
<1> SUFFICES ASSUME NEW n \in Nat \ {0}, n \notin S
             PROVE  FALSE
  OBVIOUS
<1> DEFINE A == {x \in 1 .. n : x \in S}
           next == [x \in A |-> x + 1]
<1>1. IsFiniteSet(A) /\ Cardinality(A) \in Nat
  <2>1. IsFiniteSet(1 .. n) /\ A \in SUBSET (1 .. n)
    BY FS_Interval
  <2> HIDE DEF A
  <2>2. IsFiniteSet(A)
    BY <2>1, FS_Subset
  <2> QED
    BY <2>2, FS_CardinalityType
<1>2. 1 \in A
  OBVIOUS
<1>3. IsFiniteSet(A \ {1}) /\ Cardinality(A \ {1}) = Cardinality(A) - 1
  BY <1>1, <1>2, FS_RemoveElement
<1>4. next \in Injection(A, A \ {1})
  <2>1. \A x \in A : x + 1 \in A \ {1}
    OBVIOUS
  <2>2. \A x, y \in A : x + 1 = y + 1 => x = y
    OBVIOUS
  <2> QED
    BY <2>1, <2>2 DEF Injection, IsInjective
<1> QED
  BY <1>1, <1>3, <1>4, FS_Injection

-----------------------------------------------------------------------------
(* The places of the frames in a stream *)

\* The bytes a frame takes in the stream
Frame(st, i) == HeaderSize + (IF st[i] < 0 THEN 0 ELSE st[i])

\* f satisfies the equation of StartsOf up to n.
Starts(f, st, n) ==
  f = [i \in 1 .. n |-> IF i = 1 THEN 0
                        ELSE f[i - 1] + HeaderSize + (IF st[i - 1] < 0 THEN 0 ELSE st[i - 1])]

LEMMA StartsExist ==
  ASSUME NEW st, NEW n \in Nat \ {0}
  PROVE  \E f : Starts(f, st, n)
<1> DEFINE S == {m \in Nat \ {0} : \E f : Starts(f, st, m)}
<1>1. 1 \in S
  <2> DEFINE f == [i \in 1 .. 1 |-> 0]
  <2>1. Starts(f, st, 1)
    BY DEF Starts
  <2> QED
    BY <2>1
<1>2. ASSUME NEW m \in Nat \ {0}, m \in S PROVE m + 1 \in S
  <2>1. PICK g : Starts(g, st, m)
    BY <1>2
  <2> DEFINE last == g[m] + HeaderSize + (IF st[m] < 0 THEN 0 ELSE st[m])
             f == [i \in 1 .. m + 1 |-> IF i <= m THEN g[i] ELSE last]
  <2>2. \A i \in 1 .. m + 1 :
           f[i] = IF i = 1 THEN 0
                  ELSE f[i - 1] + HeaderSize + (IF st[i - 1] < 0 THEN 0 ELSE st[i - 1])
    <3> TAKE i \in 1 .. m + 1
    <3>1. CASE i = m + 1
      BY <3>1
    <3>2. CASE i <= m
      <4>1. f[i] = g[i] /\ (i # 1 => f[i - 1] = g[i - 1])
        BY <3>2
      <4>2. i \in 1 .. m
        BY <3>2
      <4>3. g[i] = IF i = 1 THEN 0
                   ELSE g[i - 1] + HeaderSize + (IF st[i - 1] < 0 THEN 0 ELSE st[i - 1])
        BY <2>1, <4>2, Zenon DEF Starts
      <4> QED
        BY <4>1, <4>3
    <3> QED
      BY <3>1, <3>2
  <2>3. Starts(f, st, m + 1)
    BY <2>2, Zenon DEF Starts
  <2> QED
    BY <2>3
<1> QED
  <2> HIDE DEF S
  <2>1. n \in S
    BY <1>1, <1>2, SetInduction
  <2> QED
    BY <2>1 DEF S

LEMMA StartsOfIs ==
  ASSUME NEW st, Len(st) \in Nat
  PROVE  Starts(StartsOf(st), st, Len(st) + 1)
<1> DEFINE P(f) == f = [i \in 1 .. Len(st) + 1 |->
              IF i = 1 THEN 0
              ELSE f[i - 1] + HeaderSize + (IF st[i - 1] < 0 THEN 0 ELSE st[i - 1])]
<1>1. \E f : P(f)
  <2>1. Len(st) + 1 \in Nat \ {0}
    OBVIOUS
  <2> QED
    BY <2>1, StartsExist, Zenon DEF Starts
<1>2. P(CHOOSE f : P(f))
  <2> HIDE DEF P
  <2> QED
    BY <1>1, Zenon
<1> QED
  BY <1>2, Zenon DEF StartsOf, Starts

LEMMA StartsFacts ==
  ASSUME NEW st \in Seq(Int)
  PROVE  /\ StartsOf(st)[1] = 0
         /\ \A i \in DOMAIN st : StartsOf(st)[i + 1] = StartsOf(st)[i] + Frame(st, i)
         /\ \A i \in DOMAIN st : Frame(st, i) \in Nat /\ Frame(st, i) >= HeaderSize
         /\ \A i \in 1 .. Len(st) + 1 : StartsOf(st)[i] \in Nat
<1> DEFINE s == StartsOf(st)
<1>0. Len(st) \in Nat /\ DOMAIN st = 1 .. Len(st)
  OBVIOUS
<1>1. \A i \in 1 .. Len(st) + 1 :
         s[i] = IF i = 1 THEN 0
                ELSE s[i - 1] + HeaderSize + (IF st[i - 1] < 0 THEN 0 ELSE st[i - 1])
  <2>1. Starts(s, st, Len(st) + 1)
    BY <1>0, StartsOfIs
  <2> HIDE DEF s
  <2> QED
    BY <2>1, Zenon DEF Starts
<1>2. s[1] = 0
  BY <1>0, <1>1
<1>3. \A i \in DOMAIN st : Frame(st, i) \in Nat /\ Frame(st, i) >= HeaderSize
  BY <1>0, RecvFramingAssumption DEF Frame
<1> HIDE DEF s
<1> DEFINE S == {i \in Nat : i <= Len(st) + 1 => s[i] \in Nat}
<1>4. \A i \in Nat \ {0} : i \in S
  <2>1. 1 \in S
    BY <1>2
  <2>2. ASSUME NEW i \in Nat \ {0}, i \in S PROVE i + 1 \in S
    <3> SUFFICES ASSUME i + 1 <= Len(st) + 1 PROVE s[i + 1] \in Nat
      OBVIOUS
    <3>1. s[i] \in Nat /\ i \in DOMAIN st /\ i + 1 \in 1 .. Len(st) + 1
      BY <1>0, <2>2
    <3>2. st[i] \in Int
      BY <3>1
    <3>3. s[i + 1] = s[i] + HeaderSize + (IF st[i] < 0 THEN 0 ELSE st[i])
      BY <1>1, <3>1
    <3> QED
      BY <3>1, <3>2, <3>3, RecvFramingAssumption
  <2> HIDE DEF S
  <2> QED
    BY <2>1, <2>2, SetInduction
<1>5. \A i \in 1 .. Len(st) + 1 : s[i] \in Nat
  BY <1>0, <1>4
<1>6. ASSUME NEW i \in DOMAIN st PROVE s[i + 1] = s[i] + Frame(st, i)
  <2>1. i + 1 \in 1 .. Len(st) + 1 /\ i + 1 # 1 /\ s[i] \in Nat /\ st[i] \in Int
    BY <1>0, <1>5
  <2>2. s[i + 1] = s[i] + HeaderSize + (IF st[i] < 0 THEN 0 ELSE st[i])
    BY <1>0, <1>1, <2>1
  <2> QED
    BY <2>1, <2>2, RecvFramingAssumption DEF Frame
<1> QED
  BY <1>2, <1>3, <1>5, <1>6 DEF s

\* A frame ends before the next ones begin.
LEMMA StartsGrow ==
  ASSUME NEW st \in Seq(Int), NEW i \in DOMAIN st,
         NEW j \in 1 .. Len(st) + 1, i < j
  PROVE  StartsOf(st)[i] + Frame(st, i) <= StartsOf(st)[j]
<1> DEFINE s == StartsOf(st)
           S == {k \in Nat : i + k <= Len(st) + 1 => s[i] + Frame(st, i) <= s[i + k]}
<1>0. Len(st) \in Nat /\ DOMAIN st = 1 .. Len(st) /\ HeaderSize \in Nat
  BY RecvFramingAssumption
<1>1. /\ \A k \in DOMAIN st : s[k + 1] = s[k] + Frame(st, k)
      /\ \A k \in DOMAIN st : Frame(st, k) \in Nat
      /\ \A k \in 1 .. Len(st) + 1 : s[k] \in Nat
  BY StartsFacts
<1> HIDE DEF s
<1>2. 1 \in S
  BY <1>0, <1>1
<1>3. ASSUME NEW k \in Nat \ {0}, k \in S PROVE k + 1 \in S
  <2> SUFFICES ASSUME i + (k + 1) <= Len(st) + 1
               PROVE  s[i] + Frame(st, i) <= s[i + (k + 1)]
    OBVIOUS
  <2>1. i + k \in DOMAIN st /\ (i + k) + 1 = i + (k + 1) /\ i + k \in 1 .. Len(st) + 1
    BY <1>0
  <2>2. s[i] + Frame(st, i) <= s[i + k]
    BY <1>0, <1>3, SMTT(30)
  <2>3. s[i + (k + 1)] = s[i + k] + Frame(st, i + k)
    BY <1>1, <2>1
  <2>4. s[i] \in Nat /\ s[i + k] \in Nat /\ Frame(st, i) \in Nat /\ Frame(st, i + k) \in Nat
    BY <1>0, <1>1, <2>1, SMTT(30)
  <2> QED
    BY <2>2, <2>3, <2>4, SMTT(30)
<1>4. j - i \in S
  <2>1. j - i \in Nat \ {0}
    BY <1>0
  <2> HIDE DEF S
  <2> QED
    BY <1>2, <1>3, <2>1, SetInduction
<1>5. i + (j - i) = j
  BY <1>0
<1> QED
  BY <1>0, <1>4, <1>5 DEF s

-----------------------------------------------------------------------------
(* The ring *)

\* The place of the byte j bytes behind the first unread one.
At(f, j) == IF f + j < Size THEN f + j ELSE f + j - Size

LEMMA RingSizes ==
  ASSUME NEW f \in Offsets, NEW r \in Offsets, GetUseSize(f, r) <= Size - 1
  PROVE  /\ GetUseSize(f, r) \in Nat
         /\ GetFreeSize(f, r) = Size - 1 - GetUseSize(f, r)
BY SizeAssumption DEF Offsets, GetUseSize, GetFreeSize

LEMMA RearMoves ==
  ASSUME NEW f \in Offsets, NEW r \in Offsets, NEW n \in Nat,
         GetUseSize(f, r) + n <= Size - 1
  PROVE  /\ Move(r, n) \in Offsets
         /\ GetUseSize(f, Move(r, n)) = GetUseSize(f, r) + n
BY SizeAssumption DEF Offsets, GetUseSize, Move

LEMMA FrontMoves ==
  ASSUME NEW f \in Offsets, NEW r \in Offsets, GetUseSize(f, r) <= Size - 1,
         NEW n \in Nat, n <= GetUseSize(f, r)
  PROVE  /\ Move(f, n) \in Offsets
         /\ GetUseSize(Move(f, n), r) = GetUseSize(f, r) - n
         /\ \A j \in Nat : n + j < GetUseSize(f, r) => At(Move(f, n), j) = At(f, n + j)
BY SizeAssumption DEF Offsets, GetUseSize, Move, At

\* The first n unread bytes
Unread(b, f, n) == [i \in 1 .. n |-> b[At(f, i - 1)]]

LEMMA PeekReads ==
  ASSUME NEW b, NEW f \in Offsets, NEW r \in Offsets, GetUseSize(f, r) <= Size - 1,
         NEW n \in Nat, n <= GetUseSize(f, r)
  PROVE  Peek(b, f, r, n) = Unread(b, f, n)
<1>1. \A i \in 1 .. n : (IF i <= DirectDequeueSize(f, r) THEN f + i - 1
                          ELSE i - DirectDequeueSize(f, r) - 1) = At(f, i - 1)
  BY SizeAssumption DEF Offsets, GetUseSize, DirectDequeueSize, At
<1>2. \A i \in 1 .. n : (IF i <= DirectDequeueSize(f, r) THEN b[f + i - 1]
                          ELSE b[i - DirectDequeueSize(f, r) - 1]) = b[At(f, i - 1)]
  BY <1>1
<1> QED
  BY <1>2, Zenon DEF Peek, Unread

LEMMA AtPlace ==
  ASSUME NEW f \in Offsets, NEW j \in 0 .. Size - 1
  PROVE  /\ At(f, j) \in 0 .. Size - 1
         /\ \A k \in 0 .. Size - 1 : At(f, j) = At(f, k) => j = k
BY SizeAssumption DEF Offsets, At

\* registerRecv offers all that is free, and nothing else.
LEMMA RoomPlaces ==
  ASSUME NEW f \in Offsets, NEW r \in Offsets, GetUseSize(f, r) <= Size - 1,
         wsabuf = RoomFrom(f, r)
  PROVE  /\ RoomLen = GetFreeSize(f, r)
         /\ \A i \in 1 .. RoomLen : Place(i) = At(f, GetUseSize(f, r) + i - 1)
<1> DEFINE free   == GetFreeSize(f, r)
           direct == DirectEnqueueSize(f, r)
<1>1. CASE free - direct # 0
  <2>1. /\ Len(wsabuf) = 2
        /\ wsabuf[1].buf = r /\ wsabuf[1].len = direct
        /\ wsabuf[2].buf = 0 /\ wsabuf[2].len = free - direct
    BY <1>1 DEF RoomFrom
  <2>2. free \in Int /\ direct \in Int
    BY SizeAssumption DEF Offsets, GetFreeSize, DirectEnqueueSize
  <2>3. RoomLen = free
    BY <2>1, <2>2 DEF RoomLen
  <2>4. \A i \in 1 .. free : (IF i <= direct THEN r + i - 1 ELSE 0 + i - direct - 1)
                               = At(f, GetUseSize(f, r) + i - 1)
    BY <1>1, SizeAssumption
       DEF Offsets, GetUseSize, GetFreeSize, DirectEnqueueSize, At
  <2> QED
    BY <2>1, <2>3, <2>4, Zenon DEF Place
<1>2. CASE free - direct = 0
  <2>1. Len(wsabuf) = 1 /\ wsabuf[1].buf = r /\ wsabuf[1].len = direct
    BY <1>2 DEF RoomFrom
  <2>2. RoomLen = free
    BY <1>2, <2>1, SizeAssumption DEF RoomLen, Offsets, GetFreeSize, DirectEnqueueSize
  <2>3. \A i \in 1 .. free : i <= direct /\ r + i - 1 = At(f, GetUseSize(f, r) + i - 1)
    BY <1>2, SizeAssumption
       DEF Offsets, GetUseSize, GetFreeSize, DirectEnqueueSize, At
  <2> QED
    BY <2>1, <2>2, <2>3 DEF Place
<1> QED
  BY <1>1, <1>2

LEMMA ShortSequences ==
  ASSUME NEW S, NEW a \in S, NEW b \in S
  PROVE  <<a>> \in Seq(S) /\ <<a, b>> \in Seq(S)
OBVIOUS

LEMMA EmptySequence == \A S : <<>> \in Seq(S)
OBVIOUS

\* The buffers given to WSARecv have the type of wsabuf.
LEMMA RoomType ==
  ASSUME NEW f \in Offsets, NEW r \in Offsets, GetUseSize(f, r) <= Size - 1
  PROVE  RoomFrom(f, r) \in Seq([buf : Offsets, len : 0 .. Size])
<1> DEFINE free   == GetFreeSize(f, r)
           direct == DirectEnqueueSize(f, r)
           first  == [buf |-> r, len |-> direct]
           second == [buf |-> 0, len |-> free - direct]
<1>1. direct \in 0 .. Size /\ free - direct \in 0 .. Size /\ 0 \in Offsets
  BY SizeAssumption DEF Offsets, GetUseSize, GetFreeSize, DirectEnqueueSize
<1>2. first \in [buf : Offsets, len : 0 .. Size] /\ second \in [buf : Offsets, len : 0 .. Size]
  BY <1>1
<1>3. RoomFrom(f, r) = IF free - direct # 0 THEN <<first, second>> ELSE <<first>>
  BY Zenon DEF RoomFrom
<1> HIDE DEF free, direct, first, second
<1> QED
  BY <1>2, <1>3, ShortSequences

-----------------------------------------------------------------------------
(* The invariant *)

\* Where the unread bytes end: transferred bytes are there before completeRecv
\* moves mRearPtr.
Rear == IF pc = "completeRecv" THEN Move(mRearPtr, transferred) ELSE mRearPtr

Used == GetUseSize(mFrontPtr, Rear)

\* The session has a receive, at the port, with the system or in a worker.
Active == pc \in {"registerRecv", "io", "completeRecv", "header"}

\* What was delivered is a beginning of the stream.
Whole == /\ Len(msgs) <= Len(stream)
         /\ \A k \in DOMAIN msgs :
              /\ stream[k] > 0
              /\ msgs[k] = StreamBytes(StartsOf(stream)[k] + HeaderSize, stream[k])

\* What was sent was delivered or is unread.
Counted == Active => /\ Rear \in Offsets
                     /\ Used <= Size - 1
                     /\ sent = Read + Used
                     /\ sent <= StartsOf(stream)[Len(stream) + 1]

\* The unread bytes of the buffer are those of the stream from Read on ...
Holds == Active => \A j \in 0 .. Used - 1 : mBuf[At(mFrontPtr, j)] = <<conn, Read + j>>

\* ... and the rest of the buffer has none of them.
Only == /\ \A a \in 0 .. Size - 1 : mBuf[a][1] <= conn
        /\ Active => \A a \in 0 .. Size - 1 :
             mBuf[a][1] = conn /\ mBuf[a][2] >= Read =>
               \E j \in 0 .. Used - 1 : a = At(mFrontPtr, j)

Framed == Whole /\ Counted /\ Holds /\ Only

Offered == pc = "io" => /\ wsabuf = RoomFrom(mFrontPtr, mRearPtr)
                        /\ GetFreeSize(mFrontPtr, mRearPtr) # 0

Cleared == pc = "accept" => mFrontPtr = 0 /\ mRearPtr = 0

\* Before and in a receive, the frame at the front is not complete.
Waits == pc \in {"registerRecv", "io"} =>
           LET k == Len(msgs) + 1 IN
           \/ Used <= HeaderSize
           \/ k \in DOMAIN stream /\ stream[k] > 0 /\ Used < stream[k] + HeaderSize

IInv == TypeOK /\ Framed /\ Offered /\ Cleared /\ Waits

\* Facts about the stream and the place reached in it.
LEMMA StreamFacts ==
  ASSUME TypeOK
  PROVE  /\ stream \in Seq(Int) /\ Len(stream) \in Nat /\ DOMAIN stream = 1 .. Len(stream)
         /\ Len(msgs) \in Nat /\ DOMAIN msgs = 1 .. Len(msgs)
         /\ conn \in Nat /\ sent \in Nat /\ HeaderSize \in Nat \ {0} /\ Size \in Nat \ {0}
         /\ Len(msgs) <= Len(stream) => Read \in Nat
<1>1. stream \in Seq(Int)
  <2>1. CASE stream = <<>>
    BY <2>1
  <2>2. CASE stream \in Streams
    BY <2>2, RecvFramingAssumption
  <2> QED
    BY <2>1, <2>2 DEF TypeOK
<1>2. Len(msgs) \in Nat /\ DOMAIN msgs = 1 .. Len(msgs)
  BY DEF TypeOK
<1>3. Len(msgs) <= Len(stream) => Read \in Nat
  BY <1>1, <1>2, StartsFacts DEF Read
<1> QED
  BY <1>1, <1>2, <1>3, SizeAssumption, RecvFramingAssumption DEF TypeOK

LEMMA ActiveFacts ==
  ASSUME IInv, Active
  PROVE  /\ mFrontPtr \in Offsets /\ Rear \in Offsets
         /\ Used \in Nat /\ Used <= Size - 1
         /\ GetFreeSize(mFrontPtr, Rear) = Size - 1 - Used
         /\ Read \in Nat /\ sent = Read + Used
         /\ Len(msgs) <= Len(stream)
<1>1. /\ mFrontPtr \in Offsets /\ Rear \in Offsets /\ Used <= Size - 1
      /\ sent = Read + Used /\ Len(msgs) <= Len(stream)
  BY DEF IInv, TypeOK, Framed, Counted, Whole
<1>2. Used \in Nat /\ GetFreeSize(mFrontPtr, Rear) = Size - 1 - Used
  BY <1>1, RingSizes DEF Used
<1>3. Read \in Nat
  BY <1>1, StreamFacts DEF IInv
<1> QED
  BY <1>1, <1>2, <1>3

\* When bytes are unread, they begin a frame of the stream.
LEMMA FrameThere ==
  ASSUME IInv, Active, Used > 0
  PROVE  Len(msgs) + 1 \in DOMAIN stream
<1>1. ASSUME Len(msgs) = Len(stream) PROVE FALSE
  <2>1. sent <= Read
    BY <1>1 DEF IInv, Framed, Counted, Read
  <2> QED
    BY <2>1, ActiveFacts
<1> QED
  <2>1. /\ Len(msgs) \in Nat /\ Len(stream) \in Nat /\ Len(msgs) <= Len(stream)
        /\ DOMAIN stream = 1 .. Len(stream)
    BY ActiveFacts, StreamFacts DEF IInv
  <2> QED
    BY <1>1, <2>1

\* The header completeRecv reads is that of the next frame.
LEMMA HeaderRead ==
  ASSUME IInv, pc = "header", HeaderSize < UseSize
  PROVE  LET k == Len(msgs) + 1 IN k \in DOMAIN stream /\ LenOf(Header) = {stream[k]}
<1> DEFINE k == Len(msgs) + 1
           s == StartsOf(stream)
<1>0. /\ UseSize = Used /\ Active /\ UseSize <= Size - 1 /\ UseSize \in Nat
      /\ mFrontPtr \in Offsets /\ mRearPtr \in Offsets
      /\ HeaderSize \in Nat /\ HeaderSize > 0
  <2>1. Active /\ UseSize = Used /\ mRearPtr = Rear
    BY DEF UseSize, Used, Rear, Active
  <2> QED
    BY <2>1, ActiveFacts, StreamFacts DEF IInv
<1>1. k \in DOMAIN stream
  BY <1>0, FrameThere
<1>2. Header = [i \in 1 .. HeaderSize |-> mBuf[At(mFrontPtr, i - 1)]]
  <2>1. /\ HeaderSize <= GetUseSize(mFrontPtr, mRearPtr)
        /\ GetUseSize(mFrontPtr, mRearPtr) <= Size - 1
    BY <1>0 DEF UseSize
  <2>2. Peek(mBuf, mFrontPtr, mRearPtr, HeaderSize) = Unread(mBuf, mFrontPtr, HeaderSize)
    BY <1>0, <2>1, PeekReads
  <2> QED
    BY <2>2, Zenon DEF Header, Unread
<1>3. \A i \in 1 .. HeaderSize : mBuf[At(mFrontPtr, i - 1)] = <<conn, s[k] + (i - 1)>>
  <2> TAKE i \in 1 .. HeaderSize
  <2>1. i - 1 \in 0 .. Used - 1
    BY <1>0
  <2> QED
    BY <1>0, <2>1 DEF IInv, Framed, Holds, Read
<1>4. s[k] \in Nat /\ \A i \in DOMAIN stream : s[i] \in Nat
  BY <1>1, StartsFacts, StreamFacts DEF IInv
<1>5. Header = StreamBytes(s[k], HeaderSize)
  <2>1. \A i \in 1 .. HeaderSize : s[k] + (i - 1) = s[k] + i - 1
    BY <1>0, <1>4
  <2>2. Header = [i \in 1 .. HeaderSize |-> <<conn, s[k] + i - 1>>]
    BY <1>2, <1>3, <2>1
  <2> QED
    BY <2>2 DEF StreamBytes
<1>6. ASSUME NEW i \in DOMAIN stream, Header = StreamBytes(s[i], HeaderSize)
      PROVE  i = k
  <2> DEFINE a == StreamBytes(s[i], HeaderSize)
             b == StreamBytes(s[k], HeaderSize)
  <2>1. a[1] = <<conn, s[i] + 1 - 1>> /\ b[1] = <<conn, s[k] + 1 - 1>>
    BY <1>0 DEF StreamBytes
  <2>2. s[i] = s[k]
    <3> HIDE DEF a, b
    <3>1. a[1] = b[1]
      BY <1>5, <1>6 DEF a, b
    <3>2. s[i] + 1 - 1 = s[k] + 1 - 1
      BY <2>1, <3>1
    <3> QED
      BY <1>4, <3>2
  <2>3. \A m, n \in DOMAIN stream : m < n => s[m] < s[n]
    <3> TAKE m, n \in DOMAIN stream
    <3> SUFFICES ASSUME m < n PROVE s[m] < s[n]
      OBVIOUS
    <3>1. n \in 1 .. Len(stream) + 1 /\ stream \in Seq(Int)
      BY StreamFacts DEF IInv
    <3>2. s[m] + Frame(stream, m) <= s[n]
      BY <3>1, StartsGrow
    <3>3. Frame(stream, m) \in Nat /\ Frame(stream, m) >= HeaderSize
      BY <3>1, StartsFacts
    <3> HIDE DEF s
    <3> QED
      BY <1>0, <1>4, <3>2, <3>3
  <2>4. i \in Int /\ k \in Int
    BY StreamFacts DEF IInv
  <2> HIDE DEF s, k
  <2> QED
    BY <1>1, <2>2, <2>3, <2>4, <1>4
<1>7. {i \in DOMAIN stream : Header = StreamBytes(s[i], HeaderSize)} = {k}
  BY <1>1, <1>5, <1>6
<1>8. LenOf(Header) = {stream[i] : i \in {k}}
  <2> HIDE DEF k
  <2> QED
    BY <1>7 DEF LenOf
<1> QED
  BY <1>1, <1>8

-----------------------------------------------------------------------------
(* The steps *)

LEMMA InitInv == Init => IInv
<1> SUFFICES ASSUME Init PROVE IInv
  OBVIOUS
<1> USE DEF Init
<1>1. 0 \in Offsets /\ 0 \in 0 .. MaxConn /\ 0 \in 0 .. Size /\ <<0, 0>> \in Bytes
  BY SizeAssumption, RecvFramingAssumption DEF Offsets, Bytes
<1>2. TypeOK
  <2>1. [a \in 0 .. Size - 1 |-> <<0, 0>>] \in [0 .. Size - 1 -> Bytes]
    BY <1>1
  <2> QED
    BY <1>1, <2>1, EmptySequence DEF TypeOK
<1>3. Framed
  BY <1>1 DEF Framed, Whole, Counted, Holds, Only, Active
<1> QED
  BY <1>2, <1>3 DEF IInv, Offered, Cleared, Waits

\* A step that moves no byte and no offset.
LEMMA StillFramed ==
  ASSUME Framed, UNCHANGED <<mBuf, mFrontPtr, client, msgs>>,
         Active' => Active /\ Rear' = Rear
  PROVE  Framed'
<1>1. Whole'
  BY DEF Framed, Whole, client, StreamBytes
<1>2. Active' => Used' = Used /\ Read' = Read
  BY DEF Used, Read, client
<1>3. Counted' /\ Holds' /\ Only'
  BY <1>2 DEF Framed, Counted, Holds, Only, client
<1> QED
  BY <1>1, <1>3 DEF Framed

LEMMA RegisterRecvKeeps == ASSUME IInv, RegisterRecv PROVE IInv'
<1> USE DEF RegisterRecv, ring
<1>0. pc = "registerRecv" /\ Active /\ Rear = mRearPtr
  BY DEF Active, Rear
<1>1. UNCHANGED <<mBuf, mFrontPtr, mRearPtr, transferred, client, msgs>>
  OBVIOUS
<1>2. pc' \in {"io", "closed"} /\ Rear' = Rear
  BY <1>0, <1>1 DEF Rear
<1>3. pc' = "io" => /\ wsabuf' = RoomFrom(mFrontPtr, mRearPtr)
                    /\ GetFreeSize(mFrontPtr, mRearPtr) # 0
  BY <1>0
<1>4. TypeOK'
  <2>1. wsabuf' \in Seq([buf : Offsets, len : 0 .. Size])
    <3>1. GetUseSize(mFrontPtr, mRearPtr) <= Size - 1 /\ mFrontPtr \in Offsets /\ mRearPtr \in Offsets
      BY <1>0, ActiveFacts DEF Used
    <3>2. RoomFrom(mFrontPtr, mRearPtr) \in Seq([buf : Offsets, len : 0 .. Size])
      BY <3>1, RoomType
    <3> QED
      BY <3>2 DEF IInv, TypeOK
  <2> QED
    BY <1>1, <2>1 DEF IInv, TypeOK, client
<1>5. Framed'
  BY <1>0, <1>1, <1>2, StillFramed DEF IInv
<1>6. Offered' /\ Cleared'
  BY <1>1, <1>2, <1>3 DEF Offered, Cleared
<1>7. Waits'
  BY <1>0, <1>1, <1>2 DEF IInv, Waits, Used, client
<1> QED
  BY <1>4, <1>5, <1>6, <1>7 DEF IInv

LEMMA ReceiveEndsKeeps == ASSUME IInv, ReceiveEnds PROVE IInv'
<1> USE DEF ReceiveEnds, ring, client
<1>1. TypeOK'
  BY EmptySequence DEF IInv, TypeOK
<1>2. Framed'
  BY StillFramed DEF IInv, Active
<1> QED
  BY <1>1, <1>2 DEF IInv, Offered, Cleared, Waits

LEMMA CompleteRecvKeeps == ASSUME IInv, CompleteRecv PROVE IInv'
<1> USE DEF CompleteRecv, client
<1>0. Active /\ Rear' = Rear /\ mRearPtr' = Rear
  BY DEF Active, Rear
<1>1. TypeOK'
  BY <1>0, ActiveFacts DEF IInv, TypeOK
<1>2. Framed'
  BY <1>0, StillFramed DEF IInv
<1> QED
  BY <1>1, <1>2 DEF IInv, Offered, Cleared, Waits

LEMMA BadHeaderKeeps == ASSUME IInv, BadHeader PROVE IInv'
<1> USE DEF BadHeader, ring, client
<1>1. TypeOK'
  BY DEF IInv, TypeOK
<1>2. Framed'
  BY StillFramed DEF IInv, Active
<1> QED
  BY <1>1, <1>2 DEF IInv, Offered, Cleared, Waits

LEMMA IncompleteKeeps == ASSUME IInv, Incomplete PROVE IInv'
<1> USE DEF Incomplete, ring, client
<1>0. Active /\ Rear' = Rear /\ Rear = mRearPtr /\ Used = UseSize /\ Used' = Used
  BY DEF Active, Rear, Used, UseSize
<1>1. TypeOK'
  BY DEF IInv, TypeOK
<1>2. Framed'
  BY <1>0, StillFramed DEF IInv
<1>3. Waits'
  <2> DEFINE k == Len(msgs) + 1
  <2>0. Used \in Nat /\ HeaderSize \in Nat
    BY <1>0, ActiveFacts, StreamFacts DEF IInv
  <2>1. CASE Used <= HeaderSize
    BY <1>0, <2>1 DEF Waits
  <2>2. CASE HeaderSize < Used
    <3>1. k \in DOMAIN stream /\ LenOf(Header) = {stream[k]}
      BY <1>0, <2>2, HeaderRead
    <3>2. stream[k] > 0 /\ ~ (stream[k] + HeaderSize <= Used)
      BY <1>0, <2>0, <2>2, <3>1 DEF Complete
    <3>3. stream[k] \in Int
      BY <3>1, StreamFacts DEF IInv
    <3>4. Used < stream[k] + HeaderSize
      BY <2>0, <3>2, <3>3
    <3> QED
      BY <1>0, <3>1, <3>2, <3>4 DEF Waits
  <2> QED
    BY <2>0, <2>1, <2>2
<1> QED
  BY <1>1, <1>2, <1>3 DEF IInv, Offered, Cleared

LEMMA DisconnectKeeps == ASSUME IInv, Disconnect PROVE IInv'
<1> USE DEF Disconnect, ring, client
<1>1. TypeOK'
  BY DEF IInv, TypeOK
<1>2. Rear' = Rear /\ Used' = Used
  BY DEF Rear, Used
<1>3. Framed'
  BY <1>2, StillFramed DEF IInv, Active
<1> QED
  BY <1>1, <1>2, <1>3 DEF IInv, Offered, Cleared, Waits

LEMMA ReleaseKeeps == ASSUME IInv, ReleaseSession PROVE IInv'
<1> USE DEF ReleaseSession, client
<1>1. TypeOK'
  BY SizeAssumption DEF IInv, TypeOK, Offsets
<1>2. Framed'
  BY DEF IInv, Framed, Whole, Counted, Holds, Only, Active, StreamBytes
<1> QED
  BY <1>1, <1>2 DEF IInv, Offered, Cleared, Waits

LEMMA AcceptKeeps == ASSUME IInv, Accept PROVE IInv'
<1> USE DEF Accept, ring
<1>1. TypeOK'
  BY RecvFramingAssumption DEF IInv, TypeOK
<1>2. mFrontPtr' = 0 /\ mRearPtr' = 0 /\ pc' = "registerRecv"
  BY DEF IInv, Cleared
<1>3. 0 \in Offsets /\ GetUseSize(0, 0) = 0 /\ Rear' = 0 /\ Used' = 0
  BY <1>2, SizeAssumption DEF Offsets, GetUseSize, Rear, Used
<1>4. Len(msgs') = 0 /\ DOMAIN msgs' = {}
  OBVIOUS
<1>5. stream' \in Seq(Int) /\ Len(stream') \in Nat
  BY RecvFramingAssumption
<1>6. /\ StartsOf(stream')[1] = 0
      /\ StartsOf(stream')[Len(stream') + 1] \in Nat
  BY <1>5, StartsFacts
<1>7. Read' = 0
  BY <1>4, <1>6 DEF Read
<1>8. \A a \in 0 .. Size - 1 : mBuf'[a][1] < conn'
  <2>1. \A a \in 0 .. Size - 1 : mBuf[a] \in Bytes
    BY DEF IInv, TypeOK
  <2>2. \A a \in 0 .. Size - 1 : mBuf[a][1] \in Int
    BY <2>1, RecvFramingAssumption DEF Bytes
  <2>3. \A a \in 0 .. Size - 1 : mBuf[a][1] <= conn
    BY DEF IInv, Framed, Only
  <2> QED
    BY <2>2, <2>3, StreamFacts DEF IInv
<1>9. Framed'
  <2>1. Whole'
    BY <1>4, <1>5 DEF Whole
  <2>2. Counted'
    BY <1>3, <1>6, <1>7, SizeAssumption DEF Counted
  <2>3. Holds'
    BY <1>3 DEF Holds
  <2>4. Only'
    <3>1. \A a \in 0 .. Size - 1 : mBuf'[a][1] \in Int /\ conn' \in Int
      <4>1. \A a \in 0 .. Size - 1 : mBuf'[a] \in Bytes
        BY <1>1 DEF TypeOK
      <4> QED
        BY <4>1, StreamFacts DEF IInv, Bytes
    <3> QED
      BY <1>8, <3>1 DEF Only
  <2> QED
    BY <2>1, <2>2, <2>3, <2>4 DEF Framed
<1> QED
  <2>1. Waits'
    BY <1>3, RecvFramingAssumption DEF Waits
  <2> QED
    BY <1>1, <1>9, <2>1 DEF IInv, Offered, Cleared

\* The system writes the bytes behind the unread ones.
LEMMA ReceivedKeeps == ASSUME IInv, NEW n \in 1 .. Size, Received(n) PROVE IInv'
<1>0. /\ pc = "io" /\ Active /\ Rear = mRearPtr /\ n \in Nat /\ n > 0
      /\ pc' = "completeRecv" /\ Active' /\ Rear' = Move(mRearPtr, n)
      /\ mFrontPtr' = mFrontPtr /\ conn' = conn /\ stream' = stream /\ msgs' = msgs
      /\ sent' = sent + n /\ Read' = Read
  BY DEF Received, Active, Rear, Read
<1>1. /\ mFrontPtr \in Offsets /\ mRearPtr \in Offsets /\ Used \in Nat /\ Used <= Size - 1
      /\ Used = GetUseSize(mFrontPtr, mRearPtr)
      /\ GetFreeSize(mFrontPtr, mRearPtr) = Size - 1 - Used
      /\ Read \in Nat /\ sent = Read + Used /\ sent \in Nat /\ Size \in Nat /\ conn \in Nat
  BY <1>0, ActiveFacts, StreamFacts DEF IInv, Used
<1>2. /\ RoomLen = Size - 1 - Used
      /\ \A i \in 1 .. RoomLen : Place(i) = At(mFrontPtr, Used + i - 1)
  <2>1. wsabuf = RoomFrom(mFrontPtr, mRearPtr) /\ GetUseSize(mFrontPtr, mRearPtr) <= Size - 1
    BY <1>0, <1>1 DEF IInv, Offered
  <2> QED
    BY <1>1, <2>1, RoomPlaces
<1>3. Used + n <= Size - 1 /\ sent + n <= StartsOf(stream)[Len(stream) + 1]
  BY <1>0, <1>1, <1>2 DEF Received
<1>4. Rear' \in Offsets /\ Used' = Used + n
  BY <1>0, <1>1, <1>3, RearMoves DEF Used
<1>5. \A i \in 1 .. n : Place(i) = At(mFrontPtr, Used + i - 1) /\ Used + i - 1 \in 0 .. Size - 1
  <2> TAKE i \in 1 .. n
  <2>1. i \in 1 .. RoomLen /\ Used + i - 1 \in 0 .. Size - 1
    <3>1. i \in Nat /\ i > 0 /\ i <= n
      BY <1>0
    <3>2. RoomLen = Size - 1 - Used
      BY <1>2
    <3>3. n \in Nat /\ Used \in Nat /\ Size \in Nat /\ Used + n <= Size - 1
      BY <1>0, <1>1, <1>3
    <3>4. i <= RoomLen /\ RoomLen \in Int
      BY <3>1, <3>2, <3>3
    <3>5. Used + i - 1 \in 0 .. Size - 1
      BY <3>1, <3>3
    <3> QED
      BY <3>1, <3>4, <3>5
  <2> QED
    BY <1>2, <2>1
<1>6. \A i, j \in 1 .. n : Place(i) = Place(j) => i = j
  <2> TAKE i, j \in 1 .. n
  <2> SUFFICES ASSUME Place(i) = Place(j) PROVE i = j
    OBVIOUS
  <2>1. Used + i - 1 = Used + j - 1
    BY <1>1, <1>5, AtPlace
  <2> QED
    BY <1>1, <2>1
<1>7. ASSUME NEW i \in 1 .. n
      PROVE  Place(i) \in 0 .. Size - 1 /\ mBuf'[Place(i)] = <<conn, sent + i - 1>>
  <2>1. Place(i) \in 0 .. Size - 1
    BY <1>1, <1>5, AtPlace
  <2>2. (CHOOSE m \in 1 .. n : Place(m) = Place(i)) = i
    BY <1>6
  <2> HIDE DEF Place
  <2>3. mBuf'[Place(i)] = <<conn, sent + (CHOOSE m \in 1 .. n : Place(m) = Place(i)) - 1>>
    BY <2>1 DEF Received, IInv, TypeOK
  <2> QED
    BY <2>1, <2>2, <2>3
<1>8. ASSUME NEW a \in 0 .. Size - 1, \A i \in 1 .. n : Place(i) # a
      PROVE  mBuf'[a] = mBuf[a]
  BY <1>8 DEF Received, IInv, TypeOK
<1>9. TypeOK'
  <2>1. mBuf' \in [0 .. Size - 1 -> Bytes]
    <3>1. \A a \in 0 .. Size - 1 : mBuf'[a] \in Bytes
      <4> TAKE a \in 0 .. Size - 1
      <4>1. CASE \E i \in 1 .. n : Place(i) = a
        <5>1. PICK i \in 1 .. n : Place(i) = a
          BY <4>1
        <5>2. mBuf'[a] = <<conn, sent + i - 1>>
          BY <1>7, <5>1
        <5>3. sent + i - 1 \in Nat /\ conn \in 0 .. MaxConn
          BY <1>1 DEF IInv, TypeOK
        <5> QED
          BY <5>2, <5>3 DEF Bytes
      <4>2. CASE \A i \in 1 .. n : Place(i) # a
        BY <1>8, <4>2 DEF IInv, TypeOK
      <4> QED
        BY <4>1, <4>2
    <3>2. DOMAIN mBuf' = 0 .. Size - 1 /\ mBuf' = [a \in DOMAIN mBuf' |-> mBuf'[a]]
      BY DEF Received, IInv, TypeOK
    <3> QED
      BY <3>1, <3>2
  <2>2. n \in 0 .. Size /\ sent' \in Nat
    BY <1>0, <1>1
  <2> QED
    BY <2>1, <2>2, EmptySequence DEF Received, IInv, TypeOK
<1>10. Whole'
  BY <1>0 DEF IInv, Framed, Whole, StreamBytes
<1>11. Counted'
  BY <1>0, <1>1, <1>3, <1>4 DEF Counted
<1>12. Holds'
  <2> SUFFICES ASSUME NEW j \in 0 .. Used' - 1
               PROVE  mBuf'[At(mFrontPtr, j)] = <<conn, Read + j>>
    BY <1>0 DEF Holds
  <2>0. j \in 0 .. Size - 1
    <3>1. PICK u : u = Used + n
      OBVIOUS
    <3>2. j \in 0 .. u - 1
      BY <1>4, <3>1
    <3>3. u \in Int /\ u <= Size - 1 /\ Size \in Nat
      <4>1. n \in Nat
        BY <1>0
      <4>2. Used \in Nat /\ Size \in Nat
        BY <1>1
      <4>3. Used + n <= Size - 1
        BY <1>3
      <4> QED
        BY <3>1, <4>1, <4>2, <4>3
    <3> QED
      BY <3>2, <3>3
  <2>1. CASE j < Used
    <3>1. j \in 0 .. Used - 1 /\ At(mFrontPtr, j) \in 0 .. Size - 1
      BY <1>1, <2>0, <2>1, AtPlace
    <3>2. \A i \in 1 .. n : Place(i) # At(mFrontPtr, j)
      <4> TAKE i \in 1 .. n
      <4>1. Used + i - 1 # j
        BY <1>1, <2>1
      <4> QED
        BY <1>1, <1>5, <2>0, <4>1, AtPlace
    <3>3. mBuf'[At(mFrontPtr, j)] = mBuf[At(mFrontPtr, j)]
      BY <1>8, <3>1, <3>2
    <3> QED
      BY <1>0, <3>1, <3>3 DEF IInv, Framed, Holds
  <2>2. CASE Used <= j
    <3> DEFINE i == j - Used + 1
    <3>1. i \in 1 .. n /\ Used + i - 1 = j /\ sent + i - 1 = Read + j
      BY <1>0, <1>1, <1>4, <2>2
    <3> HIDE DEF i
    <3>2. mBuf'[Place(i)] = <<conn, sent + i - 1>> /\ Place(i) = At(mFrontPtr, j)
      BY <1>5, <1>7, <3>1
    <3> QED
      BY <3>1, <3>2
  <2> QED
    BY <1>1, <2>0, <2>1, <2>2
<1>13. Only'
  <2>1. ASSUME NEW a \in 0 .. Size - 1, \A i \in 1 .. n : Place(i) # a
        PROVE  /\ mBuf'[a][1] <= conn
               /\ mBuf'[a][1] = conn /\ mBuf'[a][2] >= Read =>
                    \E j \in 0 .. Used' - 1 : a = At(mFrontPtr, j)
    <3>1. mBuf'[a] = mBuf[a]
      BY <1>8, <2>1
    <3>2. 0 .. Used - 1 \subseteq 0 .. Used' - 1
      BY <1>0, <1>1, <1>4
    <3> QED
      BY <1>0, <3>1, <3>2 DEF IInv, Framed, Only
  <2>2. ASSUME NEW i \in 1 .. n
        PROVE  /\ mBuf'[Place(i)][1] <= conn
               /\ \E j \in 0 .. Used' - 1 : Place(i) = At(mFrontPtr, j)
    <3>1. mBuf'[Place(i)][1] = conn
      BY <1>7
    <3>2. Used + i - 1 \in 0 .. Used' - 1
      BY <1>0, <1>1, <1>4
    <3> QED
      BY <1>1, <1>5, <3>1, <3>2
  <2>3. ASSUME NEW a \in 0 .. Size - 1
        PROVE  /\ mBuf'[a][1] <= conn
               /\ mBuf'[a][1] = conn /\ mBuf'[a][2] >= Read =>
                    \E j \in 0 .. Used' - 1 : a = At(mFrontPtr, j)
    <3>1. CASE \E i \in 1 .. n : Place(i) = a
      BY <2>2, <3>1
    <3>2. CASE \A i \in 1 .. n : Place(i) # a
      BY <2>1, <3>2
    <3> QED
      BY <3>1, <3>2
  <2> QED
    BY <1>0, <2>3 DEF Only
<1> QED
  BY <1>0, <1>9, <1>10, <1>11, <1>12, <1>13 DEF IInv, Framed, Offered, Cleared, Waits

LEMMA StreamBytesType ==
  ASSUME conn \in 0 .. MaxConn, NEW p \in Nat, NEW n \in Nat
  PROVE  StreamBytes(p, n) \in Seq(Bytes)
<1>1. \A i \in 1 .. n : <<conn, p + i - 1>> \in Bytes
  BY DEF Bytes
<1> QED
  BY <1>1 DEF StreamBytes

LEMMA TakeFrameKeeps == ASSUME IInv, TakeFrame PROVE IInv'
<1> DEFINE k  == Len(msgs) + 1
           n  == stream[k]
           f1 == Move(mFrontPtr, HeaderSize)
           f2 == Move(f1, n)
<1>0. /\ pc = "header" /\ pc' = "header" /\ Active /\ Active' /\ Rear = mRearPtr /\ Rear' = Rear
      /\ Used = UseSize /\ HeaderSize < UseSize
      /\ UNCHANGED <<mBuf, mRearPtr, wsabuf, mLive, transferred, conn, stream, sent>>
  BY DEF TakeFrame, Active, Rear, Used, UseSize, client
<1>1. k \in DOMAIN stream /\ LenOf(Header) = {stream[k]}
  BY <1>0, HeaderRead
<1>2. /\ n > 0 /\ n + HeaderSize <= Used
      /\ msgs' = Append(msgs, Peek(mBuf, f1, mRearPtr, n))
      /\ mFrontPtr' = f2
  BY <1>0, <1>1 DEF TakeFrame, Complete, Payload
<1>3. /\ mFrontPtr \in Offsets /\ Rear \in Offsets /\ Used \in Nat /\ Used <= Size - 1
      /\ Read \in Nat /\ sent = Read + Used /\ conn \in Nat /\ HeaderSize \in Nat
      /\ n \in Nat /\ Size \in Nat /\ Len(msgs) \in Nat /\ conn \in 0 .. MaxConn
  <2>1. stream[k] \in Int
    BY <1>1, StreamFacts DEF IInv
  <2>2. n \in Nat
    BY <1>2, <2>1
  <2>3. conn \in Nat /\ HeaderSize \in Nat /\ Size \in Nat /\ Len(msgs) \in Nat /\ conn \in 0 .. MaxConn
    BY StreamFacts DEF IInv, TypeOK
  <2> QED
    BY <1>0, <2>2, <2>3, ActiveFacts
<1> HIDE DEF n, f1, f2
<1>4. /\ f1 \in Offsets /\ GetUseSize(f1, Rear) = Used - HeaderSize
      /\ \A j \in Nat : HeaderSize + j < Used => At(f1, j) = At(mFrontPtr, HeaderSize + j)
  <2>1. HeaderSize <= GetUseSize(mFrontPtr, Rear) /\ GetUseSize(mFrontPtr, Rear) = Used
        /\ GetUseSize(mFrontPtr, Rear) <= Size - 1
    BY <1>0, <1>3 DEF Used
  <2> QED
    BY <1>3, <2>1, FrontMoves DEF f1
<1>5. /\ f2 \in Offsets /\ GetUseSize(f2, Rear) = Used - HeaderSize - n
      /\ \A j \in Nat : HeaderSize + n + j < Used => At(f2, j) = At(mFrontPtr, HeaderSize + n + j)
  <2>1. n <= GetUseSize(f1, Rear) /\ GetUseSize(f1, Rear) <= Size - 1
    BY <1>2, <1>3, <1>4
  <2>2. /\ f2 \in Offsets /\ GetUseSize(f2, Rear) = GetUseSize(f1, Rear) - n
        /\ \A j \in Nat : n + j < GetUseSize(f1, Rear) => At(f2, j) = At(f1, n + j)
    BY <1>3, <1>4, <2>1, FrontMoves DEF f2
  <2>3. ASSUME NEW j \in Nat, HeaderSize + n + j < Used
        PROVE  At(f2, j) = At(mFrontPtr, HeaderSize + n + j)
    <3>1. n + j \in Nat /\ n + j < GetUseSize(f1, Rear) /\ HeaderSize + (n + j) < Used
          /\ HeaderSize + (n + j) = HeaderSize + n + j
      BY <1>3, <1>4, <2>3
    <3> QED
      BY <1>4, <2>2, <3>1
  <2> QED
    BY <1>4, <2>2, <2>3
<1>6. /\ Len(msgs') = k /\ DOMAIN msgs' = 1 .. k
      /\ \A i \in DOMAIN msgs : msgs'[i] = msgs[i]
      /\ msgs'[k] = Peek(mBuf, f1, mRearPtr, n)
  <2>1. msgs \in Seq(Seq(Bytes))
    BY DEF IInv, TypeOK
  <2>2. PICK frame : frame = Peek(mBuf, f1, mRearPtr, n)
    OBVIOUS
  <2>3. msgs' = Append(msgs, frame)
    BY <1>2, <2>2
  <2>4. /\ Len(msgs') = Len(msgs) + 1 /\ DOMAIN msgs' = 1 .. Len(msgs) + 1
        /\ \A i \in DOMAIN msgs : msgs'[i] = msgs[i]
        /\ msgs'[Len(msgs) + 1] = frame
    BY <2>1, <2>3
  <2> QED
    BY <2>2, <2>4
<1>7. Read' = Read + HeaderSize + n
  <2>1. StartsOf(stream)[k + 1] = StartsOf(stream)[k] + Frame(stream, k)
    BY <1>1, StartsFacts, StreamFacts DEF IInv
  <2>2. Frame(stream, k) = HeaderSize + n
    BY <1>2, <1>3 DEF Frame, n
  <2>3. Read' = StartsOf(stream)[k + 1] /\ Read = StartsOf(stream)[k]
    BY <1>0, <1>6 DEF Read
  <2> QED
    BY <1>3, <2>1, <2>2, <2>3
<1>8. Used' = Used - HeaderSize - n /\ Rear' \in Offsets /\ Used' \in Nat
  BY <1>0, <1>2, <1>3, <1>5 DEF Used
<1>9. Peek(mBuf, f1, mRearPtr, n) = StreamBytes(Read + HeaderSize, n)
  <2>1. n <= GetUseSize(f1, mRearPtr) /\ GetUseSize(f1, mRearPtr) <= Size - 1
    BY <1>0, <1>2, <1>3, <1>4
  <2>2. Peek(mBuf, f1, mRearPtr, n) = Unread(mBuf, f1, n)
    BY <1>0, <1>3, <1>4, <2>1, PeekReads
  <2>3. \A i \in 1 .. n : mBuf[At(f1, i - 1)] = <<conn, Read + HeaderSize + i - 1>>
    <3> TAKE i \in 1 .. n
    <3>1. i - 1 \in Nat /\ HeaderSize + (i - 1) \in 0 .. Used - 1
          /\ HeaderSize + (i - 1) < Used
          /\ Read + (HeaderSize + (i - 1)) = Read + HeaderSize + i - 1
      BY <1>2, <1>3
    <3>2. At(f1, i - 1) = At(mFrontPtr, HeaderSize + (i - 1))
      BY <1>4, <3>1
    <3>3. mBuf[At(mFrontPtr, HeaderSize + (i - 1))] = <<conn, Read + (HeaderSize + (i - 1))>>
      BY <1>0, <3>1 DEF IInv, Framed, Holds
    <3> QED
      BY <3>1, <3>2, <3>3
  <2>4. Unread(mBuf, f1, n) = StreamBytes(Read + HeaderSize, n)
    BY <2>3, Zenon DEF Unread, StreamBytes
  <2> QED
    BY <2>2, <2>4
<1>10. TypeOK'
  <2>0. Read + HeaderSize \in Nat
    BY <1>3
  <2>1. StreamBytes(Read + HeaderSize, n) \in Seq(Bytes)
    BY <1>3, <2>0, StreamBytesType
  <2>2. msgs' \in Seq(Seq(Bytes))
    BY <1>2, <1>9, <2>1 DEF IInv, TypeOK
  <2> QED
    BY <1>0, <1>2, <1>5, <2>2 DEF IInv, TypeOK
<1>11. Whole'
  <2>1. Len(msgs') <= Len(stream')
    BY <1>0, <1>1, <1>6, StreamFacts DEF IInv
  <2>2. ASSUME NEW i \in DOMAIN msgs'
        PROVE  /\ stream'[i] > 0
               /\ msgs'[i] = StreamBytes(StartsOf(stream)[i] + HeaderSize, stream[i])
    <3>1. CASE i = k
      BY <1>0, <1>2, <1>6, <1>9, <3>1 DEF Read, n
    <3>2. CASE i # k
      <4>1. i \in DOMAIN msgs
        BY <1>3, <1>6, <3>2, StreamFacts DEF IInv
      <4> QED
        BY <1>0, <1>6, <4>1 DEF IInv, Framed, Whole
    <3> QED
      BY <3>1, <3>2
  <2> QED
    BY <1>0, <2>1, <2>2 DEF Whole, StreamBytes
<1>12. Counted'
  <2>1. sent <= StartsOf(stream)[Len(stream) + 1]
    BY <1>0 DEF IInv, Framed, Counted
  <2>2. Used' <= Size - 1 /\ sent' = Read' + Used'
    BY <1>0, <1>2, <1>3, <1>7, <1>8
  <2> QED
    BY <1>0, <1>8, <2>1, <2>2 DEF Counted
<1>13. Holds'
  <2> SUFFICES ASSUME NEW j \in 0 .. Used' - 1
               PROVE  mBuf[At(f2, j)] = <<conn, Read' + j>>
    BY <1>0, <1>2 DEF Holds
  <2>1. /\ j \in Nat /\ HeaderSize + n + j < Used /\ HeaderSize + n + j \in 0 .. Used - 1
        /\ Read + (HeaderSize + n + j) = Read' + j
    BY <1>3, <1>7, <1>8
  <2>2. mBuf[At(mFrontPtr, HeaderSize + n + j)] = <<conn, Read + (HeaderSize + n + j)>>
    BY <1>0, <2>1 DEF IInv, Framed, Holds
  <2> QED
    BY <1>5, <2>1, <2>2
<1>14. Only'
  <2>1. ASSUME NEW a \in 0 .. Size - 1, mBuf[a][1] = conn, mBuf[a][2] >= Read'
        PROVE  \E j \in 0 .. Used' - 1 : a = At(f2, j)
    <3>1. mBuf[a][2] \in Nat
      <4>1. mBuf[a] \in Bytes
        BY DEF IInv, TypeOK
      <4> QED
        BY <4>1 DEF Bytes
    <3>2. mBuf[a][2] >= Read
      BY <1>3, <1>7, <2>1, <3>1
    <3>3. PICK j \in 0 .. Used - 1 : a = At(mFrontPtr, j)
      BY <1>0, <2>1, <3>2 DEF IInv, Framed, Only
    <3>4. mBuf[a][2] = Read + j
      BY <1>0, <3>3 DEF IInv, Framed, Holds
    <3> DEFINE m == j - HeaderSize - n
    <3>5. m \in 0 .. Used' - 1 /\ m \in Nat /\ HeaderSize + n + m = j /\ j < Used
      BY <1>3, <1>7, <1>8, <2>1, <3>4
    <3> HIDE DEF m
    <3>6. a = At(f2, m)
      BY <1>5, <3>3, <3>5
    <3> QED
      BY <3>5, <3>6
  <2>2. \A a \in 0 .. Size - 1 : mBuf[a][1] <= conn
    BY DEF IInv, Framed, Only
  <2> QED
    BY <1>0, <1>2, <2>1, <2>2 DEF Only
<1> QED
  BY <1>0, <1>10, <1>11, <1>12, <1>13, <1>14 DEF IInv, Framed, Offered, Cleared, Waits

LEMMA NextKeeps == ASSUME IInv, [Next]_vars PROVE IInv'
<1>1. CASE Worker
  BY <1>1, CompleteRecvKeeps, BadHeaderKeeps, TakeFrameKeeps, IncompleteKeeps, RegisterRecvKeeps
     DEF Worker
<1>2. CASE \E n \in 1 .. Size : Received(n)
  BY <1>2, ReceivedKeeps
<1>3. CASE UNCHANGED vars
  <2> USE <1>3 DEF vars, ring, client
  <2>1. Rear' = Rear /\ Active' = Active /\ Used' = Used
    BY DEF Rear, Active, Used
  <2>2. TypeOK'
    BY DEF IInv, TypeOK
  <2>3. Framed'
    BY <2>1, StillFramed DEF IInv
  <2> QED
    BY <2>1, <2>2, <2>3 DEF IInv, Offered, Cleared, Waits
<1> QED
  BY <1>1, <1>2, <1>3, ReceiveEndsKeeps, DisconnectKeeps, ReleaseKeeps, AcceptKeeps DEF Next

LEMMA InvHolds == Spec => []IInv
  BY InitInv, NextKeeps, PTL DEF Spec

-----------------------------------------------------------------------------
(* The theorems *)

\* The offsets stay in the buffer, what is delivered and what is stored are bytes of
\* the connections: registerRecv, completeRecv and ReleaseSession keep the types.
THEOREM TypeCorrect == Spec => []TypeOK
<1>1. IInv => TypeOK
  BY DEF IInv
<1> QED
  BY <1>1, InvHolds, PTL

\* onRecv is given the payloads of the client's frames, whole and in order, for every
\* size of the buffer and of the header and every stream.
THEOREM DeliveredHolds == Spec => []Delivered
<1>1. IInv => Delivered
  <2> SUFFICES ASSUME IInv PROVE Delivered
    OBVIOUS
  <2>1. \A i \in DOMAIN msgs : i <= Len(stream)
    BY StreamFacts DEF IInv, Framed, Whole
  <2> QED
    BY <2>1 DEF IInv, Framed, Whole, Delivered
<1> QED
  BY <1>1, InvHolds, PTL

\* registerRecv gives WSARecv some room, and no room that holds unread bytes.
THEOREM RoomIsFreeHolds == Spec => []RoomIsFree
<1>1. IInv => RoomIsFree
  <2> SUFFICES ASSUME IInv, pc = "io" PROVE
         /\ RoomLen > 0
         /\ \A i \in 1 .. RoomLen :
              /\ Place(i) \in DOMAIN mBuf
              /\ \A j \in 1 .. UseSize : mBuf[Place(i)] # StreamBytes(Read, UseSize)[j]
    BY DEF RoomIsFree
  <2>1. Active /\ Rear = mRearPtr /\ Used = UseSize
    BY DEF Active, Rear, Used, UseSize
  <2>2. /\ mFrontPtr \in Offsets /\ mRearPtr \in Offsets /\ UseSize \in Nat
        /\ UseSize <= Size - 1 /\ Read \in Nat /\ Size \in Nat
        /\ GetFreeSize(mFrontPtr, mRearPtr) = Size - 1 - UseSize
    BY <2>1, ActiveFacts, StreamFacts DEF IInv
  <2>3. /\ RoomLen = Size - 1 - UseSize /\ RoomLen # 0
        /\ \A i \in 1 .. RoomLen : Place(i) = At(mFrontPtr, UseSize + i - 1)
    <3>1. wsabuf = RoomFrom(mFrontPtr, mRearPtr) /\ GetFreeSize(mFrontPtr, mRearPtr) # 0
          /\ GetUseSize(mFrontPtr, mRearPtr) <= Size - 1
      BY <2>2 DEF IInv, Offered, UseSize
    <3> QED
      BY <2>2, <3>1, RoomPlaces DEF UseSize
  <2>4. ASSUME NEW i \in 1 .. RoomLen
        PROVE  /\ Place(i) \in DOMAIN mBuf
               /\ \A j \in 1 .. UseSize : mBuf[Place(i)] # StreamBytes(Read, UseSize)[j]
    <3>1. UseSize + i - 1 \in 0 .. Size - 1 /\ Place(i) = At(mFrontPtr, UseSize + i - 1)
      BY <2>2, <2>3
    <3>2. Place(i) \in 0 .. Size - 1
      BY <2>2, <3>1, AtPlace
    <3>3. ASSUME NEW j \in 1 .. UseSize, mBuf[Place(i)] = StreamBytes(Read, UseSize)[j]
          PROVE  FALSE
      <4>1. mBuf[Place(i)][1] = conn /\ mBuf[Place(i)][2] = Read + j - 1
        BY <3>3 DEF StreamBytes
      <4>2. mBuf[Place(i)][2] >= Read
        BY <2>2, <4>1
      <4>3. PICK m \in 0 .. Used - 1 : Place(i) = At(mFrontPtr, m)
        BY <2>1, <3>2, <4>1, <4>2 DEF IInv, Framed, Only
      <4>4. m \in 0 .. Size - 1 /\ UseSize + i - 1 # m
        BY <2>1, <2>2
      <4> QED
        BY <2>2, <3>1, <4>3, <4>4, AtPlace
    <3> QED
      BY <3>2, <3>3 DEF IInv, TypeOK
  <2> QED
    BY <2>2, <2>3, <2>4
<1> QED
  BY <1>1, InvHolds, PTL

\* While a receive is outstanding, every complete frame has gone to onRecv, and no
\* more than one byte has come after the header of a bad one.
THEOREM NoFrameLeftHolds == Spec => []NoFrameLeft
<1>1. IInv => NoFrameLeft
  <2> SUFFICES ASSUME IInv, pc = "io", NEW i \in DOMAIN stream
               PROVE  /\ sent >= StartsOf(stream)[i + 1] /\ stream[i] > 0 => Len(msgs) >= i
                      /\ stream[i] <= 0 => sent <= StartsOf(stream)[i] + HeaderSize
    BY DEF NoFrameLeft
  <2> DEFINE k == Len(msgs) + 1
             s == StartsOf(stream)
  <2>0. Active
    BY DEF Active
  <2>1. /\ stream \in Seq(Int) /\ DOMAIN stream = 1 .. Len(stream) /\ Len(stream) \in Nat
        /\ Len(msgs) \in Nat /\ HeaderSize \in Nat /\ HeaderSize > 0 /\ Used \in Nat
        /\ sent = s[k] + Used /\ Len(msgs) <= Len(stream) /\ stream[i] \in Int
    BY <2>0, ActiveFacts, StreamFacts DEF IInv, Read
  <2>2. /\ \A m \in DOMAIN stream : s[m + 1] = s[m] + Frame(stream, m)
        /\ \A m \in DOMAIN stream : Frame(stream, m) \in Nat /\ Frame(stream, m) >= HeaderSize
        /\ \A m \in 1 .. Len(stream) + 1 : s[m] \in Nat
    BY <2>1, StartsFacts
  <2>3. \A m \in DOMAIN stream, j \in 1 .. Len(stream) + 1 :
           m < j => s[m] + Frame(stream, m) <= s[j]
    BY <2>1, StartsGrow
  <2> HIDE DEF s
  <2>4. \/ Used <= HeaderSize
        \/ k \in DOMAIN stream /\ stream[k] > 0 /\ Used < stream[k] + HeaderSize
    BY DEF IInv, Waits
  <2>5. s[i] \in Nat /\ s[i + 1] \in Nat /\ s[i + 1] = s[i] + Frame(stream, i)
        /\ k \in 1 .. Len(stream) + 1 /\ s[k] \in Nat
    BY <2>1, <2>2, SMTT(30)
  <2>6. CASE i <= Len(msgs)
    <3>1. stream[i] > 0
      BY <2>1, <2>6 DEF IInv, Framed, Whole
    <3> QED
      BY <2>1, <2>6, <3>1
  <2>7. CASE i = k
    <3>1. Frame(stream, i) = HeaderSize + (IF stream[i] < 0 THEN 0 ELSE stream[i])
      BY DEF Frame
    <3>2. sent = s[i] + Used /\ s[i + 1] = s[i] + Frame(stream, i)
      BY <2>1, <2>5, <2>7
    <3>3. stream[i] > 0 => Used < HeaderSize + stream[i]
      BY <2>1, <2>4, <2>7
    <3>4. stream[i] <= 0 => Used <= HeaderSize
      BY <2>1, <2>4, <2>7
    <3>5. stream[i] > 0 => sent < s[i + 1]
      <4>1. stream[i] > 0 => Frame(stream, i) = HeaderSize + stream[i]
        BY <2>1, <3>1
      <4>2. HeaderSize \in Nat /\ stream[i] \in Int /\ s[i] \in Nat /\ Used \in Nat
        BY <2>1, <2>5
      <4>3. stream[i] > 0 => s[i] + Used < s[i] + (HeaderSize + stream[i])
        BY <3>3, <4>2
      <4> QED
        BY <3>2, <4>1, <4>3
    <3>6. stream[i] <= 0 => sent <= s[i] + HeaderSize
      BY <2>1, <2>5, <3>2, <3>4
    <3>7. sent \in Int /\ s[i + 1] \in Int
      BY <2>5, StreamFacts DEF IInv
    <3> HIDE DEF k
    <3> QED
      BY <3>5, <3>6, <3>7 DEF s
  <2>8. CASE k < i
    <3>1. k \in DOMAIN stream /\ stream[k] \in Int /\ i \in 1 .. Len(stream) + 1
      BY <2>1, <2>8
    <3>2. s[k] + Frame(stream, k) <= s[i]
      BY <2>3, <2>8, <3>1
    <3>3. Frame(stream, k) = HeaderSize + (IF stream[k] < 0 THEN 0 ELSE stream[k])
      BY DEF Frame
    <3>4. Used <= Frame(stream, k)
      <4>1. CASE Used <= HeaderSize
        BY <2>1, <3>1, <3>3, <4>1
      <4>2. CASE stream[k] > 0 /\ Used < stream[k] + HeaderSize
        BY <2>1, <3>1, <3>3, <4>2
      <4> QED
        BY <2>4, <4>1, <4>2
    <3>5. Frame(stream, k) \in Nat /\ Frame(stream, i) \in Nat /\ Frame(stream, i) >= HeaderSize
      BY <2>2, <3>1
    <3>6. sent <= s[i] /\ sent < s[i + 1]
      <4> HIDE DEF k
      <4>1. sent = s[k] + Used /\ s[k] \in Nat /\ Used \in Nat /\ s[i] \in Nat
            /\ s[i + 1] = s[i] + Frame(stream, i) /\ HeaderSize \in Nat /\ HeaderSize > 0
        BY <2>1, <2>5
      <4>2. sent <= s[i]
        BY <3>2, <3>4, <3>5, <4>1
      <4> QED
        BY <3>5, <4>1, <4>2
    <3>7. sent \in Int /\ s[i] \in Int /\ s[i + 1] \in Int
      BY <2>5, StreamFacts DEF IInv
    <3> HIDE DEF k
    <3> QED
      BY <2>1, <3>6, <3>7, SMTT(30) DEF s
  <2> QED
    BY <2>1, <2>6, <2>7, <2>8
<1> QED
  BY <1>1, InvHolds, PTL

\* The ring has room for a byte.
Roomy == Size > 1

\* completeRecv and registerRecv disconnect a client only for a frame that is empty,
\* negative or longer than the buffer takes.
THEOREM ClosesOnlyBadHolds == ASSUME Roomy PROVE Spec => ClosesOnlyBad
<1> DEFINE Closes == mLive /\ pc \in {"header", "registerRecv"} /\ pc' = "closed"
           k      == Len(msgs) + 1
           Bad    == k <= Len(stream) /\ (stream[k] <= 0 \/ stream[k] + HeaderSize > Size - 1)
<1>1. ASSUME IInv, [Next]_vars PROVE [Closes => Bad]_vars
  <2> SUFFICES ASSUME Next, Closes PROVE Bad
    BY <1>1
  <2>0. DOMAIN stream = 1 .. Len(stream) /\ HeaderSize \in Nat /\ Size \in Nat
        /\ (k \in DOMAIN stream => k <= Len(stream) /\ stream[k] \in Int)
    BY <1>1, StreamFacts DEF IInv
  <2>1. CASE BadHeader
    <3>1. k \in DOMAIN stream /\ LenOf(Header) = {stream[k]}
      BY <1>1, <2>1, HeaderRead DEF BadHeader
    <3>2. stream[k] <= 0
      BY <2>1, <3>1 DEF BadHeader
    <3> QED
      BY <2>0, <3>1, <3>2
  <2>2. CASE RegisterRecv
    <3>0. pc = "registerRecv" /\ Active /\ Rear = mRearPtr
      BY <2>2 DEF RegisterRecv, Active, Rear
    <3>1. GetFreeSize(mFrontPtr, mRearPtr) = 0
      BY <2>2 DEF RegisterRecv
    <3>2. Used = Size - 1 /\ Used > 0
      BY <1>1, <2>0, <3>0, <3>1, ActiveFacts DEF Roomy
    <3>3. k \in DOMAIN stream
      BY <1>1, <3>0, <3>2, FrameThere
    <3>4. \/ Used <= HeaderSize
          \/ stream[k] > 0 /\ Used < stream[k] + HeaderSize
      BY <1>1, <3>0 DEF IInv, Waits
    <3>5. stream[k] <= 0 \/ stream[k] + HeaderSize > Size - 1
      <4>1. stream[k] \in Int
        BY <2>0, <3>3
      <4> HIDE DEF k
      <4> QED
        BY <2>0, <3>2, <3>4, <4>1
    <3> QED
      BY <2>0, <3>3, <3>5
  <2>3. BadHeader \/ RegisterRecv
    BY DEF Next, Worker, CompleteRecv, TakeFrame, Incomplete, Received, ReceiveEnds,
           Disconnect, ReleaseSession, Accept
  <2> QED
    BY <2>1, <2>2, <2>3
<1> QED
  BY <1>1, InvHolds, PTL DEF Spec, ClosesOnlyBad

=============================================================================
