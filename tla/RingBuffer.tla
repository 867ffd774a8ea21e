----------------------------- MODULE RingBuffer -----------------------------
(* The arithmetic of utility::RingBuffer: two offsets into Size bytes, the   *)
(* first unread byte f (mFrontPtr) and the first free byte r (mRearPtr).  An *)
(* offset may stand at Size, one past the last byte: MoveFront and MoveRear  *)
(* wrap only what has gone beyond it.                                        *)
EXTENDS Integers, Sequences

CONSTANT Size          \* iBufferSize; one byte is never used

ASSUME SizeAssumption == Size \in Nat \ {0}

Offsets == 0 .. Size

GetUseSize(f, r)  == IF f <= r THEN r - f ELSE Size - f + r

\* Mutant: two bytes are kept back.
FreeButTwo(f, r) == IF f <= r THEN (Size - r) + f - 2 ELSE f - r - 2

GetFreeSize(f, r) == IF f <= r THEN (Size - r) + f - 1 ELSE f - r - 1

DirectEnqueueSize(f, r) ==
  IF f = 0 /\ f <= r THEN Size - r - 1
  ELSE IF f <= r THEN Size - r ELSE f - r - 1

DirectDequeueSize(f, r) == IF f <= r THEN r - f ELSE Size - f

\* Mutant: an offset beyond the end is left there.
MoveOn(p, n) == p + n

\* MoveFront, MoveRear
Move(p, n) == IF Size < p + n THEN p + n - Size ELSE p + n

\* The first n unread bytes of buf, as Peek, Dequeue and the two PutData of
\* completeRecv copy them: up to the end, then from the beginning.
Peek(buf, f, r, n) ==
  LET direct == DirectDequeueSize(f, r) IN
  [i \in 1 .. n |-> IF i <= direct THEN buf[f + i - 1] ELSE buf[i - direct - 1]]
=============================================================================
