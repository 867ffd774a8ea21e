--------------------------- MODULE MCRecvFraming ----------------------------
(* A small instance of RecvFraming for TLC. *)
EXTENDS RecvFraming

\* Short frames, the longest that fits, frames that do not fit, bad ones.
MCStreams == {<<1, 5, 2>>, <<5, 5>>, <<2, 6>>, <<3, 0, 1>>, <<4, -1, 2>>, <<1, 1, 1, 1>>}
=============================================================================
