---------------------------- MODULE MCAdbWebusb ----------------------------
(* AdbWebusb with two streams for TLC. *)
EXTENDS AdbWebusb

\* Two writes, or one of two chunks, on the first stream; one write on the other.
MCChunks == [s \in Streams |-> IF s = 1 THEN 2 ELSE 1]

\* Only the first stream carries data back.
MCReplies == [s \in Streams |-> IF s = 1 THEN 1 ELSE 0]

MCLeftovers == {Msg("OKAY", 1, 0), Msg("CLSE", 1, 0), Msg("AUTH", 0, 0)}
=============================================================================
