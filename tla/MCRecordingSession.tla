------------------------- MODULE MCRecordingSession -------------------------
(* RecordingSession with short traces for TLC. *)
EXTENDS RecordingSession

\* A packet of two slices and one of one slice.
TwoPackets == <<2, 1>>
=============================================================================
