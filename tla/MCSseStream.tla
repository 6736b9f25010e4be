---------------------------- MODULE MCSseStream ----------------------------
(* SseStream for TLC.                                                      *)
EXTENDS SseStream
=============================================================================
