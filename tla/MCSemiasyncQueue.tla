------------------------- MODULE MCSemiasyncQueue -------------------------
(* Half, one and one and a half units of work; a thread is worth two units. *)
EXTENDS SemiasyncQueue
===========================================================================
