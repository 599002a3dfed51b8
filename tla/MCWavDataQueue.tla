--------------------------- MODULE MCWavDataQueue ---------------------------
(***************************************************************************)
(* Instances of WavDataQueue for TLC.                                      *)
(***************************************************************************)
EXTENDS WavDataQueue

(* The whole class, with a capacity that can be set and lifted.            *)
AllMethods ==
  {"push", "push_end", "pop", "try_pop", "last_pop", "clear",
   "set_max_capacity"}

(* What a peer and a playing thread use, with a capacity: utterances with  *)
(* their end, and neither of the blocking or unannounced ways out.         *)
UtteranceMethods == AllMethods \ {"pop", "last_pop"}

(* The calls the module makes: the websocket worker pushes, the playing    *)
(* thread uses try_pop, both sides clear; the capacity stays at 0.         *)
ModuleMethods == {"push", "push_end", "try_pop", "clear"}
=============================================================================
