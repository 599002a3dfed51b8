---------------------------- MODULE StreamerLife ----------------------------
(***************************************************************************)
(* A streamer as its owner sees it (TTsStreamer in forkzstream.cpp): calls *)
(* that follow one another, a playing thread that is started and joined,   *)
(* and handlers of which one at a time is left undeleted.  ForkSession     *)
(* makes these calls, TTsStreamer says what goes on inside them; both      *)
(* implement this module.                                                  *)
(***************************************************************************)
EXTENDS Naturals

CONSTANT MaxHandlers  \* bound: handlers that are ever made

Handlers == 1..MaxHandlers

VARIABLES
  stage,    \* the call that is under way, and how far it is
  playing,  \* there is a playing thread that was not joined
  handler,  \* the handler in charge, 0 is none
  deleted   \* the handlers that are no more

lifeVars == <<stage, playing, handler, deleted>>

Init == stage = "idle" /\ playing = FALSE /\ handler = 0 /\ deleted = {}

(* stop_play_thread, for a start and for the deletion of the streamer.     *)
Stop ==
  /\ stage = "idle"
  /\ stage' \in {"starting", "deleting"}
  /\ UNCHANGED <<playing, handler, deleted>>

Joined ==
  /\ stage \in {"starting", "deleting"} /\ playing
  /\ playing' = FALSE
  /\ UNCHANGED <<stage, handler, deleted>>

Play ==
  /\ stage = "starting" /\ ~playing
  /\ stage' = "creating" /\ playing' = TRUE
  /\ UNCHANGED <<handler, deleted>>

Retire == deleted' = deleted \cup ({handler} \ {0})

(* create_stream: a handler later than all before it takes the place of    *)
(* the old one, which is deleted, or the old one stays.                    *)
Create ==
  /\ stage = "creating" /\ stage' = "idle"
  /\ \/ /\ \E h \in Handlers :
             /\ h > handler /\ \A d \in deleted : h > d
             /\ handler' = h
        /\ Retire
     \/ UNCHANGED <<handler, deleted>>
  /\ UNCHANGED playing

Delete ==
  /\ stage = "deleting" /\ ~playing
  /\ stage' = "gone"
  /\ Retire /\ handler' = 0
  /\ UNCHANGED playing

Next == Stop \/ Joined \/ Play \/ Create \/ Delete

Spec == Init /\ [][Next]_lifeVars
=============================================================================
