------------------------------ MODULE AudioPath ------------------------------
(***************************************************************************)
(* What the streamer of a call promises about the audio its caller hears:  *)
(* connections follow one another and never overlap; a frame is said by    *)
(* the live connection, travels in order and is heard once or dropped; a   *)
(* clear leaves at most the frame that is already in the player's hand.    *)
(* No flag, pointer, lock or join is visible here.                         *)
(***************************************************************************)
EXTENDS Naturals, Sequences

CONSTANT MaxStarts  \* bound: start commands

Gens == 1..MaxStarts

VARIABLES
  started,  \* number of start commands
  line,     \* each connection: new, live, over
  air,      \* the frames on their way, as the connection that said them
  heard     \* the frame heard last

pathVars == <<started, line, air, heard>>

Init ==
  /\ started = 0
  /\ line = [g \in Gens |-> "new"]
  /\ air = <<>>
  /\ heard = 0

Start ==
  /\ started < MaxStarts
  /\ started' = started + 1
  /\ UNCHANGED <<line, air, heard>>

(* A connection of a past start, later than all before it, and alone.      *)
Connect(g) ==
  /\ g <= started
  /\ \A h \in Gens : line[h] # "live" /\ (h >= g => line[h] = "new")
  /\ line' = [line EXCEPT ![g] = "live"]
  /\ UNCHANGED <<started, air, heard>>

Say(g) ==
  /\ line[g] = "live"
  /\ air' = Append(air, g)
  /\ UNCHANGED <<started, line, heard>>

HangUp(g) ==
  /\ line[g] = "live"
  /\ line' = [line EXCEPT ![g] = "over"]
  /\ UNCHANGED <<started, air, heard>>

Hear ==
  /\ air # <<>>
  /\ heard' = Head(air) /\ air' = Tail(air)
  /\ UNCHANGED <<started, line>>

Drop ==
  /\ air # <<>>
  /\ air' = Tail(air)
  /\ UNCHANGED <<started, line, heard>>

Flush ==
  /\ \E k \in 0..1 : k <= Len(air) /\ air' = SubSeq(air, 1, k)
  /\ UNCHANGED <<started, line, heard>>

Next ==
  \/ Start \/ Hear \/ Drop \/ Flush
  \/ \E g \in Gens : Connect(g) \/ Say(g) \/ HangUp(g)

Spec == Init /\ [][Next]_pathVars
=============================================================================
