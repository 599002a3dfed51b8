----------------------------- MODULE ByteStream -----------------------------
(***************************************************************************)
(* What the audio queue promises to a peer that lets one utterance be      *)
(* reported as ended before it sends the next: bytes come out in the order *)
(* they went in, and the end of an utterance comes out once, after all but *)
(* the last few of its bytes and before any byte of the next utterance.    *)
(* No mutex, thread, capacity or notification is visible here.             *)
(***************************************************************************)
EXTENDS Naturals, Sequences

CONSTANT Chunks  \* the sizes a caller puts and takes

VARIABLES
  held,   \* the bytes inside; a byte is its position in the stream
  put,    \* number of bytes that ever went in
  taken,  \* the chunk that came out last
  ended   \* the utterance is complete and its end is not yet reported

streamVars == <<held, put, taken, ended>>

Init == held = <<>> /\ put = 0 /\ taken = <<>> /\ ended = FALSE

Put(n) ==
  /\ ~ended
  /\ held' = held \o [i \in 1..n |-> put + i]
  /\ put' = put + n
  /\ UNCHANGED <<taken, ended>>

End ==
  /\ ~ended /\ ended' = TRUE
  /\ UNCHANGED <<held, put, taken>>

(* One chunk, or everything there is, comes out.                           *)
Take(n) ==
  /\ n <= Len(held)
  /\ taken' = SubSeq(held, 1, n)
  /\ held' = SubSeq(held, n + 1, Len(held))
  /\ UNCHANGED <<put, ended>>

(* The end is reported when less than a chunk is left; what is left stays. *)
Report ==
  /\ ended /\ ended' = FALSE
  /\ \E n \in Chunks : Len(held) < n
  /\ UNCHANGED <<held, put, taken>>

(* The user gives up the utterance.                                        *)
Discard ==
  /\ held' = <<>> /\ ended' = FALSE
  /\ UNCHANGED <<put, taken>>

Next ==
  \/ \E n \in Chunks : Put(n)
  \/ End
  \/ \E n \in Chunks \cup {Len(held)} : Take(n)
  \/ Report
  \/ Discard

Spec == Init /\ [][Next]_streamVars
=============================================================================
