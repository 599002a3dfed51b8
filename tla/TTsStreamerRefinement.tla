------------------------ MODULE TTsStreamerRefinement ------------------------
(***************************************************************************)
(* TTsStreamer implements AudioPath and StreamerLife, for every number of  *)
(* starts and of messages and every type argument; and what the faults of  *)
(* the streamer can and cannot be.  The proofs rest on the invariant IInv. *)
(***************************************************************************)
EXTENDS TTsStreamerProofs

USE DEF queueVars, appVars, playVars, history, appKeeps, pointers, conns,
        playKeeps, popped, cancel, writes, workKeeps, Running

-----------------------------------------------------------------------------
(* Facts about a frame in front of a queue.                                *)
LEMMA PutInFront ==
  ASSUME NEW S, NEW f \in S, NEW q \in Seq(S)
  PROVE  /\ <<f>> \o q # <<>> /\ Head(<<f>> \o q) = f /\ Tail(<<f>> \o q) = q
         /\ <<f>> \in Seq(S) /\ <<>> \in Seq(S)
         /\ <<f>> \o <<>> = <<f>>
         /\ SubSeq(<<f>> \o q, 1, 1) = <<f>>
<1>1. <<f>> \in Seq(S) /\ Len(<<f>>) = 1 /\ Len(q) \in Nat /\ <<>> \in Seq(S)
  BY EmptySeq, LenProperties
<1>2. /\ <<f>> \o q \in Seq(S) /\ Len(<<f>> \o q) = 1 + Len(q)
      /\ \A i \in 1..(1 + Len(q)) :
           (<<f>> \o q)[i] = IF i <= 1 THEN f ELSE q[i - 1]
  BY <1>1, ConcatProperties
<1>3. <<f>> \o q # <<>>
  BY <1>2, <1>1, EmptySeq
<1>4. Head(<<f>> \o q) = f
  BY <1>1, <1>2, <1>3
<1>5. /\ Tail(<<f>> \o q) \in Seq(S) /\ Len(Tail(<<f>> \o q)) = Len(q)
      /\ \A i \in 1..Len(q) : Tail(<<f>> \o q)[i] = q[i]
  BY <1>1, <1>2, <1>3, HeadTailProperties
<1>6. Tail(<<f>> \o q) = q
  BY <1>5, <1>1, SeqEqual
<1>7. SubSeq(<<f>> \o q, 1, 1) = SubSeq(<<f>>, 1, 1)
  BY <1>1, SubSeqOfConcat1
<1> QED
  BY <1>1, <1>3, <1>4, <1>6, <1>7, SubSeqFull, ConcatEmptySeq

LEMMA HeadInFront ==
  ASSUME NEW S, NEW q \in Seq(S), q # <<>>
  PROVE  <<Head(q)>> \o Tail(q) = q
<1>1. Len(q) \in Nat \ {0} /\ Head(q) = q[1] /\ Tail(q) = SubSeq(q, 2, Len(q))
  BY EmptySeq, TailIsSubSeq
<1>2. SubSeq(q, 1, Len(q)) = <<q[1]>> \o SubSeq(q, 1 + 1, Len(q))
  BY <1>1, SubSeqRecursiveFirst
<1> QED
  BY <1>1, <1>2, SubSeqFull

LEMMA AppendBehind ==
  ASSUME NEW S, NEW h \in Seq(S), NEW q \in Seq(S), NEW g \in S
  PROVE  h \o Append(q, g) = Append(h \o q, g)
<1>1. /\ Append(q, g) = q \o <<g>>
      /\ h \o q \in Seq(S) /\ <<g>> \in Seq(S)
      /\ Append(h \o q, g) = (h \o q) \o <<g>>
  BY AppendIsConcat, ConcatProperties
<1> QED
  BY <1>1, ConcatAssociative

-----------------------------------------------------------------------------
(* The playing thread holds a frame where Hand says so.                    *)
InHand ==
  /\ play = "finish_reset" => ret = 2
  /\ play = "write" => ret = 0

(* A worker was spawned only for the handler in charge or one before it;   *)
(* that of the handler in charge is assigned, or about to be, or its       *)
(* streamer is gone.  So a connection is made on a fresh handler.          *)
Fresh ==
  /\ \A g \in Gens : worker[g] # "none" =>
       /\ g <= Top
       /\ g = Top => joinable[g] \/ app \in {"assign_worker", "gone"}
  /\ Running /\ app \in {"connect", "spawn_worker"} => ~joinable[Handler]

LEMMA InHandStep == ASSUME InHand, [Next]_vars PROVE InHand'
<1> USE DEF InHand
<1>1. CASE Stopping
  BY <1>1 DEF Stopping, StopPlayThread, JoinPlay, ClearAfterJoin, SpawnPlay,
     App
<1>2. CASE Creating \/ Dropping \/ Connecting
  BY <1>2 DEF Creating, CreateHandler, Dropping, DropStop, DropTest,
     DropTerminate, DropCallback, DropJoin, Connecting, ParseFails,
     StartHandler, UrlRejected, Connect, SpawnWorker, AssignWorker, App
<1>3. CASE Looping
  BY <1>3 DEF Looping, PlayGivesUp, PlayReady, LoopTest, TryPop, FinishReset,
     TestInterrupt, Play
<1>4. CASE Writing \/ Cancelling
  BY <1>4 DEF Writing, WriteFrame, WriteFails, DetectEnd, DetectSend,
     Cancelling, Cancel, CancelStop, CancelTest, CancelTerminate,
     CancelCallback, Play
<1>5. ASSUME NEW g \in Gens, Receiving(g) \/ Handling(g) \/ Closing(g)
      PROVE  InHand'
  BY <1>5 DEF Receiving, Open, PeerCloses, Lose, WorkerError, Message,
     WorkerExit, Handling, Push, TtsStart, InterruptClean, Interrupt, TtsOff,
     Closing, CloseStop, CloseTest, CloseTerminate, Work
<1>6. CASE Hangup \/ UNCHANGED vars
  BY <1>6 DEF Hangup, vars
<1> QED
  BY StepCases, <1>1, <1>2, <1>3, <1>4, <1>5, <1>6

LEMMA FreshStep ==
  ASSUME Counts, Maps, Places, Fresh, [Next]_vars PROVE Fresh'
<1> USE GensAreNumbers DEF Counts, Maps, Places, Fresh, Drops, Top
<1>1. CASE Stopping
  BY <1>1 DEF Stopping, StopPlayThread, JoinPlay, ClearAfterJoin, SpawnPlay,
     App
<1>2. CASE Creating
  BY <1>2 DEF Creating, CreateHandler, App
<1>3. CASE DropStop \/ DropTest \/ DropTerminate \/ DropCallback
  BY <1>3 DEF DropStop, DropTest, DropTerminate, DropCallback, App, Stop,
     Terminate
<1>4. CASE DropJoin
  BY <1>4 DEF DropJoin, App
<1>5. CASE ParseFails \/ StartHandler \/ UrlRejected \/ Connect
  BY <1>5 DEF ParseFails, StartHandler, UrlRejected, Connect, App
<1>6. CASE SpawnWorker
  BY <1>6 DEF SpawnWorker, App
<1>7. CASE AssignWorker
  BY <1>7 DEF AssignWorker, App
<1>8. CASE Looping
  BY <1>8 DEF Looping, PlayGivesUp, PlayReady, LoopTest, TryPop, FinishReset,
     TestInterrupt, Play
<1>9. CASE Writing
  BY <1>9 DEF Writing, WriteFrame, WriteFails, DetectEnd, DetectSend, Play,
     UseOfTarget
<1>10. CASE Cancelling
  BY <1>10 DEF Cancelling, Cancel, CancelStop, CancelTest, CancelTerminate,
     CancelCallback, Play, UseOfTarget, Stop, Terminate
<1>11. ASSUME NEW h \in Gens, Receiving(h) PROVE Fresh'
  BY <1>11 DEF Receiving, Open, PeerCloses, Lose, WorkerError, Message,
     WorkerExit, Work
<1>12. ASSUME NEW h \in Gens, Handling(h) PROVE Fresh'
  BY <1>12 DEF Handling, Push, TtsStart, InterruptClean, Interrupt, TtsOff, Work
<1>13. ASSUME NEW h \in Gens, Closing(h) PROVE Fresh'
  BY <1>13 DEF Closing, CloseStop, CloseTest, CloseTerminate, Work
<1>14. CASE Hangup \/ UNCHANGED vars
  BY <1>14 DEF Hangup, vars
<1> QED
  BY StepCases, <1>1, <1>2, <1>3, <1>4, <1>5, <1>6, <1>7, <1>8, <1>9, <1>10,
     <1>11, <1>12, <1>13, <1>14 DEF Dropping, Connecting

RInv == IInv /\ InHand /\ Fresh

LEMMA RInvariant == Spec => []RInv
<1>1. Init => InHand /\ Fresh
  BY DEF Init, InHand, Fresh, Top, Drops
<1>2. RInv /\ [Next]_vars => RInv'
  BY Parts, IInvStep, InHandStep, FreshStep DEF RInv, IInv
<1> QED
  BY <1>1, <1>2, IInvStart, PTL DEF Spec, RInv

-----------------------------------------------------------------------------
(* The connections, seen from the path, change only when a worker is       *)
(* spawned and when it returns.                                            *)
LEMMA LineKept ==
  ASSUME Maps, NEW g \in Gens, NEW next \in WorkLabels,
         worker[g] \notin {"none", "exited"}, next \notin {"none", "exited"},
         worker' = [worker EXCEPT ![g] = next]
  PROVE  Line' = Line
BY DEF Maps, Line

(* What the frame in hand and the queue are, as sequences.                 *)
LEMMA AirTypes ==
  ASSUME Queue
  PROVE  /\ Hand \in {<<>>, <<frame>>} /\ ttsQueue \in Seq(0..MaxStarts)
         /\ frame \in 0..MaxStarts
         /\ Hand \in Seq(0..MaxStarts)
         /\ <<>> \o ttsQueue = ttsQueue
<1>1. ttsQueue \in Seq(0..MaxStarts)
  <2>1. Len(ttsQueue) \in Nat /\ ttsQueue \in [1..Len(ttsQueue) -> Gens]
    BY LenProperties DEF Queue
  <2>2. ttsQueue \in [1..Len(ttsQueue) -> 0..MaxStarts]
    BY <2>1, GensAreNumbers
  <2> QED
    BY <2>1, <2>2, SeqDef
<1>2. <<frame>> \in Seq(0..MaxStarts) /\ <<>> \in Seq(0..MaxStarts)
  BY <1>1, PutInFront DEF Queue
<1> QED
  BY <1>1, <1>2, ConcatEmptySeq DEF Hand, Queue

(* A step that leaves alone what the path sees.                            *)
Unseen == UNCHANGED <<starts, Line, Hand, ttsQueue, played>>

LEMMA UnseenStutters == Unseen => UNCHANGED Path!pathVars
BY DEF Unseen, Path!pathVars

LEMMA StoppingIsPath ==
  ASSUME RInv, Stopping PROVE [Path!Next]_(Path!pathVars)
<1>a. Places /\ Joined /\ starts \in 0..MaxStarts
  BY DEF RInv, IInv, TypeOK
<1>1. CASE StopPlayThread \/ JoinPlay
  <2>1. Unseen
    BY <1>1 DEF StopPlayThread, JoinPlay, App, Unseen, Line, Hand
  <2> QED
    BY <2>1, UnseenStutters
<1>2. CASE ClearAfterJoin
  <2>1. /\ Hand = <<>> /\ Hand' = <<>> /\ ttsQueue' = <<>>
        /\ UNCHANGED <<starts, Line, played>>
    BY <1>2, <1>a DEF ClearAfterJoin, App, ClearQueue, Joined, Hand, Line
  <2>2. <<>> \o <<>> = <<>> /\ SubSeq(Hand \o ttsQueue, 1, 0) = <<>>
        /\ Len(Hand \o ttsQueue) \in Nat
    BY AirTypes, Parts, SubSeqEmpty, ConcatProperties, EmptySeq, LenProperties,
       ConcatEmptySeq
    DEF RInv, IInv
  <2> QED
    BY <2>1, <2>2 DEF Path!Next, Path!Flush
<1>3. CASE SpawnPlay
  <2>1. /\ Hand = <<>> /\ Hand' = <<>> /\ ttsQueue' = ttsQueue
        /\ starts' = starts + 1 /\ starts < MaxStarts
        /\ UNCHANGED <<Line, played>>
    BY <1>3, <1>a DEF SpawnPlay, App, Joined, Hand, Line, Places
  <2> QED
    BY <2>1 DEF Path!Next, Path!Start
<1> QED
  BY <1>1, <1>2, <1>3 DEF Stopping

LEMMA ConnectingIsPath ==
  ASSUME RInv, Creating \/ Dropping \/ Connecting
  PROVE  [Path!Next]_(Path!pathVars)
<1>1. CASE Creating \/ Dropping
  <2>1. Unseen
    BY <1>1 DEF Creating, CreateHandler, Dropping, DropStop, DropTest,
       DropTerminate, DropCallback, DropJoin, App, Unseen, Line, Hand
  <2> QED
    BY <2>1, UnseenStutters
<1>2. CASE \/ ParseFails \/ StartHandler \/ UrlRejected
           \/ Connect \/ AssignWorker
  <2>1. Unseen
    BY <1>2 DEF ParseFails, StartHandler, UrlRejected, Connect,
       AssignWorker, App, Unseen, Line, Hand
  <2> QED
    BY <2>1, UnseenStutters
<1>3. CASE SpawnWorker
  <2>1. /\ Running /\ app = "spawn_worker" /\ Top = Handler
        /\ worker' = [worker EXCEPT ![Handler] = "run"]
        /\ UNCHANGED <<starts, Hand, ttsQueue, played>>
    BY <1>3 DEF SpawnWorker, App, Top, Drops, Hand
  <2>2. /\ Handler \in Gens /\ Handler <= starts /\ Maps /\ Fresh /\ Owned
        /\ \A g \in Gens : g \in Nat
    BY <2>1, Parts, GensAreNumbers, BoundsAssumption
    DEF RInv, IInv, Places, Counts, Gens
  <2>3. \A h \in Gens : worker[h] # "none" => h < Handler
    BY <2>1, <2>2 DEF Fresh
  <2>4. \A h \in Gens : ~Alive(h)
    BY <2>1, <2>2 DEF Owned
  <2>5. \A h \in Gens : Line[h] # "live" /\ (h >= Handler => Line[h] = "new")
    BY <2>2, <2>3, <2>4 DEF Line, Alive
  <2>6. Line' = [Line EXCEPT ![Handler] = "live"]
    BY <2>1, <2>2 DEF Line, Maps
  <2>7. Path!Connect(Handler)
    BY <2>1, <2>2, <2>5, <2>6 DEF Path!Connect, Path!Gens, Gens
  <2> QED
    BY <2>2, <2>7 DEF Path!Next, Path!Gens, Gens
<1> QED
  BY <1>1, <1>2, <1>3 DEF Connecting

LEMMA LoopingIsPath ==
  ASSUME RInv, Looping PROVE [Path!Next]_(Path!pathVars)
<1>a. /\ ttsQueue \in Seq(0..MaxStarts) /\ frame \in 0..MaxStarts
      /\ <<>> \o ttsQueue = ttsQueue
  BY AirTypes, Parts DEF RInv, IInv
<1>1. CASE PlayGivesUp \/ PlayReady \/ LoopTest \/ FinishReset
  <2>1. Unseen
    BY <1>1 DEF PlayGivesUp, PlayReady, LoopTest, FinishReset, Play, Unseen,
       Line, Hand, RInv, InHand
  <2> QED
    BY <2>1, UnseenStutters
<1>2. CASE TryPop
  <2>1. Hand = <<>> /\ UNCHANGED <<starts, Line, played>>
    BY <1>2 DEF TryPop, Play, Hand, Line
  <2>2. CASE ttsQueue # <<>>
    <3>1. Hand' = <<Head(ttsQueue)>> /\ ttsQueue' = Tail(ttsQueue)
      BY <1>2, <2>2 DEF TryPop, Play, Hand
    <3>2. Hand' \o ttsQueue' = Hand \o ttsQueue
      BY <1>a, <2>1, <2>2, <3>1, HeadInFront
    <3> QED
      BY <2>1, <3>2 DEF Path!pathVars
  <2>3. CASE ttsQueue = <<>>
    <3>1. Hand' = <<>> /\ ttsQueue' = ttsQueue
      BY <1>2, <2>3 DEF TryPop, Play, Hand
    <3> QED
      BY <2>1, <3>1 DEF Path!pathVars
  <2> QED
    BY <2>2, <2>3
<1>3. CASE TestInterrupt
  <2>1. UNCHANGED <<starts, Line, played, ttsQueue, ret, frame>>
    BY <1>3 DEF TestInterrupt, Play, Line
  <2>2. CASE ret = 0 /\ is_interrupt
    <3>1. Hand = <<frame>> /\ Hand' = <<>>
      BY <1>3, <2>2 DEF TestInterrupt, Play, Hand
    <3>2. /\ Hand \o ttsQueue # <<>>
          /\ Hand' \o ttsQueue' = Tail(Hand \o ttsQueue)
      BY <1>a, <2>1, <3>1, PutInFront
    <3> QED
      BY <2>1, <3>2 DEF Path!Next, Path!Drop
  <2>3. CASE ~(ret = 0 /\ is_interrupt)
    <3>1. Hand' = Hand
      BY <1>3, <2>3 DEF TestInterrupt, Play, Hand
    <3> QED
      BY <2>1, <3>1 DEF Path!pathVars
  <2> QED
    BY <2>2, <2>3
<1> QED
  BY <1>1, <1>2, <1>3 DEF Looping

LEMMA WritingIsPath ==
  ASSUME RInv, Writing \/ Cancelling PROVE [Path!Next]_(Path!pathVars)
<1>a. /\ ttsQueue \in Seq(0..MaxStarts) /\ frame \in 0..MaxStarts
      /\ <<>> \o ttsQueue = ttsQueue
  BY AirTypes, Parts DEF RInv, IInv
<1>1. CASE WriteFrame \/ WriteFails
  <2>1. /\ Hand = <<frame>> /\ Hand' = <<>>
        /\ UNCHANGED <<starts, Line, ttsQueue>>
        /\ WriteFrame => played' = frame
        /\ WriteFails => played' = played
    BY <1>1 DEF WriteFrame, WriteFails, Play, Hand, Line, RInv, InHand
  <2>2. /\ Hand \o ttsQueue # <<>> /\ Head(Hand \o ttsQueue) = frame
        /\ Hand' \o ttsQueue' = Tail(Hand \o ttsQueue)
    BY <1>a, <2>1, PutInFront
  <2>3. CASE WriteFrame
    BY <2>1, <2>2, <2>3 DEF Path!Next, Path!Hear
  <2>4. CASE WriteFails
    BY <2>1, <2>2, <2>4 DEF Path!Next, Path!Drop
  <2> QED
    BY <1>1, <2>3, <2>4
<1>2. CASE DetectEnd \/ DetectSend \/ Cancelling
  <2>1. Unseen
    BY <1>2 DEF DetectEnd, DetectSend, Cancelling, Cancel, CancelStop,
       CancelTest, CancelTerminate, CancelCallback, Play, Unseen, Line, Hand
  <2> QED
    BY <2>1, UnseenStutters
<1> QED
  BY <1>1, <1>2 DEF Writing

LEMMA WorkerIsPath ==
  ASSUME RInv, NEW g \in Gens, Receiving(g) \/ Handling(g) \/ Closing(g)
  PROVE  [Path!Next]_(Path!pathVars)
<1>a. /\ ttsQueue \in Seq(0..MaxStarts) /\ frame \in 0..MaxStarts
      /\ <<>> \o ttsQueue = ttsQueue /\ Hand \in {<<>>, <<frame>>}
      /\ Hand \in Seq(0..MaxStarts) /\ g \in 0..MaxStarts /\ Maps
  BY AirTypes, Parts, GensAreNumbers DEF RInv, IInv
<1>b. Hand' = Hand /\ UNCHANGED <<starts, played>>
  <2>1. UNCHANGED <<play, ret, frame, starts, played>>
    BY DEF Receiving, Open, PeerCloses, Lose, WorkerError, Message, WorkerExit,
       Handling, Push, TtsStart, InterruptClean, Interrupt, TtsOff, Closing,
       CloseStop, CloseTest, CloseTerminate, Work
  <2> QED
    BY <2>1 DEF Hand
<1>c. ASSUME UNCHANGED ttsQueue, Line' = Line
      PROVE  UNCHANGED Path!pathVars
  BY <1>b, <1>c DEF Path!pathVars
<1>1. CASE Open(g) \/ PeerCloses(g) \/ Lose(g) \/ WorkerError(g) \/ Message(g)
  <2>1. Line' = Line /\ UNCHANGED ttsQueue
    BY <1>1, <1>a DEF Open, PeerCloses, Lose, WorkerError, Message, Work, Line,
       Maps
  <2> QED
    BY <1>c, <2>1
<1>2. CASE WorkerExit(g)
  <2>1. /\ Line' = [Line EXCEPT ![g] = "over"] /\ Line[g] = "live"
        /\ UNCHANGED ttsQueue
    BY <1>2, <1>a DEF WorkerExit, Work, Line, Maps
  <2> QED
    BY <1>b, <2>1 DEF Path!Next, Path!HangUp, Path!Gens, Gens
<1>3. CASE TtsStart(g) \/ Interrupt(g) \/ TtsOff(g) \/ Closing(g)
  <2>1. Line' = Line /\ UNCHANGED ttsQueue
    BY <1>3, <1>a DEF TtsStart, Interrupt, TtsOff, Closing, CloseStop,
       CloseTest, CloseTerminate, Work, Line, Maps
  <2> QED
    BY <1>c, <2>1
<1>4. CASE Push(g)
  <2>1. Line' = Line /\ Line[g] = "live"
    BY <1>4, <1>a DEF Push, Work, Line, Maps
  <2>2. CASE ttsQueue' = Append(ttsQueue, g)
    <3>1. Hand' \o ttsQueue' = Append(Hand \o ttsQueue, g)
      BY <1>a, <1>b, <2>2, AppendBehind
    <3> QED
      BY <1>b, <2>1, <3>1 DEF Path!Next, Path!Say, Path!Gens, Gens
  <2>3. CASE UNCHANGED ttsQueue
    BY <1>c, <2>1, <2>3
  <2> QED
    BY <1>4, <2>2, <2>3 DEF Push
<1>5. CASE InterruptClean(g)
  <2>1. Line' = Line /\ ttsQueue' = <<>>
    BY <1>5, <1>a DEF InterruptClean, ClearQueue, Work, Line, Maps
  <2>2. \E k \in 0..1 : /\ k <= Len(Hand \o ttsQueue)
                        /\ Hand' \o ttsQueue' = SubSeq(Hand \o ttsQueue, 1, k)
    <3>1. Hand \o ttsQueue \in Seq(0..MaxStarts)
          /\ Len(Hand \o ttsQueue) = Len(Hand) + Len(ttsQueue)
          /\ Len(ttsQueue) \in Nat /\ Hand \o <<>> = Hand
      BY <1>a, ConcatProperties, LenProperties, ConcatEmptySeq
    <3>2. CASE Hand = <<>>
      <4>1. /\ Hand' \o ttsQueue' = <<>>
            /\ SubSeq(Hand \o ttsQueue, 1, 0) = <<>>
            /\ 0 <= Len(Hand \o ttsQueue)
        BY <1>b, <2>1, <3>1, <3>2, SubSeqEmpty, EmptySeq
      <4> QED
        BY <4>1
    <3>3. CASE Hand = <<frame>>
      <4>1. Len(Hand) = 1
        BY <3>3
      <4>2. Hand' \o ttsQueue' = Hand
        BY <1>b, <2>1, <3>1
      <4>3. SubSeq(Hand \o ttsQueue, 1, 1) = Hand
        BY <1>a, <3>3, PutInFront
      <4>4. 1 <= Len(Hand \o ttsQueue) /\ 1 \in 0..1
        BY <3>1, <4>1
      <4> QED
        BY <4>2, <4>3, <4>4
    <3> QED
      BY <1>a, <3>2, <3>3
  <2> QED
    BY <1>b, <2>1, <2>2 DEF Path!Next, Path!Flush
<1> QED
  BY <1>1, <1>2, <1>3, <1>4, <1>5 DEF Receiving, Handling

(* Whatever the peers send and whenever the application starts, stops or   *)
(* deletes, the caller hears one path of frames.                           *)
THEOREM StreamerIsPath == Spec => IsAudioPath
<1>1. Init => Path!Init
  BY ConcatEmptySeq, EmptySeq DEF Init, Path!Init, Line, Hand, Gens, Path!Gens
<1>2. RInv /\ [Next]_vars => [Path!Next]_(Path!pathVars)
  <2> SUFFICES ASSUME RInv, [Next]_vars PROVE [Path!Next]_(Path!pathVars)
    OBVIOUS
  <2>1. CASE Hangup \/ UNCHANGED vars
    <3>1. Unseen
      BY <2>1 DEF Hangup, vars, Unseen, Line, Hand
    <3> QED
      BY <3>1, UnseenStutters
  <2> QED
    BY <2>1, StepCases, StoppingIsPath, ConnectingIsPath, LoopingIsPath,
       WritingIsPath, WorkerIsPath
<1> QED
  BY <1>1, <1>2, RInvariant, PTL DEF Spec, IsAudioPath, Path!Spec

-----------------------------------------------------------------------------
(* While the streamer is being deleted thread_run stays cleared.           *)
Deleted ==
  \/ app \in {"delete_join", "delete_clear"}
  \/ app \in Drops /\ old = Handler
  => ~thread_run

LEMMA DeletedStep ==
  ASSUME Counts, Places, Deleted, [Next]_vars PROVE Deleted'
<1> USE BoundsAssumption DEF Counts, Places, Deleted, Drops
<1>1. CASE Stopping
  BY <1>1 DEF Stopping, StopPlayThread, JoinPlay, ClearAfterJoin, SpawnPlay,
     App
<1>2. CASE Creating \/ Dropping
  BY <1>2 DEF Creating, CreateHandler, Dropping, DropStop, DropTest,
     DropTerminate, DropCallback, DropJoin, App, ErrorCallback
<1>3. CASE Connecting
  BY <1>3 DEF Connecting, ParseFails, StartHandler, UrlRejected, Connect,
     SpawnWorker, AssignWorker, App, ErrorCallback
<1>4. CASE Looping
  BY <1>4 DEF Looping, PlayGivesUp, PlayReady, LoopTest, TryPop, FinishReset,
     TestInterrupt, Play
<1>5. CASE Writing \/ Cancelling
  BY <1>5 DEF Writing, WriteFrame, WriteFails, DetectEnd, DetectSend,
     Cancelling, Cancel, CancelStop, CancelTest, CancelTerminate,
     CancelCallback, Play, ErrorCallback
<1>6. ASSUME NEW g \in Gens, Receiving(g) \/ Handling(g) \/ Closing(g)
      PROVE  Deleted'
  BY <1>6 DEF Receiving, Open, PeerCloses, Lose, WorkerError, Message,
     WorkerExit, Handling, Push, TtsStart, InterruptClean, Interrupt, TtsOff,
     Closing, CloseStop, CloseTest, CloseTerminate, Work, ErrorCallback
<1>7. CASE Hangup \/ UNCHANGED vars
  BY <1>7 DEF Hangup, vars
<1> QED
  BY StepCases, <1>1, <1>2, <1>3, <1>4, <1>5, <1>6, <1>7

(* A connection is that of the handler in charge, or its handler has been  *)
(* deleted; and the playing thread terminates only a connection.           *)
Accounted ==
  /\ \A g \in Gens : con[g] # "none" => g = Top \/ g \in freed
  /\ Running /\ play \in {"cancel_terminate", "cancel_callback"}
       => con[target] # "none"

LEMMA AccountedStep ==
  ASSUME IInv, Accounted, [Next]_vars PROVE Accounted'
<1>a. /\ Maps /\ Places /\ Owned
      /\ Running /\ play \in {"cancel_stop", "cancel_test",
                             "cancel_terminate", "cancel_callback"}
           => target \in Gens
  BY Parts, BoundsAssumption DEF IInv, Places, Counts, Gens
<1> USE GensAreNumbers DEF Maps, Accounted, Top, Drops
<1>1. CASE Stopping
  BY <1>1 DEF Stopping, StopPlayThread, JoinPlay, ClearAfterJoin, SpawnPlay,
     App
<1>2. CASE Creating
  BY <1>2 DEF Creating, CreateHandler, App
<1>3. CASE Dropping
  BY <1>a, <1>3 DEF Dropping, DropStop, DropTest, DropTerminate, DropCallback,
     DropJoin, App, Terminate
<1>4. CASE Connecting
  BY <1>a, <1>4 DEF Connecting, ParseFails, StartHandler, UrlRejected, Connect,
     SpawnWorker, AssignWorker, App
<1>5. CASE Looping
  BY <1>5 DEF Looping, PlayGivesUp, PlayReady, LoopTest, TryPop, FinishReset,
     TestInterrupt, Play
<1>6. CASE Writing
  BY <1>6 DEF Writing, WriteFrame, WriteFails, DetectEnd, DetectSend, Play,
     UseOfTarget
<1>7. CASE Cancelling
  BY <1>a, <1>7 DEF Cancelling, Cancel, CancelStop, CancelTest,
     CancelTerminate, CancelCallback, Play, Terminate
<1>8. ASSUME NEW h \in Gens, Receiving(h) \/ Handling(h) PROVE Accounted'
  BY <1>a, <1>8 DEF Receiving, Open, PeerCloses, Lose, WorkerError, Message,
     WorkerExit, Handling, Push, TtsStart, InterruptClean, Interrupt, TtsOff,
     Work
<1>9. ASSUME NEW h \in Gens, Closing(h) PROVE Accounted'
  BY <1>a, <1>9 DEF Owned, Alive, Closing, CloseStop, CloseTest,
     CloseTerminate, Work, Terminate
<1>10. CASE Hangup \/ UNCHANGED vars
  BY <1>10 DEF Hangup, vars
<1> QED
  BY StepCases, <1>1, <1>2, <1>3, <1>4, <1>5, <1>6, <1>7, <1>8, <1>9, <1>10

(* Once the connection of the current start exists, a late error of an     *)
(* earlier one no longer clears thread_run: its worker has been joined and *)
(* its handler deleted, so that the playing thread, if it still goes       *)
(* through that handler, ends the process.  For any number of starts, of   *)
(* messages and of types.                                                  *)
THEOREM EndsAreOwn == Spec => OwnEndOnceConnected
<1>1. ASSUME RInv, Deleted, Accounted, [Next]_vars,
             thread_run, ~thread_run', starts > 0, worker[starts] # "none"
      PROVE  \/ app = "idle" /\ app' \in {"start_join", "delete_join"}
             \/ play = "cancel_callback" /\ play' = "done"
                  /\ (target = starts \/ fault' = "handler freed")
             \/ worker[starts] = "error" /\ worker'[starts] = "run"
  <2>a. /\ starts \in Gens /\ Handler \in Nat /\ old \in Nat /\ starts \in Nat
        /\ Fresh /\ Owned /\ Places
    BY <1>1, Parts, BoundsAssumption DEF RInv, IInv, Counts, Gens
  <2>b. Top = starts /\ (app \in Drops => old = Handler /\ Handler = starts)
        /\ (app \notin Drops => Handler = starts)
    BY <1>1, <2>a DEF Top, Places, Fresh, Drops
  <2>1. CASE Stopping
    BY <1>1, <2>1 DEF Stopping, StopPlayThread, JoinPlay, ClearAfterJoin,
       SpawnPlay, App
  <2>2. CASE Creating \/ Dropping
    BY <1>1, <2>2, <2>b DEF Creating, CreateHandler, Dropping, DropStop,
       DropTest, DropTerminate, DropCallback, DropJoin, App, Deleted, Drops
  <2>3. CASE Connecting
    <3>1. ~(Running /\ app = "connect")
      BY <1>1, <2>a, <2>b DEF Fresh, Drops
    <3> QED
      BY <1>1, <2>3, <3>1 DEF Connecting, ParseFails, StartHandler,
         UrlRejected, Connect, SpawnWorker, AssignWorker, App
  <2>4. CASE Looping \/ Writing
    BY <1>1, <2>4 DEF Looping, PlayGivesUp, PlayReady, LoopTest, TryPop,
       FinishReset, TestInterrupt, Writing, WriteFrame, WriteFails, DetectEnd,
       DetectSend
  <2>5. CASE Cancelling
    <3>1. CancelCallback
      BY <1>1, <2>5 DEF Cancelling, Cancel, CancelStop, CancelTest,
         CancelTerminate
    <3>2. target \in Gens
      BY <1>1, <3>1, Parts, BoundsAssumption
         DEF RInv, IInv, Places, Counts, Gens, CancelCallback, Play
    <3>3. con[target] # "none"
      BY <1>1, <3>1 DEF Accounted, CancelCallback, Play
    <3>4. target = starts \/ target \in freed
      BY <1>1, <2>b, <3>2, <3>3 DEF Accounted
    <3> QED
      BY <3>1, <3>4 DEF CancelCallback, Play, UseOfTarget
  <2>6. ASSUME NEW g \in Gens, WorkerError(g)
        PROVE  worker[starts] = "error" /\ worker'[starts] = "run"
    BY <1>1, <2>6, <2>a, <2>b, Parts
       DEF WorkerError, Work, Owned, Alive, Maps, RInv, IInv
  <2>7. ASSUME NEW g \in Gens, Receiving(g) \/ Handling(g) \/ Closing(g),
               ~WorkerError(g)
        PROVE  thread_run' = thread_run
    BY <2>7 DEF Receiving, Open, PeerCloses, Lose, Message, WorkerExit,
       Handling, Push, TtsStart, InterruptClean, Interrupt, TtsOff, Closing,
       CloseStop, CloseTest, CloseTerminate
  <2>8. CASE Hangup \/ UNCHANGED vars
    BY <1>1, <2>8 DEF Hangup, vars
  <2> QED
    BY <1>1, StepCases, <2>1, <2>2, <2>3, <2>4, <2>5, <2>6, <2>7, <2>8
<1>2. Init => Deleted /\ Accounted
  BY DEF Init, Deleted, Drops, Accounted
<1>3. RInv /\ Deleted /\ Accounted /\ [Next]_vars => (Deleted /\ Accounted)'
  BY Parts, DeletedStep, AccountedStep DEF RInv, IInv
<1>4. RInv /\ Deleted /\ Accounted /\ [Next]_vars
        => [thread_run /\ ~thread_run' /\ starts > 0 /\ worker[starts] # "none"
              => \/ app = "idle" /\ app' \in {"start_join", "delete_join"}
                 \/ play = "cancel_callback" /\ play' = "done"
                      /\ (target = starts \/ fault' = "handler freed")
                 \/ worker[starts] = "error" /\ worker'[starts] = "run"]_vars
  BY <1>1
<1> QED
  BY <1>2, <1>3, <1>4, RInvariant, PTL DEF Spec, OwnEndOnceConnected

-----------------------------------------------------------------------------
(* A deletion waits for the playing thread before it deletes the handler,  *)
(* so a handler freed while that thread runs has been replaced.            *)
Dangling ==
  /\ \/ app \in {"delete_clear", "gone"}
     \/ app \in Drops /\ old = Handler
     => play = "none"
  /\ \A g \in freed : g < Handler \/ app = "gone"
  /\ OnlyReplacedDangles

LEMMA DanglingStep ==
  ASSUME Counts, Sets, Places, Dangling, [Next]_vars PROVE Dangling'
<1>a. /\ Handler \in Nat /\ old \in Nat /\ starts \in Nat /\ target \in Nat
      /\ \A g \in freed : g \in Nat
  BY GensAreNumbers, BoundsAssumption DEF Counts, Sets
<1>b. /\ app = "create" => Handler < starts
      /\ app \in Drops => old <= Handler
  BY DEF Places
<1>1. CASE Stopping
  BY <1>1, <1>a DEF Dangling, Drops, OnlyReplacedDangles,
     Stopping, StopPlayThread, JoinPlay, ClearAfterJoin, SpawnPlay,
     App
<1>2. CASE Creating
  <2>1. /\ fault' = "no" /\ app = "create" /\ app' \in {"parse", "drop"}
        /\ UNCHANGED freed /\ Handler' \in Nat /\ Handler' >= Handler
        /\ app' = "drop" => old' = Handler /\ Handler' = starts
    BY <1>2, <1>a, <1>b DEF Creating, CreateHandler, App, Running, pointers
  <2>2. app' = "drop" => old' # Handler'
    BY <2>1, <1>a, <1>b
  <2>3. \A g \in freed' : g < Handler' \/ app' = "gone"
    BY <2>1, <1>a DEF Dangling
  <2>4. ~(app' \in Drops /\ old' = Handler')
    BY <2>1, <2>2 DEF Drops
  <2>5. OnlyReplacedDangles'
    BY <2>1 DEF OnlyReplacedDangles
  <2> QED
    BY <2>1, <2>3, <2>4, <2>5 DEF Dangling
<1>3. CASE Dropping
  <2>1. CASE DropStop \/ DropTest \/ DropTerminate \/ DropCallback
    BY <2>1 DEF Dangling, Drops, OnlyReplacedDangles, DropStop, DropTest,
       DropTerminate, DropCallback, App
  <2>2. CASE DropJoin
    <3>1. /\ fault' = "no" /\ app = "drop_join" /\ freed' = freed \cup {old}
          /\ app' = IF old = Handler THEN "gone" ELSE "parse"
          /\ UNCHANGED <<Handler, old, play>>
      BY <2>2 DEF DropJoin, App
    <3>2. old # Handler => old < Handler
      BY <3>1, <1>a, <1>b DEF Drops
    <3> QED
      BY <3>1, <3>2 DEF Dangling, Drops, OnlyReplacedDangles
  <2> QED
    BY <1>3, <2>1, <2>2 DEF Dropping
<1>4. CASE Connecting
  BY <1>4, <1>a DEF Dangling, Drops, OnlyReplacedDangles,
     Connecting, ParseFails, StartHandler, UrlRejected, Connect,
     SpawnWorker, AssignWorker, App
<1>5. CASE Looping
  BY <1>5, <1>a DEF Dangling, Drops, OnlyReplacedDangles,
     Looping, PlayGivesUp, PlayReady, LoopTest, TryPop, FinishReset,
     TestInterrupt, Play
<1>6. CASE Writing
  BY <1>6, <1>a DEF Dangling, Drops, OnlyReplacedDangles,
     Writing, WriteFrame, WriteFails, DetectEnd, DetectSend, Play,
     UseOfTarget
<1>7. CASE Cancelling
  BY <1>7, <1>a DEF Dangling, Drops, OnlyReplacedDangles, Cancelling, Cancel,
     CancelStop, CancelTest, CancelTerminate, CancelCallback, Play, UseOfTarget
<1>8. ASSUME NEW g \in Gens, Receiving(g) \/ Handling(g) \/ Closing(g)
      PROVE  Dangling'
  BY <1>8, <1>a DEF Dangling, Drops, OnlyReplacedDangles, Receiving, Open,
     PeerCloses, Lose, WorkerError, Message, WorkerExit, Handling, Push,
     TtsStart, InterruptClean, Interrupt, TtsOff, Closing, CloseStop,
     CloseTest, CloseTerminate, Work
<1>9. CASE Hangup \/ UNCHANGED vars
  BY <1>9, <1>a DEF Dangling, Drops, OnlyReplacedDangles,
     Hangup, vars
<1> QED
  BY StepCases, <1>1, <1>2, <1>3, <1>4, <1>5, <1>6, <1>7, <1>8, <1>9

(* Only a start can free a handler under the playing thread.               *)
THEOREM DeletionIsSafe == Spec => []OnlyReplacedDangles
<1>1. Init => Dangling
  BY DEF Init, Dangling, Drops, OnlyReplacedDangles
<1>2. IInv /\ Dangling /\ [Next]_vars => Dangling'
  BY Parts, DanglingStep DEF IInv
<1>3. Dangling => OnlyReplacedDangles
  BY DEF Dangling
<1> QED
  BY <1>1, <1>2, <1>3, Invariant, PTL DEF Spec

-----------------------------------------------------------------------------
(* With the type the code knows there is a handler from the moment         *)
(* create_stream has stored it.                                            *)
Present ==
  /\ \/ Handler # 0 \/ app = "create"
     \/ /\ play = "none"
        /\ app \in {"idle", "start_join", "start_clear", "spawn_play",
                   "delete_join", "delete_clear", "gone"}
  /\ NullOnlyWhileCreating /\ StartHasHandler

LEMMA PresentStep ==
  ASSUME Types = {"ws"}, Counts, Places, Present, [Next]_vars PROVE Present'
<1> USE GensAreNumbers, BoundsAssumption DEF Counts, Places, Present, Drops,
        NullOnlyWhileCreating, StartHasHandler
<1>1. CASE Stopping
  BY <1>1 DEF Stopping, StopPlayThread, JoinPlay, ClearAfterJoin, SpawnPlay,
     App
<1>2. CASE Creating
  BY <1>2 DEF Creating, CreateHandler, App
<1>3. CASE Dropping
  BY <1>3 DEF Dropping, DropStop, DropTest, DropTerminate, DropCallback,
     DropJoin, App
<1>4. CASE Connecting
  BY <1>4 DEF Connecting, ParseFails, StartHandler, UrlRejected, Connect,
     SpawnWorker, AssignWorker, App
<1>5. CASE Looping
  BY <1>5 DEF Looping, PlayGivesUp, PlayReady, LoopTest, TryPop, FinishReset,
     TestInterrupt, Play
<1>6. CASE Writing
  BY <1>6 DEF Writing, WriteFrame, WriteFails, DetectEnd, DetectSend, Play,
     UseOfTarget
<1>7. CASE Cancelling
  BY <1>7 DEF Cancelling, Cancel, CancelStop, CancelTest, CancelTerminate,
     CancelCallback, Play, UseOfTarget
<1>8. ASSUME NEW g \in Gens, Receiving(g) \/ Handling(g) \/ Closing(g)
      PROVE  Present'
  BY <1>8 DEF Receiving, Open, PeerCloses, Lose, WorkerError, Message,
     WorkerExit, Handling, Push, TtsStart, InterruptClean, Interrupt, TtsOff,
     Closing, CloseStop, CloseTest, CloseTerminate, Work
<1>9. CASE Hangup \/ UNCHANGED vars
  BY <1>9 DEF Hangup, vars
<1> QED
  BY StepCases, <1>1, <1>2, <1>3, <1>4, <1>5, <1>6, <1>7, <1>8, <1>9

(* If every start has the type "ws" the handler is missing only in the     *)
(* window between the start of the playing thread and its creation.        *)
THEOREM NullWindow ==
  ASSUME Types = {"ws"}
  PROVE  Spec => [](NullOnlyWhileCreating /\ StartHasHandler)
<1>1. Init => Present
  BY DEF Init, Present, NullOnlyWhileCreating, StartHasHandler
<1>2. IInv /\ Present /\ [Next]_vars => Present'
  BY Parts, PresentStep DEF IInv
<1>3. Present => NullOnlyWhileCreating /\ StartHasHandler
  BY DEF Present
<1> QED
  BY <1>1, <1>2, <1>3, Invariant, PTL DEF Spec

-----------------------------------------------------------------------------
(* A step of a thread other than the application's is not the owner's.     *)
LEMMA OthersNotSeen ==
  ASSUME \/ Looping \/ Writing \/ Cancelling
         \/ \E g \in Gens : Receiving(g) \/ Handling(g) \/ Closing(g)
         \/ Hangup \/ UNCHANGED vars
  PROVE  UNCHANGED Life!lifeVars
<1>1. UNCHANGED <<app, Handler, old, freed>>
  <2>1. CASE Looping
    BY <2>1 DEF Looping, PlayGivesUp, PlayReady, LoopTest, TryPop,
       FinishReset, TestInterrupt, Play
  <2>2. CASE Writing \/ Cancelling
    BY <2>2 DEF Writing, WriteFrame, WriteFails, DetectEnd, DetectSend,
       Cancelling, Cancel, CancelStop, CancelTest, CancelTerminate,
       CancelCallback, Play
  <2>3. ASSUME NEW g \in Gens, Receiving(g) \/ Handling(g) \/ Closing(g)
        PROVE  UNCHANGED <<app, Handler, old, freed>>
    BY <2>3 DEF Receiving, Open, PeerCloses, Lose, WorkerError, Message,
       WorkerExit, Handling, Push, TtsStart, InterruptClean, Interrupt, TtsOff,
       Closing, CloseStop, CloseTest, CloseTerminate, Work
  <2>4. CASE Hangup \/ UNCHANGED vars
    BY <2>4 DEF Hangup, vars
  <2> QED  BY <2>1, <2>2, <2>3, <2>4
<1>2. (play' # "none") = (play # "none")
  <2>1. CASE Looping
    BY <2>1 DEF Looping, PlayGivesUp, PlayReady, LoopTest, TryPop,
       FinishReset, TestInterrupt, Play
  <2>2. CASE Writing \/ Cancelling
    BY <2>2 DEF Writing, WriteFrame, WriteFails, DetectEnd, DetectSend,
       Cancelling, Cancel, CancelStop, CancelTest, CancelTerminate,
       CancelCallback, Play
  <2>3. ASSUME NEW g \in Gens, Receiving(g) \/ Handling(g) \/ Closing(g)
        PROVE  play' = play
    BY <2>3 DEF Receiving, Open, PeerCloses, Lose, WorkerError, Message,
       WorkerExit, Handling, Push, TtsStart, InterruptClean, Interrupt, TtsOff,
       Closing, CloseStop, CloseTest, CloseTerminate, Work
  <2>4. CASE Hangup \/ UNCHANGED vars
    BY <2>4 DEF Hangup, vars
  <2> QED  BY <2>1, <2>2, <2>3, <2>4
<1>3. Stage' = Stage /\ HandlerInCharge' = HandlerInCharge
  BY <1>1 DEF Stage, HandlerInCharge
<1> QED  BY <1>1, <1>2, <1>3 DEF Life!lifeVars

(* stop_play_thread, the join, and the start of the next playing thread.   *)
LEMMA StoppingIsLife ==
  ASSUME IInv, Dangling, Stopping
  PROVE  [Life!Next]_(Life!lifeVars)
<1> USE DEF Stage, HandlerInCharge, Drops, App
<1>1. CASE StopPlayThread
  <2>1. /\ Stage = "idle" /\ Stage' \in {"starting", "deleting"}
        /\ HandlerInCharge' = HandlerInCharge /\ UNCHANGED <<play, freed>>
    BY <1>1 DEF StopPlayThread
  <2> QED  BY <2>1 DEF Life!Next, Life!Stop
<1>2. CASE JoinPlay
  <2>1. /\ Stage \in {"starting", "deleting"} /\ Stage' = Stage
        /\ HandlerInCharge' = HandlerInCharge
        /\ play' = "none" /\ UNCHANGED freed
    BY <1>2 DEF JoinPlay
  <2>2. CASE play = "none"
    BY <2>1, <2>2 DEF Life!lifeVars
  <2>3. CASE play # "none"
    BY <2>1, <2>3 DEF Life!Next, Life!Joined
  <2> QED  BY <2>2, <2>3
<1>3. CASE ClearAfterJoin /\ app = "start_clear"
  <2>1. /\ Stage' = Stage /\ HandlerInCharge' = HandlerInCharge
        /\ UNCHANGED <<play, freed>>
    BY <1>3 DEF ClearAfterJoin
  <2> QED  BY <2>1 DEF Life!lifeVars
<1>4. CASE ClearAfterJoin /\ app = "delete_clear" /\ Handler # 0
  <2>1. /\ Stage' = Stage /\ HandlerInCharge' = HandlerInCharge
        /\ UNCHANGED <<play, freed>>
    BY <1>4 DEF ClearAfterJoin
  <2> QED  BY <2>1 DEF Life!lifeVars
<1>5. CASE ClearAfterJoin /\ app = "delete_clear" /\ Handler = 0
  <2>1. /\ Stage = "deleting" /\ Stage' = "gone"
        /\ HandlerInCharge = 0 /\ HandlerInCharge' = 0
        /\ UNCHANGED <<play, freed>>
    BY <1>5 DEF ClearAfterJoin
  <2>2. play = "none"
    BY <1>5 DEF Dangling
  <2>3. freed' = freed \cup ({HandlerInCharge} \ {0})
    BY <2>1
  <2> QED  BY <2>1, <2>2, <2>3 DEF Life!Next, Life!Delete, Life!Retire
<1>6. CASE SpawnPlay
  <2>1. /\ Stage = "starting" /\ Stage' = "creating"
        /\ HandlerInCharge' = HandlerInCharge
        /\ play' = "begin" /\ UNCHANGED freed
    BY <1>6 DEF SpawnPlay
  <2>2. play = "none"
    BY <1>6 DEF IInv, Joined, SpawnPlay
  <2> QED  BY <2>1, <2>2 DEF Life!Next, Life!Play
<1> QED
  BY <1>1, <1>2, <1>3, <1>4, <1>5, <1>6 DEF Stopping, ClearAfterJoin

(* The handler of a start is later than all before it.                     *)
LEMMA NextIsLater ==
  ASSUME IInv, Dangling
  PROVE  /\ app = "create"
              => starts \in Gens /\ starts > Handler
                 /\ \A d \in freed : starts > d
         /\ app \in Drops /\ old # Handler
              => Handler \in Gens /\ Handler > old
                 /\ \A d \in freed : Handler > d
<1>1. /\ Handler \in Nat /\ old \in Nat /\ starts \in Nat
      /\ Handler <= MaxStarts /\ starts <= MaxStarts
      /\ \A d \in freed : d \in Nat
  BY Parts, GensAreNumbers, BoundsAssumption DEF IInv, Counts, Sets
<1>2. CASE app = "create"
  <2>1. Handler < starts /\ app \notin Drops
    BY <1>2 DEF IInv, Places, Drops
  <2>2. \A d \in freed : d < Handler
    BY <1>2 DEF Dangling
  <2>3. \A d \in freed : starts > d
    BY <1>1, <2>1, <2>2
  <2>4. starts \in Gens /\ starts > Handler
    BY <1>1, <2>1 DEF Gens
  <2> QED  BY <2>1, <2>3, <2>4
<1>3. CASE app \in Drops /\ old # Handler
  <2>1. old # 0 /\ old <= Handler /\ app # "create" /\ app # "gone"
    BY <1>3 DEF IInv, Places, Drops
  <2>2. Handler \in Gens /\ Handler > old
    BY <1>1, <1>3, <2>1 DEF Gens
  <2>3. \A d \in freed : Handler > d
    BY <1>1, <2>1 DEF Dangling
  <2> QED  BY <2>1, <2>2, <2>3
<1> QED  BY <1>2, <1>3

(* create_stream, up to the destructor of the handler it replaces.         *)
LEMMA CreatingIsLife ==
  ASSUME IInv, Dangling, Creating
  PROVE  [Life!Next]_(Life!lifeVars)
<1>1. PICK type \in Types : CreateHandler(type)
  BY DEF Creating
<1>2. /\ app = "create" /\ UNCHANGED <<play, freed>>
      /\ \/ /\ Handler' = starts /\ old' = Handler
            /\ app' = IF Handler = 0 THEN "parse" ELSE "drop"
         \/ app' = "parse" /\ UNCHANGED <<Handler, old>>
  BY <1>1 DEF CreateHandler, App
<1>3. /\ starts \in Gens /\ starts > Handler /\ \A d \in freed : starts > d
  BY <1>2, NextIsLater
<1>4. Stage = "creating" /\ HandlerInCharge = Handler
  BY <1>2 DEF Stage, HandlerInCharge, Drops
<1>5. CASE Handler' = starts /\ app' = "parse" /\ Handler = 0
  <2>1. Stage' = "idle" /\ HandlerInCharge' = starts
    BY <1>5 DEF Stage, HandlerInCharge, Drops
  <2>2. freed' = freed \cup ({HandlerInCharge} \ {0})
    BY <1>2, <1>4, <1>5
  <2> QED
    BY <1>2, <1>3, <1>4, <2>1, <2>2
       DEF Life!Next, Life!Create, Life!Retire, Life!Handlers, Gens
<1>6. CASE Handler' = starts /\ old' = Handler /\ app' = "drop"
  <2>1. old' # Handler'
    <3>1. starts \in Nat /\ Handler \in Nat
      BY Parts, BoundsAssumption DEF IInv, Counts
    <3> QED  BY <1>3, <1>6, <3>1
  <2>2. Stage' = "creating" /\ HandlerInCharge' = Handler
    BY <1>6, <2>1 DEF Stage, HandlerInCharge, Drops
  <2> QED  BY <1>2, <1>4, <2>2 DEF Life!lifeVars
<1>7. CASE app' = "parse" /\ UNCHANGED <<Handler, old>>
  <2>1. Stage' = "idle" /\ HandlerInCharge' = Handler
    BY <1>7 DEF Stage, HandlerInCharge, Drops
  <2> QED  BY <1>2, <1>4, <2>1 DEF Life!Next, Life!Create
<1> QED  BY <1>2, <1>5, <1>6, <1>7

(* The destructor of a replaced handler ends create_stream, that of the    *)
(* last one the deletion.                                                  *)
LEMMA DroppingIsLife ==
  ASSUME IInv, Dangling, Dropping
  PROVE  [Life!Next]_(Life!lifeVars)
<1>1. CASE DropStop \/ DropTest \/ DropTerminate \/ DropCallback
  <2>1. /\ app \in Drops /\ app' \in Drops
        /\ UNCHANGED <<Handler, old, play, freed>>
    BY <1>1 DEF DropStop, DropTest, DropTerminate, DropCallback, App, Drops
  <2>2. Stage' = Stage /\ HandlerInCharge' = HandlerInCharge
    BY <2>1 DEF Stage, HandlerInCharge, Drops
  <2> QED  BY <2>1, <2>2 DEF Life!lifeVars
<1>2. CASE DropJoin
  <2>1. /\ app = "drop_join" /\ freed' = freed \cup {old}
        /\ app' = IF old = Handler THEN "gone" ELSE "parse"
        /\ UNCHANGED <<Handler, old, play>>
    BY <1>2 DEF DropJoin, App
  <2>2. app \in Drops /\ HandlerInCharge = old
    BY <2>1 DEF Drops, HandlerInCharge
  <2>3. freed' = freed \cup ({HandlerInCharge} \ {0})
    BY <2>1, <2>2 DEF IInv, Places
  <2>4. CASE old = Handler
    <3>1. Stage = "deleting" /\ Stage' = "gone" /\ HandlerInCharge' = 0
      BY <2>1, <2>4 DEF Stage, HandlerInCharge, Drops
    <3>2. play = "none"
      BY <2>2, <2>4 DEF Dangling
    <3> QED
      BY <2>1, <2>3, <3>1, <3>2 DEF Life!Next, Life!Delete, Life!Retire
  <2>5. CASE old # Handler
    <3>1. Stage = "creating" /\ Stage' = "idle" /\ HandlerInCharge' = Handler
      BY <2>1, <2>5 DEF Stage, HandlerInCharge, Drops
    <3>2. Handler \in Gens /\ Handler > old /\ \A d \in freed : Handler > d
      BY <2>2, <2>5, NextIsLater
    <3> QED
      BY <2>1, <2>2, <2>3, <3>1, <3>2
         DEF Life!Next, Life!Create, Life!Retire, Life!Handlers, Gens
  <2> QED  BY <2>4, <2>5
<1> QED  BY <1>1, <1>2 DEF Dropping

(* The rest of create_stream goes on between two calls, as seen from here. *)
LEMMA ConnectingIsLife ==
  ASSUME Connecting
  PROVE  UNCHANGED Life!lifeVars
<1>1. /\ app \in {"parse", "connect", "spawn_worker", "assign_worker"}
      /\ app' \in {"idle", "connect", "spawn_worker", "assign_worker"}
      /\ UNCHANGED <<Handler, old, play, freed>>
  BY DEF Connecting, ParseFails, StartHandler, UrlRejected, Connect,
     SpawnWorker, AssignWorker, App
<1>2. Stage = "idle" /\ Stage' = "idle" /\ HandlerInCharge' = HandlerInCharge
  BY <1>1 DEF Stage, HandlerInCharge, Drops
<1> QED  BY <1>1, <1>2 DEF Life!lifeVars

(* Whatever the peers and the threads do, the owner of a streamer is told  *)
(* the truth: a call that returns has joined, started or deleted what it   *)
(* says, each handler is deleted once, and none is left behind.            *)
THEOREM StreamerHasLife == Spec => IsStreamerLife
<1>1. Init => Life!Init
  BY DEF Init, Life!Init, Stage, HandlerInCharge, Drops
<1>2. Init => Dangling
  BY DEF Init, Dangling, Drops, OnlyReplacedDangles
<1>3. IInv /\ Dangling /\ [Next]_vars => Dangling'
  BY Parts, DanglingStep DEF IInv
<1>4. IInv /\ Dangling /\ [Next]_vars => [Life!Next]_(Life!lifeVars)
  BY StepCases, OthersNotSeen, StoppingIsLife, CreatingIsLife,
     DroppingIsLife, ConnectingIsLife
<1> QED
  BY <1>1, <1>2, <1>3, <1>4, Invariant, PTL
     DEF Spec, IsStreamerLife, Life!Spec
=============================================================================
