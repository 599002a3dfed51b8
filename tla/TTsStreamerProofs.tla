-------------------------- MODULE TTsStreamerProofs --------------------------
(***************************************************************************)
(* What holds of TTsStreamer for every number of starts and of messages    *)
(* and every type argument.                                                *)
(*                                                                         *)
(* IInv says which connection may be alive at each step of the application *)
(* thread (Owned), that the frames on their way to the channel are in the  *)
(* order of the starts (Order), what a thread may still play after a stop  *)
(* or an interrupt (StopBound, LateBound), what a replaced connection may  *)
(* still queue (Joined, Silent, StaleBound), and which connections can be  *)
(* closed (Dealt).  Every conjunct has a lemma of its own, with a case for *)
(* each group of actions.                                                  *)
(***************************************************************************)
EXTENDS TTsStreamer, SequenceTheorems, FiniteSetTheorems, TLAPS

USE DEF queueVars, appVars, playVars, history, appKeeps, pointers, conns,
        playKeeps, popped, cancel, writes, workKeeps, Running

-----------------------------------------------------------------------------
(* The actions, in the groups the proofs go through: those of the          *)
(* application thread, of the playing thread, and of a worker.             *)
Stopping == StopPlayThread \/ JoinPlay \/ ClearAfterJoin \/ SpawnPlay
Creating == \E type \in Types : CreateHandler(type)
Dropping == DropStop \/ DropTest \/ DropTerminate \/ DropCallback \/ DropJoin
Connecting ==
  \/ ParseFails \/ StartHandler \/ UrlRejected
  \/ Connect \/ SpawnWorker \/ AssignWorker
Looping ==
  \/ PlayGivesUp \/ PlayReady \/ LoopTest
  \/ TryPop \/ FinishReset \/ TestInterrupt
Writing == WriteFrame \/ WriteFails \/ DetectEnd \/ DetectSend
Cancelling ==
  Cancel \/ CancelStop \/ CancelTest \/ CancelTerminate \/ CancelCallback
Receiving(g) ==
  \/ Open(g) \/ PeerCloses(g) \/ Lose(g) \/ WorkerError(g)
  \/ Message(g) \/ WorkerExit(g)
Handling(g) ==
  Push(g) \/ TtsStart(g) \/ InterruptClean(g) \/ Interrupt(g) \/ TtsOff(g)
Closing(g) == CloseStop(g) \/ CloseTest(g) \/ CloseTerminate(g)

(* Every step belongs to a group.                                          *)
LEMMA StepCases ==
  ASSUME [Next]_vars
  PROVE  \/ Stopping \/ Creating \/ Dropping \/ Connecting
         \/ Looping \/ Writing \/ Cancelling
         \/ \E g \in Gens : Receiving(g) \/ Handling(g) \/ Closing(g)
         \/ Hangup \/ UNCHANGED vars
BY DEF Next, AppStep, PlayStep, WorkerStep, PeerStep, Stopping, Creating,
   Dropping, Connecting, Looping, Writing, Cancelling, Receiving, Handling,
   Closing

-----------------------------------------------------------------------------
(* Where a thread is tells which pointers it holds: the destructor runs on *)
(* a handler, a new handler has a new number, and a thread that goes on    *)
(* through a null pointer has ended the process.                           *)
Places ==
  /\ app \in {"start_join", "start_clear", "spawn_play"} => starts < MaxStarts
  /\ app \in Drops => old # 0 /\ old <= Handler
  /\ Handler <= starts
  /\ app = "create" => Handler < starts
  /\ Running /\ play \in {"cancel_stop", "cancel_test", "cancel_terminate",
                         "cancel_callback"}
       => target # 0
  /\ Running /\ app \in {"connect", "spawn_worker", "assign_worker"}
       => Handler # 0

(* TypeOK, in parts that are proved one by one.                            *)
Flags ==
  /\ thread_run \in BOOLEAN /\ is_interrupt \in BOOLEAN
  /\ is_finished \in BOOLEAN /\ executing \in BOOLEAN

Labels ==
  /\ app \in AppLabels /\ play \in PlayLabels /\ fault \in Faults

Maps ==
  /\ con \in [Gens -> {"none", "connecting", "open", "closing", "closed"}]
  /\ worker \in [Gens -> WorkLabels]
  /\ joinable \in [Gens -> BOOLEAN] /\ stopped \in [Gens -> BOOLEAN]
  /\ is_tts \in [Gens -> BOOLEAN]

Counts ==
  /\ starts \in 0..MaxStarts
  /\ Handler \in 0..MaxStarts /\ old \in 0..MaxStarts
  /\ ret \in 0..2 /\ target \in 0..MaxStarts
  /\ budget \in 0..LoopBudget
  /\ sent \in 0..MaxMessages
  /\ late \in Nat /\ overrun \in Nat

Sets == freed \subseteq Gens /\ silenced \subseteq Gens

Queue ==
  /\ ttsQueue \in Seq(Gens) /\ frame \in 0..MaxStarts
  /\ played \in 0..MaxStarts

(* The handler in charge: a replaced one is, until its destructor returns. *)
Top == IF app \in Drops THEN old ELSE Handler

(* A live worker is that of the handler in charge, and the destructor will *)
(* find it joinable; none is live when the next connection is made.        *)
Owned ==
  \A g \in Gens : Alive(g) =>
    /\ g = Top
    /\ Running => app \notin {"connect", "spawn_worker"}
    /\ joinable[g] \/ app = "assign_worker"

(* Once interrupted, at most one frame is written: the test before the     *)
(* write lets no other through.                                            *)
LateBound ==
  IF is_interrupt THEN late <= (IF play = "write" THEN 0 ELSE 1) ELSE late = 0

(* Steps of the playing thread that may still lead to a write.             *)
OnItsWay == {"pop", "finish_reset", "test_interrupt", "write"}

(* Once told to stop, the playing thread has at most the frame on its way  *)
(* left, and thread_run stays cleared until it has been joined.            *)
StopBound ==
  app \in {"start_join", "delete_join"} =>
    ~thread_run /\ overrun <= (IF play \in OnItsWay THEN 0 ELSE 1)

(* From the channel back to the queue's end the frames are in the order of *)
(* their starts, and none is younger than the handler in charge.           *)
Order ==
  /\ played <= frame /\ frame <= Top
  /\ \A i \in DOMAIN ttsQueue : frame <= ttsQueue[i] /\ ttsQueue[i] <= Top
  /\ \A i, j \in DOMAIN ttsQueue : i <= j => ttsQueue[i] <= ttsQueue[j]

(* A handler that was never in charge has no connection, and the playing   *)
(* thread terminates none.                                                 *)
Dealt ==
  \A g \in Gens :
    con[g] # "none" \/ (play = "cancel_terminate" /\ target = g) => g <= Top

(* The queue is cleared, and the next thread spawned, after the join.      *)
Joined ==
  app \in {"start_clear", "delete_clear", "spawn_play"} => play = "none"

(* A connection its playing thread has silenced is stopped.                *)
Silent == \A g \in silenced : stopped[g]

(* Frames of g are stale: g was silenced, and is being or has been         *)
(* replaced by a later start.                                              *)
Stale(g) == g \in silenced /\ (g < starts \/ app = "spawn_play")

(* At most one frame is stale, and while one more may still be pushed      *)
(* there is none.                                                          *)
StaleBound ==
  /\ \A i, j \in DOMAIN ttsQueue :
       Stale(ttsQueue[i]) /\ Stale(ttsQueue[j]) => i = j
  /\ \A g \in Gens : \A i \in DOMAIN ttsQueue :
       Stale(g) /\ worker[g] = "push" => ~Stale(ttsQueue[i])

IInv ==
  /\ TypeOK /\ Places /\ Owned /\ Order
  /\ LateBound /\ StopBound /\ Dealt /\ ClosedStopsPlay
  /\ Joined /\ Silent /\ StaleBound

-----------------------------------------------------------------------------
(* What a step does to the frames: it keeps or clears the queue and may    *)
(* write the frame in hand, or pops the queue's head, or appends a frame   *)
(* of the worker that is pushing.                                          *)
LEMMA QueueSteps ==
  ASSUME [Next]_vars
  PROVE  \/ /\ ttsQueue' \in {ttsQueue, <<>>} /\ frame' = frame
            /\ played' \in {played, frame}
         \/ /\ ttsQueue # <<>> /\ played' = played
            /\ frame' = Head(ttsQueue) /\ ttsQueue' = Tail(ttsQueue)
         \/ /\ frame' = frame /\ played' = played
            /\ \E g \in Gens : /\ worker[g] = "push"
                               /\ worker' = [worker EXCEPT ![g] = "run"]
                               /\ ttsQueue' = Append(ttsQueue, g)
<1>1. CASE Stopping
  BY <1>1 DEF Stopping, StopPlayThread, JoinPlay, ClearAfterJoin, SpawnPlay,
     App, ClearQueue
<1>2. CASE Creating \/ Dropping \/ Connecting
  <2>1. UNCHANGED <<ttsQueue, frame, played>>
    BY <1>2 DEF Creating, CreateHandler, Dropping, DropStop, DropTest,
       DropTerminate, DropCallback, DropJoin, Connecting, ParseFails,
       StartHandler, UrlRejected, Connect, SpawnWorker, AssignWorker, App
  <2> QED
    BY <2>1
<1>3. CASE Looping
  BY <1>3 DEF Looping, PlayGivesUp, PlayReady, LoopTest, TryPop, FinishReset,
     TestInterrupt, Play
<1>4. CASE Writing \/ Cancelling
  BY <1>4 DEF Writing, WriteFrame, WriteFails, DetectEnd, DetectSend,
     Cancelling, Cancel, CancelStop, CancelTest, CancelTerminate,
     CancelCallback, Play
<1>5. ASSUME NEW g \in Gens, Receiving(g) \/ Closing(g)
      PROVE  UNCHANGED <<ttsQueue, frame, played>>
  BY <1>5 DEF Receiving, Open, PeerCloses, Lose, WorkerError, Message,
     WorkerExit, Closing, CloseStop, CloseTest, CloseTerminate, Work
<1>6. ASSUME NEW g \in Gens, Handling(g)
      PROVE  \/ ttsQueue' \in {ttsQueue, <<>>}
             \/ /\ worker[g] = "push"
                /\ worker' = [worker EXCEPT ![g] = "run"]
                /\ ttsQueue' = Append(ttsQueue, g)
  BY <1>6 DEF Handling, Push, TtsStart, InterruptClean, Interrupt, TtsOff,
     Work, ClearQueue
<1>7. ASSUME NEW g \in Gens, Handling(g)
      PROVE  UNCHANGED <<frame, played>>
  BY <1>7 DEF Handling, Push, TtsStart, InterruptClean, Interrupt, TtsOff, Work
<1>8. CASE Hangup \/ UNCHANGED vars
  BY <1>8 DEF Hangup, vars
<1> QED
  BY StepCases, <1>1, <1>2, <1>3, <1>4, <1>5, <1>6, <1>7, <1>8

(* Handlers are numbers other than null.                                   *)
LEMMA GensAreNumbers ==
  \A g \in Gens : g \in Nat /\ g # 0 /\ g \in 0..MaxStarts
BY BoundsAssumption DEF Gens

(* The queue, the frame in hand and the frame written keep their type.     *)
LEMMA QueueTypes ==
  ASSUME Queue, [Next]_vars
  PROVE  Queue'
<1> USE GensAreNumbers DEF Queue
<1>1. CASE /\ ttsQueue' \in {ttsQueue, <<>>} /\ frame' = frame
           /\ played' \in {played, frame}
  BY <1>1, EmptySeq
<1>2. CASE /\ ttsQueue # <<>> /\ played' = played
           /\ frame' = Head(ttsQueue) /\ ttsQueue' = Tail(ttsQueue)
  <2>1. Head(ttsQueue) \in Gens /\ Tail(ttsQueue) \in Seq(Gens)
    BY <1>2, HeadTailProperties
  <2> QED
    BY <1>2, <2>1
<1>3. ASSUME NEW g \in Gens, ttsQueue' = Append(ttsQueue, g)
      PROVE  ttsQueue' \in Seq(Gens)
  BY <1>3, AppendProperties
<1> QED
  BY QueueSteps, <1>1, <1>2, <1>3

(* What the playing thread cancels is a handler.                           *)
LEMMA TargetInGens ==
  ASSUME Counts, Places, CancelStop
  PROVE  target \in Gens
BY BoundsAssumption DEF Counts, Places, Gens, CancelStop, Play

(* The flags stay Boolean.                                                 *)
LEMMA FlagTypes ==
  ASSUME Flags, [Next]_vars
  PROVE  Flags'
<1> USE DEF Flags
<1>1. CASE Stopping
  BY <1>1 DEF Stopping, StopPlayThread, JoinPlay, ClearAfterJoin, SpawnPlay,
     App, ClearQueue
<1>2. CASE Creating
  BY <1>2 DEF Creating, CreateHandler, App
<1>3. CASE Dropping
  BY <1>3 DEF Dropping, DropStop, DropTest, DropTerminate, DropCallback,
     DropJoin, App, Stop, Terminate, ErrorCallback
<1>4. CASE Connecting
  BY <1>4 DEF Connecting, ParseFails, StartHandler, UrlRejected, Connect,
     SpawnWorker, AssignWorker, App, ErrorCallback
<1>5. CASE Looping
  BY <1>5 DEF Looping, PlayGivesUp, PlayReady, LoopTest, TryPop,
     FinishReset, TestInterrupt, Play, MayLoop
<1>6. CASE Writing
  BY <1>6 DEF Writing, WriteFrame, WriteFails, DetectEnd, DetectSend, Play,
     UseOfTarget
<1>7. CASE Cancelling
  BY <1>7 DEF Cancelling, Cancel, CancelStop, CancelTest, CancelTerminate,
     CancelCallback, Play, UseOfTarget, Stop, Terminate, ErrorCallback
<1>8. ASSUME NEW h \in Gens, Receiving(h)
      PROVE  Flags'
  BY <1>8 DEF Receiving, Open, PeerCloses, Lose, WorkerError, Message,
     WorkerExit, Work, ErrorCallback
<1>9. ASSUME NEW h \in Gens, Handling(h)
      PROVE  Flags'
  BY <1>9 DEF Handling, Push, TtsStart, InterruptClean, Interrupt, TtsOff,
     Work, ClearQueue
<1>10. ASSUME NEW h \in Gens, Closing(h)
      PROVE  Flags'
  BY <1>10 DEF Closing, CloseStop, CloseTest, CloseTerminate, Work, Stop,
     Terminate
<1>11. CASE Hangup \/ UNCHANGED vars
  BY <1>11 DEF Hangup, vars
<1> QED
  BY StepCases, <1>1, <1>2, <1>3, <1>4, <1>5, <1>6, <1>7, <1>8, <1>9, <1>10,
     <1>11

(* Every thread stays at one of its steps, and fault at one of its values. *)
LEMMA LabelTypes ==
  ASSUME Labels, [Next]_vars
  PROVE  Labels'
<1> USE DEF Labels, AppLabels, PlayLabels, Faults
<1>1. CASE Stopping
  BY <1>1 DEF Stopping, StopPlayThread, JoinPlay, ClearAfterJoin, SpawnPlay,
     App, ClearQueue
<1>2. CASE Creating
  BY <1>2 DEF Creating, CreateHandler, App
<1>3. CASE Dropping
  BY <1>3 DEF Dropping, DropStop, DropTest, DropTerminate, DropCallback,
     DropJoin, App, Stop, Terminate, ErrorCallback
<1>4. CASE Connecting
  BY <1>4 DEF Connecting, ParseFails, StartHandler, UrlRejected, Connect,
     SpawnWorker, AssignWorker, App, ErrorCallback
<1>5. CASE Looping
  BY <1>5 DEF Looping, PlayGivesUp, PlayReady, LoopTest, TryPop,
     FinishReset, TestInterrupt, Play, MayLoop
<1>6. CASE Writing
  BY <1>6 DEF Writing, WriteFrame, WriteFails, DetectEnd, DetectSend, Play,
     UseOfTarget
<1>7. CASE Cancelling
  BY <1>7 DEF Cancelling, Cancel, CancelStop, CancelTest, CancelTerminate,
     CancelCallback, Play, UseOfTarget, Stop, Terminate, ErrorCallback
<1>8. ASSUME NEW h \in Gens, Receiving(h)
      PROVE  Labels'
  BY <1>8 DEF Receiving, Open, PeerCloses, Lose, WorkerError, Message,
     WorkerExit, Work, ErrorCallback
<1>9. ASSUME NEW h \in Gens, Handling(h)
      PROVE  Labels'
  BY <1>9 DEF Handling, Push, TtsStart, InterruptClean, Interrupt, TtsOff,
     Work, ClearQueue
<1>10. ASSUME NEW h \in Gens, Closing(h)
      PROVE  Labels'
  BY <1>10 DEF Closing, CloseStop, CloseTest, CloseTerminate, Work, Stop,
     Terminate
<1>11. CASE Hangup \/ UNCHANGED vars
  BY <1>11 DEF Hangup, vars
<1> QED
  BY StepCases, <1>1, <1>2, <1>3, <1>4, <1>5, <1>6, <1>7, <1>8, <1>9, <1>10,
     <1>11

(* The records of the handlers keep their type.                            *)
LEMMA MapTypes ==
  ASSUME Maps, Places, [Next]_vars
  PROVE  Maps'
<1> USE DEF Maps, Places, WorkLabels
<1>1. CASE Stopping
  BY <1>1 DEF Stopping, StopPlayThread, JoinPlay, ClearAfterJoin, SpawnPlay,
     App, ClearQueue
<1>2. CASE Creating
  BY <1>2 DEF Creating, CreateHandler, App
<1>3. CASE Dropping
  BY <1>3 DEF Dropping, DropStop, DropTest, DropTerminate, DropCallback,
     DropJoin, App, Stop, Terminate, ErrorCallback
<1>4. CASE Connecting
  BY <1>4 DEF Connecting, ParseFails, StartHandler, UrlRejected, Connect,
     SpawnWorker, AssignWorker, App, ErrorCallback
<1>5. CASE Looping
  BY <1>5 DEF Looping, PlayGivesUp, PlayReady, LoopTest, TryPop,
     FinishReset, TestInterrupt, Play, MayLoop
<1>6. CASE Writing
  BY <1>6 DEF Writing, WriteFrame, WriteFails, DetectEnd, DetectSend, Play,
     UseOfTarget
<1>7. CASE Cancelling
  BY <1>7 DEF Cancelling, Cancel, CancelStop, CancelTest, CancelTerminate,
     CancelCallback, Play, UseOfTarget, Stop, Terminate, ErrorCallback
<1>8. ASSUME NEW h \in Gens, Receiving(h)
      PROVE  Maps'
  BY <1>8 DEF Receiving, Open, PeerCloses, Lose, WorkerError, Message,
     WorkerExit, Work, ErrorCallback
<1>9. ASSUME NEW h \in Gens, Handling(h)
      PROVE  Maps'
  BY <1>9 DEF Handling, Push, TtsStart, InterruptClean, Interrupt, TtsOff,
     Work, ClearQueue
<1>10. ASSUME NEW h \in Gens, Closing(h)
      PROVE  Maps'
  BY <1>10 DEF Closing, CloseStop, CloseTest, CloseTerminate, Work, Stop,
     Terminate
<1>11. CASE Hangup \/ UNCHANGED vars
  BY <1>11 DEF Hangup, vars
<1> QED
  BY StepCases, <1>1, <1>2, <1>3, <1>4, <1>5, <1>6, <1>7, <1>8, <1>9, <1>10,
     <1>11

(* The counters and pointers stay within their bounds.                     *)
LEMMA CountTypes ==
  ASSUME Counts, Places, [Next]_vars
  PROVE  Counts'
<1> USE BoundsAssumption DEF Counts, Places, Gens
<1>1. CASE Stopping
  BY <1>1 DEF Stopping, StopPlayThread, JoinPlay, ClearAfterJoin, SpawnPlay,
     App, ClearQueue
<1>2. CASE Creating
  BY <1>2 DEF Creating, CreateHandler, App
<1>3. CASE Dropping
  BY <1>3 DEF Dropping, DropStop, DropTest, DropTerminate, DropCallback,
     DropJoin, App, Stop, Terminate, ErrorCallback
<1>4. CASE Connecting
  BY <1>4 DEF Connecting, ParseFails, StartHandler, UrlRejected, Connect,
     SpawnWorker, AssignWorker, App, ErrorCallback
<1>5. CASE Looping
  BY <1>5 DEF Looping, PlayGivesUp, PlayReady, LoopTest, TryPop,
     FinishReset, TestInterrupt, Play, MayLoop
<1>6. CASE Writing
  <2>1. CASE WriteFrame
    BY <2>1 DEF WriteFrame, Play
  <2>2. CASE WriteFails \/ DetectEnd \/ DetectSend
    BY <2>2 DEF WriteFails, DetectEnd, DetectSend, Play
  <2> QED
    BY <1>6, <2>1, <2>2 DEF Writing
<1>7. CASE Cancelling
  BY <1>7 DEF Cancelling, Cancel, CancelStop, CancelTest, CancelTerminate,
     CancelCallback, Play, UseOfTarget, Stop, Terminate, ErrorCallback
<1>8. ASSUME NEW h \in Gens, Receiving(h)
      PROVE  Counts'
  BY <1>8 DEF Receiving, Open, PeerCloses, Lose, WorkerError, Message,
     WorkerExit, Work, ErrorCallback
<1>9. ASSUME NEW h \in Gens, Handling(h)
      PROVE  Counts'
  BY <1>9 DEF Handling, Push, TtsStart, InterruptClean, Interrupt, TtsOff,
     Work, ClearQueue
<1>10. ASSUME NEW h \in Gens, Closing(h)
      PROVE  Counts'
  BY <1>10 DEF Closing, CloseStop, CloseTest, CloseTerminate, Work, Stop,
     Terminate
<1>11. CASE Hangup \/ UNCHANGED vars
  BY <1>11 DEF Hangup, vars
<1> QED
  BY StepCases, <1>1, <1>2, <1>3, <1>4, <1>5, <1>6, <1>7, <1>8, <1>9, <1>10,
     <1>11

(* Between the join and the next spawn there is no playing thread.         *)
LEMMA JoinedStep ==
  ASSUME Joined, [Next]_vars
  PROVE  Joined'
<1> USE DEF Joined
<1>1. CASE Stopping
  BY <1>1 DEF Stopping, StopPlayThread, JoinPlay, ClearAfterJoin, SpawnPlay,
     App, ClearQueue
<1>2. CASE Creating
  BY <1>2 DEF Creating, CreateHandler, App
<1>3. CASE Dropping
  BY <1>3 DEF Dropping, DropStop, DropTest, DropTerminate, DropCallback,
     DropJoin, App, Stop, Terminate, ErrorCallback
<1>4. CASE Connecting
  BY <1>4 DEF Connecting, ParseFails, StartHandler, UrlRejected, Connect,
     SpawnWorker, AssignWorker, App, ErrorCallback
<1>5. CASE Looping
  BY <1>5 DEF Looping, PlayGivesUp, PlayReady, LoopTest, TryPop,
     FinishReset, TestInterrupt, Play, MayLoop
<1>6. CASE Writing
  BY <1>6 DEF Writing, WriteFrame, WriteFails, DetectEnd, DetectSend, Play,
     UseOfTarget
<1>7. CASE Cancelling
  BY <1>7 DEF Cancelling, Cancel, CancelStop, CancelTest, CancelTerminate,
     CancelCallback, Play, UseOfTarget, Stop, Terminate, ErrorCallback
<1>8. ASSUME NEW h \in Gens, Receiving(h)
      PROVE  Joined'
  BY <1>8 DEF Receiving, Open, PeerCloses, Lose, WorkerError, Message,
     WorkerExit, Work, ErrorCallback
<1>9. ASSUME NEW h \in Gens, Handling(h)
      PROVE  Joined'
  BY <1>9 DEF Handling, Push, TtsStart, InterruptClean, Interrupt, TtsOff,
     Work, ClearQueue
<1>10. ASSUME NEW h \in Gens, Closing(h)
      PROVE  Joined'
  BY <1>10 DEF Closing, CloseStop, CloseTest, CloseTerminate, Work, Stop,
     Terminate
<1>11. CASE Hangup \/ UNCHANGED vars
  BY <1>11 DEF Hangup, vars
<1> QED
  BY StepCases, <1>1, <1>2, <1>3, <1>4, <1>5, <1>6, <1>7, <1>8, <1>9, <1>10,
     <1>11

(* A silenced connection stays stopped.                                    *)
LEMMA SilentStep ==
  ASSUME Counts, Maps, Sets, Places, Silent, [Next]_vars
  PROVE  Silent'
<1> USE DEF Maps, Sets, Silent
<1>1. CASE Stopping
  BY <1>1 DEF Stopping, StopPlayThread, JoinPlay, ClearAfterJoin, SpawnPlay,
     App, ClearQueue
<1>2. CASE Creating
  BY <1>2 DEF Creating, CreateHandler, App
<1>3. CASE Dropping
  BY <1>3 DEF Dropping, DropStop, DropTest, DropTerminate, DropCallback,
     DropJoin, App, Stop, Terminate, ErrorCallback
<1>4. CASE Connecting
  BY <1>4 DEF Connecting, ParseFails, StartHandler, UrlRejected, Connect,
     SpawnWorker, AssignWorker, App, ErrorCallback
<1>5. CASE Looping
  BY <1>5 DEF Looping, PlayGivesUp, PlayReady, LoopTest, TryPop,
     FinishReset, TestInterrupt, Play, MayLoop
<1>6. CASE Writing
  BY <1>6 DEF Writing, WriteFrame, WriteFails, DetectEnd, DetectSend, Play,
     UseOfTarget
<1>7. CASE Cancelling
  <2>1. CASE CancelStop
    <3>1. target \in Gens
      BY <2>1, TargetInGens
    <3>2. \/ UNCHANGED <<stopped, silenced>>
          \/ /\ stopped' = [stopped EXCEPT ![target] = TRUE]
             /\ silenced' \in {silenced, silenced \cup {target}}
      BY <2>1 DEF CancelStop, Play, Stop
    <3> QED
      BY <3>1, <3>2
  <2>2. CASE Cancel \/ CancelTest \/ CancelTerminate \/ CancelCallback
    BY <2>2 DEF Cancel, CancelTest, CancelTerminate, CancelCallback, Play
  <2> QED
    BY <1>7, <2>1, <2>2 DEF Cancelling
<1>8. ASSUME NEW h \in Gens, Receiving(h)
      PROVE  Silent'
  BY <1>8 DEF Receiving, Open, PeerCloses, Lose, WorkerError, Message,
     WorkerExit, Work, ErrorCallback
<1>9. ASSUME NEW h \in Gens, Handling(h)
      PROVE  Silent'
  BY <1>9 DEF Handling, Push, TtsStart, InterruptClean, Interrupt, TtsOff,
     Work, ClearQueue
<1>10. ASSUME NEW h \in Gens, Closing(h)
      PROVE  Silent'
  BY <1>10 DEF Closing, CloseStop, CloseTest, CloseTerminate, Work, Stop,
     Terminate
<1>11. CASE Hangup \/ UNCHANGED vars
  BY <1>11 DEF Hangup, vars
<1> QED
  BY StepCases, <1>1, <1>2, <1>3, <1>4, <1>5, <1>6, <1>7, <1>8, <1>9, <1>10,
     <1>11

(* A connection becomes stale only as the queue is cleared.                *)
LEMMA StaleKept ==
  ASSUME Counts, Sets, Joined, [Next]_vars,
         NEW g \in Gens, Stale(g)', ttsQueue' # <<>>
  PROVE  Stale(g)
<1> USE GensAreNumbers DEF Counts, Sets, Joined, Stale
<1>1. CASE Stopping
  BY <1>1 DEF Stopping, StopPlayThread, JoinPlay, ClearAfterJoin, SpawnPlay,
     App, ClearQueue
<1>2. CASE Creating
  BY <1>2 DEF Creating, CreateHandler, App
<1>3. CASE Dropping
  BY <1>3 DEF Dropping, DropStop, DropTest, DropTerminate, DropCallback,
     DropJoin, App, Stop, Terminate, ErrorCallback
<1>4. CASE Connecting
  BY <1>4 DEF Connecting, ParseFails, StartHandler, UrlRejected, Connect,
     SpawnWorker, AssignWorker, App, ErrorCallback
<1>5. CASE Looping
  BY <1>5 DEF Looping, PlayGivesUp, PlayReady, LoopTest, TryPop,
     FinishReset, TestInterrupt, Play, MayLoop
<1>6. CASE Writing
  BY <1>6 DEF Writing, WriteFrame, WriteFails, DetectEnd, DetectSend, Play,
     UseOfTarget
<1>7. CASE Cancelling
  <2>1. CASE CancelStop
    <3>1. /\ app # "spawn_play" /\ UNCHANGED <<app, starts>>
          /\ \/ silenced' = silenced
             \/ target = starts /\ silenced' = silenced \cup {target}
      BY <2>1 DEF CancelStop, Play
    <3> QED
      BY <3>1
  <2>2. CASE Cancel \/ CancelTest \/ CancelTerminate \/ CancelCallback
    BY <2>2 DEF Cancel, CancelTest, CancelTerminate, CancelCallback, Play
  <2> QED
    BY <1>7, <2>1, <2>2 DEF Cancelling
<1>8. ASSUME NEW h \in Gens, Receiving(h)
      PROVE  Stale(g)
  BY <1>8 DEF Receiving, Open, PeerCloses, Lose, WorkerError, Message,
     WorkerExit, Work, ErrorCallback
<1>9. ASSUME NEW h \in Gens, Handling(h)
      PROVE  Stale(g)
  BY <1>9 DEF Handling, Push, TtsStart, InterruptClean, Interrupt, TtsOff,
     Work, ClearQueue
<1>10. ASSUME NEW h \in Gens, Closing(h)
      PROVE  Stale(g)
  BY <1>10 DEF Closing, CloseStop, CloseTest, CloseTerminate, Work, Stop,
     Terminate
<1>11. CASE Hangup \/ UNCHANGED vars
  BY <1>11 DEF Hangup, vars
<1> QED
  BY StepCases, <1>1, <1>2, <1>3, <1>4, <1>5, <1>6, <1>7, <1>8, <1>9, <1>10,
     <1>11

(* A silenced connection receives no further audio.                        *)
LEMMA PushersKept ==
  ASSUME Maps, Silent, [Next]_vars,
         NEW g \in Gens, worker'[g] = "push", g \in silenced'
  PROVE  worker[g] = "push"
<1> USE DEF Maps, Silent
<1>1. CASE Stopping
  BY <1>1 DEF Stopping, StopPlayThread, JoinPlay, ClearAfterJoin, SpawnPlay,
     App, ClearQueue
<1>2. CASE Creating
  BY <1>2 DEF Creating, CreateHandler, App
<1>3. CASE Dropping
  BY <1>3 DEF Dropping, DropStop, DropTest, DropTerminate, DropCallback,
     DropJoin, App, Stop, Terminate, ErrorCallback
<1>4. CASE Connecting
  BY <1>4 DEF Connecting, ParseFails, StartHandler, UrlRejected, Connect,
     SpawnWorker, AssignWorker, App, ErrorCallback
<1>5. CASE Looping
  BY <1>5 DEF Looping, PlayGivesUp, PlayReady, LoopTest, TryPop,
     FinishReset, TestInterrupt, Play, MayLoop
<1>6. CASE Writing
  BY <1>6 DEF Writing, WriteFrame, WriteFails, DetectEnd, DetectSend, Play,
     UseOfTarget
<1>7. CASE Cancelling
  BY <1>7 DEF Cancelling, Cancel, CancelStop, CancelTest, CancelTerminate,
     CancelCallback, Play, UseOfTarget, Stop, Terminate, ErrorCallback
<1>8. ASSUME NEW h \in Gens, Receiving(h)
      PROVE  worker[g] = "push"
  BY <1>8 DEF Receiving, Open, PeerCloses, Lose, WorkerError, Message,
     WorkerExit, Work, ErrorCallback
<1>9. ASSUME NEW h \in Gens, Handling(h)
      PROVE  worker[g] = "push"
  BY <1>9 DEF Handling, Push, TtsStart, InterruptClean, Interrupt, TtsOff,
     Work, ClearQueue
<1>10. ASSUME NEW h \in Gens, Closing(h)
      PROVE  worker[g] = "push"
  BY <1>10 DEF Closing, CloseStop, CloseTest, CloseTerminate, Work, Stop,
     Terminate
<1>11. CASE Hangup \/ UNCHANGED vars
  BY <1>11 DEF Hangup, vars
<1> QED
  BY StepCases, <1>1, <1>2, <1>3, <1>4, <1>5, <1>6, <1>7, <1>8, <1>9, <1>10,
     <1>11

(* The handler in charge is only replaced by a later one.                  *)
LEMMA TopGrows ==
  ASSUME Counts, Places, [Next]_vars
  PROVE  Top \in Nat /\ Top' \in Nat /\ Top <= Top'
<1>0. Top \in Nat /\ Top' \in Nat
  <2>1. Counts'
    BY CountTypes
  <2> QED
    BY <2>1, BoundsAssumption DEF Counts, Top
<1> USE BoundsAssumption DEF Counts, Places, Top, Drops
<1>1. CASE Stopping
  BY <1>1 DEF Stopping, StopPlayThread, JoinPlay, ClearAfterJoin, SpawnPlay, App
<1>2. CASE Creating
  BY <1>2 DEF Creating, CreateHandler, App
<1>3. CASE Dropping
  BY <1>3 DEF Dropping, DropStop, DropTest, DropTerminate, DropCallback,
     DropJoin, App
<1>4. CASE Connecting
  <2>1. /\ app \notin Drops /\ app' \notin Drops /\ Handler' = Handler
    BY <1>4 DEF Connecting, ParseFails, StartHandler, UrlRejected, Connect,
       SpawnWorker, AssignWorker, App
  <2> QED
    BY <2>1
<1>5. CASE Looping \/ Writing \/ Cancelling
  <2>1. UNCHANGED <<app, Handler, old>>
    BY <1>5 DEF Looping, PlayGivesUp, PlayReady, LoopTest, TryPop, FinishReset,
       TestInterrupt, Writing, WriteFrame, WriteFails, DetectEnd, DetectSend,
       Cancelling, Cancel, CancelStop, CancelTest, CancelTerminate,
       CancelCallback, Play
  <2> QED
    BY <2>1
<1>6. ASSUME NEW g \in Gens, Receiving(g) \/ Handling(g) \/ Closing(g)
      PROVE  UNCHANGED <<app, Handler, old>>
  BY <1>6 DEF Receiving, Open, PeerCloses, Lose, WorkerError, Message,
     WorkerExit, Closing, CloseStop, CloseTest, CloseTerminate, Work, Handling,
     Push, TtsStart, InterruptClean, Interrupt, TtsOff
<1>7. CASE Hangup \/ UNCHANGED vars
  BY <1>7 DEF Hangup, vars
<1> QED
  BY StepCases, <1>0, <1>1, <1>2, <1>3, <1>4, <1>5, <1>6, <1>7

(* Frames stay in order, and so does what is heard.                        *)
LEMMA OrderStep ==
  ASSUME Queue, Counts, Places, Owned, Order, [Next]_vars
  PROVE  Order' /\ played <= played'
<1> USE GensAreNumbers, BoundsAssumption DEF Queue
<1>1. Top \in Nat /\ Top' \in Nat /\ Top <= Top'
  BY TopGrows
<1>2. DOMAIN ttsQueue = 1..Len(ttsQueue) /\ Len(ttsQueue) \in Nat
  BY LenProperties
<1>3. \A i \in DOMAIN ttsQueue : ttsQueue[i] \in Gens
  BY <1>2, ElementOfSeq
<1>4. CASE /\ ttsQueue' \in {ttsQueue, <<>>} /\ frame' = frame
           /\ played' \in {played, frame}
  <2>1. CASE ttsQueue' = ttsQueue
    BY <1>1, <1>3, <1>4, <2>1 DEF Order
  <2>2. CASE ttsQueue' = <<>>
    BY <1>1, <1>4, <2>2 DEF Order
  <2> QED
    BY <1>4, <2>1, <2>2
<1>5. CASE /\ ttsQueue # <<>> /\ played' = played
           /\ frame' = Head(ttsQueue) /\ ttsQueue' = Tail(ttsQueue)
  <2>1. /\ Len(ttsQueue') = Len(ttsQueue) - 1 /\ ttsQueue' \in Seq(Gens)
        /\ \A i \in 1..Len(ttsQueue') : ttsQueue'[i] = ttsQueue[i + 1]
    BY <1>5, HeadTailProperties
  <2>2. DOMAIN ttsQueue' = 1..Len(ttsQueue') /\ 1 \in DOMAIN ttsQueue
    BY <2>1, <1>2, <1>5, LenProperties, EmptySeq
  <2>3. frame' = ttsQueue[1]
    BY <1>5, <2>2
  <2>4. \A i \in DOMAIN ttsQueue' :
          i + 1 \in DOMAIN ttsQueue /\ ttsQueue'[i] = ttsQueue[i + 1]
            /\ i \in Nat /\ i # 0
    BY <1>2, <2>1, <2>2
  <2>5. frame <= frame' /\ frame' <= Top' /\ frame' \in Nat
    BY <1>1, <1>3, <2>2, <2>3 DEF Order
  <2>6. \A i \in DOMAIN ttsQueue' :
          frame' <= ttsQueue'[i] /\ ttsQueue'[i] <= Top'
    BY <1>1, <1>3, <2>2, <2>3, <2>4 DEF Order
  <2>7. \A i, j \in DOMAIN ttsQueue' : i <= j => ttsQueue'[i] <= ttsQueue'[j]
    BY <2>4 DEF Order
  <2> QED
    BY <1>5, <2>5, <2>6, <2>7 DEF Order
<1>6. ASSUME NEW g \in Gens, worker[g] = "push",
             ttsQueue' = Append(ttsQueue, g), frame' = frame, played' = played
      PROVE  Order' /\ played <= played'
  <2>1. g = Top
    BY <1>6 DEF Owned, Alive
  <2>2. /\ Len(ttsQueue') = Len(ttsQueue) + 1 /\ ttsQueue' \in Seq(Gens)
        /\ \A i \in 1..Len(ttsQueue) : ttsQueue'[i] = ttsQueue[i]
        /\ ttsQueue'[Len(ttsQueue) + 1] = g
    BY <1>6, AppendProperties
  <2>3. DOMAIN ttsQueue' = 1..Len(ttsQueue')
    BY <2>2, LenProperties
  <2>4. \A i \in DOMAIN ttsQueue' :
          \/ i \in DOMAIN ttsQueue /\ ttsQueue'[i] = ttsQueue[i]
          \/ i = Len(ttsQueue) + 1 /\ ttsQueue'[i] = Top
    BY <1>2, <2>1, <2>2, <2>3
  <2>5. \A i \in DOMAIN ttsQueue' : frame <= ttsQueue'[i] /\ ttsQueue'[i] <= Top
    BY <1>1, <2>4 DEF Order
  <2>6. \A i, j \in DOMAIN ttsQueue' : i <= j => ttsQueue'[i] <= ttsQueue'[j]
    <3> SUFFICES ASSUME NEW i \in DOMAIN ttsQueue', NEW j \in DOMAIN ttsQueue',
                        i <= j
                 PROVE  ttsQueue'[i] <= ttsQueue'[j]
      OBVIOUS
    <3>1. CASE j \in DOMAIN ttsQueue
      <4>1. i \in DOMAIN ttsQueue
        BY <1>2, <2>2, <2>3, <3>1
      <4>2. i # Len(ttsQueue) + 1 /\ j # Len(ttsQueue) + 1
        BY <1>2, <3>1, <4>1
      <4> QED
        BY <2>4, <3>1, <4>1, <4>2 DEF Order
    <3>2. CASE ttsQueue'[j] = Top
      BY <2>5, <3>2
    <3> QED
      BY <2>4, <3>1, <3>2
  <2>7. \A i \in DOMAIN ttsQueue' : ttsQueue'[i] <= Top'
    <3>1. \A i \in DOMAIN ttsQueue' : ttsQueue'[i] \in Nat
      BY <1>3, <2>1, <2>4
    <3> QED
      BY <1>1, <2>5, <3>1
  <2> QED
    BY <1>1, <1>6, <2>5, <2>6, <2>7 DEF Order
<1> QED
  BY QueueSteps, <1>4, <1>5, <1>6


(* At most one frame stays stale.                                          *)
LEMMA StaleStep ==
  ASSUME Queue, Counts, Maps, Sets, Places, Owned, Joined, Silent, StaleBound,
         [Next]_vars
  PROVE  StaleBound'
<1> DEFINE StaleNext(g) ==
             g \in silenced' /\ (g < starts' \/ app' = "spawn_play")
<1>1. DOMAIN ttsQueue = 1..Len(ttsQueue) /\ Len(ttsQueue) \in Nat
  BY LenProperties DEF Queue
<1>2. \A i \in DOMAIN ttsQueue : ttsQueue[i] \in Gens
  BY <1>1, ElementOfSeq DEF Queue
<1>3. CASE ttsQueue' = <<>>
  BY <1>3 DEF StaleBound
<1>4. CASE ttsQueue' # <<>>
  <2>1. \A g \in Gens : StaleNext(g) => Stale(g)
    BY <1>4, StaleKept DEF Stale
  <2>2. \A g \in Gens :
          StaleNext(g) /\ worker'[g] = "push" => worker[g] = "push"
    BY PushersKept
  <2>3. CASE ttsQueue' = ttsQueue
    BY <1>2, <2>1, <2>2, <2>3 DEF StaleBound, Stale
  <2>4. CASE ttsQueue # <<>> /\ ttsQueue' = Tail(ttsQueue)
    <3>1. /\ Len(ttsQueue') = Len(ttsQueue) - 1 /\ ttsQueue' \in Seq(Gens)
          /\ \A i \in 1..Len(ttsQueue') : ttsQueue'[i] = ttsQueue[i + 1]
      BY <2>4, HeadTailProperties DEF Queue
    <3>2. \A i \in DOMAIN ttsQueue' :
            /\ i \in Nat /\ i + 1 \in DOMAIN ttsQueue
            /\ ttsQueue'[i] = ttsQueue[i + 1]
      BY <1>1, <3>1, LenProperties
    <3>3. \A i \in DOMAIN ttsQueue' :
            StaleNext(ttsQueue'[i]) => Stale(ttsQueue[i + 1])
      <4>1. \A i \in DOMAIN ttsQueue' : ttsQueue'[i] \in Gens
        BY <1>2, <3>2
      <4> QED
        BY <2>1, <3>2, <4>1
    <3>4. \A i, j \in DOMAIN ttsQueue' :
            StaleNext(ttsQueue'[i]) /\ StaleNext(ttsQueue'[j]) => i + 1 = j + 1
      BY <3>2, <3>3 DEF StaleBound
    <3>5. \A i, j \in DOMAIN ttsQueue' :
            StaleNext(ttsQueue'[i]) /\ StaleNext(ttsQueue'[j]) => i = j
      BY <3>2, <3>4
    <3>6. \A g \in Gens : \A i \in DOMAIN ttsQueue' :
            StaleNext(g) /\ worker'[g] = "push" => ~StaleNext(ttsQueue'[i])
      BY <2>1, <2>2, <3>2, <3>3 DEF StaleBound
    <3> QED
      BY <3>5, <3>6 DEF StaleBound, Stale
  <2>5. ASSUME NEW g \in Gens, worker[g] = "push",
               worker' = [worker EXCEPT ![g] = "run"],
               ttsQueue' = Append(ttsQueue, g)
        PROVE  StaleBound'
    <3>1. /\ Len(ttsQueue') = Len(ttsQueue) + 1 /\ ttsQueue' \in Seq(Gens)
          /\ \A i \in 1..Len(ttsQueue) : ttsQueue'[i] = ttsQueue[i]
          /\ ttsQueue'[Len(ttsQueue) + 1] = g
      BY <2>5, AppendProperties DEF Queue
    <3>2. \A i \in DOMAIN ttsQueue' :
            \/ i \in DOMAIN ttsQueue /\ ttsQueue'[i] = ttsQueue[i]
            \/ i = Len(ttsQueue) + 1 /\ ttsQueue'[i] = g
      BY <1>1, <3>1, LenProperties
    <3>3. \A h \in Gens : worker'[h] # "push"
      <4>1. \A h \in Gens : worker[h] = "push" => h = g
        BY <2>5 DEF Owned, Alive
      <4> QED
        BY <2>5, <4>1 DEF Maps
    <3>4. \A i, j \in DOMAIN ttsQueue' :
            StaleNext(ttsQueue'[i]) /\ StaleNext(ttsQueue'[j]) => i = j
      <4>1. \A i \in DOMAIN ttsQueue' : ttsQueue'[i] \in Gens
        BY <1>2, <3>2
      <4>2. \A i \in DOMAIN ttsQueue' :
              StaleNext(ttsQueue'[i]) => Stale(ttsQueue'[i])
        BY <2>1, <4>1
      <4>3. Stale(g) => \A i \in DOMAIN ttsQueue : ~Stale(ttsQueue[i])
        BY <2>5 DEF StaleBound
      <4> HIDE DEF StaleNext
      <4> QED
        BY <3>2, <4>2, <4>3 DEF StaleBound
    <3> QED
      BY <3>3, <3>4 DEF StaleBound, Stale
  <2> QED
    BY <1>4, QueueSteps, <2>3, <2>4, <2>5
<1> QED
  BY <1>3, <1>4

(* In a set whose members are all equal there is at most one.              *)
LEMMA AtMostOne == ASSUME Queue, StaleBound PROVE StaleAtMostOne
<1> DEFINE S == {i \in DOMAIN ttsQueue :
                   ttsQueue[i] \in silenced /\ ttsQueue[i] < starts}
<1>1. \A i, j \in S : i = j
  BY DEF StaleBound, Stale
<1>2. CASE S = {}
  BY <1>2, FS_EmptySet DEF StaleAtMostOne
<1>3. ASSUME NEW i \in S
      PROVE  StaleAtMostOne
  <2>1. S = {i}
    BY <1>1
  <2>2. Cardinality(S) = 1
    BY <2>1, FS_Singleton
  <2> QED
    BY <2>2 DEF StaleAtMostOne
<1> QED
  BY <1>2, <1>3

(* The sets of handlers keep their type.                                   *)
LEMMA SetTypes ==
  ASSUME Sets, Counts, Places, [Next]_vars
  PROVE  Sets'
<1> USE BoundsAssumption DEF Sets, Counts, Places, Gens
<1>1. CASE Stopping
  BY <1>1 DEF Stopping, StopPlayThread, JoinPlay, ClearAfterJoin, SpawnPlay,
     App, ClearQueue
<1>2. CASE Creating
  BY <1>2 DEF Creating, CreateHandler, App
<1>3. CASE Dropping
  <2>1. CASE DropJoin
    BY <2>1 DEF DropJoin, App, Drops
  <2>2. CASE DropStop \/ DropTest \/ DropTerminate \/ DropCallback
    BY <2>2 DEF DropStop, DropTest, DropTerminate, DropCallback, App
  <2> QED
    BY <1>3, <2>1, <2>2 DEF Dropping
<1>4. CASE Connecting
  BY <1>4 DEF Connecting, ParseFails, StartHandler, UrlRejected, Connect,
     SpawnWorker, AssignWorker, App, ErrorCallback
<1>5. CASE Looping
  BY <1>5 DEF Looping, PlayGivesUp, PlayReady, LoopTest, TryPop,
     FinishReset, TestInterrupt, Play, MayLoop
<1>6. CASE Writing
  BY <1>6 DEF Writing, WriteFrame, WriteFails, DetectEnd, DetectSend, Play,
     UseOfTarget
<1>7. CASE Cancelling
  <2>1. CASE CancelStop
    <3>1. target \in Gens
      BY <2>1, TargetInGens
    <3>2. freed' = freed /\ silenced' \in {silenced, silenced \cup {target}}
      BY <2>1 DEF CancelStop, Play
    <3> QED
      BY <3>1, <3>2
  <2>2. CASE Cancel \/ CancelTest \/ CancelTerminate \/ CancelCallback
    BY <2>2 DEF Cancel, CancelTest, CancelTerminate, CancelCallback, Play
  <2> QED
    BY <1>7, <2>1, <2>2 DEF Cancelling
<1>8. ASSUME NEW h \in Gens, Receiving(h)
      PROVE  Sets'
  BY <1>8 DEF Receiving, Open, PeerCloses, Lose, WorkerError, Message,
     WorkerExit, Work, ErrorCallback
<1>9. ASSUME NEW h \in Gens, Handling(h)
      PROVE  Sets'
  BY <1>9 DEF Handling, Push, TtsStart, InterruptClean, Interrupt, TtsOff,
     Work, ClearQueue
<1>10. ASSUME NEW h \in Gens, Closing(h)
      PROVE  Sets'
  BY <1>10 DEF Closing, CloseStop, CloseTest, CloseTerminate, Work, Stop,
     Terminate
<1>11. CASE Hangup \/ UNCHANGED vars
  BY <1>11 DEF Hangup, vars
<1> QED
  BY StepCases, <1>1, <1>2, <1>3, <1>4, <1>5, <1>6, <1>7, <1>8, <1>9, <1>10,
     <1>11

(* Where the threads are keeps agreeing with the pointers they hold.       *)
LEMMA PlacesStep ==
  ASSUME Counts, Places, [Next]_vars
  PROVE  Places'
<1> USE BoundsAssumption DEF Counts, Places, Drops
<1>1. CASE Stopping
  BY <1>1 DEF Stopping, StopPlayThread, JoinPlay, ClearAfterJoin, SpawnPlay,
     App, ClearQueue
<1>2. CASE Creating
  BY <1>2 DEF Creating, CreateHandler, App
<1>3. CASE Dropping
  BY <1>3 DEF Dropping, DropStop, DropTest, DropTerminate, DropCallback,
     DropJoin, App, Stop, Terminate, ErrorCallback
<1>4. CASE Connecting
  BY <1>4 DEF Connecting, ParseFails, StartHandler, UrlRejected, Connect,
     SpawnWorker, AssignWorker, App, ErrorCallback
<1>5. CASE Looping
  BY <1>5 DEF Looping, PlayGivesUp, PlayReady, LoopTest, TryPop,
     FinishReset, TestInterrupt, Play, MayLoop
<1>6. CASE Writing
  BY <1>6 DEF Writing, WriteFrame, WriteFails, DetectEnd, DetectSend, Play,
     UseOfTarget
<1>7. CASE Cancelling
  BY <1>7 DEF Cancelling, Cancel, CancelStop, CancelTest, CancelTerminate,
     CancelCallback, Play, UseOfTarget, Stop, Terminate, ErrorCallback
<1>8. ASSUME NEW h \in Gens, Receiving(h)
      PROVE  Places'
  BY <1>8 DEF Receiving, Open, PeerCloses, Lose, WorkerError, Message,
     WorkerExit, Work, ErrorCallback
<1>9. ASSUME NEW h \in Gens, Handling(h)
      PROVE  Places'
  BY <1>9 DEF Handling, Push, TtsStart, InterruptClean, Interrupt, TtsOff,
     Work, ClearQueue
<1>10. ASSUME NEW h \in Gens, Closing(h)
      PROVE  Places'
  BY <1>10 DEF Closing, CloseStop, CloseTest, CloseTerminate, Work, Stop,
     Terminate
<1>11. CASE Hangup \/ UNCHANGED vars
  BY <1>11 DEF Hangup, vars
<1> QED
  BY StepCases, <1>1, <1>2, <1>3, <1>4, <1>5, <1>6, <1>7, <1>8, <1>9, <1>10,
     <1>11

(* The live worker stays that of the handler in charge.                    *)
LEMMA OwnedStep ==
  ASSUME Counts, Maps, Places, Owned, [Next]_vars
  PROVE  Owned'
<1> USE GensAreNumbers DEF Counts, Maps, Places, Owned, Drops, Top, Alive
<1>1. CASE Stopping
  BY <1>1 DEF Stopping, StopPlayThread, JoinPlay, ClearAfterJoin, SpawnPlay,
     App, ClearQueue
<1>2. CASE Creating
  BY <1>2 DEF Creating, CreateHandler, App
<1>3. CASE Dropping
  BY <1>3 DEF Dropping, DropStop, DropTest, DropTerminate, DropCallback,
     DropJoin, App, Stop, Terminate, ErrorCallback
<1>4. CASE Connecting
  BY <1>4 DEF Connecting, ParseFails, StartHandler, UrlRejected, Connect,
     SpawnWorker, AssignWorker, App, ErrorCallback
<1>5. CASE Looping
  BY <1>5 DEF Looping, PlayGivesUp, PlayReady, LoopTest, TryPop,
     FinishReset, TestInterrupt, Play, MayLoop
<1>6. CASE Writing
  BY <1>6 DEF Writing, WriteFrame, WriteFails, DetectEnd, DetectSend, Play,
     UseOfTarget
<1>7. CASE Cancelling
  BY <1>7 DEF Cancelling, Cancel, CancelStop, CancelTest, CancelTerminate,
     CancelCallback, Play, UseOfTarget, Stop, Terminate, ErrorCallback
<1>8. ASSUME NEW h \in Gens, Receiving(h)
      PROVE  Owned'
  BY <1>8 DEF Receiving, Open, PeerCloses, Lose, WorkerError, Message,
     WorkerExit, Work, ErrorCallback
<1>9. ASSUME NEW h \in Gens, Handling(h)
      PROVE  Owned'
  BY <1>9 DEF Handling, Push, TtsStart, InterruptClean, Interrupt, TtsOff,
     Work, ClearQueue
<1>10. ASSUME NEW h \in Gens, Closing(h)
      PROVE  Owned'
  BY <1>10 DEF Closing, CloseStop, CloseTest, CloseTerminate, Work, Stop,
     Terminate
<1>11. CASE Hangup \/ UNCHANGED vars
  BY <1>11 DEF Hangup, vars
<1> QED
  BY StepCases, <1>1, <1>2, <1>3, <1>4, <1>5, <1>6, <1>7, <1>8, <1>9, <1>10,
     <1>11

(* An interrupt is obeyed within a frame.                                  *)
LEMMA LateStep ==
  ASSUME Counts, LateBound, [Next]_vars
  PROVE  LateBound'
<1> USE DEF Counts, LateBound
<1>1. CASE Stopping
  BY <1>1 DEF Stopping, StopPlayThread, JoinPlay, ClearAfterJoin, SpawnPlay,
     App, ClearQueue
<1>2. CASE Creating
  BY <1>2 DEF Creating, CreateHandler, App
<1>3. CASE Dropping
  BY <1>3 DEF Dropping, DropStop, DropTest, DropTerminate, DropCallback,
     DropJoin, App, Stop, Terminate, ErrorCallback
<1>4. CASE Connecting
  <2>1. UNCHANGED <<is_interrupt, late, play>>
    BY <1>4 DEF Connecting, ParseFails, StartHandler, UrlRejected, Connect,
       SpawnWorker, AssignWorker, App
  <2> QED
    BY <2>1
<1>5. CASE Looping
  BY <1>5 DEF Looping, PlayGivesUp, PlayReady, LoopTest, TryPop,
     FinishReset, TestInterrupt, Play, MayLoop
<1>6. CASE Writing
  <2>1. CASE WriteFrame
    BY <2>1 DEF WriteFrame, Play
  <2>2. CASE WriteFails \/ DetectEnd \/ DetectSend
    <3>1. /\ UNCHANGED <<is_interrupt, late>> /\ play' # "write"
      BY <2>2 DEF WriteFails, DetectEnd, DetectSend, Play
    <3> QED
      BY <3>1
  <2> QED
    BY <1>6, <2>1, <2>2 DEF Writing
<1>7. CASE Cancelling
  <2>1. /\ UNCHANGED <<is_interrupt, late>> /\ play' # "write"
    BY <1>7 DEF Cancelling, Cancel, CancelStop, CancelTest, CancelTerminate,
       CancelCallback, Play
  <2> QED
    BY <2>1
<1>8. ASSUME NEW h \in Gens, Receiving(h)
      PROVE  LateBound'
  BY <1>8 DEF Receiving, Open, PeerCloses, Lose, WorkerError, Message,
     WorkerExit, Work, ErrorCallback
<1>9. ASSUME NEW h \in Gens, Handling(h)
      PROVE  LateBound'
  BY <1>9 DEF Handling, Push, TtsStart, InterruptClean, Interrupt, TtsOff,
     Work, ClearQueue
<1>10. ASSUME NEW h \in Gens, Closing(h)
      PROVE  LateBound'
  BY <1>10 DEF Closing, CloseStop, CloseTest, CloseTerminate, Work, Stop,
     Terminate
<1>11. CASE Hangup \/ UNCHANGED vars
  BY <1>11 DEF Hangup, vars
<1> QED
  BY StepCases, <1>1, <1>2, <1>3, <1>4, <1>5, <1>6, <1>7, <1>8, <1>9, <1>10,
     <1>11

(* So is a stop.                                                           *)
LEMMA StopStep ==
  ASSUME Counts, StopBound, [Next]_vars
  PROVE  StopBound'
<1> USE DEF Counts, StopBound, OnItsWay
<1>1. CASE Stopping
  BY <1>1 DEF Stopping, StopPlayThread, JoinPlay, ClearAfterJoin, SpawnPlay,
     App, ClearQueue
<1>2. CASE Creating
  BY <1>2 DEF Creating, CreateHandler, App
<1>3. CASE Dropping
  BY <1>3 DEF Dropping, DropStop, DropTest, DropTerminate, DropCallback,
     DropJoin, App, Stop, Terminate, ErrorCallback
<1>4. CASE Connecting
  BY <1>4 DEF Connecting, ParseFails, StartHandler, UrlRejected, Connect,
     SpawnWorker, AssignWorker, App, ErrorCallback
<1>5. CASE Looping
  BY <1>5 DEF Looping, PlayGivesUp, PlayReady, LoopTest, TryPop,
     FinishReset, TestInterrupt, Play, MayLoop
<1>6. CASE Writing
  <2>1. CASE WriteFrame
    BY <2>1 DEF WriteFrame, Play
  <2>2. CASE WriteFails \/ DetectEnd \/ DetectSend
    <3>1. /\ UNCHANGED <<thread_run, app, overrun>> /\ play' \notin OnItsWay
      BY <2>2 DEF WriteFails, DetectEnd, DetectSend, Play
    <3> QED
      BY <3>1
  <2> QED
    BY <1>6, <2>1, <2>2 DEF Writing
<1>7. CASE Cancelling
  BY <1>7 DEF Cancelling, Cancel, CancelStop, CancelTest, CancelTerminate,
     CancelCallback, Play, UseOfTarget, Stop, Terminate, ErrorCallback
<1>8. ASSUME NEW h \in Gens, Receiving(h)
      PROVE  StopBound'
  BY <1>8 DEF Receiving, Open, PeerCloses, Lose, WorkerError, Message,
     WorkerExit, Work, ErrorCallback
<1>9. ASSUME NEW h \in Gens, Handling(h)
      PROVE  StopBound'
  BY <1>9 DEF Handling, Push, TtsStart, InterruptClean, Interrupt, TtsOff,
     Work, ClearQueue
<1>10. ASSUME NEW h \in Gens, Closing(h)
      PROVE  StopBound'
  BY <1>10 DEF Closing, CloseStop, CloseTest, CloseTerminate, Work, Stop,
     Terminate
<1>11. CASE Hangup \/ UNCHANGED vars
  BY <1>11 DEF Hangup, vars
<1> QED
  BY StepCases, <1>1, <1>2, <1>3, <1>4, <1>5, <1>6, <1>7, <1>8, <1>9, <1>10,
     <1>11

(* Only a handler that has been in charge has a connection.                *)
LEMMA DealtStep ==
  ASSUME Counts, Maps, Places, Owned, Dealt, [Next]_vars
  PROVE  Dealt'
<1> USE TopGrows, GensAreNumbers DEF Counts, Maps, Places, Dealt, Drops,
    Top
<1>1. CASE Stopping
  BY <1>1 DEF Stopping, StopPlayThread, JoinPlay, ClearAfterJoin, SpawnPlay,
     App, ClearQueue
<1>2. CASE Creating
  BY <1>2 DEF Creating, CreateHandler, App
<1>3. CASE Dropping
  BY <1>3 DEF Dropping, DropStop, DropTest, DropTerminate, DropCallback,
     DropJoin, App, Stop, Terminate, ErrorCallback
<1>4. CASE Connecting
  BY <1>4 DEF Connecting, ParseFails, StartHandler, UrlRejected, Connect,
     SpawnWorker, AssignWorker, App, ErrorCallback
<1>5. CASE Looping
  BY <1>5 DEF Looping, PlayGivesUp, PlayReady, LoopTest, TryPop,
     FinishReset, TestInterrupt, Play, MayLoop
<1>6. CASE Writing
  BY <1>6 DEF Writing, WriteFrame, WriteFails, DetectEnd, DetectSend, Play,
     UseOfTarget
<1>7. CASE Cancelling
  BY <1>7 DEF Cancelling, Cancel, CancelStop, CancelTest, CancelTerminate,
     CancelCallback, Play, UseOfTarget, Stop, Terminate, ErrorCallback
<1>8. ASSUME NEW h \in Gens, Receiving(h)
      PROVE  Dealt'
  BY <1>8 DEF Receiving, Open, PeerCloses, Lose, WorkerError, Message,
     WorkerExit, Work, ErrorCallback
<1>9. ASSUME NEW h \in Gens, Handling(h)
      PROVE  Dealt'
  BY <1>9 DEF Handling, Push, TtsStart, InterruptClean, Interrupt, TtsOff,
     Work, ClearQueue
<1>10. ASSUME NEW h \in Gens, Closing(h)
      PROVE  Dealt'
  BY <1>10 DEF Owned, Alive, Closing, CloseStop, CloseTest, CloseTerminate,
     Work, Stop, Terminate
<1>11. CASE Hangup \/ UNCHANGED vars
  BY <1>11 DEF Hangup, vars
<1> QED
  BY StepCases, <1>1, <1>2, <1>3, <1>4, <1>5, <1>6, <1>7, <1>8, <1>9, <1>10,
     <1>11

(* A closed connection keeps telling, or has told, the playing thread.     *)
LEMMA ClosedStep ==
  ASSUME Counts, Maps, Places, Owned, Dealt, ClosedStopsPlay, [Next]_vars
  PROVE  ClosedStopsPlay'
<1> USE GensAreNumbers DEF Counts, Maps, Places, Dealt, Drops, Top,
    ClosedStopsPlay, Telling
<1>1. CASE Stopping
  <2>1. CASE SpawnPlay
    BY <2>1 DEF SpawnPlay, App
  <2>2. CASE StopPlayThread
    BY <2>2 DEF StopPlayThread
  <2>3. CASE JoinPlay \/ ClearAfterJoin
    <3>1. /\ UNCHANGED <<thread_run, con, worker, Handler, starts>>
          /\ app # "drop_callback"
          /\ play = "cancel_callback" => UNCHANGED <<play, target>>
      BY <2>3 DEF JoinPlay, ClearAfterJoin, App
    <3> QED
      BY <3>1
  <2> QED
    BY <1>1, <2>1, <2>2, <2>3 DEF Stopping
<1>2. CASE Creating
  BY <1>2 DEF Creating, CreateHandler, App
<1>3. CASE Dropping
  BY <1>3 DEF Dropping, DropStop, DropTest, DropTerminate, DropCallback,
     DropJoin, App, Stop, Terminate, ErrorCallback
<1>4. CASE Connecting
  <2>1. CASE UrlRejected
    BY <2>1 DEF UrlRejected, ErrorCallback
  <2>2. CASE Connect
    BY <2>2 DEF Connect, App
  <2>3. CASE SpawnWorker
    BY <2>3 DEF SpawnWorker, App, Owned, Alive
  <2>4. CASE ParseFails \/ StartHandler \/ AssignWorker
    <3>1. /\ UNCHANGED <<thread_run, con, worker, Handler, starts, play,
                         target>>
          /\ app # "drop_callback"
      BY <2>4 DEF ParseFails, StartHandler, AssignWorker, App
    <3> QED
      BY <3>1
  <2> QED
    BY <1>4, <2>1, <2>2, <2>3, <2>4 DEF Connecting
<1>5. CASE Looping
  BY <1>5 DEF Looping, PlayGivesUp, PlayReady, LoopTest, TryPop,
     FinishReset, TestInterrupt, Play, MayLoop
<1>6. CASE Writing
  BY <1>6 DEF Writing, WriteFrame, WriteFails, DetectEnd, DetectSend, Play,
     UseOfTarget
<1>7. CASE Cancelling
  BY <1>7 DEF Cancelling, Cancel, CancelStop, CancelTest, CancelTerminate,
     CancelCallback, Play, UseOfTarget, Stop, Terminate, ErrorCallback
<1>8. ASSUME NEW h \in Gens, Receiving(h)
      PROVE  ClosedStopsPlay'
  BY <1>8 DEF Receiving, Open, PeerCloses, Lose, WorkerError, Message,
     WorkerExit, Work, ErrorCallback
<1>9. ASSUME NEW h \in Gens, Handling(h)
      PROVE  ClosedStopsPlay'
  BY <1>9 DEF Handling, Push, TtsStart, InterruptClean, Interrupt, TtsOff,
     Work, ClearQueue
<1>10. ASSUME NEW h \in Gens, Closing(h)
      PROVE  ClosedStopsPlay'
  BY <1>10 DEF Closing, CloseStop, CloseTest, CloseTerminate, Work, Stop,
     Terminate
<1>11. CASE Hangup \/ UNCHANGED vars
  BY <1>11 DEF Hangup, vars
<1> QED
  BY StepCases, <1>1, <1>2, <1>3, <1>4, <1>5, <1>6, <1>7, <1>8, <1>9, <1>10,
     <1>11

-----------------------------------------------------------------------------
(* TypeOK is the conjunction of its parts.                                 *)
LEMMA Parts == TypeOK <=> Flags /\ Labels /\ Maps /\ Counts /\ Sets /\ Queue
BY DEF TypeOK, Flags, Labels, Maps, Counts, Sets, Queue

(* The invariant holds at the start.                                       *)
LEMMA IInvStart == Init => IInv
<1> SUFFICES ASSUME Init PROVE IInv
  OBVIOUS
<1> USE DEF Init
<1>1. Flags
  BY DEF Flags
<1>2. Labels
  BY DEF Labels, AppLabels, PlayLabels, Faults
<1>3. Maps
  BY DEF Maps, WorkLabels
<1>4. Counts /\ Sets
  BY BoundsAssumption DEF Counts, Sets
<1>5. Queue
  BY BoundsAssumption, EmptySeq DEF Queue
<1>6. Places
  BY DEF Places, Drops
<1>7. Owned /\ Dealt /\ ClosedStopsPlay
  BY DEF Owned, Alive, Dealt, ClosedStopsPlay
<1>8. Order
  BY DEF Order, Top, Drops
<1>9. LateBound /\ StopBound
  BY DEF LateBound, StopBound
<1>10. Joined /\ Silent /\ StaleBound
  BY DEF Joined, Silent, StaleBound
<1> QED
  BY Parts, <1>1, <1>2, <1>3, <1>4, <1>5, <1>6, <1>7, <1>8, <1>9,
     <1>10 DEF IInv

(* It is inductive.                                                        *)
LEMMA IInvStep == IInv /\ [Next]_vars => IInv'
<1> SUFFICES ASSUME IInv, [Next]_vars PROVE IInv'
  OBVIOUS
<1>1. Flags /\ Labels /\ Maps /\ Counts /\ Sets /\ Queue
  BY Parts DEF IInv
<1>2. Flags' /\ Labels' /\ Maps' /\ Counts' /\ Sets' /\ Queue'
  BY <1>1, FlagTypes, LabelTypes, MapTypes, CountTypes, SetTypes, QueueTypes
     DEF IInv
<1>3. TypeOK'
  BY <1>2 DEF TypeOK, Flags, Labels, Maps, Counts, Sets, Queue
<1>4. Places' /\ Owned' /\ Order'
  BY <1>1, PlacesStep, OwnedStep, OrderStep DEF IInv
<1>5. LateBound' /\ StopBound' /\ Dealt' /\ ClosedStopsPlay'
  BY <1>1, LateStep, StopStep, DealtStep, ClosedStep DEF IInv
<1>6. Joined' /\ Silent' /\ StaleBound'
  BY <1>1, JoinedStep, SilentStep, StaleStep DEF IInv
<1> QED
  BY <1>3, <1>4, <1>5, <1>6 DEF IInv

(* So it always holds.                                                     *)
LEMMA Invariant == Spec => []IInv
BY IInvStart, IInvStep, PTL DEF Spec

(* Everything keeps its type.                                              *)
THEOREM TypeCorrect == Spec => []TypeOK
<1>1. IInv => TypeOK
  BY DEF IInv
<1> QED
  BY Invariant, <1>1, PTL

(* However often the application starts, one connection feeds the queue:   *)
(* the move assignment of Handler joins the worker it replaces.            *)
THEOREM OneConnection == Spec => []OneWorker
<1>1. IInv => OneWorker
  BY DEF IInv, Owned, OneWorker
<1> QED
  BY Invariant, <1>1, PTL

(* After ttsstop_clean or ttsstop_only at most one frame is written.       *)
THEOREM InterruptedAtOnce == Spec => []InterruptIsPrompt
<1>1. IInv => InterruptIsPrompt
  BY DEF IInv, TypeOK, LateBound, InterruptIsPrompt
<1> QED
  BY Invariant, <1>1, PTL

(* After stop_play_thread cleared thread_run at most one frame is written  *)
(* before the join returns.                                                *)
THEOREM StoppedAtOnce == Spec => []StopIsPrompt
<1>1. IInv => StopIsPrompt
  BY DEF IInv, TypeOK, StopBound, StopIsPrompt
<1> QED
  BY Invariant, <1>1, PTL

(* When the current connection has ended, the playing thread has been told *)
(* or is being told.                                                       *)
THEOREM CloseEndsPlay == Spec => []ClosedStopsPlay
<1>1. IInv => ClosedStopsPlay
  BY DEF IInv
<1> QED
  BY Invariant, <1>1, PTL

(* No audio of an earlier start is written after audio of a later one.     *)
THEOREM HeardInOrder == Spec => PlaysInOrder
<1>1. IInv /\ [Next]_vars => [played' >= played]_vars
  <2> SUFFICES ASSUME IInv, [Next]_vars PROVE played' >= played
    OBVIOUS
  <2>1. Queue /\ Counts /\ played <= played'
    BY Parts, OrderStep DEF IInv
  <2>2. Queue'
    BY <2>1, QueueTypes
  <2> QED
    BY <2>1, <2>2, BoundsAssumption DEF Queue
<1> QED
  BY Invariant, <1>1, PTL DEF Spec, PlaysInOrder

(* At most one frame of a replaced, silenced connection outlives the clear *)
(* of the next start.                                                      *)
THEOREM FewStale == Spec => []StaleAtMostOne
<1>1. IInv => StaleAtMostOne
  BY AtMostOne, Parts DEF IInv
<1> QED
  BY Invariant, <1>1, PTL

=============================================================================
