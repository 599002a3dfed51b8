----------------------------- MODULE TTsStreamer -----------------------------
(***************************************************************************)
(* The streamer of one call (TTsStreamer in forkzstream.cpp) with the      *)
(* connections it opens (WebSocketHandler.h): the application thread that  *)
(* starts an utterance or deletes the streamer, the playing thread, and    *)
(* one websocket worker per connection.  They share thread_run,            *)
(* is_interrupt, ttsQueue and the Handler pointer.                         *)
(*                                                                         *)
(* The k-th start creates handler k and its connection.  A binary message  *)
(* of connection k is one frame, the number k.  A thread that touches a    *)
(* null or freed handler, or assigns to a running std::thread, is          *)
(* undefined behaviour or std::terminate: fault records it and the process *)
(* stops there.                                                            *)
(***************************************************************************)
EXTENDS Naturals, Sequences, FiniteSets

CONSTANTS
  MaxStarts,    \* bound: start commands the application executes
  MaxMessages,  \* bound: messages the peers send, together
  LoopBudget,   \* turns of the playing loop (totoalloop)
  Types         \* the type arguments of start

ASSUME BoundsAssumption ==
  MaxStarts \in Nat /\ MaxMessages \in Nat /\ LoopBudget \in Nat

Gens == 1..MaxStarts

VARIABLES
  thread_run,    \* cleared to end the playing thread
  is_interrupt,  \* set by ttsstop_clean and ttsstop_only
  ttsQueue,      \* the frames held
  is_finished,   \* ttsQueue holds the end mark
  executing,     \* the channel is in CS_EXECUTE
  Handler,       \* the handler the streamer points to, 0 is null
  app,           \* where the application thread is
  old,           \* the handler the application thread is deleting
  starts,        \* number of start commands so far
  play,          \* where the playing thread is
  ret,           \* its result of try_pop
  frame,         \* the frame it popped
  target,        \* the handler it is talking to
  budget,        \* its remaining turns
  con,           \* state of each connection
  worker,        \* where each websocket worker is
  joinable,      \* worker_thread of each handler
  stopped,       \* tts_client->stop() was called
  is_tts,        \* flag of each handler: audio is accepted
  freed,         \* handlers whose destructor has returned
  sent,          \* bound: messages delivered so far
  fault,         \* the undefined behaviour that ended the process
  played,        \* history: the frame written last
  late,          \* history: frames written since is_interrupt was set
  overrun,       \* history: frames written since the last stop
  silenced       \* history: handlers stopped by their own playing thread

queueVars == <<ttsQueue, is_finished>>
appVars   == <<app, Handler, old, starts>>
playVars  == <<play, ret, frame, target, budget>>
history   == <<played, late, overrun, silenced>>
vars == <<thread_run, is_interrupt, queueVars, executing, appVars, playVars,
          con, worker, joinable, stopped, is_tts, freed, sent, fault, history>>

Init ==
  /\ thread_run = FALSE /\ is_interrupt = FALSE
  /\ ttsQueue = <<>> /\ is_finished = FALSE
  /\ executing = TRUE
  /\ app = "idle" /\ Handler = 0 /\ old = 0 /\ starts = 0
  /\ play = "none" /\ ret = 1 /\ frame = 0 /\ target = 0 /\ budget = 0
  /\ con = [g \in Gens |-> "none"]
  /\ worker = [g \in Gens |-> "none"]
  /\ joinable = [g \in Gens |-> FALSE]
  /\ stopped = [g \in Gens |-> FALSE]
  /\ is_tts = [g \in Gens |-> FALSE]
  /\ freed = {}
  /\ sent = 0 /\ fault = "no"
  /\ played = 0 /\ late = 0 /\ overrun = 0 /\ silenced = {}

Running == fault = "no"

-----------------------------------------------------------------------------
(* disconnect(), for the worker, the playing thread and the destructor:    *)
(* stop the I/O service, test whether the connection is open, terminate    *)
(* it.  Unless another thread has done so in between, terminate runs the   *)
(* close handler on the calling thread, whose callback reports "error".    *)
(* It is websocketpp's, and taken to be one step.                          *)
Stop(g) == stopped' = [stopped EXCEPT ![g] = TRUE]

Terminate(g) == con' = [con EXCEPT ![g] = "closed"]

(* The definitions whose names begin with Bug are not part of the model.   *)
(* Each is a plausible mistake in the operation defined after it, used to  *)
(* show that a property can fail.                                          *)
BugErrorIgnored == thread_run' = thread_run

(* eventTtsCallback("error", ...).                                         *)
ErrorCallback == thread_run' = FALSE

(* WavDataQueue::clear.                                                    *)
ClearQueue == ttsQueue' = <<>> /\ is_finished' = FALSE

-----------------------------------------------------------------------------
(* The application thread: stop_play_thread, then for a start              *)
(* start_play_tts_thread and create_stream, for a deletion the members of  *)
(* the streamer.                                                           *)
appKeeps == <<is_interrupt, executing, ret, frame, target, budget, is_tts, sent,
              played, late, silenced>>
pointers == <<Handler, old, starts>>
conns    == <<con, worker, joinable, stopped, freed>>

(* The thread is at step and goes to next.                                 *)
App(step, next) ==
  Running /\ app = step /\ app' = next /\ UNCHANGED appKeeps

(* tts_session_text or tts_session_cleanup calls stop_play_thread.         *)
StopPlayThread ==
  /\ \/ App("idle", "start_join") /\ executing /\ starts < MaxStarts
     \/ App("idle", "delete_join")
  /\ thread_run' = FALSE
  /\ overrun' = 0
  /\ UNCHANGED <<queueVars, pointers, play, conns, fault>>

BugNoJoin ==
  /\ \/ App("start_join", "start_clear") /\ play \in {"none", "done"}
                                         /\ play' = "none"
     \/ App("delete_join", "delete_clear") /\ UNCHANGED play
  /\ UNCHANGED <<thread_run, queueVars, pointers, conns, fault, overrun>>

JoinPlay ==
  /\ App("start_join", "start_clear") \/ App("delete_join", "delete_clear")
  /\ play \in {"none", "done"}
  /\ play' = "none"
  /\ UNCHANGED <<thread_run, queueVars, pointers, conns, fault, overrun>>

ClearAfterJoin ==
  /\ \/ App("start_clear", "spawn_play") /\ UNCHANGED old
     \/ /\ App("delete_clear", IF Handler = 0 THEN "gone" ELSE "drop")
        /\ old' = Handler
  /\ ClearQueue
  /\ UNCHANGED <<thread_run, Handler, starts, play, conns, fault, overrun>>

(* start_play_tts_thread.                                                  *)
SpawnPlay ==
  /\ App("spawn_play", "create")
  /\ thread_run' = TRUE
  /\ play' = "begin"
  /\ starts' = starts + 1
  /\ UNCHANGED <<queueVars, Handler, old, conns, fault, overrun>>

BugNoHandler(type) ==
  /\ App("create", "parse")
  /\ UNCHANGED <<thread_run, queueVars, pointers, play, conns, fault, overrun>>

(* Handler = HandlerFactory::create(...): the pointer is replaced first,   *)
(* the handler it pointed to is deleted after that.  Only the type "ws"    *)
(* creates one; another type goes on with whatever Handler holds.          *)
CreateHandler(type) ==
  /\ \/ /\ type = "ws"
        /\ App("create", IF Handler = 0 THEN "parse" ELSE "drop")
        /\ Handler' = starts
        /\ old' = Handler
     \/ /\ type # "ws"
        /\ App("create", "parse")
        /\ UNCHANGED <<Handler, old>>
  /\ UNCHANGED <<thread_run, queueVars, starts, play, conns, fault, overrun>>

BugTerminateOnly ==
  /\ \/ App("drop", "drop_test") /\ joinable[old]
     \/ App("drop", "drop_join") /\ ~joinable[old]
  /\ UNCHANGED <<thread_run, queueVars, pointers, play, conns, fault, overrun>>

(* ~WebSocketHandler of old: disconnect, then join the worker.             *)
DropStop ==
  /\ \/ App("drop", "drop_test") /\ joinable[old] /\ Stop(old)
     \/ App("drop", "drop_join") /\ ~joinable[old] /\ UNCHANGED stopped
  /\ UNCHANGED <<thread_run, queueVars, pointers, play, con, worker, joinable,
                 freed, fault, overrun>>

DropTest ==
  /\ App("drop_test",
         IF con[old] = "open" THEN "drop_terminate" ELSE "drop_join")
  /\ UNCHANGED <<thread_run, queueVars, pointers, play, conns, fault, overrun>>

DropTerminate ==
  /\ App("drop_terminate",
         IF con[old] = "closed" THEN "drop_join" ELSE "drop_callback")
  /\ Terminate(old)
  /\ UNCHANGED <<thread_run, queueVars, pointers, play, worker, joinable,
                 stopped, freed, fault, overrun>>

DropCallback ==
  /\ App("drop_callback", "drop_join")
  /\ ErrorCallback
  /\ UNCHANGED <<queueVars, pointers, play, conns, fault, overrun>>

BugDetach ==
  /\ App("drop_join", IF old = Handler THEN "gone" ELSE "parse")
  /\ joinable' = [joinable EXCEPT ![old] = FALSE]
  /\ freed' = freed \cup {old}
  /\ UNCHANGED <<thread_run, queueVars, pointers, play, con, worker, stopped,
                 fault, overrun>>

DropJoin ==
  /\ App("drop_join", IF old = Handler THEN "gone" ELSE "parse")
  /\ joinable[old] => worker[old] = "exited"
  /\ joinable' = [joinable EXCEPT ![old] = FALSE]
  /\ freed' = freed \cup {old}
  /\ UNCHANGED <<thread_run, queueVars, pointers, play, con, worker, stopped,
                 fault, overrun>>

(* The parameters lack a key: the exception is logged, nothing is undone.  *)
ParseFails ==
  /\ App("parse", "idle")
  /\ UNCHANGED <<thread_run, queueVars, pointers, play, conns, fault, overrun>>

(* Handler->startHandler(...) replaces tts_client.                         *)
StartHandler ==
  /\ App("parse", "connect")
  /\ fault' = IF Handler = 0 THEN "start through null"
              ELSE IF joinable[Handler] THEN "client replaced" ELSE fault
  /\ UNCHANGED <<thread_run, queueVars, pointers, play, conns, overrun>>

(* get_connection rejects the url.                                         *)
UrlRejected ==
  /\ App("connect", "idle")
  /\ ErrorCallback
  /\ UNCHANGED <<queueVars, pointers, play, conns, fault, overrun>>

(* tts_client->connect(con).                                               *)
Connect ==
  /\ App("connect", "spawn_worker")
  /\ con' = [con EXCEPT ![Handler] = "connecting"]
  /\ UNCHANGED <<thread_run, queueVars, pointers, play, worker, joinable,
                 stopped, freed, fault, overrun>>

(* std::thread(...) runs before it has been assigned to worker_thread.     *)
SpawnWorker ==
  /\ App("spawn_worker", "assign_worker")
  /\ worker' = [worker EXCEPT ![Handler] = "run"]
  /\ UNCHANGED <<thread_run, queueVars, pointers, play, con, joinable, stopped,
                 freed, fault, overrun>>

AssignWorker ==
  /\ App("assign_worker", "idle")
  /\ joinable' = [joinable EXCEPT ![Handler] = TRUE]
  /\ UNCHANGED <<thread_run, queueVars, pointers, play, con, worker, stopped,
                 freed, fault, overrun>>

-----------------------------------------------------------------------------
(* The playing thread, z_play_thread.                                      *)
playKeeps == <<is_interrupt, executing, appVars, worker, joinable, is_tts,
               freed, sent>>
popped == <<ret, frame>>
cancel == <<target, con, stopped, silenced, fault>>
writes == <<played, late, overrun>>

Play(step, next) ==
  Running /\ play = step /\ play' = next /\ UNCHANGED playKeeps

(* No media, codec or timer: return without telling the handler.           *)
PlayGivesUp ==
  /\ Play("begin", "done")
  /\ UNCHANGED <<thread_run, queueVars, popped, budget, cancel, writes>>

PlayReady ==
  /\ Play("begin", "loop")
  /\ budget' = LoopBudget
  /\ UNCHANGED <<thread_run, queueVars, popped, cancel, writes>>

BugOneTurnTooMany == budget >= 0 /\ executing /\ thread_run

BugStopIgnored == budget > 0 /\ executing

MayLoop == budget > 0 /\ executing /\ thread_run

(* The locals of a turn are gone with it: the result of its pop and the    *)
(* handler it talked to (frame is overwritten before it is used again).    *)
LoopTest ==
  /\ \/ Play("loop", "pop") /\ MayLoop /\ budget' = budget - 1
     \/ Play("loop", "cancel") /\ ~MayLoop /\ UNCHANGED budget
  /\ ret' = 1 /\ target' = 0
  /\ UNCHANGED <<thread_run, queueVars, frame, con, stopped, silenced, fault,
                 writes>>

BugPopNewest ==
  /\ \/ /\ Play("pop", "test_interrupt")
        /\ ttsQueue # <<>>
        /\ ret' = 0
        /\ frame' = ttsQueue[Len(ttsQueue)]
        /\ ttsQueue' = SubSeq(ttsQueue, 1, Len(ttsQueue) - 1)
     \/ /\ Play("pop", IF is_finished THEN "finish_reset" ELSE "test_interrupt")
        /\ ttsQueue = <<>>
        /\ ret' = IF is_finished THEN 2 ELSE 1
        /\ UNCHANGED <<frame, ttsQueue>>
  /\ UNCHANGED <<thread_run, is_finished, budget, cancel, writes>>

TryPop ==
  /\ \/ /\ Play("pop", "test_interrupt")
        /\ ttsQueue # <<>>
        /\ ret' = 0
        /\ frame' = Head(ttsQueue)
        /\ ttsQueue' = Tail(ttsQueue)
     \/ /\ Play("pop", IF is_finished THEN "finish_reset" ELSE "test_interrupt")
        /\ ttsQueue = <<>>
        /\ ret' = IF is_finished THEN 2 ELSE 1
        /\ UNCHANGED <<frame, ttsQueue>>
  /\ UNCHANGED <<thread_run, is_finished, budget, cancel, writes>>

(* try_pop clears is_finished after it has released the mutex.             *)
FinishReset ==
  /\ Play("finish_reset", "test_interrupt")
  /\ is_finished' = FALSE
  /\ UNCHANGED <<thread_run, ttsQueue, popped, budget, cancel, writes>>

BugInterruptIgnored ==
  /\ Play("test_interrupt", IF ret = 1 THEN "loop"
                            ELSE IF ret = 0 THEN "write" ELSE "detect_end")
  /\ UNCHANGED <<thread_run, queueVars, popped, budget, cancel, writes>>

(* What was popped is dropped when the peer has sent ttsstop.              *)
TestInterrupt ==
  /\ Play("test_interrupt", IF is_interrupt \/ ret = 1 THEN "loop"
                            ELSE IF ret = 0 THEN "write" ELSE "detect_end")
  /\ UNCHANGED <<thread_run, queueVars, popped, budget, cancel, writes>>

BugWrittenTwice ==
  /\ Play("write", "loop") \/ Play("write", "write")
  /\ played' = frame
  /\ late' = IF is_interrupt THEN late + 1 ELSE late
  /\ overrun' = overrun + 1
  /\ UNCHANGED <<thread_run, queueVars, popped, budget, cancel>>

WriteFrame ==
  /\ \/ Play("write", "loop")
     \/ Play("write", "cancel")    \* switch_core_timer_next fails
  /\ played' = frame
  /\ late' = IF is_interrupt THEN late + 1 ELSE late
  /\ overrun' = overrun + 1
  /\ UNCHANGED <<thread_run, queueVars, popped, budget, cancel>>

WriteFails ==
  /\ Play("write", "loop")
  /\ UNCHANGED <<thread_run, queueVars, popped, budget, cancel, writes>>

(* Handler.get() here and in cancel reads whatever the pointer holds now.  *)
DetectEnd ==
  /\ Play("detect_end", IF Handler = 0 THEN "loop" ELSE "detect_send")
  /\ target' = Handler
  /\ UNCHANGED <<thread_run, queueVars, popped, budget, con, stopped, silenced,
                 fault, writes>>

UseOfTarget == fault' = IF target \in freed THEN "handler freed" ELSE fault

(* writeText("detect_end").                                                *)
DetectSend ==
  /\ Play("detect_send", "loop")
  /\ UseOfTarget
  /\ UNCHANGED <<thread_run, queueVars, popped, budget, target, con, stopped,
                 silenced, writes>>

(* Handler->cancel().                                                      *)
Cancel ==
  /\ Play("cancel", "cancel_stop")
  /\ target' = Handler
  /\ fault' = IF Handler = 0 THEN "cancel through null" ELSE fault
  /\ UNCHANGED <<thread_run, queueVars, popped, budget, con, stopped, silenced,
                 writes>>

BugCancelOnlyMarks ==
  /\ Play("cancel_stop", "done")
  /\ silenced' = IF joinable[target] /\ target = starts
                 THEN silenced \cup {target} ELSE silenced
  /\ UseOfTarget
  /\ UNCHANGED <<thread_run, queueVars, popped, budget, target, con, stopped,
                 writes>>

CancelStop ==
  /\ \/ /\ Play("cancel_stop", "cancel_test")
        /\ joinable[target]
        /\ Stop(target)
        /\ silenced' = IF target = starts THEN silenced \cup {target}
                       ELSE silenced
     \/ /\ Play("cancel_stop", "done")
        /\ ~joinable[target]
        /\ UNCHANGED <<stopped, silenced>>
  /\ UseOfTarget
  /\ UNCHANGED <<thread_run, queueVars, popped, budget, target, con, writes>>

CancelTest ==
  /\ Play("cancel_test",
          IF con[target] = "open" THEN "cancel_terminate" ELSE "done")
  /\ UseOfTarget
  /\ UNCHANGED <<thread_run, queueVars, popped, budget, target, con, stopped,
                 silenced, writes>>

CancelTerminate ==
  /\ Play("cancel_terminate",
          IF con[target] = "closed" THEN "done" ELSE "cancel_callback")
  /\ UseOfTarget
  /\ Terminate(target)
  /\ UNCHANGED <<thread_run, queueVars, popped, budget, target, stopped,
                 silenced, writes>>

CancelCallback ==
  /\ Play("cancel_callback", "done")
  /\ UseOfTarget
  /\ ErrorCallback
  /\ UNCHANGED <<queueVars, popped, budget, target, con, stopped, silenced,
                 writes>>

-----------------------------------------------------------------------------
(* The websocket worker of connection g.  A stopped I/O service starts no  *)
(* further callback; one that is running goes on to its end.               *)
workKeeps == <<executing, appVars, playVars, joinable, freed, fault, history>>

Work(g, step, next) ==
  /\ Running /\ worker[g] = step
  /\ worker' = [worker EXCEPT ![g] = next]
  /\ UNCHANGED workKeeps

Open(g) ==
  /\ Work(g, "run", "run") /\ ~stopped[g]
  /\ con[g] = "connecting"
  /\ con' = [con EXCEPT ![g] = "open"]
  /\ UNCHANGED <<thread_run, is_interrupt, queueVars, stopped, is_tts, sent>>

(* The peer begins to close the connection.                                *)
PeerCloses(g) ==
  /\ Work(g, "run", "run") /\ ~stopped[g]
  /\ con[g] = "open"
  /\ con' = [con EXCEPT ![g] = "closing"]
  /\ UNCHANGED <<thread_run, is_interrupt, queueVars, stopped, is_tts, sent>>

(* The connection fails, or its closing is done; the callback follows.     *)
Lose(g) ==
  /\ Work(g, "run", "error") /\ ~stopped[g]
  /\ con[g] \in {"connecting", "open", "closing"}
  /\ con' = [con EXCEPT ![g] = "closed"]
  /\ UNCHANGED <<thread_run, is_interrupt, queueVars, stopped, is_tts, sent>>

WorkerError(g) ==
  /\ Work(g, "error", "run")
  /\ ErrorCallback
  /\ UNCHANGED <<is_interrupt, queueVars, con, stopped, is_tts, sent>>

(* The message handler starts.  Audio is accepted only while is_tts.       *)
Message(g) ==
  /\ con[g] = "open" /\ ~stopped[g]
  /\ sent < MaxMessages
  /\ sent' = sent + 1
  /\ \/ \E cmd \in {"start", "clear", "interrupt", "close"} :
          Work(g, "run", cmd)
     \/ is_tts[g] /\ \E audio \in {"push", "push_end"} : Work(g, "run", audio)
  /\ UNCHANGED <<thread_run, is_interrupt, queueVars, con, stopped, is_tts>>

(* ttsQueue.push of audio, and of the empty message that ends it.          *)
Push(g) ==
  /\ \/ /\ Work(g, "push", "run")
        /\ ttsQueue' = Append(ttsQueue, g)
        /\ UNCHANGED is_finished
     \/ /\ Work(g, "push_end", "run")
        /\ is_finished' = TRUE
        /\ UNCHANGED ttsQueue
  /\ UNCHANGED <<thread_run, is_interrupt, con, stopped, is_tts, sent>>

(* ttsstart; ttsstop_clean clears the queue, and both ttsstop commands set *)
(* is_interrupt before they turn is_tts off.                               *)
TtsStart(g) ==
  /\ Work(g, "start", "run")
  /\ is_tts' = [is_tts EXCEPT ![g] = TRUE]
  /\ UNCHANGED <<thread_run, is_interrupt, queueVars, con, stopped, sent>>

InterruptClean(g) ==
  /\ Work(g, "clear", "interrupt")
  /\ ClearQueue
  /\ UNCHANGED <<thread_run, is_interrupt, con, stopped, is_tts, sent>>

Interrupt(g) ==
  /\ Work(g, "interrupt", "tts_off")
  /\ is_interrupt' = TRUE
  /\ UNCHANGED <<thread_run, queueVars, con, stopped, is_tts, sent>>

TtsOff(g) ==
  /\ Work(g, "tts_off", "run")
  /\ is_tts' = [is_tts EXCEPT ![g] = FALSE]
  /\ UNCHANGED <<thread_run, is_interrupt, queueVars, con, stopped, sent>>

(* The command close: the worker itself calls cancel().                    *)
CloseStop(g) ==
  /\ \/ joinable[g] /\ Work(g, "close", "test") /\ Stop(g)
     \/ ~joinable[g] /\ Work(g, "close", "run") /\ UNCHANGED stopped
  /\ UNCHANGED <<thread_run, is_interrupt, queueVars, con, is_tts, sent>>

CloseTest(g) ==
  /\ Work(g, "test", IF con[g] = "open" THEN "terminate" ELSE "run")
  /\ UNCHANGED <<thread_run, is_interrupt, queueVars, con, stopped, is_tts,
                 sent>>

CloseTerminate(g) ==
  /\ Work(g, "terminate", IF con[g] = "closed" THEN "run" ELSE "error")
  /\ Terminate(g)
  /\ UNCHANGED <<thread_run, is_interrupt, queueVars, stopped, is_tts, sent>>

(* run() returns when it was stopped or nothing is left to wait for.       *)
WorkerExit(g) ==
  /\ Work(g, "run", "exited")
  /\ stopped[g] \/ con[g] = "closed"
  /\ UNCHANGED <<thread_run, is_interrupt, queueVars, con, stopped, is_tts,
                 sent>>

-----------------------------------------------------------------------------
(* Hangup or transfer: the channel leaves CS_EXECUTE.                      *)
Hangup ==
  /\ Running /\ executing
  /\ executing' = FALSE
  /\ UNCHANGED <<thread_run, is_interrupt, queueVars, appVars, playVars, con,
                 worker, joinable, stopped, is_tts, freed, sent, fault,
                 history>>

(* The application thread once it is inside a call.                        *)
AppStep ==
  \/ JoinPlay \/ ClearAfterJoin \/ SpawnPlay
  \/ \E type \in Types : CreateHandler(type)
  \/ DropStop \/ DropTest \/ DropTerminate \/ DropCallback \/ DropJoin
  \/ ParseFails \/ StartHandler \/ UrlRejected
  \/ Connect \/ SpawnWorker \/ AssignWorker

PlayStep ==
  \/ PlayGivesUp \/ PlayReady \/ LoopTest
  \/ TryPop \/ FinishReset \/ TestInterrupt
  \/ WriteFrame \/ WriteFails \/ DetectEnd \/ DetectSend
  \/ Cancel \/ CancelStop \/ CancelTest \/ CancelTerminate \/ CancelCallback

(* What a worker does without waiting for its peer.                        *)
WorkerStep(g) ==
  \/ WorkerError(g) \/ Push(g)
  \/ TtsStart(g) \/ InterruptClean(g) \/ Interrupt(g) \/ TtsOff(g)
  \/ CloseStop(g) \/ CloseTest(g) \/ CloseTerminate(g) \/ WorkerExit(g)

PeerStep(g) == Open(g) \/ PeerCloses(g) \/ Lose(g) \/ Message(g)

Next ==
  \/ StopPlayThread \/ AppStep \/ PlayStep
  \/ \E g \in Gens : WorkerStep(g) \/ PeerStep(g)
  \/ Hangup

Spec == Init /\ [][Next]_vars

(* Threads that are not blocked go on; the peer and the caller owe nothing.*)
Fairness ==
  /\ WF_vars(AppStep)
  /\ WF_vars(PlayStep)
  /\ \A g \in Gens : WF_vars(WorkerStep(g))

FairSpec == Spec /\ Fairness

-----------------------------------------------------------------------------
AppLabels == {"idle", "start_join", "delete_join", "start_clear",
              "delete_clear", "spawn_play", "create", "drop",
              "drop_test", "drop_terminate", "drop_callback", "drop_join",
              "parse", "connect", "spawn_worker", "assign_worker", "gone"}

PlayLabels == {"none", "begin", "loop", "pop", "finish_reset",
               "test_interrupt", "write", "detect_end", "detect_send",
               "cancel", "cancel_stop", "cancel_test", "cancel_terminate",
               "cancel_callback", "done"}

WorkLabels == {"none", "run", "error", "start", "clear", "interrupt",
               "tts_off", "close", "test", "terminate", "push", "push_end",
               "exited"}

Faults == {"no", "start through null", "client replaced", "handler freed",
           "cancel through null"}

(* Every variable keeps its type; the loop budget never goes below zero.   *)
TypeOK ==
  /\ thread_run \in BOOLEAN /\ is_interrupt \in BOOLEAN
  /\ ttsQueue \in Seq(Gens) /\ is_finished \in BOOLEAN
  /\ executing \in BOOLEAN
  /\ app \in AppLabels
  /\ starts \in 0..MaxStarts
  /\ Handler \in 0..MaxStarts /\ old \in 0..MaxStarts
  /\ play \in PlayLabels /\ ret \in 0..2
  /\ frame \in 0..MaxStarts /\ target \in 0..MaxStarts
  /\ budget \in 0..LoopBudget
  /\ con \in [Gens -> {"none", "connecting", "open", "closing", "closed"}]
  /\ worker \in [Gens -> WorkLabels]
  /\ joinable \in [Gens -> BOOLEAN] /\ stopped \in [Gens -> BOOLEAN]
  /\ is_tts \in [Gens -> BOOLEAN]
  /\ freed \subseteq Gens
  /\ sent \in 0..MaxMessages
  /\ fault \in Faults
  /\ played \in 0..MaxStarts /\ late \in Nat /\ overrun \in Nat
  /\ silenced \subseteq Gens

(* Two connections never feed the queue at the same time: the destructor   *)
(* of the replaced handler has joined its worker before the next one is    *)
(* spawned.                                                                *)
Alive(g) == worker[g] \notin {"none", "exited"}

OneWorker == \A g, h \in Gens : Alive(g) /\ Alive(h) => g = h

(* Audio of an earlier start is never heard after audio of a later one.    *)
PlaysInOrder == [][played' >= played]_vars

(* A connection whose own playing thread has cancelled it leaves at most   *)
(* one frame behind the clear of the next start: the one its worker was    *)
(* just pushing.                                                           *)
StaleAtMostOne ==
  Cardinality({i \in DOMAIN ttsQueue :
                 ttsQueue[i] \in silenced /\ ttsQueue[i] < starts}) <= 1

(* After the peer's ttsstop no more than the frame already on its way to   *)
(* the channel is heard.                                                   *)
InterruptIsPrompt == late <= 1

(* After stop_play_thread has cleared thread_run no more than the frame    *)
(* already on its way is heard.                                            *)
StopIsPrompt == app \in {"start_join", "delete_join"} => overrun <= 1

(* Every start and every deletion returns: the join of the playing thread  *)
(* and the join of the worker end, although both threads call back into    *)
(* the streamer.                                                           *)
CallsReturn ==
  app \notin {"idle", "gone"} ~> app \in {"idle", "gone"} \/ ~Running

(* When the connection of the last start has ended, by its peer, by the    *)
(* network or by cancel, the playing thread has been told to end, or the   *)
(* close handler that tells it is running on one of the three threads that *)
(* can terminate a connection.                                             *)
Telling(g) ==
  \/ worker[g] = "error"
  \/ app = "drop_callback" /\ old = g
  \/ play = "cancel_callback" /\ target = g

ClosedStopsPlay ==
  \A g \in Gens :
    con[g] = "closed" /\ g = Handler /\ g = starts /\ thread_run => Telling(g)

(* And it is told in the end: when the connection of the last start has    *)
(* ended, on whichever thread, thread_run is cleared, unless a use of a    *)
(* deleted handler has ended the process before.                           *)
EndTurnsOffPlay ==
  \A g \in Gens :
    con[g] = "closed" /\ g = Handler /\ g = starts
      ~> ~thread_run \/ ~Running

(* From the moment the connection of a start exists, thread_run is cleared *)
(* only by the first step of stop_play_thread, by the worker of that very  *)
(* connection when it reports the end, or by the playing thread when it    *)
(* does so for that connection (or through a deleted handler, where the    *)
(* process ends): the late error of a replaced connection comes too early  *)
(* to do harm.                                                             *)
OwnEndOnceConnected ==
  [][thread_run /\ ~thread_run' /\ starts > 0 /\ worker[starts] # "none"
       => \/ app = "idle" /\ app' \in {"start_join", "delete_join"}
          \/ play = "cancel_callback" /\ play' = "done"
               /\ (target = starts \/ fault' = "handler freed")
          \/ worker[starts] = "error" /\ worker'[starts] = "run"]_vars

(* A handler is deleted under the playing thread only by a start that      *)
(* replaces it, never by the deletion of the streamer, which joins first.  *)
OnlyReplacedDangles == fault = "handler freed" => target < Handler

(* With the type the code knows, the playing thread finds no handler only  *)
(* while create_stream, which starts after it, has not stored one yet.     *)
NullOnlyWhileCreating == fault = "cancel through null" => app = "create"

(* With that type a start never calls startHandler through null.           *)
StartHasHandler == fault # "start through null"

-----------------------------------------------------------------------------
(* What the caller hears, seen as a path of frames.  The frame in the      *)
(* hand of the playing thread, between try_pop and the write, is in front. *)
Hand ==
  IF play \in {"test_interrupt", "write"} /\ ret = 0 THEN <<frame>> ELSE <<>>

Line ==
  [g \in Gens |-> IF worker[g] = "none" THEN "new"
                  ELSE IF worker[g] = "exited" THEN "over" ELSE "live"]

Path == INSTANCE AudioPath
  WITH started <- starts, line <- Line, air <- Hand \o ttsQueue,
       heard <- played

(* Every step of the threads is one step of the path or none, up to the    *)
(* undefined behaviour that ends the process.                              *)
IsAudioPath == Path!Spec

-----------------------------------------------------------------------------
(* The streamer as its owner sees it.  A handler is replaced when its      *)
(* destructor, the steps Drops, has returned.                              *)
Drops == {"drop", "drop_test", "drop_terminate", "drop_callback", "drop_join"}

Stage ==
  IF app \in {"start_join", "start_clear", "spawn_play"} THEN "starting"
  ELSE IF app = "create" \/ (app \in Drops /\ old # Handler) THEN "creating"
  ELSE IF app \in {"delete_join", "delete_clear"} \cup Drops THEN "deleting"
  ELSE IF app = "gone" THEN "gone" ELSE "idle"

HandlerInCharge ==
  IF app = "gone" THEN 0 ELSE IF app \in Drops THEN old ELSE Handler

Life == INSTANCE StreamerLife
  WITH MaxHandlers <- MaxStarts, stage <- Stage, playing <- play # "none",
       handler <- HandlerInCharge, deleted <- freed

(* What goes on inside the calls is what the owner is told: the playing    *)
(* thread is joined before another is started and before the streamer      *)
(* goes, and one handler at a time is left undeleted.                      *)
IsStreamerLife == Life!Spec

-----------------------------------------------------------------------------
(* The next formulas say what the documentation promises and the code does *)
(* not do.  One start refutes each of them but OwnEndOnly and HandlerKept, *)
(* which take two.  With the documented type "websocket" one start refutes *)
(* StartHasHandler as well.                                                *)

(* Once a start has turned playing on, it is turned off only by a stop, by *)
(* the connection of that start, or by the playing thread itself.          *)
OwnEndOnly ==
  [][thread_run /\ ~thread_run'
       => \/ app \in {"idle", "connect"} \/ play = "cancel_callback"
          \/ worker[starts] = "error"]_vars

(* After ttsstart audio is played: nothing still tells the playing thread  *)
(* to drop it.                                                             *)
TtsStartPlays ==
  \A g \in Gens : is_tts[g] /\ worker[g] = "run" => ~is_interrupt

(* The playing thread does not call cancel through a null pointer.         *)
CancelHasHandler == fault # "cancel through null"

(* The playing thread does not use a handler another thread has deleted.   *)
HandlerKept == fault # "handler freed"

(* When the playing thread has cancelled a handler, its worker ends.       *)
CancelEnds ==
  \A g \in Gens :
    play = "done" /\ target = g /\ worker[g] = "run"
      ~> worker[g] = "exited" \/ g \in freed \/ ~Running
=============================================================================
