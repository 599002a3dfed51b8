--------------------------- MODULE WebSocketHandler ---------------------------
(***************************************************************************)
(* What one handler says (WebSocketHandler.h): the texts and the caller's  *)
(* audio on the wire to the peer, and the events it makes the module fire. *)
(*                                                                         *)
(* Four threads speak through one handler: the application thread in       *)
(* startHandler, the worker in the callbacks of websocketpp, the media     *)
(* thread in sendbinary and the playing thread in writeText and cancel.    *)
(* todo holds the calls each has left to make of the method it is in, so a *)
(* method is the list of calls it stands for.  Every text is first tested  *)
(* with isConnected and then sent; in between the other threads go on.     *)
(*                                                                         *)
(* How handlers follow each other, the queue and the playing loop are in   *)
(* TTsStreamer, as are the interrupts of ttsstop.                          *)
(***************************************************************************)
EXTENDS Naturals, Sequences

CONSTANTS
  CallIds,      \* values of the parameter callId, "empty" stands for ""
  MaxMessages,  \* bound: messages of the peer
  MaxReads      \* bound: frames the media bug reads, ends that are noticed

ASSUME TalkAssumption == MaxMessages \in Nat /\ MaxReads \in Nat

Threads == {"app", "worker", "media", "play"}

VARIABLES
  tts_client,        \* startHandler has created the client
  m_connection_hdl,  \* the open handler has stored the connection
  con,               \* "none", "connecting", "open", "closing", "closed"
  callid,
  worker_thread,     \* "none", "running", "joinable"
  stopped,           \* tts_client->stop() was called
  is_asr, is_tts,
  session,           \* switch_core_session_locate finds the call
  playing,           \* the playing thread is in its loop
  todo,              \* of each thread: the calls left to make, in order
  wire,              \* history: what the peer was sent
  errors, later,     \* history: error events fired, and events after one
  overrun,           \* history: audio sent since asrstop
  messages, reads,   \* bounds
  fault

flags    == <<is_asr, is_tts>>
start    == <<tts_client, callid, worker_thread>>
link     == <<m_connection_hdl, con, stopped>>
told     == <<wire, errors, later, overrun>>
others   == <<session, playing, messages, reads, fault>>
vars     == <<start, link, flags, told, others, todo>>

(* Texts, named for what they say: "ids" is the JSON of writeTTsJson,      *)
(* "bye" what the fail and close handlers write.                           *)
Texts  == {"ids", "garbage", "hello", "no_asr", "no_tts", "detect_end", "bye"}
Events == {"connected", "ok", "error", "finish"}

Init ==
  /\ tts_client = FALSE /\ m_connection_hdl = FALSE /\ con = "none"
  /\ stopped = FALSE /\ callid = "empty" /\ worker_thread = "none"
  /\ is_asr = FALSE /\ is_tts = FALSE
  /\ session = TRUE /\ playing = TRUE
  /\ todo = [t \in Threads |->
               IF t # "app" THEN <<>>
               ELSE <<"parse", "client", "connect", "run", "assign">>]
  /\ wire = {} /\ errors = 0 /\ later = 0 /\ overrun = 0
  /\ messages = 0 /\ reads = 0 /\ fault = "no"

Running == fault = "no"

(* Thread t calls a method: the calls it consists of.                      *)
Calls(t, calls) ==
  Running /\ todo[t] = <<>> /\ todo' = [todo EXCEPT ![t] = calls]

AtCall(t, call) == Running /\ todo[t] # <<>> /\ Head(todo[t]) = call

(* The next call of t is call; it is replaced by calls.                    *)
Does(t, call, calls) ==
  AtCall(t, call) /\ todo' = [todo EXCEPT ![t] = calls \o Tail(@)]

(* The next call of t is call; t leaves the method, after calls.           *)
Leaves(t, call, calls) ==
  AtCall(t, call) /\ todo' = [todo EXCEPT ![t] = calls]

-----------------------------------------------------------------------------
(* startHandler.  A missing key or a bad JSON throws before the client is  *)
(* there.                                                                  *)
ParseFails ==
  /\ Leaves("app", "parse", <<>>)
  /\ UNCHANGED <<start, link, flags, told, others>>

Parse ==
  /\ Does("app", "parse", <<>>)
  /\ callid' \in CallIds
  /\ UNCHANGED <<tts_client, worker_thread, link, flags, told, others>>

ResetClient ==
  /\ Does("app", "client", <<>>)
  /\ tts_client' = TRUE
  /\ UNCHANGED <<callid, worker_thread, link, flags, told, others>>

(* get_connection may reject the url.                                      *)
Connect ==
  /\ \/ Does("app", "connect", <<>>) /\ con' = "connecting"
     \/ Leaves("app", "connect", <<"error">>) /\ con' = "closed"
  /\ UNCHANGED <<start, m_connection_hdl, stopped, flags, told, others>>

RunWorker ==
  /\ \/ Does("app", "run", <<>>) /\ worker_thread' = "running"
     \/ Does("app", "assign", <<>>) /\ worker_thread' = "joinable"
  /\ UNCHANGED <<tts_client, callid, link, flags, told, others>>

-----------------------------------------------------------------------------
(* isConnected.  The handle is copied while the open handler may store it; *)
(* a copy sees the old or the new one.  Without a client the call goes     *)
(* through a null pointer: it may fail or find no connection.              *)
Connected == m_connection_hdl /\ con = "open"

IsConnected(t) ==
  \E text \in Texts \cup {"binary"} :
    \/ /\ Does(t, text, IF ~Connected THEN <<>>
                        ELSE IF text = "binary" THEN <<"test_asr">>
                        ELSE <<"send", text>>)
       /\ UNCHANGED <<start, link, flags, told, others>>
    \/ /\ ~tts_client
       /\ Does(t, text, <<>>)
       /\ fault' = "no_client"
       /\ UNCHANGED <<start, link, flags, session, playing, told, messages,
                      reads>>

BugRefusesWithoutTest(t) ==
  /\ Does(t, "test_asr", IF is_asr THEN <<"send", "audio">> ELSE <<"send">>)
  /\ UNCHANGED <<start, link, flags, told, others>>

BugAsrNotTested(t) ==
  /\ Does(t, "test_asr", <<"send", "audio">>)
  /\ UNCHANGED <<start, link, flags, told, others>>

(* sendbinary sends the audio, or says that the peer has not asked for it. *)
TestAsr(t) ==
  /\ Does(t, "test_asr", IF is_asr THEN <<"send", "audio">> ELSE <<"no_asr">>)
  /\ UNCHANGED <<start, link, flags, told, others>>

(* tts_client->send; an error is logged.                                   *)
Send(t) ==
  /\ AtCall(t, "send")
  /\ todo' = [todo EXCEPT ![t] = Tail(Tail(@))]
  /\ wire' = IF con = "open" THEN wire \cup {todo[t][2]} ELSE wire
  /\ overrun' = IF con = "open" /\ todo[t][2] = "audio" /\ ~is_asr
                THEN overrun + 1 ELSE overrun
  /\ UNCHANGED <<start, link, flags, errors, later, others>>

(* eventTtsCallback and forkzstream_event_callback: the event is fired if  *)
(* the session can still be located.  The playing thread fires "finish"    *)
(* without that.                                                           *)
Fire(t) ==
  \E event \in Events :
    /\ Does(t, event, <<>>)
    /\ errors' = IF session /\ event = "error" THEN errors + 1 ELSE errors
    /\ later' = IF session /\ errors > 0 /\ event \notin {"error", "finish"}
                THEN later + 1 ELSE later
    /\ UNCHANGED <<start, link, flags, wire, overrun, others>>

BugCancelReports(t) ==
  /\ Does(t, "cancel", IF worker_thread = "joinable"
                       THEN <<"test_open", "error">> ELSE <<>>)
  /\ stopped' = (stopped \/ worker_thread = "joinable")
  /\ UNCHANGED <<start, m_connection_hdl, con, flags, told, others>>

(* disconnect.  It does nothing before worker_thread is assigned; once it  *)
(* has stopped the service, no callback starts.                            *)
Disconnect(t) ==
  /\ Does(t, "cancel",
          IF worker_thread = "joinable" THEN <<"test_open">> ELSE <<>>)
  /\ stopped' = (stopped \/ worker_thread = "joinable")
  /\ UNCHANGED <<start, m_connection_hdl, con, flags, told, others>>

TestOpen(t) ==
  /\ Does(t, "test_open", IF Connected THEN <<"terminate">> ELSE <<>>)
  /\ UNCHANGED <<start, link, flags, told, others>>

BugCloseNotReported(t) ==
  /\ Does(t, "terminate", IF con # "closed" THEN <<"bye">> ELSE <<>>)
  /\ con' = "closed"
  /\ UNCHANGED <<start, m_connection_hdl, stopped, flags, told, others>>

(* terminate runs the close handler on the thread that calls it, unless    *)
(* another thread was first.  It is websocketpp's, and taken to test and   *)
(* set the state in one step.                                              *)
Terminate(t) ==
  /\ Does(t, "terminate", IF con # "closed" THEN <<"bye", "error">> ELSE <<>>)
  /\ con' = "closed"
  /\ UNCHANGED <<start, m_connection_hdl, stopped, flags, told, others>>

-----------------------------------------------------------------------------
(* The worker.  writeTTsJson fills its buffer only for a callId.           *)
Ids == IF callid = "empty" THEN "garbage" ELSE "ids"

BugHandleAfterIds ==
  /\ worker_thread # "none" /\ ~stopped /\ con = "connecting"
  /\ Calls("worker", <<Ids, "store", "hello", "connected">>)
  /\ con' = "open"
  /\ UNCHANGED <<start, m_connection_hdl, stopped, flags, told, others>>

(* The open handler.                                                       *)
Open ==
  /\ worker_thread # "none" /\ ~stopped /\ con = "connecting"
  /\ Calls("worker", <<"store", Ids, "hello", "connected">>)
  /\ con' = "open"
  /\ UNCHANGED <<start, m_connection_hdl, stopped, flags, told, others>>

StoreHandle ==
  /\ Does("worker", "store", <<>>)
  /\ m_connection_hdl' = TRUE
  /\ UNCHANGED <<start, con, stopped, flags, told, others>>

(* The close frame of the peer: from here on nothing is sent or received.  *)
(* A frame that was read with the message before it is handled even if the *)
(* service was stopped meanwhile.                                          *)
PeerCloses ==
  /\ Running /\ worker_thread # "none" /\ todo["worker"] = <<>>
  /\ con = "open"
  /\ con' = "closing"
  /\ UNCHANGED <<start, m_connection_hdl, stopped, flags, told, others, todo>>

(* The fail and the close handler.                                         *)
Lose ==
  /\ worker_thread # "none" /\ ~stopped
  /\ con \in {"connecting", "open", "closing"}
  /\ Calls("worker", <<"bye", "error">>)
  /\ con' = "closed"
  /\ UNCHANGED <<start, m_connection_hdl, stopped, flags, told, others>>

(* handleCmd.  Any other text is passed on as an event only.               *)
Commands == {"ttsstart", "ttsstop", "asrstart", "asrstop", "close", "other"}
HandleCmd(cmd) ==
  CASE cmd = "close" -> <<"cancel">>
    [] cmd = "other" -> <<>>
    [] OTHER -> <<cmd>>

(* The message handler.  Audio that is not wanted is answered; that which  *)
(* is goes to the queue.  A message that was read together with the one    *)
(* before is handled even if the service was stopped meanwhile.            *)
Message ==
  /\ worker_thread # "none" /\ con = "open"
  /\ messages < MaxMessages
  /\ messages' = messages + 1
  /\ \/ \E cmd \in Commands : Calls("worker", HandleCmd(cmd) \o <<"ok">>)
     \/ Calls("worker", IF is_tts THEN <<>> ELSE <<"no_tts">>)
  /\ UNCHANGED <<start, link, flags, session, playing, told, reads, fault>>

SetFlag ==
  /\ \/ /\ \E on \in {"asrstart", "asrstop"} :
             Does("worker", on, <<>>) /\ is_asr' = (on = "asrstart")
        /\ overrun' = 0
        /\ UNCHANGED is_tts
     \/ /\ \E on \in {"ttsstart", "ttsstop"} :
             Does("worker", on, <<>>) /\ is_tts' = (on = "ttsstart")
        /\ UNCHANGED <<is_asr, overrun>>
  /\ UNCHANGED <<start, link, wire, errors, later, others>>

-----------------------------------------------------------------------------
(* A READ callback of the media bug: asr_feed, tts_session_sendbinary.     *)
Read ==
  /\ Calls("media", <<"binary">>)
  /\ reads < MaxReads
  /\ reads' = reads + 1
  /\ UNCHANGED <<start, link, flags, session, playing, told, messages, fault>>

(* try_pop has reported the end of an utterance to the playing thread.     *)
DetectEnd ==
  /\ playing
  /\ Calls("play", <<"detect_end">>)
  /\ reads < MaxReads
  /\ reads' = reads + 1
  /\ UNCHANGED <<start, link, flags, session, playing, told, messages, fault>>

(* The playing loop is over.                                               *)
Finish ==
  /\ playing
  /\ Calls("play", <<"finish", "cancel">>)
  /\ playing' = FALSE
  /\ UNCHANGED <<start, link, flags, session, told, messages, reads, fault>>

(* FreeSWITCH takes the session out of its table.                          *)
EndSession ==
  /\ Running /\ session
  /\ session' = FALSE
  /\ UNCHANGED <<start, link, flags, playing, todo, told, messages, reads,
                 fault>>

Step(t) ==
  \/ IsConnected(t) \/ TestAsr(t) \/ Send(t) \/ Fire(t)
  \/ Disconnect(t) \/ TestOpen(t) \/ Terminate(t)

AppStep    == ParseFails \/ Parse \/ ResetClient \/ Connect \/ RunWorker
WorkerStep == StoreHandle \/ SetFlag

Next ==
  \/ AppStep \/ WorkerStep \/ \E t \in Threads : Step(t)
  \/ Open \/ PeerCloses \/ Lose \/ Message
  \/ Read \/ DetectEnd \/ Finish \/ EndSession

Spec == Init /\ [][Next]_vars

(* A thread inside a method goes on, and websocketpp ends a connection     *)
(* that is closing: it waits for the peer for a bounded time.  The peer,   *)
(* the caller and the media owe nothing.                                   *)
FairSpec ==
  /\ Spec
  /\ WF_vars(AppStep) /\ WF_vars(WorkerStep)
  /\ WF_vars(con = "closing" /\ Lose)
  /\ \A t \in Threads : WF_vars(Step(t))

-----------------------------------------------------------------------------
(* Every variable keeps its type; todo holds known calls, and what is sent *)
(* follows its send.                                                       *)
TypeOK ==
  /\ tts_client \in BOOLEAN /\ m_connection_hdl \in BOOLEAN
  /\ stopped \in BOOLEAN
  /\ con \in {"none", "connecting", "open", "closing", "closed"}
  /\ callid \in CallIds \cup {"empty"}
  /\ worker_thread \in {"none", "running", "joinable"}
  /\ is_asr \in BOOLEAN /\ is_tts \in BOOLEAN
  /\ session \in BOOLEAN /\ playing \in BOOLEAN
  /\ \A t \in Threads : todo[t] \in
       Seq(Texts \cup Events \cup Commands
           \cup {"parse", "client", "connect", "run", "assign", "store",
                 "binary", "test_asr", "send", "audio", "cancel", "test_open",
                 "terminate"})
  /\ \A t \in Threads : todo[t] # <<>> /\ Head(todo[t]) = "send"
        => Len(todo[t]) > 1 /\ todo[t][2] \in Texts \cup {"audio"}
  /\ wire \subseteq Texts \cup {"audio"}
  /\ errors \in Nat /\ later \in Nat /\ overrun \in Nat
  /\ messages \in 0..MaxMessages /\ reads \in 0..MaxReads
  /\ fault \in {"no", "no_client"}

(* When the start has a callId, nothing but two texts of the media and the *)
(* playing thread reaches the peer before the JSON that says which call    *)
(* this is (writeTTsJson in the open handler): the caller's audio, above   *)
(* all, does not, although sendbinary never asks whether the open handler  *)
(* is done.                                                                *)
IdsFirst ==
  callid # "empty" => wire \subseteq {"no_asr", "detect_end"} \/ "ids" \in wire

(* After asrstop the peer gets at most the one frame that sendbinary had   *)
(* let through when handleCmd cleared is_asr.                              *)
AsrStopIsPrompt == overrun <= 1

(* Three threads can end a connection, the peer as well; the error that    *)
(* ends the playing thread is reported once.  After it one event may       *)
(* follow, that of the callback the worker was in, and the finish of the   *)
(* playing thread.                                                         *)
EndIsHeardOnce == errors <= 1 /\ later <= 1

(* Whoever ends the connection, the session hears of it, also when the     *)
(* peer has only begun to close it; unless a cancel then stops the service *)
(* and, because the connection is not open any more, leaves it at that.    *)
EndIsReported ==
  con \in {"closing", "closed"} /\ Running
    ~> \/ errors > 0 \/ ~session \/ ~Running
       \/ con = "closing" /\ stopped

-----------------------------------------------------------------------------
(* What one might expect of a handler and the code does not keep; TLC      *)
(* refutes each within seconds.                                            *)

(* The peer hears first which call this is.  The media thread's "no_asr"   *)
(* comes before, once m_connection_hdl is stored.                          *)
IdsAreFirst == wire # {} => Ids \in wire

(* writeTTsJson sends what it has built; with an empty callId it sends an  *)
(* uninitialised buffer.                                                   *)
NoGarbage == "garbage" \notin wire

(* Frames read between the creation of the handler and that of its client  *)
(* find a client.                                                          *)
HasClient == fault # "no_client"

(* The connected event comes before the error.  The playing thread may     *)
(* terminate a connection whose open handler is still running.             *)
ErrorIsLast == later = 0

(* The peer is told that the connection closes.  When the handlers write   *)
(* the text the connection is closed already.                              *)
SaysBye ==
  con = "closed" /\ Running /\ (\A t \in Threads : todo[t] = <<>>)
    /\ wire # {} => "bye" \in wire
=============================================================================
