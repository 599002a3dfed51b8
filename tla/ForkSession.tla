----------------------------- MODULE ForkSession -----------------------------
(***************************************************************************)
(* The life of one call in the module (mod_forkzstream.c with the          *)
(* tts_session_* functions of forkzstream.cpp): the private handle sth of  *)
(* the channel, the streamer its pTTsStreamer points to, the entry in      *)
(* session_table and the media bug.                                        *)
(*                                                                         *)
(* The session thread executes start and stop and tears the call down, the *)
(* event thread handles the hangup event.  Audio is read, and with it the  *)
(* READ callback run, by the session thread, by the playing thread, and,   *)
(* when the channel has a timer_name, by the thread "media" that           *)
(* switch_core_service_session starts.  None of them holds a lock, so each *)
(* test, load and store of pTTsStreamer is a step.  What else goes on      *)
(* inside a streamer is in TTsStreamer, and so is what happens to a start  *)
(* that names another type than ws: here every start names ws.             *)
(***************************************************************************)
EXTENDS Naturals, FiniteSets

CONSTANTS
  MaxCommands,   \* bound: start and stop commands
  MaxReads,      \* bound: frames the media bug delivers
  Readers,       \* threads that run the READ callback
  HangupEvents,  \* BOOLEAN: the hangup event reaches the event thread
  BugOutcomes    \* possible results of switch_core_media_bug_add

ASSUME CommandsAssumption == MaxCommands \in Nat /\ MaxReads \in Nat
ASSUME ReadersAssumption == Readers \subseteq {"session", "media", "play"}

Threads == {"session", "event", "media", "play"}
Ids == 1..MaxCommands       \* streamers and handlers, numbered as created
Pointers == 0..MaxCommands  \* 0 is null

VARIABLES
  sth,            \* the channel has its private "forkzstream_thread"
  pTTsStreamer,   \* the streamer sth points to, 0 is null
  live,           \* streamers that exist
  play_thread,    \* streamers whose playing thread is joinable
  Handler,        \* the handler each streamer points to, 0 is null
  deleted,        \* handlers that were deleted
  client,         \* handlers that have a tts_client
  session_table,  \* the session was entered in the table
  bug,            \* "none", "attached", "closed"
  call,           \* "up", "hangup", "gone"
  hangup,         \* "none", "queued", "handled": the hangup event
  pc, as,         \* of each thread: position, and its copy of the pointer
  hd,             \* the reader's copy of the handler pointer
  created,        \* number of streamers created
  commands,       \* bound: commands executed
  reads,          \* bound: frames read
  fault,          \* the undefined behaviour that ended the process
  outcome         \* history: what the last start led to

objects == <<live, play_thread, Handler, deleted, created, client>>
callVars == <<bug, call, hangup>>
vars == <<sth, pTTsStreamer, objects, session_table, callVars, pc, as, hd,
          commands, reads, fault, outcome>>

Init ==
  /\ sth = FALSE /\ pTTsStreamer = 0
  /\ live = {} /\ play_thread = {} /\ deleted = {} /\ created = 0
  /\ client = {}
  /\ Handler = [o \in Ids |-> 0]
  /\ session_table = FALSE
  /\ bug = "none" /\ call = "up" /\ hangup = "none"
  /\ pc = [t \in Threads |-> "idle"]
  /\ as = [t \in Threads |-> 0]
  /\ hd = 0
  /\ commands = 0 /\ reads = 0
  /\ fault = "no" /\ outcome = "none"

Running == fault = "no"

Go(t, step, next) ==
  Running /\ pc[t] = step /\ pc' = [pc EXCEPT ![t] = next]

Load(t) == as' = [as EXCEPT ![t] = pTTsStreamer]

(* A member function is called on the streamer t holds.                    *)
UseStreamer(t) == fault' = IF as[t] \in live THEN fault ELSE "streamer freed"

(* play_thread.join() is in progress.                                      *)
Joining(o) ==
  \E u \in Threads : as[u] = o /\ pc[u] \in {"clean_joining", "text_joining"}

(* if (play_thread.joinable()) play_thread.join(): two threads must not    *)
(* join the same thread.                                                   *)
JoinPlay(t) ==
  fault' = IF as[t] \notin live THEN "streamer freed"
           ELSE IF Joining(as[t]) THEN "joined twice" ELSE fault

-----------------------------------------------------------------------------
(* forkzstream_start with the command start, on the session thread.        *)
Start ==
  /\ call = "up" /\ commands < MaxCommands
  /\ Go("session", "idle", "init")
  /\ commands' = commands + 1
  /\ session_table' = TRUE
  /\ UNCHANGED <<sth, pTTsStreamer, objects, callVars, as, hd, reads, fault,
                 outcome>>

(* forkzstream_init: nothing to do when the channel already has a handle.  *)
(* The caller ignores the result, that of a failed allocation too.         *)
InitSession ==
  /\ \/ sth /\ Go("session", "init", "text") /\ UNCHANGED sth
     \/ ~sth /\ Go("session", "init", "text") /\ UNCHANGED sth   \* no memory
     \/ ~sth /\ Go("session", "init", "new") /\ sth' = TRUE
  /\ UNCHANGED <<pTTsStreamer, objects, session_table, callVars, as, hd,
                 commands, reads, fault, outcome>>

(* tts_session_init; the new handle points to no streamer yet.             *)
NewStreamer ==
  /\ Go("session", "new", "add_bug")
  /\ pTTsStreamer = 0
  /\ created' = created + 1
  /\ live' = live \cup {created'}
  /\ pTTsStreamer' = created'
  /\ UNCHANGED <<sth, play_thread, Handler, deleted, client, session_table,
                 callVars, as, hd, commands, reads, fault, outcome>>

(* switch_core_media_bug_add; its failure is ignored by the caller.        *)
AddBug ==
  /\ Go("session", "add_bug", "text")
  /\ \E ok \in BugOutcomes : bug' = IF ok THEN "attached" ELSE bug
  /\ UNCHANGED <<sth, pTTsStreamer, objects, session_table, call, hangup, as,
                 hd, commands, reads, fault, outcome>>

(* tts_session_text tests pTTsStreamer, loads it, and uses it.             *)
Text ==
  /\ \/ sth /\ pTTsStreamer # 0 /\ Go("session", "text", "text_load")
        /\ UNCHANGED outcome
     \/ ~(sth /\ pTTsStreamer # 0) /\ Go("session", "text", "idle")
        /\ outcome' = IF sth THEN "no streamer" ELSE "no memory"
  /\ UNCHANGED <<sth, pTTsStreamer, objects, session_table, callVars, as, hd,
                 commands, reads, fault>>

TextLoad ==
  /\ Go("session", "text_load", "text_stop")
  /\ Load("session")
  /\ UNCHANGED <<sth, pTTsStreamer, objects, session_table, callVars, hd,
                 commands, reads, fault, outcome>>

TextStop ==
  /\ Go("session", "text_stop",
        IF as["session"] \in play_thread THEN "text_joining" ELSE "text_play")
  /\ JoinPlay("session")
  /\ UNCHANGED <<sth, pTTsStreamer, objects, session_table, callVars, as, hd,
                 commands, reads, outcome>>

TextJoined ==
  /\ Go("session", "text_joining", "text_play")
  /\ pc["play"] = "idle"
  /\ play_thread' = play_thread \ {as["session"]}
  /\ UseStreamer("session")
  /\ UNCHANGED <<sth, pTTsStreamer, live, Handler, deleted, created, client,
                 session_table, callVars, as, hd, commands, reads, outcome>>

(* start_play_tts_thread.                                                  *)
TextPlay ==
  /\ Go("session", "text_play", "text_create")
  /\ play_thread' = play_thread \cup {as["session"]}
  /\ UseStreamer("session")
  /\ UNCHANGED <<sth, pTTsStreamer, live, Handler, deleted, created, client,
                 session_table, callVars, as, hd, commands, reads, outcome>>

(* The definitions whose names begin with Bug are not part of the model.   *)
(* Each is a plausible mistake in the operation defined after it, used to  *)
(* show that a property can fail.                                          *)
BugHandlerNumber ==
  LET o == as["session"] IN
  /\ Go("session", "text_create", "text_client")
  /\ Handler' = [Handler EXCEPT ![o] = commands + 1]
  /\ deleted' = deleted \cup ({Handler[o]} \ {0})
  /\ UseStreamer("session")
  /\ UNCHANGED <<sth, pTTsStreamer, live, play_thread, created, client,
                 session_table, callVars, as, hd, commands, reads, outcome>>

(* create_stream: a new handler takes the place of the old one.            *)
TextCreate ==
  LET o == as["session"] IN
  /\ Go("session", "text_create", "text_client")
  /\ Handler' = [Handler EXCEPT ![o] = commands]
  /\ deleted' = deleted \cup ({Handler[o]} \ {0})
  /\ UseStreamer("session")
  /\ UNCHANGED <<sth, pTTsStreamer, live, play_thread, created, client,
                 session_table, callVars, as, hd, commands, reads, outcome>>

(* Then the parameters are read, and startHandler makes the client.  A key *)
(* that is missing is an exception, caught at the end of create_stream or  *)
(* of startHandler, before there is a client; a url the client refuses is  *)
(* found out after.                                                        *)
TextClient ==
  /\ Go("session", "text_client", "idle")
  /\ UseStreamer("session")
  /\ \/ outcome' = "no client" /\ UNCHANGED client
     \/ outcome' \in {"rejected", "connecting"}
        /\ client' = client \cup {commands}
  /\ UNCHANGED <<sth, pTTsStreamer, live, play_thread, Handler, deleted,
                 created, session_table, callVars, as, hd, commands, reads>>

-----------------------------------------------------------------------------
(* tts_session_cleanup, on the thread t.                                   *)
CleanTest(t) ==
  /\ Go(t, "clean", IF sth /\ pTTsStreamer # 0 THEN "clean_load" ELSE "idle")
  /\ fault' = IF call = "gone" THEN "session freed" ELSE fault
  /\ UNCHANGED <<sth, pTTsStreamer, objects, session_table, callVars, as, hd,
                 commands, reads, outcome>>

CleanLoad(t) ==
  /\ Go(t, "clean_load", "clean_null")
  /\ Load(t)
  /\ fault' = IF call = "gone" THEN "session freed" ELSE fault
  /\ UNCHANGED <<sth, pTTsStreamer, objects, session_table, callVars, hd,
                 commands, reads, outcome>>

BugPointerKept(t) ==
  /\ Go(t, "clean_null", IF as[t] = 0 THEN "idle" ELSE "clean_stop")
  /\ UNCHANGED <<sth, pTTsStreamer, objects, session_table, callVars, as, hd,
                 commands, reads, fault, outcome>>

BugOnlyForgets(t) ==
  /\ Go(t, "clean_null", "idle")
  /\ pTTsStreamer' = 0
  /\ UNCHANGED <<sth, objects, session_table, callVars, as, hd, commands,
                 reads, fault, outcome>>

CleanNull(t) ==
  /\ Go(t, "clean_null", IF as[t] = 0 THEN "idle" ELSE "clean_stop")
  /\ pTTsStreamer' = 0
  /\ fault' = IF call = "gone" THEN "session freed" ELSE fault
  /\ UNCHANGED <<sth, objects, session_table, callVars, as, hd, commands,
                 reads, outcome>>

BugNoJoin(t) ==
  /\ Go(t, "clean_stop", "clean_delete")
  /\ UNCHANGED <<sth, pTTsStreamer, objects, session_table, callVars, as, hd,
                 commands, reads, fault, outcome>>

CleanStop(t) ==
  /\ Go(t, "clean_stop",
        IF as[t] \in play_thread THEN "clean_joining" ELSE "clean_delete")
  /\ JoinPlay(t)
  /\ UNCHANGED <<sth, pTTsStreamer, objects, session_table, callVars, as, hd,
                 commands, reads, outcome>>

CleanJoined(t) ==
  /\ Go(t, "clean_joining", "clean_delete")
  /\ pc["play"] = "idle"
  /\ play_thread' = play_thread \ {as[t]}
  /\ UseStreamer(t)
  /\ UNCHANGED <<sth, pTTsStreamer, live, Handler, deleted, created, client,
                 session_table, callVars, as, hd, commands, reads, outcome>>

(* delete as, and with it its handler.                                     *)
CleanDelete(t) ==
  /\ Go(t, "clean_delete", "idle")
  /\ fault' = IF as[t] \in live THEN fault ELSE "deleted twice"
  /\ live' = live \ {as[t]}
  /\ deleted' = deleted \cup ({Handler[as[t]]} \ {0})
  /\ UNCHANGED <<sth, pTTsStreamer, play_thread, Handler, created, client,
                 session_table, callVars, as, hd, commands, reads, outcome>>

(* forkzstream_start with the command stop.                                *)
StopCommand ==
  /\ call = "up" /\ commands < MaxCommands
  /\ Go("session", "idle", "clean")
  /\ commands' = commands + 1
  /\ UNCHANGED <<sth, pTTsStreamer, objects, session_table, callVars, as, hd,
                 reads, fault, outcome>>

-----------------------------------------------------------------------------
(* The call ends; the hangup event is queued for the event thread.         *)
Hangup ==
  /\ Running /\ call = "up"
  /\ call' = "hangup"
  /\ hangup' = IF HangupEvents THEN "queued" ELSE hangup
  /\ UNCHANGED <<sth, pTTsStreamer, objects, session_table, bug, pc, as, hd,
                 commands, reads, fault, outcome>>

(* switch_event_callback: the table still holds the session, alive or not. *)
HangupEvent ==
  /\ hangup = "queued"
  /\ hangup' = "handled"
  /\ Go("event", "idle", IF session_table THEN "clean" ELSE "idle")
  /\ UNCHANGED <<sth, pTTsStreamer, objects, session_table, bug, call, as, hd,
                 commands, reads, fault, outcome>>

BugCloseOnly ==
  /\ call = "hangup" /\ bug = "attached"
  /\ pc["media"] = "idle" /\ pc["play"] = "idle"
  /\ bug' = "closed"
  /\ Go("session", "idle", "idle")
  /\ UNCHANGED <<sth, pTTsStreamer, objects, session_table, call, hangup, as,
                 hd, commands, reads, fault, outcome>>

(* The session thread removes the bug: SWITCH_ABC_TYPE_CLOSE.  The removal *)
(* waits for a READ callback that is running.  After the cleanup CLOSE     *)
(* joins sth->thread, which nothing ever sets: the module relies on        *)
(* FreeSWITCH's switch_thread_join to return at once for a null thread,    *)
(* and so does this action.                                                *)
CloseBug ==
  /\ call = "hangup" /\ bug = "attached"
  /\ pc["media"] = "idle" /\ pc["play"] = "idle"
  /\ bug' = "closed"
  /\ Go("session", "idle", "clean")
  /\ UNCHANGED <<sth, pTTsStreamer, objects, session_table, call, hangup, as,
                 hd, commands, reads, fault, outcome>>

DestroySession ==
  /\ call = "hangup" /\ bug # "attached"
  /\ call' = "gone"
  /\ Go("session", "idle", "idle")
  /\ UNCHANGED <<sth, pTTsStreamer, objects, session_table, bug, hangup, as,
                 hd, commands, reads, fault, outcome>>

-----------------------------------------------------------------------------
(* SWITCH_ABC_TYPE_READ: asr_feed and tts_session_sendbinary.              *)
Read(t) ==
  /\ bug = "attached" /\ reads < MaxReads
  /\ t = "play" => play_thread # {}
  /\ reads' = reads + 1
  /\ Go(t, "idle", IF sth /\ pTTsStreamer # 0 THEN "send_load" ELSE "idle")
  /\ UNCHANGED <<sth, pTTsStreamer, objects, session_table, callVars, as, hd,
                 commands, fault, outcome>>

SendLoad(t) ==
  /\ Go(t, "send_load", "send_handler")
  /\ Load(t)
  /\ UNCHANGED <<sth, pTTsStreamer, objects, session_table, callVars, hd,
                 commands, reads, fault, outcome>>

SendHandler(t) ==
  /\ Go(t, "send_handler", "send")
  /\ hd' = IF as[t] \in live THEN Handler[as[t]] ELSE 0
  /\ fault' = IF as[t] \notin live THEN "streamer freed"
              ELSE IF hd' = 0 THEN "no handler" ELSE fault
  /\ UNCHANGED <<sth, pTTsStreamer, objects, session_table, callVars, as,
                 commands, reads, outcome>>

(* sendbinary asks isConnected first, and that calls get_con_from_hdl      *)
(* through tts_client.  Through a null tts_client that is undefined, and   *)
(* may go well: without a connection the call ends in an exception that    *)
(* isConnected catches.                                                    *)
Send(t) ==
  /\ Go(t, "send", "idle")
  /\ \/ hd \in deleted /\ fault' = "handler deleted"
     \/ hd \notin deleted \cup client /\ fault' = "no client"
     \/ hd \notin deleted /\ UNCHANGED fault
  /\ UNCHANGED <<sth, pTTsStreamer, objects, session_table, callVars, as, hd,
                 commands, reads, outcome>>

-----------------------------------------------------------------------------
StartStep ==
  \/ InitSession \/ NewStreamer \/ AddBug
  \/ Text \/ TextLoad \/ TextStop \/ TextJoined \/ TextPlay \/ TextCreate
  \/ TextClient

CleanStep(t) ==
  \/ CleanTest(t) \/ CleanLoad(t) \/ CleanNull(t)
  \/ CleanStop(t) \/ CleanJoined(t) \/ CleanDelete(t)

ReadStep(t) == SendLoad(t) \/ SendHandler(t) \/ Send(t)

TearDown == CloseBug \/ DestroySession

Next ==
  \/ Start \/ StopCommand \/ StartStep \/ Hangup \/ HangupEvent \/ TearDown
  \/ \E t \in {"session", "event"} : CleanStep(t)
  \/ \E t \in Readers : Read(t) \/ ReadStep(t)

Spec == Init /\ [][Next]_vars

(* A call that was begun goes on, a hung up session is torn down, and the  *)
(* event thread handles its queue.                                         *)
Fairness ==
  /\ WF_vars(StartStep \/ CleanStep("session") \/ ReadStep("session"))
  /\ WF_vars(TearDown)
  /\ WF_vars(HangupEvent \/ CleanStep("event"))
  /\ WF_vars(ReadStep("media")) /\ WF_vars(ReadStep("play"))

FairSpec == Spec /\ Fairness

-----------------------------------------------------------------------------
Labels == {"idle", "init", "new", "add_bug", "text", "text_load", "text_stop",
           "text_joining", "text_play", "text_create", "text_client", "clean",
           "clean_load", "clean_null", "clean_stop", "clean_joining",
           "clean_delete", "send_load", "send_handler", "send"}

Faults == {"no", "streamer freed", "joined twice", "deleted twice",
           "session freed", "no handler", "handler deleted", "no client"}

(* The program counters, pointers and counters stay in their ranges; there *)
(* is never a pointer to a streamer or handler that was not created.       *)
TypeOK ==
  /\ sth \in BOOLEAN
  /\ pTTsStreamer \in Pointers
  /\ live \subseteq Ids /\ play_thread \subseteq Ids
  /\ Handler \in [Ids -> Pointers]
  /\ deleted \subseteq Ids /\ client \subseteq Ids
  /\ session_table \in BOOLEAN
  /\ bug \in {"none", "attached", "closed"}
  /\ call \in {"up", "hangup", "gone"}
  /\ hangup \in {"none", "queued", "handled"}
  /\ pc \in [Threads -> Labels]
  /\ as \in [Threads -> Pointers]
  /\ hd \in Pointers
  /\ created \in 0..MaxCommands
  /\ commands \in 0..MaxCommands /\ reads \in 0..MaxReads
  /\ fault \in Faults
  /\ outcome \in {"none", "no memory", "no streamer", "no client", "rejected",
                  "connecting"}

(* What pTTsStreamer points to exists: every deletion is preceded by the   *)
(* store of null, and no start publishes a second streamer in between.     *)
PublishedIsLive == Running => pTTsStreamer \in {0} \cup live

(* No streamer is lost: one that exists is published, or a thread that     *)
(* cleans up is about to delete it.                                        *)
Deleting(t, o) ==
  as[t] = o /\ pc[t] \in {"clean_null", "clean_stop", "clean_joining",
                          "clean_delete"}

NothingLeaks ==
  Running =>
    \A o \in live : o = pTTsStreamer \/ \E t \in Threads : Deleting(t, o)

(* Without the hangup event the playing thread of a streamer is joined     *)
(* before the streamer goes: destroying a joinable std::thread ends the    *)
(* process.  CallsFollow says it for TLC.                                  *)
JoinedBeforeDeleted == Running => play_thread \subseteq live

(* Commands and audio on the session thread alone never touch a streamer   *)
(* or handler that is gone or not there yet, in whatever order they come.  *)
(* The one thing that goes wrong is audio for a handler without a client,  *)
(* and only while the start that made the handler is the last one: what a  *)
(* failed start leaves behind, the next one or a stop replaces.            *)
AloneIsSafe == fault = "no" \/ (fault = "no client" /\ outcome = "no client")

(* When the call ends its streamer is deleted.                             *)
HangupFrees == call # "up" ~> live = {} \/ ~Running

-----------------------------------------------------------------------------
(* The streamer of the call as its owner sees it; a call has one at most.  *)
Stage ==
  IF created > 0 /\ live = {} THEN "gone"
  ELSE IF pc["session"] \in {"text_joining", "text_play"} THEN "starting"
  ELSE IF pc["session"] = "text_create" THEN "creating"
  ELSE IF pc["session"] \in {"clean_joining", "clean_delete"} THEN "deleting"
  ELSE "idle"

HandlerInCharge == IF live = {} THEN 0 ELSE Handler[created]

Life == INSTANCE StreamerLife
  WITH MaxHandlers <- MaxCommands, stage <- Stage,
       playing <- play_thread # {}, handler <- HandlerInCharge,
       deleted <- deleted

(* Without the hangup event, whoever reads audio, the calls on a streamer  *)
(* follow one another as TTsStreamer takes for granted: its playing thread *)
(* is joined before another one is started and before it is deleted, and   *)
(* once it is deleted nothing is done with it.                             *)
CallsFollow == Life!Spec

-----------------------------------------------------------------------------
(* The next formulas say what the documentation promises and the code does *)
(* not do.  StartPlays takes three commands on the session thread alone;   *)
(* OneDeletion and SessionKept take two and the hangup event; ReadIsSafe   *)
(* takes two and the reader "play".                                        *)

(* start starts playback, unless memory is short.                          *)
StartPlays == outcome # "no streamer"

(* Hangup handling and the other threads do not get into each other's way. *)
OneDeletion == fault \notin {"joined twice", "deleted twice"}

(* Audio that is read finds the streamer and the handler it is for.        *)
ReadIsSafe == fault \notin {"no handler", "handler deleted", "no client"}

(* The hangup handler finds the session it looks up.                       *)
SessionKept == fault # "session freed"
=============================================================================
