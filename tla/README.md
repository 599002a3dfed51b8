# A TLA+ model of mod_forkzstream

`mod_forkzstream` is a FreeSWITCH module.  For one call it opens a websocket
connection, sends the caller's audio to the peer (ASR) and plays the audio the
peer sends (TTS).  The module is small, but four to five threads work on every
call without a common lock, and most of what can go wrong depends on their
order.  The models here are about that order; audio samples, JSON texts and
logging are left out.

## 1. The system

### Components

| Component | Code | State | Operations | Hard part |
|---|---|---|---|---|
| audio queue | `WavDataQueue.h` | `buffer_`, `buffer_size_`, `max_capacity_`, `is_finished`, a mutex, two condition variables | `push`, `pop`, `try_pop`, `last_pop`, `clear`, `set_max_capacity` | notifications after the unlock, a flag written without the mutex |
| streamer and playing thread | `TTsStreamer` in `forkzstream.cpp` | `thread_run`, `is_interrupt`, `ttsQueue`, `Handler`, `play_thread` | `stop_play_thread`, `start_play_tts_thread`, `create_stream`, `z_play_thread`, `eventTtsCallback` | three kinds of threads share flags and the handler pointer |
| websocket handler | `WebSocketHandler.h`, `IHandler.h` | client, connection, `worker_thread`, `is_cancelled`, `is_tts`, `is_asr` | `startHandler`, `handleCmd`, `cancel`, `disconnect`, `sendbinary`, `writeText`, the websocket callbacks | callbacks run on the worker, and the close handler on whoever calls `terminate` |
| handler factory | `HandlerFactory.*` | none | `create` | - |
| call lifetime | `mod_forkzstream.c`, the `tts_session_*` functions of `forkzstream.cpp` | the channel's private handle `sth` with `pTTsStreamer`, `session_table`, the media bug | `start`, `stop`, the hangup event, `CLOSE` and `READ` of the media bug | several threads test, load and clear one pointer |
| command line parser | `forkzstream_start`, `parse_command_line`, `cat_last_n` | none | - | missing arguments, blanks inside the parameters |
| parameters | `create_stream`, `startHandler`, `parseParam`, `handleJson` | none | - | which keys are mandatory |
| url checks | `is_valid_websocket_url`, `validate_ip`, `validate_port` | none | - | never called |
| resampling, codec, volume | `asr_feed`, `z_play_thread` | none that matters | - | data only |
| events | `eventTtsCallback`, `forkzstream_event_callback` | none | - | fired by any thread, in any order |
| load and unload | `mod_forkzstream_load`, `_shutdown` | the table | - | one step each |

### How they interact

* The **session thread** of FreeSWITCH runs the application `forkzstream`.
  `start` enters the session in `session_table`, allocates the handle and the
  streamer, adds the media bug, and calls `tts_session_text`, which stops the
  old playing thread, starts a new one and creates the handler.  `stop` calls
  `tts_session_cleanup`.
* The **playing thread** takes frames from the queue and writes them to the
  channel.  When its loop ends it calls `Handler->cancel()`.
* The **worker** of a websocket connection runs the handlers of websocketpp.
  Binary messages go into the queue, text messages are commands; the commands
  `ttsstop_clean` and `ttsstop_only` call back into the streamer
  (`is_interrupt`), the fail and close handlers call back with `"error"`, which
  clears `thread_run`.
* The **event thread** runs `switch_event_callback` at hangup, which finds the
  session in the table and calls `tts_session_cleanup`.
* The **media bug** calls `media_callback` on whichever thread reads a frame of
  the channel (session thread, playing thread, or the service thread that
  `switch_core_service_session` starts when the channel has a `timer_name`);
  `READ` ends in `WebSocketHandler::sendbinary`, `CLOSE` in
  `tts_session_cleanup`.

### What makes each component correct

* Queue: the counter is the length of the deque; bytes come out once and in
  order; nobody sleeps whose condition holds; the capacity is kept; the end of
  an utterance is reported once, after its last byte.
* Streamer and handler: one connection at a time feeds the queue; audio of an
  old start is not heard after that of a new one; an interrupt or a stop takes
  effect within a frame; every start and every cleanup returns; the end of a
  connection ends its playing thread; nobody uses a handler that is null or
  freed.
* Handler: the peer learns first which call this is; `asrstop` holds back the next
  frame; whoever ends the connection, the session hears of it once.
* Call: the published streamer exists; it is deleted once, after its thread is
  joined, and always after a hangup; a start starts.
* Module: a command means the same whatever went before; calls do not disturb each
  other; parameters arrive as they were written.

`PROJECT.json` lists under `hazards` each place in the code where one of these
could go wrong, and the properties that watch it.

## 2. Modules

| Module | Models | Used by |
|---|---|---|
| `ByteStream` | abstract: what the queue promises its users | `WavDataQueue` implements it |
| `WavDataQueue` | the queue, byte by byte | `MCWavDataQueue`, `WavDataQueueProofs` |
| `MCWavDataQueue` | which methods an instance uses | the `queue_*` runs |
| `WavDataQueueProofs` | theorems, the refinement of `ByteStream` among them | |
| `AudioPath` | abstract: what a streamer promises about the audio of a call | `TTsStreamer` implements it |
| `StreamerLife` | abstract: a streamer as its owner sees it | `ForkSession` and `TTsStreamer` implement it |
| `TTsStreamer` | streamer, playing thread, the handlers and their workers | the `streamer_*` runs |
| `TTsStreamerProofs` | theorems, among them the invariants of `streamer_starts` | |
| `TTsStreamerRefinement` | theorems: the refinements of `AudioPath` and `StreamerLife`, what can be met after a deletion | |
| `WebSocketHandler` | one handler: what is sent to the peer, what the session is told | `handler_talk`, `WebSocketHandlerProofs` |
| `WebSocketHandlerProofs` | theorems, among them the invariants of `handler_talk` | |
| `ForkSession` | one call: handle, pointer, table, bug, hangup, thread by thread | the `session_*` runs |
| `ForkSessionProofs` | theorems, the refinement of `StreamerLife` among them | |
| `ModForkzstream` | the module: load, unload, command lines, parameters, table, several calls | `MCModForkzstream` |
| `ModForkzstreamProofs` | theorems about command lines and about the module | |
| `WsUrl` | the url checks as operators | `MCModForkzstream` |
| `MCModForkzstream` | command lines and urls of an instance | `module_commands`, `WsUrlProofs` |
| `WsUrlProofs` | theorems: the url check agrees with its comment | |
| `NumberFacts` | lemmas: least elements, induction over sets of numbers | the two proof modules above |

The models are levels of one system.  `ModForkzstream` sees several calls and
takes what a command or an event does as one step.  `ForkSession` takes one call
and splits these steps: it sees of a streamer that it exists, that it has a
joinable playing thread, and which handler it points to.  `TTsStreamer` sees one
streamer from the inside and takes the application's calls (start, deletion) as
given, one at a time; `WebSocketHandler` does the same for one of its handlers,
where `TTsStreamer` has only what concerns the audio and the playing thread.
`TTsStreamer` uses of the queue the atomic steps `WavDataQueue` justifies: an
atomic `push` and `clear`, and a `try_pop` whose reset of the end flag is a step
of its own.

### Conventions

* A critical section, an atomic load or store, or a call that only this thread
  can see is one action.  Where the code reads a shared pointer or flag and uses
  it later, the read and the use are two actions.
* Locals and program counters are variables (`pc`, `app`, `play`, `worker`); a
  label names what the thread does next.
* Undefined behaviour and `std::terminate` set `fault` and end the run: what
  happens after it is not asserted.  `Running` is `fault = "no"`.
* Variables marked "history" record what properties need, those marked "bound"
  keep the state space finite; nothing else reads them.
* Definitions whose name begins with `Bug` are not part of the model.  Each is a
  plausible mistake in the definition after it, kept to show that a property
  can fail.

### `WavDataQueue`

A byte is its position in the order of insertion, so order and loss can be
stated.  `Push`, `Pop`, `TryPop`, `TryPopFinished`, `LastPop`, `Clear` and
`SetMaxCapacity` are the locked parts of the methods; `PushNotify`, `PopNotify`
and `FinishReset` what happens after `lock.unlock()`; `PushRetry`, `PopRetry`
the return from a wait, `SpuriousWake` a wake-up without notification.  `push`
with size 0 is `PushEnd`.  `Methods` restricts an instance to the calls its users
make: the module itself only uses `push`, `try_pop` and `clear`.  `save_file`,
`size` and `empty` change nothing and are left out.

`PoliteSpec` is the same queue with a peer that sends the next utterance only
after the end of the last one was reported to it (the text `detect_end`).  That is
an assumption about the peer: nothing in the module enforces it, and
`queue_end_lost` shows what happens without it.  Under it the queue implements
`ByteStream` (`IsByteStream`): bytes, their order, and the end of an utterance
between its last bytes and the first of the next.  The mapping takes an end for
reported as soon as `try_pop` has decided so (`NobodyResets`), before
`is_finished` is cleared.

### `TTsStreamer`

The k-th start creates handler k, its connection and its worker.  A frame is
the number of the connection it came from, which is all the properties need.

* Application thread: `StopPlayThread` (`thread_run = false`), `JoinPlay`,
  `ClearAfterJoin`, then for a start `SpawnPlay`, `CreateHandler`, the
  destructor of the replaced handler (`DropStop`, `DropTest`, `DropTerminate`,
  `DropCallback`, `DropJoin`), `StartHandler`, `Connect`, `SpawnWorker`,
  `AssignWorker`; `ParseFails` and `UrlRejected` are its error exits.  For a
  deletion the destructor of the handler follows `ClearAfterJoin`.
* Playing thread: one action for each read of shared state in `z_play_thread`:
  `LoopTest`, `TryPop`, `FinishReset`, `TestInterrupt`, `WriteFrame`,
  `DetectEnd`, `DetectSend`, and at the end `Cancel`, `CancelStop`, `CancelTest`,
  `CancelTerminate`, `CancelCallback`.  `PlayGivesUp` stands for missing media,
  codec or timer, `WriteFails` for a failed write; the failed read after a write
  is `WriteFrame` too.
* Workers: `Open`, `PeerCloses` (the close frame has come, the connection is
  "closing"), `Lose` and `WorkerError` (fail or close handler), `Message` with `Push`,
  `TtsStart`, `InterruptClean`, `Interrupt`, `TtsOff`, `CloseStop`, `CloseTest`,
  `CloseTerminate`, and `WorkerExit`.  Lost or reordered messages are not
  modelled: the connection is TCP.  The peer may send anything in any order and
  close or fail at any time.
* `disconnect` stops the service, tests whether the connection is open, and
  terminates it: three steps, on each of the three threads that call it.
  A connection that is closing is not open, so nobody terminates it.
* `terminate` of websocketpp runs the close handler on the calling thread unless
  the connection is closed already; that it tests and sets the state in one step,
  also against the worker, is assumed.  The
  model therefore has the error callback on the application thread
  (`DropCallback`) and on the playing thread (`CancelCallback`) too.
* `totoalloop` (100000 in the code) is the constant `LoopBudget`.
* A message is read by a callback of its own, so none is handled after
  `tts_client->stop()`.  `WebSocketHandler` does not make that simplification.
* The open handler stores the connection in the step that opens it, and a call
  through a handler without a client finds no connection.  In `WebSocketHandler` the
  store is a step of its own and the call may also fail.

`StreamerLife` is the streamer as its owner sees it: a call under way, a playing
thread that was not joined, the handler in charge and those deleted.  It is where
`ForkSession` and `TTsStreamer` meet.  `ForkSession` makes the calls (`CallsFollow`, as
long as the hangup event stays away), `TTsStreamer` takes for granted that they
follow one another and says what goes on inside them (`IsStreamerLife`).  A handler
counts as replaced when its destructor has returned; making a streamer is not seen,
nor is what `create_stream` does after it has a handler.

`AudioPath` is the streamer as the caller hears it: connections that follow one another,
frames on their way, heard in order or dropped, and a clear that leaves at most
the frame the player holds.  `IsAudioPath` maps the workers to connections
(`Line`) and the frame in hand together with the queue to the frames on their way
(`Hand`).

### `WebSocketHandler`

A method of the handler is the list of calls it makes; `todo[t]` holds what thread
`t` has left of it, and each call is a step, so the four threads interleave
between `isConnected` and `send`, inside the open handler and inside
`disconnect`.  The application thread runs `startHandler` (`Parse`, `ResetClient`,
`Connect`, `RunWorker`), the worker the callbacks (`Open`, `StoreHandle`,
`PeerCloses`, `Lose`, `Message`, `SetFlag`), the media thread `sendbinary` (`Read`, `TestAsr`), the
playing thread `writeText` and `cancel` (`DetectEnd`, `Finish`).  `IsConnected`,
`Send`, `Fire`, `Disconnect`, `TestOpen` and `Terminate` belong to whoever calls them;
of `Terminate` the same is assumed as in `TTsStreamer`.  `Fire`
is `eventTtsCallback` with `forkzstream_event_callback`: it counts the events a
session gets.  The texts are names (`ids` for the JSON of `writeTTsJson`, `garbage`
for what it sends with an empty `callId`), `wire` is the set of those the peer
got.  `asr_feed` never resamples, because it is given equal rates, and passes the
frame on.

### `ModForkzstream`, `WsUrl`

Command data are sequences of tokens: blanks, words, braces and the names of JSON
keys.  `Words` is `switch_split` at blanks, without its quotes and escapes: the
k-th word is the part of the data from the k-th place where a token follows a
blank (`WordStart`) to the next blank (`WordEnd`).  `CatLastN` and
`parse_command_line` are the functions of that name, with the `argc` of 5 their
caller passes; a word that is not there is null.  `Written` is the text as it
stands in the data, from the fifth word to the last.
`KeysOf`, `Has` and `CreateStream` are `create_stream` and `startHandler` as far as
parameters decide what happens.  `NoCommand`, `Refused`, `StartLost`, `StartShort`,
`StartStream` and `Stop` are the ways through `forkzstream_start`; `HangupEvent`,
`CloseBug`, `Load` and `Shutdown` the other entries of the module.  What a null
pointer reaches ends the run with `fault`.  `bug` is the media bug: it may not have
been added, which the code ignores (`InitSession`), and without it a session is
destroyed without the cleanup of `CLOSE` (`CloseBug`).  A hangup or a `CLOSE` while the
module is unloaded is not modelled.

`WsUrl` has the three url functions over urls of tokens; a run of digits is one
token with the value `strtol` reads, split into its lower 32 bits and the rest, as
the cast to `int` does; `strtol` skips blanks and takes either sign.  Tokens have a
width, so that a host may not fit its buffer of 256 characters (`FitsHost`); the
buffer for an address in brackets makes no difference, because `validate_ip` refuses
every address.
`WellFormed` states what the comment of `is_valid_websocket_url` promises, `Plain`
the urls for which the code agrees with it: the host is not empty and fits, no colon
stands in the path, no blank and no plus before the port, and the numbers fit into
an int.  `MCModForkzstream` grows the urls token by token.

### `ForkSession`

Each test, load and store of `pTTsStreamer` is a step: `CleanTest`, `CleanLoad`,
`CleanNull`, `CleanStop`, `CleanJoined`, `CleanDelete` for `tts_session_cleanup`
on the session or the event thread; `Text` to `TextClient` for
`tts_session_text`; `Read`, `SendLoad`, `SendHandler`, `Send` for a `READ`
callback, on the threads the constant `Readers` names.  `InitSession` has the
early return for an existing handle and the failed allocation; `AddBug` the
failure of `switch_core_media_bug_add`, which the code ignores.  `TextCreate` replaces
the handler, `TextClient` is the rest of `create_stream` with `startHandler`: a missing
key is an exception that is caught and leaves the handler without a client, a
rejected url leaves it with one.  `Send` through a handler without a client is
undefined; both outcomes are there, the fault and the call that finds no
connection.  `Hangup` and
`DestroySession` are FreeSWITCH's.  Removing the bug waits for `READ` callbacks
that are running (FreeSWITCH holds the bug lock), so `CloseBug` waits for the
other readers.  After its cleanup `CLOSE` joins `sth->thread`, which nothing ever sets
(`mod_forkzstream.c:125`); the models assume that FreeSWITCH's `switch_thread_join`
returns for a null thread.  The handler type is always `ws` here; other types are in
`TTsStreamer`.  All joins end when the playing thread is not inside a `READ`
callback; that they end at all is `CallsReturn` in `TTsStreamer`.

## 3. Runs

| Run | Expected | Shows |
|---|---|---|
| `queue_api` | pass | all methods, 2 producers, 2 consumers, limit 0 or 2, 4 bytes: `TypeOK`, `BufferIsTail`, `NoLostWakeupPop`, `HandsOutOldest`, `CapacityRespected`, `SleepingConsumerWakes` |
| `queue_notify` | pass | without `last_pop` and `pop`, with ends of utterances, one consumer and a peer that waits for their report: no producer sleeps although its data fits (`NoLostWakeupPush`), no end is reported that was not pushed (`NoPhantomEnd`), every end is reported (`EndReported`), the queue implements `ByteStream` (`IsByteStream`) |
| `queue_end_lost` | violation | `EndMarkKept`: the late reset in `try_pop` wipes out an end mark |
| `streamer_starts` | pass | two starts with either handler type, four messages: `StaleAtMostOne`, `StopIsPrompt`, `InterruptIsPrompt`, `ClosedStopsPlay`; only the handler just replaced is met after its deletion (`OnlyReplacedDangles`) |
| `streamer_returns` | pass | two starts of type `ws`, two messages: the streamer implements `AudioPath` (`IsAudioPath`: one connection at a time, heard in order) and `StreamerLife` (`IsStreamerLife`: joined before it is started again or deleted, each handler deleted once); once a start has its connection, only a stop or that connection's end turns its playing off (`OwnEndOnceConnected`); a null handler is met only while the first start creates it (`NullOnlyWhileCreating`); under thread fairness starts and deletions return (`CallsReturn`) and the end of a connection turns playing off (`EndTurnsOffPlay`) |
| `streamer_resume` | violation | `TtsStartPlays`: after one `ttsstop` nothing is heard again |
| `session_lifetime` | pass | all threads: `PublishedIsLive`, `NothingLeaks`, and every hangup frees the streamer (`HangupFrees`) |
| `session_alone` | pass | session thread alone, four commands: audio for the handler of a failed start, as long as that start is the last, is the one undefined behaviour (`AloneIsSafe`), and the module calls its streamer as `StreamerLife` says (`CallsFollow`) |
| `session_race` | violation | `OneDeletion`: two cleanups join or delete the same streamer |
| `session_restart` | violation | `StartPlays`: start, stop, start: the second start does nothing |
| `handler_talk` | pass | one handler, four threads, three messages, two frames: when there is a `callId`, the identifiers before everything but `no_asr` and `detect_end` (`IdsFirst`), at most one frame after `asrstop` (`AsrStopIsPrompt`), one error and at most one event after it (`EndIsHeardOnce`), and always an error when the connection ended, or begins to close and no cancel stops the service (`EndIsReported`) |
| `module_commands` | pass | two calls, three complete or broken commands, hangups, reload, all urls of up to four tokens: parameters arrive as written (`ParamsAsWritten`), when the process ends, the command under way was broken (`FaultIsBadCommand`), a start connects exactly when its parameters are complete (`ConnectsWhenComplete`), a streamer outlives its call only where the event did not find it and no bug was added (`OutlivesOnlyUnseen`), hangups spare other calls (`HangupSparesOthers`), the url check agrees with its comment on plain urls (`UrlAgrees`) |

Each violation is an entry of `findings` in `PROJECT.json`, with the sentence of
the documentation it contradicts.  The modules state further formulas that TLC
refutes within seconds; they are no runs, but say what goes wrong where:

| Formula | Refuted with | What the code does |
|---|---|---|
| `WavDataQueue!EndNotOvertaken` | the constants of `queue_end_lost` | the next utterance overtakes the end of the first |
| `WavDataQueue!NoLostWakeupPush` | `queue_notify` with `last_pop`, or with two limits | `last_pop` and a raised limit notify no producer |
| `TTsStreamer!OwnEndOnly` | `streamer_starts` | the end of the replaced connection turns off the playing thread of the start that replaces it |
| `TTsStreamer!StartHasHandler` | the constants of `streamer_resume` with `Types = {"websocket"}` | the documented type creates no handler, and `startHandler` is called through null |
| `TTsStreamer!CancelHasHandler` | the constants of `streamer_resume` | `cancel` through a null handler when the playing thread ends first |
| `TTsStreamer!HandlerKept` | `streamer_starts` | `cancel` or `detect_end` through a handler being replaced |
| `TTsStreamer!CancelEnds` | the constants of `streamer_returns` | `cancel` before `worker_thread` is assigned is lost |
| `WebSocketHandler!IdsAreFirst` | `handler_talk` | the media thread's "no_asr" is sent between the store of the handle and the identifiers |
| `WebSocketHandler!NoGarbage` | `handler_talk` | with an empty `callId` an uninitialised buffer is sent |
| `WebSocketHandler!HasClient` | `handler_talk` | audio read before `tts_client` exists goes through null |
| `WebSocketHandler!ErrorIsLast` | `handler_talk` | the playing thread ends a connection inside the open handler; "connected" follows the error |
| `WebSocketHandler!SaysBye` | `handler_talk` | "connect closed!" is written when the connection is closed already |
| `ForkSession!ReadIsSafe` | two commands, two reads, `Readers = {"play"}` | audio is sent through a null or deleted handler; with `Readers = {"session"}` through one without a client |
| `ForkSession!SessionKept` | the constants of `session_race` | the hangup handler uses a session that is gone |
| `ForkSession!HangupFrees` | `session_lifetime` with `BugOutcomes = {FALSE}` | without the media bug an early hangup leaks the streamer |
| `ModForkzstream!HangupCleans` | `module_commands` | the event finds nobody when the first word of the command is not the uuid |
| `ModForkzstream!GoneIsClean` | `module_commands` | nor does `CLOSE` come when the media bug was not added: the streamer stays |
| `ModForkzstream!ShutdownStops` | `module_commands` | playing threads outlive the module |
| `ModForkzstream!PlaysConnected` | `module_commands` | a start with a missing key leaves a playing thread without a connection |
| `ModForkzstream!ParamsKept` | `module_commands` | a run of blanks inside the parameters becomes one |

What the repository's own documentation says and the code does otherwise, seen
while modelling and no run: the form `forkzstream start <reqid> websocket <params>`
of its README works only with one more word in front of `start`, because the first
word is taken for the key of the table; `text` is called optional there and is
mandatory; the events `mod_forkzstream::connect` and its like are declared and
never fired.  `is_valid_websocket_url` accepts an empty host, white space or a plus
before the port and ports whose lower 32 bits are a port, and refuses hosts of more
than 255 characters, a colon in the path and every address in brackets.

### Bounds

* Queue: chunks of 1 and 2 bytes with a limit of 2 and 4 bytes make every
  combination of "fits", "fits after one removal" and "does not fit", both
  producers waiting included; two threads on each side are what `notify_all` against `notify_one` needs.
* Streamer: two starts are needed for a replaced handler; four messages are
  `ttsstart`, two frames and an interrupt, or any other mixture; a loop budget of
  2 lets the playing thread pop, wait and run out, and play twice after an
  interrupt if it did not look.
* Handler: three messages are a switch, its opposite and a frame or `close`; one
  frame is tested before `asrstop` and one after.  A connection is opened once.
* Commands: two calls are one that hangs up and one that should not notice, one
  with its uuid as the key and one without; the first tries every form of command,
  the second has four, enough for what calls can do to each other; the parameter texts are complete, one
  key short, a bare url, empty, cut off, and with blanks inside.  A url of four
  tokens has room for a host, a colon, a port and a path, in any order.
* Call: three commands are start-stop-start and start-start-stop; the second and
  later starts differ only in the number of the handler.  Two frames are one for
  each reading thread; `reads` bounds frames, not the order they come in.

Deadlock checking is on for the queue.  It is off for the streamer, the handler,
the call and the module, which stop when the call is over.

### Fairness

In `queue_notify` the consumer keeps calling `try_pop`, as the playing thread does
once per tick while it plays.  In `handler_talk` a thread inside a method of the
handler goes on; nobody has to call one.  Elsewhere, weak fairness is asked of threads inside a call (application, playing thread,
workers, event thread) and of the teardown FreeSWITCH does after a hangup.  The
peer, the caller and the network owe nothing: `Open`, `PeerCloses`, `Lose`, `Message`,
`Hangup` and new commands are not fair; in `handler_talk` alone a connection that is
closing is closed in the end (`Lose`), because websocketpp waits for the peer's part of
the closing handshake for a bounded time.  The joins are guards, so fairness does not hide a
join that waits for ever.

## 4. Proofs

`WavDataQueueProofs` (for any sets of threads, sizes, capacities and methods):

* `TypeCorrect`, `QueueIsTail`: the inductive invariant `IInv` joins the types to
  `BufferIsTail`; without it `buffer_size_ - n` could leave `Nat`.
* `OldestFirst`, `CapacityKept`: action properties from `IInv`.
* `PopWakeups`: `NoLostWakeupPop` is inductive together with `IInv`: only an
  insertion can make a sleeper's condition true, and it goes to `push_notify`.
* `PushWakeups`: the same for producers, under the assumption `RoomIsAnnounced`:
  no `last_pop`, and no two different limits.  Both exclude calls that make room
  without notifying; the module makes neither.
* `EndsArePushed`: `NoPhantomEnd`, an end in the flag or about to be reported was
  pushed.
* `EndsAreKept`, `EndsInOrder`, `QueueIsStream`: for `PoliteSpec`.  `PoliteInv` says
  that an unreported end is the last thing pushed and still has its flag, that
  none is left while the flag is being cleared, and that nobody waits in `push`
  meanwhile.  `QueueIsStream` is the refinement: each action is a step of
  `ByteStream` or none.

`ForkSessionProofs` (for any number of commands and reads):

* `TypeCorrect`, `PointerIsSound`, `NoStreamerIsLost` hold whatever threads take
  part.  The invariant `LifeInv` says why: a streamer is made only together with
  `sth`, so there is at most one in a call (`OneStreamer`); a thread between its
  test and its deletion knows that one was created, and after its store of null
  that the pointer is null (`CleanersKnow`).
* `SafeAlone` assumes `Alone`: no other reader and no hangup event.  `AloneInv` adds
  that what the session thread loaded is what `sth` points to (`Current`), that the
  handler it points to is not a deleted one (`HandlerIsCurrent`), and that it has a
  client unless the last start failed (`ClientIsKnown`).
* `CallsInOrder`, `JoinedFirst` assume `OneOwner`: no hangup event, while any threads
  may read audio.  `CallsInOrder` is the refinement of `StreamerLife` (`CallsFollow`).
  `OwnerInv` says which streamer the session thread works on at each step and where
  its playing thread is (`OwnerKnows`), and that the handler a start makes has a
  number later than all before it (`Numbered`).  A second streamer is never made
  (`OneStreamer`), so after the deletion nothing more is seen.

With the constants of `session_race`, which have the hangup event, TLC refutes all three;
the formula `ReadIsSafe` shows that `SafeAlone` does not hold with other readers.

`TTsStreamerProofs` (for any number of starts, messages and loop turns, and any
type arguments).  All follow from one inductive invariant, `IInv`:

* `OneConnection`: a live worker belongs to the handler in charge, which is the
  replaced one until its destructor has joined (`Owned`, `Places`).
* `HeardInOrder`: the frame written last, the frame in hand and the queue are in
  the order of the starts, and only the handler in charge appends (`Order`).
* `FewStale`: a silenced connection is stopped and receives nothing more; since
  one worker at most is alive, one push at most is still under way when the
  queue is cleared (`Joined`, `Silent`, `StaleBound`).
* `InterruptedAtOnce`, `StoppedAtOnce`: how many frames may still be written at
  each step of the playing thread (`LateBound`, `StopBound`).
* `CloseEndsPlay`: `ClosedStopsPlay` is inductive once it is known that a handler
  that was never in charge has no connection (`Dealt`).
* `TypeCorrect`.

`TTsStreamerRefinement` goes on from there:

* `StreamerIsPath`: the refinement of `AudioPath`, one lemma per group of actions.
  `RInv` adds to `IInv` that the playing thread holds a frame where `Hand` says so,
  and that a connection is made on a fresh handler, later than all before it.
* `EndsAreOwn`: `OwnEndOnceConnected`.  It needs `Accounted` beside the same invariant:
  whatever has a connection is the handler in charge or deleted, so a playing thread
  that ends another one's connection goes through a deleted handler.
* `DeletionIsSafe`: `OnlyReplacedDangles`.
* `StreamerHasLife`: the refinement of `StreamerLife`.  The invariant `Dangling` of
  `DeletionIsSafe` is what it needs beside `IInv`: the playing thread has been joined
  when the handler of a deleted streamer goes, and a handler already deleted has a
  smaller number than the one in charge.
* `NullWindow`: with the type `ws` only, a null handler is met in one window, and
  never by a start (`StartHasHandler`).

The proofs go through the actions in ten groups; `QueueSteps` sums up what any
step does to the frames, `TopGrows` what it does to the handler in charge.

`ModForkzstreamProofs` (for any number of calls and commands, and any data):

* `TypeCorrect`: besides the types, no playing thread without a streamer and no
  streamer without a handle.
* `OutlivesUnseen`: `OutlivesOnlyUnseen`, if no call uses the uuid of another as its key
  (`KeysAreOwn`): only a start of its own enters a call in the table, and after the
  hangup there is none.
* `OthersAreSpared`: `HangupSparesOthers`, if no call uses the uuid of another as its
  key (`KeysAreOwn`); the invariant `TableIsOwn` says what that makes of the table.
  With the name of the application as the key, which several calls share, the
  event finds nobody and nobody is harmed.
* `BadCommandsOnly`: `FaultIsBadCommand`, which speaks of the very command that was
  under way; the argument that is null is a word that is not there, because no word is
  empty (`WordsAreWords`), and a start of type `ws` has a handler without a connection.
  That the playing thread may meet a null handler even then is the other model's
  `CancelHasHandler`: here a start is one step.
* `ParamsArrive`, `CompleteConnects`: `ParamsAsWritten` and `ConnectsWhenComplete`.  The
  invariant `TextInv` says the same of the joined words instead of the text as
  written, and `CommandText` closes the gap for data of any length: by induction over
  the turns of `cat_last_n` the text after each turn has the tokens of the data up to
  that word, and is that part of the data, with the blank after it, if its blanks are
  single.  It rests on where words begin and end (`NthFacts`, `WordPlaces`).  So blanks
  inside JSON can be lost but never a token, which is why the keys that are found do
  not depend on them (`KeysDespiteBlanks`).

The hypothesis of `OthersAreSpared` and `OutlivesUnseen` is an `ASSUME` of `MCModForkzstream`, so TLC
evaluates it for the instance.

`WsUrlProofs`: `CommentKept` says that of the `Plain` urls, over any tokens,
`is_valid_websocket_url` accepts exactly the `WellFormed` ones; it says nothing of the
others, among them those whose host does not fit its buffer.  `UrlsAgree`
draws from it the invariant `UrlAgrees` of `MCSpec`, for any bound.  The places the code finds with
`strchr` are least numbers (`StrChrFirst`); the two directions are `AcceptedIsWellFormed`
and `WellFormedIsAccepted`.

Induction over data is done with sets: the theorems of the library take a predicate as
a parameter, which the installed provers cannot instantiate, so `NumberFacts` proves
from the well-foundedness of `<` that every nonempty set of numbers has a least
member (`LeastNumber`) and that a set which holds `a`, and with `k < b` also `k + 1`,
holds all of `a..b` (`SetInduction`).

`WebSocketHandlerProofs` (for any identifiers and any number of messages and frames):

* `TypeCorrect`: `TodoOK` says which calls each thread can have left (`Alphabet`)
  and that a send is next or nowhere (`Shape`), so what is sent is at hand.
* `AsrStops`: `AsrStopIsPrompt`, because the media thread has at most one frame
  past its test of `is_asr` and none once that frame is counted (`AsrInv`).
* `EndHeardOnce`: `EndIsHeardOnce`.  `EndInv` counts the errors still to be fired:
  none while the connection is not closed, one in one thread when it has closed,
  none once one is fired.  The event that may follow is the one of the callback
  the worker was in: a closed connection starts no other.
* `IdsComeFirst`: `IdsFirst`.  Until the identifiers are sent the worker has them as
  its next call or the one after `store` (`NextIsIds`), so it handles no message
  and nobody sets `is_asr`; otherwise the connection is not open.  `NamedInv` says that
  with a `callId` what is sent for them is never the unfilled buffer.

The only assumptions on constants are the `ASSUME`s of the modules: bounds are
numbers, sizes are positive, readers are threads, command data are sequences of
tokens.

Model-checked only: the liveness properties (`SleepingConsumerWakes`,
`EndReported`, `CallsReturn`, `EndTurnsOffPlay`, `HangupFrees`, `EndIsReported`), which
are outside of what the prover handles, and the four violations.

## 5. Not modelled

* `save_file`, `size`, `empty`, `getInstance`, `startsWith`, `trim`, `parseParam`,
  the body of `handleJson` after its first return, `tts_session_stop`,
  `stream_session_send_data` and `tts_read_data`: no caller, or no state.
* Samples, volume, codecs, resampling (never reached), JSON text, logging, event
  texts, the length limits of local buffers (but the host of a url).
* Quotes and escapes of `switch_split`, which is FreeSWITCH's.
* A failed `new` or `std::thread`: the exception leaves the module.
* `is_playback`: written nowhere, read only in unreachable code.  `is_cancelled`:
  written by `cancel`, read nowhere.
* The python test server: a peer used by hand.  The models let the peer send
  anything in any order; `PoliteSpec` alone restricts it.
* Replacing or writing frames in `media_callback`: the bug is added for `READ`
  only.

## 6. Plan

Done, in this order: the queue, the streamer with its handlers, the call, the
proofs about all three; the abstract specifications of queue and streamer with
their refinements, the talk of one handler and its proofs, the module with its
command lines and url checks and their proofs; the streamer as its owner sees it,
implemented by the call and by the streamer.  Next: the connection of one handler as
`TTsStreamer` and `WebSocketHandler` both see it.
