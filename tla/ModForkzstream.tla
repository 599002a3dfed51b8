---------------------------- MODULE ModForkzstream ----------------------------
(***************************************************************************)
(* The module as FreeSWITCH sees it (mod_forkzstream.c): load and unload,  *)
(* the application forkzstream with its command line, the table of the     *)
(* sessions and the hangup event, for several calls.  What a command does  *)
(* is one step here; the steps of the threads it starts and meets are in   *)
(* ForkSession and TTsStreamer.                                            *)
(*                                                                         *)
(* The data of a command is a sequence of tokens; what stands between      *)
(* blanks is a word.  The parameters are a JSON object: "{", the names of  *)
(* its keys, and "}".                                                      *)
(***************************************************************************)
EXTENDS Naturals, Sequences, FiniteSets, SequencesExt

CONSTANTS
  Calls,        \* the sessions, each named as its uuid
  Data(_),      \* the data a call gives to the application
  MaxCommands   \* bound: commands of all calls

ASSUME CommandsAssumption == MaxCommands \in Nat
ASSUME DataAssumption == \A c \in Calls : Data(c) \subseteq Seq(STRING)

VARIABLES
  loaded,         \* the module is loaded
  session_table,  \* key -> session
  call,           \* "up", "hung", "gone"
  sth,            \* the channel has its private handle
  pTTsStreamer,   \* sth has a streamer
  play_thread,    \* the streamer has started its playing thread
  Handler,        \* "none", "idle", "connected", "rejected"
  bug,            \* the media bug was added
  asked,          \* history: data of the last command
  last,           \* history: data of the last command of all calls
  params,         \* history: parameters the last create_stream was given
  commands,       \* bound
  fault

session == <<sth, pTTsStreamer, play_thread, Handler, bug>>
vars == <<loaded, session_table, call, session, asked, last, params, commands,
          fault>>

Init ==
  /\ loaded = FALSE /\ session_table = <<>>
  /\ call = [c \in Calls |-> "up"]
  /\ sth = [c \in Calls |-> FALSE]
  /\ pTTsStreamer = [c \in Calls |-> FALSE]
  /\ play_thread = [c \in Calls |-> FALSE]
  /\ Handler = [c \in Calls |-> "none"]
  /\ bug = [c \in Calls |-> FALSE]
  /\ asked = [c \in Calls |-> <<>>] /\ params = [c \in Calls |-> <<>>]
  /\ last = <<>>
  /\ commands = 0 /\ fault = "no"

-----------------------------------------------------------------------------
Blank == "blank"

(* Where words begin, the k-th of a set of places, and where the word ends *)
(* that begins at i.                                                       *)
Starts(data) ==
  {i \in 1..Len(data) : data[i] # Blank /\ (i = 1 \/ data[i - 1] = Blank)}
Nth(S, k) == CHOOSE i \in S : Cardinality({j \in S : j <= i}) = k
EndFrom(data, i) ==
  CHOOSE j \in i..Len(data) :
    /\ \A m \in i..j : data[m] # Blank
    /\ j = Len(data) \/ data[j + 1] = Blank

WordStart(data, k) == Nth(Starts(data), k)
WordEnd(data, k)   == EndFrom(data, WordStart(data, k))

(* switch_split at blanks; runs of blanks make no empty words.             *)
Words(data) ==
  [k \in 1..Cardinality(Starts(data)) |->
     SubSeq(data, WordStart(data, k), WordEnd(data, k))]

BugJoinsTight(argv, n) == FlattenSeq(SubSeq(argv, n + 1, Len(argv)))

(* cat_last_n: the words from argv[n] on, each but the last with a blank.  *)
CatLastN(argv, n) ==
  LET text[i \in 0..Len(argv)] ==
        IF i <= n THEN <<>>
        ELSE text[i - 1] \o argv[i]
               \o (IF i < Len(argv) THEN <<Blank>> ELSE <<>>)
  IN  text[Len(argv)]

(* parse_command_line.  Its caller passes 5 as argc whatever was given, so *)
(* the tests for missing arguments never hold: an argument that is not     *)
(* there is null.                                                          *)
Arg(argv, i) == IF i < Len(argv) THEN argv[i + 1] ELSE <<>>
Null == <<>>

parse_command_line(argv) ==
  [key |-> Arg(argv, 0), command |-> Arg(argv, 1), reqid |-> Arg(argv, 2),
   type |-> Arg(argv, 3), params |-> CatLastN(argv, 4)]

-----------------------------------------------------------------------------
(* create_stream and startHandler: what the parameters must contain.       *)
StreamKeys  == {"callId", "tenantId", "botid", "fsInstanceId"}
HandlerKeys == StreamKeys \cup {"url", "text"}

(* Parameters that are no object are taken for the url.                    *)
KeysOf(text) ==
  IF text = <<>> \/ text[1] # "{" THEN {"url"}
  ELSE IF text[Len(text)] # "}" THEN {}     \* the JSON does not parse
  ELSE ToSet(text)

Has(text, keys) == keys \subseteq KeysOf(text)

BugKeepsHandler(c, type) ==
  IF type = <<"ws">> /\ Handler[c] = "none" THEN "idle" ELSE Handler[c]

(* Only the type ws makes a new handler; any other goes on with the old.   *)
HandlerOf(c, type) == IF type = <<"ws">> THEN "idle" ELSE Handler[c]

(* A missing key is an exception that is logged and changes nothing.  A    *)
(* start of a handler that is connected replaces the client under its      *)
(* worker.                                                                 *)
CreateStream(c, type, text) ==
  LET h == HandlerOf(c, type) IN
  \/ /\ ~Has(text, StreamKeys) \/ (h # "none" /\ ~Has(text, HandlerKeys))
     /\ Handler' = [Handler EXCEPT ![c] = h]
     /\ UNCHANGED fault
  \/ /\ Has(text, StreamKeys) /\ h = "none"
     /\ fault' = "start through null"
     /\ UNCHANGED Handler
  \/ /\ Has(text, HandlerKeys) /\ h = "connected"
     /\ fault' = "client replaced"
     /\ UNCHANGED Handler
  \/ /\ Has(text, HandlerKeys) /\ h \in {"idle", "rejected"}
     /\ \E outcome \in {"connected", "rejected"} :
          Handler' = [Handler EXCEPT ![c] = outcome]
     /\ UNCHANGED fault

-----------------------------------------------------------------------------
(* The channel of c executes forkzstream with data.                        *)
Executes(c, data) ==
  /\ fault = "no" /\ loaded /\ call[c] = "up" /\ commands < MaxCommands
  /\ commands' = commands + 1
  /\ asked' = [asked EXCEPT ![c] = data]
  /\ last' = data
  /\ UNCHANGED <<loaded, call>>

(* No command: strcmp(argv[1], "start") reads through null.                *)
NoCommand(c, data) ==
  /\ Executes(c, data)
  /\ data # <<>> /\ parse_command_line(Words(data)).command = Null
  /\ fault' = "strcmp of null"
  /\ UNCHANGED <<session_table, session, params>>

(* Empty data and unknown commands are refused.                            *)
Refused(c, data) ==
  /\ Executes(c, data)
  /\ \/ data = <<>>
     \/ parse_command_line(Words(data)).command
          \notin {Null, <<"start">>, <<"stop">>}
  /\ UNCHANGED <<session_table, session, params, fault>>

(* switch_core_hash_insert; the key is the first word of the command.      *)
Insert(key, c) ==
  [k \in {key} \cup DOMAIN session_table |->
     IF k = key THEN c ELSE session_table[k]]

(* forkzstream_init and tts_session_init: both are made once, so after a   *)
(* stop there is a handle without a streamer.  Nobody looks at the result  *)
(* of switch_core_media_bug_add.                                           *)
InitSession(c) ==
  /\ sth' = [sth EXCEPT ![c] = TRUE]
  /\ pTTsStreamer' = [pTTsStreamer EXCEPT ![c] = @ \/ ~sth[c]]
  /\ \/ sth[c] /\ UNCHANGED bug
     \/ ~sth[c] /\ \E added \in BOOLEAN : bug' = [bug EXCEPT ![c] = added]

StartLost(c, data) ==
  LET args == parse_command_line(Words(data)) IN
  /\ Executes(c, data)
  /\ args.command = <<"start">>
  /\ session_table' = Insert(args.key, c)
  /\ InitSession(c) /\ ~pTTsStreamer'[c]
  /\ UNCHANGED <<play_thread, Handler, params, fault>>

BugNoParameters(args) == \E f \in {"reqid", "type", "params"} : args[f] = Null

(* std::string of a null reqid or type throws, and nobody catches it.      *)
NullArgument(args) == args.reqid = Null \/ args.type = Null

StartShort(c, data) ==
  LET args == parse_command_line(Words(data)) IN
  /\ Executes(c, data)
  /\ args.command = <<"start">>
  /\ session_table' = Insert(args.key, c)
  /\ InitSession(c) /\ pTTsStreamer'[c]
  /\ NullArgument(args)
  /\ fault' = "string of null"
  /\ UNCHANGED <<play_thread, Handler, params>>

(* tts_session_text.                                                       *)
StartStream(c, data) ==
  LET args == parse_command_line(Words(data)) IN
  /\ Executes(c, data)
  /\ args.command = <<"start">>
  /\ session_table' = Insert(args.key, c)
  /\ InitSession(c) /\ pTTsStreamer'[c]
  /\ ~NullArgument(args)
  /\ play_thread' = [play_thread EXCEPT ![c] = TRUE]
  /\ CreateStream(c, args.type, args.params)
  /\ params' = [params EXCEPT ![c] = args.params]

BugKeepsThread(c) ==
  /\ pTTsStreamer' = [pTTsStreamer EXCEPT ![c] = FALSE]
  /\ Handler' = [Handler EXCEPT ![c] = "none"]
  /\ UNCHANGED <<sth, play_thread, bug>>

(* tts_session_cleanup.                                                    *)
Cleanup(c) ==
  /\ pTTsStreamer' = [pTTsStreamer EXCEPT ![c] = FALSE]
  /\ play_thread' = [play_thread EXCEPT ![c] = FALSE]
  /\ Handler' = [Handler EXCEPT ![c] = "none"]
  /\ UNCHANGED <<sth, bug>>

Stop(c, data) ==
  /\ Executes(c, data)
  /\ parse_command_line(Words(data)).command = <<"stop">>
  /\ Cleanup(c)
  /\ UNCHANGED <<session_table, params, fault>>

-----------------------------------------------------------------------------
BugHangupByName(c) ==
  /\ fault = "no" /\ loaded /\ call[c] = "up"
  /\ call' = [call EXCEPT ![c] = "hung"]
  /\ IF <<"forkzstream">> \in DOMAIN session_table
     THEN Cleanup(session_table[<<"forkzstream">>]) ELSE UNCHANGED session
  /\ UNCHANGED <<loaded, session_table, asked, last, params, commands, fault>>

(* switch_event_callback: the session the table has for the uuid of the    *)
(* call that hangs up.  Entries are never removed.                         *)
HangupEvent(c) ==
  /\ fault = "no" /\ loaded /\ call[c] = "up"
  /\ call' = [call EXCEPT ![c] = "hung"]
  /\ IF <<c>> \in DOMAIN session_table THEN Cleanup(session_table[<<c>>])
     ELSE UNCHANGED session
  /\ UNCHANGED <<loaded, session_table, asked, last, params, commands, fault>>

BugCloseIgnored(c) ==
  /\ fault = "no" /\ loaded /\ call[c] = "hung"
  /\ call' = [call EXCEPT ![c] = "gone"]
  /\ UNCHANGED <<loaded, session_table, session, asked, last, params, commands,
                 fault>>

(* The session is destroyed, with a CLOSE of the media bug if it has one.  *)
(* After the cleanup CLOSE joins sth->thread, which is null for ever; that *)
(* switch_thread_join returns at once for null is taken from FreeSWITCH.   *)
CloseBug(c) ==
  /\ fault = "no" /\ loaded /\ call[c] = "hung"
  /\ call' = [call EXCEPT ![c] = "gone"]
  /\ IF bug[c] THEN Cleanup(c) ELSE UNCHANGED session
  /\ UNCHANGED <<loaded, session_table, asked, last, params, commands, fault>>

(* Load makes a new table; shutdown unbinds the event and leaves the rest. *)
Load ==
  /\ ~loaded /\ fault = "no"
  /\ loaded' = TRUE
  /\ session_table' = <<>>
  /\ UNCHANGED <<call, session, asked, last, params, commands, fault>>

Shutdown ==
  /\ loaded /\ fault = "no"
  /\ loaded' = FALSE
  /\ UNCHANGED <<session_table, call, session, asked, last, params, commands,
                 fault>>

Next ==
  \/ Load \/ Shutdown
  \/ \E c \in Calls :
       \/ HangupEvent(c) \/ CloseBug(c)
       \/ \E data \in Data(c) :
            \/ NoCommand(c, data) \/ Refused(c, data) \/ Stop(c, data)
            \/ StartLost(c, data) \/ StartShort(c, data)
            \/ StartStream(c, data)

Spec == Init /\ [][Next]_vars

-----------------------------------------------------------------------------
(* The parameters as the command has them: from the first token of its     *)
(* fifth word to the last of its last word.                                *)
Written(data) ==
  LET n == Cardinality(Starts(data)) IN
  IF n < 5 THEN <<>> ELSE SubSeq(data, WordStart(data, 5), WordEnd(data, n))

SingleBlanks(text) ==
  \A i \in 1..Len(text) - 1 : ~(text[i] = Blank /\ text[i + 1] = Blank)

Started(c) ==
  /\ pTTsStreamer[c]
  /\ Len(Words(asked[c])) >= 4 /\ Words(asked[c])[2] = <<"start">>

(* Every variable keeps its type, the table names calls, and there is no   *)
(* streamer without a handle and no playing thread without a streamer.     *)
TypeOK ==
  /\ loaded \in BOOLEAN /\ commands \in 0..MaxCommands
  /\ \A key \in DOMAIN session_table : session_table[key] \in Calls
  /\ call \in [Calls -> {"up", "hung", "gone"}]
  /\ sth \in [Calls -> BOOLEAN] /\ bug \in [Calls -> BOOLEAN]
  /\ pTTsStreamer \in [Calls -> BOOLEAN] /\ play_thread \in [Calls -> BOOLEAN]
  /\ \A c \in Calls : play_thread[c] => pTTsStreamer[c]
  /\ \A c \in Calls : pTTsStreamer[c] => sth[c]
  /\ Handler \in [Calls -> {"none", "idle", "connected", "rejected"}]
  /\ fault \in {"no", "strcmp of null", "string of null",
                 "start through null", "client replaced"}

(* What create_stream gets is what the caller wrote, blanks inside the     *)
(* JSON text included, as long as they are single: splitting the command   *)
(* into words and cat_last_n are inverse to each other.                    *)
ParamsAsWritten ==
  \A c \in Calls :
    Started(c) /\ SingleBlanks(Written(asked[c]))
      => params[c] = Written(asked[c])

(* A start without all its words or with a type other than ws, or a        *)
(* command line of one word.                                               *)
Broken(data) ==
  LET argv == Words(data) IN
  \/ data # <<>> /\ Len(argv) < 2
  \/ /\ Len(argv) >= 2 /\ argv[2] = <<"start">>
     /\ Len(argv) < 4 \/ argv[4] # <<"ws">>

(* The process survives the execution of every command that is not broken, *)
(* in any order on any number of calls: when it ends, the command that was *)
(* under way is one that parse_command_line lets through because it is     *)
(* told of five words (argc), or one with a type create_stream does not    *)
(* know.  What the threads a start leaves behind meet is no matter of this *)
(* module (TTsStreamer, CancelHasHandler).                                 *)
FaultIsBadCommand == fault # "no" => Broken(last)

(* A start of type ws tries to connect exactly when its parameters are an  *)
(* object with all the keys create_stream and startHandler read, text      *)
(* among them, which the README calls optional; what an earlier start of   *)
(* the call left behind makes no difference.                               *)
ConnectsWhenComplete ==
  \A c \in Calls :
    Started(c) /\ Words(asked[c])[4] = <<"ws">>
      => (Handler[c] \in {"connected", "rejected"}
            <=> Has(Written(asked[c]), HandlerKeys))

(* A hangup ends the stream of no other call, as long as no call uses the  *)
(* uuid of another as its key.                                             *)
HangupSparesOthers ==
  [][\A c, d \in Calls :
       call[c] = "up" /\ call'[c] = "hung" /\ d # c
         => /\ pTTsStreamer'[d] = pTTsStreamer[d]
            /\ Handler'[d] = Handler[d]]_vars

(* A streamer outlives its call only unseen: the hangup event did not find *)
(* the call under its uuid, and if the session is gone, the media bug was  *)
(* never added, whose CLOSE would have cleaned up.                         *)
OutlivesOnlyUnseen ==
  \A c \in Calls :
    call[c] # "up" /\ pTTsStreamer[c]
      => <<c>> \notin DOMAIN session_table /\ (call[c] = "gone" => ~bug[c])

-----------------------------------------------------------------------------
(* A hypothesis about the users: no call gives the uuid of another call as *)
(* its key.                                                                *)
KeysAreOwn ==
  \A c \in Calls : \A data \in Data(c) : \A d \in Calls :
    parse_command_line(Words(data)).key = <<d>> => d = c

-----------------------------------------------------------------------------
(* What one might expect and the code does not keep; TLC refutes each      *)
(* within seconds.                                                         *)

(* The hangup event ends the stream.  It does not find the call when the   *)
(* key is not the uuid, or when the module was reloaded.                   *)
HangupCleans == \A c \in Calls : call[c] = "hung" => ~pTTsStreamer[c]

(* A call that is gone has no streamer.  Without a media bug nothing stops *)
(* the one of a call whose key is not its uuid.                            *)
GoneIsClean == \A c \in Calls : call[c] = "gone" => ~pTTsStreamer[c]

(* Shutdown leaves no thread of the module behind.                         *)
ShutdownStops == ~loaded => \A c \in Calls : ~play_thread[c]

(* Only a connected handler has a playing thread: a start with a missing   *)
(* key leaves one without.                                                 *)
PlaysConnected ==
  \A c \in Calls : play_thread[c] => Handler[c] \in {"connected", "rejected"}

(* The parameters survive in any case: a run of blanks becomes one.        *)
ParamsKept ==
  \A c \in Calls : Started(c) => params[c] = Written(asked[c])
=============================================================================
