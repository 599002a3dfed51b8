-------------------------- MODULE ForkSessionProofs --------------------------
(***************************************************************************)
(* What holds of ForkSession for every number of commands and reads.       *)
(*                                                                         *)
(* LifeInv says that a call never has more than one streamer, and where    *)
(* the pointer to it, the streamer and the threads that clean up stand to  *)
(* each other; it holds whatever threads run.  AloneInv adds what holds    *)
(* when the session thread alone runs the module, OwnerInv what holds when *)
(* it alone cleans up, whatever threads read.  Each conjunct has a lemma   *)
(* of its own, with a case for each action or group of actions.            *)
(***************************************************************************)
EXTENDS ForkSession, TLAPS

USE DEF objects, callVars, Running

-----------------------------------------------------------------------------
(* Steps at which a thread is between its test of pTTsStreamer in          *)
(* tts_session_cleanup and the end of the deletion.                        *)
Removing == {"clean_stop", "clean_joining", "clean_delete"}
Cleaning == {"clean_load", "clean_null"} \cup Removing

(* A streamer is made only together with sth, so a call has at most one.   *)
OneStreamer ==
  /\ created \in {0, 1} /\ live \subseteq {1} /\ pTTsStreamer \in {0, 1}
  /\ \A t \in Threads : as[t] \in {0, 1}
  /\ created = 0
       => live = {} /\ pTTsStreamer = 0 /\ \A t \in Threads : as[t] = 0
  /\ created = 1 => sth /\ commands # 0
  /\ pc["session"] \in {"init", "new"} => commands # 0
  /\ pc["session"] = "new" => created = 0 /\ sth

(* A thread that tested the pointer found a streamer, one that removes it  *)
(* has stored null before, and a null it loaded was another thread's.      *)
CleanersKnow ==
  \A t \in Threads :
    /\ pc[t] \in Cleaning => created = 1
    /\ pc[t] = "clean_null" /\ as[t] = 0 => pTTsStreamer = 0
    /\ pc[t] \in Removing => as[t] = 1 /\ pTTsStreamer = 0

(* A start that got past its first use of the streamer did not hold null.  *)
StartHolds ==
  Running /\ pc["session"] \in {"text_joining", "text_play", "text_create",
                              "text_client"}
    => as["session"] = 1

Flags ==
  /\ sth \in BOOLEAN /\ session_table \in BOOLEAN
  /\ bug \in {"none", "attached", "closed"}
  /\ call \in {"up", "hangup", "gone"}
  /\ hangup \in {"none", "queued", "handled"}
  /\ outcome \in {"none", "no memory", "no streamer", "no client", "rejected",
                  "connecting"}

Places == OneStreamer /\ CleanersKnow /\ StartHolds

LifeInv == TypeOK /\ Places /\ PublishedIsLive /\ NothingLeaks

-----------------------------------------------------------------------------
(* The threads the actions name are threads.                               *)
LEMMA ThreadNames ==
  "session" \in Threads /\ "event" \in Threads /\ Readers \subseteq Threads
BY ReadersAssumption DEF Threads

(* The one streamer is not null.                                           *)
LEMMA OneIsNotNull == 1 # 0
OBVIOUS

(* A counter below its bound may be incremented.                           *)
LEMMA Increment ==
  ASSUME NEW n \in Nat, NEW i \in 0..n, i < n
  PROVE  i + 1 \in 0..n
OBVIOUS

(* Where there is a command there is an identifier 1.                      *)
LEMMA OneIsAnId ==
  ASSUME TypeOK, commands # 0
  PROVE  1 \in Ids /\ 1 \in Pointers /\ 1 \in 0..MaxCommands
<1>1. commands \in 0..MaxCommands
  BY DEF TypeOK
<1> QED
  BY <1>1, CommandsAssumption DEF Ids, Pointers

(* A command has been counted once it has begun.                           *)
LEMMA CountsUp == TypeOK => commands + 1 # 0
<1>1. TypeOK => commands \in 0..MaxCommands
  BY DEF TypeOK
<1> QED
  BY <1>1, CommandsAssumption

(* Null is a pointer.                                                      *)
LEMMA NullPointer == 0 \in Pointers
BY CommandsAssumption DEF Pointers

(* A pointer that is not null is an identifier.                            *)
LEMMA IdOrNull ==
  ASSUME NEW p \in Pointers, p # 0
  PROVE  p \in Ids
BY CommandsAssumption DEF Ids, Pointers

(* What making the streamer does, with what is known before it.            *)
LEMMA NewStreamerFacts ==
  ASSUME TypeOK, OneStreamer, NewStreamer
  PROVE  /\ created = 0 /\ created' = 1 /\ live' = {1} /\ pTTsStreamer' = 1
         /\ 1 \in Ids /\ 1 \in Pointers /\ 1 \in 0..MaxCommands
         /\ pc' = [pc EXCEPT !["session"] = "add_bug"] /\ as' = as
         /\ commands # 0 /\ UNCHANGED <<commands, fault, deleted>>
<1>1. created = 0 /\ live = {} /\ commands # 0
  BY DEF OneStreamer, NewStreamer, Go
<1> QED
  BY <1>1, OneIsAnId DEF NewStreamer, Go

(* The program counters keep their type.                                   *)
LEMMA PcType ==
  ASSUME TypeOK, [Next]_vars
  PROVE  pc' \in [Threads -> Labels]
<1> USE ThreadNames DEF TypeOK, Go, Labels
<1>1. CASE NewStreamer
  BY <1>1 DEF NewStreamer
<1>2. CASE StartStep /\ ~NewStreamer
  BY <1>2 DEF StartStep, InitSession, AddBug, Text, TextLoad, TextStop,
       TextJoined, TextPlay, TextCreate, TextClient
<1>3. ASSUME NEW t \in Threads, CleanStep(t)
      PROVE  pc' \in [Threads -> Labels]
  BY <1>3 DEF CleanStep, CleanTest, CleanLoad, CleanNull, CleanStop,
       CleanJoined, CleanDelete
<1>4. ASSUME NEW t \in Threads, Read(t) \/ ReadStep(t)
      PROVE  pc' \in [Threads -> Labels]
  BY <1>4 DEF Read, ReadStep, SendLoad, SendHandler, Send
<1>5. CASE Start \/ StopCommand \/ Hangup \/ HangupEvent \/ TearDown
  BY <1>5 DEF Start, StopCommand, Hangup, HangupEvent, TearDown, CloseBug,
       DestroySession
<1>6. CASE UNCHANGED vars
  BY <1>6 DEF vars
<1> QED
  BY ThreadNames, <1>1, <1>2, <1>3, <1>4, <1>5, <1>6 DEF Next

(* So does fault.                                                          *)
LEMMA FaultType ==
  ASSUME TypeOK, [Next]_vars
  PROVE  fault' \in Faults
<1> USE ThreadNames DEF TypeOK, UseStreamer, JoinPlay, Faults
<1>1. CASE NewStreamer
  BY <1>1 DEF NewStreamer
<1>2. CASE StartStep /\ ~NewStreamer
  BY <1>2 DEF StartStep, InitSession, AddBug, Text, TextLoad, TextStop,
       TextJoined, TextPlay, TextCreate, TextClient
<1>3. ASSUME NEW t \in Threads, CleanStep(t)
      PROVE  fault' \in Faults
  BY <1>3 DEF CleanStep, CleanTest, CleanLoad, CleanNull, CleanStop,
       CleanJoined, CleanDelete
<1>4. ASSUME NEW t \in Threads, Read(t) \/ ReadStep(t)
      PROVE  fault' \in Faults
  BY <1>4 DEF Read, ReadStep, SendLoad, SendHandler, Send
<1>5. CASE Start \/ StopCommand \/ Hangup \/ HangupEvent \/ TearDown
  BY <1>5 DEF Start, StopCommand, Hangup, HangupEvent, TearDown, CloseBug,
       DestroySession
<1>6. CASE UNCHANGED vars
  BY <1>6 DEF vars
<1> QED
  BY ThreadNames, <1>1, <1>2, <1>3, <1>4, <1>5, <1>6 DEF Next

(* And the enumerated variables.                                           *)
LEMMA FlagTypes ==
  ASSUME Flags, [Next]_vars
  PROVE  Flags'
<1> USE DEF Flags
<1>1. CASE NewStreamer
  BY <1>1 DEF NewStreamer
<1>2. CASE StartStep /\ ~NewStreamer
  BY <1>2 DEF StartStep, InitSession, AddBug, Text, TextLoad, TextStop,
       TextJoined, TextPlay, TextCreate, TextClient
<1>3. ASSUME NEW t \in Threads, CleanStep(t)
      PROVE  Flags'
  BY <1>3 DEF CleanStep, CleanTest, CleanLoad, CleanNull, CleanStop,
       CleanJoined, CleanDelete
<1>4. ASSUME NEW t \in Threads, Read(t) \/ ReadStep(t)
      PROVE  Flags'
  BY <1>4 DEF Read, ReadStep, SendLoad, SendHandler, Send
<1>5. CASE Start \/ StopCommand \/ Hangup \/ HangupEvent \/ TearDown
  BY <1>5 DEF Start, StopCommand, Hangup, HangupEvent, TearDown, CloseBug,
       DestroySession
<1>6. CASE UNCHANGED vars
  BY <1>6 DEF vars
<1> QED
  BY ThreadNames, <1>1, <1>2, <1>3, <1>4, <1>5, <1>6 DEF Next

(* The counters stay within their bounds.                                  *)
LEMMA CountTypes ==
  ASSUME TypeOK, OneStreamer, [Next]_vars
  PROVE  /\ commands' \in 0..MaxCommands /\ reads' \in 0..MaxReads
         /\ created' \in 0..MaxCommands
<1> USE CommandsAssumption, Increment DEF TypeOK
<1>1. CASE NewStreamer
  BY <1>1, NewStreamerFacts DEF NewStreamer
<1>2. CASE StartStep /\ ~NewStreamer
  BY <1>2 DEF StartStep, InitSession, AddBug, Text, TextLoad, TextStop,
       TextJoined, TextPlay, TextCreate, TextClient
<1>3. ASSUME NEW t \in Threads, CleanStep(t)
      PROVE  /\ commands' \in 0..MaxCommands /\ reads' \in 0..MaxReads
         /\ created' \in 0..MaxCommands
  BY <1>3 DEF CleanStep, CleanTest, CleanLoad, CleanNull, CleanStop,
       CleanJoined, CleanDelete
<1>4. ASSUME NEW t \in Threads, Read(t) \/ ReadStep(t)
      PROVE  /\ commands' \in 0..MaxCommands /\ reads' \in 0..MaxReads
         /\ created' \in 0..MaxCommands
  BY <1>4 DEF Read, ReadStep, SendLoad, SendHandler, Send
<1>5. CASE Start \/ StopCommand \/ Hangup \/ HangupEvent \/ TearDown
  BY <1>5 DEF Start, StopCommand, Hangup, HangupEvent, TearDown, CloseBug,
       DestroySession
<1>6. CASE UNCHANGED vars
  BY <1>6 DEF vars
<1> QED
  BY ThreadNames, <1>1, <1>2, <1>3, <1>4, <1>5, <1>6 DEF Next

(* So do the pointers.                                                     *)
LEMMA PointerTypes ==
  ASSUME TypeOK, Places, [Next]_vars
  PROVE  /\ pTTsStreamer' \in Pointers
         /\ as' \in [Threads -> Pointers]
<1> USE ThreadNames DEF TypeOK, Load, Places
<1>1. CASE NewStreamer
  BY <1>1, NewStreamerFacts DEF NewStreamer
<1>2. CASE StartStep /\ ~NewStreamer
  BY <1>2 DEF StartStep, InitSession, AddBug, Text, TextLoad, TextStop,
       TextJoined, TextPlay, TextCreate, TextClient
<1>3. ASSUME NEW t \in Threads, CleanStep(t)
      PROVE  /\ pTTsStreamer' \in Pointers
         /\ as' \in [Threads -> Pointers]
  BY <1>3, NullPointer DEF CleanStep, CleanTest, CleanLoad, CleanNull,
       CleanStop, CleanJoined, CleanDelete
<1>4. ASSUME NEW t \in Threads, Read(t) \/ ReadStep(t)
      PROVE  /\ pTTsStreamer' \in Pointers
         /\ as' \in [Threads -> Pointers]
  BY <1>4 DEF Read, ReadStep, SendLoad, SendHandler, Send
<1>5. CASE Start \/ StopCommand \/ Hangup \/ HangupEvent \/ TearDown
  BY <1>5 DEF Start, StopCommand, Hangup, HangupEvent, TearDown, CloseBug,
       DestroySession
<1>6. CASE UNCHANGED vars
  BY <1>6 DEF vars
<1> QED
  BY ThreadNames, <1>1, <1>2, <1>3, <1>4, <1>5, <1>6 DEF Next

(* The handler of a streamer, and the copy of a reader.                    *)
LEMMA HandlerTypes ==
  ASSUME TypeOK, [Next]_vars
  PROVE  Handler' \in [Ids -> Pointers] /\ hd' \in Pointers
<1> USE ThreadNames DEF TypeOK
<1>1. CASE NewStreamer
  BY <1>1 DEF NewStreamer
<1>2. CASE StartStep /\ ~NewStreamer
  <2>1. commands \in Pointers
    BY CommandsAssumption DEF TypeOK, Pointers
  <2> QED
    BY <1>2, <2>1 DEF StartStep, InitSession, AddBug, Text, TextLoad,
         TextStop, TextJoined, TextPlay, TextCreate, TextClient
<1>3. ASSUME NEW t \in Threads, CleanStep(t)
      PROVE  Handler' \in [Ids -> Pointers] /\ hd' \in Pointers
  BY <1>3 DEF CleanStep, CleanTest, CleanLoad, CleanNull, CleanStop,
       CleanJoined, CleanDelete
<1>4. ASSUME NEW t \in Threads, Read(t) \/ ReadStep(t)
      PROVE  Handler' \in [Ids -> Pointers] /\ hd' \in Pointers
  BY <1>4, NullPointer DEF Read, ReadStep, SendLoad, SendHandler, Send
<1>5. CASE Start \/ StopCommand \/ Hangup \/ HangupEvent \/ TearDown
  BY <1>5 DEF Start, StopCommand, Hangup, HangupEvent, TearDown, CloseBug,
       DestroySession
<1>6. CASE UNCHANGED vars
  BY <1>6 DEF vars
<1> QED
  BY ThreadNames, <1>1, <1>2, <1>3, <1>4, <1>5, <1>6 DEF Next

(* The sets of objects hold only identifiers.                              *)
LEMMA SetTypes ==
  ASSUME TypeOK, Places, [Next]_vars
  PROVE  /\ live' \subseteq Ids /\ play_thread' \subseteq Ids
         /\ deleted' \subseteq Ids /\ client' \subseteq Ids
<1> USE ThreadNames DEF TypeOK, Places
<1>1. CASE NewStreamer
  BY <1>1, NewStreamerFacts DEF NewStreamer
<1>2. CASE StartStep /\ ~NewStreamer
  <2>1. CASE TextPlay
    <3>1. 1 \in Ids
      BY <2>1, OneIsAnId DEF OneStreamer, StartHolds, TextPlay, Go
    <3> QED
      BY <2>1, <3>1 DEF StartHolds, TextPlay, Go
  <2>2. CASE TextCreate
    <3>1. as["session"] = 1 /\ 1 \in Ids
      BY <2>2, OneIsAnId DEF OneStreamer, StartHolds, TextCreate, Go
    <3>2. {Handler[1]} \ {0} \subseteq Ids
      BY <3>1, IdOrNull
    <3> QED
      BY <2>2, <3>1, <3>2 DEF TextCreate
  <2>3. CASE TextClient
    <3>1. as["session"] = 1
      BY <2>3 DEF StartHolds, TextClient, Go
    <3>2. commands # 0
      BY <3>1, OneIsNotNull DEF OneStreamer
    <3>3. commands \in 0..MaxCommands
      BY DEF TypeOK
    <3>4. commands \in Ids
      BY ONLY <3>2, <3>3, CommandsAssumption DEF Ids
    <3> QED
      BY <2>3, <3>4 DEF TextClient
  <2> QED
    BY <1>2, <2>1, <2>2, <2>3 DEF StartStep, InitSession, AddBug, Text, TextLoad,
         TextStop, TextJoined
<1>3. ASSUME NEW t \in Threads, CleanStep(t)
      PROVE  /\ live' \subseteq Ids /\ play_thread' \subseteq Ids
         /\ deleted' \subseteq Ids /\ client' \subseteq Ids
  <2>1. CASE CleanDelete(t)
    <3>1. as[t] = 1 /\ 1 \in Ids
      BY <2>1, OneIsAnId
         DEF OneStreamer, CleanersKnow, Removing, Cleaning, CleanDelete, Go
    <3>2. {Handler[1]} \ {0} \subseteq Ids
      BY <3>1, IdOrNull
    <3> QED
      BY <2>1, <3>1, <3>2 DEF CleanDelete
  <2> QED
    BY <1>3, <2>1 DEF CleanStep, CleanTest, CleanLoad, CleanNull, CleanStop,
         CleanJoined
<1>4. ASSUME NEW t \in Threads, Read(t) \/ ReadStep(t)
      PROVE  /\ live' \subseteq Ids /\ play_thread' \subseteq Ids
         /\ deleted' \subseteq Ids /\ client' \subseteq Ids
  BY <1>4 DEF Read, ReadStep, SendLoad, SendHandler, Send
<1>5. CASE Start \/ StopCommand \/ Hangup \/ HangupEvent \/ TearDown
  BY <1>5 DEF Start, StopCommand, Hangup, HangupEvent, TearDown, CloseBug,
       DestroySession
<1>6. CASE UNCHANGED vars
  BY <1>6 DEF vars
<1> QED
  BY ThreadNames, <1>1, <1>2, <1>3, <1>4, <1>5, <1>6 DEF Next

(* A second streamer is never made.                                        *)
LEMMA OneStreamerStep ==
  ASSUME TypeOK, Places, [Next]_vars
  PROVE  OneStreamer'
<1> USE ThreadNames DEF TypeOK, Places, OneStreamer, Go
<1>1. CASE NewStreamer
  <2>1. /\ created' \in {0, 1} /\ live' \subseteq {1} /\ pTTsStreamer' \in {0, 1}
        /\ \A t \in Threads : as'[t] \in {0, 1}
    BY <1>1, NewStreamerFacts
  <2>2. created' # 0
    <3>1. created' = 1
      BY <1>1, NewStreamerFacts, Zenon
    <3> QED
      BY ONLY <3>1, OneIsNotNull
  <2>5. commands' # 0
    BY <1>1, NewStreamerFacts
  <2>3. pc'["session"] # "new"
    BY <1>1, NewStreamerFacts
  <2>4. sth'
    BY <1>1 DEF NewStreamer
  <2> QED
    BY ONLY <2>1, <2>2, <2>3, <2>4, <2>5, Zenon DEF OneStreamer
<1>2. CASE StartStep /\ ~NewStreamer
  <2>1. CASE InitSession
    BY <2>1 DEF InitSession
  <2>2. CASE AddBug \/ Text
    BY <2>2 DEF AddBug, Text
  <2>3. CASE TextLoad
    BY <2>3 DEF TextLoad, Load
  <2>4. CASE TextStop \/ TextJoined
    BY <2>4 DEF TextStop, TextJoined
  <2>5. CASE TextPlay \/ TextCreate \/ TextClient
    BY <2>5 DEF TextPlay, TextCreate, TextClient
  <2> QED
    BY <1>2, <2>1, <2>2, <2>3, <2>4, <2>5 DEF StartStep
<1>3. ASSUME NEW t \in Threads, CleanStep(t)
      PROVE  OneStreamer'
  BY <1>3 DEF CleanStep, CleanTest, CleanLoad, CleanNull, CleanStop,
       CleanJoined, CleanDelete, CleanersKnow, Removing, Cleaning, Load
<1>4. ASSUME NEW t \in Threads, Read(t) \/ ReadStep(t)
      PROVE  OneStreamer'
  BY <1>4 DEF Read, ReadStep, SendLoad, SendHandler, Send, Load
<1>5. CASE Start \/ StopCommand \/ Hangup \/ HangupEvent \/ TearDown
  <2>1. commands + 1 # 0
    BY CountsUp
  <2> QED
    BY <1>5, <2>1 DEF Start, StopCommand, Hangup, HangupEvent, TearDown,
         CloseBug, DestroySession
<1>6. CASE UNCHANGED vars
  BY <1>6 DEF vars
<1> QED
  BY ThreadNames, <1>1, <1>2, <1>3, <1>4, <1>5, <1>6 DEF Next

(* What the threads that clean up know stays true.                         *)
LEMMA CleanersKnowStep ==
  ASSUME TypeOK, Places, [Next]_vars
  PROVE  CleanersKnow'
<1> USE ThreadNames DEF TypeOK, Places, OneStreamer, CleanersKnow, Removing, Cleaning,
        Go, Load
<1>1. CASE NewStreamer
  BY <1>1, NewStreamerFacts DEF NewStreamer
<1>2. CASE StartStep /\ ~NewStreamer
  <2>2. CASE TextLoad
    BY <2>2 DEF TextLoad
  <2> QED
    BY <1>2, <2>2 DEF StartStep, InitSession, AddBug, Text, TextStop,
         TextJoined, TextPlay, TextCreate, TextClient
<1>3. ASSUME NEW t \in Threads, CleanStep(t)
      PROVE  CleanersKnow'
  BY <1>3 DEF CleanStep, CleanTest, CleanLoad, CleanNull, CleanStop,
       CleanJoined, CleanDelete
<1>4. ASSUME NEW t \in Threads, Read(t) \/ ReadStep(t)
      PROVE  CleanersKnow'
  BY <1>4 DEF Read, ReadStep, SendLoad, SendHandler, Send
<1>5. CASE Start \/ StopCommand \/ Hangup \/ HangupEvent \/ TearDown
  BY <1>5 DEF Start, StopCommand, Hangup, HangupEvent, TearDown, CloseBug,
       DestroySession
<1>6. CASE UNCHANGED vars
  BY <1>6 DEF vars
<1> QED
  BY ThreadNames, <1>1, <1>2, <1>3, <1>4, <1>5, <1>6 DEF Next

(* A start keeps the streamer it holds.                                    *)
LEMMA StartHoldsStep ==
  ASSUME TypeOK, Places, [Next]_vars
  PROVE  StartHolds'
<1> USE ThreadNames DEF TypeOK, Places, OneStreamer, StartHolds, Go, Load, JoinPlay, UseStreamer
<1>1. CASE NewStreamer
  BY <1>1 DEF NewStreamer
<1>2. CASE StartStep /\ ~NewStreamer
  BY <1>2 DEF StartStep, InitSession, AddBug, Text, TextLoad, TextStop,
       TextJoined, TextPlay, TextCreate, TextClient
<1>3. ASSUME NEW t \in Threads, CleanStep(t)
      PROVE  StartHolds'
  BY <1>3 DEF CleanStep, CleanTest, CleanLoad, CleanNull, CleanStop,
       CleanJoined, CleanDelete
<1>4. ASSUME NEW t \in Threads, Read(t) \/ ReadStep(t)
      PROVE  StartHolds'
  BY <1>4 DEF Read, ReadStep, SendLoad, SendHandler, Send
<1>5. CASE Start \/ StopCommand \/ Hangup \/ HangupEvent \/ TearDown
  BY <1>5 DEF Start, StopCommand, Hangup, HangupEvent, TearDown, CloseBug,
       DestroySession
<1>6. CASE UNCHANGED vars
  BY <1>6 DEF vars
<1> QED
  BY ThreadNames, <1>1, <1>2, <1>3, <1>4, <1>5, <1>6 DEF Next

(* The pointer is never left on a deleted streamer.                        *)
LEMMA PublishedStep ==
  ASSUME TypeOK, Places, PublishedIsLive, [Next]_vars
  PROVE  PublishedIsLive'
<1> USE ThreadNames DEF TypeOK, Places, OneStreamer, CleanersKnow, Removing, Cleaning,
        PublishedIsLive, Go
<1>1. CASE NewStreamer
  BY <1>1, NewStreamerFacts DEF NewStreamer
<1>2. CASE StartStep /\ ~NewStreamer
  BY <1>2 DEF StartStep, InitSession, AddBug, Text, TextLoad, TextStop,
       TextJoined, TextPlay, TextCreate, TextClient
<1>3. ASSUME NEW t \in Threads, CleanStep(t)
      PROVE  PublishedIsLive'
  BY <1>3 DEF CleanStep, CleanTest, CleanLoad, CleanNull, CleanStop,
       CleanJoined, CleanDelete
<1>4. ASSUME NEW t \in Threads, Read(t) \/ ReadStep(t)
      PROVE  PublishedIsLive'
  BY <1>4 DEF Read, ReadStep, SendLoad, SendHandler, Send
<1>5. CASE Start \/ StopCommand \/ Hangup \/ HangupEvent \/ TearDown
  BY <1>5 DEF Start, StopCommand, Hangup, HangupEvent, TearDown, CloseBug,
       DestroySession
<1>6. CASE UNCHANGED vars
  BY <1>6 DEF vars
<1> QED
  BY ThreadNames, <1>1, <1>2, <1>3, <1>4, <1>5, <1>6 DEF Next

-----------------------------------------------------------------------------
(* Steps at which a thread holds the streamer it is going to delete.       *)
Holding == {"clean_null"} \cup Removing

(* A step that neither moves a thread out of the deletion nor changes the  *)
(* pointer or makes a streamer loses none.                                 *)
LEMMA NoneLost ==
  ASSUME Places, NothingLeaks, Running, UNCHANGED pTTsStreamer,
         live' \subseteq live,
         \A u \in Threads :
           pc[u] \in Holding => pc'[u] \in Holding /\ as'[u] = as[u]
  PROVE  NothingLeaks'
<1> SUFFICES ASSUME NEW o \in live'
             PROVE  o = pTTsStreamer' \/ \E u \in Threads : Deleting(u, o)'
  BY DEF NothingLeaks
<1>1. CASE o = pTTsStreamer
  BY <1>1
<1>2. CASE o # pTTsStreamer
  <2>1. PICK u \in Threads : Deleting(u, o)
    BY <1>2 DEF NothingLeaks
  <2>2. as[u] = o /\ pc[u] \in Holding
    BY <2>1 DEF Deleting, Holding, Removing
  <2>3. as'[u] = o /\ pc'[u] \in Holding
    BY <2>2
  <2> QED
    BY <2>3 DEF Deleting, Holding, Removing
<1> QED
  BY <1>1, <1>2

(* No step loses a streamer.                                               *)
LEMMA LeakStep ==
  ASSUME TypeOK, Places, NothingLeaks, [Next]_vars
  PROVE  NothingLeaks'
<1> DEFINE Stays ==
      \A u \in Threads :
        pc[u] \in Holding => pc'[u] \in Holding /\ as'[u] = as[u]
<1>1. CASE NewStreamer
  <2>1. live' = {1} /\ pTTsStreamer' = 1
    BY <1>1, NewStreamerFacts DEF Places
  <2> QED
    BY <2>1 DEF NothingLeaks
<1>2. CASE StartStep /\ ~NewStreamer
  <2>1. Stays
    BY <1>2, ThreadNames DEF StartStep, InitSession, AddBug, Text, TextLoad,
         TextStop, TextJoined, TextPlay, TextCreate, TextClient, Go, Load,
         TypeOK, Holding, Removing
  <2>2. Running /\ UNCHANGED <<pTTsStreamer, live>>
    BY <1>2 DEF StartStep, InitSession, AddBug, Text, TextLoad, TextStop,
         TextJoined, TextPlay, TextCreate, TextClient, Go
  <2> QED
    BY <2>1, <2>2, NoneLost
<1>3. ASSUME NEW t \in Threads, CleanStep(t)
      PROVE  NothingLeaks'
  <2>1. CASE CleanTest(t) \/ CleanLoad(t) \/ CleanStop(t) \/ CleanJoined(t)
    <3>1. Stays
      BY <2>1 DEF CleanTest, CleanLoad, CleanStop, CleanJoined, Go, Load,
           TypeOK,
           Holding, Removing
    <3>2. Running /\ UNCHANGED <<pTTsStreamer, live>>
      BY <2>1 DEF CleanTest, CleanLoad, CleanStop, CleanJoined, Go
    <3> QED
      BY <3>1, <3>2, NoneLost
  <2>2. CASE CleanNull(t) /\ as[t] = 0
    <3>1. pTTsStreamer = 0
      BY <2>2 DEF Places, CleanersKnow, CleanNull, Go
    <3>2. SUFFICES ASSUME NEW o \in live'
                   PROVE  \E u \in Threads : Deleting(u, o)'
      BY DEF NothingLeaks
    <3>3. Running /\ o \in live /\ o = 1
      BY <2>2 DEF Places, OneStreamer, CleanNull, Go
    <3>4. PICK u \in Threads : Deleting(u, o)
      BY <3>1, <3>3 DEF NothingLeaks
    <3>5. u # t
      BY ONLY <2>2, <3>3, <3>4, OneIsNotNull DEF Deleting
    <3>6. as'[u] = as[u] /\ pc'[u] = pc[u]
      BY <2>2, <3>5 DEF CleanNull, Go, TypeOK
    <3> QED
      BY <3>4, <3>6 DEF Deleting
  <2>3. CASE CleanNull(t) /\ as[t] # 0
    <3>1. as'[t] = 1 /\ pc'[t] = "clean_stop"
      BY <2>3 DEF CleanNull, Go, TypeOK, Places, OneStreamer
    <3>2. Deleting(t, 1)'
      BY <3>1 DEF Deleting
    <3>3. live' \subseteq {1}
      BY <2>3 DEF CleanNull, Places, OneStreamer
    <3> QED
      BY <3>2, <3>3 DEF NothingLeaks
  <2>4. CASE CleanDelete(t)
    <3>1. as[t] = 1
      BY <2>4 DEF Places, CleanersKnow, Removing, CleanDelete, Go
    <3>2. live' = {}
      BY <2>4, <3>1 DEF Places, OneStreamer, CleanDelete
    <3> QED
      BY <3>2 DEF NothingLeaks
  <2> QED
    BY <1>3, <2>1, <2>2, <2>3, <2>4 DEF CleanStep, CleanNull
<1>4. ASSUME NEW t \in Threads, Read(t) \/ ReadStep(t)
      PROVE  NothingLeaks'
  <2>1. Stays
    BY <1>4 DEF Read, ReadStep, SendLoad, SendHandler, Send, Go, Load, TypeOK,
         Holding, Removing
  <2>2. Running /\ UNCHANGED <<pTTsStreamer, live>>
    BY <1>4 DEF Read, ReadStep, SendLoad, SendHandler, Send, Go
  <2> QED
    BY <2>1, <2>2, NoneLost
<1>5. CASE Start \/ StopCommand \/ Hangup \/ HangupEvent \/ TearDown
  <2>1. Stays
    BY <1>5, ThreadNames DEF Start, StopCommand, Hangup, HangupEvent, TearDown,
         CloseBug, DestroySession, Go, TypeOK, Holding, Removing
  <2>2. Running /\ UNCHANGED <<pTTsStreamer, live>>
    BY <1>5 DEF Start, StopCommand, Hangup, HangupEvent, TearDown, CloseBug,
         DestroySession, Go
  <2> QED
    BY <2>1, <2>2, NoneLost
<1>6. CASE UNCHANGED vars
  BY <1>6 DEF vars, NothingLeaks, Deleting
<1> QED
  BY ThreadNames, <1>1, <1>2, <1>3, <1>4, <1>5, <1>6 DEF Next

-----------------------------------------------------------------------------
(* The invariant holds initially.                                          *)
LEMMA LifeStart == Init => LifeInv
<1> SUFFICES ASSUME Init PROVE LifeInv
  OBVIOUS
<1>1. TypeOK
  <2>1. 0 \in 0..MaxCommands /\ 0 \in 0..MaxReads
    BY CommandsAssumption
  <2> QED
    BY <2>1, NullPointer DEF Init, TypeOK, Labels, Faults
<1>2. Places
  BY ThreadNames
     DEF Init, Places, OneStreamer, CleanersKnow, StartHolds, Cleaning, Removing
<1>3. PublishedIsLive /\ NothingLeaks
  BY DEF Init, PublishedIsLive, NothingLeaks
<1> QED
  BY <1>1, <1>2, <1>3 DEF LifeInv

(* All variables keep their types.                                         *)
LEMMA TypeStep ==
  ASSUME TypeOK, Places, [Next]_vars
  PROVE  TypeOK'
<1>1. Flags'
  BY FlagTypes DEF TypeOK, Flags
<1>2. pc' \in [Threads -> Labels] /\ fault' \in Faults
  BY PcType, FaultType
<1>3. /\ commands' \in 0..MaxCommands /\ reads' \in 0..MaxReads
      /\ created' \in 0..MaxCommands
  BY CountTypes DEF Places
<1>4. pTTsStreamer' \in Pointers /\ as' \in [Threads -> Pointers]
  BY PointerTypes
<1>5. Handler' \in [Ids -> Pointers] /\ hd' \in Pointers
  BY HandlerTypes
<1>6. /\ live' \subseteq Ids /\ play_thread' \subseteq Ids
      /\ deleted' \subseteq Ids /\ client' \subseteq Ids
  BY SetTypes
<1> QED
  BY <1>1, <1>2, <1>3, <1>4, <1>5, <1>6 DEF TypeOK, Flags

(* The invariant is inductive.                                             *)
LEMMA LifeStep == LifeInv /\ [Next]_vars => LifeInv'
BY TypeStep, OneStreamerStep, CleanersKnowStep, StartHoldsStep, PublishedStep,
   LeakStep
   DEF LifeInv, Places

(* Everything keeps its type, for any number of commands and reads.        *)
THEOREM TypeCorrect == Spec => []TypeOK
<1>1. LifeInv => TypeOK
  BY DEF LifeInv
<1> QED
  BY LifeStart, LifeStep, <1>1, PTL DEF Spec

(* The pointer the threads of a call find in sth is null or points to a    *)
(* streamer that exists, whatever threads clean up at the same time.       *)
THEOREM PointerIsSound == Spec => []PublishedIsLive
<1>1. LifeInv => PublishedIsLive
  BY DEF LifeInv
<1> QED
  BY LifeStart, LifeStep, <1>1, PTL DEF Spec

(* A streamer the pointer no longer leads to is in the hands of a thread   *)
(* that is about to delete it.                                             *)
THEOREM NoStreamerIsLost == Spec => []NothingLeaks
<1>1. LifeInv => NothingLeaks
  BY DEF LifeInv
<1> QED
  BY LifeStart, LifeStep, <1>1, PTL DEF Spec

-----------------------------------------------------------------------------
(* The module's code runs on the session thread alone.                     *)
Alone == Readers = {"session"} /\ HangupEvents = FALSE

Starting == {"init", "new", "add_bug", "text", "text_load", "text_stop",
             "text_joining", "text_play", "text_create"}

(* Nothing has gone wrong, and no other thread is in the module.           *)
Quiet ==
  /\ fault = "no"
  /\ pc["event"] = "idle" /\ pc["media"] = "idle" /\ pc["play"] = "idle"
  /\ hangup # "queued"
  /\ call = "gone" => pc["session"] = "idle" /\ bug # "attached"

(* What the session thread loaded is what sth still points to, until it    *)
(* deletes it itself.                                                      *)
Current ==
  /\ pc["session"] \in {"text_load", "clean_load", "send_load"}
       => pTTsStreamer = 1
  /\ pc["session"] \in {"text_stop", "text_joining", "text_play", "text_create",
                        "text_client", "clean_null", "send_handler", "send"}
       => as["session"] = 1 /\ pTTsStreamer = 1
  /\ pc["session"] \in Removing => 1 \in live
  /\ play_thread \subseteq live
  /\ pc["session"] = "clean_delete" => play_thread = {}

(* The handler of the streamer is not a deleted one, and is there once the *)
(* start that made the streamer is over.                                   *)
HandlerIsCurrent ==
  /\ \A h \in deleted : h <= commands
  /\ \A o \in Ids : Handler[o] <= commands /\ (created = 0 => Handler[o] = 0)
  /\ pTTsStreamer = 1 => Handler[1] \notin deleted
  /\ pc["session"] \in Starting
       => /\ commands \notin deleted /\ commands # 0
          /\ pTTsStreamer = 1 => Handler[1] # commands
  /\ pc["session"] \notin Starting /\ pTTsStreamer = 1 => Handler[1] # 0
  /\ pc["session"] = "send" => hd = Handler[1]

(* When the last start is over and its handler has no client, that start   *)
(* is on record as failed.                                                 *)
ClientIsKnown ==
  /\ pc["session"] = "text_client" => Handler[1] = commands
  /\ pc["session"] \notin Starting \cup {"text_client"} /\ pTTsStreamer = 1
       => Handler[1] \in client \/ outcome = "no client"

AloneInv == Quiet /\ Current /\ HandlerIsCurrent /\ ClientIsKnown

(* The one undefined behaviour there is.                                   *)
Ended == fault = "no client" /\ outcome = "no client"

(* Which steps there are when only the session thread runs the module.     *)
LEMMA OnlySession ==
  ASSUME Alone, AloneInv, Next
  PROVE  \/ NewStreamer \/ (StartStep /\ ~NewStreamer)
         \/ CleanStep("session") \/ Read("session") \/ ReadStep("session")
         \/ Start \/ StopCommand \/ Hangup \/ HangupEvent \/ TearDown
<1>1. ~CleanStep("event")
  BY DEF CleanStep, CleanTest, CleanLoad, CleanNull, CleanStop,
       CleanJoined, CleanDelete, Go, AloneInv, Quiet
<1> QED
  BY <1>1 DEF Next, Alone, StartStep

(* Handlers are numbered by commands.                                      *)
LEMMA Numbers ==
  ASSUME TypeOK
  PROVE  /\ commands \in Nat
         /\ \A h \in deleted : h \in Nat \ {0}
         /\ \A o \in Ids : Handler[o] \in Nat
<1>1. commands \in 0..MaxCommands
  BY DEF TypeOK
<1>2. \A h \in deleted : h \in Ids
  BY DEF TypeOK
<1>3. \A o \in Ids : Handler[o] \in Pointers
  BY DEF TypeOK
<1> QED
  BY <1>1, <1>2, <1>3, CommandsAssumption DEF Ids, Pointers

(* The handler of the next command has a number not used before.           *)
LEMMA NextIsNew ==
  ASSUME NEW c \in Nat, NEW h \in Nat, h <= c
  PROVE  h <= c + 1 /\ h # c + 1
OBVIOUS

(* No step of the session thread meets a fault but audio for a handler     *)
(* without a client.                                                       *)
LEMMA QuietStep ==
  ASSUME Alone, LifeInv, AloneInv, [Next]_vars
  PROVE  Quiet' \/ Ended'
<1> USE ThreadNames, OneIsNotNull DEF Alone, LifeInv, TypeOK, Places,
        OneStreamer, CleanersKnow, PublishedIsLive, AloneInv, Quiet,
        Current, HandlerIsCurrent, Starting, Go, UseStreamer,
        JoinPlay, Joining, Threads, Removing, Cleaning, Load
<1>1. CASE InitSession \/ AddBug \/ Text
  BY <1>1 DEF InitSession, AddBug, Text
<1>2. CASE TextLoad \/ TextStop \/ TextJoined
  BY <1>2 DEF TextLoad, TextStop, TextJoined
<1>3. CASE TextPlay \/ TextCreate \/ TextClient
  <2>1. CASE TextPlay
    BY <2>1 DEF TextPlay
  <2>2. CASE TextCreate
    BY <2>2 DEF TextCreate
  <2>3. CASE TextClient
    BY <2>3 DEF TextClient
  <2> QED
    BY ONLY <1>3, <2>1, <2>2, <2>3
<1>4. CASE CleanTest("session") \/ CleanLoad("session") \/ CleanNull("session")
  BY <1>4 DEF CleanTest, CleanLoad, CleanNull
<1>5. CASE CleanStop("session") \/ CleanJoined("session") \/ CleanDelete("session")
  BY <1>5 DEF CleanStop, CleanJoined, CleanDelete
<1>6. CASE Read("session") \/ SendLoad("session")
  BY <1>6 DEF Read, SendLoad
<1>7. CASE SendHandler("session") \/ Send("session")
  <2>1. CASE SendHandler("session")
    BY <2>1 DEF SendHandler
  <2>2. CASE Send("session")
    <3>1. hd = Handler[1] /\ hd \notin deleted /\ pTTsStreamer = 1
      BY <2>2 DEF Send
    <3>2. hd \in client \/ outcome = "no client"
      BY <2>2, <3>1 DEF Send, ClientIsKnown
    <3>3. fault' = "no" \/ Ended'
      BY <2>2, <3>1, <3>2 DEF Send, Ended
    <3> QED
      BY <2>2, <3>3 DEF Send
  <2> QED
    BY ONLY <1>7, <2>1, <2>2
<1>8. CASE Start \/ StopCommand
  BY <1>8 DEF Start, StopCommand
<1>9. CASE Hangup \/ HangupEvent
  BY <1>9 DEF Hangup, HangupEvent
<1>10. CASE CloseBug \/ DestroySession
  BY <1>10 DEF CloseBug, DestroySession
<1>11. CASE NewStreamer
  BY <1>11 DEF NewStreamer
<1>12. CASE UNCHANGED vars
  BY <1>12 DEF vars, AloneInv, Quiet, Current, HandlerIsCurrent
<1> QED
  BY <1>1, <1>2, <1>3, <1>4, <1>5, <1>6, <1>7, <1>8, <1>9, <1>10, <1>11,
       <1>12, OnlySession DEF StartStep, CleanStep, ReadStep, TearDown

(* The session thread keeps up with the pointer, which it alone changes.   *)
LEMMA CurrentStep ==
  ASSUME Alone, LifeInv, AloneInv, [Next]_vars
  PROVE  Current'
<1> USE ThreadNames DEF LifeInv, TypeOK, Places, OneStreamer, CleanersKnow,
        Cleaning, Removing, PublishedIsLive, AloneInv, Quiet,
        Current, Go, Load
<1>1. CASE InitSession \/ AddBug \/ Text
  BY <1>1 DEF InitSession, AddBug, Text
<1>2. CASE TextLoad \/ TextStop \/ TextJoined
  BY <1>2 DEF TextLoad, TextStop, TextJoined
<1>3. CASE TextCreate \/ TextClient
  BY <1>3 DEF TextCreate, TextClient
<1>4. CASE TextPlay
  <2>1. 1 \in live
    BY <1>4, OneIsNotNull DEF LifeInv, Places, OneStreamer, PublishedIsLive,
         AloneInv, Quiet, Current, TextPlay, Go
  <2>2. play_thread' \subseteq live'
    BY <1>4, <2>1 DEF AloneInv, Current, TextPlay, Go
  <2> QED
    BY <1>4, <2>2, ThreadNames DEF LifeInv, TypeOK, AloneInv, Current,
         Removing, TextPlay, Go
<1>5. CASE CleanTest("session") \/ CleanLoad("session") \/ CleanNull("session")
  BY <1>5 DEF CleanTest, CleanLoad, CleanNull
<1>6. CASE CleanStop("session") \/ CleanJoined("session") \/ CleanDelete("session")
  <2>1. CASE CleanStop("session")
    BY <2>1 DEF CleanStop
  <2>2. CASE CleanJoined("session")
    BY <2>2 DEF CleanJoined
  <2>3. CASE CleanDelete("session")
    BY <2>3 DEF CleanDelete
  <2> QED
    BY ONLY <1>6, <2>1, <2>2, <2>3
<1>7. CASE Read("session") \/ SendLoad("session")
  BY <1>7 DEF Read, SendLoad
<1>8. CASE SendHandler("session") \/ Send("session")
  BY <1>8 DEF SendHandler, Send
<1>9. CASE Start \/ StopCommand
  BY <1>9 DEF Start, StopCommand
<1>10. CASE Hangup \/ HangupEvent
  BY <1>10 DEF Hangup, HangupEvent
<1>11. CASE CloseBug \/ DestroySession
  BY <1>11 DEF CloseBug, DestroySession
<1>12. CASE NewStreamer
  BY <1>12, NewStreamerFacts DEF NewStreamer
<1>13. CASE UNCHANGED vars
  BY <1>13 DEF vars, AloneInv, Quiet, Current, HandlerIsCurrent
<1> QED
  BY <1>1, <1>2, <1>3, <1>4, <1>5, <1>6, <1>7, <1>8, <1>9, <1>10, <1>11,
       <1>12, <1>13, OnlySession DEF StartStep, CleanStep, ReadStep,
       TearDown

(* And with the handler it creates and deletes.                            *)
LEMMA HandlerStep ==
  ASSUME Alone, LifeInv, AloneInv, [Next]_vars
  PROVE  HandlerIsCurrent'
<1> USE ThreadNames, OneIsNotNull DEF LifeInv, TypeOK, Places, OneStreamer,
        CleanersKnow, Cleaning, Removing, AloneInv, Quiet, Current,
        HandlerIsCurrent, Starting, Go
<1>1. CASE InitSession \/ AddBug
  BY <1>1 DEF InitSession, AddBug
<1>2. CASE Text
  <2>1. pTTsStreamer = 1 => sth /\ pTTsStreamer # 0
    BY <1>2, OneIsNotNull DEF LifeInv, Places, OneStreamer
  <2>2. pTTsStreamer = 1 => pc'["session"] = "text_load"
    BY <1>2, <2>1, ThreadNames DEF LifeInv, TypeOK, Text, Go
  <2> QED
    BY <1>2, <2>2, ThreadNames DEF LifeInv, TypeOK, AloneInv,
         HandlerIsCurrent, Starting, Text, Go
<1>3. CASE TextLoad \/ TextStop \/ TextJoined
  BY <1>3 DEF TextLoad, TextStop, TextJoined
<1>4. CASE TextPlay
  BY <1>4 DEF TextPlay
<1>5. CASE TextCreate
  <2>1. /\ as["session"] = 1 /\ pTTsStreamer = 1 /\ 1 \in Ids
        /\ created # 0 /\ UNCHANGED <<created, commands>>
    BY <1>5, OneIsAnId, OneIsNotNull DEF LifeInv, Places, OneStreamer,
         AloneInv, Current, TextCreate, Go
  <2>2. /\ Handler' = [Handler EXCEPT ![1] = commands]
        /\ deleted' = deleted \cup ({Handler[1]} \ {0})
        /\ pc' = [pc EXCEPT !["session"] = "text_client"]
        /\ pTTsStreamer' = 1
    BY <1>5, <2>1 DEF TextCreate, Go
  <2>3. commands \notin deleted' /\ commands # 0
    BY <1>5, <2>1, <2>2 DEF AloneInv, HandlerIsCurrent, Starting, TextCreate, Go
  <2>4. commands <= commands
    <3>1. commands \in 0..MaxCommands
      BY ONLY LifeInv DEF LifeInv, TypeOK
    <3> QED
      BY ONLY <3>1, CommandsAssumption
  <2>5. Handler'[1] = commands
    BY <1>5, <2>1, <2>2 DEF LifeInv, TypeOK
  <2>6. pc'["session"] = "text_client"
    BY <1>5, <2>2, ThreadNames DEF LifeInv, TypeOK
  <2>7. \A o \in Ids : Handler'[o] <= commands
    BY <1>5, <2>1, <2>2, <2>4 DEF LifeInv, TypeOK, AloneInv, HandlerIsCurrent
  <2>8. \A h \in deleted' : h <= commands
    BY <1>5, <2>1, <2>2 DEF AloneInv, HandlerIsCurrent
  <2> QED
    BY <1>5, <2>1, <2>2, <2>3, <2>5, <2>6, <2>7, <2>8 DEF HandlerIsCurrent,
         Starting
<1>6. CASE CleanTest("session") \/ CleanLoad("session") \/ CleanNull("session")
  BY <1>6 DEF CleanTest, CleanLoad, CleanNull
<1>7. CASE CleanStop("session") \/ CleanJoined("session")
  BY <1>7 DEF CleanStop, CleanJoined
<1>8. CASE CleanDelete("session")
  <2>1. as["session"] = 1 /\ pTTsStreamer = 0 /\ 1 \in Ids
    BY <1>8, ThreadNames, OneIsAnId DEF LifeInv, Places, OneStreamer,
         CleanersKnow, Removing, Cleaning, CleanDelete, Go
  <2>2. \A h \in deleted' : h <= commands
    BY <1>8, <2>1 DEF AloneInv, HandlerIsCurrent, CleanDelete
  <2>3. pc'["session"] = "idle" /\ pTTsStreamer' # 1
    BY <1>8, <2>1, OneIsNotNull, ThreadNames DEF LifeInv, TypeOK, CleanDelete,
         Go
  <2> QED
    BY <1>8, <2>2, <2>3 DEF AloneInv, HandlerIsCurrent, Starting, CleanDelete
<1>9. CASE Read("session") \/ SendLoad("session")
  BY <1>9 DEF Read, SendLoad
<1>10. CASE Send("session")
  BY <1>10 DEF Send
<1>11. CASE SendHandler("session")
  <2>1. as["session"] = 1 /\ pTTsStreamer = 1 /\ 1 \in live
    BY <1>11, OneIsNotNull DEF LifeInv, PublishedIsLive, AloneInv, Quiet,
         Current, SendHandler, Go
  <2>2. hd' = Handler[1] /\ pc'["session"] = "send" /\ pc["session"] = "send_handler"
    BY <1>11, <2>1, ThreadNames DEF LifeInv, TypeOK, SendHandler, Go
  <2> QED
    BY <1>11, <2>1, <2>2 DEF AloneInv, HandlerIsCurrent, Starting, SendHandler
<1>12. CASE Start
  <2>1. \A h \in deleted : h <= commands + 1 /\ h # commands + 1
    BY <1>12, Numbers, NextIsNew DEF LifeInv, AloneInv, HandlerIsCurrent
  <2>2. \A o \in Ids : Handler[o] <= commands + 1 /\ Handler[o] # commands + 1
    BY <1>12, Numbers, NextIsNew DEF LifeInv, AloneInv, HandlerIsCurrent
  <2>3. pc'["session"] = "init"
    BY <1>12, ThreadNames DEF LifeInv, TypeOK, Start, Go
  <2>4. commands + 1 # 0
    BY <1>12, CountsUp DEF LifeInv
  <2>5. pTTsStreamer = 1 => 1 \in Ids
    BY <1>12, OneIsAnId, OneIsNotNull DEF LifeInv, Places, OneStreamer
  <2> QED
    BY <1>12, <2>1, <2>2, <2>3, <2>4, <2>5 DEF AloneInv, HandlerIsCurrent,
         Starting, Start
<1>13. CASE StopCommand
  <2>1. \A h \in deleted : h <= commands + 1
    BY <1>13, Numbers, NextIsNew DEF LifeInv, AloneInv, HandlerIsCurrent
  <2>2. \A o \in Ids : Handler[o] <= commands + 1
    BY <1>13, Numbers, NextIsNew DEF LifeInv, AloneInv, HandlerIsCurrent
  <2>3. pc'["session"] = "clean" /\ pc["session"] = "idle"
    BY <1>13, ThreadNames DEF LifeInv, TypeOK, StopCommand, Go
  <2> QED
    BY <1>13, <2>1, <2>2, <2>3 DEF AloneInv, HandlerIsCurrent, Starting,
         StopCommand
<1>14. CASE Hangup \/ HangupEvent
  BY <1>14 DEF Hangup, HangupEvent
<1>15. CASE CloseBug \/ DestroySession
  BY <1>15 DEF CloseBug, DestroySession
<1>16. CASE NewStreamer
  <2>1. Handler[1] = 0 /\ commands # 0 /\ created = 0 /\ 1 \in Ids
    BY <1>16, NewStreamerFacts DEF LifeInv, Places, AloneInv, HandlerIsCurrent
  <2>2. 0 \notin deleted
    BY ONLY LifeInv, Numbers DEF LifeInv
  <2>3. pc'["session"] = "add_bug" /\ pc["session"] = "new"
    BY <1>16, ThreadNames DEF LifeInv, TypeOK, NewStreamer, Go
  <2>4. created' # 0
    <3>1. created' = 1
      BY <1>16, NewStreamerFacts DEF LifeInv, Places
    <3> QED
      BY ONLY <3>1, OneIsNotNull
  <2> QED
    BY <1>16, <2>1, <2>2, <2>3, <2>4 DEF AloneInv, HandlerIsCurrent, Starting,
         NewStreamer
<1>18. CASE TextClient
  BY <1>18 DEF TextClient
<1>17. CASE UNCHANGED vars
  BY <1>17 DEF vars, AloneInv, Quiet, Current, HandlerIsCurrent
<1> QED
  BY <1>1, <1>2, <1>3, <1>4, <1>5, <1>6, <1>7, <1>8, <1>9, <1>10, <1>11,
       <1>12, <1>13, <1>14, <1>15, <1>16, <1>17, <1>18, OnlySession DEF StartStep,
       CleanStep, ReadStep, TearDown

(* And with what the last start led to.                                    *)
LEMMA ClientStep ==
  ASSUME Alone, LifeInv, AloneInv, [Next]_vars
  PROVE  ClientIsKnown'
<1> USE ThreadNames, OneIsNotNull DEF LifeInv, TypeOK, Places, OneStreamer,
        AloneInv, ClientIsKnown, Starting, Go
<1>1. CASE StartStep /\ ~NewStreamer /\ ~Text /\ ~TextCreate /\ ~TextClient
  BY <1>1 DEF StartStep, InitSession, AddBug, TextLoad, TextStop, TextJoined,
       TextPlay
<1>2. CASE Text
  <2>1. pTTsStreamer = 1 => pc'["session"] = "text_load"
    BY <1>2 DEF Text
  <2>2. pc'["session"] # "text_client" /\ UNCHANGED pTTsStreamer
    BY <1>2 DEF Text
  <2> QED
    BY <2>1, <2>2
<1>3. CASE NewStreamer
  BY <1>3 DEF NewStreamer
<1>4. CASE TextCreate
  <2>1. as["session"] = 1 /\ 1 \in Ids
    BY <1>4, OneIsAnId DEF Current, TextCreate
  <2>2. Handler'[1] = commands' /\ pc'["session"] = "text_client"
    BY <1>4, <2>1 DEF TextCreate
  <2> QED
    BY <2>2
<1>5. CASE TextClient
  <2>1. /\ Handler[1] = commands /\ pc'["session"] = "idle"
        /\ UNCHANGED Handler
    BY <1>5 DEF TextClient
  <2>2. outcome' = "no client" \/ commands \in client'
    BY <1>5 DEF TextClient
  <2> QED
    BY <2>1, <2>2
<1>6. CASE CleanStep("session")
  BY <1>6 DEF CleanStep, CleanTest, CleanLoad, CleanNull, CleanStop,
       CleanJoined, CleanDelete
<1>7. CASE Read("session") \/ ReadStep("session")
  BY <1>7 DEF Read, ReadStep, SendLoad, SendHandler, Send
<1>8. CASE Start \/ StopCommand \/ Hangup \/ HangupEvent \/ TearDown
  BY <1>8 DEF Start, StopCommand, Hangup, HangupEvent, TearDown, CloseBug,
       DestroySession
<1>9. CASE UNCHANGED vars
  BY <1>9 DEF vars
<1> QED
  BY <1>1, <1>2, <1>3, <1>4, <1>5, <1>6, <1>7, <1>8, <1>9, OnlySession

(* The invariant of the session thread holds initially.                    *)
LEMMA AloneStart == Init => AloneInv
<1>1. \A o \in Ids : 0 <= 0
  OBVIOUS
<1> QED
  BY <1>1, ThreadNames, OneIsNotNull
     DEF Init, AloneInv, Quiet, Current, HandlerIsCurrent, ClientIsKnown,
         Starting, Removing, Threads

(* It lasts until the process is at its end.                               *)
LEMMA AloneSteps ==
  ASSUME Alone
  PROVE  LifeInv /\ AloneInv /\ [Next]_vars => AloneInv' \/ Ended'
BY QuietStep, CurrentStep, HandlerStep, ClientStep DEF AloneInv

(* Then nothing happens any more.                                          *)
LEMMA EndedStays == Ended /\ [Next]_vars => Ended'
<1> SUFFICES ASSUME Ended, [Next]_vars PROVE Ended'
  OBVIOUS
<1>1. \A t \in Threads : ~CleanStep(t) /\ ~Read(t) /\ ~ReadStep(t)
  BY DEF Ended, Go, CleanStep, CleanTest, CleanLoad, CleanNull, CleanStop,
       CleanJoined, CleanDelete, Read, ReadStep, SendLoad, SendHandler, Send
<1>2. ~StartStep
  BY DEF Ended, Go, StartStep, InitSession, NewStreamer, AddBug, Text,
       TextLoad, TextStop, TextJoined, TextPlay, TextCreate, TextClient
<1>3. ~Start /\ ~StopCommand /\ ~Hangup /\ ~HangupEvent /\ ~TearDown
  BY DEF Ended, Go, Start, StopCommand, Hangup, HangupEvent, TearDown,
       CloseBug, DestroySession
<1> QED
  BY <1>1, <1>2, <1>3, ThreadNames DEF Next, vars, Ended

(* On the session thread alone, any sequence of starts, stops, audio       *)
(* frames and the hangup, of any length, with failing allocations, failing *)
(* starts and failing media bugs, uses only streamers and handlers that    *)
(* are there, and joins and deletes each streamer once.  What can still go *)
(* wrong is audio for a handler whose start failed before it had a client, *)
(* and only until the next start.                                          *)
THEOREM SafeAlone ==
  ASSUME Alone
  PROVE  Spec => []AloneIsSafe
<1> DEFINE Inv == AloneInv \/ Ended
<1>1. LifeInv /\ Inv /\ [Next]_vars => Inv'
  BY AloneSteps, EndedStays
<1>2. Inv => AloneIsSafe
  BY DEF AloneInv, Quiet, Ended, AloneIsSafe
<1>3. Init => Inv
  BY AloneStart
<1> HIDE DEF Inv
<1> QED
  BY LifeStart, LifeStep, <1>1, <1>2, <1>3, PTL DEF Spec

-----------------------------------------------------------------------------
(* No hangup event: the session thread is the only one that starts, stops  *)
(* and deletes the streamer; any thread may read audio.                    *)
OneOwner == HangupEvents = FALSE

Sole == hangup # "queued" /\ pc["event"] = "idle"

(* The streamer the session thread works on is the published one until it  *)
(* has stored null, and then its own; where its playing thread is.         *)
OwnerKnows ==
  /\ pc["session"] \in {"text_load", "clean_load"} => pTTsStreamer = 1
  /\ pc["session"] \in {"text_stop", "text_joining", "text_play", "text_create",
                        "clean_null"}
       => as["session"] = 1 /\ pTTsStreamer = 1
  /\ pc["session"] \in Removing => 1 \in live
  /\ play_thread \subseteq live
  /\ pc["session"] \in {"text_play", "clean_delete"} => play_thread = {}

(* A start makes a handler with a number not used before.                  *)
Numbered ==
  /\ created = 0 => \A o \in Ids : Handler[o] = 0
  /\ \A h \in deleted : h <= commands
  /\ \A o \in Ids : Handler[o] <= commands
  /\ pc["session"] \in Starting
       => /\ \A h \in deleted : h < commands
          /\ \A o \in Ids : Handler[o] < commands

OwnerInv == Sole /\ OwnerKnows /\ Numbered

Reading == {"idle", "send_load", "send_handler", "send"}

(* A thread that reads audio leaves the streamer and the owner alone, who  *)
(* may be that thread.                                                     *)
LEMMA ReadKeeps ==
  ASSUME TypeOK, NEW t \in Readers, Read(t) \/ ReadStep(t)
  PROVE  /\ UNCHANGED <<sth, pTTsStreamer, objects, commands, hangup>>
         /\ pc'["event"] = pc["event"]
         /\ \/ pc'["session"] = pc["session"] /\ as'["session"] = as["session"]
            \/ pc["session"] \in Reading /\ pc'["session"] \in Reading
<1>1. t \in Threads /\ t # "event"
  BY ReadersAssumption DEF Threads
<1> USE ThreadNames DEF TypeOK, Go, Load, Reading
<1>2. CASE Read(t)
  BY <1>1, <1>2 DEF Read
<1>3. CASE SendLoad(t)
  BY <1>1, <1>3 DEF SendLoad
<1>4. CASE SendHandler(t) \/ Send(t)
  BY <1>1, <1>4 DEF SendHandler, Send
<1> QED  BY <1>2, <1>3, <1>4 DEF ReadStep

(* Which steps there are.                                                  *)
LEMMA OwnerSteps ==
  ASSUME OneOwner, Sole, Next
  PROVE  \/ StartStep \/ CleanStep("session")
         \/ \E t \in Readers : Read(t) \/ ReadStep(t)
         \/ Start \/ StopCommand \/ Hangup \/ TearDown
<1>1. ~CleanStep("event") /\ ~HangupEvent
  BY DEF CleanStep, CleanTest, CleanLoad, CleanNull, CleanStop,
       CleanJoined, CleanDelete, HangupEvent, Go, Sole
<1> QED  BY <1>1 DEF Next

LEMMA SoleStep ==
  ASSUME OneOwner, LifeInv, OwnerInv, [Next]_vars
  PROVE  Sole'
<1> USE ThreadNames DEF LifeInv, TypeOK, OwnerInv, Sole, Go, Threads
<1>1. CASE StartStep
  BY <1>1 DEF StartStep, InitSession, NewStreamer, AddBug, Text, TextLoad,
              TextStop, TextJoined, TextPlay, TextCreate, TextClient
<1>2. CASE CleanStep("session")
  BY <1>2 DEF CleanStep, CleanTest, CleanLoad, CleanNull, CleanStop,
              CleanJoined, CleanDelete
<1>3. ASSUME NEW t \in Readers, Read(t) \/ ReadStep(t) PROVE Sole'
  BY <1>3, ReadKeeps
<1>4. CASE Start \/ StopCommand \/ Hangup \/ TearDown
  BY <1>4 DEF Start, StopCommand, Hangup, TearDown, CloseBug, DestroySession,
              OneOwner
<1>5. CASE UNCHANGED vars
  BY <1>5 DEF vars
<1> QED  BY <1>1, <1>2, <1>3, <1>4, <1>5, OwnerSteps

LEMMA KnowsStep ==
  ASSUME OneOwner, LifeInv, OwnerInv, [Next]_vars
  PROVE  OwnerKnows'
<1> USE ThreadNames DEF LifeInv, TypeOK, Places, OneStreamer, CleanersKnow,
        Cleaning, Removing, PublishedIsLive, OwnerInv, OwnerKnows, Go, Load
<1>1. CASE InitSession \/ AddBug \/ Text
  BY <1>1 DEF InitSession, AddBug, Text
<1>2. CASE TextLoad \/ TextJoined
  BY <1>2 DEF TextLoad, TextJoined
<1>3. CASE TextStop
  BY <1>3 DEF TextStop
<1>4. CASE TextPlay
  <2>1. 1 \in live
    BY <1>4, OneIsNotNull DEF TextPlay
  <2>2. play_thread' \subseteq live'
    BY <1>4, <2>1 DEF TextPlay
  <2> QED  BY <1>4, <2>2 DEF TextPlay
<1>5. CASE TextCreate \/ TextClient
  BY <1>5 DEF TextCreate, TextClient
<1>6. CASE CleanTest("session") \/ CleanLoad("session") \/ CleanNull("session")
  BY <1>6, OneIsNotNull DEF CleanTest, CleanLoad, CleanNull
<1>7. CASE CleanStop("session")
  BY <1>7 DEF CleanStop
<1>8. CASE CleanJoined("session")
  BY <1>8 DEF CleanJoined
<1>9. CASE CleanDelete("session")
  BY <1>9 DEF CleanDelete
<1>10. ASSUME NEW t \in Readers, Read(t) \/ ReadStep(t) PROVE OwnerKnows'
  BY <1>10, ReadKeeps DEF Reading
<1>11. CASE Start \/ StopCommand
  BY <1>11 DEF Start, StopCommand
<1>12. CASE Hangup \/ TearDown
  BY <1>12 DEF Hangup, TearDown, CloseBug, DestroySession
<1>13. CASE NewStreamer
  BY <1>13, NewStreamerFacts DEF NewStreamer
<1>14. CASE UNCHANGED vars
  BY <1>14 DEF vars
<1> QED
  BY <1>1, <1>2, <1>3, <1>4, <1>5, <1>6, <1>7, <1>8, <1>9, <1>10, <1>11,
     <1>12, <1>13, <1>14, OwnerSteps DEF StartStep, CleanStep

LEMMA NumberedStep ==
  ASSUME OneOwner, LifeInv, OwnerInv, [Next]_vars
  PROVE  Numbered'
<1> USE ThreadNames DEF LifeInv, OwnerInv, Numbered, Starting, Go
<1>1. /\ commands \in Nat /\ \A h \in deleted : h \in Nat
      /\ \A o \in Ids : Handler[o] \in Nat
  BY Numbers
<1>2. CASE StartStep /\ ~NewStreamer /\ ~TextCreate
  BY <1>2 DEF StartStep, InitSession, AddBug, Text, TextLoad, TextStop,
              TextJoined, TextPlay, TextClient, TypeOK
<1>3. CASE NewStreamer
  <2>1. created' # 0
    <3>1. created' = 1
      BY <1>3, NewStreamerFacts DEF Places
    <3> QED  BY ONLY <3>1, OneIsNotNull
  <2>2. pc["session"] = "new" /\ UNCHANGED <<commands, Handler, deleted>>
    BY <1>3 DEF NewStreamer
  <2> QED  BY <2>1, <2>2
<1>4. CASE TextCreate
  <2>1. as["session"] = 1 /\ 1 \in Ids /\ created # 0
    BY <1>4, OneIsAnId, OneIsNotNull DEF Places, OneStreamer, OwnerKnows,
         TextCreate
  <2>2. /\ Handler' = [Handler EXCEPT ![1] = commands]
        /\ deleted' = deleted \cup ({Handler[1]} \ {0})
        /\ pc'["session"] = "text_client" /\ UNCHANGED <<created, commands>>
    BY <1>4, <2>1 DEF TextCreate, TypeOK
  <2>3. \A o \in Ids : Handler'[o] <= commands
    <3>1. commands <= commands
      BY <1>1
    <3>2. Handler \in [Ids -> Pointers]
      BY DEF TypeOK
    <3> QED  BY <2>1, <2>2, <3>1, <3>2
  <2>4. \A h \in deleted' : h <= commands
    BY <2>1, <2>2
  <2> QED  BY <2>1, <2>2, <2>3, <2>4
<1>5. CASE CleanStep("session") /\ ~CleanDelete("session")
  BY <1>5 DEF CleanStep, CleanTest, CleanLoad, CleanNull, CleanStop,
              CleanJoined, TypeOK
<1>6. CASE CleanDelete("session")
  <2>1. as["session"] = 1 /\ 1 \in Ids
    BY <1>6, OneIsAnId DEF Places, OneStreamer, CleanersKnow, Removing,
         Cleaning, CleanDelete
  <2>2. \A h \in deleted' : h <= commands
    BY <1>6, <2>1 DEF CleanDelete
  <2>3. pc'["session"] = "idle"
    BY <1>6 DEF CleanDelete, TypeOK
  <2> QED  BY <1>6, <2>2, <2>3 DEF CleanDelete
<1>7. ASSUME NEW t \in Readers, Read(t) \/ ReadStep(t) PROVE Numbered'
  BY <1>7, ReadKeeps DEF Reading
<1>8. CASE Start \/ StopCommand
  <2>1. /\ commands' = commands + 1 /\ UNCHANGED <<created, Handler, deleted>>
    BY <1>8 DEF Start, StopCommand
  <2>2. \A h \in deleted : h < commands + 1 /\ h <= commands + 1
    BY <1>1
  <2>3. \A o \in Ids : Handler[o] < commands + 1 /\ Handler[o] <= commands + 1
    BY <1>1
  <2> QED  BY <2>1, <2>2, <2>3
<1>9. CASE Hangup \/ TearDown
  BY <1>9 DEF Hangup, TearDown, CloseBug, DestroySession, TypeOK
<1>10. CASE UNCHANGED vars
  BY <1>10 DEF vars
<1> QED
  BY <1>2, <1>3, <1>4, <1>5, <1>6, <1>7, <1>8, <1>9, <1>10, OwnerSteps
     DEF StartStep

(* The owner's invariant holds initially.                                  *)
LEMMA OwnerStart == ASSUME OneOwner PROVE Init => OwnerInv
<1> SUFFICES ASSUME Init PROVE OwnerInv
  OBVIOUS
<1>1. Sole /\ OwnerKnows
  BY ThreadNames DEF Init, Sole, OwnerKnows, Removing
<1>2. Numbered
  <2>1. 0 <= 0
    OBVIOUS
  <2> QED  BY <2>1, ThreadNames DEF Init, Numbered, Starting
<1> QED  BY <1>1, <1>2 DEF OwnerInv

(* And it is inductive.                                                    *)
LEMMA OwnerStep ==
  ASSUME OneOwner
  PROVE  LifeInv /\ OwnerInv /\ [Next]_vars => OwnerInv'
BY SoleStep, KnowsStep, NumberedStep DEF OwnerInv

-----------------------------------------------------------------------------
(* Steps that ForkSession makes and the owner does not see.                *)
Inside == {"text_joining", "text_play", "text_create", "clean_joining",
           "clean_delete"}

(* While there is a streamer, the stage is told by the session thread.     *)
LEMMA StageOfPlaces ==
  ASSUME LifeInv, live # {}
  PROVE  /\ created = 1 /\ live = {1} /\ HandlerInCharge = Handler[1]
         /\ pc["session"] \in {"text_joining", "text_play"}
              => Stage = "starting"
         /\ pc["session"] = "text_create" => Stage = "creating"
         /\ pc["session"] \in {"clean_joining", "clean_delete"}
              => Stage = "deleting"
         /\ pc["session"] \notin Inside => Stage = "idle"
<1>1. created = 1 /\ live = {1}
  BY DEF LifeInv, Places, OneStreamer
<1> QED  BY <1>1 DEF Stage, HandlerInCharge, Inside

(* A step outside the calls of the streamer is none of it.                 *)
LEMMA NotSeen ==
  ASSUME pc["session"] \notin Inside, pc'["session"] \notin Inside,
         UNCHANGED <<live, play_thread, Handler, deleted, created>>
  PROVE  UNCHANGED Life!lifeVars
BY DEF Life!lifeVars, Stage, HandlerInCharge, Inside

(* The first state of the call is that of a streamer nobody called.        *)
LEMMA LifeBegins == Init => Life!Init
<1> SUFFICES ASSUME Init PROVE Life!Init
  OBVIOUS
<1>1. created = 0 /\ live = {} /\ pc["session"] = "idle"
  BY ThreadNames DEF Init
<1>2. Stage = "idle" /\ HandlerInCharge = 0
  BY <1>1 DEF Stage, HandlerInCharge
<1> QED  BY <1>2 DEF Init, Life!Init

(* stop_play_thread of a start.                                            *)
LEMMA StopSeen ==
  ASSUME LifeInv, OwnerInv, TextStop \/ CleanStop("session")
  PROVE  Life!Stop
<1> USE ThreadNames DEF LifeInv, TypeOK, OwnerInv, OwnerKnows, Removing, Go
<1>1. 1 \in live
  BY OneIsNotNull DEF TextStop, CleanStop, PublishedIsLive
<1>2. /\ pc["session"] \notin Inside /\ UNCHANGED objects
      /\ pc'["session"] \in {"text_joining", "text_play", "clean_joining",
                             "clean_delete"}
  BY DEF TextStop, CleanStop, Inside
<1>3. created = 1 /\ live = {1} /\ Stage = "idle"
  BY <1>1, <1>2, StageOfPlaces
<1>4. Stage' \in {"starting", "deleting"}
  BY <1>2, <1>3, OneIsNotNull DEF Stage
<1>5. UNCHANGED HandlerInCharge
  BY <1>2 DEF HandlerInCharge
<1> QED  BY <1>2, <1>3, <1>4, <1>5 DEF Life!Stop

(* join, when the playing thread has ended.                                *)
LEMMA JoinSeen ==
  ASSUME LifeInv, OwnerInv, TextJoined \/ CleanJoined("session")
  PROVE  [Life!Next]_(Life!lifeVars)
<1> USE ThreadNames DEF LifeInv, TypeOK, OwnerInv, OwnerKnows, Removing, Go
<1>1. 1 \in live
  BY OneIsNotNull DEF TextJoined, CleanJoined, PublishedIsLive
<1>2. created = 1 /\ live = {1}
  BY <1>1, StageOfPlaces
<1>3. as["session"] = 1
  BY DEF TextJoined, CleanJoined, CleanersKnow, Places
<1>4. /\ play_thread' = {} /\ UNCHANGED <<created, live, Handler, deleted>>
      /\ Stage \in {"starting", "deleting"} /\ Stage' = Stage
  <2>1. CASE TextJoined
    BY <1>2, <1>3, <2>1 DEF TextJoined, Stage
  <2>2. CASE CleanJoined("session")
    BY <1>2, <1>3, <2>2 DEF CleanJoined, Stage
  <2> QED  BY <2>1, <2>2
<1>5. UNCHANGED HandlerInCharge
  BY <1>4 DEF HandlerInCharge
<1>6. CASE play_thread # {}
  BY <1>4, <1>5, <1>6 DEF Life!Next, Life!Joined
<1>7. CASE play_thread = {}
  BY <1>4, <1>5, <1>7 DEF Life!lifeVars
<1> QED  BY <1>6, <1>7

(* start_play_tts_thread, when the thread before it was joined.            *)
LEMMA PlaySeen ==
  ASSUME LifeInv, OwnerInv, TextPlay
  PROVE  Life!Play
<1> USE ThreadNames DEF LifeInv, TypeOK, OwnerInv, OwnerKnows, Go
<1>1. 1 \in live
  BY OneIsNotNull DEF TextPlay, PublishedIsLive
<1>2. created = 1 /\ live = {1} /\ Stage = "starting"
  BY <1>1, StageOfPlaces DEF TextPlay
<1>3. /\ play_thread = {} /\ play_thread' # {}
      /\ UNCHANGED <<created, live, Handler, deleted>>
  BY DEF TextPlay
<1>4. Stage' = "creating"
  BY <1>2, <1>3, OneIsNotNull DEF TextPlay, Stage
<1>5. UNCHANGED HandlerInCharge
  BY <1>3 DEF HandlerInCharge
<1> QED  BY <1>2, <1>3, <1>4, <1>5 DEF Life!Play

(* create_stream: the new handler has a number of its own.                 *)
LEMMA CreateSeen ==
  ASSUME LifeInv, OwnerInv, TextCreate
  PROVE  Life!Create
<1> USE ThreadNames DEF LifeInv, TypeOK, OwnerInv, OwnerKnows, Go
<1>1. 1 \in live
  BY OneIsNotNull DEF TextCreate, PublishedIsLive
<1>2. /\ created = 1 /\ live = {1} /\ Stage = "creating"
      /\ HandlerInCharge = Handler[1]
  BY <1>1, StageOfPlaces DEF TextCreate
<1>3. as["session"] = 1 /\ 1 \in Ids
  BY <1>1 DEF TextCreate
<1>4. /\ Handler' = [Handler EXCEPT ![1] = commands]
      /\ deleted' = deleted \cup ({Handler[1]} \ {0})
      /\ pc'["session"] = "text_client"
      /\ UNCHANGED <<created, live, play_thread>>
  BY <1>3 DEF TextCreate
<1>5. Stage' = "idle"
  BY <1>2, <1>4 DEF Stage
<1>6. HandlerInCharge' = commands
  BY <1>2, <1>3, <1>4 DEF HandlerInCharge
<1>7. /\ commands \in 1..MaxCommands /\ commands > Handler[1]
      /\ \A d \in deleted : commands > d
  <2>1. /\ \A h \in deleted : h < commands
        /\ \A o \in Ids : Handler[o] < commands
    BY DEF Numbered, Starting, TextCreate
  <2>2. /\ commands \in Nat /\ \A h \in deleted : h \in Nat
        /\ \A o \in Ids : Handler[o] \in Nat
    BY Numbers
  <2>3. commands # 0 /\ commands \in 0..MaxCommands
    BY <1>2 DEF Places, OneStreamer
  <2>4. commands \in 1..MaxCommands
    BY ONLY <2>3, CommandsAssumption
  <2> QED  BY <1>3, <2>1, <2>2, <2>4
<1> QED
  BY <1>2, <1>4, <1>5, <1>6, <1>7 DEF Life!Create, Life!Retire, Life!Handlers

(* delete: the handler goes with its streamer.                             *)
LEMMA DeleteSeen ==
  ASSUME LifeInv, OwnerInv, CleanDelete("session")
  PROVE  Life!Delete
<1> USE ThreadNames DEF LifeInv, TypeOK, OwnerInv, OwnerKnows, Removing, Go
<1>1. 1 \in live /\ play_thread = {}
  BY DEF CleanDelete
<1>2. /\ created = 1 /\ live = {1} /\ Stage = "deleting"
      /\ HandlerInCharge = Handler[1]
  BY <1>1, StageOfPlaces DEF CleanDelete
<1>3. as["session"] = 1
  BY DEF CleanDelete, CleanersKnow, Places
<1>4. /\ live' = {} /\ created' = 1 /\ play_thread' = {}
      /\ deleted' = deleted \cup ({Handler[1]} \ {0})
  <2>1. /\ live' = live \ {as["session"]} /\ created' = created
        /\ play_thread' = play_thread
        /\ deleted' = deleted \cup ({Handler[as["session"]]} \ {0})
    BY DEF CleanDelete
  <2>2. {1} \ {1} = {}
    OBVIOUS
  <2>3. live' = {}
    BY ONLY <1>2, <1>3, <2>1, <2>2
  <2>4. created' = 1 /\ play_thread' = {}
    BY ONLY <1>1, <1>2, <2>1
  <2>5. deleted' = deleted \cup ({Handler[1]} \ {0})
    BY ONLY <1>3, <2>1
  <2> QED  BY ONLY <2>3, <2>4, <2>5
<1>5. Stage' = "gone" /\ HandlerInCharge' = 0
  <2>1. created' > 0
    BY ONLY <1>4
  <2>2. Stage' = "gone"
    BY ONLY <1>4, <2>1 DEF Stage
  <2>3. HandlerInCharge' = 0
    BY ONLY <1>4 DEF HandlerInCharge
  <2> QED  BY ONLY <2>2, <2>3
<1> QED  BY <1>1, <1>2, <1>4, <1>5 DEF Life!Delete, Life!Retire

(* Making the streamer is not seen: it has no handler yet.                 *)
LEMMA MakingNotSeen ==
  ASSUME LifeInv, OwnerInv, NewStreamer
  PROVE  UNCHANGED Life!lifeVars
<1> USE ThreadNames DEF LifeInv, Places
<1>1. /\ created = 0 /\ created' = 1 /\ live' = {1} /\ 1 \in Ids
      /\ pc' = [pc EXCEPT !["session"] = "add_bug"]
  BY NewStreamerFacts
<1>2. live = {} /\ UNCHANGED <<Handler, deleted, play_thread>>
  BY <1>1 DEF OneStreamer, NewStreamer
<1>3. Handler[1] = 0
  BY <1>1 DEF OwnerInv, Numbered
<1>4. pc["session"] = "new" /\ pc'["session"] = "add_bug"
  BY <1>1 DEF TypeOK, NewStreamer, Go
<1>5. Stage = "idle" /\ Stage' = "idle"
  BY <1>1, <1>4 DEF Stage
<1>6. HandlerInCharge = 0 /\ HandlerInCharge' = 0
  BY <1>1, <1>2, <1>3 DEF HandlerInCharge
<1> QED  BY <1>2, <1>5, <1>6 DEF Life!lifeVars

(* The other steps of the session thread.                                  *)
LEMMA RestNotSeen ==
  ASSUME LifeInv, OwnerInv,
         \/ InitSession \/ AddBug \/ Text \/ TextLoad \/ TextClient
         \/ CleanTest("session") \/ CleanLoad("session") \/ CleanNull("session")
         \/ Start \/ StopCommand \/ Hangup \/ TearDown
  PROVE  UNCHANGED Life!lifeVars
<1> USE ThreadNames DEF LifeInv, TypeOK, Inside, Go
<1>1. CASE InitSession \/ AddBug \/ Text \/ TextLoad \/ TextClient
  BY <1>1, NotSeen DEF InitSession, AddBug, Text, TextLoad, TextClient
<1>2. CASE CleanTest("session") \/ CleanLoad("session")
  BY <1>2, NotSeen DEF CleanTest, CleanLoad
<1>3. CASE CleanNull("session")
  BY <1>3, NotSeen DEF CleanNull
<1>4. CASE Start \/ StopCommand
  BY <1>4, NotSeen DEF Start, StopCommand
<1>5. CASE Hangup
  BY <1>5 DEF Hangup, Life!lifeVars, Stage, HandlerInCharge
<1>6. CASE TearDown
  BY <1>6, NotSeen DEF TearDown, CloseBug, DestroySession
<1> QED  BY <1>1, <1>2, <1>3, <1>4, <1>5, <1>6

(* Every step of the call is one of the streamer's life or none of it.     *)
LEMMA LifeFollows ==
  ASSUME OneOwner, LifeInv, OwnerInv, [Next]_vars
  PROVE  [Life!Next]_(Life!lifeVars)
<1>1. CASE TextStop \/ CleanStop("session")
  BY <1>1, StopSeen DEF Life!Next
<1>2. CASE TextJoined \/ CleanJoined("session")
  BY <1>2, JoinSeen
<1>3. CASE TextPlay
  BY <1>3, PlaySeen DEF Life!Next
<1>4. CASE TextCreate
  BY <1>4, CreateSeen DEF Life!Next
<1>5. CASE CleanDelete("session")
  BY <1>5, DeleteSeen DEF Life!Next
<1>6. CASE NewStreamer
  BY <1>6, MakingNotSeen
<1>7. CASE \/ InitSession \/ AddBug \/ Text \/ TextLoad \/ TextClient
           \/ CleanTest("session") \/ CleanLoad("session")
           \/ CleanNull("session")
           \/ Start \/ StopCommand \/ Hangup \/ TearDown
  BY <1>7, RestNotSeen
<1>8. ASSUME NEW t \in Readers, Read(t) \/ ReadStep(t)
      PROVE  UNCHANGED Life!lifeVars
  <2>1. /\ UNCHANGED objects
        /\ \/ pc'["session"] = pc["session"]
           \/ pc["session"] \in Reading /\ pc'["session"] \in Reading
    BY <1>8, ReadKeeps DEF LifeInv
  <2>2. CASE pc'["session"] = pc["session"]
    BY <2>1, <2>2 DEF Life!lifeVars, Stage, HandlerInCharge
  <2>3. CASE pc["session"] \in Reading /\ pc'["session"] \in Reading
    BY <2>1, <2>3, NotSeen DEF Reading, Inside
  <2> QED  BY <2>1, <2>2, <2>3
<1>9. CASE UNCHANGED vars
  BY <1>9 DEF vars, Life!lifeVars, Stage, HandlerInCharge
<1> QED
  BY <1>1, <1>2, <1>3, <1>4, <1>5, <1>6, <1>7, <1>8, <1>9, OwnerSteps
     DEF OwnerInv, StartStep, CleanStep

(* Without the hangup event the module calls its streamer as TTsStreamer   *)
(* takes for granted, whatever threads read audio, for any number of       *)
(* commands: stop, join and play in turn, no call once it is deleted, and  *)
(* every handler deleted once.                                             *)
THEOREM CallsInOrder ==
  ASSUME OneOwner
  PROVE  Spec => CallsFollow
<1>1. LifeInv /\ OwnerInv /\ [Next]_vars => OwnerInv'
  BY OwnerStep
<1>2. Init => OwnerInv
  BY OwnerStart
<1>3. LifeInv /\ OwnerInv /\ [Next]_vars => [Life!Next]_(Life!lifeVars)
  BY LifeFollows
<1> QED
  BY LifeStart, LifeStep, LifeBegins, <1>1, <1>2, <1>3, PTL
     DEF Spec, CallsFollow, Life!Spec

(* In the same circumstances no streamer is deleted, and no joinable       *)
(* std::thread with it, before its playing thread is joined.               *)
THEOREM JoinedFirst ==
  ASSUME OneOwner
  PROVE  Spec => []JoinedBeforeDeleted
<1>1. LifeInv /\ OwnerInv /\ [Next]_vars => OwnerInv'
  BY OwnerStep
<1>2. Init => OwnerInv
  BY OwnerStart
<1>3. OwnerInv => JoinedBeforeDeleted
  BY DEF OwnerInv, OwnerKnows, JoinedBeforeDeleted
<1> QED
  BY LifeStart, LifeStep, <1>1, <1>2, <1>3, PTL DEF Spec
=============================================================================
