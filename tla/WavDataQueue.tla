---------------------------- MODULE WavDataQueue ----------------------------
(***************************************************************************)
(* The byte queue between the network side and the playing side            *)
(* (WavDataQueue.h): one mutex, two condition variables, an optional       *)
(* capacity and an end-of-data flag.                                       *)
(*                                                                         *)
(* A critical section of mutex_ is one action.  What the methods do after  *)
(* lock.unlock() -- notify_all, and the late reset of is_finished in       *)
(* try_pop -- is an action of its own, so other threads run in between.    *)
(* A byte is the number of its position in the order of insertion.         *)
(***************************************************************************)
EXTENDS Naturals, Sequences

CONSTANTS
  Producers,   \* threads that call push
  Consumers,   \* threads that call pop, try_pop, last_pop
  Owners,      \* threads that call clear, set_max_capacity
  Sizes,       \* the positive sizes push, pop and try_pop are called with
  Capacities,  \* the arguments of set_max_capacity; 0 is "unlimited"
  Methods,     \* the calls the users of this instance make; "push_end" is
               \* push with size 0
  MaxBytes     \* bound: bytes all calls of push may carry together

Threads == Producers \cup Consumers \cup Owners

ASSUME SizesAssumption == Sizes \subseteq Nat \ {0}
ASSUME CapacitiesAssumption == Capacities \subseteq Nat
ASSUME MaxBytesAssumption == MaxBytes \in Nat

VARIABLES
  buffer_,       \* the bytes held
  buffer_size_,  \* their number, kept apart from buffer_
  is_finished,   \* end of data was pushed
  max_capacity_,
  pc,            \* where each thread is inside a method of the queue
  need,          \* the size argument of the call a thread waits in
  pushed,        \* history: number of bytes inserted so far
  got,           \* history: the chunk handed out last
  marks,         \* history: values of pushed at end marks not yet reported
  left           \* bound: bytes the calls still to come may carry

vars == <<buffer_, buffer_size_, is_finished, max_capacity_, pc, need,
          pushed, got, marks, left>>
data == <<buffer_, buffer_size_, pushed, got>>

Labels == {"idle", "push_wait", "push_woken", "push_notify",
           "pop_wait", "pop_woken", "pop_notify", "finish_reset"}

Init ==
  /\ buffer_ = <<>>
  /\ buffer_size_ = 0
  /\ is_finished = FALSE
  /\ max_capacity_ = 0
  /\ pc = [t \in Threads |-> "idle"]
  /\ need = [t \in Threads |-> 0]
  /\ pushed = 0
  /\ got = <<>>
  /\ marks = {}
  /\ left = MaxBytes

-----------------------------------------------------------------------------
Goto(t, label) == pc' = [pc EXCEPT ![t] = label]

(* notify_all: every thread blocked at from may run again.                 *)
Woken(from, to) == [u \in Threads |-> IF pc[u] = from THEN to ELSE pc[u]]

(* The definitions whose names begin with Bug are not part of the model.   *)
(* Each is a plausible mistake in the operation defined after it, used to  *)
(* show that a property can fail.                                          *)
BugCapacityBeforeInsert(n) ==
  max_capacity_ = 0 \/ buffer_size_ < max_capacity_

(* The predicate push waits for.                                           *)
Fits(n) == max_capacity_ = 0 \/ buffer_size_ + n <= max_capacity_

Insert(n) ==
  /\ buffer_' = buffer_ \o [i \in 1..n |-> pushed + i]
  /\ buffer_size_' = buffer_size_ + n
  /\ pushed' = pushed + n
  /\ UNCHANGED got

BugSizeDrifts(n) ==
  /\ got' = SubSeq(buffer_, 1, n)
  /\ buffer_' = SubSeq(buffer_, n + 1, Len(buffer_))
  /\ buffer_size_' = buffer_size_ - (n + 1)
  /\ UNCHANGED pushed

BugTakesFromBack(n) ==
  /\ got' = SubSeq(buffer_, Len(buffer_) - n + 1, Len(buffer_))
  /\ buffer_' = SubSeq(buffer_, 1, Len(buffer_) - n)
  /\ buffer_size_' = buffer_size_ - n
  /\ UNCHANGED pushed

Remove(n) ==
  /\ got' = SubSeq(buffer_, 1, n)
  /\ buffer_' = SubSeq(buffer_, n + 1, Len(buffer_))
  /\ buffer_size_' = buffer_size_ - n
  /\ UNCHANGED pushed

-----------------------------------------------------------------------------
(* push(data, 0): the peer says that this is all of the utterance.         *)
PushEnd(t) ==
  /\ "push_end" \in Methods
  /\ pc[t] = "idle"
  /\ is_finished' = TRUE
  /\ marks' = marks \cup {pushed}
  /\ UNCHANGED <<data, max_capacity_, pc, need, left>>

(* The locked part of push, from its first test of the predicate.          *)
TryInsert(t, n) ==
  \/ /\ Fits(n)
     /\ Insert(n)
     /\ Goto(t, "push_notify")
     /\ need' = [need EXCEPT ![t] = 0]
  \/ /\ ~Fits(n)
     /\ Goto(t, "push_wait")
     /\ need' = [need EXCEPT ![t] = n]
     /\ UNCHANGED data

Push(t, n) ==
  /\ "push" \in Methods
  /\ pc[t] = "idle"
  /\ n <= left
  /\ left' = left - n
  /\ TryInsert(t, n)
  /\ UNCHANGED <<is_finished, max_capacity_, marks>>

(* A producer returns from not_full_.wait and tests the predicate again.   *)
PushRetry(t) ==
  /\ pc[t] = "push_woken"
  /\ TryInsert(t, need[t])
  /\ UNCHANGED <<is_finished, max_capacity_, marks, left>>

BugNotifyOne(t) ==
  /\ pc[t] = "push_notify"
  /\ \/ \E u \in Threads :
          /\ pc[u] = "pop_wait"
          /\ pc' = [pc EXCEPT ![t] = "idle", ![u] = "pop_woken"]
     \/ /\ \A u \in Threads : pc[u] # "pop_wait"
        /\ Goto(t, "idle")
  /\ UNCHANGED <<data, is_finished, max_capacity_, need, marks, left>>

BugNoNotify(t) ==
  /\ pc[t] = "push_notify"
  /\ Goto(t, "idle")
  /\ UNCHANGED <<data, is_finished, max_capacity_, need, marks, left>>

(* not_empty_.notify_all() after push has released the mutex.              *)
PushNotify(t) ==
  /\ pc[t] = "push_notify"
  /\ pc' = [Woken("pop_wait", "pop_woken") EXCEPT ![t] = "idle"]
  /\ UNCHANGED <<data, is_finished, max_capacity_, need, marks, left>>

-----------------------------------------------------------------------------
TryRemove(t, n) ==
  \/ /\ buffer_size_ >= n
     /\ Remove(n)
     /\ Goto(t, "pop_notify")
     /\ need' = [need EXCEPT ![t] = 0]
  \/ /\ buffer_size_ < n
     /\ Goto(t, "pop_wait")
     /\ need' = [need EXCEPT ![t] = n]
     /\ UNCHANGED data

(* pop(size): blocks until size bytes are there.                           *)
Pop(t, n) ==
  /\ "pop" \in Methods
  /\ pc[t] = "idle"
  /\ TryRemove(t, n)
  /\ UNCHANGED <<is_finished, max_capacity_, marks, left>>

PopRetry(t) ==
  /\ pc[t] = "pop_woken"
  /\ TryRemove(t, need[t])
  /\ UNCHANGED <<is_finished, max_capacity_, marks, left>>

BugEndOnlyWhenEmpty(t, n) ==
  /\ "try_pop" \in Methods
  /\ pc[t] = "idle"
  /\ buffer_ = <<>> /\ is_finished
  /\ marks' = {}
  /\ Goto(t, "finish_reset")
  /\ UNCHANGED <<data, is_finished, max_capacity_, need, left>>

BugEndBeforeData(t, n) ==
  /\ "try_pop" \in Methods
  /\ pc[t] = "idle"
  /\ is_finished
  /\ marks' = {}
  /\ Goto(t, "finish_reset")
  /\ UNCHANGED <<data, is_finished, max_capacity_, need, left>>

(* try_pop(chunk, size) = 2: too little data and no more to come.  The     *)
(* flag is cleared only after lock.unlock().                               *)
TryPopFinished(t, n) ==
  /\ "try_pop" \in Methods
  /\ pc[t] = "idle"
  /\ buffer_size_ < n /\ is_finished
  /\ marks' = {}
  /\ Goto(t, "finish_reset")
  /\ UNCHANGED <<data, is_finished, max_capacity_, need, left>>

FinishReset(t) ==
  /\ pc[t] = "finish_reset"
  /\ is_finished' = FALSE
  /\ Goto(t, "idle")
  /\ UNCHANGED <<data, max_capacity_, need, marks, left>>

(* try_pop(chunk, size) = 0.  The return of 1 changes nothing.             *)
TryPop(t, n) ==
  /\ "try_pop" \in Methods
  /\ pc[t] = "idle"
  /\ buffer_size_ >= n
  /\ Remove(n)
  /\ Goto(t, "pop_notify")
  /\ UNCHANGED <<is_finished, max_capacity_, need, marks, left>>

(* not_full_.notify_all() after pop or try_pop has released the mutex.     *)
PopNotify(t) ==
  /\ pc[t] = "pop_notify"
  /\ pc' = [Woken("push_wait", "push_woken") EXCEPT ![t] = "idle"]
  /\ UNCHANGED <<data, is_finished, max_capacity_, need, marks, left>>

(* last_pop takes whatever is left and notifies nobody.                    *)
LastPop(t) ==
  /\ "last_pop" \in Methods
  /\ pc[t] = "idle"
  /\ buffer_ # <<>>
  /\ Remove(Len(buffer_))
  /\ UNCHANGED <<is_finished, max_capacity_, pc, need, marks, left>>

-----------------------------------------------------------------------------
BugClearKeepsSize(t) ==
  /\ "clear" \in Methods
  /\ pc[t] = "idle"
  /\ buffer_' = <<>>
  /\ is_finished' = FALSE
  /\ marks' = {}
  /\ pc' = Woken("push_wait", "push_woken")
  /\ UNCHANGED <<buffer_size_, max_capacity_, need, pushed, got, left>>

BugClearSilent(t) ==
  /\ "clear" \in Methods
  /\ pc[t] = "idle"
  /\ buffer_' = <<>>
  /\ buffer_size_' = 0
  /\ is_finished' = FALSE
  /\ marks' = {}
  /\ UNCHANGED <<max_capacity_, pc, need, pushed, got, left>>

BugClearKeepsEnd(t) ==
  /\ "clear" \in Methods
  /\ pc[t] = "idle"
  /\ buffer_' = <<>>
  /\ buffer_size_' = 0
  /\ marks' = {}
  /\ pc' = Woken("push_wait", "push_woken")
  /\ UNCHANGED <<is_finished, max_capacity_, need, pushed, got, left>>

(* clear and set_max_capacity notify while they hold the mutex.            *)
Clear(t) ==
  /\ "clear" \in Methods
  /\ pc[t] = "idle"
  /\ buffer_' = <<>>
  /\ buffer_size_' = 0
  /\ is_finished' = FALSE
  /\ marks' = {}
  /\ pc' = Woken("push_wait", "push_woken")
  /\ UNCHANGED <<max_capacity_, need, pushed, got, left>>

SetMaxCapacity(t, c) ==
  /\ "set_max_capacity" \in Methods
  /\ pc[t] = "idle"
  /\ max_capacity_' = c
  /\ pc' = IF c = 0 THEN Woken("push_wait", "push_woken") ELSE pc
  /\ UNCHANGED <<data, is_finished, need, marks, left>>

(* A condition variable may return from wait without a notification.       *)
SpuriousWake(t) ==
  /\ \/ pc[t] = "push_wait" /\ Goto(t, "push_woken")
     \/ pc[t] = "pop_wait" /\ Goto(t, "pop_woken")
  /\ UNCHANGED <<data, is_finished, max_capacity_, need, marks, left>>

-----------------------------------------------------------------------------
ProducerStep(t) ==
  \/ PushEnd(t)
  \/ \E n \in Sizes : Push(t, n)
  \/ PushRetry(t)
  \/ PushNotify(t)

ConsumerStep(t) ==
  \/ \E n \in Sizes : Pop(t, n) \/ TryPopFinished(t, n) \/ TryPop(t, n)
  \/ PopRetry(t)
  \/ FinishReset(t)
  \/ PopNotify(t)
  \/ LastPop(t)

OwnerStep(t) == Clear(t) \/ \E c \in Capacities : SetMaxCapacity(t, c)

Next ==
  \/ \E t \in Producers : ProducerStep(t)
  \/ \E t \in Consumers : ConsumerStep(t)
  \/ \E t \in Owners : OwnerStep(t)
  \/ \E t \in Threads : SpuriousWake(t)

Spec == Init /\ [][Next]_vars

(* A thread that has left wait, or owes a notification, is running code    *)
(* that does not block: the operating system lets it go on.                *)
Fairness ==
  /\ \A t \in Producers : WF_vars(PushRetry(t)) /\ WF_vars(PushNotify(t))
  /\ \A t \in Consumers : /\ WF_vars(PopRetry(t)) /\ WF_vars(PopNotify(t))
                          /\ WF_vars(FinishReset(t))

FairSpec == Spec /\ Fairness

-----------------------------------------------------------------------------
(* A peer that sends one utterance at a time: the empty push comes after   *)
(* the last bytes, and nothing follows it until the module has reported    *)
(* the end (the text detect_end of the playing thread) or cleared the      *)
(* queue.                                                                  *)
NobodyResets == \A t \in Threads : pc[t] # "finish_reset"

Reported == ~is_finished /\ NobodyResets

PoliteProducerStep(t) ==
  \/ /\ Reported
     /\ \A u \in Threads : pc[u] \notin {"push_wait", "push_woken"}
     /\ PushEnd(t)
  \/ Reported /\ \E n \in Sizes : Push(t, n)
  \/ PushRetry(t)
  \/ PushNotify(t)

PoliteNext ==
  \/ \E t \in Producers : PoliteProducerStep(t)
  \/ \E t \in Consumers : ConsumerStep(t)
  \/ \E t \in Owners : OwnerStep(t)
  \/ \E t \in Threads : SpuriousWake(t)

PoliteSpec == Init /\ [][PoliteNext]_vars

(* The playing thread calls try_pop once per timer tick while it plays.    *)
TryPopStep(t) == \E n \in Sizes : TryPopFinished(t, n) \/ TryPop(t, n)

FairPoliteSpec ==
  PoliteSpec /\ Fairness /\ \A t \in Consumers : WF_vars(TryPopStep(t))

-----------------------------------------------------------------------------
(* Every variable keeps its type; in particular the byte counter never     *)
(* goes below zero.                                                        *)
TypeOK ==
  /\ buffer_ \in Seq(Nat)
  /\ buffer_size_ \in Nat
  /\ is_finished \in BOOLEAN
  /\ max_capacity_ \in Nat
  /\ pc \in [Threads -> Labels]
  /\ need \in [Threads -> Nat]
  /\ pushed \in Nat
  /\ got \in Seq(Nat)
  /\ marks \subseteq Nat
  /\ left \in Nat

(* The separate counter never drifts from the deque, and the deque holds   *)
(* exactly the most recently inserted bytes in the order they came: the    *)
(* erase and the -= of every method agree (pop, last_pop, try_pop, clear). *)
BufferIsTail ==
  /\ buffer_size_ = Len(buffer_)
  /\ Len(buffer_) <= pushed
  /\ \A i \in 1..Len(buffer_) : buffer_[i] = (pushed - Len(buffer_)) + i

(* A call that hands out bytes hands out the oldest ones, and every byte   *)
(* that was in the queue is afterwards in exactly one of the two places.   *)
HandsOutOldest == [][got' # got => got' \o buffer_' = buffer_]_vars

(* However often a producer is woken, no insertion takes a limited queue   *)
(* past its capacity (the predicate of not_full_.wait in push).            *)
CapacityRespected ==
  [][pushed' > pushed /\ max_capacity_ # 0
       => buffer_size_' <= max_capacity_]_vars

(* No consumer sleeps in pop while its bytes are there, except for the     *)
(* moment between push's unlock and its notify_all.                        *)
NoLostWakeupPop ==
  \A t \in Threads :
    pc[t] = "pop_wait" /\ buffer_size_ >= need[t]
      => \E u \in Threads : pc[u] = "push_notify"

(* No producer sleeps in push while its data fits, except for the moment   *)
(* between a consumer's unlock and its notify_all.                         *)
NoLostWakeupPush ==
  \A t \in Threads :
    pc[t] = "push_wait" /\ Fits(need[t])
      => \E u \in Threads : pc[u] = "pop_notify"

(* With one playing thread, end of data is reported only if an end mark    *)
(* was pushed since the last report or clear.                              *)
NoPhantomEnd ==
  is_finished /\ NobodyResets => marks # {}

(* A consumer whose data is there does not stay asleep.                    *)
SleepingConsumerWakes ==
  \A t \in Consumers :
    (pc[t] = "pop_wait" /\ buffer_size_ >= need[t]) ~> pc[t] # "pop_wait"

-----------------------------------------------------------------------------
(* To one peer that sends one utterance at a time the queue is a byte      *)
(* stream.  The flag is part of the stream only until try_pop has decided  *)
(* to report it; the assignment after the unlock changes nothing any more. *)
Stream == INSTANCE ByteStream
  WITH Chunks <- Sizes, held <- buffer_, put <- pushed, taken <- got,
       ended <- is_finished /\ NobodyResets

(* Under PoliteSpec every call of the queue is one step of the stream or   *)
(* none: in particular the end of an utterance is reported once, with less *)
(* than a chunk left over, and before any byte of the next one goes in.    *)
IsByteStream == Stream!Spec

(* An end mark that was pushed stays visible to try_pop until it has been  *)
(* reported or cleared.  Any peer that pushes while the end is being       *)
(* reported breaks this: see the run queue_end_lost.                       *)
EndMarkKept == marks # {} => is_finished

(* The end of an utterance is reported before a byte of the next one is    *)
(* handed out.  A peer that sends on without waiting breaks this.          *)
EndNotOvertaken == \A m \in marks : pushed - Len(buffer_) <= m

(* While the playing thread plays, the end of every utterance is reported. *)
EndReported == marks # {} ~> marks = {}
=============================================================================
