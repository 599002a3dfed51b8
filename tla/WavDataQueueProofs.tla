------------------------- MODULE WavDataQueueProofs -------------------------
(***************************************************************************)
(* Theorems about WavDataQueue, for any threads, sizes and capacities.     *)
(***************************************************************************)
EXTENDS WavDataQueue, SequenceTheorems, TLAPS

-----------------------------------------------------------------------------
(* Taking n bytes off the front leaves two sequences of the right lengths  *)
(* that together are the old one.                                          *)
LEMMA SplitSeq ==
  ASSUME NEW S, NEW s \in Seq(S), NEW n \in Nat, n <= Len(s)
  PROVE  /\ SubSeq(s, 1, n) \in Seq(S)
         /\ SubSeq(s, n + 1, Len(s)) \in Seq(S)
         /\ Len(SubSeq(s, 1, n)) = n
         /\ Len(SubSeq(s, n + 1, Len(s))) = Len(s) - n
         /\ \A i \in 1..(Len(s) - n) : SubSeq(s, n + 1, Len(s))[i] = s[n + i]
         /\ SubSeq(s, 1, n) \o SubSeq(s, n + 1, Len(s)) = s
<1>1. Len(s) \in Nat
  BY LenProperties
<1>2. \A i \in 1..n : s[i] \in S
  BY <1>1, ElementOfSeq
<1>3. /\ SubSeq(s, 1, n) \in Seq(S)
      /\ Len(SubSeq(s, 1, n)) = n
  BY <1>2, SubSeqProperties
<1>4. \A i \in (n + 1)..Len(s) : s[i] \in S
  BY <1>1, ElementOfSeq
<1>5. /\ SubSeq(s, n + 1, Len(s)) \in Seq(S)
      /\ Len(SubSeq(s, n + 1, Len(s))) = Len(s) - n
      /\ \A i \in 1..(Len(s) - n) : SubSeq(s, n + 1, Len(s))[i] = s[n + i]
  <2>1. /\ SubSeq(s, n + 1, Len(s)) \in Seq(S)
        /\ Len(SubSeq(s, n + 1, Len(s)))
             = IF n + 1 <= Len(s) THEN Len(s) - (n + 1) + 1 ELSE 0
        /\ \A i \in 1..(Len(s) - (n + 1) + 1) :
             SubSeq(s, n + 1, Len(s))[i] = s[(n + 1) + i - 1]
    BY <1>1, <1>4, SubSeqProperties
  <2> QED
    BY <1>1, <2>1
<1>6. SubSeq(s, 1, n) \o SubSeq(s, n + 1, Len(s)) = SubSeq(s, 1, Len(s))
  <2>1. ASSUME NEW m \in 1..(Len(s) + 1), NEW k \in (m - 1)..Len(s),
               NEW j \in k..Len(s)
        PROVE  SubSeq(s, m, k) \o SubSeq(s, k + 1, j) = SubSeq(s, m, j)
    BY ConcatAdjacentSubSeq
  <2>2. /\ 1 \in 1..(Len(s) + 1)
        /\ n \in (1 - 1)..Len(s)
        /\ Len(s) \in n..Len(s)
    BY <1>1
  <2> QED
    BY <2>1, <2>2
<1> QED
  BY <1>3, <1>5, <1>6, SubSeqFull

(* The bytes an insertion appends are numbers.                             *)
LEMMA NewBytes ==
  ASSUME NEW n \in Nat, NEW k \in Nat
  PROVE  /\ [i \in 1..n |-> k + i] \in Seq(Nat)
         /\ Len([i \in 1..n |-> k + i]) = n
<1>1. [i \in 1..n |-> k + i] \in [1..n -> Nat]
  OBVIOUS
<1> QED
  BY <1>1, SeqDef

-----------------------------------------------------------------------------
(* The two data operators, with everything an invariant needs of them.     *)
Tail_ == /\ buffer_ \in Seq(Nat)
         /\ pushed \in Nat
         /\ got \in Seq(Nat)
         /\ BufferIsTail

LEMMA InsertFacts ==
  ASSUME Tail_, NEW n \in Nat, Insert(n)
  PROVE  /\ Tail_'
         /\ buffer_size_' = buffer_size_ + n
<1>1. /\ [i \in 1..n |-> pushed + i] \in Seq(Nat)
      /\ Len([i \in 1..n |-> pushed + i]) = n
  BY NewBytes DEF Tail_
<1>2. /\ buffer_' \in Seq(Nat)
      /\ Len(buffer_') = Len(buffer_) + n
      /\ \A i \in 1..(Len(buffer_) + n) :
           buffer_'[i] = IF i <= Len(buffer_) THEN buffer_[i]
                         ELSE [j \in 1..n |-> pushed + j][i - Len(buffer_)]
  BY <1>1, ConcatProperties DEF Tail_, Insert
<1>3. Len(buffer_) \in Nat
  BY LenProperties DEF Tail_
<1>4. ASSUME NEW i \in 1..Len(buffer_')
      PROVE  buffer_'[i] = (pushed' - Len(buffer_')) + i
  <2>1. CASE i <= Len(buffer_)
    BY <1>2, <1>3, <2>1 DEF Tail_, BufferIsTail, Insert
  <2>2. CASE i > Len(buffer_)
    <3>1. i - Len(buffer_) \in 1..n
      BY <1>2, <1>3, <2>2
    <3>2. buffer_'[i] = [j \in 1..n |-> pushed + j][i - Len(buffer_)]
      BY <1>2, <1>3, <2>2
    <3>3. buffer_'[i] = pushed + (i - Len(buffer_))
      BY <3>1, <3>2
    <3> QED
      BY <1>2, <1>3, <3>3 DEF Tail_, Insert
  <2> QED
    BY <1>2, <1>3, <2>1, <2>2
<1> QED
  BY <1>2, <1>3, <1>4 DEF Tail_, BufferIsTail, Insert

LEMMA RemoveFacts ==
  ASSUME Tail_, NEW n \in Nat, n <= Len(buffer_), Remove(n)
  PROVE  /\ Tail_'
         /\ buffer_size_' = buffer_size_ - n
         /\ got' \o buffer_' = buffer_
<1>1. Len(buffer_) \in Nat
  BY LenProperties DEF Tail_
<1>2. /\ got' \in Seq(Nat)
      /\ buffer_' \in Seq(Nat)
      /\ Len(buffer_') = Len(buffer_) - n
      /\ \A i \in 1..(Len(buffer_) - n) : buffer_'[i] = buffer_[n + i]
  BY SplitSeq DEF Tail_, Remove
<1>3. got' \o buffer_' = buffer_
  BY SplitSeq DEF Tail_, Remove
<1>4. /\ pushed' = pushed
      /\ buffer_size_' = buffer_size_ - n
      /\ Len(buffer_') <= pushed'
      /\ buffer_size_' = Len(buffer_')
  BY <1>1, <1>2 DEF Tail_, BufferIsTail, Remove
<1>5. ASSUME NEW i \in 1..Len(buffer_')
      PROVE  buffer_'[i] = (pushed' - Len(buffer_')) + i
  <2>1. /\ i \in 1..(Len(buffer_) - n)
        /\ n + i \in 1..Len(buffer_)
    BY <1>1, <1>2
  <2>2. buffer_'[i] = (pushed - Len(buffer_)) + (n + i)
    BY <1>2, <2>1 DEF Tail_, BufferIsTail
  <2> QED
    BY <1>1, <1>2, <1>4, <2>2 DEF Tail_
<1>6. BufferIsTail'
  BY <1>4, <1>5 DEF BufferIsTail
<1> QED
  BY <1>2, <1>3, <1>4, <1>6 DEF Tail_

-----------------------------------------------------------------------------
IInv == TypeOK /\ BufferIsTail

LEMMA InitIInv == Init => IInv
<1> SUFFICES ASSUME Init PROVE IInv
  OBVIOUS
<1>1. TypeOK
  BY MaxBytesAssumption, EmptySeq DEF Init, TypeOK, Labels
<1>2. BufferIsTail
  BY EmptySeq DEF Init, BufferIsTail
<1> QED
  BY <1>1, <1>2 DEF IInv

(* What the control part of every action keeps: program counters stay      *)
(* labels whoever is moved or woken.                                       *)
LEMMA PcFacts ==
  ASSUME pc \in [Threads -> Labels], NEW t \in Threads,
         NEW label \in Labels, NEW from, NEW to \in Labels
  PROVE  /\ [pc EXCEPT ![t] = label] \in [Threads -> Labels]
         /\ Woken(from, to) \in [Threads -> Labels]
         /\ [Woken(from, to) EXCEPT ![t] = label] \in [Threads -> Labels]
BY DEF Woken

LEMMA KeptData ==
  ASSUME IInv, UNCHANGED data
  PROVE  Tail_' /\ UNCHANGED <<buffer_size_, got>>
BY DEF IInv, TypeOK, Tail_, BufferIsTail, data

LEMMA NextIInv == IInv /\ [Next]_vars => IInv'
<1> SUFFICES ASSUME IInv, [Next]_vars PROVE IInv'
  OBVIOUS
<1> USE DEF IInv
<1>a. Tail_ /\ Len(buffer_) \in Nat /\ buffer_size_ = Len(buffer_)
  BY LenProperties DEF Tail_, TypeOK, BufferIsTail
<1>b. /\ \A n \in Sizes : n \in Nat
      /\ Producers \subseteq Threads /\ Consumers \subseteq Threads
      /\ Owners \subseteq Threads
  BY SizesAssumption DEF Threads
<1>c. \A t \in Threads : pc[t] \in Labels /\ need[t] \in Nat
  BY DEF TypeOK
<1>d. ASSUME NEW t \in Threads, NEW n \in Nat, TryInsert(t, n)
      PROVE  /\ Tail_' /\ buffer_size_' \in Nat
             /\ pc' \in [Threads -> Labels] /\ need' \in [Threads -> Nat]
  <2>1. CASE Fits(n) /\ Insert(n) /\ Goto(t, "push_notify")
             /\ need' = [need EXCEPT ![t] = 0]
    BY <1>a, <2>1, InsertFacts DEF TypeOK, Goto, Labels
  <2>2. CASE UNCHANGED data /\ Goto(t, "push_wait")
             /\ need' = [need EXCEPT ![t] = n]
    BY <2>2, KeptData DEF TypeOK, Goto, Labels
  <2> QED
    BY <1>d, <2>1, <2>2 DEF TryInsert
<1>e. ASSUME NEW t \in Threads, NEW n \in Nat, TryRemove(t, n)
      PROVE  /\ Tail_' /\ buffer_size_' \in Nat
             /\ pc' \in [Threads -> Labels] /\ need' \in [Threads -> Nat]
  <2>1. CASE /\ buffer_size_ >= n /\ Remove(n) /\ Goto(t, "pop_notify")
             /\ need' = [need EXCEPT ![t] = 0]
    BY <1>a, <2>1, RemoveFacts DEF TypeOK, Goto, Labels
  <2>2. CASE UNCHANGED data /\ Goto(t, "pop_wait")
             /\ need' = [need EXCEPT ![t] = n]
    BY <2>2, KeptData DEF TypeOK, Goto, Labels
  <2> QED
    BY <1>e, <2>1, <2>2 DEF TryRemove
<1>f. ASSUME NEW t \in Threads, UNCHANGED data, UNCHANGED need,
             \/ \E label \in Labels : Goto(t, label)
             \/ UNCHANGED pc
             \/ \E from, to \in Labels : pc' = Woken(from, to)
             \/ \E from, to, label \in Labels :
                  pc' = [Woken(from, to) EXCEPT ![t] = label]
      PROVE  /\ Tail_' /\ buffer_size_' \in Nat
             /\ pc' \in [Threads -> Labels] /\ need' \in [Threads -> Nat]
  <2>1. Tail_' /\ buffer_size_' \in Nat
    BY <1>a, <1>f, KeptData DEF TypeOK
  <2>2. need' \in [Threads -> Nat]
    BY <1>f DEF TypeOK
  <2>3. pc \in [Threads -> Labels]
    BY DEF TypeOK
  <2>4. CASE \E label \in Labels : Goto(t, label)
    BY <2>1, <2>2, <2>3, <2>4 DEF Goto
  <2>5. CASE UNCHANGED pc
    BY <2>1, <2>2, <2>3, <2>5
  <2>6. CASE \E from, to \in Labels : pc' = Woken(from, to)
    BY <2>1, <2>2, <2>3, <2>6 DEF Woken
  <2>7. CASE \E from, to, label \in Labels :
               pc' = [Woken(from, to) EXCEPT ![t] = label]
    BY <2>1, <2>2, <2>3, <2>7 DEF Woken
  <2> QED
    BY <1>f, <2>4, <2>5, <2>6, <2>7
<1>g. ASSUME /\ Tail_' /\ buffer_size_' \in Nat
             /\ pc' \in [Threads -> Labels] /\ need' \in [Threads -> Nat],
             is_finished' \in BOOLEAN, max_capacity_' \in Nat,
             marks' \subseteq Nat, left' \in Nat
      PROVE  IInv'
  BY <1>g DEF Tail_, TypeOK
<1>1. ASSUME NEW t \in Producers, PushEnd(t) PROVE IInv'
  BY <1>1, <1>b, <1>f, <1>g DEF PushEnd, TypeOK
<1>2. ASSUME NEW t \in Producers, NEW n \in Sizes, Push(t, n) PROVE IInv'
  <2>1. left' \in Nat
    BY <1>2, <1>b DEF Push, TypeOK
  <2> QED
    BY <1>2, <1>b, <1>d, <1>g, <2>1 DEF Push, TypeOK
<1>3. ASSUME NEW t \in Producers, PushRetry(t) PROVE IInv'
  BY <1>3, <1>b, <1>c, <1>d, <1>g DEF PushRetry, TypeOK
<1>4. ASSUME NEW t \in Producers, PushNotify(t) PROVE IInv'
  BY <1>4, <1>b, <1>f, <1>g DEF PushNotify, TypeOK, Labels
<1>5. ASSUME NEW t \in Consumers, NEW n \in Sizes, Pop(t, n) PROVE IInv'
  BY <1>5, <1>b, <1>e, <1>g DEF Pop, TypeOK
<1>6. ASSUME NEW t \in Consumers, PopRetry(t) PROVE IInv'
  BY <1>6, <1>b, <1>c, <1>e, <1>g DEF PopRetry, TypeOK
<1>7. ASSUME NEW t \in Consumers, NEW n \in Sizes, TryPopFinished(t, n)
      PROVE  IInv'
  BY <1>7, <1>b, <1>f, <1>g DEF TryPopFinished, TypeOK, Labels
<1>8. ASSUME NEW t \in Consumers, FinishReset(t) PROVE IInv'
  BY <1>8, <1>b, <1>f, <1>g DEF FinishReset, TypeOK, Labels
<1>9. ASSUME NEW t \in Consumers, NEW n \in Sizes, TryPop(t, n) PROVE IInv'
  <2>1. Tail_' /\ buffer_size_' \in Nat
    BY <1>9, <1>a, <1>b, RemoveFacts DEF TryPop
  <2>2. pc' \in [Threads -> Labels]
    BY <1>9, <1>b DEF TryPop, TypeOK, Goto, Labels
  <2> QED
    BY <1>9, <1>g, <2>1, <2>2 DEF TryPop, TypeOK
<1>10. ASSUME NEW t \in Consumers, PopNotify(t) PROVE IInv'
  BY <1>10, <1>b, <1>f, <1>g DEF PopNotify, TypeOK, Labels
<1>11. ASSUME NEW t \in Consumers, LastPop(t) PROVE IInv'
  <2>1. Tail_' /\ buffer_size_' \in Nat
    BY <1>11, <1>a, RemoveFacts DEF LastPop
  <2> QED
    BY <1>11, <1>g, <2>1 DEF LastPop, TypeOK
<1>12. ASSUME NEW t \in Owners, Clear(t) PROVE IInv'
  <2>1. Tail_'
    BY <1>12, <1>a, EmptySeq DEF Clear, Tail_, BufferIsTail
  <2>2. pc' \in [Threads -> Labels]
    BY <1>12, <1>b, PcFacts DEF Clear, TypeOK, Labels
  <2> QED
    BY <1>12, <1>g, <2>1, <2>2 DEF Clear, TypeOK
<1>13. ASSUME NEW t \in Owners, NEW c \in Capacities, SetMaxCapacity(t, c)
       PROVE  IInv'
  <2>1. c \in Nat
    BY CapacitiesAssumption
  <2> QED
    BY <1>13, <1>b, <1>f, <1>g, <2>1 DEF SetMaxCapacity, TypeOK, Labels
<1>14. ASSUME NEW t \in Threads, SpuriousWake(t) PROVE IInv'
  BY <1>14, <1>f, <1>g DEF SpuriousWake, TypeOK, Labels
<1>15. CASE UNCHANGED vars
  <2>1. UNCHANGED data
    BY <1>15 DEF vars, data
  <2> QED
    BY <1>15, <2>1, KeptData DEF vars, TypeOK, Tail_
<1> QED
  BY <1>1, <1>2, <1>3, <1>4, <1>5, <1>6, <1>7, <1>8, <1>9, <1>10, <1>11,
     <1>12, <1>13, <1>14, <1>15
  DEF Next, ProducerStep, ConsumerStep, OwnerStep

(* Type correctness, for every set of threads, sizes and capacities.       *)
THEOREM TypeCorrect == Spec => []TypeOK
<1>1. IInv => TypeOK
  BY DEF IInv
<1> QED
  BY <1>1, InitIInv, NextIInv, PTL DEF Spec

(* The counter and the deque never drift apart, whatever is called.        *)
THEOREM QueueIsTail == Spec => []BufferIsTail
<1>1. IInv => BufferIsTail
  BY DEF IInv
<1> QED
  BY <1>1, InitIInv, NextIInv, PTL DEF Spec

-----------------------------------------------------------------------------
(* A step that lets nobody start to sleep in pop, adds no bytes and takes  *)
(* no pending notification away keeps NoLostWakeupPop.                     *)
LEMMA PopSleepersKept ==
  ASSUME IInv, IInv', NoLostWakeupPop,
         buffer_size_' <= buffer_size_,
         \A u \in Threads : pc'[u] = "pop_wait"
                              => pc[u] = "pop_wait" /\ need'[u] = need[u],
         \A u \in Threads : pc[u] = "push_notify" => pc'[u] = "push_notify"
  PROVE  NoLostWakeupPop'
<1> SUFFICES ASSUME NEW t \in Threads,
                    pc'[t] = "pop_wait", buffer_size_' >= need'[t]
             PROVE  \E u \in Threads : pc'[u] = "push_notify"
  BY DEF NoLostWakeupPop
<1>1. /\ buffer_size_ \in Nat /\ buffer_size_' \in Nat
      /\ need[t] \in Nat /\ need'[t] = need[t]
  BY DEF IInv, TypeOK
<1>2. pc[t] = "pop_wait" /\ buffer_size_ >= need[t]
  BY <1>1
<1> QED
  BY <1>2 DEF NoLostWakeupPop

LEMMA NextNoLostWakeupPop ==
  IInv /\ IInv' /\ NoLostWakeupPop /\ [Next]_vars => NoLostWakeupPop'
<1> SUFFICES ASSUME IInv, IInv', NoLostWakeupPop, [Next]_vars
             PROVE  NoLostWakeupPop'
  OBVIOUS
<1>a. /\ buffer_size_ \in Nat
      /\ \A n \in Sizes : n \in Nat
      /\ Producers \subseteq Threads /\ Consumers \subseteq Threads
      /\ Owners \subseteq Threads
      /\ pc \in [Threads -> Labels] /\ need \in [Threads -> Nat]
      /\ buffer_size_ = Len(buffer_)
  BY SizesAssumption DEF IInv, TypeOK, Threads, BufferIsTail
<1>b. ASSUME NEW t \in Threads, NEW n \in Nat, TryInsert(t, n),
             pc[t] # "push_notify"
      PROVE  NoLostWakeupPop'
  <2>1. CASE pc' = [pc EXCEPT ![t] = "push_notify"]
    BY <1>a, <2>1 DEF NoLostWakeupPop
  <2>2. CASE UNCHANGED data /\ Goto(t, "push_wait")
             /\ need' = [need EXCEPT ![t] = n]
    <3>1. buffer_size_' <= buffer_size_
      BY <1>a, <2>2 DEF data
    <3> QED
      BY <1>a, <1>b, <2>2, <3>1, PopSleepersKept DEF Goto
  <2> QED
    BY <1>b, <2>1, <2>2 DEF TryInsert, Goto
<1>c. ASSUME NEW t \in Threads, NEW n \in Nat, TryRemove(t, n),
             pc[t] # "push_notify"
      PROVE  NoLostWakeupPop'
  <2>1. CASE Remove(n) /\ Goto(t, "pop_notify")
             /\ need' = [need EXCEPT ![t] = 0]
    <3>1. buffer_size_' <= buffer_size_
      BY <1>a, <2>1 DEF Remove
    <3> QED
      BY <1>a, <1>c, <2>1, <3>1, PopSleepersKept DEF Goto
  <2>2. CASE buffer_size_ < n /\ UNCHANGED data /\ Goto(t, "pop_wait")
             /\ need' = [need EXCEPT ![t] = n]
    <3> SUFFICES ASSUME NEW s \in Threads,
                        pc'[s] = "pop_wait", buffer_size_' >= need'[s]
                 PROVE  \E u \in Threads : pc'[u] = "push_notify"
      BY DEF NoLostWakeupPop
    <3>1. buffer_size_' = buffer_size_
      BY <2>2 DEF data
    <3>2. s # t
      BY <1>a, <2>2, <3>1
    <3>3. pc[s] = "pop_wait" /\ buffer_size_ >= need[s]
      BY <1>a, <2>2, <3>1, <3>2 DEF Goto
    <3>4. PICK u \in Threads : pc[u] = "push_notify"
      BY <3>3 DEF NoLostWakeupPop
    <3> QED
      BY <1>a, <1>c, <2>2, <3>4 DEF Goto
  <2> QED
    BY <1>c, <2>1, <2>2 DEF TryRemove
<1>d. ASSUME buffer_size_' <= buffer_size_, UNCHANGED need,
             \/ UNCHANGED pc
             \/ pc' = Woken("push_wait", "push_woken")
             \/ \E t \in Threads, label \in Labels \ {"pop_wait"} :
                  pc[t] # "push_notify" /\ Goto(t, label)
             \/ \E t \in Threads :
                  /\ pc[t] = "pop_notify"
                  /\ pc' = [Woken("push_wait", "push_woken") EXCEPT ![t] = "idle"]
      PROVE  NoLostWakeupPop'
  <2>1. \A u \in Threads : /\ pc'[u] = "pop_wait" => pc[u] = "pop_wait"
                           /\ pc[u] = "push_notify" => pc'[u] = "push_notify"
    BY <1>a, <1>d DEF Woken, Goto
  <2> QED
    BY <1>d, <2>1, PopSleepersKept
<1>e. UNCHANGED data => buffer_size_' <= buffer_size_
  BY <1>a DEF data
<1>1. ASSUME NEW t \in Producers, PushEnd(t) PROVE NoLostWakeupPop'
  BY <1>1, <1>d, <1>e DEF PushEnd
<1>2. ASSUME NEW t \in Producers, NEW n \in Sizes, Push(t, n)
      PROVE  NoLostWakeupPop'
  BY <1>2, <1>a, <1>b DEF Push
<1>3. ASSUME NEW t \in Producers, PushRetry(t) PROVE NoLostWakeupPop'
  BY <1>3, <1>a, <1>b DEF PushRetry
<1>4. ASSUME NEW t \in Producers, PushNotify(t) PROVE NoLostWakeupPop'
  BY <1>4, <1>a DEF PushNotify, Woken, NoLostWakeupPop
<1>5. ASSUME NEW t \in Consumers, NEW n \in Sizes, Pop(t, n)
      PROVE  NoLostWakeupPop'
  BY <1>5, <1>a, <1>c DEF Pop
<1>6. ASSUME NEW t \in Consumers, PopRetry(t) PROVE NoLostWakeupPop'
  BY <1>6, <1>a, <1>c DEF PopRetry
<1>7. ASSUME NEW t \in Consumers, NEW n \in Sizes, TryPopFinished(t, n)
      PROVE  NoLostWakeupPop'
  BY <1>7, <1>a, <1>d, <1>e DEF TryPopFinished, Labels
<1>8. ASSUME NEW t \in Consumers, FinishReset(t) PROVE NoLostWakeupPop'
  BY <1>8, <1>a, <1>d, <1>e DEF FinishReset, Labels
<1>9. ASSUME NEW t \in Consumers, NEW n \in Sizes, TryPop(t, n)
      PROVE  NoLostWakeupPop'
  <2>1. buffer_size_' <= buffer_size_
    BY <1>9, <1>a DEF TryPop, Remove
  <2> QED
    BY <1>9, <1>a, <1>d, <2>1 DEF TryPop, Labels
<1>10. ASSUME NEW t \in Consumers, PopNotify(t) PROVE NoLostWakeupPop'
  BY <1>10, <1>a, <1>d, <1>e DEF PopNotify
<1>11. ASSUME NEW t \in Consumers, LastPop(t) PROVE NoLostWakeupPop'
  <2>1. Len(buffer_) \in Nat
    BY <1>a
  <2>2. buffer_size_' <= buffer_size_
    BY <1>11, <1>a, <2>1 DEF LastPop, Remove
  <2> QED
    BY <1>11, <1>d, <2>2 DEF LastPop
<1>12. ASSUME NEW t \in Owners, Clear(t) PROVE NoLostWakeupPop'
  BY <1>12, <1>a, <1>d DEF Clear
<1>13. ASSUME NEW t \in Owners, NEW c \in Capacities, SetMaxCapacity(t, c)
       PROVE  NoLostWakeupPop'
  BY <1>13, <1>d, <1>e DEF SetMaxCapacity
<1>14. ASSUME NEW t \in Threads, SpuriousWake(t) PROVE NoLostWakeupPop'
  BY <1>14, <1>d, <1>e DEF SpuriousWake, Labels
<1>15. CASE UNCHANGED vars
  BY <1>15, <1>d, <1>e DEF vars, data
<1> QED
  BY <1>1, <1>2, <1>3, <1>4, <1>5, <1>6, <1>7, <1>8, <1>9, <1>10, <1>11,
     <1>12, <1>13, <1>14, <1>15
  DEF Next, ProducerStep, ConsumerStep, OwnerStep

(* Whatever mix of calls is made, a consumer asleep in pop whose bytes are *)
(* there is about to be notified.                                          *)
THEOREM PopWakeups == Spec => []NoLostWakeupPop
<1>1. Init => NoLostWakeupPop
  BY DEF Init, NoLostWakeupPop
<1> QED
  BY <1>1, InitIInv, NextIInv, NextNoLostWakeupPop, PTL DEF Spec

-----------------------------------------------------------------------------
(* The calls last_pop and set_max_capacity(c) with a new limit make room   *)
(* without notifying; the theorem is about users that make neither.        *)
RoomIsAnnounced ==
  /\ "last_pop" \notin Methods
  /\ \A c, d \in Capacities \ {0} : c = d

CapacityInv == max_capacity_ \in Capacities \cup {0}

(* A step that lets nobody start to sleep in push, removes no bytes, makes *)
(* no room and takes no pending notification away keeps NoLostWakeupPush.  *)
LEMMA PushSleepersKept ==
  ASSUME IInv, NoLostWakeupPush,
         \A n \in Nat : Fits(n)' => Fits(n),
         \A u \in Threads : pc'[u] = "push_wait"
                              => pc[u] = "push_wait" /\ need'[u] = need[u],
         \A u \in Threads : pc[u] = "pop_notify" => pc'[u] = "pop_notify"
  PROVE  NoLostWakeupPush'
<1> SUFFICES ASSUME NEW t \in Threads,
                    pc'[t] = "push_wait", Fits(need[t])'
             PROVE  \E u \in Threads : pc'[u] = "pop_notify"
  BY DEF NoLostWakeupPush
<1>1. need[t] \in Nat /\ need'[t] = need[t]
  BY DEF IInv, TypeOK
<1>2. Fits(need[t])
  BY <1>1 DEF Fits
<1> QED
  BY <1>2 DEF NoLostWakeupPush

LEMMA NextNoLostWakeupPush ==
  ASSUME RoomIsAnnounced, IInv, IInv', CapacityInv, NoLostWakeupPush,
         [Next]_vars
  PROVE  CapacityInv' /\ NoLostWakeupPush'
<1>a. /\ buffer_size_ \in Nat /\ max_capacity_ \in Nat
      /\ \A n \in Sizes : n \in Nat
      /\ Producers \subseteq Threads /\ Consumers \subseteq Threads
      /\ Owners \subseteq Threads
      /\ pc \in [Threads -> Labels] /\ need \in [Threads -> Nat]
  BY SizesAssumption DEF IInv, TypeOK, Threads
<1>b. ASSUME NEW t \in Threads, NEW n \in Nat, TryInsert(t, n),
             UNCHANGED max_capacity_, pc[t] # "pop_notify"
      PROVE  CapacityInv' /\ NoLostWakeupPush'
  <2>1. CASE Insert(n) /\ Goto(t, "push_notify")
             /\ need' = [need EXCEPT ![t] = 0]
    <3>1. \A m \in Nat : Fits(m)' => Fits(m)
      BY <1>a, <1>b, <2>1 DEF Insert, Fits
    <3> QED
      BY <1>a, <1>b, <2>1, <3>1, PushSleepersKept DEF Goto, CapacityInv
  <2>2. CASE ~Fits(n) /\ UNCHANGED data /\ Goto(t, "push_wait")
             /\ need' = [need EXCEPT ![t] = n]
    <3> SUFFICES ASSUME NEW s \in Threads,
                        pc'[s] = "push_wait", Fits(need[s])'
                 PROVE  \E u \in Threads : pc'[u] = "pop_notify"
      BY <1>b DEF NoLostWakeupPush, CapacityInv
    <3>1. Fits(need'[s])
      BY <1>b, <2>2 DEF data, Fits
    <3>2. s # t
      BY <1>a, <2>2, <3>1
    <3>3. pc[s] = "push_wait" /\ Fits(need[s])
      BY <1>a, <2>2, <3>1, <3>2 DEF Goto
    <3>4. PICK u \in Threads : pc[u] = "pop_notify"
      BY <3>3 DEF NoLostWakeupPush
    <3> QED
      BY <1>a, <1>b, <2>2, <3>4 DEF Goto
  <2> QED
    BY <1>b, <2>1, <2>2 DEF TryInsert
<1>c. ASSUME NEW t \in Threads, NEW n \in Nat, TryRemove(t, n),
             UNCHANGED max_capacity_, pc[t] # "pop_notify"
      PROVE  CapacityInv' /\ NoLostWakeupPush'
  <2>1. CASE Goto(t, "pop_notify")
    BY <1>a, <1>c, <2>1 DEF Goto, NoLostWakeupPush, CapacityInv
  <2>2. CASE UNCHANGED data /\ Goto(t, "pop_wait")
             /\ need' = [need EXCEPT ![t] = n]
    <3>1. \A m \in Nat : Fits(m)' => Fits(m)
      BY <1>c, <2>2 DEF data, Fits
    <3> QED
      BY <1>a, <1>c, <2>2, <3>1, PushSleepersKept DEF Goto, CapacityInv
  <2> QED
    BY <1>c, <2>1, <2>2 DEF TryRemove
<1>d. ASSUME UNCHANGED <<data, max_capacity_, need>>,
             \/ UNCHANGED pc
             \/ \E t \in Threads, label \in Labels \ {"push_wait"} :
                  pc[t] # "pop_notify" /\ Goto(t, label)
             \/ \E t \in Threads :
                  /\ pc[t] = "push_notify"
                  /\ pc' = [Woken("pop_wait", "pop_woken") EXCEPT ![t] = "idle"]
      PROVE  CapacityInv' /\ NoLostWakeupPush'
  <2>1. \A u \in Threads : /\ pc'[u] = "push_wait" => pc[u] = "push_wait"
                           /\ pc[u] = "pop_notify" => pc'[u] = "pop_notify"
    BY <1>a, <1>d DEF Woken, Goto
  <2>2. \A m \in Nat : Fits(m)' => Fits(m)
    BY <1>d DEF data, Fits
  <2> QED
    BY <1>d, <2>1, <2>2, PushSleepersKept DEF CapacityInv
<1>1. ASSUME NEW t \in Producers, PushEnd(t)
      PROVE  CapacityInv' /\ NoLostWakeupPush'
  BY <1>1, <1>d DEF PushEnd
<1>2. ASSUME NEW t \in Producers, NEW n \in Sizes, Push(t, n)
      PROVE  CapacityInv' /\ NoLostWakeupPush'
  BY <1>2, <1>a, <1>b DEF Push
<1>3. ASSUME NEW t \in Producers, PushRetry(t)
      PROVE  CapacityInv' /\ NoLostWakeupPush'
  BY <1>3, <1>a, <1>b DEF PushRetry
<1>4. ASSUME NEW t \in Producers, PushNotify(t)
      PROVE  CapacityInv' /\ NoLostWakeupPush'
  BY <1>4, <1>a, <1>d DEF PushNotify
<1>5. ASSUME NEW t \in Consumers, NEW n \in Sizes, Pop(t, n)
      PROVE  CapacityInv' /\ NoLostWakeupPush'
  BY <1>5, <1>a, <1>c DEF Pop
<1>6. ASSUME NEW t \in Consumers, PopRetry(t)
      PROVE  CapacityInv' /\ NoLostWakeupPush'
  BY <1>6, <1>a, <1>c DEF PopRetry
<1>7. ASSUME NEW t \in Consumers, NEW n \in Sizes, TryPopFinished(t, n)
      PROVE  CapacityInv' /\ NoLostWakeupPush'
  BY <1>7, <1>a, <1>d DEF TryPopFinished, Labels
<1>8. ASSUME NEW t \in Consumers, FinishReset(t)
      PROVE  CapacityInv' /\ NoLostWakeupPush'
  BY <1>8, <1>a, <1>d DEF FinishReset, Labels
<1>9. ASSUME NEW t \in Consumers, NEW n \in Sizes, TryPop(t, n)
      PROVE  CapacityInv' /\ NoLostWakeupPush'
  BY <1>9, <1>a DEF TryPop, Goto, NoLostWakeupPush, CapacityInv
<1>10. ASSUME NEW t \in Consumers, PopNotify(t)
       PROVE  CapacityInv' /\ NoLostWakeupPush'
  BY <1>10, <1>a DEF PopNotify, Woken, NoLostWakeupPush, CapacityInv
<1>11. ASSUME NEW t \in Consumers, LastPop(t)
       PROVE  CapacityInv' /\ NoLostWakeupPush'
  BY <1>11 DEF LastPop, RoomIsAnnounced
<1>12. ASSUME NEW t \in Owners, Clear(t)
       PROVE  CapacityInv' /\ NoLostWakeupPush'
  BY <1>12, <1>a DEF Clear, Woken, NoLostWakeupPush, CapacityInv
<1>13. ASSUME NEW t \in Owners, NEW c \in Capacities, SetMaxCapacity(t, c)
       PROVE  CapacityInv' /\ NoLostWakeupPush'
  <2>1. CASE c = 0
    BY <1>13, <1>a, <2>1
    DEF SetMaxCapacity, Woken, NoLostWakeupPush, CapacityInv
  <2>2. CASE c # 0
    <3>1. max_capacity_ = 0 \/ max_capacity_ = c
      BY <2>2 DEF CapacityInv, RoomIsAnnounced
    <3>2. \A m \in Nat : Fits(m)' => Fits(m)
      BY <1>13, <3>1 DEF SetMaxCapacity, data, Fits
    <3> QED
      BY <1>13, <2>2, <3>2, PushSleepersKept DEF SetMaxCapacity, CapacityInv
  <2> QED
    BY <2>1, <2>2
<1>14. ASSUME NEW t \in Threads, SpuriousWake(t)
       PROVE  CapacityInv' /\ NoLostWakeupPush'
  BY <1>14, <1>d DEF SpuriousWake, Labels
<1>15. CASE UNCHANGED vars
  BY <1>15, <1>d DEF vars, data
<1> QED
  BY <1>1, <1>2, <1>3, <1>4, <1>5, <1>6, <1>7, <1>8, <1>9, <1>10, <1>11,
     <1>12, <1>13, <1>14, <1>15
  DEF Next, ProducerStep, ConsumerStep, OwnerStep

(* A producer asleep in push whose data fits is about to be notified, for  *)
(* any users that make room only through calls that announce it.           *)
THEOREM PushWakeups ==
  ASSUME RoomIsAnnounced
  PROVE  Spec => []NoLostWakeupPush
<1>1. Init => CapacityInv /\ NoLostWakeupPush
  BY DEF Init, CapacityInv, NoLostWakeupPush
<1>2. IInv /\ IInv' /\ CapacityInv /\ NoLostWakeupPush /\ [Next]_vars
        => CapacityInv' /\ NoLostWakeupPush'
  BY NextNoLostWakeupPush
<1> QED
  BY <1>1, <1>2, InitIInv, NextIInv, PTL DEF Spec

-----------------------------------------------------------------------------
(* pop, try_pop and last_pop hand out the oldest bytes and lose none of    *)
(* the others, whoever else uses the queue.                                *)
THEOREM OldestFirst == Spec => HandsOutOldest
<1>1. ASSUME IInv, Next
      PROVE  got' # got => got' \o buffer_' = buffer_
  <2>1. /\ Tail_ /\ buffer_size_ = Len(buffer_) /\ Len(buffer_) \in Nat
        /\ \A n \in Sizes : n \in Nat
        /\ \A t \in Consumers : need[t] \in Nat
    BY <1>1, SizesAssumption, LenProperties
    DEF IInv, TypeOK, Tail_, BufferIsTail, Threads
  <2>2. ASSUME NEW n \in Nat, n <= buffer_size_, Remove(n)
        PROVE  got' \o buffer_' = buffer_
    BY <2>1, <2>2, RemoveFacts
  <2>3. ASSUME NEW t \in Consumers, NEW n \in Nat, TryRemove(t, n)
        PROVE  got' # got => got' \o buffer_' = buffer_
    <3>1. CASE buffer_size_ >= n /\ Remove(n)
      BY <2>1, <2>2, <3>1
    <3>2. CASE UNCHANGED data
      BY <3>2 DEF data
    <3> QED
      BY <2>3, <3>1, <3>2 DEF TryRemove
  <2>4. ASSUME NEW t \in Producers, ProducerStep(t) PROVE got' = got
    BY <2>4 DEF ProducerStep, PushEnd, Push, PushRetry, PushNotify,
                TryInsert, Insert, data
  <2>5. ASSUME NEW t \in Consumers, ConsumerStep(t)
        PROVE  got' # got => got' \o buffer_' = buffer_
    <3>1. ASSUME NEW n \in Sizes, Pop(t, n)
          PROVE  got' # got => got' \o buffer_' = buffer_
      BY <2>1, <2>3, <3>1 DEF Pop
    <3>2. ASSUME NEW n \in Sizes, TryPop(t, n)
          PROVE  got' # got => got' \o buffer_' = buffer_
      <4>1. n \in Nat /\ n <= buffer_size_ /\ Remove(n)
        BY <2>1, <3>2 DEF TryPop
      <4> QED
        BY <2>2, <4>1
    <3>3. CASE PopRetry(t)
      BY <2>1, <2>3, <3>3 DEF PopRetry
    <3>4. CASE LastPop(t)
      <4>1. Len(buffer_) \in Nat /\ Len(buffer_) <= buffer_size_
            /\ Remove(Len(buffer_))
        BY <2>1, <3>4 DEF LastPop
      <4> QED
        BY <2>2, <4>1
    <3>5. CASE \/ \E n \in Sizes : TryPopFinished(t, n)
               \/ FinishReset(t) \/ PopNotify(t)
      BY <3>5 DEF TryPopFinished, FinishReset, PopNotify, data
    <3> QED
      BY <2>5, <3>1, <3>2, <3>3, <3>4, <3>5 DEF ConsumerStep
  <2>6. ASSUME NEW t \in Owners, OwnerStep(t) PROVE got' = got
    BY <2>6 DEF OwnerStep, Clear, SetMaxCapacity, data
  <2>7. ASSUME NEW t \in Threads, SpuriousWake(t) PROVE got' = got
    BY <2>7 DEF SpuriousWake, data
  <2> QED
    BY <1>1, <2>4, <2>5, <2>6, <2>7 DEF Next
<1>2. IInv /\ [Next]_vars => [got' # got => got' \o buffer_' = buffer_]_vars
  BY <1>1
<1> QED
  BY <1>2, InitIInv, NextIInv, PTL DEF Spec, HandsOutOldest

(* No call of push takes a limited queue past its capacity.                *)
THEOREM CapacityKept == Spec => CapacityRespected
<1>1. ASSUME IInv, Next
      PROVE  pushed' > pushed /\ max_capacity_ # 0
               => buffer_size_' <= max_capacity_
  <2>1. pushed \in Nat
    BY <1>1 DEF IInv, TypeOK
  <2>2. ASSUME NEW t, NEW n, TryInsert(t, n)
        PROVE  pushed' > pushed /\ max_capacity_ # 0
                 => buffer_size_' <= max_capacity_
    <3>1. CASE Fits(n) /\ Insert(n)
      BY <3>1 DEF Fits, Insert
    <3>2. CASE UNCHANGED data
      BY <2>1, <3>2 DEF data
    <3> QED
      BY <2>2, <3>1, <3>2 DEF TryInsert
  <2>3. CASE pushed' = pushed
    BY <2>1, <2>3
  <2>4. ASSUME NEW t \in Producers, ProducerStep(t)
        PROVE  pushed' > pushed /\ max_capacity_ # 0
                 => buffer_size_' <= max_capacity_
    BY <2>2, <2>3, <2>4
    DEF ProducerStep, PushEnd, Push, PushRetry, PushNotify, data
  <2>5. ASSUME NEW t \in Consumers, ConsumerStep(t) PROVE pushed' = pushed
    BY <2>5 DEF ConsumerStep, Pop, PopRetry, TryRemove, TryPopFinished, TryPop,
                FinishReset, PopNotify, LastPop, Remove, data
  <2>6. ASSUME NEW t \in Owners, OwnerStep(t) PROVE pushed' = pushed
    BY <2>6 DEF OwnerStep, Clear, SetMaxCapacity, data
  <2>7. ASSUME NEW t \in Threads, SpuriousWake(t) PROVE pushed' = pushed
    BY <2>7 DEF SpuriousWake, data
  <2> QED
    BY <1>1, <2>3, <2>4, <2>5, <2>6, <2>7 DEF Next
<1>2. IInv /\ [Next]_vars
        => [pushed' > pushed /\ max_capacity_ # 0
              => buffer_size_' <= max_capacity_]_vars
  BY <1>1
<1> QED
  BY <1>2, InitIInv, NextIInv, PTL DEF Spec, CapacityRespected

-----------------------------------------------------------------------------
(* A step that pushes no end mark and clears nothing keeps whoever is      *)
(* about to reset the flag there.                                          *)
LEMMA ResetsStay ==
  ASSUME pc \in [Threads -> Labels],
         \/ UNCHANGED pc
         \/ \E t \in Threads, label \in Labels :
              pc[t] # "finish_reset" /\ Goto(t, label)
         \/ \E from \in {"push_wait", "pop_wait"}, to \in Labels :
              pc' = Woken(from, to)
         \/ \E t \in Threads, from \in {"push_wait", "pop_wait"}, to, label \in Labels :
              /\ pc[t] # "finish_reset"
              /\ pc' = [Woken(from, to) EXCEPT ![t] = label]
  PROVE  \A u \in Threads : pc[u] = "finish_reset" => pc'[u] = "finish_reset"
BY DEF Woken, Goto

(* What a step does to the flag, the marks and the threads that reset it.  *)
LEMMA EndSteps ==
  ASSUME IInv, [Next]_vars
  PROVE  \/ /\ UNCHANGED <<is_finished, marks>>
            /\ \A u \in Threads : pc[u] = "finish_reset"
                                   => pc'[u] = "finish_reset"
         \/ \E t \in Producers : PushEnd(t)
         \/ \E t \in Consumers, n \in Sizes : TryPopFinished(t, n)
         \/ \E t \in Consumers : FinishReset(t)
         \/ \E t \in Owners : Clear(t)
<1> DEFINE Stays == /\ UNCHANGED <<is_finished, marks>>
                   /\ \A u \in Threads : pc[u] = "finish_reset"
                                          => pc'[u] = "finish_reset"
<1>a. /\ pc \in [Threads -> Labels]
      /\ Producers \subseteq Threads /\ Consumers \subseteq Threads
  BY DEF IInv, TypeOK, Threads
<1>1. ASSUME NEW t \in Producers, NEW n \in Sizes, Push(t, n) PROVE Stays
  BY <1>1, <1>a, ResetsStay DEF Push, TryInsert, Goto, Labels
<1>2. ASSUME NEW t \in Producers, PushRetry(t) PROVE Stays
  BY <1>2, <1>a, ResetsStay DEF PushRetry, TryInsert, Goto, Labels
<1>3. ASSUME NEW t \in Producers, PushNotify(t) PROVE Stays
  BY <1>3, <1>a, ResetsStay DEF PushNotify, Labels
<1>4. ASSUME NEW t \in Consumers, NEW n \in Sizes, Pop(t, n) PROVE Stays
  BY <1>4, <1>a, ResetsStay DEF Pop, TryRemove, Goto, Labels
<1>5. ASSUME NEW t \in Consumers, PopRetry(t) PROVE Stays
  BY <1>5, <1>a, ResetsStay DEF PopRetry, TryRemove, Goto, Labels
<1>6. ASSUME NEW t \in Consumers, NEW n \in Sizes, TryPop(t, n) PROVE Stays
  BY <1>6, <1>a, ResetsStay DEF TryPop, Goto, Labels
<1>7. ASSUME NEW t \in Consumers, PopNotify(t) PROVE Stays
  BY <1>7, <1>a, ResetsStay DEF PopNotify, Labels
<1>8. ASSUME NEW t \in Consumers, LastPop(t) PROVE Stays
  BY <1>8, <1>a, ResetsStay DEF LastPop
<1>9. ASSUME NEW t \in Owners, NEW c \in Capacities, SetMaxCapacity(t, c)
      PROVE  Stays
  BY <1>9, <1>a, ResetsStay DEF SetMaxCapacity, Labels
<1>10. ASSUME NEW t \in Threads, SpuriousWake(t) PROVE Stays
  BY <1>10, <1>a, ResetsStay DEF SpuriousWake, Goto, Labels
<1>11. CASE UNCHANGED vars
  BY <1>11 DEF vars
<1> QED
  BY <1>1, <1>2, <1>3, <1>4, <1>5, <1>6, <1>7, <1>8, <1>9, <1>10, <1>11
  DEF Next, ProducerStep, ConsumerStep, OwnerStep

(* However many threads consume, no end is pending that nobody pushed.     *)
THEOREM EndsArePushed == Spec => []NoPhantomEnd
<1>1. Init => NoPhantomEnd
  BY DEF Init, NoPhantomEnd
<1>2. ASSUME IInv, NoPhantomEnd, [Next]_vars PROVE NoPhantomEnd'
  <2>a. pc \in [Threads -> Labels] /\ Consumers \subseteq Threads
    BY <1>2 DEF IInv, TypeOK, Threads
  <2>1. ASSUME UNCHANGED <<is_finished, marks>>,
               \A u \in Threads : pc[u] = "finish_reset"
                                   => pc'[u] = "finish_reset"
        PROVE  NoPhantomEnd'
    BY <1>2, <2>1 DEF NoPhantomEnd, NobodyResets
  <2>2. ASSUME NEW t \in Producers, PushEnd(t) PROVE NoPhantomEnd'
    BY <2>2 DEF PushEnd, NoPhantomEnd
  <2>3. ASSUME NEW t \in Consumers, NEW n \in Sizes, TryPopFinished(t, n)
        PROVE  NoPhantomEnd'
    BY <2>3, <2>a DEF TryPopFinished, NoPhantomEnd, NobodyResets, Goto, Labels
  <2>4. ASSUME NEW t \in Consumers, FinishReset(t) PROVE NoPhantomEnd'
    BY <2>4 DEF FinishReset, NoPhantomEnd
  <2>5. ASSUME NEW t \in Owners, Clear(t) PROVE NoPhantomEnd'
    BY <2>5 DEF Clear, NoPhantomEnd
  <2> QED
    BY <1>2, <2>1, <2>2, <2>3, <2>4, <2>5, EndSteps
<1> QED
  BY <1>1, <1>2, InitIInv, NextIInv, PTL DEF Spec

-----------------------------------------------------------------------------
(* Utterances one at a time.  The strengthening: whoever is about to reset *)
(* the flag finds no mark, every mark is at the end of what was pushed,    *)
(* and no call of push is under way while an end is pending.               *)
PoliteInv ==
  /\ ~NobodyResets => marks = {}
  /\ marks # {} => is_finished
  /\ \A m \in marks : m = pushed
  /\ ~Reported => \A t \in Threads : pc[t] \notin {"push_wait", "push_woken"}

LEMMA PoliteIsNext == [PoliteNext]_vars => [Next]_vars
BY DEF PoliteNext, PoliteProducerStep, Next, ProducerStep

LEMMA PoliteInvInit == Init => PoliteInv
BY DEF Init, PoliteInv, NobodyResets, Reported

(* A step of a call of push, which runs only while no end is pending.      *)
LEMMA PushingKeepsPoliteInv ==
  ASSUME IInv, PoliteInv, Reported, NEW t \in Threads, NEW n,
         pc[t] # "finish_reset", TryInsert(t, n),
         UNCHANGED <<is_finished, marks>>
  PROVE  PoliteInv'
<1>1. NobodyResets' /\ ~is_finished'
  BY DEF IInv, TypeOK, Reported, NobodyResets, TryInsert, Goto
<1>2. marks' = {}
  BY DEF PoliteInv, Reported
<1> QED
  BY <1>1, <1>2 DEF PoliteInv, Reported

(* A step that touches neither the stream of bytes pushed nor the flag.    *)
LEMMA QuietKeepsPoliteInv ==
  ASSUME IInv, PoliteInv, UNCHANGED <<pushed, is_finished, marks>>,
         \A u \in Threads :
           /\ (pc'[u] = "finish_reset") = (pc[u] = "finish_reset")
           /\ pc'[u] \in {"push_wait", "push_woken"}
                => pc[u] \in {"push_wait", "push_woken"}
  PROVE  PoliteInv'
<1>1. NobodyResets' = NobodyResets
  BY DEF NobodyResets
<1>2. Reported' = Reported
  BY <1>1 DEF Reported
<1> QED
  BY <1>1, <1>2 DEF PoliteInv

LEMMA PoliteInvNext ==
  ASSUME IInv, PoliteInv, [PoliteNext]_vars PROVE PoliteInv'
<1>a. /\ pc \in [Threads -> Labels]
      /\ Producers \subseteq Threads /\ Consumers \subseteq Threads
      /\ Owners \subseteq Threads
  BY DEF IInv, TypeOK, Threads
<1>1. ASSUME NEW t \in Producers, Reported, PushEnd(t),
             \A u \in Threads : pc[u] \notin {"push_wait", "push_woken"}
      PROVE  PoliteInv'
  <2>1. marks = {} /\ NobodyResets'
    BY <1>1 DEF PoliteInv, Reported, NobodyResets, PushEnd
  <2> QED
    BY <1>1, <2>1 DEF PushEnd, PoliteInv, data
<1>2. ASSUME NEW t \in Producers, NEW n \in Sizes, Reported, Push(t, n)
      PROVE  PoliteInv'
  BY <1>2, <1>a, PushingKeepsPoliteInv DEF Push
<1>3. ASSUME NEW t \in Producers, PushRetry(t) PROVE PoliteInv'
  <2>1. Reported
    BY <1>3, <1>a DEF PushRetry, PoliteInv
  <2> QED
    BY <1>3, <1>a, <2>1, PushingKeepsPoliteInv DEF PushRetry
<1>4. ASSUME NEW t \in Producers, PushNotify(t) PROVE PoliteInv'
  BY <1>4, <1>a, QuietKeepsPoliteInv DEF PushNotify, Woken, data
<1>5. ASSUME NEW t \in Consumers, NEW n \in Sizes, Pop(t, n) PROVE PoliteInv'
  BY <1>5, <1>a, QuietKeepsPoliteInv DEF Pop, TryRemove, Remove, Goto, data
<1>6. ASSUME NEW t \in Consumers, PopRetry(t) PROVE PoliteInv'
  BY <1>6, <1>a, QuietKeepsPoliteInv DEF PopRetry, TryRemove, Remove, Goto, data
<1>7. ASSUME NEW t \in Consumers, NEW n \in Sizes, TryPopFinished(t, n)
      PROVE  PoliteInv'
  <2>1. \A u \in Threads : pc'[u] \in {"push_wait", "push_woken"}
                            => pc[u] \in {"push_wait", "push_woken"}
    BY <1>7, <1>a DEF TryPopFinished, Goto
  <2>2. \A u \in Threads : pc'[u] \notin {"push_wait", "push_woken"}
    BY <1>7, <2>1 DEF TryPopFinished, PoliteInv, Reported
  <2> QED
    BY <1>7, <2>2 DEF TryPopFinished, PoliteInv
<1>8. ASSUME NEW t \in Consumers, FinishReset(t) PROVE PoliteInv'
  <2>1. marks = {} /\ ~Reported
    BY <1>8, <1>a DEF FinishReset, PoliteInv, NobodyResets, Reported
  <2>2. \A u \in Threads : pc'[u] \notin {"push_wait", "push_woken"}
    BY <1>8, <1>a, <2>1 DEF FinishReset, Goto, PoliteInv
  <2> QED
    BY <1>8, <2>1, <2>2 DEF FinishReset, PoliteInv
<1>9. ASSUME NEW t \in Consumers, NEW n \in Sizes, TryPop(t, n)
      PROVE  PoliteInv'
  BY <1>9, <1>a, QuietKeepsPoliteInv DEF TryPop, Remove, Goto
<1>10. ASSUME NEW t \in Consumers, PopNotify(t) PROVE PoliteInv'
  <2>1. \A u \in Threads :
          /\ (pc'[u] = "finish_reset") = (pc[u] = "finish_reset")
          /\ pc'[u] \in {"push_wait", "push_woken"}
               => pc[u] \in {"push_wait", "push_woken"}
    BY <1>10, <1>a DEF PopNotify, Woken
  <2> QED
    BY <1>10, <2>1, QuietKeepsPoliteInv DEF PopNotify, data
<1>11. ASSUME NEW t \in Consumers, LastPop(t) PROVE PoliteInv'
  BY <1>11, <1>a, QuietKeepsPoliteInv DEF LastPop, Remove
<1>12. ASSUME NEW t \in Owners, Clear(t) PROVE PoliteInv'
  <2>1. \A u \in Threads :
          /\ (pc'[u] = "finish_reset") = (pc[u] = "finish_reset")
          /\ pc'[u] \in {"push_wait", "push_woken"}
               => pc[u] \in {"push_wait", "push_woken"}
    BY <1>12, <1>a DEF Clear, Woken
  <2>2. marks' = {} /\ NobodyResets' = NobodyResets
    BY <1>12, <2>1 DEF Clear, NobodyResets
  <2>3. Reported => Reported'
    BY <1>12, <2>2 DEF Clear, Reported
  <2> QED
    BY <1>12, <2>1, <2>2, <2>3 DEF PoliteInv
<1>13. ASSUME NEW t \in Owners, NEW c \in Capacities, SetMaxCapacity(t, c)
       PROVE  PoliteInv'
  BY <1>13, <1>a, QuietKeepsPoliteInv DEF SetMaxCapacity, Woken, data
<1>14. ASSUME NEW t \in Threads, SpuriousWake(t) PROVE PoliteInv'
  BY <1>14, <1>a, QuietKeepsPoliteInv DEF SpuriousWake, Goto, data
<1>15. CASE UNCHANGED vars
  BY <1>15, QuietKeepsPoliteInv DEF vars
<1> QED
  BY <1>1, <1>2, <1>3, <1>4, <1>5, <1>6, <1>7, <1>8, <1>9, <1>10, <1>11,
     <1>12, <1>13, <1>14, <1>15
  DEF PoliteNext, PoliteProducerStep, ConsumerStep, OwnerStep

LEMMA PoliteInvariant == PoliteSpec => [](IInv /\ PoliteInv)
<1>1. IInv /\ PoliteInv /\ [PoliteNext]_vars => IInv' /\ PoliteInv'
  BY NextIInv, PoliteIsNext, PoliteInvNext
<1> QED
  BY <1>1, InitIInv, PoliteInvInit, PTL DEF PoliteSpec

(* The assignment after the unlock wipes out no end mark of a peer that    *)
(* waits for the report.                                                   *)
THEOREM EndsAreKept == PoliteSpec => []EndMarkKept
<1>1. PoliteInv => EndMarkKept
  BY DEF PoliteInv, EndMarkKept
<1> QED
  BY <1>1, PoliteInvariant, PTL

(* No byte of the next utterance is handed out before the end is reported. *)
THEOREM EndsInOrder == PoliteSpec => []EndNotOvertaken
<1>1. IInv /\ PoliteInv => EndNotOvertaken
  <2> SUFFICES ASSUME IInv, PoliteInv, NEW m \in marks
               PROVE  pushed - Len(buffer_) <= m
    BY DEF EndNotOvertaken
  <2>1. m = pushed /\ pushed \in Nat /\ Len(buffer_) \in Nat
    BY LenProperties DEF PoliteInv, IInv, TypeOK
  <2> QED
    BY <2>1
<1> QED
  BY <1>1, PoliteInvariant, PTL

-----------------------------------------------------------------------------
(* The queue implements the byte stream.  The state function the flag and  *)
(* the program counters map to:                                            *)
EndPending == is_finished /\ NobodyResets

(* A step of the queue that touches no byte and keeps the end pending, or  *)
(* not pending, as it was, is a stutter of the stream.                     *)
LEMMA Stutters ==
  ASSUME IInv, UNCHANGED <<data, is_finished>>,
         \A u \in Threads :
           (pc'[u] = "finish_reset") = (pc[u] = "finish_reset")
  PROVE  UNCHANGED Stream!streamVars
BY DEF Stream!streamVars, data, NobodyResets

LEMMA InsertIsPut ==
  ASSUME IInv, Reported, NEW t \in Threads, NEW n \in Sizes,
         pc[t] # "finish_reset", TryInsert(t, n), UNCHANGED is_finished
  PROVE  [Stream!Next]_(Stream!streamVars)
<1>1. ~EndPending /\ ~EndPending'
  BY DEF EndPending, Reported
<1>2. CASE Insert(n)
  BY <1>1, <1>2 DEF Insert, Stream!Next, Stream!Put, EndPending
<1>3. CASE UNCHANGED data
  BY <1>1, <1>3 DEF data, Stream!streamVars, EndPending
<1> QED
  BY <1>2, <1>3 DEF TryInsert

LEMMA RemoveIsTake ==
  ASSUME IInv, NEW n \in Sizes \cup {Len(buffer_)}, n <= Len(buffer_),
         Remove(n), UNCHANGED is_finished,
         \A u \in Threads :
           (pc'[u] = "finish_reset") = (pc[u] = "finish_reset")
  PROVE  Stream!Next
<1>1. EndPending' = EndPending
  BY DEF EndPending, NobodyResets
<1> QED
  BY <1>1 DEF Remove, Stream!Next, Stream!Take, EndPending

(* While a thread waits in push the size it waits with is one of Sizes.    *)
NeedInv ==
  \A t \in Threads :
    pc[t] \in {"push_wait", "push_woken", "pop_wait", "pop_woken"}
      => need[t] \in Sizes

LEMMA NeedInvNext == ASSUME IInv, NeedInv, [Next]_vars PROVE NeedInv'
<1> DEFINE Waits == {"push_wait", "push_woken", "pop_wait", "pop_woken"}
<1>a. /\ pc \in [Threads -> Labels] /\ need \in [Threads -> Nat]
      /\ Producers \subseteq Threads /\ Consumers \subseteq Threads
      /\ \A n \in Sizes : n \in Nat
  BY SizesAssumption DEF IInv, TypeOK, Threads
<1>b. ASSUME UNCHANGED need, \A u \in Threads : pc'[u] \in Waits => pc[u] \in Waits
      PROVE  NeedInv'
  BY <1>b DEF NeedInv
<1>1. ASSUME NEW t \in Threads, NEW n \in Sizes,
             TryInsert(t, n) \/ TryRemove(t, n)
      PROVE  NeedInv'
  BY <1>1, <1>a DEF TryInsert, TryRemove, Goto, NeedInv
<1>2. ASSUME NEW t \in Producers,
             PushEnd(t) \/ (\E n \in Sizes : Push(t, n)) \/ PushRetry(t)
      PROVE  NeedInv'
  <2>1. CASE PushEnd(t)
    BY <1>b, <2>1 DEF PushEnd
  <2>2. CASE \E n \in Sizes : Push(t, n)
    BY <1>1, <1>a, <2>2 DEF Push
  <2>3. CASE PushRetry(t)
    BY <1>1, <1>a, <2>3 DEF PushRetry, NeedInv
  <2> QED
    BY <1>2, <2>1, <2>2, <2>3
<1>3. ASSUME NEW t \in Producers, PushNotify(t) PROVE NeedInv'
  BY <1>3, <1>a, <1>b DEF PushNotify, Woken
<1>4. ASSUME NEW t \in Consumers,
             (\E n \in Sizes : Pop(t, n)) \/ PopRetry(t) PROVE NeedInv'
  <2>1. CASE \E n \in Sizes : Pop(t, n)
    BY <1>1, <1>a, <2>1 DEF Pop
  <2>2. CASE PopRetry(t)
    BY <1>1, <1>a, <2>2 DEF PopRetry, NeedInv
  <2> QED
    BY <1>4, <2>1, <2>2
<1>5. ASSUME NEW t \in Consumers,
             \/ \E n \in Sizes : TryPopFinished(t, n) \/ TryPop(t, n)
             \/ FinishReset(t) \/ LastPop(t)
      PROVE  NeedInv'
  BY <1>5, <1>a, <1>b DEF TryPopFinished, FinishReset, TryPop, LastPop, Goto
<1>6. ASSUME NEW t \in Consumers, PopNotify(t) PROVE NeedInv'
  BY <1>6, <1>a, <1>b DEF PopNotify, Woken
<1>7. ASSUME NEW t \in Owners, OwnerStep(t) PROVE NeedInv'
  BY <1>7, <1>a, <1>b DEF OwnerStep, Clear, SetMaxCapacity, Woken
<1>8. ASSUME NEW t \in Threads, SpuriousWake(t) PROVE NeedInv'
  BY <1>8, <1>a, <1>b DEF SpuriousWake, Goto
<1>9. CASE UNCHANGED vars
  BY <1>9, <1>b DEF vars
<1> QED
  BY <1>2, <1>3, <1>4, <1>5, <1>6, <1>7, <1>8, <1>9
  DEF Next, ProducerStep, ConsumerStep

LEMMA StepIsStreamStep ==
  ASSUME IInv, PoliteInv, NeedInv, [PoliteNext]_vars
  PROVE  [Stream!Next]_(Stream!streamVars)
<1>a. /\ pc \in [Threads -> Labels] /\ buffer_size_ = Len(buffer_)
      /\ Len(buffer_) \in Nat
      /\ Producers \subseteq Threads /\ Consumers \subseteq Threads
      /\ \A n \in Sizes : n \in Nat
  BY SizesAssumption, LenProperties DEF IInv, TypeOK, Threads, BufferIsTail
<1>1. ASSUME NEW t \in Producers, Reported, PushEnd(t) PROVE Stream!Next
  <2>1. ~EndPending /\ EndPending'
    BY <1>1 DEF Reported, PushEnd, EndPending, NobodyResets
  <2> QED
    BY <1>1, <2>1 DEF PushEnd, data, Stream!Next, Stream!End, EndPending
<1>2. ASSUME NEW t \in Producers, NEW n \in Sizes, Reported, Push(t, n)
      PROVE  [Stream!Next]_(Stream!streamVars)
  BY <1>2, <1>a, InsertIsPut DEF Push
<1>3. ASSUME NEW t \in Producers, PushRetry(t)
      PROVE  [Stream!Next]_(Stream!streamVars)
  <2>1. Reported /\ need[t] \in Sizes
    BY <1>3, <1>a DEF PushRetry, PoliteInv, NeedInv
  <2> QED
    BY <1>3, <1>a, <2>1, InsertIsPut DEF PushRetry
<1>4. ASSUME NEW t \in Threads, PushNotify(t) \/ PopNotify(t) \/ SpuriousWake(t)
      PROVE  UNCHANGED Stream!streamVars
  BY <1>4, <1>a, Stutters DEF PushNotify, PopNotify, SpuriousWake, Woken, Goto
<1>5. ASSUME NEW t \in Consumers, NEW n \in Sizes,
             Pop(t, n) \/ (PopRetry(t) /\ n = need[t])
      PROVE  [Stream!Next]_(Stream!streamVars)
  <2>1. CASE buffer_size_ >= n /\ Remove(n) /\ Goto(t, "pop_notify")
    BY <1>5, <1>a, <2>1, RemoveIsTake DEF Pop, PopRetry, Goto
  <2>2. CASE UNCHANGED data /\ Goto(t, "pop_wait")
    BY <1>5, <1>a, <2>2, Stutters DEF Pop, PopRetry, Goto
  <2> QED
    BY <1>5, <2>1, <2>2 DEF Pop, PopRetry, TryRemove
<1>6. ASSUME NEW t \in Consumers, PopRetry(t)
      PROVE  [Stream!Next]_(Stream!streamVars)
  <2>1. need[t] \in Sizes
    BY <1>6, <1>a DEF PopRetry, NeedInv
  <2> QED
    BY <1>5, <1>6, <2>1
<1>7. ASSUME NEW t \in Consumers, NEW n \in Sizes, TryPopFinished(t, n)
      PROVE  [Stream!Next]_(Stream!streamVars)
  <2>1. ~EndPending'
    BY <1>7, <1>a DEF TryPopFinished, EndPending, NobodyResets, Goto
  <2>2. CASE EndPending
    BY <1>7, <1>a, <2>1, <2>2
    DEF TryPopFinished, data, Stream!Next, Stream!Report, EndPending
  <2>3. CASE ~EndPending
    BY <1>7, <2>1, <2>3
    DEF TryPopFinished, data, Stream!streamVars, EndPending
  <2> QED
    BY <2>2, <2>3
<1>8. ASSUME NEW t \in Consumers, FinishReset(t)
      PROVE  UNCHANGED Stream!streamVars
  <2>1. ~EndPending /\ ~EndPending'
    BY <1>8, <1>a DEF FinishReset, EndPending, NobodyResets
  <2> QED
    BY <1>8, <2>1 DEF FinishReset, data, Stream!streamVars, EndPending
<1>9. ASSUME NEW t \in Consumers, NEW n \in Sizes, TryPop(t, n)
      PROVE  Stream!Next
  BY <1>9, <1>a, RemoveIsTake DEF TryPop, Goto
<1>10. ASSUME NEW t \in Consumers, LastPop(t) PROVE Stream!Next
  BY <1>10, <1>a, RemoveIsTake DEF LastPop
<1>11. ASSUME NEW t \in Owners, Clear(t) PROVE Stream!Next
  <2>1. ~EndPending'
    BY <1>11 DEF Clear, EndPending
  <2> QED
    BY <1>11, <2>1 DEF Clear, Stream!Next, Stream!Discard, EndPending
<1>12. ASSUME NEW t \in Owners, NEW c \in Capacities, SetMaxCapacity(t, c)
       PROVE  UNCHANGED Stream!streamVars
  BY <1>12, <1>a, Stutters DEF SetMaxCapacity, Woken
<1>13. CASE UNCHANGED vars
  BY <1>13, Stutters DEF vars, data
<1> QED
  BY <1>1, <1>2, <1>3, <1>4, <1>5, <1>6, <1>7, <1>8, <1>9, <1>10, <1>11,
     <1>12, <1>13, <1>a
  DEF PoliteNext, PoliteProducerStep, ConsumerStep, OwnerStep

(* To a peer that sends one utterance at a time, any number of threads,    *)
(* with any capacities and sizes, share one byte stream.                   *)
THEOREM QueueIsStream == PoliteSpec => IsByteStream
<1>1. Init => Stream!Init
  BY DEF Init, Stream!Init
<1>2. Init => NeedInv
  BY DEF Init, NeedInv
<1>3. NeedInv /\ IInv /\ [PoliteNext]_vars => NeedInv'
  BY NeedInvNext, PoliteIsNext
<1>4. IInv /\ PoliteInv /\ NeedInv /\ [PoliteNext]_vars
        => [Stream!Next]_(Stream!streamVars)
  BY StepIsStreamStep
<1> QED
  BY <1>1, <1>2, <1>3, <1>4, PoliteInvariant, PTL
  DEF PoliteSpec, IsByteStream, Stream!Spec
=============================================================================
