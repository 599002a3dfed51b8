----------------------- MODULE WebSocketHandlerProofs -----------------------
(***************************************************************************)
(* Theorems about the talk of one handler, for any identifiers and any     *)
(* number of messages and frames.  IInv says what the lists of calls look  *)
(* like; AsrInv, EndInv, IdsInv and NamedInv are inductive together with   *)
(* it.                                                                     *)
(***************************************************************************)
EXTENDS WebSocketHandler, SequenceTheorems, TLAPS

-----------------------------------------------------------------------------
(* What a thread may still have to do.                                     *)
Alphabet(t) ==
  CASE t = "app"    -> {"parse", "client", "connect", "run", "assign", "error"}
    [] t = "media"  -> {"binary", "test_asr", "no_asr", "send", "audio"}
    [] t = "play"   -> {"detect_end", "finish", "cancel", "test_open",
                        "terminate", "bye", "error", "send"}
    [] t = "worker" -> {"store", "ids", "garbage", "hello", "connected", "ok",
                        "no_tts", "bye", "error", "cancel", "test_open",
                        "terminate",
                        "ttsstart", "ttsstop", "asrstart", "asrstop", "send"}

(* Every call but a send, which comes with what it sends.                  *)
Plain ==
  Texts \cup Events \cup Commands
  \cup {"parse", "client", "connect", "run", "assign", "store", "binary",
        "test_asr", "cancel", "test_open", "terminate"}

Sends(s) ==
  \E x \in Texts \cup {"audio"} : \E r \in Seq(Plain) : s = <<"send", x>> \o r

(* A send is next or nowhere.                                              *)
Shape(s) == s \in Seq(Plain) \/ Sends(s)

TodoOK ==
  /\ todo = [t \in Threads |-> todo[t]]
  /\ \A t \in Threads : todo[t] \in Seq(Alphabet(t))
  /\ \A t \in Threads : Shape(todo[t])

LEMMA Replaced ==
  ASSUME NEW S, NEW s \in Seq(S), s # <<>>, NEW calls \in Seq(S)
  PROVE  /\ calls \o Tail(s) \in Seq(S) /\ Tail(s) \in Seq(S)
         /\ Head(s) \in S
  OBVIOUS

LEMMA SendParts ==
  ASSUME NEW x, NEW S, NEW r \in Seq(S)
  PROVE  LET s == <<"send", x>> \o r IN
         /\ s # <<>> /\ Head(s) = "send" /\ Len(s) > 1 /\ s[2] = x
         /\ Tail(Tail(s)) = r
<1> DEFINE s == <<"send", x>> \o r
<1> DEFINE U == S \cup {"send", x}
<1>1. <<"send", x>> \in Seq(U) /\ r \in Seq(U)
  OBVIOUS
<1>2. s \in Seq(U) /\ Len(s) = 2 + Len(r) /\ s[1] = "send" /\ s[2] = x
      /\ \A i \in 1..Len(r) : s[i + 2] = r[i]
  BY <1>1
<1> HIDE DEF s
<1>3. /\ Tail(s) \in Seq(U) /\ Len(Tail(s)) = 1 + Len(r)
      /\ \A i \in 1..Len(Tail(s)) : Tail(s)[i] = s[i + 1]
  BY <1>1, <1>2, HeadTailProperties
<1>4. /\ Tail(Tail(s)) \in Seq(U) /\ Len(Tail(Tail(s))) = Len(r)
      /\ \A i \in 1..Len(Tail(Tail(s))) : Tail(Tail(s))[i] = Tail(s)[i + 1]
  <2> DEFINE q == Tail(s)
  <2>1. q \in Seq(U) /\ q # <<>> /\ Len(q) = 1 + Len(r)
    BY <1>1, <1>3
  <2> HIDE DEF q
  <2>2. /\ Tail(q) \in Seq(U) /\ Len(Tail(q)) = Len(q) - 1
        /\ \A i \in 1..Len(Tail(q)) : Tail(q)[i] = q[i + 1]
    BY <2>1, HeadTailProperties
  <2>3. Len(Tail(q)) = Len(r)
    BY <2>1, <2>2, <1>1
  <2> QED  BY <2>2, <2>3 DEF q
<1>5. Tail(Tail(s)) = r
  <2>1. \A i \in 1..Len(r) : Tail(Tail(s))[i] = r[i]
    BY <1>1, <1>2, <1>3, <1>4
  <2> QED  BY <1>1, <1>4, <2>1, SeqEqual
<1>6. s # <<>> /\ Head(s) = "send" /\ Len(s) > 1
  BY <1>1, <1>2
<1> QED  BY <1>2, <1>5, <1>6 DEF s

(* A call that is no send: the rest is plain.                              *)
LEMMA PlainNow ==
  ASSUME NEW s, Shape(s), s # <<>>, Head(s) # "send"
  PROVE  s \in Seq(Plain)
  BY SendParts DEF Shape, Sends

(* What Does makes of the shape.                                           *)
LEMMA DoesShape ==
  ASSUME NEW s, Shape(s), s # <<>>, Head(s) # "send",
         NEW calls, Shape(calls)
  PROVE  Shape(calls \o Tail(s))
<1>1. s \in Seq(Plain) /\ Tail(s) \in Seq(Plain)
  BY PlainNow
<1>2. CASE calls \in Seq(Plain)
  BY <1>1, <1>2 DEF Shape
<1>3. CASE Sends(calls)
  <2>1. PICK x \in Texts \cup {"audio"}, r \in Seq(Plain) :
          calls = <<"send", x>> \o r
    BY <1>3 DEF Sends
  <2>2. r \o Tail(s) \in Seq(Plain)
    BY <1>1
  <2> DEFINE U == Plain \cup {"send", x}
  <2>3. <<"send", x>> \in Seq(U) /\ r \in Seq(U) /\ Tail(s) \in Seq(U)
    BY <1>1
  <2> HIDE DEF U
  <2>4. (<<"send", x>> \o r) \o Tail(s) = <<"send", x>> \o (r \o Tail(s))
    BY <2>3, ConcatAssociative
  <2> QED  BY <2>1, <2>2, <2>4 DEF Shape, Sends
<1> QED  BY <1>2, <1>3 DEF Shape

-----------------------------------------------------------------------------
(* One thread's list becomes n.                                            *)
LEMMA SetTodo ==
  ASSUME TodoOK, NEW t \in Threads, NEW n \in Seq(Alphabet(t)), Shape(n),
         todo' = [todo EXCEPT ![t] = n]
  PROVE  /\ TodoOK' /\ todo'[t] = n
         /\ \A u \in Threads : u # t => todo'[u] = todo[u]
<1>1. \A u \in Threads : todo'[u] = IF u = t THEN n ELSE todo[u]
  BY DEF TodoOK
<1>2. todo' = [u \in Threads |-> todo'[u]]
  BY <1>1 DEF TodoOK
<1> QED  BY <1>1, <1>2 DEF TodoOK

LEMMA DoesTodo ==
  ASSUME TodoOK, NEW t \in Threads, NEW call, call # "send",
         NEW calls \in Seq(Alphabet(t)), Shape(calls), Does(t, call, calls)
  PROVE  /\ TodoOK' /\ todo[t] # <<>> /\ Head(todo[t]) = call
         /\ todo'[t] = calls \o Tail(todo[t])
         /\ call \in Alphabet(t)
         /\ \A u \in Threads : u # t => todo'[u] = todo[u]
<1> DEFINE n == calls \o Tail(todo[t])
<1>1. /\ todo[t] # <<>> /\ Head(todo[t]) = call
      /\ todo' = [todo EXCEPT ![t] = n]
  BY DEF Does, AtCall
<1>2. todo[t] \in Seq(Alphabet(t)) /\ Shape(todo[t])
  BY DEF TodoOK
<1>3. n \in Seq(Alphabet(t)) /\ call \in Alphabet(t)
  BY <1>1, <1>2, Replaced
<1>4. Shape(n)
  BY <1>1, <1>2, DoesShape
<1> HIDE DEF n
<1>5. /\ TodoOK' /\ todo'[t] = n
      /\ \A u \in Threads : u # t => todo'[u] = todo[u]
  BY <1>1, <1>3, <1>4, SetTodo
<1> QED  BY <1>1, <1>3, <1>5 DEF n

LEMMA CallsTodo ==
  ASSUME TodoOK, NEW t \in Threads,
         NEW calls \in Seq(Alphabet(t)), Shape(calls), Calls(t, calls)
  PROVE  /\ TodoOK' /\ todo[t] = <<>> /\ todo'[t] = calls
         /\ \A u \in Threads : u # t => todo'[u] = todo[u]
  BY SetTodo DEF Calls

LEMMA LeavesTodo ==
  ASSUME TodoOK, NEW t \in Threads, NEW call,
         NEW calls \in Seq(Alphabet(t)), Shape(calls), Leaves(t, call, calls)
  PROVE  /\ TodoOK' /\ todo[t] # <<>> /\ Head(todo[t]) = call
         /\ todo'[t] = calls
         /\ \A u \in Threads : u # t => todo'[u] = todo[u]
  BY SetTodo DEF Leaves, AtCall

LEMMA SendTodo ==
  ASSUME TodoOK, NEW t \in Threads, Send(t)
  PROVE  /\ TodoOK' /\ todo[t] # <<>> /\ Head(todo[t]) = "send"
         /\ Len(todo[t]) > 1
         /\ todo[t][2] \in (Texts \cup {"audio"}) \cap Alphabet(t)
         /\ todo'[t] = Tail(Tail(todo[t])) /\ todo'[t] \in Seq(Plain)
         /\ \A u \in Threads : u # t => todo'[u] = todo[u]
<1> DEFINE s == todo[t]
<1>1. /\ s # <<>> /\ Head(s) = "send" /\ s \in Seq(Alphabet(t)) /\ Shape(s)
      /\ todo' = [todo EXCEPT ![t] = Tail(Tail(s))]
  BY DEF Send, AtCall, TodoOK
<1> HIDE DEF s
<1>2. s \notin Seq(Plain)
  <2>1. "send" \notin Plain
    BY DEF Plain, Texts, Events, Commands
  <2> QED  BY <1>1, <2>1, Replaced
<1>3. PICK x \in Texts \cup {"audio"}, r \in Seq(Plain) :
        s = <<"send", x>> \o r
  BY <1>1, <1>2 DEF Shape, Sends
<1>4. Len(s) > 1 /\ s[2] = x /\ Tail(Tail(s)) = r
  BY <1>3, SendParts
<1>5. s[2] \in Alphabet(t) /\ Tail(Tail(s)) \in Seq(Alphabet(t))
  <2>1. Tail(s) \in Seq(Alphabet(t)) /\ Len(Tail(s)) = Len(s) - 1
    BY <1>1, HeadTailProperties
  <2>2. Tail(s) # <<>>
    BY <1>1, <1>4, <2>1
  <2> QED  BY <1>1, <1>4, <2>1, <2>2, HeadTailProperties, ElementOfSeq
<1>6. /\ TodoOK' /\ todo'[t] = Tail(Tail(s))
      /\ \A u \in Threads : u # t => todo'[u] = todo[u]
  <2>1. Shape(Tail(Tail(s)))
    BY <1>4 DEF Shape
  <2> HIDE DEF s
  <2> QED  BY <1>1, <1>5, <2>1, SetTodo
<1> QED  BY <1>1, <1>3, <1>4, <1>5, <1>6 DEF s

(* Short lists.                                                            *)
LEMMA EmptyShape == Shape(<<>>) /\ \A S : <<>> \in Seq(S)
  BY DEF Shape

LEMMA OneShape == \A x \in Plain : Shape(<<x>>)
<1> TAKE x \in Plain
<1>1. <<x>> \in Seq(Plain)
  OBVIOUS
<1> QED  BY <1>1 DEF Shape

LEMMA TwoShape == \A x, y \in Plain : Shape(<<x, y>>)
<1> TAKE x, y \in Plain
<1>1. <<x, y>> \in Seq(Plain)
  OBVIOUS
<1> QED  BY <1>1 DEF Shape

LEMMA SendShape == \A x \in Texts \cup {"audio"} : Shape(<<"send", x>>)
<1> TAKE x \in Texts \cup {"audio"}
<1>1. <<"send", x>> = <<"send", x>> \o <<>> /\ <<>> \in Seq(Plain)
  OBVIOUS
<1> QED  BY <1>1 DEF Shape, Sends

-----------------------------------------------------------------------------
(* How often the calls X are still to come.                                *)
None(s, X) == \A i \in 1..Len(s) : s[i] \notin X
Once(s, X) == \A i, j \in 1..Len(s) : s[i] \in X /\ s[j] \in X => i = j

LEMMA NoneIsOnce == \A s, X : None(s, X) => Once(s, X)
  BY DEF None, Once

LEMMA EmptyNone == \A X : None(<<>>, X)
  BY DEF None

LEMMA RestCounts ==
  ASSUME NEW S, NEW s \in Seq(S), s # <<>>, NEW X
  PROVE  /\ Tail(s) \in Seq(S)
         /\ None(s, X) => None(Tail(s), X)
         /\ Once(s, X) => Once(Tail(s), X)
         /\ Once(s, X) /\ Head(s) \in X => None(Tail(s), X)
<1>1. /\ Tail(s) \in Seq(S) /\ Len(s) \in Nat
      /\ Len(Tail(s)) = Len(s) - 1 /\ Len(s) >= 1 /\ Head(s) = s[1]
      /\ \A i \in 1..Len(Tail(s)) : Tail(s)[i] = s[i + 1]
  BY HeadTailProperties
<1> DEFINE q == Tail(s)
<1> HIDE DEF q
<1>2. /\ Len(q) = Len(s) - 1 /\ \A i \in 1..Len(q) : q[i] = s[i + 1]
      /\ \A i \in 1..Len(q) : i + 1 \in 1..Len(s) /\ i + 1 # 1
      /\ 1 \in 1..Len(s)
  BY <1>1 DEF q
<1>3. None(s, X) => None(q, X)
  BY <1>2 DEF None
<1>4. Once(s, X) => Once(q, X)
  <2> SUFFICES ASSUME Once(s, X), NEW i \in 1..Len(q), NEW j \in 1..Len(q),
                      q[i] \in X, q[j] \in X
               PROVE  i = j
    BY DEF Once
  <2>1. i + 1 = j + 1
    BY <1>2 DEF Once
  <2> QED  BY <2>1
<1>5. Once(s, X) /\ Head(s) \in X => None(q, X)
  BY <1>1, <1>2 DEF Once, None
<1> QED  BY <1>1, <1>3, <1>4, <1>5 DEF q

LEMMA JoinCounts ==
  ASSUME NEW S, NEW a \in Seq(S), NEW b \in Seq(S), NEW X
  PROVE  /\ None(a, X) /\ None(b, X) => None(a \o b, X)
         /\ None(a, X) /\ Once(b, X) => Once(a \o b, X)
         /\ Once(a, X) /\ None(b, X) => Once(a \o b, X)
<1> DEFINE n == a \o b
<1>1. /\ Len(a) \in Nat /\ Len(b) \in Nat /\ Len(n) = Len(a) + Len(b)
      /\ \A i \in 1..Len(n) :
           n[i] = IF i <= Len(a) THEN a[i] ELSE b[i - Len(a)]
  BY ConcatProperties
<1> HIDE DEF n
<1>2. \A i \in 1..Len(n) :
        \/ i \in 1..Len(a) /\ n[i] = a[i]
        \/ i - Len(a) \in 1..Len(b) /\ n[i] = b[i - Len(a)]
  BY <1>1
<1>3. None(a, X) /\ None(b, X) => None(n, X)
  BY <1>2 DEF None
<1>4. ASSUME None(a, X), Once(b, X) PROVE Once(n, X)
  <2> SUFFICES ASSUME NEW i \in 1..Len(n), NEW j \in 1..Len(n),
                      n[i] \in X, n[j] \in X
               PROVE  i = j
    BY DEF Once
  <2>1. i - Len(a) = j - Len(a)
    BY <1>2, <1>4 DEF Once, None
  <2> QED  BY <1>1, <2>1
<1>5. ASSUME Once(a, X), None(b, X) PROVE Once(n, X)
  BY <1>2, <1>5 DEF Once, None
<1> QED  BY <1>3, <1>4, <1>5 DEF n

-----------------------------------------------------------------------------
(* What each action does to the lists.                                     *)
LEMMA DropTodo ==
  ASSUME TodoOK, NEW t \in Threads, NEW call, call # "send",
         Does(t, call, <<>>)
  PROVE  /\ TodoOK' /\ todo[t] # <<>> /\ Head(todo[t]) = call
         /\ todo'[t] = Tail(todo[t]) /\ call \in Alphabet(t)
         /\ \A u \in Threads : u # t => todo'[u] = todo[u]
<1>1. /\ TodoOK' /\ todo[t] # <<>> /\ Head(todo[t]) = call
      /\ todo'[t] = <<>> \o Tail(todo[t]) /\ call \in Alphabet(t)
      /\ \A u \in Threads : u # t => todo'[u] = todo[u]
  BY EmptyShape, DoesTodo
<1>2. todo[t] \in Seq(Alphabet(t))
  BY DEF TodoOK
<1>3. <<>> \o Tail(todo[t]) = Tail(todo[t])
  BY <1>1, <1>2, HeadTailProperties, ConcatEmptySeq
<1> QED  BY <1>1, <1>3

LEMMA OneTodo ==
  ASSUME TodoOK, NEW t \in Threads, NEW call, call # "send",
         NEW x \in Alphabet(t), x \in Plain, Does(t, call, <<x>>)
  PROVE  /\ TodoOK' /\ todo[t] # <<>> /\ Head(todo[t]) = call
         /\ todo'[t] = <<x>> \o Tail(todo[t])
         /\ \A u \in Threads : u # t => todo'[u] = todo[u]
<1>1. <<x>> \in Seq(Alphabet(t)) /\ Shape(<<x>>)
  BY OneShape
<1> QED  BY <1>1, DoesTodo

LEMMA TwoTodo ==
  ASSUME TodoOK, NEW t \in Threads, NEW call, call # "send",
         NEW x \in Alphabet(t), NEW y \in Alphabet(t),
         y \in Plain, (x = "send" /\ y \in Texts) \/ x \in Plain,
         Does(t, call, <<x, y>>)
  PROVE  /\ TodoOK' /\ todo[t] # <<>> /\ Head(todo[t]) = call
         /\ todo'[t] = <<x, y>> \o Tail(todo[t])
         /\ \A u \in Threads : u # t => todo'[u] = todo[u]
<1>1. <<x, y>> \in Seq(Alphabet(t))
  OBVIOUS
<1>2. Shape(<<x, y>>)
  BY SendShape, TwoShape
<1> QED  BY <1>1, <1>2, DoesTodo

LEMMA IsConnectedTodo ==
  ASSUME TodoOK, NEW t \in Threads, IsConnected(t)
  PROVE  /\ TodoOK' /\ todo[t] # <<>>
         /\ Head(todo[t]) \in Alphabet(t) \cap (Texts \cup {"binary"})
         /\ \/ /\ todo'[t] = Tail(todo[t])
               /\ ~Connected \/ fault' = "no_client"
            \/ /\ todo'[t] = <<"test_asr">> \o Tail(todo[t])
               /\ Head(todo[t]) = "binary" /\ "test_asr" \in Alphabet(t)
            \/ /\ todo'[t] = <<"send", Head(todo[t])>> \o Tail(todo[t])
               /\ Connected /\ Head(todo[t]) \in Texts
               /\ "send" \in Alphabet(t)
         /\ \A u \in Threads : u # t => todo'[u] = todo[u]
<1>1. PICK text \in Texts \cup {"binary"} :
        \/ Does(t, text, <<>>) /\ (~Connected \/ fault' = "no_client")
        \/ Does(t, text, <<"test_asr">>) /\ text = "binary"
        \/ Does(t, text, <<"send", text>>) /\ Connected /\ text # "binary"
  BY DEF IsConnected
<1>2. text # "send" /\ text \in Alphabet(t)
  <2>1. todo[t] # <<>> /\ Head(todo[t]) = text /\ todo[t] \in Seq(Alphabet(t))
    BY <1>1 DEF Does, AtCall, TodoOK
  <2>2. Head(todo[t]) \in Alphabet(t)
    BY <2>1, HeadTailProperties
  <2> QED  BY <2>1, <2>2 DEF Texts
<1>3. CASE Does(t, text, <<>>) /\ (~Connected \/ fault' = "no_client")
  BY <1>2, <1>3, DropTodo
<1>4. CASE Does(t, text, <<"test_asr">>) /\ text = "binary"
  <2>1. "test_asr" \in Alphabet(t) /\ "test_asr" \in Plain
    BY <1>2, <1>4 DEF Alphabet, Plain, Threads
  <2> QED  BY <1>2, <1>4, <2>1, OneTodo
<1>5. CASE Does(t, text, <<"send", text>>) /\ Connected /\ text # "binary"
  <2>1. "send" \in Alphabet(t) /\ text \in Texts
    BY <1>2, <1>5 DEF Alphabet, Threads, Texts
  <2>2. <<"send", text>> \in Seq(Alphabet(t)) /\ Shape(<<"send", text>>)
    BY <1>2, <2>1, SendShape
  <2> DEFINE calls == <<"send", text>>
  <2>3. Does(t, text, calls) /\ calls \in Seq(Alphabet(t)) /\ Shape(calls)
    BY <1>5, <2>2
  <2> HIDE DEF calls
  <2>4. /\ TodoOK' /\ todo[t] # <<>> /\ Head(todo[t]) = text
        /\ todo'[t] = calls \o Tail(todo[t])
        /\ \A u \in Threads : u # t => todo'[u] = todo[u]
    BY <1>2, <2>3, DoesTodo
  <2> QED  BY <1>2, <1>5, <2>1, <2>4 DEF calls
<1> QED  BY <1>1, <1>3, <1>4, <1>5

LEMMA TestAsrTodo ==
  ASSUME TodoOK, NEW t \in Threads, TestAsr(t)
  PROVE  /\ TodoOK' /\ todo[t] # <<>> /\ Head(todo[t]) = "test_asr"
         /\ t = "media"
         /\ \/ /\ todo'[t] = <<"send", "audio">> \o Tail(todo[t])
               /\ is_asr
            \/ todo'[t] = <<"no_asr">> \o Tail(todo[t])
         /\ \A u \in Threads : u # t => todo'[u] = todo[u]
<1>1. t = "media"
  <2>1. todo[t] # <<>> /\ Head(todo[t]) = "test_asr"
        /\ todo[t] \in Seq(Alphabet(t))
    BY DEF TestAsr, Does, AtCall, TodoOK
  <2>2. "test_asr" \in Alphabet(t)
    BY <2>1, HeadTailProperties
  <2> QED  BY <2>2 DEF Alphabet, Threads
<1>2. CASE Does(t, "test_asr", <<"send", "audio">>) /\ is_asr
  <2>1. /\ <<"send", "audio">> \in Seq(Alphabet(t))
        /\ Shape(<<"send", "audio">>)
    BY <1>1, SendShape DEF Alphabet
  <2> QED  BY <1>1, <1>2, <2>1, DoesTodo
<1>3. CASE Does(t, "test_asr", <<"no_asr">>)
  <2>1. "no_asr" \in Alphabet(t) /\ "no_asr" \in Plain
    BY <1>1 DEF Alphabet, Plain, Texts
  <2> QED  BY <1>1, <1>3, <2>1, OneTodo
<1> QED  BY <1>2, <1>3 DEF TestAsr

LEMMA FireTodo ==
  ASSUME TodoOK, NEW t \in Threads, Fire(t)
  PROVE  /\ TodoOK' /\ todo[t] # <<>>
         /\ Head(todo[t]) \in Events \cap Alphabet(t)
         /\ todo'[t] = Tail(todo[t])
         /\ errors' = IF session /\ Head(todo[t]) = "error"
                      THEN errors + 1 ELSE errors
         /\ later' = IF session /\ errors > 0
                         /\ Head(todo[t]) \notin {"error", "finish"}
                     THEN later + 1 ELSE later
         /\ \A u \in Threads : u # t => todo'[u] = todo[u]
<1>1. PICK event \in Events :
        /\ Does(t, event, <<>>)
        /\ errors' = IF session /\ event = "error" THEN errors + 1 ELSE errors
        /\ later' = IF session /\ errors > 0 /\ event \notin {"error", "finish"}
                    THEN later + 1 ELSE later
  BY DEF Fire
<1>2. event # "send"
  BY DEF Events
<1> QED  BY <1>1, <1>2, DropTodo

LEMMA DisconnectTodo ==
  ASSUME TodoOK, NEW t \in Threads, Disconnect(t)
  PROVE  /\ TodoOK' /\ todo[t] # <<>> /\ t \in {"play", "worker"}
         /\ \/ todo'[t] = <<"test_open">> \o Tail(todo[t])
            \/ todo'[t] = Tail(todo[t])
         /\ \A u \in Threads : u # t => todo'[u] = todo[u]
<1>1. t \in {"play", "worker"}
  <2>1. todo[t] # <<>> /\ Head(todo[t]) = "cancel"
        /\ todo[t] \in Seq(Alphabet(t))
    BY DEF Disconnect, Does, AtCall, TodoOK
  <2>2. "cancel" \in Alphabet(t)
    BY <2>1, HeadTailProperties
  <2> QED  BY <2>2 DEF Alphabet, Threads
<1>2. CASE Does(t, "cancel", <<"test_open">>)
  <2>1. "test_open" \in Alphabet(t) /\ "test_open" \in Plain
    BY <1>1 DEF Alphabet, Plain
  <2> QED  BY <1>1, <1>2, <2>1, OneTodo
<1>3. CASE Does(t, "cancel", <<>>)
  BY <1>1, <1>3, DropTodo
<1> QED  BY <1>2, <1>3 DEF Disconnect

LEMMA TestOpenTodo ==
  ASSUME TodoOK, NEW t \in Threads, TestOpen(t)
  PROVE  /\ TodoOK' /\ todo[t] # <<>> /\ t \in {"play", "worker"}
         /\ \/ /\ todo'[t] = <<"terminate">> \o Tail(todo[t])
               /\ con = "open"
            \/ todo'[t] = Tail(todo[t])
         /\ \A u \in Threads : u # t => todo'[u] = todo[u]
<1>1. t \in {"play", "worker"}
  <2>1. todo[t] # <<>> /\ Head(todo[t]) = "test_open"
        /\ todo[t] \in Seq(Alphabet(t))
    BY DEF TestOpen, Does, AtCall, TodoOK
  <2>2. "test_open" \in Alphabet(t)
    BY <2>1, HeadTailProperties
  <2> QED  BY <2>2 DEF Alphabet, Threads, Texts, Events
<1>2. CASE Does(t, "test_open", <<"terminate">>) /\ Connected
  <2>1. "terminate" \in Alphabet(t) /\ "terminate" \in Plain
    BY <1>1 DEF Alphabet, Plain
  <2> QED  BY <1>1, <1>2, <2>1, OneTodo DEF Connected
<1>3. CASE Does(t, "test_open", <<>>)
  BY <1>1, <1>3, DropTodo
<1> QED  BY <1>2, <1>3 DEF TestOpen

LEMMA TerminateTodo ==
  ASSUME TodoOK, NEW t \in Threads, Terminate(t)
  PROVE  /\ TodoOK' /\ todo[t] # <<>> /\ Head(todo[t]) = "terminate"
         /\ t \in {"play", "worker"} /\ con' = "closed"
         /\ \/ /\ todo'[t] = <<"bye", "error">> \o Tail(todo[t])
               /\ con # "closed"
            \/ /\ todo'[t] = Tail(todo[t])
               /\ con = "closed"
         /\ \A u \in Threads : u # t => todo'[u] = todo[u]
<1>1. t \in {"play", "worker"} /\ con' = "closed"
  <2>1. todo[t] # <<>> /\ Head(todo[t]) = "terminate"
        /\ todo[t] \in Seq(Alphabet(t)) /\ con' = "closed"
    BY DEF Terminate, Does, AtCall, TodoOK
  <2>2. "terminate" \in Alphabet(t)
    BY <2>1, HeadTailProperties
  <2> QED  BY <2>1, <2>2 DEF Alphabet, Threads
<1>2. CASE Does(t, "terminate", <<"bye", "error">>) /\ con # "closed"
  <2>1. /\ "bye" \in Alphabet(t) /\ "error" \in Alphabet(t)
        /\ "bye" \in Plain /\ "error" \in Plain
    BY <1>1 DEF Alphabet, Plain, Texts, Events
  <2> QED  BY <1>1, <1>2, <2>1, TwoTodo
<1>3. CASE Does(t, "terminate", <<>>) /\ con = "closed"
  BY <1>1, <1>3, DropTodo
<1> QED  BY <1>2, <1>3 DEF Terminate

LEMMA EmptyCalls ==
  ASSUME TodoOK, NEW t \in Threads, Calls(t, <<>>)
  PROVE  /\ TodoOK' /\ todo[t] = <<>> /\ todo'[t] = <<>>
         /\ \A u \in Threads : u # t => todo'[u] = todo[u]
  BY EmptyShape, CallsTodo

LEMMA OneCalls ==
  ASSUME TodoOK, NEW t \in Threads, NEW x \in Alphabet(t) \cap Plain,
         Calls(t, <<x>>)
  PROVE  /\ TodoOK' /\ todo[t] = <<>> /\ todo'[t] = <<x>>
         /\ \A u \in Threads : u # t => todo'[u] = todo[u]
<1>1. <<x>> \in Seq(Alphabet(t)) /\ Shape(<<x>>)
  BY OneShape
<1> QED  BY <1>1, CallsTodo

LEMMA TwoCalls ==
  ASSUME TodoOK, NEW t \in Threads, NEW x \in Alphabet(t) \cap Plain,
         NEW y \in Alphabet(t) \cap Plain, Calls(t, <<x, y>>)
  PROVE  /\ TodoOK' /\ todo[t] = <<>> /\ todo'[t] = <<x, y>>
         /\ \A u \in Threads : u # t => todo'[u] = todo[u]
<1>1. <<x, y>> \in Seq(Alphabet(t)) /\ Shape(<<x, y>>)
  BY TwoShape
<1> QED  BY <1>1, CallsTodo

LEMMA FourCalls ==
  ASSUME TodoOK, NEW t \in Threads, NEW x \in Alphabet(t) \cap Plain,
         NEW y \in Alphabet(t) \cap Plain, NEW z \in Alphabet(t) \cap Plain,
         NEW w \in Alphabet(t) \cap Plain, Calls(t, <<x, y, z, w>>)
  PROVE  /\ TodoOK' /\ todo[t] = <<>> /\ todo'[t] = <<x, y, z, w>>
         /\ \A u \in Threads : u # t => todo'[u] = todo[u]
<1>1. /\ <<x, y, z, w>> \in Seq(Alphabet(t))
      /\ <<x, y, z, w>> \in Seq(Plain)
  OBVIOUS
<1>2. Shape(<<x, y, z, w>>)
  BY <1>1 DEF Shape
<1> QED  BY <1>1, <1>2, CallsTodo

LEMMA OpenTodo ==
  ASSUME TodoOK, Open
  PROVE  /\ TodoOK' /\ todo["worker"] = <<>>
         /\ todo'["worker"] = <<"store", Ids, "hello", "connected">>
         /\ \A u \in Threads : u # "worker" => todo'[u] = todo[u]
<1>1. /\ "worker" \in Threads
      /\ "store" \in Alphabet("worker") /\ "store" \in Plain
      /\ Ids \in Alphabet("worker") /\ Ids \in Plain
      /\ "hello" \in Alphabet("worker") /\ "hello" \in Plain
      /\ "connected" \in Alphabet("worker") /\ "connected" \in Plain
  BY DEF Threads, Alphabet, Plain, Ids, Texts, Events
<1>2. Calls("worker", <<"store", Ids, "hello", "connected">>)
  BY DEF Open
<1> QED  BY <1>1, <1>2, FourCalls

LEMMA LoseTodo ==
  ASSUME TodoOK, Lose
  PROVE  /\ TodoOK' /\ todo["worker"] = <<>>
         /\ todo'["worker"] = <<"bye", "error">>
         /\ \A u \in Threads : u # "worker" => todo'[u] = todo[u]
<1>1. /\ "worker" \in Threads
      /\ "bye" \in Alphabet("worker") /\ "bye" \in Plain
      /\ "error" \in Alphabet("worker") /\ "error" \in Plain
  BY DEF Threads, Alphabet, Plain, Texts, Events
<1> QED  BY <1>1, TwoCalls DEF Lose

LEMMA JoinOne == \A x, y : <<>> \o <<x>> = <<x>> /\ <<y>> \o <<x>> = <<y, x>>
<1> TAKE x, y
<1> DEFINE S == {x, y}
<1>1. <<x>> \in Seq(S) /\ <<y>> \in Seq(S) /\ <<y, x>> \in Seq(S)
  OBVIOUS
<1> HIDE DEF S
<1>2. <<>> \o <<x>> = <<x>>
  BY <1>1, ConcatEmptySeq
<1>3. /\ <<y>> \o <<x>> \in Seq(S) /\ Len(<<y>> \o <<x>>) = 2
      /\ (<<y>> \o <<x>>)[1] = y /\ (<<y>> \o <<x>>)[2] = x
  BY <1>1
<1>4. Len(<<y, x>>) = 2 /\ <<y, x>>[1] = y /\ <<y, x>>[2] = x
  OBVIOUS
<1>5. \A i \in 1..2 : (<<y>> \o <<x>>)[i] = <<y, x>>[i]
  BY <1>3, <1>4
<1> QED  BY <1>1, <1>2, <1>3, <1>4, <1>5, SeqEqual

LEMMA MessageTodo ==
  ASSUME TodoOK, Message
  PROVE  /\ TodoOK' /\ todo["worker"] = <<>>
         /\ \/ todo'["worker"] = <<>>
            \/ todo'["worker"] = <<"ok">> \/ todo'["worker"] = <<"no_tts">>
            \/ \E x \in Commands \cup {"cancel"} :
                 todo'["worker"] = <<x, "ok">>
         /\ \A u \in Threads : u # "worker" => todo'[u] = todo[u]
<1>1. /\ "worker" \in Threads
      /\ "ok" \in Alphabet("worker") /\ "ok" \in Plain
      /\ "no_tts" \in Alphabet("worker") /\ "no_tts" \in Plain
      /\ "cancel" \in Alphabet("worker") /\ "cancel" \in Plain
  BY DEF Threads, Alphabet, Plain, Texts, Events
<1>2. CASE \E cmd \in Commands : Calls("worker", HandleCmd(cmd) \o <<"ok">>)
  <2>1. PICK cmd \in Commands : Calls("worker", HandleCmd(cmd) \o <<"ok">>)
    BY <1>2
  <2>2. CASE cmd = "other"
    <3>1. Calls("worker", <<"ok">>)
      BY <2>1, <2>2, JoinOne DEF HandleCmd
    <3> QED  BY <1>1, <3>1, OneCalls
  <2>3. CASE cmd # "other"
    <3>1. PICK x \in Commands \cup {"cancel"} :
            /\ HandleCmd(cmd) = <<x>>
            /\ x \in Alphabet("worker") \cap Plain
      <4>1. CASE cmd = "close"
        BY <1>1, <4>1 DEF HandleCmd
      <4>2. CASE cmd # "close"
        BY <2>3, <4>2 DEF HandleCmd, Commands, Alphabet, Plain
      <4> QED  BY <4>1, <4>2
    <3>2. Calls("worker", <<x, "ok">>)
      BY <2>1, <3>1, JoinOne
    <3> QED  BY <1>1, <3>1, <3>2, TwoCalls
  <2> QED  BY <2>2, <2>3
<1>3. CASE Calls("worker", <<>>)
  BY <1>1, <1>3, EmptyCalls
<1>4. CASE Calls("worker", <<"no_tts">>)
  BY <1>1, <1>4, OneCalls
<1> QED  BY <1>2, <1>3, <1>4 DEF Message

LEMMA MediaPlayTodo ==
  ASSUME TodoOK, NEW t \in {"media", "play"},
         \/ t = "media" /\ Read
         \/ t = "play" /\ (DetectEnd \/ Finish)
  PROVE  /\ TodoOK' /\ todo[t] = <<>>
         /\ \/ \E x \in {"binary", "detect_end"} : todo'[t] = <<x>>
            \/ todo'[t] = <<"finish", "cancel">>
         /\ \A u \in Threads : u # t => todo'[u] = todo[u]
<1>1. /\ t \in Threads
      /\ "binary" \in Alphabet("media") /\ "binary" \in Plain
      /\ "detect_end" \in Alphabet("play") /\ "detect_end" \in Plain
      /\ "finish" \in Alphabet("play") /\ "finish" \in Plain
      /\ "cancel" \in Alphabet("play") /\ "cancel" \in Plain
  BY DEF Threads, Alphabet, Plain, Texts, Events
<1>2. CASE t = "media" /\ Calls("media", <<"binary">>)
  BY <1>1, <1>2, OneCalls
<1>3. CASE t = "play" /\ Calls("play", <<"detect_end">>)
  BY <1>1, <1>3, OneCalls
<1>4. CASE t = "play" /\ Calls("play", <<"finish", "cancel">>)
  BY <1>1, <1>4, TwoCalls
<1> QED  BY <1>2, <1>3, <1>4 DEF Read, DetectEnd, Finish

LEMMA AppTodo ==
  ASSUME TodoOK, AppStep
  PROVE  /\ TodoOK' /\ todo["app"] # <<>>
         /\ \/ /\ todo'["app"] = <<>> /\ UNCHANGED con
            \/ /\ todo'["app"] = Tail(todo["app"])
               /\ Head(todo["app"]) # "connect" /\ UNCHANGED con
            \/ /\ todo'["app"] = Tail(todo["app"])
               /\ Head(todo["app"]) = "connect" /\ con' = "connecting"
            \/ /\ todo'["app"] = <<"error">>
               /\ Head(todo["app"]) = "connect" /\ con' = "closed"
         /\ \A u \in Threads : u # "app" => todo'[u] = todo[u]
<1>1. /\ "app" \in Threads
      /\ "error" \in Alphabet("app") /\ "error" \in Plain
  BY DEF Threads, Alphabet, Plain, Events
<1>2. CASE ParseFails
  BY <1>1, <1>2, EmptyShape, LeavesTodo DEF ParseFails, link
<1>3. CASE Parse \/ ResetClient \/ RunWorker
  BY <1>1, <1>3, DropTodo DEF Parse, ResetClient, RunWorker, link
<1>4. CASE Does("app", "connect", <<>>) /\ con' = "connecting"
  BY <1>1, <1>4, DropTodo
<1>5. CASE Leaves("app", "connect", <<"error">>) /\ con' = "closed"
  <2>1. <<"error">> \in Seq(Alphabet("app"))
    BY DEF Alphabet
  <2>2. Shape(<<"error">>)
    BY <1>1, OneShape
  <2> QED  BY <1>1, <1>5, <2>1, <2>2, LeavesTodo
<1> QED  BY <1>2, <1>3, <1>4, <1>5 DEF AppStep, Connect

LEMMA WorkerTodo ==
  ASSUME TodoOK, WorkerStep
  PROVE  /\ TodoOK' /\ todo["worker"] # <<>>
         /\ todo'["worker"] = Tail(todo["worker"])
         /\ Head(todo["worker"]) \in
              {"store", "asrstart", "asrstop", "ttsstart", "ttsstop"}
         /\ \A u \in Threads : u # "worker" => todo'[u] = todo[u]
<1>1. "worker" \in Threads
  BY DEF Threads
<1>2. PICK call \in {"store", "asrstart", "asrstop", "ttsstart", "ttsstop"} :
        Does("worker", call, <<>>)
  BY DEF WorkerStep, StoreHandle, SetFlag
<1> QED  BY <1>1, <1>2, DropTodo

LEMMA TodoStep == ASSUME TodoOK, [Next]_vars PROVE TodoOK'
<1>1. CASE UNCHANGED vars
  BY <1>1 DEF vars, TodoOK, Shape, Sends
<1>2. CASE EndSession \/ PeerCloses
  BY <1>2 DEF EndSession, PeerCloses, TodoOK, Shape, Sends
<1>3. ASSUME NEW t \in Threads, Step(t) PROVE TodoOK'
  BY <1>3, IsConnectedTodo, TestAsrTodo, SendTodo, FireTodo, DisconnectTodo,
     TestOpenTodo, TerminateTodo DEF Step
<1> QED  BY <1>1, <1>2, <1>3, AppTodo, WorkerTodo, OpenTodo, LoseTodo,
            MessageTodo, MediaPlayTodo DEF Next

LEMMA TodoInit == Init => TodoOK
<1> SUFFICES ASSUME Init PROVE TodoOK
  OBVIOUS
<1> DEFINE five == <<"parse", "client", "connect", "run", "assign">>
<1>1. /\ five \in Seq(Alphabet("app")) /\ five \in Seq(Plain)
  BY DEF Alphabet, Plain
<1> HIDE DEF five
<1>2. todo = [t \in Threads |-> IF t # "app" THEN <<>> ELSE five]
  BY DEF Init, five
<1>3. \A t \in Threads : todo[t] = IF t # "app" THEN <<>> ELSE five
  BY <1>2
<1>4. \A t \in Threads : todo[t] \in Seq(Alphabet(t)) /\ Shape(todo[t])
  BY <1>1, <1>3, EmptyShape DEF Shape
<1> QED  BY <1>2, <1>3, <1>4 DEF TodoOK

-----------------------------------------------------------------------------
(* TypeOK without the lists.                                               *)
FieldsOK ==
  /\ tts_client \in BOOLEAN /\ m_connection_hdl \in BOOLEAN
  /\ stopped \in BOOLEAN
  /\ con \in {"none", "connecting", "open", "closing", "closed"}
  /\ callid \in CallIds \cup {"empty"}
  /\ worker_thread \in {"none", "running", "joinable"}
  /\ is_asr \in BOOLEAN /\ is_tts \in BOOLEAN
  /\ session \in BOOLEAN /\ playing \in BOOLEAN
  /\ wire \subseteq Texts \cup {"audio"}
  /\ errors \in Nat /\ later \in Nat /\ overrun \in Nat
  /\ messages \in 0..MaxMessages /\ reads \in 0..MaxReads
  /\ fault \in {"no", "no_client"}

IInv == FieldsOK /\ TodoOK

LEMMA FieldsStep == ASSUME IInv, [Next]_vars PROVE FieldsOK'
<1>0. FieldsOK /\ TodoOK
  BY DEF IInv
<1>1. CASE UNCHANGED vars
  BY <1>0, <1>1 DEF vars, start, link, flags, told, others, FieldsOK
<1>2. CASE AppStep
  <2>1. CASE ParseFails
    BY <1>0, <2>1
    DEF ParseFails, start, link, flags, told, others, FieldsOK
  <2>2. CASE Parse
    BY <1>0, <2>2 DEF Parse, link, flags, told, others, FieldsOK
  <2>3. CASE ResetClient
    BY <1>0, <2>3 DEF ResetClient, link, flags, told, others, FieldsOK
  <2>4. CASE Connect
    BY <1>0, <2>4 DEF Connect, start, flags, told, others, FieldsOK
  <2>5. CASE RunWorker
    BY <1>0, <2>5 DEF RunWorker, link, flags, told, others, FieldsOK
  <2> QED  BY <1>2, <2>1, <2>2, <2>3, <2>4, <2>5 DEF AppStep
<1>3. CASE WorkerStep
  <2>1. CASE StoreHandle
    BY <1>0, <2>1 DEF StoreHandle, start, flags, told, others, FieldsOK
  <2>2. CASE SetFlag
    <3>1. /\ is_asr' \in BOOLEAN /\ is_tts' \in BOOLEAN /\ overrun' \in Nat
          /\ UNCHANGED <<start, link, wire, errors, later, others>>
      <4>1. \/ /\ \E b \in BOOLEAN : is_asr' = b
               /\ is_tts' = is_tts /\ overrun' = 0
            \/ /\ \E b \in BOOLEAN : is_tts' = b
               /\ UNCHANGED <<is_asr, overrun>>
        BY <2>2, Zenon DEF SetFlag
      <4>2. UNCHANGED <<start, link, wire, errors, later, others>>
        BY <2>2 DEF SetFlag
      <4> QED  BY <1>0, <4>1, <4>2 DEF FieldsOK
    <3> QED  BY <1>0, <3>1 DEF start, link, others, FieldsOK
  <2> QED  BY <1>3, <2>1, <2>2 DEF WorkerStep
<1>4. ASSUME NEW t \in Threads, Step(t) PROVE FieldsOK'
  <2>1. CASE IsConnected(t)
    <3>1. /\ fault' = fault \/ fault' = "no_client"
          /\ UNCHANGED <<start, link, flags, session, playing, told, messages,
                         reads>>
      BY <2>1 DEF IsConnected, others
    <3> QED  BY <1>0, <3>1 DEF start, link, flags, told, FieldsOK
  <2>2. CASE TestAsr(t)
    BY <1>0, <2>2
    DEF TestAsr, start, link, flags, told, others, FieldsOK
  <2>3. CASE Send(t)
    <3>1. todo[t][2] \in Texts \cup {"audio"}
      BY <1>0, <2>3, SendTodo
    <3>2. /\ wire' \subseteq Texts \cup {"audio"}
          /\ overrun' \in Nat
          /\ UNCHANGED <<start, link, flags, errors, later, others>>
      BY <1>0, <2>3, <3>1 DEF Send, FieldsOK
    <3> QED  BY <1>0, <3>2 DEF start, link, flags, others, FieldsOK
  <2>4. CASE Fire(t)
    <3>1. /\ errors' \in Nat /\ later' \in Nat
          /\ UNCHANGED <<start, link, flags, wire, overrun, others>>
      BY <1>0, <2>4 DEF Fire, FieldsOK
    <3> QED  BY <1>0, <3>1 DEF start, link, flags, others, FieldsOK
  <2>5. CASE Disconnect(t)
    <3>1. /\ stopped' \in BOOLEAN
          /\ UNCHANGED <<start, m_connection_hdl, con, flags, told, others>>
      BY <1>0, <2>5 DEF Disconnect, FieldsOK
    <3> QED  BY <1>0, <3>1 DEF start, flags, told, others, FieldsOK
  <2>6. CASE Terminate(t)
    <3>1. /\ con' = "closed"
          /\ UNCHANGED <<start, m_connection_hdl, stopped, flags, told, others>>
      BY <2>6 DEF Terminate
    <3> QED  BY <1>0, <3>1 DEF start, flags, told, others, FieldsOK
  <2>7. CASE TestOpen(t)
    BY <1>0, <2>7
    DEF TestOpen, start, link, flags, told, others, FieldsOK
  <2> QED  BY <1>4, <2>1, <2>2, <2>3, <2>4, <2>5, <2>6, <2>7 DEF Step
<1>5. CASE Open \/ PeerCloses \/ Lose
  <2>1. /\ con' \in {"open", "closing", "closed"}
        /\ UNCHANGED <<start, m_connection_hdl, stopped, flags, told, others>>
    BY <1>5 DEF Open, PeerCloses, Lose
  <2> QED  BY <1>0, <2>1 DEF start, flags, told, others, FieldsOK
<1>6. CASE Message
  <2>1. /\ messages' \in 0..MaxMessages
        /\ UNCHANGED <<start, link, flags, session, playing, told, reads, fault>>
    BY <1>0, <1>6, TalkAssumption DEF Message, FieldsOK
  <2> QED  BY <1>0, <2>1 DEF start, link, flags, told, FieldsOK
<1>7. CASE Read \/ DetectEnd
  <2>1. /\ reads' \in 0..MaxReads
        /\ UNCHANGED <<start, link, flags, session, playing, told, messages,
                       fault>>
    BY <1>0, <1>7, TalkAssumption DEF Read, DetectEnd, FieldsOK
  <2> QED  BY <1>0, <2>1 DEF start, link, flags, told, FieldsOK
<1>8. CASE Finish
  BY <1>0, <1>8 DEF Finish, start, link, flags, told, FieldsOK
<1>9. CASE EndSession
  BY <1>0, <1>9 DEF EndSession, start, link, flags, told, FieldsOK
<1> QED  BY <1>1, <1>2, <1>3, <1>4, <1>5, <1>6, <1>7, <1>8, <1>9 DEF Next

LEMMA InvHolds == Spec => []IInv
<1>1. Init => IInv
  <2> SUFFICES ASSUME Init PROVE FieldsOK
    BY TodoInit DEF IInv
  <2>1. /\ tts_client = FALSE /\ m_connection_hdl = FALSE /\ con = "none"
        /\ stopped = FALSE /\ callid = "empty" /\ worker_thread = "none"
        /\ is_asr = FALSE /\ is_tts = FALSE
        /\ session = TRUE /\ playing = TRUE
        /\ wire = {} /\ errors = 0 /\ later = 0 /\ overrun = 0
        /\ messages = 0 /\ reads = 0 /\ fault = "no"
    BY DEF Init
  <2>2. /\ tts_client \in BOOLEAN /\ m_connection_hdl \in BOOLEAN
        /\ stopped \in BOOLEAN /\ is_asr \in BOOLEAN /\ is_tts \in BOOLEAN
        /\ session \in BOOLEAN /\ playing \in BOOLEAN
    BY <2>1, Zenon
  <2>3. /\ messages \in 0..MaxMessages /\ reads \in 0..MaxReads
        /\ errors \in Nat /\ later \in Nat /\ overrun \in Nat
        /\ wire \subseteq Texts \cup {"audio"}
    BY <2>1, TalkAssumption, SMT
  <2> QED  BY <2>1, <2>2, <2>3 DEF FieldsOK
<1>2. IInv /\ [Next]_vars => IInv'
  <2> SUFFICES ASSUME IInv, [Next]_vars PROVE FieldsOK' /\ TodoOK'
    BY DEF IInv
  <2>1. FieldsOK'
    BY FieldsStep
  <2>2. TodoOK'
    BY TodoStep DEF IInv
  <2> QED  BY <2>1, <2>2
<1> QED  BY <1>1, <1>2, PTL DEF Spec

LEMMA InvTypes == IInv => TypeOK
<1> SUFFICES ASSUME IInv PROVE TypeOK
  OBVIOUS
<1> DEFINE All == Texts \cup Events \cup Commands
                  \cup {"parse", "client", "connect", "run", "assign", "store",
                        "binary", "test_asr", "send", "audio", "cancel",
                        "test_open", "terminate"}
<1>1. ASSUME NEW t \in Threads PROVE todo[t] \in Seq(All)
  <2>1. Alphabet(t) \subseteq All
    BY DEF Alphabet, Threads, Texts, Events, Commands
  <2> HIDE DEF All
  <2> QED  BY <2>1, SeqMonotonic DEF IInv, TodoOK
<1>2. ASSUME NEW t \in Threads, todo[t] # <<>>, Head(todo[t]) = "send"
      PROVE  Len(todo[t]) > 1 /\ todo[t][2] \in Texts \cup {"audio"}
  <2>1. todo[t] \notin Seq(Plain)
    <3>1. "send" \notin Plain
      BY DEF Plain, Texts, Events, Commands
    <3> QED  BY <1>2, <3>1, Replaced
  <2>2. PICK x \in Texts \cup {"audio"}, r \in Seq(Plain) :
          todo[t] = <<"send", x>> \o r
    BY <2>1 DEF IInv, TodoOK, Shape, Sends
  <2> QED  BY <2>2, SendParts
<1> QED  BY <1>1, <1>2 DEF IInv, FieldsOK, TypeOK

(* The variables of a handler keep their types; a send always comes with   *)
(* what is sent (sendbinary, writeText, writeTTsJson).                     *)
THEOREM TypeCorrect == Spec => []TypeOK
  BY InvHolds, InvTypes, PTL

-----------------------------------------------------------------------------
(* One frame may be past the test of is_asr, and none once it is counted.  *)
AsrInv ==
  overrun = 0 \/ (overrun = 1 /\ ~is_asr /\ None(todo["media"], {"audio"}))

LEMMA MediaRest ==
  ASSUME IInv, todo["media"] # <<>>
  PROVE  /\ Tail(todo["media"]) \in Seq(Alphabet("media"))
         /\ None(todo["media"], {"audio"})
              => None(Tail(todo["media"]), {"audio"})
<1>1. todo["media"] \in Seq(Alphabet("media"))
  BY DEF IInv, TodoOK, Threads
<1> QED  BY <1>1, RestCounts

LEMMA AsrStep == ASSUME IInv, AsrInv, [Next]_vars PROVE AsrInv'
<1>0. overrun = 0 \/ (overrun = 1 /\ ~is_asr /\ None(todo["media"], {"audio"}))
  BY DEF AsrInv
<1>1. ASSUME UNCHANGED <<overrun, is_asr>>, todo'["media"] = todo["media"]
      PROVE  AsrInv'
  BY <1>0, <1>1 DEF AsrInv, None
<1>2. ASSUME UNCHANGED <<overrun, is_asr>>,
             None(todo["media"], {"audio"}) => None(todo'["media"], {"audio"})
      PROVE  AsrInv'
  BY <1>0, <1>2 DEF AsrInv, None
<1>3. "media" \in Threads /\ IInv /\ TodoOK
  BY DEF IInv, Threads
<1>4. CASE UNCHANGED vars \/ EndSession
  BY <1>1, <1>4 DEF vars, EndSession, told, flags
<1>5. CASE AppStep
  <2>1. UNCHANGED <<overrun, is_asr>>
    BY <1>5 DEF AppStep, ParseFails, Parse, ResetClient, Connect, RunWorker,
                told, flags
  <2> QED  BY <1>1, <1>3, <1>5, <2>1, AppTodo
<1>6. CASE WorkerStep
  <2>1. todo'["media"] = todo["media"]
    BY <1>3, <1>6, WorkerTodo
  <2>2. CASE StoreHandle
    BY <1>1, <2>1, <2>2 DEF StoreHandle, told, flags
  <2>3. CASE SetFlag
    BY <1>0, <1>1, <2>1, <2>3 DEF SetFlag, AsrInv
  <2> QED  BY <1>6, <2>2, <2>3 DEF WorkerStep
<1>7. CASE Open \/ PeerCloses \/ Lose \/ Message
  <2>1. UNCHANGED <<overrun, is_asr>>
    BY <1>7 DEF Open, PeerCloses, Lose, Message, told, flags
  <2>2. todo'["media"] = todo["media"]
    BY <1>3, <1>7, OpenTodo, LoseTodo, MessageTodo DEF PeerCloses
  <2> QED  BY <1>1, <2>1, <2>2
<1>8. CASE Read \/ DetectEnd \/ Finish
  <2>1. UNCHANGED <<overrun, is_asr>>
    BY <1>8 DEF Read, DetectEnd, Finish, told, flags
  <2>2. None(todo["media"], {"audio"}) => None(todo'["media"], {"audio"})
    <3>1. CASE Read
      <4>1. todo' = [todo EXCEPT !["media"] = <<"binary">>]
        BY <3>1 DEF Read, Calls
      <4>2. todo'["media"] = <<"binary">>
        BY <1>3, <4>1 DEF TodoOK
      <4> QED  BY <4>2 DEF None
    <3>2. CASE DetectEnd \/ Finish
      BY <1>3, <3>2, MediaPlayTodo
    <3> QED  BY <1>8, <3>1, <3>2
  <2> QED  BY <1>2, <2>1, <2>2
<1>9. ASSUME NEW t \in Threads, Step(t) PROVE AsrInv'
  <2>1. CASE IsConnected(t)
    <3>1. UNCHANGED <<overrun, is_asr>>
      BY <2>1 DEF IsConnected, told, flags
    <3>2. CASE t # "media"
      BY <1>1, <1>3, <2>1, <3>1, <3>2, IsConnectedTodo
    <3>3. CASE t = "media"
      <4>1. /\ todo["media"] # <<>>
            /\ Head(todo["media"]) \in {"no_asr", "binary"}
            /\ \/ todo'["media"] = Tail(todo["media"])
               \/ \E a \in { <<"test_asr">>, <<"send", "no_asr">> } :
                    todo'["media"] = a \o Tail(todo["media"])
        BY <1>3, <2>1, <3>3, IsConnectedTodo DEF Alphabet, Texts
      <4>2. ASSUME NEW a \in { <<"test_asr">>, <<"send", "no_asr">> }
            PROVE  a \in Seq(Alphabet("media")) /\ None(a, {"audio"})
        <5>1. CASE a = <<"test_asr">>
          BY <5>1 DEF None, Alphabet
        <5>2. CASE a = <<"send", "no_asr">>
          BY <5>2 DEF None, Alphabet
        <5> QED  BY <5>1, <5>2
      <4>3. ASSUME NEW a \in { <<"test_asr">>, <<"send", "no_asr">> },
                   todo'["media"] = a \o Tail(todo["media"]),
                   None(todo["media"], {"audio"})
            PROVE  None(todo'["media"], {"audio"})
        <5>1. a \in Seq(Alphabet("media")) /\ None(a, {"audio"})
          BY <4>2
        <5>2. /\ Tail(todo["media"]) \in Seq(Alphabet("media"))
              /\ None(Tail(todo["media"]), {"audio"})
          BY <1>3, <4>1, <4>3, MediaRest
        <5>3. None(a \o Tail(todo["media"]), {"audio"})
          BY <5>1, <5>2, JoinCounts
        <5> QED  BY <4>3, <5>3
      <4>4. None(todo["media"], {"audio"}) => None(todo'["media"], {"audio"})
        BY <1>3, <4>1, <4>3, MediaRest
      <4> QED  BY <1>2, <3>1, <4>4
    <3> QED  BY <3>2, <3>3
  <2>2. CASE TestAsr(t)
    <3>1. UNCHANGED <<overrun, is_asr>>
      BY <2>2 DEF TestAsr, told, flags
    <3>2. t = "media" /\ todo["media"] # <<>>
      BY <1>3, <2>2, TestAsrTodo
    <3>3. CASE is_asr
      BY <1>0, <3>1, <3>3 DEF AsrInv
    <3>4. CASE ~is_asr
      <4>1. todo'["media"] = <<"no_asr">> \o Tail(todo["media"])
        BY <1>3, <2>2, <3>2, <3>4, TestAsrTodo
      <4>2. <<"no_asr">> \in Seq(Alphabet("media"))
            /\ None(<<"no_asr">>, {"audio"})
        BY DEF None, Alphabet
      <4>3. None(todo["media"], {"audio"}) => None(todo'["media"], {"audio"})
        BY <1>3, <3>2, <4>1, <4>2, MediaRest, JoinCounts
      <4> QED  BY <1>2, <3>1, <4>3
    <3> QED  BY <3>3, <3>4
  <2>3. CASE Send(t)
    <3>1. /\ todo[t] # <<>> /\ todo'[t] = Tail(Tail(todo[t]))
          /\ todo'[t] \in Seq(Plain)
          /\ Len(todo[t]) > 1 /\ todo[t][2] \in Alphabet(t)
          /\ \A u \in Threads : u # t => todo'[u] = todo[u]
      BY <1>3, <2>3, SendTodo
    <3>2. /\ is_asr' = is_asr
          /\ overrun' = IF con = "open" /\ todo[t][2] = "audio" /\ ~is_asr
                        THEN overrun + 1 ELSE overrun
      BY <2>3 DEF Send, flags
    <3>3. CASE t # "media"
      <4>1. todo[t][2] # "audio"
        BY <3>1, <3>3 DEF Alphabet, Threads
      <4> QED  BY <1>1, <1>3, <3>1, <3>2, <3>3, <4>1
    <3>4. CASE t = "media"
      <4>1. None(todo'["media"], {"audio"})
        <5>1. "audio" \notin Plain
          BY DEF Plain, Texts, Events, Commands
        <5> QED  BY <3>1, <3>4, <5>1, ElementOfSeq DEF None
      <4>2. CASE todo[t][2] = "audio"
        <5>1. ~None(todo["media"], {"audio"})
          <6>1. 2 \in 1..Len(todo[t])
            BY <1>3, <3>1 DEF TodoOK
          <6> QED  BY <3>4, <4>2, <6>1 DEF None
        <5>2. overrun = 0
          BY <1>0, <5>1
        <5> QED  BY <3>2, <4>1, <5>2 DEF AsrInv
      <4>3. CASE todo[t][2] # "audio"
        BY <1>2, <3>2, <4>1, <4>3
      <4> QED  BY <4>2, <4>3
    <3> QED  BY <3>3, <3>4
  <2>4. CASE Fire(t) \/ Disconnect(t) \/ TestOpen(t) \/ Terminate(t)
    <3>1. UNCHANGED <<overrun, is_asr>>
      BY <2>4 DEF Fire, Disconnect, TestOpen, Terminate, told, flags
    <3>2. t # "media" /\ todo'["media"] = todo["media"]
      BY <1>3, <2>4, FireTodo, DisconnectTodo, TestOpenTodo, TerminateTodo
      DEF Alphabet, Events
    <3> QED  BY <1>1, <3>1, <3>2
  <2> QED  BY <1>9, <2>1, <2>2, <2>3, <2>4 DEF Step
<1> QED  BY <1>4, <1>5, <1>6, <1>7, <1>8, <1>9 DEF Next

(* After asrstop one frame more may be sent, the one sendbinary had let    *)
(* through, for any number of messages and frames.                         *)
THEOREM AsrStops == Spec => []AsrStopIsPrompt
<1>1. Init => AsrInv
  BY DEF Init, AsrInv
<1>2. IInv /\ AsrInv /\ [Next]_vars => AsrInv'
  BY AsrStep
<1>3. AsrInv => AsrStopIsPrompt
  BY DEF AsrInv, AsrStopIsPrompt
<1> QED  BY <1>1, <1>2, <1>3, InvHolds, PTL DEF Spec
-----------------------------------------------------------------------------
(* What a connection can end with, each still to come at most once, and    *)
(* what only an open one can lead to.                                      *)
Ends == { {"error"}, {"connected", "ok"}, {"connect"} }
Watched == Ends \cup { {"terminate"} }

(* A step adds none of X to what the threads still have to do.             *)
Fewer(X) ==
  \A t \in Threads : /\ None(todo[t], X) => None(todo'[t], X)
                     /\ Once(todo[t], X) => Once(todo'[t], X)

EndInv ==
  /\ \A t \in Threads : Once(todo[t], {"error"})
  /\ \A t, u \in Threads :
       t # u => None(todo[t], {"error"}) \/ None(todo[u], {"error"})
  /\ con # "closed" => errors = 0
  /\ con # "closed" \/ errors > 0
       => \A t \in Threads : None(todo[t], {"error"})
  /\ errors <= 1
  /\ con # "none" => None(todo["app"], {"connect"})
  /\ con = "none" => \A t \in Threads : None(todo[t], {"terminate"})
  /\ Once(todo["app"], {"connect"})
  /\ Once(todo["worker"], {"connected", "ok"})
  /\ \/ later = 0
     \/ later = 1 /\ errors > 0 /\ None(todo["worker"], {"connected", "ok"})

LEMMA Calm ==
  ASSUME EndInv, UNCHANGED <<con, errors, later>>,
         \A X \in Ends : Fewer(X), con = "none" => Fewer({"terminate"})
  PROVE  EndInv'
<1>1. /\ Fewer({"error"}) /\ Fewer({"connected", "ok"}) /\ Fewer({"connect"})
      /\ "app" \in Threads /\ "worker" \in Threads
  BY DEF Ends, Threads
<1>2. ASSUME NEW X, NEW t \in Threads, Fewer(X)
      PROVE  /\ None(todo[t], X) => None(todo[t], X)'
             /\ Once(todo[t], X) => Once(todo[t], X)'
  BY <1>2 DEF Fewer, None, Once
<1> QED  BY <1>1, <1>2 DEF EndInv

(* The lists of the other threads stay.                                    *)
LEMMA OneList ==
  ASSUME NEW t \in Threads, NEW X,
         \A u \in Threads : u # t => todo'[u] = todo[u],
         None(todo[t], X) => None(todo'[t], X),
         Once(todo[t], X) => Once(todo'[t], X)
  PROVE  Fewer(X)
  BY DEF Fewer

(* calls without X in place of the next call.                              *)
LEMMA NoMore ==
  ASSUME TodoOK, NEW t \in Threads, NEW X, NEW U, NEW calls \in Seq(U),
         None(calls, X), todo[t] # <<>>,
         \/ todo'[t] = Tail(todo[t]) \/ todo'[t] = calls
         \/ todo'[t] = calls \o Tail(todo[t]),
         \A u \in Threads : u # t => todo'[u] = todo[u]
  PROVE  Fewer(X)
<1>1. todo[t] \in Seq(Alphabet(t))
  BY DEF TodoOK
<1> DEFINE S == U \cup Alphabet(t)
<1>2. calls \in Seq(S) /\ todo[t] \in Seq(S)
  BY <1>1
<1> HIDE DEF S
<1>3. /\ Tail(todo[t]) \in Seq(S)
      /\ None(todo[t], X) => None(Tail(todo[t]), X)
      /\ Once(todo[t], X) => Once(Tail(todo[t]), X)
  BY <1>2, RestCounts
<1>4. /\ None(todo[t], X) => None(calls \o Tail(todo[t]), X)
      /\ Once(todo[t], X) => Once(calls \o Tail(todo[t]), X)
  BY <1>2, <1>3, JoinCounts
<1>5. Once(calls, X)
  BY NoneIsOnce
<1>6. /\ None(todo[t], X) => None(todo'[t], X)
      /\ Once(todo[t], X) => Once(todo'[t], X)
  BY <1>3, <1>4, <1>5
<1> QED  BY <1>6, OneList

(* Short lists without what is watched.                                    *)
Quiet ==
  Texts \cup Commands
  \cup {"test_asr", "send", "audio", "cancel", "test_open", "binary", "finish"}

LEMMA QuietLists ==
  ASSUME NEW x \in Quiet, NEW y \in Quiet, NEW X \in Watched
  PROVE  /\ <<>> \in Seq(Quiet) /\ None(<<>>, X)
         /\ <<x>> \in Seq(Quiet) /\ None(<<x>>, X)
         /\ <<x, y>> \in Seq(Quiet) /\ None(<<x, y>>, X)
<1>1. x \notin X /\ y \notin X
  BY DEF Quiet, Watched, Ends, Texts, Commands
<1> QED  BY <1>1 DEF None

LEMMA TalkIsQuiet ==
  ASSUME TodoOK, NEW t \in Threads, NEW X \in Watched,
         IsConnected(t) \/ TestAsr(t) \/ Send(t) \/ Disconnect(t)
  PROVE  Fewer(X)
<1>0. /\ "test_asr" \in Quiet /\ "send" \in Quiet /\ "audio" \in Quiet
      /\ "no_asr" \in Quiet /\ "test_open" \in Quiet
      /\ \A x \in Texts : x \in Quiet
  BY DEF Quiet, Texts
<1>1. CASE IsConnected(t)
  <2>1. PICK calls \in Seq(Quiet) :
          /\ None(calls, X)
          /\ \/ todo'[t] = Tail(todo[t])
             \/ todo'[t] = calls \o Tail(todo[t])
    <3>1. CASE todo'[t] = Tail(todo[t])
      BY <1>0, <3>1, QuietLists
    <3>2. CASE todo'[t] = <<"test_asr">> \o Tail(todo[t])
      BY <1>0, <3>2, QuietLists
    <3>3. CASE /\ todo'[t] = <<"send", Head(todo[t])>> \o Tail(todo[t])
               /\ Head(todo[t]) \in Texts
      <4> DEFINE calls == <<"send", Head(todo[t])>>
      <4>1. calls \in Seq(Quiet) /\ None(calls, X)
        BY <1>0, <3>3, QuietLists
      <4>2. todo'[t] = calls \o Tail(todo[t])
        BY <3>3
      <4> HIDE DEF calls
      <4> QED  BY <4>1, <4>2
    <3> QED  BY <1>1, <3>1, <3>2, <3>3, IsConnectedTodo
  <2> QED  BY <1>1, <2>1, IsConnectedTodo, NoMore
<1>2. CASE TestAsr(t)
  <2>1. PICK calls \in Seq(Quiet) :
          None(calls, X) /\ todo'[t] = calls \o Tail(todo[t])
    <3>1. CASE todo'[t] = <<"send", "audio">> \o Tail(todo[t])
      <4> DEFINE calls == <<"send", "audio">>
      <4>1. calls \in Seq(Quiet) /\ None(calls, X)
        BY <1>0, QuietLists
      <4>2. todo'[t] = calls \o Tail(todo[t])
        BY <3>1
      <4> HIDE DEF calls
      <4> QED  BY <4>1, <4>2
    <3>2. CASE todo'[t] = <<"no_asr">> \o Tail(todo[t])
      BY <1>0, <3>2, QuietLists
    <3> QED  BY <1>2, <3>1, <3>2, TestAsrTodo
  <2> QED  BY <1>2, <2>1, TestAsrTodo, NoMore
<1>3. CASE Send(t)
  <2>1. /\ todo[t] # <<>> /\ Len(todo[t]) > 1 /\ todo[t] \in Seq(Alphabet(t))
        /\ todo'[t] = Tail(Tail(todo[t]))
        /\ \A u \in Threads : u # t => todo'[u] = todo[u]
    BY <1>3, SendTodo DEF TodoOK
  <2> DEFINE r == Tail(todo[t])
  <2>2. /\ r \in Seq(Alphabet(t)) /\ r # <<>>
        /\ None(todo[t], X) => None(r, X)
        /\ Once(todo[t], X) => Once(r, X)
    <3>1. r \in Seq(Alphabet(t)) /\ Len(r) = Len(todo[t]) - 1
      BY <2>1, HeadTailProperties
    <3>2. r # <<>>
      <4> HIDE DEF r
      <4> QED  BY <2>1, <3>1
    <3>3. /\ r \in Seq(Alphabet(t))
          /\ None(todo[t], X) => None(r, X)
          /\ Once(todo[t], X) => Once(r, X)
      BY <2>1, RestCounts
    <3> QED  BY <3>2, <3>3
  <2>3. todo'[t] = Tail(r)
    BY <2>1
  <2> HIDE DEF r
  <2>4. /\ None(r, X) => None(todo'[t], X)
        /\ Once(r, X) => Once(todo'[t], X)
    BY <2>2, <2>3, RestCounts
  <2> QED  BY <2>1, <2>2, <2>4, OneList
<1>4. CASE Disconnect(t)
  <2>1. /\ <<"test_open">> \in Seq(Quiet) /\ None(<<"test_open">>, X)
    BY <1>0, QuietLists
  <2> QED  BY <1>4, <2>1, DisconnectTodo, NoMore
<1> QED  BY <1>1, <1>2, <1>3, <1>4
(* EndInv of the next state.                                               *)
LEMMA EndNext ==
  ASSUME \A t \in Threads : Once(todo'[t], {"error"}),
         \A t, u \in Threads :
           t # u => None(todo'[t], {"error"}) \/ None(todo'[u], {"error"}),
         con' # "closed" => errors' = 0,
         con' # "closed" \/ errors' > 0
           => \A t \in Threads : None(todo'[t], {"error"}),
         errors' <= 1,
         con' # "none", None(todo'["app"], {"connect"}),
         Once(todo'["app"], {"connect"}),
         Once(todo'["worker"], {"connected", "ok"}),
         \/ later' = 0
         \/ /\ later' = 1 /\ errors' > 0
            /\ None(todo'["worker"], {"connected", "ok"})
  PROVE  EndInv'
<1>1. \A t, X : Once(todo[t], X)' <=> Once(todo'[t], X)
  BY DEF Once
<1>2. \A t, X : None(todo[t], X)' <=> None(todo'[t], X)
  BY DEF None
<1> QED  BY <1>1, <1>2 DEF EndInv

LEMMA StartIsQuiet ==
  ASSUME TodoOK, EndInv, AppStep PROVE EndInv'
<1>1. /\ "app" \in Threads /\ UNCHANGED <<errors, later>>
      /\ todo["app"] \in Seq(Alphabet("app"))
  BY DEF Threads, AppStep, ParseFails, Parse, ResetClient, Connect, RunWorker,
         told, TodoOK
<1>2. /\ todo["app"] # <<>>
      /\ \A u \in Threads : u # "app" => todo'[u] = todo[u]
  BY AppTodo
<1>3. CASE /\ todo'["app"] = <<>> \/ todo'["app"] = Tail(todo["app"])
           /\ UNCHANGED con
  <2>1. \A X : <<>> \in Seq(Quiet) /\ None(<<>>, X)
    BY EmptyNone
  <2>2. \A X \in Watched : Fewer(X)
    BY <1>1, <1>2, <1>3, <2>1, NoMore
  <2> QED  BY <1>1, <1>3, <2>2, Calm DEF Watched
<1>4. CASE /\ Head(todo["app"]) = "connect"
           /\ \/ todo'["app"] = Tail(todo["app"]) /\ con' = "connecting"
              \/ todo'["app"] = <<"error">> /\ con' = "closed"
  <2>1. ~None(todo["app"], {"connect"})
    BY <1>1, <1>2, <1>4 DEF None
  <2>2. /\ con = "none" /\ errors = 0
        /\ \A t \in Threads : None(todo[t], {"error"})
        /\ Once(todo["app"], {"connect"})
        /\ Once(todo["worker"], {"connected", "ok"})
        /\ later = 0
    BY <2>1 DEF EndInv
  <2>3. CASE todo'["app"] = Tail(todo["app"]) /\ con' = "connecting"
    <3>1. /\ None(todo'["app"], {"connect"})
          /\ None(todo'["app"], {"error"})
      BY <1>1, <1>2, <1>4, <2>2, <2>3, RestCounts
    <3>2. \A t \in Threads : None(todo'[t], {"error"})
      BY <1>2, <2>2, <3>1
    <3> QED  BY <1>1, <1>2, <2>2, <2>3, <3>1, <3>2, NoneIsOnce
             DEF EndInv, Once, None, Threads
  <2>4. CASE todo'["app"] = <<"error">> /\ con' = "closed"
    <3>1. /\ Once(todo'["app"], {"error"})
          /\ None(todo'["app"], {"connect"})
          /\ Once(todo'["app"], {"connect"})
      BY <2>4 DEF Once, None
    <3>2. \A t \in Threads : t # "app" => None(todo'[t], {"error"})
      BY <1>2, <2>2
    <3>3. \A t \in Threads : Once(todo'[t], {"error"})
      BY <3>1, <3>2, NoneIsOnce
    <3>4. /\ errors' = 0 /\ later' = 0
          /\ Once(todo'["worker"], {"connected", "ok"})
      BY <1>1, <1>2, <2>2 DEF Threads
    <3>5. \A t, u \in Threads :
            t # u => None(todo'[t], {"error"}) \/ None(todo'[u], {"error"})
      BY <3>2
    <3> QED  BY <2>4, <3>1, <3>3, <3>4, <3>5, EndNext
  <2> QED  BY <1>4, <2>3, <2>4
<1> QED  BY <1>3, <1>4, AppTodo
LEMMA WorkerIsQuiet ==
  ASSUME TodoOK, EndInv, WorkerStep PROVE EndInv'
<1>1. UNCHANGED <<con, errors, later>>
  BY DEF WorkerStep, StoreHandle, SetFlag, link, told
<1>2. /\ "worker" \in Threads
      /\ \A X : <<>> \in Seq(Quiet) /\ None(<<>>, X)
  BY EmptyNone DEF Threads
<1>3. \A X \in Watched : Fewer(X)
  BY <1>2, WorkerTodo, NoMore
<1> QED  BY <1>1, <1>3, Calm DEF Watched

LEMMA CallsAreQuiet ==
  ASSUME TodoOK, EndInv, Read \/ DetectEnd \/ Finish PROVE EndInv'
<1>1. UNCHANGED <<con, errors, later>>
  BY DEF Read, DetectEnd, Finish, link, told
<1>2. ASSUME NEW t \in {"media", "play"},
             \/ t = "media" /\ Read
             \/ t = "play" /\ (DetectEnd \/ Finish)
      PROVE  EndInv'
  <2>1. t \in Threads
    BY DEF Threads
  <2>2. \A X \in Watched : None(todo'[t], X)
    <3>1. "binary" \in Quiet /\ "detect_end" \in Quiet
          /\ "finish" \in Quiet /\ "cancel" \in Quiet
      BY DEF Quiet, Texts
    <3> QED  BY <1>2, <3>1, MediaPlayTodo, QuietLists
  <2>3. \A X \in Watched : Fewer(X)
    BY <1>2, <2>1, <2>2, MediaPlayTodo, NoneIsOnce, OneList
  <2> QED  BY <1>1, <2>3, Calm DEF Watched
<1> QED  BY <1>2

(* The open handler and the messages: one event of the worker to come.     *)
LEMMA OpenNews ==
  ASSUME TodoOK, EndInv, Open \/ Message PROVE EndInv'
<1>1. /\ con \in {"connecting", "open"} /\ con' \in {con, "open"}
      /\ UNCHANGED <<errors, later>>
  BY DEF Open, Message, link, told
<1>2. /\ None(todo'["worker"], {"error"})
      /\ Once(todo'["worker"], {"connected", "ok"})
  <2>1. CASE Open
    <3>1. Ids \notin {"error", "connected", "ok"}
      BY DEF Ids
    <3> QED  BY <2>1, <3>1, OpenTodo DEF None, Once
  <2>2. CASE Message
    <3>1. \/ todo'["worker"] = <<>>
          \/ \E x : todo'["worker"] = <<x>> /\ x # "error"
          \/ \E x : todo'["worker"] = <<x, "ok">>
                    /\ x \notin {"error", "connected", "ok"}
      BY <2>2, MessageTodo DEF Commands
    <3> QED  BY <3>1 DEF None, Once
  <2> QED  BY <2>1, <2>2
<1>3. /\ \A u \in Threads : u # "worker" => todo'[u] = todo[u]
      /\ "app" \in Threads
  BY OpenTodo, MessageTodo DEF Threads
<1>4. /\ errors = 0 /\ later = 0
      /\ \A t \in Threads : None(todo[t], {"error"})
      /\ None(todo["app"], {"connect"})
  BY <1>1 DEF EndInv
<1>5. /\ \A t \in Threads : None(todo'[t], {"error"})
      /\ None(todo'["app"], {"connect"})
  BY <1>2, <1>3, <1>4
<1>6. /\ \A t \in Threads : Once(todo'[t], {"error"})
      /\ Once(todo'["app"], {"connect"})
  BY <1>5, NoneIsOnce
<1>7. errors' = 0 /\ later' = 0 /\ con' # "none"
  BY <1>1, <1>4
<1> QED  BY <1>2, <1>5, <1>6, <1>7, EndNext

(* The connection ends: one thread is to report it.                        *)
LEMMA EndsOnce ==
  ASSUME TodoOK, EndInv, NEW t \in {"play", "worker"},
         con \in {"connecting", "open", "closing"}, con' = "closed",
         UNCHANGED <<errors, later>>,
         \/ todo'[t] = <<"bye", "error">>
         \/ /\ todo'[t] = <<"bye", "error">> \o Tail(todo[t])
            /\ todo[t] # <<>>,
         \A u \in Threads : u # t => todo'[u] = todo[u]
  PROVE  EndInv'
<1>1. /\ errors = 0 /\ later = 0
      /\ \A u \in Threads : None(todo[u], {"error"})
      /\ None(todo["app"], {"connect"})
      /\ Once(todo["worker"], {"connected", "ok"})
      /\ t \in Threads /\ "app" \in Threads /\ "worker" \in Threads
      /\ t # "app"
  BY DEF EndInv, Threads
<1> DEFINE a == <<"bye", "error">>
<1> DEFINE b == Tail(todo[t])
<1>2. /\ a \in Seq({"bye", "error"}) /\ Once(a, {"error"})
      /\ None(a, {"connected", "ok"})
  BY DEF Once, None
<1>3. /\ Once(todo'[t], {"error"})
      /\ Once(todo[t], {"connected", "ok"})
           => Once(todo'[t], {"connected", "ok"})
  <2>1. CASE todo'[t] = a
    BY <1>2, <2>1, NoneIsOnce
  <2>2. CASE todo'[t] = a \o b /\ todo[t] # <<>>
    <3> DEFINE S == Alphabet(t) \cup {"bye", "error"}
    <3>1. todo[t] \in Seq(S) /\ a \in Seq(S)
      BY <1>1 DEF TodoOK
    <3> HIDE DEF S, a
    <3>2. /\ b \in Seq(S) /\ None(b, {"error"})
          /\ Once(todo[t], {"connected", "ok"})
               => Once(b, {"connected", "ok"})
      BY <1>1, <2>2, <3>1, RestCounts
    <3> HIDE DEF b
    <3> QED  BY <1>2, <2>2, <3>1, <3>2, JoinCounts
  <2> QED  BY <2>1, <2>2
<1> HIDE DEF a, b
<1>4. \A u \in Threads : u # t => None(todo'[u], {"error"})
  BY <1>1
<1>5. \A u \in Threads : Once(todo'[u], {"error"})
  BY <1>3, <1>4, NoneIsOnce
<1>6. \A u, v \in Threads :
        u # v => None(todo'[u], {"error"}) \/ None(todo'[v], {"error"})
  BY <1>4
<1>7. /\ None(todo'["app"], {"connect"}) /\ Once(todo'["app"], {"connect"})
      /\ Once(todo'["worker"], {"connected", "ok"})
  BY <1>1, <1>3, NoneIsOnce
<1>8. errors' = 0 /\ later' = 0
  BY <1>1
<1> QED  BY <1>5, <1>6, <1>7, <1>8, EndNext

(* The events are fired.                                                   *)
LEMMA FiredOnce ==
  ASSUME FieldsOK, TodoOK, EndInv, NEW t \in Threads, Fire(t) PROVE EndInv'
<1>1. /\ todo[t] # <<>> /\ todo'[t] = Tail(todo[t])
      /\ \A u \in Threads : u # t => todo'[u] = todo[u]
      /\ todo[t] \in Seq(Alphabet(t))
      /\ Head(todo[t]) \in Events \cap Alphabet(t)
  BY FireTodo DEF TodoOK
<1>2. \A X \in Watched : Fewer(X)
  <2>1. \A X : <<>> \in Seq(Quiet) /\ None(<<>>, X)
    BY EmptyNone
  <2> QED  BY <1>1, <2>1, NoMore
<1>3. con' = con
  BY DEF Fire, link
<1>4. CASE UNCHANGED <<errors, later>>
  BY <1>2, <1>3, <1>4, Calm DEF Watched
<1>5. CASE Head(todo[t]) = "error" /\ errors' = errors + 1 /\ later' = later
  <2>1. ~None(todo[t], {"error"})
    BY <1>1, <1>5 DEF None
  <2>2. /\ con = "closed" /\ errors = 0 /\ later = 0
        /\ \A u \in Threads : u # t => None(todo[u], {"error"})
        /\ Once(todo[t], {"error"})
        /\ None(todo["app"], {"connect"})
        /\ Once(todo["app"], {"connect"})
        /\ Once(todo["worker"], {"connected", "ok"})
    <3>1. errors = 0
      BY <2>1 DEF EndInv, FieldsOK
    <3> QED  BY <2>1, <3>1 DEF EndInv
  <2>3. None(todo'[t], {"error"})
    BY <1>1, <1>5, <2>2, RestCounts
  <2>4. \A u \in Threads : None(todo'[u], {"error"})
    BY <1>1, <2>2, <2>3
  <2>5. \A u \in Threads : Once(todo'[u], {"error"})
    BY <2>4, NoneIsOnce
  <2>6. /\ None(todo'["app"], {"connect"}) /\ Once(todo'["app"], {"connect"})
        /\ Once(todo'["worker"], {"connected", "ok"})
    BY <1>2, <2>2 DEF Fewer, Watched, Ends, Threads
  <2>7. errors' = 1 /\ later' = 0 /\ con' = "closed"
    BY <1>3, <1>5, <2>2
  <2> QED  BY <2>4, <2>5, <2>6, <2>7, EndNext
<1>6. CASE /\ Head(todo[t]) \in {"connected", "ok"} /\ errors > 0
           /\ errors' = errors /\ later' = later + 1
  <2>1. t = "worker"
    BY <1>1, <1>6 DEF Alphabet, Threads
  <2>2. ~None(todo[t], {"connected", "ok"})
    BY <1>1, <1>6 DEF None
  <2>3. /\ con = "closed" /\ errors <= 1 /\ later = 0
        /\ \A u \in Threads : None(todo[u], {"error"})
        /\ None(todo["app"], {"connect"})
        /\ Once(todo["app"], {"connect"})
        /\ Once(todo["worker"], {"connected", "ok"})
    BY <1>6, <2>1, <2>2 DEF EndInv
  <2>4. None(todo'["worker"], {"connected", "ok"})
    BY <1>1, <1>6, <2>1, <2>3, RestCounts
  <2>5. \A u \in Threads : None(todo'[u], {"error"})
    BY <1>2, <2>3 DEF Fewer, Watched, Ends
  <2>6. /\ None(todo'["app"], {"connect"}) /\ Once(todo'["app"], {"connect"})
        /\ Once(todo'["worker"], {"connected", "ok"})
        /\ \A u \in Threads : Once(todo'[u], {"error"})
    BY <1>2, <2>3, <2>4, <2>5, NoneIsOnce DEF Fewer, Watched, Ends, Threads
  <2>7. errors' <= 1 /\ errors' > 0 /\ later' = 1 /\ con' = "closed"
    BY <1>3, <1>6, <2>3
  <2> QED  BY <2>4, <2>5, <2>6, <2>7, EndNext
<1> QED  BY <1>1, <1>4, <1>5, <1>6, FireTodo DEF Events

LEMMA EndStep == ASSUME IInv, EndInv, [Next]_vars PROVE EndInv'
<1>1. FieldsOK /\ TodoOK
  BY DEF IInv
<1>2. CASE UNCHANGED vars \/ EndSession
  <2>1. UNCHANGED <<con, errors, later, todo>>
    BY <1>2 DEF vars, EndSession, link, told
  <2>2. \A X \in Watched : Fewer(X)
    BY <2>1 DEF Fewer
  <2> QED  BY <2>1, <2>2, Calm DEF Watched
<1>3. ASSUME NEW t \in Threads, Step(t) PROVE EndInv'
  <2>1. CASE IsConnected(t) \/ TestAsr(t) \/ Send(t) \/ Disconnect(t)
    <3>1. UNCHANGED <<con, errors, later>>
      BY <2>1 DEF IsConnected, TestAsr, Send, Disconnect, link, told
    <3> QED  BY <1>1, <2>1, <3>1, TalkIsQuiet, Calm DEF Watched
  <2>2. CASE Fire(t)
    BY <1>1, <2>2, FiredOnce
  <2>3. CASE TestOpen(t)
    <3>1. UNCHANGED <<con, errors, later>>
      BY <2>3 DEF TestOpen, link, told
    <3>2. CASE todo'[t] = <<"terminate">> \o Tail(todo[t]) /\ con = "open"
      <4>1. /\ <<"terminate">> \in Seq({"terminate"})
            /\ \A X \in Ends : None(<<"terminate">>, X)
        BY DEF None, Ends
      <4>2. \A X \in Ends : Fewer(X)
        BY <1>1, <2>3, <3>2, <4>1, TestOpenTodo, NoMore
      <4> QED  BY <3>1, <3>2, <4>2, Calm
    <3>3. CASE todo'[t] = Tail(todo[t])
      <4>1. \A X : <<>> \in Seq(Quiet) /\ None(<<>>, X)
        BY EmptyNone
      <4>2. \A X \in Watched : Fewer(X)
        BY <1>1, <2>3, <3>3, <4>1, TestOpenTodo, NoMore
      <4> QED  BY <3>1, <4>2, Calm DEF Watched
    <3> QED  BY <1>1, <2>3, <3>2, <3>3, TestOpenTodo
  <2>4. CASE Terminate(t)
    <3>1. UNCHANGED <<errors, later>>
      BY <2>4 DEF Terminate, told
    <3>2. CASE /\ todo'[t] = <<"bye", "error">> \o Tail(todo[t])
               /\ con # "closed" /\ con' = "closed"
      <4>1. ~None(todo[t], {"terminate"})
        BY <1>1, <2>4, TerminateTodo DEF TodoOK, None
      <4>2. con \in {"connecting", "open", "closing"}
        BY <1>1, <3>2, <4>1 DEF EndInv, FieldsOK
      <4> QED  BY <1>1, <2>4, <3>1, <3>2, <4>2, TerminateTodo, EndsOnce
    <3>3. CASE todo'[t] = Tail(todo[t]) /\ con' = con
      <4>1. \A X : <<>> \in Seq(Quiet) /\ None(<<>>, X)
        BY EmptyNone
      <4>2. \A X \in Watched : Fewer(X)
        BY <1>1, <2>4, <3>3, <4>1, TerminateTodo, NoMore
      <4> QED  BY <3>1, <3>3, <4>2, Calm DEF Watched
    <3> QED  BY <1>1, <2>4, <3>2, <3>3, TerminateTodo
  <2> QED  BY <1>3, <2>1, <2>2, <2>3, <2>4 DEF Step
<1>4. CASE Lose
  <2>1. /\ con \in {"connecting", "open", "closing"} /\ con' = "closed"
        /\ UNCHANGED <<errors, later>>
    BY <1>4 DEF Lose, told
  <2> QED  BY <1>1, <1>4, <2>1, LoseTodo, EndsOnce
<1>5. CASE PeerCloses
  <2>1. /\ con = "open" /\ con' = "closing"
        /\ UNCHANGED <<errors, later, todo>>
    BY <1>5 DEF PeerCloses, told
  <2> QED  BY <2>1 DEF EndInv, None, Once
<1> QED  BY <1>1, <1>2, <1>3, <1>4, <1>5, StartIsQuiet, WorkerIsQuiet,
            OpenNews, CallsAreQuiet DEF Next

LEMMA EndHolds == Spec => []EndInv
<1>1. Init => EndInv
  <2> SUFFICES ASSUME Init PROVE EndInv
    OBVIOUS
  <2> DEFINE five == <<"parse", "client", "connect", "run", "assign">>
  <2>1. /\ con = "none" /\ errors = 0 /\ later = 0
        /\ todo = [t \in Threads |-> IF t # "app" THEN <<>> ELSE five]
    BY DEF Init
  <2>2. /\ None(five, {"error"}) /\ Once(five, {"connect"})
        /\ None(five, {"terminate"}) /\ None(<<>>, {"terminate"})
        /\ None(<<>>, {"error"}) /\ None(<<>>, {"connected", "ok"})
    BY DEF None, Once
  <2> HIDE DEF five
  <2>3. /\ "app" \in Threads /\ "worker" \in Threads
        /\ todo["app"] = five /\ todo["worker"] = <<>>
        /\ \A t \in Threads : todo[t] = five \/ todo[t] = <<>>
    BY <2>1 DEF Threads
  <2>4. /\ \A t \in Threads :
             /\ None(todo[t], {"error"}) /\ Once(todo[t], {"error"})
             /\ None(todo[t], {"terminate"})
        /\ Once(todo["worker"], {"connected", "ok"})
        /\ Once(todo["app"], {"connect"})
    BY <2>2, <2>3, NoneIsOnce
  <2> QED  BY <2>1, <2>4 DEF EndInv
<1>2. IInv /\ EndInv /\ [Next]_vars => EndInv'
  BY EndStep
<1> QED  BY <1>1, <1>2, InvHolds, PTL DEF Spec

(* Whoever ends the connection, and however late the others are, the       *)
(* session hears one error and at most one event after it.                 *)
THEOREM EndHeardOnce == Spec => []EndIsHeardOnce
<1>1. IInv /\ EndInv => EndIsHeardOnce
  BY DEF EndInv, EndIsHeardOnce, IInv, FieldsOK
<1> QED  BY <1>1, InvHolds, EndHolds, PTL
-----------------------------------------------------------------------------
(* Until the peer knows the call the open handler is about to tell it, and *)
(* nobody has been asked for audio.                                        *)
Known == wire \cap {"ids", "garbage"} # {}

Ended == con \in {"closing", "closed"}

Unasked ==
  /\ ~is_asr
  /\ None(todo["media"], {"audio"}) /\ None(todo["play"], {"bye"})

NextIsIds(s) ==
  \/ Len(s) > 1 /\ s[1] = "store" /\ s[2] \in {"ids", "garbage"}
  \/ m_connection_hdl /\ Len(s) > 0 /\ s[1] \in {"ids", "garbage"}
  \/ Len(s) > 1 /\ s[1] = "send" /\ s[2] \in {"ids", "garbage"}

Telling ==
  \/ con \in {"none", "connecting"} /\ todo["worker"] = <<>>
  \/ con = "open" /\ NextIsIds(todo["worker"])

IdsInv ==
  \/ Known
  \/ /\ wire \subseteq {"no_asr", "detect_end"}
     /\ Ended \/ ~Running \/ (Unasked /\ Telling)

LEMMA Stuck == ASSUME ~Running, [Next]_vars PROVE UNCHANGED vars
<1>1. ASSUME NEW t, NEW call, NEW calls
      PROVE  ~Does(t, call, calls) /\ ~Calls(t, calls)
             /\ ~Leaves(t, call, calls) /\ ~AtCall(t, call)
  BY DEF Does, Calls, Leaves, AtCall
<1>2. ASSUME NEW t, Step(t) PROVE FALSE
  BY <1>1, <1>2
  DEF Step, IsConnected, TestAsr, Send, Fire, Disconnect, TestOpen, Terminate
<1>3. ~AppStep
  BY <1>1 DEF AppStep, ParseFails, Parse, ResetClient, Connect, RunWorker
<1>4. ~WorkerStep /\ ~Open /\ ~PeerCloses /\ ~Lose /\ ~Message
  BY <1>1 DEF WorkerStep, StoreHandle, SetFlag, Open, PeerCloses, Lose, Message
<1>5. ~Read /\ ~DetectEnd /\ ~Finish /\ ~EndSession
  BY <1>1 DEF Read, DetectEnd, Finish, EndSession
<1> QED  BY <1>2, <1>3, <1>4, <1>5 DEF Next

(* Only a send over an open connection reaches the peer, and a connection  *)
(* that is closing or closed stays so.                                     *)
LEMMA WireStep ==
  ASSUME TodoOK, EndInv, [Next]_vars
  PROVE  /\ \/ wire' = wire
            \/ \E t \in Threads : /\ Send(t) /\ con = "open"
                                  /\ wire' = wire \cup {todo[t][2]}
         /\ Ended => Ended'
<1>1. CASE AppStep
  <2>1. wire' = wire
    BY <1>1 DEF AppStep, ParseFails, Parse, ResetClient, Connect, RunWorker,
                told
  <2>2. ASSUME Ended PROVE Head(todo["app"]) # "connect"
    <3>1. None(todo["app"], {"connect"}) /\ "app" \in Threads
      BY <2>2 DEF EndInv, Ended, Threads
    <3> QED  BY <1>1, <3>1, AppTodo DEF TodoOK, None
  <2> QED  BY <1>1, <2>1, <2>2, AppTodo DEF Ended
<1>2. CASE WorkerStep
  BY <1>2 DEF WorkerStep, StoreHandle, SetFlag, link, told, Ended
<1>3. ASSUME NEW t \in Threads, Step(t)
      PROVE  /\ \/ wire' = wire
                \/ /\ Send(t) /\ con = "open"
                   /\ wire' = wire \cup {todo[t][2]}
             /\ Ended => Ended'
  <2>1. CASE IsConnected(t) \/ TestAsr(t) \/ Fire(t) \/ Disconnect(t)
             \/ TestOpen(t)
    BY <2>1 DEF IsConnected, TestAsr, Fire, Disconnect, TestOpen, link, told,
                Ended
  <2>2. CASE Send(t)
    BY <2>2 DEF Send, link, Ended
  <2>3. CASE Terminate(t)
    BY <2>3 DEF Terminate, told, Ended
  <2> QED  BY <1>3, <2>1, <2>2, <2>3 DEF Step
<1>4. CASE Open \/ PeerCloses \/ Lose \/ Message \/ EndSession
  BY <1>4 DEF Open, PeerCloses, Lose, Message, EndSession, link, told, Ended
<1>5. CASE Read \/ DetectEnd \/ Finish
  BY <1>5 DEF Read, DetectEnd, Finish, link, told, Ended
<1>6. CASE UNCHANGED vars
  BY <1>6 DEF vars, link, told, Ended
<1> QED  BY <1>1, <1>2, <1>3, <1>4, <1>5, <1>6 DEF Next

(* The lists of the media and the playing thread.                          *)
LEMMA StillUnasked ==
  ASSUME TodoOK, Unasked, Telling, [Next]_vars
  PROVE  Unasked' \/ con' = "closed"
<1> DEFINE E(t) == IF t = "media" THEN {"audio"} ELSE {"bye"}
<1>0. /\ "media" \in Threads /\ "play" \in Threads /\ "worker" \in Threads
      /\ "app" \in Threads
  BY DEF Threads
<1>1. ASSUME is_asr' = is_asr,
             \A t \in {"media", "play"} :
               None(todo[t], E(t)) => None(todo'[t], E(t))
      PROVE  Unasked'
  BY <1>1 DEF Unasked, None
<1>2. ASSUME is_asr' = is_asr, todo'["media"] = todo["media"],
             todo'["play"] = todo["play"]
      PROVE  Unasked'
  BY <1>2 DEF Unasked, None
<1>3. CASE AppStep
  <2>1. is_asr' = is_asr
    BY <1>3 DEF AppStep, ParseFails, Parse, ResetClient, Connect, RunWorker,
                flags
  <2> QED  BY <1>0, <1>2, <1>3, <2>1, AppTodo
<1>4. CASE WorkerStep
  <2>1. Head(todo["worker"]) = "store"
    <3>1. todo["worker"] # <<>> /\ todo["worker"] \in Seq(Alphabet("worker"))
      BY <1>0, <1>4, WorkerTodo DEF TodoOK
    <3>2. /\ Head(todo["worker"]) = todo["worker"][1]
          /\ NextIsIds(todo["worker"])
      BY <3>1 DEF Telling
    <3> QED  BY <1>4, <3>2, WorkerTodo DEF NextIsIds
  <2>2. is_asr' = is_asr
    <3>1. ~SetFlag
      BY <2>1 DEF SetFlag, Does, AtCall
    <3> QED  BY <1>4, <3>1 DEF WorkerStep, StoreHandle, flags
  <2> QED  BY <1>0, <1>2, <1>4, <2>2, WorkerTodo
<1>5. CASE Open \/ PeerCloses \/ Lose \/ Message
  <2>1. is_asr' = is_asr
    BY <1>5 DEF Open, PeerCloses, Lose, Message, flags
  <2> QED  BY <1>0, <1>2, <1>5, <2>1, OpenTodo, LoseTodo, MessageTodo
          DEF PeerCloses
<1>6. CASE Read \/ DetectEnd \/ Finish
  <2>1. is_asr' = is_asr
    BY <1>6 DEF Read, DetectEnd, Finish, flags
  <2>2. ASSUME NEW t \in {"media", "play"},
               \/ t = "media" /\ Read
               \/ t = "play" /\ (DetectEnd \/ Finish)
        PROVE  Unasked'
    <3>1. None(todo'[t], {"audio", "bye"})
      BY <2>2, MediaPlayTodo DEF None
    <3>2. None(todo'[t], E(t))
      BY <3>1 DEF None
    <3>3. \A u \in {"media", "play"} : u # t => todo'[u] = todo[u]
      BY <1>0, <2>2, MediaPlayTodo
    <3> QED  BY <1>1, <2>1, <3>2, <3>3
  <2> QED  BY <1>6, <2>2
<1>7. CASE EndSession \/ UNCHANGED vars
  BY <1>2, <1>7 DEF EndSession, vars, flags
<1>8. ASSUME NEW t \in Threads, Step(t) PROVE Unasked' \/ con' = "closed"
  <2>1. is_asr' = is_asr
    BY <1>8 DEF Step, IsConnected, TestAsr, Send, Fire, Disconnect, TestOpen,
                Terminate, flags
  <2>2. /\ todo[t] # <<>> /\ todo[t] \in Seq(Alphabet(t))
        /\ \A u \in Threads : u # t => todo'[u] = todo[u]
    BY <1>8, IsConnectedTodo, TestAsrTodo, SendTodo, FireTodo, DisconnectTodo,
       TestOpenTodo, TerminateTodo DEF Step, TodoOK
  <2>3. CASE t \notin {"media", "play"}
    BY <1>0, <1>2, <2>1, <2>2, <2>3
  <2>4. CASE t \in {"media", "play"}
    <3>1. None(todo[t], E(t))
      BY <2>4 DEF Unasked
    <3>2. None(Tail(todo[t]), E(t)) /\ Tail(todo[t]) \in Seq(Alphabet(t))
      BY <2>2, <3>1, RestCounts
    <3>3. SUFFICES \/ None(todo'[t], E(t)) \/ con' = "closed"
      BY <1>0, <1>1, <2>1, <2>2, <2>4
    <3>4. CASE todo'[t] = Tail(todo[t])
      BY <3>2, <3>4
    <3>5. ASSUME NEW U, NEW calls \in Seq(U), None(calls, E(t)),
                 todo'[t] = calls \o Tail(todo[t])
          PROVE  None(todo'[t], E(t))
      <4> DEFINE S == U \cup Alphabet(t)
      <4>1. calls \in Seq(S) /\ Tail(todo[t]) \in Seq(S)
        BY <3>2, <3>5
      <4> HIDE DEF S, E
      <4>2. None(calls \o Tail(todo[t]), E(t))
        BY <3>2, <3>5, <4>1, JoinCounts
      <4> QED  BY <3>5, <4>2
    <3>6. CASE IsConnected(t)
      <4>1. CASE todo'[t] = <<"test_asr">> \o Tail(todo[t])
        <5>1. /\ <<"test_asr">> \in Seq({"test_asr"})
              /\ None(<<"test_asr">>, E(t))
          BY DEF None
        <5> QED  BY <3>5, <4>1, <5>1
      <4>2. CASE todo'[t] = <<"send", Head(todo[t])>> \o Tail(todo[t])
        <5>1. Head(todo[t]) \notin E(t)
          <6>1. Head(todo[t]) = todo[t][1] /\ 1 \in 1..Len(todo[t])
            BY <2>2
          <6> HIDE DEF E
          <6> QED  BY <3>1, <6>1 DEF None
        <5> DEFINE calls == <<"send", Head(todo[t])>>
        <5>2. /\ calls \in Seq({"send", Head(todo[t])})
              /\ None(calls, E(t))
          BY <5>1 DEF None
        <5>3. todo'[t] = calls \o Tail(todo[t])
          BY <4>2
        <5> HIDE DEF calls
        <5> QED  BY <3>5, <5>2, <5>3
      <4> QED  BY <3>4, <3>6, <4>1, <4>2, IsConnectedTodo
    <3>7. CASE TestAsr(t)
      <4>1. todo'[t] = <<"no_asr">> \o Tail(todo[t])
        BY <3>7, TestAsrTodo DEF Unasked
      <4>2. <<"no_asr">> \in Seq({"no_asr"}) /\ None(<<"no_asr">>, E(t))
        BY DEF None
      <4> QED  BY <3>5, <4>1, <4>2
    <3>8. CASE Send(t)
      <4>1. todo'[t] = Tail(Tail(todo[t])) /\ Len(todo[t]) > 1
        BY <3>8, SendTodo
      <4> DEFINE r == Tail(todo[t])
      <4>2. r \in Seq(Alphabet(t)) /\ Len(r) = Len(todo[t]) - 1
            /\ todo'[t] = Tail(r) /\ None(r, E(t))
        BY <2>2, <3>2, <4>1, HeadTailProperties
      <4> HIDE DEF r, E
      <4>3. r # <<>>
        BY <2>2, <4>1, <4>2
      <4> QED  BY <4>2, <4>3, RestCounts
    <3>9. CASE Fire(t)
      BY <3>4, <3>9, FireTodo
    <3>10. CASE Disconnect(t)
      <4>1. <<"test_open">> \in Seq({"test_open"})
            /\ None(<<"test_open">>, E(t))
        BY DEF None
      <4> QED  BY <3>4, <3>5, <3>10, <4>1, DisconnectTodo
    <3>12. CASE TestOpen(t)
      <4>1. <<"terminate">> \in Seq({"terminate"})
            /\ None(<<"terminate">>, E(t))
        BY DEF None
      <4> QED  BY <3>4, <3>5, <3>12, <4>1, TestOpenTodo
    <3>11. CASE Terminate(t)
      BY <3>4, <3>11, TerminateTodo
    <3> QED  BY <1>8, <3>6, <3>7, <3>8, <3>9, <3>10, <3>11, <3>12
             DEF Step
  <2> QED  BY <2>3, <2>4
<1> QED  BY <1>3, <1>4, <1>5, <1>6, <1>7, <1>8 DEF Next

LEMMA StillTelling ==
  ASSUME TodoOK, EndInv, Telling, [Next]_vars
  PROVE  Known' \/ Ended' \/ ~Running' \/ Telling'
<1> DEFINE s == todo["worker"]
<1>0. "worker" \in Threads /\ s \in Seq(Alphabet("worker"))
  BY DEF Threads, TodoOK
<1>1. ASSUME UNCHANGED <<con, m_connection_hdl>>, todo'["worker"] = s
      PROVE  Telling'
  BY <1>1 DEF Telling, NextIsIds
<1>2. CASE UNCHANGED vars \/ EndSession
  BY <1>1, <1>2 DEF vars, EndSession, link
<1>3. CASE AppStep
  <2>1. m_connection_hdl' = m_connection_hdl
    BY <1>3 DEF AppStep, ParseFails, Parse, ResetClient, Connect, RunWorker,
                link
  <2>2. todo'["worker"] = s
    BY <1>0, <1>3, AppTodo
  <2>3. ASSUME Head(todo["app"]) = "connect" PROVE con = "none"
    <3>1. ~None(todo["app"], {"connect"})
      BY <1>3, <2>3, AppTodo DEF None, TodoOK, Threads
    <3> QED  BY <3>1 DEF EndInv
  <2>4. CASE con' = con
    BY <1>1, <2>1, <2>2, <2>4
  <2>5. CASE con' = "connecting" /\ con = "none"
    BY <2>2, <2>5 DEF Telling
  <2> QED  BY <1>3, <2>3, <2>4, <2>5, AppTodo DEF Ended
<1>4. CASE WorkerStep
  <2>1. /\ s # <<>> /\ todo'["worker"] = Tail(s)
        /\ Head(s) = "store" /\ s[1] = "store"
        /\ con = "open" /\ Len(s) > 1 /\ s[2] \in {"ids", "garbage"}
    BY <1>0, <1>4, WorkerTodo DEF Telling, NextIsIds
  <2>2. StoreHandle
    BY <1>4, <2>1 DEF WorkerStep, SetFlag, Does, AtCall
  <2>3. m_connection_hdl' /\ con' = "open"
    BY <2>1, <2>2 DEF StoreHandle
  <2>4. Len(Tail(s)) > 0 /\ Tail(s)[1] \in {"ids", "garbage"}
    BY <1>0, <2>1, HeadTailProperties
  <2>5. NextIsIds(todo["worker"])'
    BY <2>1, <2>3, <2>4 DEF NextIsIds
  <2> QED  BY <2>3, <2>5 DEF Telling
<1>5. CASE Open
  <2>1. con' = "open"
    BY <1>5 DEF Open
  <2>2. todo'["worker"] = <<"store", Ids, "hello", "connected">>
    BY <1>5, OpenTodo
  <2>3. Ids \in {"ids", "garbage"}
    BY DEF Ids
  <2>4. NextIsIds(todo["worker"])'
    BY <2>2, <2>3 DEF NextIsIds
  <2> QED  BY <2>1, <2>4 DEF Telling
<1>6. CASE PeerCloses \/ Lose
  BY <1>6 DEF PeerCloses, Lose, Ended
<1>7. CASE Message
  <2>1. s = <<>> /\ con = "open"
    BY <1>7, MessageTodo DEF Message
  <2> QED  BY <2>1 DEF Telling, NextIsIds
<1>8. CASE Read \/ DetectEnd \/ Finish
  <2>1. UNCHANGED <<con, m_connection_hdl>>
    BY <1>8 DEF Read, DetectEnd, Finish, link
  <2> QED  BY <1>0, <1>1, <1>8, <2>1, MediaPlayTodo
<1>9. ASSUME NEW t \in Threads, Step(t)
      PROVE  Known' \/ Ended' \/ ~Running' \/ Telling'
  <2>1. m_connection_hdl' = m_connection_hdl
    BY <1>9 DEF Step, IsConnected, TestAsr, Send, Fire, Disconnect, TestOpen,
                Terminate, link
  <2>2. con' = con \/ con' = "closed"
    BY <1>9 DEF Step, IsConnected, TestAsr, Send, Fire, Disconnect, TestOpen,
                Terminate, link
  <2>3. CASE t # "worker"
    <3>1. todo'["worker"] = s
      BY <1>0, <1>9, <2>3, IsConnectedTodo, TestAsrTodo, SendTodo, FireTodo,
         DisconnectTodo, TestOpenTodo, TerminateTodo DEF Step
    <3> QED  BY <1>1, <2>1, <2>2, <3>1 DEF Ended
  <2>4. CASE t = "worker"
    <3>1. s # <<>>
      BY <1>9, <2>4, IsConnectedTodo, TestAsrTodo, SendTodo, FireTodo,
         DisconnectTodo, TestOpenTodo, TerminateTodo DEF Step
    <3>2. /\ con = "open" /\ NextIsIds(s) /\ Head(s) = s[1]
          /\ Head(s) \in {"store", "ids", "garbage", "send"}
      BY <1>0, <3>1 DEF Telling, NextIsIds
    <3>3. CASE IsConnected(t)
      <4>1. Head(s) \in {"ids", "garbage"} /\ m_connection_hdl
        BY <2>4, <3>2, <3>3, IsConnectedTodo DEF NextIsIds, Texts
      <4>2. con' = "open"
        BY <3>2, <3>3 DEF IsConnected, link
      <4>3. CASE fault' = "no_client"
        BY <4>3 DEF Running
      <4>4. CASE todo'["worker"] = <<"send", Head(s)>> \o Tail(s)
        <5> DEFINE r == Tail(s)
        <5>1. Head(s) \in Alphabet("worker") /\ r \in Seq(Alphabet("worker"))
          BY <1>0, <3>1, HeadTailProperties
        <5>2. todo'["worker"] = <<"send", Head(s)>> \o r
          BY <4>4
        <5> HIDE DEF r
        <5>3. /\ Len(todo'["worker"]) > 1 /\ todo'["worker"][1] = "send"
              /\ todo'["worker"][2] = Head(s)
          BY <5>1, <5>2, SendParts
        <5>4. NextIsIds(todo["worker"])'
          BY <4>1, <5>3 DEF NextIsIds
        <5> QED  BY <4>2, <5>4 DEF Telling
      <4>5. Connected /\ Head(s) # "binary"
        BY <3>2, <4>1 DEF Connected
      <4> QED  BY <2>4, <3>3, <4>3, <4>4, <4>5, IsConnectedTodo
    <3>4. CASE Send(t)
      <4>1. Head(s) = "send"
        BY <2>4, <3>4, SendTodo
      <4>2. s[2] \in {"ids", "garbage"}
        BY <3>2, <4>1 DEF NextIsIds
      <4>3. wire' = wire \cup {s[2]}
        BY <2>4, <3>2, <3>4 DEF Send
      <4> QED  BY <4>2, <4>3 DEF Known
    <3>5. CASE Fire(t) \/ TestAsr(t)
      BY <2>4, <3>2, <3>5, FireTodo, TestAsrTodo DEF Events
    <3>6. CASE Disconnect(t) \/ TestOpen(t) \/ Terminate(t)
      BY <2>4, <3>2, <3>6 DEF Disconnect, TestOpen, Terminate, Does, AtCall
    <3> QED  BY <1>9, <3>3, <3>4, <3>5, <3>6 DEF Step
  <2> QED  BY <2>3, <2>4
<1> QED  BY <1>2, <1>3, <1>4, <1>5, <1>6, <1>7, <1>8, <1>9 DEF Next

LEMMA IdsStep == ASSUME IInv, EndInv, IdsInv, [Next]_vars PROVE IdsInv'
<1>0. TodoOK
  BY DEF IInv
<1>1. CASE Known
  <2>1. wire \subseteq wire'
    BY <1>0, WireStep
  <2> QED  BY <1>1, <2>1 DEF IdsInv, Known
<1>2. CASE ~Known /\ ~Running
  <2>1. UNCHANGED vars
    BY <1>2, Stuck
  <2> QED  BY <2>1 DEF IdsInv, Known, Running, Unasked, Telling, NextIsIds,
                       Ended, None, vars, told, link, others, flags
<1>3. CASE ~Known /\ Ended
  <2>1. Ended' /\ wire' = wire
    BY <1>0, <1>3, WireStep DEF Ended
  <2>2. wire' \subseteq {"no_asr", "detect_end"}
    BY <1>3, <2>1 DEF IdsInv
  <2> QED  BY <2>1, <2>2 DEF IdsInv
<1>4. CASE /\ ~Known /\ wire \subseteq {"no_asr", "detect_end"}
           /\ Unasked /\ Telling
  <2>1. Known' \/ wire' \subseteq {"no_asr", "detect_end"}
    <3>1. SUFFICES ASSUME NEW t \in Threads, Send(t),
                          wire' = wire \cup {todo[t][2]}
                   PROVE  Known' \/ todo[t][2] \in {"no_asr", "detect_end"}
      BY <1>0, <1>4, WireStep
    <3>2. /\ todo[t][2] \in (Texts \cup {"audio"}) \cap Alphabet(t)
          /\ todo[t] # <<>> /\ Head(todo[t]) = "send"
          /\ todo[t] \in Seq(Alphabet(t)) /\ 2 \in 1..Len(todo[t])
      BY <1>0, <3>1, SendTodo DEF TodoOK
    <3>3. CASE t = "media"
      BY <1>4, <3>2, <3>3 DEF Unasked, None, Alphabet, Texts
    <3>4. CASE t = "play"
      BY <1>4, <3>2, <3>4 DEF Unasked, None, Alphabet, Texts
    <3>5. CASE t = "worker"
      <4>1. todo[t][2] \in {"ids", "garbage"}
        BY <1>4, <3>2, <3>5 DEF Telling, NextIsIds
      <4> QED  BY <3>1, <4>1 DEF Known
    <3>6. CASE t = "app"
      BY <3>2, <3>6 DEF Alphabet, Texts
    <3> QED  BY <3>3, <3>4, <3>5, <3>6 DEF Threads
  <2>2. \/ Known' \/ Ended' \/ ~Running'
        \/ (Unasked' /\ Telling')
    BY <1>0, <1>4, StillUnasked, StillTelling DEF Ended
  <2> QED  BY <2>1, <2>2 DEF IdsInv
<1> QED  BY <1>1, <1>2, <1>3, <1>4 DEF IdsInv

-----------------------------------------------------------------------------
(* With a callId the open handler sends the JSON and not the buffer nobody *)
(* filled.  The callId is read before there is a connection.               *)
Unfilled == {"garbage"}
Clean == "garbage" \notin wire /\ None(todo["worker"], Unfilled)
StartCalls == <<"parse", "client", "connect", "run", "assign">>

NamedInv ==
  /\ con = "none" \/ callid # "empty" => Clean
  /\ con # "none" => None(todo["app"], {"parse"})
  /\ todo["app"] = StartCalls \/ None(todo["app"], {"parse"})

(* What the methods of the handler add to a list.                          *)
Added == {"test_asr", "send", "audio", "no_asr", "test_open", "terminate",
          "bye", "error"}

LEMMA StepKeeps ==
  ASSUME TodoOK, NEW t \in Threads, Step(t), NEW X, X \cap Added = {},
         None(todo[t], X)
  PROVE  None(todo'[t], X)
<1>1. /\ todo[t] # <<>> /\ todo[t] \in Seq(Alphabet(t))
  BY IsConnectedTodo, TestAsrTodo, SendTodo, FireTodo, DisconnectTodo,
     TestOpenTodo, TerminateTodo DEF Step, TodoOK
<1>2. None(Tail(todo[t]), X) /\ Tail(todo[t]) \in Seq(Alphabet(t))
  BY <1>1, RestCounts
<1>3. Head(todo[t]) \notin X
  BY <1>1 DEF None
<1>4. CASE todo'[t] = Tail(todo[t])
  BY <1>2, <1>4
<1>5. ASSUME NEW U, NEW calls \in Seq(U), None(calls, X),
             todo'[t] = calls \o Tail(todo[t])
      PROVE  None(todo'[t], X)
  <2> DEFINE S == U \cup Alphabet(t)
  <2>1. calls \in Seq(S) /\ Tail(todo[t]) \in Seq(S)
    BY <1>2, <1>5
  <2> HIDE DEF S
  <2>2. None(calls \o Tail(todo[t]), X)
    BY <1>2, <1>5, <2>1, JoinCounts
  <2> QED  BY <1>5, <2>2
<1>6. ASSUME NEW x, x \notin X, todo'[t] = <<x>> \o Tail(todo[t])
      PROVE  None(todo'[t], X)
  <2> DEFINE calls == <<x>>
  <2>1. calls \in Seq({x}) /\ None(calls, X)
    BY <1>6 DEF None
  <2>2. todo'[t] = calls \o Tail(todo[t])
    BY <1>6
  <2> HIDE DEF calls
  <2> QED  BY <1>5, <2>1, <2>2
<1>7. ASSUME NEW x, NEW y, x \notin X, y \notin X,
             todo'[t] = <<x, y>> \o Tail(todo[t])
      PROVE  None(todo'[t], X)
  <2> DEFINE calls == <<x, y>>
  <2>1. calls \in Seq({x, y}) /\ None(calls, X)
    BY <1>7 DEF None
  <2>2. todo'[t] = calls \o Tail(todo[t])
    BY <1>7
  <2> HIDE DEF calls
  <2> QED  BY <1>5, <2>1, <2>2
<1>8. \A x \in Added : x \notin X
  OBVIOUS
<1>9. CASE IsConnected(t)
  BY <1>3, <1>4, <1>6, <1>7, <1>8, <1>9, IsConnectedTodo DEF Added
<1>10. CASE TestAsr(t)
  BY <1>6, <1>7, <1>8, <1>10, TestAsrTodo DEF Added
<1>11. CASE Send(t)
  <2> DEFINE r == Tail(todo[t])
  <2>1. todo'[t] = Tail(r) /\ Len(todo[t]) > 1
    BY <1>11, SendTodo
  <2>2. /\ r \in Seq(Alphabet(t)) /\ Len(r) = Len(todo[t]) - 1 /\ None(r, X)
    BY <1>1, <1>2, HeadTailProperties
  <2> HIDE DEF r
  <2>3. r # <<>>
    BY <1>1, <2>1, <2>2
  <2> QED  BY <2>1, <2>2, <2>3, RestCounts
<1>12. CASE Fire(t)
  BY <1>4, <1>12, FireTodo
<1>13. CASE Disconnect(t) \/ TestOpen(t)
  BY <1>4, <1>6, <1>8, <1>13, DisconnectTodo, TestOpenTodo DEF Added
<1>14. CASE Terminate(t)
  BY <1>4, <1>7, <1>8, <1>14, TerminateTodo DEF Added
<1> QED  BY <1>9, <1>10, <1>11, <1>12, <1>13, <1>14 DEF Step

(* Nothing but the start leaves the state before there is a connection.    *)
LEMMA ConStays ==
  ASSUME IInv, EndInv, [Next]_vars
  PROVE  /\ con' = "none" => con = "none"
         /\ con = "none" /\ ~AppStep => con' = "none"
<1>1. CASE AppStep
  BY <1>1, AppTodo DEF IInv
<1>2. ASSUME NEW t \in Threads, Step(t)
      PROVE  con' = con \/ (con # "none" /\ con' = "closed")
  <2>1. CASE Terminate(t)
    <3>1. todo[t] # <<>> /\ Head(todo[t]) = "terminate" /\ con' = "closed"
          /\ todo[t] \in Seq(Alphabet(t))
      BY <2>1, TerminateTodo DEF IInv, TodoOK
    <3>2. ~None(todo[t], {"terminate"})
      BY <3>1 DEF None
    <3> QED  BY <3>1, <3>2 DEF EndInv
  <2>2. CASE ~Terminate(t)
    BY <1>2, <2>2 DEF Step, IsConnected, TestAsr, Send, Fire, Disconnect,
                      TestOpen, link
  <2> QED  BY <2>1, <2>2
<1>3. CASE WorkerStep \/ Read \/ DetectEnd \/ Finish \/ EndSession
  BY <1>3 DEF WorkerStep, StoreHandle, SetFlag, Read, DetectEnd, Finish,
              EndSession, link
<1>4. CASE Open \/ PeerCloses \/ Lose \/ Message
  BY <1>4 DEF Open, PeerCloses, Lose, Message, link
<1>5. CASE UNCHANGED vars
  BY <1>5 DEF vars, link
<1> QED  BY <1>1, <1>2, <1>3, <1>4, <1>5 DEF Next

(* What is never sent is not filled either, but by the open handler.       *)
LEMMA CleanStep ==
  ASSUME IInv, EndInv, Clean, [Next]_vars, Open => Ids # "garbage"
  PROVE  Clean'
<1>0. /\ TodoOK /\ "worker" \in Threads
      /\ todo["worker"] \in Seq(Alphabet("worker"))
      /\ None(todo["worker"], Unfilled)
  BY DEF IInv, TodoOK, Threads, Clean
<1>1. "garbage" \notin wire'
  <2>1. SUFFICES ASSUME NEW t \in Threads, Send(t), todo[t][2] = "garbage"
                 PROVE  FALSE
    BY <1>0, WireStep DEF Clean
  <2>2. /\ "garbage" \in Alphabet(t) /\ Len(todo[t]) > 1
        /\ todo[t] \in Seq(Alphabet(t))
    BY <1>0, <2>1, SendTodo DEF TodoOK
  <2>3. t = "worker"
    BY <2>2 DEF Alphabet, Threads
  <2>4. 2 \in 1..Len(todo["worker"])
    BY <2>2, <2>3
  <2> QED  BY <1>0, <2>1, <2>3, <2>4 DEF None, Unfilled
<1>2. None(todo'["worker"], Unfilled)
  <2>1. CASE todo'["worker"] = todo["worker"]
    BY <1>0, <2>1
  <2>2. CASE AppStep \/ PeerCloses \/ EndSession \/ UNCHANGED vars
    BY <1>0, <2>1, <2>2, AppTodo DEF PeerCloses, EndSession, vars
  <2>3. CASE WorkerStep
    BY <1>0, <2>3, WorkerTodo, RestCounts
  <2>4. ASSUME NEW t \in Threads, Step(t)
        PROVE  None(todo'["worker"], Unfilled)
    <3>1. CASE t = "worker"
      <4>1. Unfilled \cap Added = {}
        BY DEF Unfilled, Added
      <4> QED  BY <1>0, <2>4, <3>1, <4>1, StepKeeps
    <3>2. CASE t # "worker"
      BY <1>0, <2>1, <2>4, <3>2, IsConnectedTodo, TestAsrTodo, SendTodo,
         FireTodo, DisconnectTodo, TestOpenTodo, TerminateTodo DEF Step
    <3> QED  BY <3>1, <3>2
  <2>5. CASE Open
    BY <1>0, <2>5, OpenTodo DEF None, Unfilled
  <2>6. CASE Lose
    BY <1>0, <2>6, LoseTodo DEF None, Unfilled
  <2>7. CASE Message
    <3>1. "garbage" \notin Commands \cup {"cancel"}
      BY DEF Commands
    <3> QED  BY <1>0, <2>7, <3>1, MessageTodo DEF None, Unfilled
  <2>8. CASE Read \/ DetectEnd \/ Finish
    BY <1>0, <2>1, <2>8, MediaPlayTodo
  <2> QED  BY <2>2, <2>3, <2>4, <2>5, <2>6, <2>7, <2>8 DEF Next
<1> QED  BY <1>1, <1>2 DEF Clean, None

(* The other threads leave the start alone.                                *)
LEMMA StartStays ==
  ASSUME TodoOK, [Next]_vars, ~AppStep
  PROVE  /\ todo["app"] = StartCalls => todo'["app"] = StartCalls
         /\ None(todo["app"], {"parse"}) => None(todo'["app"], {"parse"})
<1>0. "app" \in Threads
  BY DEF Threads
<1>1. CASE Step("app")
  <2>1. Head(todo["app"]) # "parse"
    BY <1>0, <1>1, IsConnectedTodo, TestAsrTodo, SendTodo, FireTodo,
       DisconnectTodo, TestOpenTodo, TerminateTodo DEF Step, Texts, Events
  <2>2. todo["app"] # StartCalls
    BY <2>1 DEF StartCalls
  <2>3. {"parse"} \cap Added = {}
    BY DEF Added
  <2> QED  BY <1>0, <1>1, <2>2, <2>3, StepKeeps
<1>2. ASSUME ~Step("app") PROVE todo'["app"] = todo["app"]
  <2>1. ASSUME NEW t \in Threads, t # "app", Step(t)
        PROVE  todo'["app"] = todo["app"]
    BY <1>0, <2>1, IsConnectedTodo, TestAsrTodo, SendTodo, FireTodo,
       DisconnectTodo, TestOpenTodo, TerminateTodo DEF Step
  <2>2. CASE PeerCloses \/ EndSession \/ UNCHANGED vars
    BY <2>2 DEF PeerCloses, EndSession, vars
  <2>3. CASE WorkerStep \/ Open \/ Lose \/ Message
    BY <1>0, <2>3, WorkerTodo, OpenTodo, LoseTodo, MessageTodo
  <2>4. CASE Read \/ DetectEnd \/ Finish
    BY <1>0, <2>4, MediaPlayTodo
  <2> QED  BY <1>2, <2>1, <2>2, <2>3, <2>4 DEF Next
<1> QED  BY <1>1, <1>2

LEMMA NamedStep ==
  ASSUME IInv, EndInv, NamedInv, [Next]_vars PROVE NamedInv'
<1>0. /\ TodoOK /\ "app" \in Threads
      /\ todo["app"] \in Seq(Alphabet("app"))
  BY DEF IInv, TodoOK, Threads
<1>1. callid' = callid \/ (AppStep /\ Head(todo["app"]) = "parse")
  <2>1. CASE AppStep
    BY <2>1 DEF AppStep, ParseFails, Parse, ResetClient, Connect, RunWorker,
                Does, AtCall, start
  <2>2. ASSUME NEW t \in Threads, Step(t) PROVE callid' = callid
    BY <2>2 DEF Step, IsConnected, TestAsr, Send, Fire, Disconnect, TestOpen,
                Terminate, start
  <2>3. CASE WorkerStep \/ Read \/ DetectEnd \/ Finish \/ EndSession
    BY <2>3 DEF WorkerStep, StoreHandle, SetFlag, Read, DetectEnd, Finish,
                EndSession, start
  <2>4. CASE Open \/ PeerCloses \/ Lose \/ Message \/ UNCHANGED vars
    BY <2>4 DEF Open, PeerCloses, Lose, Message, start, vars
  <2> QED  BY <2>1, <2>2, <2>3, <2>4 DEF Next
<1>2. ASSUME AppStep, Head(todo["app"]) = "parse"
      PROVE  con = "none" /\ con' = "none"
  <2>1. ~None(todo["app"], {"parse"})
    BY <1>0, <1>2, AppTodo DEF None
  <2> QED  BY <1>0, <1>2, <2>1, AppTodo DEF NamedInv
<1>3. con' = "none" \/ callid' # "empty" => Clean'
  <2>1. SUFFICES ASSUME con' = "none" \/ callid' # "empty"
                 PROVE  Clean'
    OBVIOUS
  <2>2. con = "none" \/ callid # "empty"
    BY <1>1, <1>2, <2>1, ConStays
  <2>3. ASSUME Open PROVE Ids # "garbage"
    <3>1. con = "connecting" /\ con' = "open" /\ callid' = callid
      BY <2>3 DEF Open, start
    <3> QED  BY <2>1, <3>1 DEF Ids
  <2> QED  BY <2>2, <2>3, CleanStep DEF NamedInv
<1>4. CASE ~AppStep
  <2>1. /\ None(todo["app"], {"parse"}) => None(todo'["app"], {"parse"})
        /\ todo["app"] = StartCalls => todo'["app"] = StartCalls
        /\ con = "none" => con' = "none"
    BY <1>0, <1>4, StartStays, ConStays
  <2> QED  BY <1>3, <2>1 DEF NamedInv, None, StartCalls
<1>5. CASE AppStep
  <2>1. CASE todo["app"] = StartCalls
    <3>1. Head(todo["app"]) = "parse"
      BY <2>1 DEF StartCalls
    <3>2. None(Tail(StartCalls), {"parse"}) /\ None(<<>>, {"parse"})
      BY DEF StartCalls, None
    <3>3. None(todo'["app"], {"parse"})
      BY <1>0, <1>5, <2>1, <3>1, <3>2, AppTodo
    <3> QED  BY <1>3, <3>3 DEF NamedInv, None
  <2>2. CASE None(todo["app"], {"parse"})
    <3>1. None(Tail(todo["app"]), {"parse"})
      BY <1>0, <1>5, <2>2, AppTodo, RestCounts
    <3>2. None(<<"error">>, {"parse"}) /\ None(<<>>, {"parse"})
      BY DEF None
    <3>3. None(todo'["app"], {"parse"})
      BY <1>0, <1>5, <3>1, <3>2, AppTodo
    <3> QED  BY <1>3, <3>3 DEF NamedInv, None
  <2> QED  BY <2>1, <2>2 DEF NamedInv
<1> QED  BY <1>4, <1>5

(* However the four threads interleave, a peer whose call has a callId     *)
(* hears of it in full before it gets the caller's audio, the greeting or  *)
(* the farewell: is_asr is set by a message, the worker that handles it    *)
(* has left the open handler, and before that only the media and the       *)
(* playing thread speak.                                                   *)
THEOREM IdsComeFirst == Spec => []IdsFirst
<1>1. Init => IdsInv /\ NamedInv
  <2> SUFFICES ASSUME Init PROVE IdsInv /\ NamedInv
    OBVIOUS
  <2>1. /\ wire = {} /\ con = "none" /\ is_asr = FALSE
        /\ todo = [t \in Threads |->
                     IF t # "app" THEN <<>>
                     ELSE <<"parse", "client", "connect", "run", "assign">>]
    BY DEF Init
  <2>2. \A t \in {"media", "play", "worker"} : todo[t] = <<>>
    BY <2>1 DEF Threads
  <2>3. Unasked
    BY <2>1, <2>2, EmptyNone DEF Unasked
  <2>4. Telling
    BY <2>1, <2>2 DEF Telling
  <2>5. NamedInv
    BY <2>1, <2>2, EmptyNone
    DEF NamedInv, Clean, None, StartCalls, Threads
  <2> QED  BY <2>1, <2>3, <2>4, <2>5 DEF IdsInv
<1>2. IInv /\ EndInv /\ IdsInv /\ NamedInv /\ [Next]_vars
        => (IdsInv /\ NamedInv)'
  BY IdsStep, NamedStep
<1>3. IInv /\ IdsInv /\ NamedInv => IdsFirst
  <2>1. ASSUME NamedInv, callid # "empty" PROVE "garbage" \notin wire
    BY <2>1 DEF NamedInv, Clean
  <2> QED  BY <2>1 DEF IdsInv, IdsFirst, Known
<1> QED  BY <1>1, <1>2, <1>3, InvHolds, EndHolds, PTL DEF Spec
=============================================================================
