--------------------------- MODULE MCModForkzstream ---------------------------
(* Instances of ModForkzstream and WsUrl.  The first call uses its uuid as *)
(* the key, the others the name of the application.  Urls are checked      *)
(* while the module is not loaded yet, so that the two do not multiply.    *)
EXTENDS ModForkzstream, WsUrl

CONSTANT UrlTokens  \* bound: tokens of a url after its scheme

ASSUME BoundAssumption == UrlTokens \in Nat

VARIABLE url

Key(c) == IF c = "c1" THEN <<c>> ELSE <<"forkzstream">>

Keys == <<"callId", "tenantId", "botid", "fsInstanceId", "url", "text">>
Object(keys) == <<"{">> \o keys \o <<"}">>
Without(key) == SelectSeq(Keys, LAMBDA k : k # key)

Params ==
  { <<>>, <<"url">>, Object(Keys), <<"{">> \o Keys,
    <<"{", Blank>> \o Keys \o <<Blank, "}">>,
    <<"{", Blank, Blank>> \o Keys \o <<"}">>,
    <<Blank>> \o Object(Keys) \o <<Blank, Blank>>,
    Object(Without("text")), Object(Without("callId")) }

Start(c, type, text) ==
  Key(c) \o <<Blank, "start", Blank, "r1", Blank, type, Blank>> \o text

Complete(c) ==
  {Start(c, "ws", text) : text \in Params} \cup
  {Start(c, "websocket", text) : text \in {<<>>, Object(Keys)}}

Short(c) ==
  { <<>>, <<Blank>>, Key(c), <<Blank>> \o Key(c) \o <<Blank, "start">>,
    Key(c) \o <<Blank, "start", Blank, Blank, "r1">>,
    Key(c) \o <<Blank, "stop">>, Key(c) \o <<Blank, "other", Blank, "r1">> }

(* The first call tries every form of command, the others are there for    *)
(* what calls do to each other.                                            *)
CallData(c) ==
  IF c = "c1" THEN Complete(c) \cup Short(c)
  ELSE { Start(c, "ws", <<"url">>), Start(c, "ws", Object(Keys)),
         Start(c, "websocket", Object(Keys)), Key(c) \o <<Blank, "stop">> }

ASSUME InstanceAssumption == KeysAreOwn

(* A url grows token by token; digits beside digits are one run.           *)
Grow ==
  /\ \/ url = <<>> /\ Init
        /\ \E scheme \in Schemes \cup {"http://"} : url' = <<scheme>>
     \/ url # <<>> /\ Len(url) <= UrlTokens
        /\ \E t \in Tokens :
             /\ ~(t \in Digits /\ url[Len(url)] \in Digits)
             /\ url' = Append(url, t)
  /\ UNCHANGED vars

MCInit == Init /\ url = <<>>

MCNext == (Next /\ url = <<>> /\ UNCHANGED url) \/ Grow

MCSpec == MCInit /\ [][MCNext]_<<vars, url>>

UrlAgrees == url # <<>> => AgreesOn(url)
=============================================================================
