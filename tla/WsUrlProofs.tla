------------------------------ MODULE WsUrlProofs ------------------------------
(***************************************************************************)
(* The url check agrees with its comment on plain urls: hosts of 256       *)
(* characters and more are not plain, since they do not fit its buffer.    *)
(***************************************************************************)
EXTENDS MCModForkzstream, NumberFacts, SequenceTheorems

(* strchr returns null exactly when there is no c from i on, and otherwise *)
(* the first c.                                                            *)
LEMMA StrChrFirst ==
  ASSUME NEW T, NEW s \in Seq(T), NEW c, NEW i \in Nat
  PROVE  LET p == StrChr(s, c, i) IN
         \/ p = 0 /\ \A j \in i..Len(s) : s[j] # c
         \/ p \in i..Len(s) /\ s[p] = c /\ \A j \in i..p - 1 : s[j] # c
<1> DEFINE S == {j \in i..Len(s) : s[j] = c}
<1>1. CASE S = {}
  BY <1>1 DEF StrChr
<1>2. CASE S # {}
  <2>1. PICK m \in S : \A k \in S : m <= k
    <3>1. S \in SUBSET Nat
      OBVIOUS
    <3> HIDE DEF S
    <3> QED  BY <1>2, <3>1, LeastNumber
  <2>2. /\ m \in i..Len(s) /\ s[m] = c
        /\ \A j \in i..m - 1 : s[j] # c
    BY <2>1
  <2> QED  BY <2>2 DEF StrChr
<1> QED  BY <1>1, <1>2

(* No token of a host ends a host or is a bracket.                         *)
LEMMA HostTokenApart ==
  /\ ":" \notin HostTokens /\ "/" \notin HostTokens /\ "[" \notin HostTokens
  /\ Digits \subseteq HostTokens /\ "nul" \notin Digits /\ "nul" # ":"
  /\ ":" # "/" /\ "-" \notin Digits /\ "0" \in Digits
  BY DEF HostTokens, Digits

LEMMA NumberType ==
  /\ \A d \in Digits : Number[d].lower \in Int
  /\ \A d \in Digits : Number[d].upper = 0 => Number[d].lower >= 0
  /\ Number["0"].lower = 0
  BY DEF Number, Digits

(* How strtol reads a number with no white space and no plus sign before   *)
(* it.                                                                     *)
LEMMA NumberRead ==
  ASSUME NEW T, NEW s \in Seq(T), NEW i \in 1..Len(s) + 1,
         TokenAt(s, i) \notin {"blank", "+"}
  PROVE  /\ TokenAt(s, i) \in Digits
              => Strtol(s, i) = [value |-> Number[s[i]], end |-> i + 1]
         /\ TokenAt(s, i) \notin Digits
              => \/ Strtol(s, i).value = Number["0"]
                 \/ \E d \in Digits : /\ TokenAt(s, i + 1) = d /\ d = s[i + 1]
                                     /\ Strtol(s, i).value = Negative(Number[d])
<1>1. Len(s) \in Nat
  OBVIOUS
<1>2. SkipBlanks(s, i) = i
  <2>1. i \in i..Len(s) + 1 /\ \A k \in i..i - 1 : s[k] = "blank"
    BY <1>1
  <2>2. ASSUME NEW j \in i..Len(s) + 1, \A k \in i..j - 1 : s[k] = "blank"
        PROVE  j = i
    <3>1. CASE i <= Len(s)
      <4>1. s[i] # "blank"
        BY <1>1, <3>1 DEF TokenAt, AtEnd
      <4> QED  BY <1>1, <2>2, <4>1
    <3>2. CASE i = Len(s) + 1
      BY <1>1, <3>2
    <3> QED  BY <1>1, <3>1, <3>2
  <2> QED  BY <2>1, <2>2 DEF SkipBlanks
<1>3. CASE TokenAt(s, i) \in Digits
  <2>1. TokenAt(s, i) = s[i] /\ TokenAt(s, i) \notin {"+", "-"}
    BY <1>1, <1>3, HostTokenApart DEF TokenAt, AtEnd
  <2> QED  BY <1>2, <1>3, <2>1 DEF Strtol
<1>4. CASE TokenAt(s, i) \notin Digits
  <2>1. CASE TokenAt(s, i) # "-"
    BY <1>2, <1>4, <2>1 DEF Strtol
  <2>2. CASE TokenAt(s, i) = "-" /\ TokenAt(s, i + 1) \in Digits
    <3>1. TokenAt(s, i + 1) = s[i + 1]
      BY <1>1, <2>2, HostTokenApart DEF TokenAt, AtEnd
    <3>2. Strtol(s, i)
            = [value |-> Negative(Number[s[i + 1]]), end |-> (i + 1) + 1]
      BY <1>2, <2>2 DEF Strtol
    <3>3. Strtol(s, i).value = Negative(Number[s[i + 1]])
      BY <3>2
    <3> QED  BY <1>4, <2>2, <3>1, <3>3
  <2>3. CASE TokenAt(s, i) = "-" /\ TokenAt(s, i + 1) \notin Digits
    <3>1. Strtol(s, i) = [value |-> Number["0"], end |-> i]
      BY <1>2, <2>3 DEF Strtol
    <3> QED  BY <1>4, <3>1
  <2> QED  BY <2>1, <2>2, <2>3
<1> QED  BY <1>3, <1>4

(* A url the check accepts is what the comment says.                       *)
LEMMA AcceptedIsWellFormed ==
  ASSUME NEW T, NEW u \in Seq(T), Plain(u), is_valid_websocket_url(u)
  PROVE  WellFormed(u)
<1> DEFINE colon == StrChr(u, ":", 2)
           path  == StrChr(u, "/", 2)
           end   == IF colon # 0 THEN colon
                    ELSE IF path # 0 THEN path ELSE Len(u) + 1
           host  == SubSeq(u, 2, end - 1)
<1>1. /\ TokenAt(u, 1) \in Schemes /\ ~AtEnd(u, 2)
      /\ u[2] = "[" => FALSE
      /\ \A i \in 1..Len(host) : host[i] \in HostTokens
      /\ colon # 0 => PortIsValid(u, colon)
  BY DEF is_valid_websocket_url, validate_ip, HostOf
<1>2. /\ TokenAt(u, 2) \notin {":", "/"}
      /\ path # 0 => StrChr(u, ":", path) = 0
      /\ colon # 0 => TokenAt(u, colon + 1) \notin {"blank", "+"}
      /\ \A i \in 1..Len(u) : u[i] \in Digits => Number[u[i]].upper = 0
  BY DEF Plain
<1>3. /\ Len(u) \in Nat /\ 2 <= Len(u)
      /\ u[1] \in Schemes /\ u[2] # ":" /\ u[2] # "/"
  BY <1>1, <1>2 DEF AtEnd, TokenAt
<1>4. \/ colon = 0 /\ \A j \in 2..Len(u) : u[j] # ":"
      \/ colon \in 2..Len(u) /\ u[colon] = ":"
         /\ \A j \in 2..colon - 1 : u[j] # ":"
  BY StrChrFirst
<1>5. \/ path = 0 /\ \A j \in 2..Len(u) : u[j] # "/"
      \/ path \in 2..Len(u) /\ u[path] = "/"
         /\ \A j \in 2..path - 1 : u[j] # "/"
  BY StrChrFirst
<1>6. end \in 3..Len(u) + 1 /\ \A i \in 2..end - 1 : u[i] \in HostTokens
  <2>1. end \in 3..Len(u) + 1
    BY <1>3, <1>4, <1>5
  <2>2. \A i \in 1..end - 2 : host[i] = u[i + 1] /\ Len(host) = end - 2
    BY <2>1, <1>3
  <2> HIDE DEF end, host
  <2>3. ASSUME NEW i \in 2..end - 1 PROVE u[i] \in HostTokens
    <3>1. i - 1 \in 1..end - 2
      BY <2>1, <2>3
    <3>2. host[i - 1] = u[i] /\ i - 1 \in 1..Len(host)
      BY <2>1, <2>2, <3>1
    <3> QED  BY <1>1, <3>2
  <2> QED  BY <2>1, <2>3
<1>7. IsHost(SubSeq(u, 2, end - 1))
  <2> HIDE DEF end
  <2>1. /\ Len(SubSeq(u, 2, end - 1)) = end - 2
        /\ \A i \in 1..end - 2 : SubSeq(u, 2, end - 1)[i] = u[i + 1]
    BY <1>3, <1>6
  <2>2. SubSeq(u, 2, end - 1) # <<>>
    <3>1. Len(SubSeq(u, 2, end - 1)) # 0
      BY <1>6, <2>1
    <3> QED  BY <3>1, EmptySeq
  <2> QED  BY <1>6, <2>1, <2>2 DEF IsHost
<1>8. CASE colon = 0
  <2>1. IsPath(SubSeq(u, end, Len(u)))
    BY <1>3, <1>5, <1>8 DEF IsPath
  <2> HIDE DEF end
  <2>2. /\ end - 1 \in 1..Len(u) /\ end - 1 \in (end - 1)..Len(u)
        /\ (end - 1) + 1 = end
    BY <1>3, <1>6
  <2> QED  BY <1>3, <1>7, <2>1, <2>2 DEF WellFormed
<1>9. CASE colon # 0
  <2> DEFINE port == Strtol(u, colon + 1)
  <2>0. end = colon /\ colon \in 3..Len(u) /\ u[colon] = ":"
    BY <1>3, <1>4, <1>9
  <2> HIDE DEF end, colon
  <2>1. /\ AtEnd(u, port.end) \/ u[port.end] = "/"
        /\ validate_port(port.value.lower)
    BY <1>1, <1>9 DEF PortIsValid
  <2>2. /\ TokenAt(u, colon + 1) \in Digits
             => port = [value |-> Number[u[colon + 1]], end |-> (colon + 1) + 1]
        /\ TokenAt(u, colon + 1) \notin Digits
             => \/ port.value = Number["0"]
                \/ \E d \in Digits :
                     /\ TokenAt(u, (colon + 1) + 1) = d
                     /\ d = u[(colon + 1) + 1]
                     /\ port.value = Negative(Number[d])
    <3>1. /\ colon + 1 \in 1..Len(u) + 1
          /\ TokenAt(u, colon + 1) \notin {"blank", "+"}
      BY <1>2, <1>3, <1>9, <2>0
    <3> HIDE DEF port
    <3> QED  BY <3>1, NumberRead DEF port
  <2>12. TokenAt(u, colon + 1) \in Digits
    <3>1. ASSUME port.value = Number["0"] PROVE FALSE
      BY <2>1, <3>1, NumberType DEF validate_port
    <3>2. ASSUME NEW d \in Digits, TokenAt(u, (colon + 1) + 1) = d,
                 d = u[(colon + 1) + 1], port.value = Negative(Number[d])
          PROVE  FALSE
      <4>1. (colon + 1) + 1 \in 1..Len(u)
        BY <1>3, <2>0, <3>2, HostTokenApart DEF TokenAt, AtEnd
      <4>2. Number[d].upper = 0
        BY <1>2, <3>2, <4>1
      <4>3. Number[d].lower \in Int /\ Number[d].lower >= 0
        BY <4>2, NumberType
      <4>4. port.value.lower = -Number[d].lower
        <5> DEFINE n == Number[d]
        <5>1. n = [upper |-> n.upper, lower |-> n.lower, chars |-> n.chars]
          BY DEF Number
        <5> HIDE DEF n
        <5>2. Negative(n).lower = -n.lower
          BY <5>1 DEF Negative
        <5> QED  BY <3>2, <5>2 DEF n
      <4> QED  BY <2>1, <4>3, <4>4 DEF validate_port
    <3> QED  BY <2>2, <3>1, <3>2
  <2>3. /\ colon + 1 <= Len(u) /\ u[colon + 1] \in Digits
        /\ port = [value |-> Number[u[colon + 1]], end |-> colon + 2]
    <3>1. colon + 1 <= Len(u) /\ u[colon + 1] = TokenAt(u, colon + 1)
      BY <1>3, <2>0, <2>12, HostTokenApart DEF TokenAt, AtEnd
    <3>2. (colon + 1) + 1 = colon + 2
      BY <1>3, <2>0
    <3> QED  BY <2>2, <2>12, <3>1, <3>2
  <2>4. /\ Number[u[colon + 1]].upper = 0
        /\ Number[u[colon + 1]].lower > 0
        /\ Number[u[colon + 1]].lower <= 65535
    BY <1>2, <2>0, <2>1, <2>3 DEF validate_port
  <2>5. IsPort(SubSeq(u, colon + 1, colon + 1))
    <3> DEFINE s == SubSeq(u, colon + 1, colon + 1)
    <3>1. Len(s) = 1 /\ s[1] = u[colon + 1]
      BY <1>3, <2>0, <2>3
    <3>2. Number[u[colon + 1]].lower >= 1
      BY <2>3, <2>4, NumberType
    <3> HIDE DEF s
    <3>3. IsPort(s)
      BY <2>3, <2>4, <3>1, <3>2 DEF IsPort
    <3> QED  BY <3>3 DEF s
  <2>6. IsPath(SubSeq(u, colon + 2, Len(u)))
    BY <1>3, <2>0, <2>1, <2>3 DEF IsPath, AtEnd
  <2>7. TokenAt(u, colon) = ":"
    BY <1>3, <2>0 DEF TokenAt, AtEnd
  <2>8. IsHost(SubSeq(u, 2, colon - 1))
    BY <1>7, <2>0
  <2>9. /\ colon - 1 \in 1..Len(u) /\ colon + 1 \in (colon - 1)..Len(u)
        /\ (colon - 1) + 1 = colon /\ (colon - 1) + 2 = colon + 1
        /\ (colon + 1) + 1 = colon + 2
    BY <1>3, <2>0, <2>3
  <2>10. /\ IsHost(SubSeq(u, 2, colon - 1))
         /\ TokenAt(u, (colon - 1) + 1) = ":"
         /\ IsPort(SubSeq(u, (colon - 1) + 2, colon + 1))
         /\ IsPath(SubSeq(u, (colon + 1) + 1, Len(u)))
    BY <2>5, <2>6, <2>7, <2>8, <2>9
  <2>11. u # <<>>
    BY <1>3, EmptySeq
  <2> QED  BY <1>3, <2>9, <2>10, <2>11 DEF WellFormed
<1> QED  BY <1>8, <1>9

(* A plain url that is what the comment says is accepted.                  *)
LEMMA WellFormedIsAccepted ==
  ASSUME NEW T, NEW u \in Seq(T), Plain(u), WellFormed(u)
  PROVE  is_valid_websocket_url(u)
<1> DEFINE colon == StrChr(u, ":", 2)
           path  == StrChr(u, "/", 2)
           end   == IF colon # 0 THEN colon
                    ELSE IF path # 0 THEN path ELSE Len(u) + 1
           host  == SubSeq(u, 2, end - 1)
<1>1. /\ path # 0 => StrChr(u, ":", path) = 0
      /\ FitsHost(HostOf(u))
      /\ \A i \in 1..Len(u) : u[i] \in Digits => Number[u[i]].upper = 0
  BY DEF Plain
<1>2. Len(u) \in Nat /\ u[1] \in Schemes
  BY DEF WellFormed
<1>3. PICK h \in 1..Len(u), p \in 1..Len(u) :
        /\ p >= h /\ IsHost(SubSeq(u, 2, h))
        /\ p = h \/ (TokenAt(u, h + 1) = ":" /\ IsPort(SubSeq(u, h + 2, p)))
        /\ IsPath(SubSeq(u, p + 1, Len(u)))
  <2>1. PICK h \in 1..Len(u) : \E p \in h..Len(u) :
          /\ IsHost(SubSeq(u, 2, h))
          /\ p = h \/ (TokenAt(u, h + 1) = ":" /\ IsPort(SubSeq(u, h + 2, p)))
          /\ IsPath(SubSeq(u, p + 1, Len(u)))
    BY DEF WellFormed
  <2>2. PICK p \in h..Len(u) :
          /\ IsHost(SubSeq(u, 2, h))
          /\ p = h \/ (TokenAt(u, h + 1) = ":" /\ IsPort(SubSeq(u, h + 2, p)))
          /\ IsPath(SubSeq(u, p + 1, Len(u)))
    BY <2>1
  <2>3. p \in 1..Len(u) /\ p >= h
    BY <1>2
  <2> QED  BY <2>2, <2>3
<1>4. h >= 2 /\ \A i \in 2..h : u[i] \in HostTokens
  <2> DEFINE s == SubSeq(u, 2, h)
  <2>1. /\ Len(s) = h - 1 /\ \A i \in 1..h - 1 : s[i] = u[i + 1]
    BY <1>2, <1>3
  <2> HIDE DEF s
  <2>2. s # <<>> /\ \A i \in 1..Len(s) : s[i] \in HostTokens
    BY <1>3 DEF IsHost, s
  <2>3. h # 1
    <3>1. h = 1 => SubSeq(u, 2, h) = <<>>
      BY SubSeqEmpty
    <3> QED  BY <2>2, <3>1 DEF s
  <2>4. ASSUME NEW i \in 2..h PROVE u[i] \in HostTokens
    <3>1. i - 1 \in 1..h - 1
      BY <1>2, <1>3, <2>4
    <3>2. s[i - 1] = u[i]
      BY <2>1, <3>1
    <3> QED  BY <2>1, <2>2, <3>1, <3>2
  <2> QED  BY <1>2, <1>3, <2>3, <2>4
<1>5. \A i \in 2..h : u[i] # ":" /\ u[i] # "/" /\ u[i] # "["
  BY <1>4, HostTokenApart
<1>6. p < Len(u) => u[p + 1] = "/"
  <2> DEFINE s == SubSeq(u, p + 1, Len(u))
  <2>1. p < Len(u) => Len(s) # 0 /\ s[1] = u[p + 1]
    BY <1>2, <1>3
  <2> HIDE DEF s
  <2>2. s = <<>> \/ s[1] = "/"
    BY <1>3 DEF IsPath, s
  <2> QED  BY <2>1, <2>2, EmptySeq
<1>7. \/ colon = 0 /\ \A j \in 2..Len(u) : u[j] # ":"
      \/ colon \in 2..Len(u) /\ u[colon] = ":"
         /\ \A j \in 2..colon - 1 : u[j] # ":"
  BY StrChrFirst
<1>8. \/ path = 0 /\ \A j \in 2..Len(u) : u[j] # "/"
      \/ path \in 2..Len(u) /\ u[path] = "/"
         /\ \A j \in 2..path - 1 : u[j] # "/"
  BY StrChrFirst
<1>9. end = h + 1 /\ (colon # 0 => PortIsValid(u, colon))
  <2>1. CASE p = h
    <3>1. path # 0 => \A j \in path..Len(u) : u[j] # ":"
      <4>1. ASSUME path # 0 PROVE \A j \in path..Len(u) : u[j] # ":"
        <5>1. path \in Nat
          BY <1>8
        <5> HIDE DEF path
        <5> QED  BY <1>1, <4>1, <5>1, StrChrFirst
      <4> QED  BY <4>1
    <3>2. CASE p = Len(u)
      <4>1. colon = 0 /\ path = 0
        BY <1>2, <1>3, <1>5, <1>7, <1>8, <2>1, <3>2
      <4> QED  BY <1>3, <2>1, <3>2, <4>1
    <3>3. CASE p < Len(u)
      <4>1. path = h + 1
        <5> HIDE DEF path
        <5> QED  BY <1>2, <1>3, <1>4, <1>5, <1>6, <1>8, <2>1, <3>3
      <4>2. colon = 0
        <5> HIDE DEF path, colon
        <5> QED  BY <1>2, <1>3, <1>5, <1>7, <2>1, <3>1, <4>1
      <4> QED  BY <4>1, <4>2
    <3> QED  BY <1>2, <1>3, <3>2, <3>3
  <2>2. CASE p # h
    <3>1. h + 1 <= Len(u) /\ u[h + 1] = ":"
      BY <1>2, <1>3, <2>2, HostTokenApart DEF TokenAt, AtEnd
    <3>2. colon = h + 1
      <4> HIDE DEF colon
      <4> QED  BY <1>2, <1>3, <1>4, <1>5, <1>7, <3>1
    <3>3. /\ p = h + 2 /\ u[p] \in Digits
          /\ Number[u[p]].lower >= 1 /\ Number[u[p]].lower <= 65535
      <4> DEFINE s == SubSeq(u, h + 2, p)
      <4>1. /\ Len(s) = IF h + 2 <= p THEN p - h - 1 ELSE 0
            /\ h + 2 <= p => s[1] = u[h + 2]
        BY <1>2, <1>3
      <4> HIDE DEF s
      <4>2. /\ Len(s) = 1 /\ s[1] \in Digits
            /\ Number[s[1]].lower >= 1 /\ Number[s[1]].lower <= 65535
        BY <1>3, <2>2 DEF IsPort, s
      <4>3. p = h + 2
        <5>1. ~(h + 2 <= p) => Len(s) = 0
          BY <4>1
        <5>2. h + 2 <= p => Len(s) = p - h - 1
          BY <4>1
        <5>3. Len(s) = 1 /\ h \in Int /\ p \in Int
          BY <1>3, <4>2
        <5> QED  BY <5>1, <5>2, <5>3
      <4> QED  BY <1>3, <4>1, <4>2, <4>3
    <3>4. Strtol(u, p) = [value |-> Number[u[p]], end |-> p + 1]
      <4>1. p \in 1..Len(u) + 1 /\ TokenAt(u, p) = u[p]
        BY <1>2, <1>3 DEF TokenAt, AtEnd
      <4>2. "blank" \notin Digits /\ "+" \notin Digits
        BY DEF Digits
      <4> QED  BY <3>3, <4>1, <4>2, NumberRead
    <3>5. AtEnd(u, p + 1) \/ u[p + 1] = "/"
      BY <1>2, <1>3, <1>6 DEF AtEnd
    <3>6. validate_port(Number[u[p]].lower)
      BY <3>3, NumberType DEF validate_port
    <3>7. PortIsValid(u, h + 1)
      <4>1. (h + 1) + 1 = p
        BY <1>3, <3>3
      <4> QED  BY <3>4, <3>5, <3>6, <4>1 DEF PortIsValid
    <3> QED  BY <1>3, <3>2, <3>7
  <2> QED  BY <2>1, <2>2
<1>10. \A i \in 1..Len(host) : host[i] \in HostTokens
  <2>1. host = SubSeq(u, 2, h)
    BY <1>3, <1>9
  <2> QED  BY <1>3, <2>1 DEF IsHost
<1>11. /\ TokenAt(u, 1) \in Schemes /\ ~AtEnd(u, 2) /\ u[2] # "["
  BY <1>2, <1>3, <1>4, <1>5 DEF TokenAt, AtEnd
<1>12. HostOf(u) = host
  BY DEF HostOf
<1> HIDE DEF host, end
<1> QED  BY <1>1, <1>9, <1>10, <1>11, <1>12
         DEF is_valid_websocket_url, validate_ip

(* The comment of is_valid_websocket_url is kept for plain urls, of        *)
(* whatever tokens and with paths of any length: no colon in the path, a   *)
(* host of 1 to 255 characters, and a port without a sign or white space   *)
(* that fits into an int.                                                  *)
THEOREM CommentKept == ASSUME NEW T, NEW u \in Seq(T) PROVE AgreesOn(u)
  BY AcceptedIsWellFormed, WellFormedIsAccepted DEF AgreesOn

(* The same of the urls the run module_commands grows, for any bound on    *)
(* their tokens: check and comment agree on those of them that are plain.  *)
THEOREM UrlsAgree == MCSpec => []UrlAgrees
<1> DEFINE T == Schemes \cup {"http://"} \cup Tokens
           UrlOK == url \in Seq(T)
<1>1. MCInit => UrlOK
  BY EmptySeq DEF MCInit
<1>2. ASSUME UrlOK, [MCNext]_<<vars, url>> PROVE UrlOK'
  <2>1. ASSUME NEW scheme \in Schemes \cup {"http://"}, url' = <<scheme>>
        PROVE  UrlOK'
    <3>1. scheme \in T
      OBVIOUS
    <3> HIDE DEF T
    <3> QED  BY <2>1, <3>1
  <2>2. ASSUME NEW t \in Tokens, url' = Append(url, t) PROVE UrlOK'
    <3>1. t \in T
      OBVIOUS
    <3> HIDE DEF T
    <3> QED  BY <1>2, <2>2, <3>1
  <2>3. UNCHANGED url => UrlOK'
    BY <1>2
  <2> HIDE DEF T, UrlOK
  <2> QED  BY <1>2, <2>1, <2>2, <2>3 DEF MCNext, Grow
<1> HIDE DEF T
<1>3. UrlOK => UrlAgrees
  BY CommentKept DEF UrlAgrees
<1> QED  BY <1>1, <1>2, <1>3, PTL DEF MCSpec
=============================================================================
