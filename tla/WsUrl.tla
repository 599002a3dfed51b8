--------------------------------- MODULE WsUrl ---------------------------------
(***************************************************************************)
(* The check of a websocket url in mod_forkzstream.c.  A url is a sequence *)
(* of tokens: a scheme, the characters ":", "/", "[", "]", "+" and "-", a  *)
(* white space "blank", a letter "a", a run "a255" of 255 letters, and     *)
(* runs of digits.  A run of digits stands for a number, given by its      *)
(* upper part and its lower 32 bits (as a signed int).                     *)
(***************************************************************************)
EXTENDS Integers, Sequences

Schemes    == {"ws://", "wss://"}
Digits     == {"0", "80", "65535", "65536", "4294967376", "4294967216"}
HostTokens == {"a", "a255", "-"} \cup Digits    \* isalnum, '.' and '-'
Tokens     == HostTokens \cup {"+", "blank", ":", "/", "[", "]"}

Number == [d \in Digits |->
  CASE d = "0"          -> [upper |-> 0, lower |-> 0, chars |-> 1]
    [] d = "80"         -> [upper |-> 0, lower |-> 80, chars |-> 2]
    [] d = "65535"      -> [upper |-> 0, lower |-> 65535, chars |-> 5]
    [] d = "65536"      -> [upper |-> 0, lower |-> 65536, chars |-> 5]
    [] d = "4294967376" -> [upper |-> 1, lower |-> 80, chars |-> 10]
    [] OTHER            -> [upper |-> 1, lower |-> -80, chars |-> 10]]

Negative(n) == [n EXCEPT !.upper = -@, !.lower = -@]

(* The characters of a token, and of a sequence of tokens.                 *)
Width(t) == IF t = "a255" THEN 255
            ELSE IF t \in Digits THEN Number[t].chars ELSE 1
Chars(s) ==
  LET n[i \in 0..Len(s)] == IF i = 0 THEN 0 ELSE n[i - 1] + Width(s[i])
  IN  n[Len(s)]

(* strchr(s, c) from position i on: 0 is null.                             *)
StrChr(s, c, i) ==
  IF \E j \in i..Len(s) : s[j] = c
  THEN CHOOSE j \in i..Len(s) : s[j] = c /\ \A k \in i..j - 1 : s[k] # c
  ELSE 0

AtEnd(s, i) == i > Len(s)
TokenAt(s, i) == IF AtEnd(s, i) THEN "nul" ELSE s[i]

(* strtol at position i: white space is skipped, a sign is taken, and      *)
(* without digits the value is 0 and nothing is read.                      *)
SkipBlanks(s, i) ==
  CHOOSE j \in i..Len(s) + 1 :
    TokenAt(s, j) # "blank" /\ \A k \in i..j - 1 : s[k] = "blank"

Strtol(s, i) ==
  LET b == SkipBlanks(s, i)
      n == IF TokenAt(s, b) \in {"+", "-"} THEN b + 1 ELSE b
  IN  IF TokenAt(s, n) \in Digits
      THEN [value |-> IF TokenAt(s, b) = "-" THEN Negative(Number[s[n]])
                      ELSE Number[s[n]],
            end |-> n + 1]
      ELSE [value |-> Number["0"], end |-> i]

validate_ip(ip) == FALSE

BugZeroIsAPort(port) == port >= 0 /\ port <= 65535

validate_port(port) == port > 0 /\ port <= 65535

(* The port follows the first ":", wherever that is.                       *)
PortIsValid(s, port_start) ==
  LET port == Strtol(s, port_start + 1)
  IN  /\ AtEnd(s, port.end) \/ s[port.end] = "/"
      /\ validate_port(port.value.lower)    \* (int)port

(* The host ends before the first ":", wherever that is, and else before   *)
(* the first "/".                                                          *)
HostOf(url) ==
  LET port_start == StrChr(url, ":", 2)
      path_start == StrChr(url, "/", 2)
      host_end   == IF port_start # 0 THEN port_start
                    ELSE IF path_start # 0 THEN path_start ELSE Len(url) + 1
  IN  SubSeq(url, 2, host_end - 1)

(* char host[256]                                                          *)
FitsHost(host) == Chars(host) < 256

(* is_valid_websocket_url.  validate_ip is a stub that accepts nothing, so *)
(* an address in brackets is refused whether or not it is closed and fits  *)
(* its buffer.                                                             *)
is_valid_websocket_url(url) ==
  LET host_start == 2
      port_start == StrChr(url, ":", host_start)
      host       == HostOf(url)
  IN  /\ TokenAt(url, 1) \in Schemes
      /\ ~AtEnd(url, host_start)
      /\ url[host_start] = "["
           => StrChr(url, "]", host_start) # 0 /\ validate_ip(host)
      /\ FitsHost(host)
      /\ validate_ip(host) \/ \A i \in 1..Len(host) : host[i] \in HostTokens
      /\ port_start # 0 => PortIsValid(url, port_start)

-----------------------------------------------------------------------------
(* What its comment promises: a scheme, a host, a port in 1..65535 if one  *)
(* is present, and a path if one is present.                               *)
IsHost(s) == s # <<>> /\ \A i \in 1..Len(s) : s[i] \in HostTokens
IsPort(s) ==
  /\ Len(s) = 1 /\ s[1] \in Digits
  /\ LET port == Number[s[1]]
     IN  port.upper = 0 /\ port.lower >= 1 /\ port.lower <= 65535
IsPath(s) == s = <<>> \/ s[1] = "/"

WellFormed(url) ==
  /\ url # <<>> /\ url[1] \in Schemes
  /\ \E h \in 1..Len(url) : \E p \in h..Len(url) :
       /\ IsHost(SubSeq(url, 2, h))
       /\ \/ p = h
          \/ TokenAt(url, h + 1) = ":" /\ IsPort(SubSeq(url, h + 2, p))
       /\ IsPath(SubSeq(url, p + 1, Len(url)))

(* The code agrees with that unless the host is empty (accepted) or longer *)
(* than 255 characters (refused), a colon stands in the path (refused), or *)
(* the port has white space or a plus sign before it (accepted) or does    *)
(* not fit into an int (its lower half is tested).                         *)
Plain(url) ==
  LET port == StrChr(url, ":", 2)
      path == StrChr(url, "/", 2)
  IN  /\ TokenAt(url, 2) \notin {":", "/"}
      /\ FitsHost(HostOf(url))
      /\ path # 0 => StrChr(url, ":", path) = 0
      /\ port # 0 => TokenAt(url, port + 1) \notin {"blank", "+"}
      /\ \A i \in 1..Len(url) : url[i] \in Digits => Number[url[i]].upper = 0

AgreesOn(url) == Plain(url) => (is_valid_websocket_url(url) <=> WellFormed(url))
=============================================================================
