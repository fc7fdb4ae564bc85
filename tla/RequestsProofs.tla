--------------------------- MODULE RequestsProofs ---------------------------
(***************************************************************************)
(* What the guards of Requests guarantee for any host names and ports that *)
(* a URL may have.                                                         *)
(*                                                                         *)
(* The heart of it is about text: _host_without_port finds the name that   *)
(* the client meant, so that what the guard compares with its list, and    *)
(* what same_origin_only compares, is the name and nothing longer.         *)
(***************************************************************************)
EXTENDS Requests, SequenceTheorems, TLAPS

\* The provers do not know that a literal is a string.
Words == STRING \cup {"localhost"}

Texts == Seq(Words)

LEMMA StringsAreWords ==
  ASSUME NEW text \in Seq(STRING)
  PROVE  text \in Texts
  <1>1. Len(text) \in Nat /\ DOMAIN text = 1 .. Len(text)
    OBVIOUS
  <1>2. \A i \in 1 .. Len(text) : text[i] \in Words
    BY DEF Words
  <1> QED
    BY <1>1, <1>2 DEF Texts

-----------------------------------------------------------------------------
(* First and last marks.                                                   *)

LEMMA MinIs ==
  ASSUME NEW S \in SUBSET Int, NEW n \in S, \A i \in S : n <= i
  PROVE  Min(S) = n
  <1>1. \A m \in S : (\A i \in S : m <= i) => m = n
    OBVIOUS
  <1> QED
    BY <1>1 DEF Min

LEMMA MaxIs ==
  ASSUME NEW S \in SUBSET Int, NEW n \in S, \A i \in S : n >= i
  PROVE  Max(S) = n
  <1>1. \A m \in S : (\A i \in S : m >= i) => m = n
    OBVIOUS
  <1> QED
    BY <1>1 DEF Max

LEMMA FirstBracket ==
  ASSUME NEW text \in Texts, NEW n \in 1 .. Len(text), text[n] = "]",
         \A i \in 1 .. n - 1 : text[i] # "]"
  PROVE  SelectInSeq(text, LAMBDA t : t = "]") = n
  <1> DEFINE I == {i \in 1 .. Len(text) : text[i] = "]"}
  <1>1. n \in I /\ (\A i \in I : n <= i) /\ I \in SUBSET Int
    BY DEF Texts
  <1>2. Min(I) = n
    <2> HIDE DEF I
    <2> QED
      BY <1>1, MinIs
  <1> QED
    BY <1>1, <1>2 DEF SelectInSeq

LEMMA LastColon ==
  ASSUME NEW text \in Texts, NEW n \in 1 .. Len(text), text[n] = ":",
         \A i \in n + 1 .. Len(text) : text[i] # ":"
  PROVE  SelectLastInSeq(text, LAMBDA t : t = ":") = n
  <1> DEFINE I == {i \in 1 .. Len(text) : text[i] = ":"}
  <1>1. n \in I /\ (\A i \in I : n >= i) /\ I \in SUBSET Int
    BY DEF Texts
  <1>2. Max(I) = n
    <2> HIDE DEF I
    <2> QED
      BY <1>1, MaxIs
  <1> QED
    BY <1>1, <1>2 DEF SelectLastInSeq

LEMMA NoColon ==
  ASSUME NEW text \in Texts, \A i \in 1 .. Len(text) : text[i] # ":"
  PROVE  SelectLastInSeq(text, LAMBDA t : t = ":") = 0
  BY DEF SelectLastInSeq

-----------------------------------------------------------------------------
(* The text of an address, and what is parsed out of it.                   *)

LEMMA LowerText ==
  ASSUME NEW text \in Texts
  PROVE  /\ Lower(text) \in Texts /\ Len(Lower(text)) = Len(text) /\ Len(text) \in Nat
         /\ \A i \in 1 .. Len(text) :
              Lower(text)[i] = IF text[i] = "LOCALHOST" THEN "localhost" ELSE text[i]
  <1>1. Lower(text) =
          [i \in 1 .. Len(text) |-> IF text[i] = "LOCALHOST" THEN "localhost" ELSE text[i]]
    BY DEF Lower, Texts
  <1>2. Len(text) \in Nat
    BY DEF Texts
  <1>3. "localhost" \in Words
    BY DEF Words
  <1>4. ASSUME NEW i \in 1 .. Len(text)
        PROVE  (IF text[i] = "LOCALHOST" THEN "localhost" ELSE text[i]) \in Words
    <2>1. text[i] \in Words
      BY DEF Texts
    <2> QED
      BY <1>3, <2>1, Zenon
  <1> QED
    BY <1>1, <1>2, <1>4 DEF Texts

\* A name and what follows it.
LEMMA Joined ==
  ASSUME NEW name \in Texts, NEW port \in Texts
  PROVE  /\ name \o port \in Texts
         /\ Len(name) \in Nat /\ Len(port) \in Nat
         /\ Len(name \o port) = Len(name) + Len(port)
         /\ \A i \in 1 .. Len(name) : (name \o port)[i] = name[i]
         /\ \A i \in 1 .. Len(port) : (name \o port)[Len(name) + i] = port[i]
  <1>1. Len(name) \in Nat /\ Len(port) \in Nat
    BY DEF Texts
  <1>2. /\ name \o port \in Texts
        /\ Len(name \o port) = Len(name) + Len(port)
        /\ \A i \in 1 .. Len(name) + Len(port) :
             (name \o port)[i] = IF i <= Len(name) THEN name[i] ELSE port[i - Len(name)]
    BY ConcatProperties DEF Texts
  <1>3. \A i \in 1 .. Len(name) : (name \o port)[i] = name[i]
    BY <1>1, <1>2
  <1>4. \A i \in 1 .. Len(port) : (name \o port)[Len(name) + i] = port[i]
    BY <1>1, <1>2
  <1> QED
    BY <1>1, <1>2, <1>3, <1>4

\* Two texts of the same length are the same if their words are.
LEMMA SameText ==
  ASSUME NEW s \in Texts, NEW t \in Texts, Len(s) = Len(t), \A i \in 1 .. Len(s) : s[i] = t[i]
  PROVE  s = t
  BY SeqEqual DEF Texts

\* What follows a name is known from the whole.
LEMMA RestIsKnown ==
  ASSUME NEW name \in Texts, NEW p \in Texts, NEW q \in Texts, name \o p = name \o q
  PROVE  p = q
  BY ConcatSimplifications DEF Texts

\* Small letters are made word by word.
LEMMA LowerOfName ==
  ASSUME NEW name \in Texts, NEW port \in Texts
  PROVE  LET text == Lower(name \o port) IN
           /\ text \in Texts
           /\ Len(name) \in Nat /\ Len(port) \in Nat /\ Len(text) = Len(name) + Len(port)
           /\ SubSeq(text, 1, Len(name)) = Lower(name)
           /\ \A i \in 1 .. Len(name) :
                text[i] = IF name[i] = "LOCALHOST" THEN "localhost" ELSE name[i]
           /\ \A i \in 1 .. Len(port) :
                text[Len(name) + i] = IF port[i] = "LOCALHOST" THEN "localhost" ELSE port[i]
  <1> DEFINE whole == name \o port
             text == Lower(whole)
             n == Len(name)
  <1>1. /\ whole \in Texts /\ n \in Nat /\ Len(port) \in Nat /\ Len(whole) = n + Len(port)
        /\ \A i \in 1 .. n : whole[i] = name[i]
        /\ \A i \in 1 .. Len(port) : whole[n + i] = port[i]
    BY Joined
  <1>2. /\ Lower(name) \in Texts /\ Len(Lower(name)) = n
        /\ \A i \in 1 .. n : Lower(name)[i] = IF name[i] = "LOCALHOST" THEN "localhost" ELSE name[i]
    BY LowerText
  <1> HIDE DEF whole, n
  <1>3. /\ text \in Texts /\ Len(text) = n + Len(port)
        /\ \A i \in 1 .. n + Len(port) :
             text[i] = IF whole[i] = "LOCALHOST" THEN "localhost" ELSE whole[i]
    BY <1>1, LowerText
  <1> HIDE DEF text
  <1>4. \A i \in 1 .. n : text[i] = IF name[i] = "LOCALHOST" THEN "localhost" ELSE name[i]
    <2> TAKE i \in 1 .. n
    <2>1. i \in 1 .. n + Len(port)
      BY <1>1
    <2> QED
      BY <1>1, <1>3, <2>1
  <1>5. \A i \in 1 .. Len(port) :
          text[n + i] = IF port[i] = "LOCALHOST" THEN "localhost" ELSE port[i]
    <2> TAKE i \in 1 .. Len(port)
    <2>1. n + i \in 1 .. n + Len(port)
      BY <1>1
    <2> QED
      BY <1>1, <1>3, <2>1
  <1>6. SubSeq(text, 1, n) = Lower(name)
    <2>1. n <= Len(text)
      BY <1>1, <1>3
    <2>2. /\ SubSeq(text, 1, n) \in Texts /\ Len(SubSeq(text, 1, n)) = n
          /\ \A i \in 1 .. n : SubSeq(text, 1, n)[i] = text[i]
      BY <1>1, <1>3, <2>1 DEF Texts
    <2>3. \A i \in 1 .. n : SubSeq(text, 1, n)[i] = Lower(name)[i]
      BY <1>2, <1>4, <2>2
    <2> QED
      BY <1>2, <2>2, <2>3, SameText
  <1> QED
    BY <1>1, <1>3, <1>4, <1>5, <1>6 DEF text, whole, n

\* _host_without_port gives back the name, in small letters, whatever the port.
LEMMA NameIsFound ==
  ASSUME NEW name \in Texts, NEW port \in Texts, name # << >>,
         IsWords(name) \/ IsBracketed(name), IsPort(port)
  PROVE  HostWithoutPort(name \o port) = Lower(name)
  <1> DEFINE text == Lower(name \o port)
             n == Len(name)
  <1>1. /\ text \in Texts /\ n \in Nat /\ Len(port) \in Nat /\ Len(text) = n + Len(port)
        /\ SubSeq(text, 1, n) = Lower(name)
        /\ \A i \in 1 .. n : text[i] = IF name[i] = "LOCALHOST" THEN "localhost" ELSE name[i]
        /\ \A i \in 1 .. Len(port) :
             text[n + i] = IF port[i] = "LOCALHOST" THEN "localhost" ELSE port[i]
    BY LowerOfName
  <1>2. n > 0
    BY DEF Texts
  <1>3. HostWithoutPort(name \o port) =
          LET end   == SelectInSeq(text, LAMBDA t : t = "]")
              colon == SelectLastInSeq(text, LAMBDA t : t = ":")
              cut   == IF text[1] = "[" THEN end ELSE IF colon = 0 THEN 0 ELSE colon - 1 IN
            IF cut = 0 THEN text ELSE SubSeq(text, 1, cut)
    BY DEF HostWithoutPort
  <1>4. IsBracketed(name) => name[1] = "[" /\ name[n] = "]" /\ \A i \in 1 .. n - 1 : name[i] # "]"
    BY DEF IsBracketed
  <1>5. IsWords(name) => \A i \in 1 .. n : name[i] # "[" /\ name[i] # ":"
    BY DEF IsWords, Marks
  <1> HIDE DEF text, n
  <1>6. CASE IsBracketed(name)
    <2>1. 1 \in 1 .. n /\ n \in 1 .. n /\ n \in 1 .. Len(text)
      BY <1>1, <1>2
    <2>2. text[1] = "[" /\ text[n] = "]"
      BY <1>1, <1>4, <1>6, <2>1
    <2>3. \A i \in 1 .. n - 1 : text[i] # "]"
      <3> TAKE i \in 1 .. n - 1
      <3>1. i \in 1 .. n
        BY <1>1
      <3> QED
        BY <1>1, <1>4, <1>6, <3>1
    <2>4. SelectInSeq(text, LAMBDA t : t = "]") = n
      BY <1>1, <2>1, <2>2, <2>3, FirstBracket
    <2>5. n # 0
      BY <1>1, <1>2
    <2> QED
      BY <1>1, <1>3, <2>2, <2>4, <2>5
  <1>7. CASE IsWords(name)
    <2>1. \A i \in 1 .. n : text[i] # "[" /\ text[i] # ":"
      BY <1>1, <1>5, <1>7
    <2>2. text[1] # "["
      <3>1. 1 \in 1 .. n
        BY <1>1, <1>2
      <3> QED
        BY <2>1, <3>1
    <2>3. CASE port = << >>
      <3>1. Len(text) = n
        BY <1>1, <2>3
      <3>2. SelectLastInSeq(text, LAMBDA t : t = ":") = 0
        BY <1>1, <2>1, <3>1, NoColon
      <3>3. SubSeq(text, 1, n) = text
        <4>1. SubSeq(text, 1, Len(text)) = text
          BY <1>1 DEF Texts
        <4> QED
          BY <3>1, <4>1
      <3> QED
        BY <1>1, <1>3, <2>2, <3>2, <3>3
    <2>4. CASE port # << >>
      <3>1. Len(port) = 2 /\ port[1] = ":" /\ port[2] # ":"
        BY <2>4 DEF IsPort, Marks
      <3>2. /\ Len(text) = n + 2 /\ n + 1 \in 1 .. Len(text)
            /\ text[n + 1] = ":" /\ text[n + 2] # ":"
        <4>1. 1 \in 1 .. Len(port) /\ 2 \in 1 .. Len(port)
          BY <3>1
        <4>2. text[n + 1] = ":" /\ text[n + 2] # ":"
          BY <1>1, <3>1, <4>1
        <4> QED
          BY <1>1, <3>1, <4>2
      <3>3. \A i \in n + 1 + 1 .. Len(text) : text[i] # ":"
        <4> TAKE i \in n + 1 + 1 .. Len(text)
        <4>1. i = n + 2
          BY <1>1, <3>2
        <4> QED
          BY <3>2, <4>1
      <3>4. SelectLastInSeq(text, LAMBDA t : t = ":") = n + 1
        BY <1>1, <3>2, <3>3, LastColon
      <3>5. n + 1 # 0 /\ n + 1 - 1 = n /\ n # 0
        BY <1>1, <1>2
      <3> QED
        BY <1>1, <1>3, <2>2, <3>4, <3>5
    <2> QED
      BY <2>3, <2>4
  <1> QED
    BY <1>6, <1>7

LEMMA AddressParts ==
  ASSUME NEW a \in Addresses
  PROVE  /\ a.name \in Names /\ a.name \in Texts /\ a.name # << >> /\ a.port \in Texts
         /\ Text(a) = a.name \o a.port
         /\ HostWithoutPort(Text(a)) = Lower(a.name)
         /\ a = [name |-> a.name, port |-> a.port]
  <1>1. /\ a.name \in Names /\ a.port \in Ports
        /\ a = [name |-> a.name, port |-> a.port]
    BY DEF Addresses
  <1>2. /\ a.name \in Texts /\ a.name # << >> /\ a.port \in Texts
        /\ IsPort(a.port)
    BY <1>1, NamesAssumption, StringsAreWords
  <1>3. IsWords(a.name) \/ IsBracketed(a.name)
    BY <1>1, NamesAssumption
  <1> QED
    BY <1>1, <1>2, <1>3, NameIsFound DEF Text

\* The guard lets an address through exactly when its name is this machine's.
LEMMA LocalMeansLoopback ==
  ASSUME NEW a \in Addresses
  PROVE  /\ Text(a) # Nothing
         /\ IsLocalHost(Text(a)) <=> a.name \in Loopback
  <1> DEFINE name == a.name
             port == a.port
  <1>1. /\ name \in Names /\ name \in Texts /\ name # << >> /\ port \in Texts
        /\ Text(a) = name \o port
        /\ HostWithoutPort(Text(a)) = Lower(name)
    BY AddressParts
  <1> HIDE DEF name, port
  <1>2. Text(a) # Nothing
    <2>1. Len(name) > 0 /\ Len(name) \in Nat
      BY <1>1 DEF Texts
    <2>2. Len(name \o port) = Len(name) + Len(port) /\ Len(port) \in Nat
      BY <1>1, Joined
    <2>3. Len(name \o port) # 0
      BY <2>1, <2>2
    <2> QED
      BY <1>1, <2>3 DEF Nothing
  <1>3. IsLocalHost(Text(a)) <=> Lower(name) \in ALLOWED_HOSTS
    BY <1>1, <1>2 DEF IsLocalHost
  <1>4. name \in Loopback <=> Lower(name) \in ALLOWED_HOSTS
    BY <1>1, LoopbackAssumption DEF ALLOWED_HOSTS
  <1> QED
    BY <1>2, <1>3, <1>4 DEF name

\* Browsers spell a site in one way only: two with the same text are the same.
LEMMA SitesAreTexts ==
  ASSUME NEW a \in Sites, NEW b \in Sites, Text(a) = Text(b)
  PROVE  a = b
  <1>1. a \in Addresses /\ b \in Addresses /\ Lower(Text(a)) = Text(a) /\ Lower(Text(b)) = Text(b)
    BY DEF Sites
  <1>2. ASSUME NEW name \in Texts, NEW port \in Texts, Lower(name \o port) = name \o port
        PROVE  Lower(name) = name
    <2>1. SubSeq(Lower(name \o port), 1, Len(name)) = Lower(name)
      BY LowerOfName
    <2>2. SubSeq(name \o port, 1, Len(name)) = name
      BY ConcatSimplifications DEF Texts
    <2> QED
      BY <1>2, <2>1, <2>2
  <1>3. a.name = b.name
    BY <1>1, <1>2, AddressParts
  <1>4. a.port = b.port
    <2>1. /\ a.name \in Texts /\ a.port \in Texts /\ b.port \in Texts
          /\ a.name \o a.port = b.name \o b.port
      BY <1>1, AddressParts
    <2>2. a.name \o a.port = a.name \o b.port
      BY <1>3, <2>1
    <2> QED
      BY <2>1, <2>2, RestIsKnown
  <1> QED
    BY <1>1, <1>3, <1>4, AddressParts

-----------------------------------------------------------------------------
(* The requests there are.                                                 *)

\* What the sender decides about the browser's headers.
Signed(r) ==
  \/ r.sender = "script" /\ r.fetchSite = "absent" /\ r.origin = Nothing
  \/ r.sender = "user" /\ r.fetchSite = "none" /\ r.origin = Nothing
  \/ /\ r.sender = "page" /\ r.from \in Sites /\ r.to \in Sites
     /\ \/ /\ r.origin = OriginOf(r.from)
           /\ r.fetchSite \in {"absent", SiteOf(r.from, r.to)}
        \/ r.method = "GET" /\ r.fetchSite = SiteOf(r.from, r.to) /\ r.origin = Nothing
  \/ r.sender = "frame" /\ r.origin = <<"null">>

Arrived(r) ==
  /\ r.to \in Addresses
  /\ r.type \in {"http", "websocket", "lifespan"}
  /\ r.host \in {Nothing, Text(r.to)}
  /\ Signed(r)
  /\ r.type = "lifespan" => r.host = Nothing

LEMMA RequestsArrive == Init => Arrived(request)
  <1> SUFFICES ASSUME Init PROVE Arrived(request)
    OBVIOUS
  <1>1. ASSUME NEW r \in FromScripts
        PROVE  /\ Arrived(r) /\ r.sender = "script"
               /\ r.fetchSite = "absent" /\ r.origin = Nothing
               /\ r \in [type : {"http"}, sender : {"script"}, from : Addresses, to : Addresses,
                         method : {"GET", "POST"}, path : Paths, host : {Text(r.to)},
                         fetchSite : {"absent"}, origin : {Nothing}]
    BY DEF FromScripts, Request, Arrived, Signed
  <1>2. ASSUME NEW r \in FromAddressBar
        PROVE  /\ Arrived(r) /\ r.sender = "user"
               /\ r.fetchSite = "none" /\ r.origin = Nothing
               /\ r \in [type : {"http"}, sender : {"user"}, from : Addresses, to : Addresses,
                         method : {"GET"}, path : Paths, host : {Text(r.to)},
                         fetchSite : {"none"}, origin : {Nothing}]
    BY DEF FromAddressBar, Request, Arrived, Signed
  <1>3. ASSUME NEW r \in FromPages PROVE Arrived(r)
    <2>1. PICK from \in Sites, to \in Sites, path \in Paths :
            \/ \E site \in {"absent", SiteOf(from, to)} :
                 r = Request("page", from, to, "POST", path, site, OriginOf(from))
            \/ \E site \in {"absent", "cross-site"} :
                 r = Request("frame", from, to, "POST", path, site, <<"null">>)
            \/ r = Request("page", from, to, "GET", path, SiteOf(from, to), Nothing)
      BY DEF FromPages
    <2>2. to \in Addresses
      BY DEF Sites
    <2>3. ASSUME NEW site \in {"absent", SiteOf(from, to)},
                 r = Request("page", from, to, "POST", path, site, OriginOf(from))
          PROVE  Arrived(r)
      BY <2>2, <2>3 DEF Request, Arrived, Signed
    <2>4. ASSUME NEW site \in {"absent", "cross-site"},
                 r = Request("frame", from, to, "POST", path, site, <<"null">>)
          PROVE  Arrived(r)
      BY <2>2, <2>4 DEF Request, Arrived, Signed
    <2>5. CASE r = Request("page", from, to, "GET", path, SiteOf(from, to), Nothing)
      BY <2>2, <2>5 DEF Request, Arrived, Signed
    <2> QED
      BY <2>1, <2>3, <2>4, <2>5
  <1>4. ASSUME NEW r \in Others PROVE Arrived(r)
    <2>1. CASE \E q \in FromAddressBar : r = [q EXCEPT !.type = "websocket"]
      BY <1>2, <2>1 DEF Arrived, Signed
    <2>2. CASE \E q \in FromScripts : r = [q EXCEPT !.host = Nothing]
      BY <1>1, <2>2 DEF Arrived, Signed
    <2>3. CASE \E q \in FromScripts : r = [q EXCEPT !.host = Nothing, !.type = "lifespan"]
      BY <1>1, <2>3 DEF Arrived, Signed
    <2> QED
      BY <2>1, <2>2, <2>3 DEF Others
  <1> QED
    BY <1>1, <1>2, <1>3, <1>4 DEF Init

-----------------------------------------------------------------------------
(* The way of a request.                                                   *)

Message(by, status) == [by |-> by, status |-> status]

\* The answer it has when it is through.
Answer ==
  IF Refused
  THEN IF request.type = "websocket" THEN <<Message("wrapper", 0)>>
       ELSE <<Message("wrapper", 403), Message("wrapper", 0)>>
  ELSE IF Routed THEN <<Message("app", Status), Message("app", 0)>>
  ELSE IF request.type = "http" THEN <<Message("app", 200), Message("app", 0)>>
  ELSE <<Message("app", 0)>>

\* The inductive invariant.
Way ==
  /\ Arrived(request)
  /\ at \in {"wrapper", "refusing", "app", "guard", "done"}
  /\ at \in {"wrapper", "app", "guard"} => sent = << >>
  /\ at = "refusing" => /\ Refused /\ request.type # "websocket"
                        /\ sent = <<Message("wrapper", 403)>>
  /\ at \in {"app", "guard"} => ~ Refused
  /\ at = "guard" => Routed
  /\ at = "done" => sent = Answer
  /\ acted <=> at = "done" /\ ~ Refused /\ Routed /\ Status = 200

LEMMA SendOne ==
  ASSUME NEW by, NEW status, SendBy(by, <<status>>)
  PROVE  sent' = sent \o <<Message(by, status)>>
  <1>1. [i \in DOMAIN <<status>> |-> [by |-> by, status |-> <<status>>[i]]]
          = <<Message(by, status)>>
    BY DEF Message
  <1> QED
    BY <1>1 DEF SendBy

LEMMA SendTwo ==
  ASSUME NEW by, NEW first, NEW second, SendBy(by, <<first, second>>)
  PROVE  sent' = sent \o <<Message(by, first), Message(by, second)>>
  <1>1. [i \in DOMAIN <<first, second>> |-> [by |-> by, status |-> <<first, second>>[i]]]
          = <<Message(by, first), Message(by, second)>>
    BY DEF Message
  <1> QED
    BY <1>1 DEF SendBy

LEMMA PairOfTwo == \A m, n : <<m>> \o <<n>> = <<m, n>>
  <1> TAKE m, n
  <1>1. <<m>> \in Seq({m, n}) /\ <<n>> \in Seq({m, n}) /\ <<m, n>> \in Seq({m, n})
    OBVIOUS
  <1>2. /\ Len(<<m>>) = 1 /\ Len(<<n>>) = 1 /\ Len(<<m, n>>) = 2
        /\ <<m>>[1] = m /\ <<n>>[1] = n /\ <<m, n>>[1] = m /\ <<m, n>>[2] = n
    OBVIOUS
  <1>3. /\ <<m>> \o <<n>> \in Seq({m, n}) /\ Len(<<m>> \o <<n>>) = 1 + 1
        /\ \A i \in 1 .. 1 + 1 : (<<m>> \o <<n>>)[i] = IF i <= 1 THEN <<m>>[i] ELSE <<n>>[i - 1]
    BY <1>1, <1>2, ConcatProperties
  <1>4. /\ 1 \in 1 .. 1 + 1 /\ 2 \in 1 .. 1 + 1 /\ 1 + 1 = 2 /\ 2 - 1 = 1 /\ ~ 2 <= 1
        /\ \A i \in 1 .. 2 : i = 1 \/ i = 2
    OBVIOUS
  <1>5. (<<m>> \o <<n>>)[1] = m /\ (<<m>> \o <<n>>)[2] = n
    BY <1>2, <1>3, <1>4
  <1> DEFINE joined == <<m>> \o <<n>>
             pair   == <<m, n>>
  <1>6. joined \in Seq({m, n}) /\ pair \in Seq({m, n}) /\ Len(joined) = Len(pair)
    BY <1>1, <1>2, <1>3, <1>4
  <1>7. \A i \in 1 .. Len(joined) : joined[i] = pair[i]
    BY <1>2, <1>3, <1>4, <1>5
  <1> HIDE DEF joined, pair
  <1>8. joined = pair
    BY <1>6, <1>7, SeqEqual
  <1> QED
    BY <1>8 DEF joined, pair

LEMMA WayInit == Init => Way
  <1> SUFFICES ASSUME Init PROVE Way
    OBVIOUS
  <1> QED
    BY RequestsArrive DEF Init, Way

LEMMA WayNext == Way /\ [Next]_vars => Way'
  <1> SUFFICES ASSUME Way, [Next]_vars PROVE Way'
    OBVIOUS
  <1>same. ASSUME request' = request
           PROVE  /\ Arrived(request)' /\ (Refused' <=> Refused) /\ (Routed' <=> Routed)
                  /\ Status' = Status /\ Answer' = Answer
    BY <1>same DEF Way, Refused, Routed, Status, Answer, IsSameOrigin, Arrived, Signed
  <1>1. CASE RefuseWebsocket
    <2>1. sent' = << >> \o <<Message("wrapper", 0)>>
      BY <1>1, SendOne DEF RefuseWebsocket, Way
    <2>2. sent' = Answer
      BY <1>1, <2>1 DEF RefuseWebsocket, Answer
    <2> QED
      BY <1>1, <1>same, <2>2 DEF RefuseWebsocket, Way
  <1>2. CASE RefuseStart
    <2>1. sent' = << >> \o <<Message("wrapper", 403)>>
      BY <1>2, SendOne DEF RefuseStart, Way
    <2>2. sent' = <<Message("wrapper", 403)>>
      BY <2>1
    <2> QED
      BY <1>2, <1>same, <2>2 DEF RefuseStart, Way
  <1>3. CASE RefuseBody
    <2>1. sent' = <<Message("wrapper", 403)>> \o <<Message("wrapper", 0)>>
      BY <1>3, SendOne DEF RefuseBody, Way
    <2>2. sent' = Answer
      <3>1. Answer = <<Message("wrapper", 403), Message("wrapper", 0)>>
        BY <1>3 DEF RefuseBody, Way, Answer
      <3>2. sent' = <<Message("wrapper", 403), Message("wrapper", 0)>>
        BY <2>1, PairOfTwo, Zenon
      <3> QED
        BY <3>1, <3>2
    <2> QED
      BY <1>3, <1>same, <2>2 DEF RefuseBody, Way
  <1>4. CASE Pass
    BY <1>4, <1>same DEF Pass, Way
  <1>5. CASE Route
    BY <1>5, <1>same DEF Route, Way
  <1>6. CASE Datasette
    <2>1. sent' = Answer
      <3>1. CASE request.type = "http"
        <4>1. sent' = << >> \o <<Message("app", 200), Message("app", 0)>>
          BY <1>6, <3>1, SendTwo DEF Datasette, Way
        <4> QED
          BY <1>6, <3>1, <4>1 DEF Datasette, Way, Answer
      <3>2. CASE request.type # "http"
        <4>1. sent' = << >> \o <<Message("app", 0)>>
          BY <1>6, <3>2, SendOne DEF Datasette, Way
        <4> QED
          BY <1>6, <3>2, <4>1 DEF Datasette, Way, Answer
      <3> QED
        BY <3>1, <3>2
    <2> QED
      BY <1>6, <1>same, <2>1 DEF Datasette, Way
  <1>7. CASE Handle
    <2>1. sent' = << >> \o <<Message("app", Status), Message("app", 0)>>
      BY <1>7, SendTwo DEF Handle, Way
    <2>2. sent' = Answer
      BY <1>7, <2>1 DEF Handle, Way, Answer
    <2> QED
      BY <1>7, <1>same, <2>2 DEF Handle, Way
  <1>8. CASE UNCHANGED vars
    BY <1>8, <1>same DEF vars, Way
  <1> QED
    BY <1>1, <1>2, <1>3, <1>4, <1>5, <1>6, <1>7, <1>8 DEF Next

LEMMA WayInvariance == Spec => []Way
  BY WayInit, WayNext, PTL DEF Spec

-----------------------------------------------------------------------------
(* What follows.                                                           *)

\* A call is answered once, by the wrapper or by the app (_local_host_only).
THEOREM CallsAreAnsweredOnce == Spec => []AnsweredOnce
  <1>1. Way => AnsweredOnce
    <2> SUFFICES ASSUME Way PROVE AnsweredOnce
      OBVIOUS
    <2>1. \/ sent = << >> /\ at # "done"
          \/ at # "done" /\ \E m : sent = <<m>>
          \/ at = "done" /\ sent = Answer
      BY DEF Way
    <2>2. CASE sent = << >> /\ at # "done"
      BY <2>2 DEF AnsweredOnce
    <2>3. ASSUME at # "done", NEW m, sent = <<m>> PROVE AnsweredOnce
      BY <2>3 DEF AnsweredOnce
    <2>4. CASE at = "done" /\ sent = Answer
      <3>1. \/ /\ request.type = "http"
               /\ \E m, n : sent = <<m, n>> /\ m.by = n.by
            \/ request.type # "http" /\ \E m : sent = <<m>>
        <4>1. CASE Refused /\ request.type = "websocket"
          BY <2>4, <4>1 DEF Answer
        <4>2. CASE Refused /\ request.type # "websocket"
          <5>1. request.type = "http"
            BY <4>2 DEF Refused
          <5>2. sent = <<Message("wrapper", 403), Message("wrapper", 0)>>
            BY <2>4, <4>2 DEF Answer
          <5>3. Message("wrapper", 403).by = Message("wrapper", 0).by
            BY DEF Message
          <5> QED
            BY <5>1, <5>2, <5>3
        <4>3. CASE ~ Refused /\ Routed
          <5>1. sent = <<Message("app", Status), Message("app", 0)>> /\ request.type = "http"
            BY <2>4, <4>3 DEF Answer, Routed
          <5>2. Message("app", Status).by = Message("app", 0).by
            BY DEF Message
          <5> QED
            BY <5>1, <5>2
        <4>4. CASE ~ Refused /\ ~ Routed /\ request.type = "http"
          <5>1. sent = <<Message("app", 200), Message("app", 0)>>
            BY <2>4, <4>4 DEF Answer
          <5>2. Message("app", 200).by = Message("app", 0).by
            BY DEF Message
          <5> QED
            BY <4>4, <5>1, <5>2
        <4>5. CASE ~ Refused /\ ~ Routed /\ request.type # "http"
          BY <2>4, <4>5 DEF Answer
        <4> QED
          BY <4>1, <4>2, <4>3, <4>4, <4>5
      <3>2. ASSUME request.type = "http", NEW m, NEW n, sent = <<m, n>>, m.by = n.by
            PROVE  AnsweredOnce
        <4>1. Len(sent) = 2 /\ DOMAIN sent = {1, 2} /\ sent[1] = m /\ sent[2] = n
          BY <3>2
        <4> QED
          BY <3>2, <4>1 DEF AnsweredOnce
      <3>3. ASSUME request.type # "http", NEW m, sent = <<m>>
            PROVE  AnsweredOnce
        BY <3>3 DEF AnsweredOnce
      <3> QED
        BY <3>1, <3>2, <3>3
    <2> QED
      BY <2>1, <2>2, <2>3, <2>4
  <1> QED
    BY <1>1, WayInvariance, PTL

\* Nothing the app says reaches a client that called this machine by another
\* name, however the Host is spelled and whatever port follows
\* (_host_without_port).
THEOREM OnlyLocalNamesGetAnswers == Spec => []OnlyLocalNamesAreAnswered
  <1>1. Way => OnlyLocalNamesAreAnswered
    <2> SUFFICES ASSUME Way, request.type # "lifespan",
                        NEW i \in DOMAIN sent, sent[i].by = "app"
                 PROVE  request.host # Nothing /\ request.to.name \in Loopback
      BY DEF OnlyLocalNamesAreAnswered
    <2>1. ~ Refused
      <3>1. CASE at = "done"
        <4> SUFFICES ASSUME Refused PROVE FALSE
          OBVIOUS
        <4>1. \/ sent = <<Message("wrapper", 0)>>
              \/ sent = <<Message("wrapper", 403), Message("wrapper", 0)>>
          BY <3>1 DEF Way, Answer
        <4>2. sent[i].by = "wrapper"
          BY <4>1 DEF Message
        <4> QED
          BY <4>2
      <3>2. CASE at = "refusing"
        <4>1. sent = <<Message("wrapper", 403)>>
          BY <3>2 DEF Way
        <4> QED
          BY <4>1 DEF Message
      <3>3. CASE at \in {"wrapper", "app", "guard"}
        BY <3>3 DEF Way
      <3> QED
        BY <3>1, <3>2, <3>3 DEF Way
    <2>2. IsLocalHost(request.host) /\ request.host = Text(request.to)
      BY <2>1 DEF Refused, Way, Arrived, IsLocalHost
    <2> QED
      BY <2>2, LocalMeansLoopback DEF Way, Arrived
  <1> QED
    BY <1>1, WayInvariance, PTL

LEMMA OriginText ==
  ASSUME NEW a \in Sites
  PROVE  /\ OriginOf(a) # Nothing
         /\ Lower(NetLoc(OriginOf(a))) = Text(a)
  <1>1. /\ a \in Addresses /\ Lower(Text(a)) = Text(a)
    BY DEF Sites
  <1>2. Text(a) \in Texts
    BY <1>1, AddressParts, Joined
  <1> DEFINE text == Text(a)
  <1>3. ASSUME NEW t \in Texts
        PROVE  /\ <<"http://">> \o t # << >>
               /\ (<<"http://">> \o t)[1] = "http://"
               /\ Tail(<<"http://">> \o t) = t
    <2>1. Len(t) \in Nat
      BY DEF Texts
    <2>2. <<"http://">> \in Seq(Words \cup {"http://"}) /\ t \in Seq(Words \cup {"http://"})
      <3>1. \A k \in 1 .. Len(t) : t[k] \in Words \cup {"http://"}
        BY DEF Texts
      <3>2. DOMAIN t = 1 .. Len(t) /\ t = [k \in 1 .. Len(t) |-> t[k]]
        BY DEF Texts
      <3> QED
        BY <2>1, <3>1, <3>2
    <2>3. /\ Len(<<"http://">> \o t) = 1 + Len(t)
          /\ (<<"http://">> \o t)[1] = "http://"
          /\ \A k \in 1 .. Len(t) : (<<"http://">> \o t)[1 + k] = t[k]
          /\ <<"http://">> \o t \in Seq(Words \cup {"http://"})
      BY <2>1, <2>2
    <2>4. <<"http://">> \o t # << >>
      BY <2>1, <2>3
    <2>5. Tail(<<"http://">> \o t) = t
      <3>1. /\ Tail(<<"http://">> \o t) \in Seq(Words \cup {"http://"})
            /\ Len(Tail(<<"http://">> \o t)) = Len(t)
            /\ \A k \in 1 .. Len(t) : Tail(<<"http://">> \o t)[k] = t[k]
        BY <2>1, <2>3, <2>4
      <3> QED
        BY <2>2, <3>1, SeqEqual
    <2> QED
      BY <2>3, <2>4, <2>5
  <1>4. /\ OriginOf(a) # << >> /\ OriginOf(a)[1] = "http://" /\ Tail(OriginOf(a)) = Text(a)
    BY <1>2, <1>3 DEF OriginOf
  <1> QED
    BY <1>1, <1>4 DEF NetLoc, Nothing

\* A page that is not at home is turned away, and one that is passes
\* (_is_same_origin).
LEMMA PagesAreTold ==
  ASSUME Way, request.sender = "page", request.host = Text(request.to),
         request.method # "GET" \/ request.from = request.to
  PROVE  IsSameOrigin <=> request.from = request.to
  <1> DEFINE from == request.from
             to == request.to
  <1>1. /\ from \in Sites /\ to \in Sites
        /\ \/ /\ request.origin = OriginOf(from)
              /\ request.fetchSite \in {"absent", SiteOf(from, to)}
           \/ /\ request.method = "GET" /\ request.origin = Nothing
              /\ request.fetchSite = SiteOf(from, to)
    BY DEF Way, Arrived, Signed
  <1>2. Lower(Text(to)) = Text(to) /\ Lower(request.host) = Text(to)
    BY <1>1 DEF Sites
  <1>3. OriginOf(from) # Nothing /\ Lower(NetLoc(OriginOf(from))) = Text(from)
    BY <1>1, OriginText
  <1>4. Text(from) = Text(to) => from = to
    BY <1>1, SitesAreTexts
  <1>5. from = to => SiteOf(from, to) = "same-origin"
    BY DEF SiteOf
  <1>6. CASE request.origin = OriginOf(from)
    <2>1. IsSameOrigin => from = to
      BY <1>2, <1>3, <1>4, <1>6 DEF IsSameOrigin
    <2>2. from = to => IsSameOrigin
      BY <1>1, <1>2, <1>3, <1>5, <1>6 DEF IsSameOrigin, TrustedFetchSite
    <2> QED
      BY <2>1, <2>2
  <1>7. CASE request.method = "GET" /\ request.origin = Nothing /\ request.fetchSite = SiteOf(from, to)
    BY <1>5, <1>7 DEF IsSameOrigin, TrustedFetchSite
  <1> QED
    BY <1>1, <1>6, <1>7

\* No page from elsewhere makes a handler run, whatever its site and whatever
\* name it calls this machine by, in any browser (same_origin_only).
THEOREM OnlyOwnClientsEverAct == Spec => []OnlyOwnClientsAct
  <1>1. Way => OnlyOwnClientsAct
    <2> SUFFICES ASSUME Way, acted PROVE AtHome
      BY DEF OnlyOwnClientsAct
    <2>1. ~ Refused /\ Routed /\ IsSameOrigin /\ request.method = "POST"
      BY DEF Way, Status
    <2>2. IsLocalHost(request.host) /\ request.host = Text(request.to)
      BY <2>1 DEF Refused, Routed, Way, Arrived, IsLocalHost
    <2>3. request.to.name \in Loopback
      BY <2>2, LocalMeansLoopback DEF Way, Arrived
    <2>4. CASE request.sender = "page"
      <3>1. request.from = request.to
        BY <2>1, <2>2, <2>4, PagesAreTold
      <3> QED
        BY <2>3, <2>4, <3>1 DEF AtHome
    <2>5. request.sender # "frame"
      <3> SUFFICES ASSUME request.sender = "frame" PROVE FALSE
        OBVIOUS
      <3>1. request.origin = <<"null">>
        BY DEF Way, Arrived, Signed
      <3>2. NetLoc(request.origin) = << >> /\ request.origin # Nothing
        BY <3>1 DEF NetLoc, Nothing
      <3>3. Lower(<< >>) = << >>
        BY DEF Lower
      <3>4. Lower(request.host) # << >>
        <4>1. /\ Text(request.to) \in Texts /\ Text(request.to) # << >>
          <5>1. request.to \in Addresses
            BY DEF Way, Arrived
          <5>2. Text(request.to) # << >>
            BY <5>1, LocalMeansLoopback DEF Nothing
          <5>3. Text(request.to) \in Texts
            BY <5>1, AddressParts, Joined
          <5> QED
            BY <5>2, <5>3
        <4>2. Len(Text(request.to)) # 0
          BY <4>1 DEF Texts
        <4>3. Len(Lower(Text(request.to))) # 0
          BY <4>1, <4>2, LowerText
        <4> QED
          BY <2>2, <4>3
      <3> QED
        BY <2>1, <3>2, <3>3, <3>4 DEF IsSameOrigin
    <2>6. request.sender \in {"script", "user", "page", "frame"}
      BY DEF Way, Arrived, Signed
    <2> QED
      BY <2>3, <2>4, <2>5, <2>6 DEF AtHome
  <1> QED
    BY <1>1, WayInvariance, PTL

\* Whoever is at home is served, however the name is spelled and whatever the
\* port (is_local_host, same_origin_only).
THEOREM OwnClientsAreAlwaysServed == Spec => []OwnClientsAreServed
  <1>1. Way => OwnClientsAreServed
    <2> SUFFICES ASSUME Way, at = "done",
                        (AtHome /\ request.host # Nothing) \/ request.type = "lifespan"
                 PROVE  /\ \A i \in DOMAIN sent : sent[i].by = "app" /\ sent[i].status # 403
                        /\ Routed /\ request.method = "POST" => acted
      BY DEF OwnClientsAreServed
    <2>1. ~ Refused
      <3>1. CASE request.type = "lifespan"
        BY <3>1 DEF Refused
      <3>2. CASE AtHome /\ request.host # Nothing
        <4>1. request.host = Text(request.to) /\ request.to \in Addresses
          BY <3>2 DEF Way, Arrived
        <4> QED
          BY <3>2, <4>1, LocalMeansLoopback DEF Refused, AtHome
      <3> QED
        BY <3>1, <3>2
    <2>2. Routed => IsSameOrigin
      <3> SUFFICES ASSUME Routed PROVE IsSameOrigin
        OBVIOUS
      <3>1. AtHome /\ request.host = Text(request.to)
        BY DEF Routed, Way, Arrived
      <3>2. CASE request.sender \in {"script", "user"}
        BY <3>2 DEF Way, Arrived, Signed, IsSameOrigin, TrustedFetchSite
      <3>3. CASE request.sender = "page" /\ request.from = request.to
        BY <3>1, <3>3, PagesAreTold
      <3> QED
        BY <3>1, <3>2, <3>3 DEF AtHome
    <2>3. Routed => Status \in {200, 405} /\ (request.method = "POST" => Status = 200)
      BY <2>2 DEF Status
    <2>4. Routed /\ request.method = "POST" => acted
      BY <2>1, <2>3 DEF Way
    <2>5. sent = Answer
      BY DEF Way
    <2>6. \/ Routed /\ sent = <<Message("app", Status), Message("app", 0)>>
          \/ sent = <<Message("app", 200), Message("app", 0)>>
          \/ sent = <<Message("app", 0)>>
      BY <2>1, <2>5 DEF Answer
    <2>7. \A i \in DOMAIN sent : sent[i].by = "app" /\ sent[i].status # 403
      <3>1. \A status : status # 403 =>
              Message("app", status).by = "app" /\ Message("app", status).status # 403
        BY DEF Message
      <3>2. Routed => Status # 403
        BY <2>3
      <3> HIDE DEF Message, Status
      <3>3. CASE Routed /\ sent = <<Message("app", Status), Message("app", 0)>>
        BY <3>1, <3>2, <3>3
      <3>4. CASE sent = <<Message("app", 200), Message("app", 0)>>
        BY <3>1, <3>4
      <3>5. CASE sent = <<Message("app", 0)>>
        BY <3>1, <3>5
      <3> QED
        BY <2>6, <3>3, <3>4, <3>5
    <2> QED
      BY <2>4, <2>7
  <1> QED
    BY <1>1, WayInvariance, PTL
=============================================================================
