------------------------------ MODULE Requests ------------------------------
(***************************************************************************)
(* A request on its way to a handler of datasette/plugins/approval.py: the *)
(* ASGI wrapper of host_guard.py, the routes, same_origin_only, and the    *)
(* method check every handler begins with.                                 *)
(*                                                                         *)
(* The guards see headers only.  What they are for is about the sender: a  *)
(* page of another site must not act here, nor read what is here, while    *)
(* the server's own pages and scripts on this machine are served.  So a    *)
(* request carries both, its sender and the headers a browser or a script  *)
(* derives from it, and the properties compare the outcome with the sender.*)
(*                                                                         *)
(* The text of a header is a sequence of tokens: words, and the marks that *)
(* the parsing looks for.  Left out: blanks around a Host, repeated headers*)
(* and the scheme of an Origin, which no comparison looks at.              *)
(***************************************************************************)
EXTENDS Naturals, Sequences, SequencesExt

CONSTANTS
  Names,      \* the host names requests may use, as texts
  Loopback,   \* those that mean this machine, in any spelling
  Ports       \* what may follow a name: nothing, or a colon and a number

Nothing == << >>     \* a header that is not there, or is empty

\* str.lower; "LOCALHOST" is the one word with capitals.
Lower(text) == [i \in DOMAIN text |-> IF text[i] = "LOCALHOST" THEN "localhost" ELSE text[i]]

Marks == {"[", "]", ":"}

\* What a URL has for a host: words, or an IPv6 address in its brackets ...
IsWords(text) == \A i \in 1 .. Len(text) : text[i] \notin Marks

IsBracketed(text) ==
  /\ text[1] = "[" /\ text[Len(text)] = "]"
  /\ \A i \in 1 .. Len(text) - 1 : text[i] # "]"

\* ... and behind it nothing, or a colon and a number.
IsPort(text) == text = << >> \/ (Len(text) = 2 /\ text[1] = ":" /\ text[2] \notin Marks)

ASSUME NamesAssumption ==
  /\ \A name \in Names : /\ name \in Seq(STRING) /\ name # << >>
                         /\ IsWords(name) \/ IsBracketed(name)
  /\ \A port \in Ports : port \in Seq(STRING) /\ IsPort(port)

\* The three usual names of this machine, in capitals or not.
ASSUME LoopbackAssumption ==
  Loopback = {name \in Names : Lower(name) \in
                {<<"localhost">>, <<"127.0.0.1">>, <<"[", ":", ":", "1", "]">>}}

-----------------------------------------------------------------------------
(* Senders and the headers they send. *)

Addresses == [name : Names, port : Ports]
Text(address) == address.name \o address.port
Sites == {a \in Addresses : Lower(Text(a)) = Text(a)}     \* as browsers spell them
OriginOf(address) == <<"http://">> \o Text(address)

\* Sec-Fetch-Site as a browser computes it.
SiteOf(from, to) ==
  IF from = to THEN "same-origin" ELSE IF from.name = to.name THEN "same-site" ELSE "cross-site"

Paths == {"/-/approve", "/-/approve-all", "/-/halt", "/-/journal", "/operations"}

Request(sender, from, to, method, path, fetchSite, origin) ==
  [type |-> "http", sender |-> sender, from |-> from, to |-> to, method |-> method,
   path |-> path, host |-> Text(to), fetchSite |-> fetchSite, origin |-> origin]

\* curl and scripts send no browser header.
FromScripts ==
  {Request("script", to, to, method, path, "absent", Nothing) :
     to \in Addresses, method \in {"GET", "POST"}, path \in Paths}

FromAddressBar ==
  {Request("user", to, to, "GET", path, "none", Nothing) : to \in Addresses, path \in Paths}

\* A page at `from` calls the server under the name `to`.  A POST carries an
\* Origin, "null" from a sandboxed frame; a GET may not.  Older browsers do
\* not send Sec-Fetch-Site.
FromPages ==
  UNION {{Request("page", from, to, "POST", path, site, OriginOf(from)) : site \in {"absent", SiteOf(from, to)}}
           \cup {Request("frame", from, to, "POST", path, site, <<"null">>) : site \in {"absent", "cross-site"}}
           \cup {Request("page", from, to, "GET", path, SiteOf(from, to), Nothing)} :
         from \in Sites, to \in Sites, path \in Paths}

\* A WebSocket handshake, a request without Host, and uvicorn's start-up call.
Others ==
  {[r EXCEPT !.type = "websocket"] : r \in FromAddressBar}
  \cup {[r EXCEPT !.host = Nothing] : r \in FromScripts}
  \cup {[r EXCEPT !.host = Nothing, !.type = "lifespan"] : r \in FromScripts}

VARIABLES
  request,
  at,       \* how far it has come
  sent,     \* the ASGI messages sent so far: [by, status], 0 when it has none
  acted     \* a handler got past its method check

vars == <<request, at, sent, acted>>

Init ==
  /\ request \in FromScripts \cup FromAddressBar \cup FromPages \cup Others
  /\ at = "wrapper"
  /\ sent = << >>
  /\ acted = FALSE

-----------------------------------------------------------------------------
(* host_guard.py *)

ALLOWED_HOSTS == {<<"localhost">>, <<"127.0.0.1">>, <<"[", ":", ":", "1", "]">>}

\* Mutants: an IPv6 address is not set apart, or only the first word counts.
HostWithoutPortUnbracketed(raw) ==
  LET colon == SelectLastInSeq(Lower(raw), LAMBDA t : t = ":") IN
    IF colon = 0 THEN Lower(raw) ELSE SubSeq(Lower(raw), 1, colon - 1)

HostWithoutPortFirstWord(raw) ==
  LET end == SelectInSeq(raw, LAMBDA t : t = "]") IN SubSeq(Lower(raw), 1, IF end = 0 THEN 1 ELSE end)

\* "'localhost:8001' -> 'localhost'; '[::1]:8001' -> '[::1]'"
HostWithoutPort(raw) ==
  LET text  == Lower(raw)
      end   == SelectInSeq(text, LAMBDA t : t = "]")
      colon == SelectLastInSeq(text, LAMBDA t : t = ":")
      cut   == IF text[1] = "[" THEN end ELSE IF colon = 0 THEN 0 ELSE colon - 1 IN
    IF cut = 0 THEN text ELSE SubSeq(text, 1, cut)

IsLocalHost(raw) == raw # Nothing /\ HostWithoutPort(raw) \in ALLOWED_HOSTS

Refused == request.type \in {"http", "websocket"} /\ ~ IsLocalHost(request.host)

SendBy(by, statuses) == sent' = sent \o [i \in DOMAIN statuses |-> [by |-> by, status |-> statuses[i]]]

\* websocket.close
RefuseWebsocket ==
  /\ at = "wrapper" /\ Refused /\ request.type = "websocket"
  /\ SendBy("wrapper", <<0>>)
  /\ at' = "done"
  /\ UNCHANGED <<request, acted>>

\* http.response.start ...
RefuseStart ==
  /\ at = "wrapper" /\ Refused /\ request.type # "websocket"
  /\ SendBy("wrapper", <<403>>)
  /\ at' = "refusing"
  /\ UNCHANGED <<request, acted>>

\* Mutant: no return after the body.
RefuseBodyFallingThrough ==
  /\ at = "refusing"
  /\ SendBy("wrapper", <<0>>)
  /\ at' = "app"
  /\ UNCHANGED <<request, acted>>

\* ... and http.response.body.
RefuseBody ==
  /\ at = "refusing"
  /\ SendBy("wrapper", <<0>>)
  /\ at' = "done"
  /\ UNCHANGED <<request, acted>>

\* await app(scope, receive, send)
Pass ==
  /\ at = "wrapper" /\ ~ Refused
  /\ at' = "app"
  /\ UNCHANGED <<request, sent, acted>>

-----------------------------------------------------------------------------
(* approval.py, inside Datasette *)

Routes == {"/-/approve", "/-/approve-all", "/-/halt", "/-/journal"}

Routed == request.type = "http" /\ request.path \in Routes

Route ==
  /\ at = "app" /\ Routed
  /\ at' = "guard"
  /\ UNCHANGED <<request, sent, acted>>

\* Datasette's own pages, and what it does with other calls.
Datasette ==
  /\ at = "app" /\ ~ Routed
  /\ SendBy("app", IF request.type = "http" THEN <<200, 0>> ELSE <<0>>)
  /\ at' = "done"
  /\ UNCHANGED <<request, acted>>

TrustedFetchSite == {"same-origin", "none"}

\* urlsplit(origin).netloc; "null" has none.
NetLoc(origin) == IF origin[1] = "http://" THEN Tail(origin) ELSE << >>

\* Mutant: Sec-Fetch-Site alone decides.
IsSameOriginByFetchSite == request.fetchSite \in TrustedFetchSite \cup {"absent"}

\* "Both headers are checked when present, so one cannot vouch for the other."
IsSameOrigin ==
  /\ request.fetchSite = "absent" \/ request.fetchSite \in TrustedFetchSite
  /\ \/ request.origin = Nothing
     \/ Lower(NetLoc(request.origin)) = Lower(request.host)

\* same_origin_only, and the method check of the handler it wraps.
Status ==
  IF ~ IsSameOrigin THEN 403 ELSE IF request.method # "POST" THEN 405 ELSE 200

Handle ==
  /\ at = "guard"
  /\ acted' = (Status = 200)
  /\ SendBy("app", <<Status, 0>>)
  /\ at' = "done"
  /\ UNCHANGED request

-----------------------------------------------------------------------------
Next ==
  RefuseWebsocket \/ RefuseStart \/ RefuseBody \/ Pass \/ Route \/ Datasette \/ Handle

Spec == Init /\ [][Next]_vars

-----------------------------------------------------------------------------
(* What is checked, and proved in RequestsProofs. *)

\* The sender is at home here: a script on this machine, the user, or a page
\* that was loaded from this server under a name of this machine.
AtHome ==
  /\ request.to.name \in Loopback
  /\ \/ request.sender \in {"script", "user"}
     \/ request.sender = "page" /\ request.from = request.to

\* No page from elsewhere, not even one on another port of this machine or one
\* whose own domain points here, makes a handler run, in any browser.
OnlyOwnClientsAct ==
  acted => AtHome

\* What the app tells reaches only clients that called this machine by one of
\* its own names: the guard's parsing never takes a longer or different name
\* for one of them, whatever port follows.
OnlyLocalNamesAreAnswered ==
  request.type # "lifespan" /\ (\E i \in DOMAIN sent : sent[i].by = "app")
    => request.host # Nothing /\ request.to.name \in Loopback

\* The guards do not get in the way: whoever is at home is served, whatever the
\* spelling of the name and the port, a POST to a route runs its handler, and
\* the server's start-up call goes through.
OwnClientsAreServed ==
  at = "done" /\ ((AtHome /\ request.host # Nothing) \/ request.type = "lifespan") =>
    /\ \A i \in DOMAIN sent : sent[i].by = "app" /\ sent[i].status # 403
    /\ Routed /\ request.method = "POST" => acted

\* A call is answered exactly once, by the wrapper or by the app: a refused one
\* never goes on to the app.
AnsweredOnce ==
  /\ \A i, j \in DOMAIN sent : sent[i].by = sent[j].by
  /\ Len(sent) <= 2
  /\ at = "done" => Len(sent) = IF request.type = "http" THEN 2 ELSE 1
=============================================================================
