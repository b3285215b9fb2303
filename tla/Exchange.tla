-------------------------------- MODULE Exchange --------------------------------
(***************************************************************************)
(* One call over HTTP, with this code at both ends of a connection: a SOAP *)
(* action (upnpd_upnp_makeaction) or the download of a description         *)
(* (upnpd_upnp_gena_download), both through upnpd_upnp_gena_send_recv of a *)
(* control point, and gena_thread_loop with gena_handler_post of a server. *)
(* Both read headers with gena_getline, for which a poll that times out is *)
(* the end of the header.                                                  *)
(*                                                                         *)
(* A header line is a word and an "eol"; only where the line is cut off    *)
(* matters.  What the action does is its outcome; its locks are in Device. *)
(***************************************************************************)
EXTENDS Naturals, SequencesExt

CONSTANTS
  Request,  \* the envelope of the action
  Response, \* the one of its result, or of its fault
  Document, \* the text of a description
  Page,     \* the text of an error
  None      \* NULL

\* What the two requests and the replies consist of: a header, whose lines have
\* one word each, and a body.
Lines(words) ==
  [i \in 1 .. 2 * Len(words) + 1 |-> IF i % 2 = 1 /\ i < 2 * Len(words) THEN words[(i + 1) \div 2] ELSE "eol"]
Header == [
  action   |-> Lines(<< "post", "host", "length", "type", "soapaction" >>),
  download |-> Lines(<< "get", "host", "accept" >>),
  reply    |-> Lines(<< "status", "length", "type" >>),
  file     |-> Lines(<< "status", "type", "date", "length" >>),
  error    |-> Lines(<< "status", "type", "date" >>)]
Body == [action |-> Request, download |-> << >>, reply |-> Response, file |-> Document, error |-> Page]
Symbols == UNION {ToSet(Header[m]) \cup ToSet(Body[m]) : m \in DOMAIN Header}
Texts == Seq(Symbols)

ASSUME ExchangeAssumption ==
  /\ \A m \in DOMAIN Body : Body[m] \in Texts
  /\ << >> \notin {Request, Response, Document}
  /\ ~IsPrefix(Response, Page) /\ ~IsPrefix(Document, Page)
  /\ None \notin Nat /\ None \notin Texts

VARIABLES
  asked,     \* the call: an action or a download
  pc,        \* program points of the client and of the server
  wire,      \* what is on its way to each: what was sent, how much of it has
             \* come, and whether the sender will send no more
  line,      \* the line each is reading
  length,    \* the Content-Length each has read
  named,     \* the other headers each has read
  body,      \* what each has read of its body; what a server has sent of a file
  late,      \* a poll timed out while it read the header
  performed, \* the action the server was asked for
  result,    \* what upnpd_upnp_gena_send_recv returned
  broken     \* the connection broke

read == << line, length, named, body, late >>
exchangeVars == << pc, wire, read, performed, result, broken, asked >>

Sides == {"client", "server"}

RequestText == Header[asked] \o Body[asked]

Announced(s) ==
  IF s = "server" THEN Len(Request) ELSE IF asked = "action" THEN Len(Response) ELSE Len(Document)

ExchangeInit ==
  /\ asked \in {"action", "download"}
  /\ pc = [client |-> "send", server |-> "request"]
  /\ wire = [s \in Sides |-> [sent |-> << >>, come |-> 0, ended |-> FALSE]]
  /\ line = [s \in Sides |-> "empty"]
  /\ length = [s \in Sides |-> None]
  /\ named = [s \in Sides |-> {}]
  /\ body = [s \in Sides |-> << >>]
  /\ late = [s \in Sides |-> FALSE]
  /\ performed = None /\ result = None
  /\ broken = FALSE

Proceed(s, point) == pc' = [pc EXCEPT ![s] = point]

-----------------------------------------------------------------------------
(* The connection.                                                         *)

\* More of what was sent has come.
Arrive(s) ==
  /\ wire[s].come < Len(wire[s].sent)
  /\ \E n \in wire[s].come + 1 .. Len(wire[s].sent) : wire' = [wire EXCEPT ![s].come = n]
  /\ UNCHANGED << pc, read, performed, result, broken, asked >>

\* A reset, a crash of one side, a cable: each side has what has come, or less.
Break ==
  /\ ~broken
  /\ broken' = TRUE
  /\ \E c \in 0 .. wire.client.come, d \in 0 .. wire.server.come :
       wire' = [client |-> [sent |-> SubSeq(wire.client.sent, 1, c), come |-> c, ended |-> TRUE],
                server |-> [sent |-> SubSeq(wire.server.sent, 1, d), come |-> d, ended |-> TRUE]]
  /\ UNCHANGED << pc, read, performed, result, asked >>

\* gena_send to the other side, once it is known to be gone, sends nothing.
Send(to, text) ==
  \/ ~broken /\ wire' = [wire EXCEPT ![to].sent = @ \o text]
  \/ (broken \/ pc[to] = "done") /\ UNCHANGED wire

Readable(s) == wire[s].come > 0
\* recv of k bytes.
Take(s, k) ==
  wire' = [wire EXCEPT ![s] = [sent |-> SubSeq(@.sent, k + 1, Len(@.sent)), come |-> @.come - k, ended |-> @.ended]]
\* Poll reports the end of the connection, and recv gives 0.
Ended(s) == wire[s].sent = << >> /\ wire[s].ended
\* Nothing comes until the poll times out.
Silent(s) == ~Readable(s) /\ ~Ended(s)

-----------------------------------------------------------------------------
(* gena_getline, and what is made of a line.                               *)

\* The loops over the header lines end.
EndHeader(s) ==
  IF s = "server"
    THEN Proceed(s, IF "get" \in named[s] THEN "file"
                 ELSE IF length[s] \in {None, 0} \/ ~{"host", "soapaction"} \subseteq named[s] THEN "refuse"
                 ELSE "content")
  ELSE Proceed(s, IF length[s] = None THEN "rest" ELSE IF length[s] = 0 THEN "fail" ELSE "content")

InHeader(s) == pc[s] \in {"request", "header"}

\* A character of a line.
GetChar(s) ==
  /\ InHeader(s) /\ Readable(s) /\ Head(wire[s].sent) # "eol"
  /\ line' = [line EXCEPT ![s] = Head(wire[s].sent)]
  /\ Take(s, 1)
  /\ UNCHANGED << pc, length, named, body, late, performed, result, broken, asked >>

\* The end of a line; an empty one ends the header, and is no request.
GetLine(s) ==
  /\ InHeader(s) /\ Readable(s) /\ Head(wire[s].sent) = "eol"
  /\ IF line[s] = "empty"
       THEN IF pc[s] = "request" THEN Proceed(s, "refuse") ELSE EndHeader(s)
       ELSE Proceed(s, "header")
  /\ length' = IF line[s] = "length" THEN [length EXCEPT ![s] = Announced(s)] ELSE length
  /\ named' = [named EXCEPT ![s] = @ \cup {line[s]}]
  /\ line' = [line EXCEPT ![s] = "empty"]
  /\ Take(s, 1)
  /\ UNCHANGED << body, late, performed, result, broken, asked >>

\* The connection ends: what there is of a line is a line, behind which the
\* buffer still holds the one before; otherwise the header ends.  Of a request
\* without its end, the method is known or the request refused.
GetNothing(s) ==
  /\ InHeader(s) /\ Ended(s)
  /\ IF line[s] = "empty"
       THEN /\ IF pc[s] = "request" THEN Proceed(s, "refuse") ELSE EndHeader(s)
            /\ UNCHANGED << length, named >>
       ELSE /\ \/ pc[s] = "request" /\ Proceed(s, "refuse") /\ UNCHANGED named
               \/ Proceed(s, "header") /\ named' = [named EXCEPT ![s] = @ \cup {line[s]}]
               \/ pc[s] = "header" /\ UNCHANGED << pc, named >>
            /\ length' \in {length, [length EXCEPT ![s] = 0], [length EXCEPT ![s] = Announced(s)]}
  /\ line' = [line EXCEPT ![s] = "empty"]
  /\ UNCHANGED << wire, body, late, performed, result, broken, asked >>

\* The poll times out: to the caller this is the empty line.
GetLate(s) ==
  /\ InHeader(s) /\ Silent(s)
  /\ late' = [late EXCEPT ![s] = TRUE]
  /\ line' = [line EXCEPT ![s] = "empty"]
  /\ IF pc[s] = "request" THEN Proceed(s, "refuse") ELSE EndHeader(s)
  /\ UNCHANGED << wire, length, named, body, performed, result, broken, asked >>

-----------------------------------------------------------------------------
(* The server.                                                             *)

\* gena_getcontent.
Content ==
  /\ pc.server = "content" /\ Len(body.server) < length.server /\ Readable("server")
  /\ body' = [body EXCEPT !.server = Append(@, Head(wire.server.sent))]
  /\ Take("server", 1)
  /\ UNCHANGED << pc, line, length, named, late, performed, result, broken, asked >>

\* It returns less than the length: 400.
ContentShort ==
  /\ pc.server = "content" /\ Len(body.server) < length.server /\ (Ended("server") \/ Silent("server"))
  /\ Proceed("server", "refuse")
  /\ UNCHANGED << wire, read, performed, result, broken, asked >>

\* gena_callback_event_action: the service is there or not.
Perform ==
  /\ pc.server = "content" /\ Len(body.server) = length.server
  /\ performed' = body.server
  /\ pc' \in {[pc EXCEPT !.server = "reply"], [pc EXCEPT !.server = "refuse"]}
  /\ UNCHANGED << wire, read, result, broken, asked >>

\* Header and response are sent one after the other, the response only if the
\* header was sent.
Reply ==
  /\ pc.server = "reply"
  /\ Send("client", Header.reply)
  /\ Proceed("server", IF wire' = wire THEN "close" ELSE "response")
  /\ UNCHANGED << read, performed, result, broken, asked >>

Respond ==
  /\ pc.server = "response"
  /\ Send("client", Response)
  /\ Proceed("server", "close")
  /\ UNCHANGED << read, performed, result, broken, asked >>

\* The file is there, or not: vfs.info and vfs.open.  The header of the reply
\* is sent, and what follows is read whether that succeeded or not.
File ==
  /\ pc.server = "file"
  /\ \/ Proceed("server", "refuse") /\ UNCHANGED wire
     \/ Proceed("server", "pieces") /\ Send("client", Header.file)
  /\ UNCHANGED << read, performed, result, broken, asked >>

\* A buffer of the file is read and sent, unless that fails, until all is sent
\* or the server is stopped.
Piece ==
  /\ pc.server = "pieces"
  /\ \E n \in Len(body.server) + 1 .. Len(Document) :
       LET piece == SubSeq(Document, Len(body.server) + 1, n) IN
       /\ Send("client", piece)
       /\ IF wire' = wire
            THEN Proceed("server", "close") /\ UNCHANGED body
            ELSE /\ body' = [body EXCEPT !.server = @ \o piece]
                 /\ Proceed("server", "close") \/ (n < Len(Document) /\ UNCHANGED pc)
  /\ UNCHANGED << line, length, named, late, performed, result, broken, asked >>

\* gena_senderrorheader, which announces no length.
Refuse ==
  /\ pc.server = "refuse"
  /\ Send("client", Header.error \o Page)
  /\ Proceed("server", "close")
  /\ UNCHANGED << read, performed, result, broken, asked >>

Close ==
  /\ pc.server = "close"
  /\ wire' = [wire EXCEPT !.client.ended = TRUE]
  /\ Proceed("server", "done")
  /\ UNCHANGED << read, performed, result, broken, asked >>

-----------------------------------------------------------------------------
(* The client.                                                             *)

\* The connection cannot be made, or breaks while the request is sent, or
\* the request is sent.
SendRequest ==
  /\ pc.client = "send"
  /\ \/ ~broken /\ Send("server", RequestText) /\ Proceed("client", "header")
     \/ /\ \E n \in 0 .. Len(RequestText) - 1 :
             wire' = [wire EXCEPT !.server = [sent |-> SubSeq(RequestText, 1, n), come |-> 0, ended |-> TRUE]]
        /\ Proceed("client", "fail")
  /\ UNCHANGED << read, performed, result, broken, asked >>

Leave(value) ==
  /\ result' = value
  /\ wire' = [wire EXCEPT !.server.ended = TRUE]
  /\ Proceed("client", "done")

\* The body, as long as its length or as the connection lasts.
Receive ==
  /\ pc.client \in {"content", "rest"}
  /\ \E k \in 1 .. wire.client.come :
       /\ pc.client = "content" => Len(body.client) + k <= length.client
       /\ body' = [body EXCEPT !.client = @ \o SubSeq(wire.client.sent, 1, k)]
       /\ Take("client", k)
  /\ UNCHANGED << pc, line, length, named, late, performed, result, broken, asked >>

\* MUTANT: a body that is shorter than its length is returned.
ReceiveEnds_Short ==
  /\ \/ pc.client = "fail" /\ Leave(None)
     \/ /\ pc.client \in {"content", "rest"}
        /\ Len(body.client) = length.client \/ Ended("client") \/ Silent("client")
        /\ Leave(body.client)
  /\ UNCHANGED << read, performed, broken, asked >>

\* With a length, all of it or nothing is returned; without one, what came.
ReceiveEnds ==
  /\ \/ pc.client = "fail" /\ Leave(None)
     \/ pc.client = "content" /\ Len(body.client) = length.client /\ Leave(body.client)
     \/ /\ pc.client = "content" /\ Len(body.client) < length.client
        /\ Ended("client") \/ Silent("client")
        /\ Leave(None)
     \/ /\ pc.client = "rest"
        /\ Ended("client") \/ Silent("client")
        /\ Leave(body.client)
  /\ UNCHANGED << read, performed, broken, asked >>

ExchangeNext ==
  \/ \E s \in Sides : Arrive(s) \/ GetChar(s) \/ GetLine(s) \/ GetNothing(s) \/ GetLate(s)
  \/ Content \/ ContentShort \/ Perform \/ Reply \/ Respond \/ File \/ Piece \/ Refuse \/ Close
  \/ SendRequest \/ Receive \/ ReceiveEnds
  \/ Break

ExchangeSpec == ExchangeInit /\ [][ExchangeNext]_exchangeVars

-----------------------------------------------------------------------------
(* Properties.                                                             *)

ExchangeTypeOK ==
  /\ asked \in {"action", "download"}
  /\ pc \in [client : {"send", "header", "content", "rest", "fail", "done"},
            server : {"request", "header", "content", "refuse", "reply", "response",
                      "file", "pieces", "close", "done"}]
  /\ wire \in [Sides -> [sent : Texts, come : Nat, ended : BOOLEAN]]
  /\ \A s \in Sides : wire[s].come <= Len(wire[s].sent)
  /\ line \in [Sides -> Symbols \cup {"empty"}]
  /\ length \in [Sides -> Nat \cup {None}]
  /\ \A s \in Sides : length[s] \in {None, 0, Announced(s)}
  /\ named \in [Sides -> SUBSET (Symbols \cup {"empty"})]
  /\ body \in [Sides -> Texts] /\ late \in [Sides -> BOOLEAN]
  /\ performed \in Texts \cup {None} /\ result \in Texts \cup {None}
  /\ broken \in BOOLEAN

(* However the connection delays, cuts and breaks, and even if the server  *)
(* is stopped in the middle of a file, as long as no poll timed out in a   *)
(* header: an action is performed as it was asked for or not at all, and   *)
(* what the control point takes for a result or a description is the       *)
(* result of that action or the description, whole, or a part of the text  *)
(* of an error, from its beginning.                                        *)
ResultRight ==
  /\ performed # None /\ ~late.server => performed = Request
  /\ result # None /\ ~late.client =>
       \/ asked = "action" /\ result = Response /\ performed # None
       \/ asked = "download" /\ result = Document
       \/ IsPrefix(result, Page)

-----------------------------------------------------------------------------
(* The inductive invariant behind ResultRight.                             *)

\* The i-th symbol of a message, and what is known when k of them are read.
Symbol(m, i) == IF i <= Len(Header[m]) THEN Header[m][i] ELSE Body[m][i - Len(Header[m])]
LineAt(m, k) == IF k = 0 \/ Header[m][k] = "eol" THEN "empty" ELSE Header[m][k]
LengthAt(s, m, k) == IF \E i \in 1 .. k - 1 : Header[m][i] = "length" THEN Announced(s) ELSE None

\* One side has read k symbols of a message, and more of it is on the way.  A
\* cut connection may leave it with less than that in the end, and with nothing
\* to read.
HasRead(s, m, k) ==
  /\ k + Len(wire[s].sent) <= Len(Header[m]) + Len(Body[m])
  /\ \A i \in 1 .. Len(wire[s].sent) : wire[s].sent[i] = Symbol(m, k + i)
  /\ pc[s] \in {"send", "request", "header"} =>
       /\ k < Len(Header[m]) /\ body[s] = << >>
       /\ line[s] = LineAt(m, k) \/ (Ended(s) /\ line[s] = "empty")
       /\ length[s] = LengthAt(s, m, k) \/ Ended(s)
       /\ pc[s] = "request" => k <= 1
  /\ pc[s] \in {"content", "rest"} =>
       \/ Ended(s) /\ body[s] = << >>
       \/ /\ k = Len(Header[m]) + Len(body[s])
          /\ length[s] = LengthAt(s, m, Len(Header[m]))
          /\ \A i \in 1 .. Len(body[s]) : body[s][i] = Body[m][i]

\* A server reads what was asked, ...
ServerReads ==
  InHeader("server") \/ (pc.server = "content" /\ ~late.server) =>
    \E k \in 0 .. Len(RequestText) : HasRead("server", asked, k)

\* ... and knows in time that it is a download.
ServerKnows ==
  /\ InHeader("server") => ~late.server /\ body.server = << >>
  /\ InHeader("server") /\ asked = "action" => "get" \notin named.server
  /\ pc.server = "header" /\ asked = "download" => "get" \in named.server
  /\ pc.server = "content" => asked = "action" /\ length.server = Len(Request)
  /\ pc.server \in {"reply", "response"} => asked = "action" /\ performed # None
  /\ pc.server \in {"file", "pieces"} => asked = "download"
  /\ pc.server = "file" => body.server = << >>

\* It has nothing to read before the request is sent.
SendInv ==
  pc.client = "send" =>
    /\ wire.server.sent = << >> /\ wire.server.come = 0
    /\ pc.server \in {"request", "refuse", "close", "done"}
    /\ pc.server = "request" => line.server = "empty" /\ length.server = None

\* What a server has sent of a message, unless the connection broke.
InStep(m, sent) ==
  /\ pc.server \in {"request", "header", "content", "refuse", "reply", "file"} => sent = 0
  /\ pc.server = "response" => m = "reply" /\ sent = Len(Header.reply)
  /\ pc.server = "pieces" => m = "file" /\ sent = Len(Header.file) + Len(body.server)

\* The control point reads one of the replies, and that of an action only when
\* it has been performed; ...
ClientReads ==
  pc.client \in {"send", "header", "content", "rest"} /\ ~late.client =>
    \E m \in {"reply", "file", "error"} : \E k \in 0 .. Len(Header[m]) + Len(Body[m]) :
      /\ HasRead("client", m, k)
      /\ m = "reply" => asked = "action" /\ performed # None
      /\ m = "file" => asked = "download"
      /\ ~broken => InStep(m, k + Len(wire.client.sent))

\* ... what is to be read of its body follows from the length it has.
ClientKnows ==
  /\ wire.client.ended => broken \/ pc.server = "done"
  /\ pc.client = "content" => length.client = Announced("client") /\ length.client # None
  /\ pc.client = "rest" => length.client = None

ExchangeInv == ExchangeTypeOK /\ ServerReads /\ ServerKnows /\ SendInv /\ ClientReads /\ ClientKnows /\ ResultRight
=============================================================================
