----------------------------- MODULE RemoteRead -----------------------------
(***************************************************************************)
(* Reading a remote file through the file system: op_read of upnpfs        *)
(* (upnpfs/op_read.c), which keeps an http connection open from one read   *)
(* to the next and opens another one when the offset is not where the      *)
(* connection stands, and the server at the other end of it: upnpd, as in  *)
(* module RangeReply, or another one.  FUSE runs with -s, so one operation *)
(* runs at a time.                                                         *)
(*                                                                         *)
(* A connection delivers the lines of a header and then the bytes of the   *)
(* file from the requested offset on; each byte is named by its place.     *)
(* Two kinds of file have no connection, the text of a .metadata file and  *)
(* that of a .devices file, which every read composes anew.                *)
(***************************************************************************)
EXTENDS Integers, Sequences

CONSTANTS
  Size,    \* the size of the file
  Most,    \* the most that one read asks for
  Reads,   \* bound on the number of reads
  Window,  \* what the socket buffers hold
  Header   \* the number of lines of the header of the answer

ASSUME ReadAssumption ==
  /\ Size \in Nat \ {0} /\ Most \in Nat \ {0} /\ Reads \in Nat
  /\ Window \in Nat \ {0} /\ Header \in Nat /\ Header >= 3

VARIABLES
  kind,   \* f->metadata and f->device: what op_open has opened
  text,   \* how long the text was that the last read composed
  pc,     \* program point of op_read
  reads,  \* how many reads there may still be
  offset, \* its arguments
  size,
  h,      \* f->protocol, a connection or None
  n,      \* the connection that http_open is opening, or None
  buf,    \* what this read has received
  answer, \* what the last read returned: its buf, or Error
  kept    \* this read goes on with the old connection, another one was refused

vars == << kind, text, pc, reads, offset, size, h, n, buf, answer, kept >>

None == [connected |-> FALSE]

\* No byte of the file is at these places.
HeaderLine == -1
Error == << -2 >>

\* from: the offset that the server sends the file from; at: http->offset; next: what is
\* received next, from -Header, its first line; ready: how much the socket
\* holds; live: the server has not closed; late: a
\* poll has timed out while more was to come.
Connection ==
  [connected: {TRUE}, from: 0 .. Size - 1, at: 0 .. Size + Header, next: -Header .. Size,
   ready: 0 .. Window, live: BOOLEAN, late: BOOLEAN]

New(from) == [connected |-> TRUE, from |-> from, at |-> 0, next |-> -Header,
        ready |-> 0, live |-> TRUE, late |-> FALSE]

\* The i-th thing received on a connection, and the end of them.
Content(c, i) == IF i < 0 THEN HeaderLine ELSE c.from + i
End(c) == Size - c.from

Readable(c) == c.ready > 0
AtEnd(c) == c.ready = 0 /\ ~c.live
Silent(c) == c.ready = 0 /\ c.live

Init ==
  /\ kind \in {"content", "metadata", "device"} /\ text = 0
  /\ pc = "idle" /\ reads = Reads /\ offset = 0 /\ size = 0
  /\ h = None /\ n = None
  /\ buf = << >> /\ answer = << >> /\ kept = FALSE

-----------------------------------------------------------------------------
(* The server.                                                             *)

Sends(c) ==
  /\ c.connected /\ c.live
  /\ c.ready < Window /\ c.next + c.ready < End(c)

\* All is sent, or it gives up early: a read fails, or it shuts down.
Closes(c) == c.connected /\ c.live

ServerSends ==
  \/ /\ Sends(h)
     /\ h' = [h EXCEPT !.ready = @ + 1] /\ UNCHANGED n
     /\ UNCHANGED << kind, text, pc, reads, offset, size, buf, answer, kept >>
  \/ /\ Sends(n)
     /\ n' = [n EXCEPT !.ready = @ + 1] /\ UNCHANGED h
     /\ UNCHANGED << kind, text, pc, reads, offset, size, buf, answer, kept >>

ServerCloses ==
  \/ /\ Closes(h)
     /\ h' = [h EXCEPT !.live = FALSE] /\ UNCHANGED n
     /\ UNCHANGED << kind, text, pc, reads, offset, size, buf, answer, kept >>
  \/ /\ Closes(n)
     /\ n' = [n EXCEPT !.live = FALSE] /\ UNCHANGED h
     /\ UNCHANGED << kind, text, pc, reads, offset, size, buf, answer, kept >>

-----------------------------------------------------------------------------
(* op_read and http_open.                                                  *)

\* MUTANT: a connection is used wherever it stands.
Call_AnyOffset ==
  /\ kind = "content" /\ pc = "idle" /\ reads > 0
  /\ reads' = reads - 1
  /\ offset' \in 0 .. Size - 1 /\ size' \in 1 .. Most
  /\ buf' = << >> /\ answer' = << >> /\ kept' = FALSE
  /\ pc' = IF h.connected THEN "read" ELSE "connect"
  /\ UNCHANGED << kind, text, h, n >>

\* The kernel asks for no offset beyond the size of the file.
Call ==
  /\ kind = "content" /\ pc = "idle" /\ reads > 0
  /\ reads' = reads - 1
  /\ offset' \in 0 .. Size - 1 /\ size' \in 1 .. Most
  /\ buf' = << >> /\ answer' = << >> /\ kept' = FALSE
  /\ pc' = IF h.connected /\ h.at = offset' THEN "read" ELSE "connect"
  /\ UNCHANGED << kind, text, h, n >>

\* The server sends the file from the offset on, or it ignores the range.
Connect ==
  /\ pc = "connect"
  /\ \E from \in {offset, 0} : n' = New(from)
  /\ pc' = "header"
  /\ UNCHANGED << kind, text, reads, offset, size, h, buf, answer, kept >>

\* The connection is closed again: without another one the read fails, else it
\* goes on with the one there was.
Refuse ==
  /\ n' = None
  /\ IF h.connected THEN pc' = "read" /\ kept' = TRUE /\ UNCHANGED answer
     ELSE pc' = "idle" /\ answer' = Error /\ UNCHANGED kept
  /\ UNCHANGED << kind, text, reads, offset, size, h, buf >>

\* No socket, no connection, or an error code in the answer.
OpenFails == pc \in {"connect", "header"} /\ Refuse

\* http_getline and http_process: the second line has the range, the last one
\* is empty.
HeaderLineRead ==
  /\ pc = "header" /\ Readable(n) /\ n.next < 0
  /\ n' = [n EXCEPT !.next = @ + 1, !.ready = @ - 1,
                    !.at = IF n.next = 1 - Header THEN n.from ELSE @]
  /\ pc' = IF n.next = -1 THEN "opened" ELSE "header"
  /\ UNCHANGED << kind, text, reads, offset, size, h, buf, answer, kept >>

\* A poll times out before a line, or the server closes: that ends the header.
HeaderCutShort ==
  /\ pc = "header" /\ n.ready = 0
  /\ n' = [n EXCEPT !.late = n.live]
  /\ pc' = "opened"
  /\ UNCHANGED << kind, text, reads, offset, size, h, buf, answer, kept >>

\* The answer must be from the offset.
Opened ==
  /\ pc = "opened"
  /\ \/ n.at = offset /\ h' = n /\ n' = None /\ pc' = "read"
        /\ UNCHANGED << kind, text, reads, offset, size, buf, answer, kept >>
     \/ n.at # offset /\ Refuse

-----------------------------------------------------------------------------
(* http_read.                                                              *)

Reading == pc = "read" /\ Len(buf) < size

\* recv returns what there is, up to what is wanted.
Receive ==
  /\ Reading /\ Readable(h)
  /\ \E k \in 1 .. h.ready :
       /\ k <= size - Len(buf)
       /\ buf' = buf \o [i \in 1 .. k |-> Content(h, h.next + i - 1)]
       /\ h' = [h EXCEPT !.next = @ + k, !.ready = @ - k]
  /\ UNCHANGED << kind, text, pc, reads, offset, size, n, answer, kept >>

\* The poll times out: nothing is returned, whatever has been received.
PollTimesOut ==
  /\ Reading /\ Silent(h)
  /\ h' = [h EXCEPT !.late = TRUE]
  /\ answer' = << >>
  /\ pc' = "idle"
  /\ UNCHANGED << kind, text, reads, offset, size, n, buf, kept >>

\* MUTANT: http_read returns what one recv gave.
Return_AfterOne ==
  /\ pc = "read" /\ (Len(buf) > 0 \/ AtEnd(h))
  /\ h' = [h EXCEPT !.at = @ + Len(buf)]
  /\ answer' = buf
  /\ pc' = "idle"
  /\ UNCHANGED << kind, text, reads, offset, size, n, buf, kept >>

\* All that was wanted is there, or the server has closed.
Return ==
  /\ pc = "read" /\ (Len(buf) = size \/ AtEnd(h))
  /\ h' = [h EXCEPT !.at = @ + Len(buf)]
  /\ answer' = buf
  /\ pc' = "idle"
  /\ UNCHANGED << kind, text, reads, offset, size, n, buf, kept >>

-----------------------------------------------------------------------------
(* The files that have a text: each read composes it, whatever it was for  *)
(* the read before, and copies the beginning of it: the offset says how    *)
(* much is copied, and not from where.                                     *)

ReadText ==
  /\ pc = "idle" /\ reads > 0
  /\ reads' = reads - 1
  /\ offset' \in 0 .. Size - 1 /\ size' \in 1 .. Most
  /\ UNCHANGED << kind, pc, h, n, buf, kept >>

\* memcpy from the text itself, without the offset.
Beginning(length) == [i \in 1 .. length |-> i - 1]

Lesser(i, j) == IF i < j THEN i ELSE j

\* The entry is browsed again: that fails, or its text is there.
ReadMetadata ==
  /\ kind = "metadata" /\ ReadText
  /\ \/ answer' = Error /\ UNCHANGED text
     \/ /\ text' \in 1 .. Size
        /\ answer' = IF offset' >= text' THEN << >> ELSE Beginning(Lesser(size', text' - offset'))

\* The text is empty when the device is gone.  When more is left of it than
\* the read asks for, siz keeps the 0 it began with.
ReadDevice ==
  /\ kind = "device" /\ ReadText
  /\ text' \in 0 .. Size
  /\ answer' = IF offset' >= text' \/ size' < text' - offset' THEN << >> ELSE Beginning(text' - offset')

Terminated == pc = "idle" /\ reads = 0 /\ UNCHANGED vars

Client == Call \/ Connect \/ OpenFails \/ HeaderLineRead \/ HeaderCutShort \/ Opened \/ Receive \/ PollTimesOut \/ Return
            \/ ReadMetadata \/ ReadDevice

Next == ServerSends \/ ServerCloses \/ Client \/ Terminated

Spec == Init /\ [][Next]_vars

-----------------------------------------------------------------------------
(* What a read promises.                                                   *)

TypeOK ==
  /\ kind \in {"content", "metadata", "device"} /\ text \in 0 .. Size
  /\ pc \in {"idle", "connect", "header", "opened", "read"}
  /\ reads \in 0 .. Reads
  /\ offset \in 0 .. Size - 1 /\ size \in 0 .. Most
  /\ h \in Connection \union {None} /\ n \in Connection \union {None}
  /\ Len(buf) <= size
  /\ kept \in BOOLEAN
  /\ pc \in {"header", "opened"} <=> n.connected
  /\ pc = "read" => h.connected
  /\ h.connected \/ pc # "idle" => kind = "content"

\* The answer of a connection that has been kept up with: no poll timed out on
\* it, and it is the one that was opened for the offset.  Of a text only a read
\* from its beginning: one from further on is given the beginning again in
\* place of what is there, as Beginning says.
Sound ==
  /\ pc = "idle" /\ answer # Error
  /\ IF kind = "content" THEN ~kept /\ h.connected /\ ~h.late ELSE offset = 0

\* A read of content returns the bytes of the file from its offset on, whatever
\* was read before it and however the connection was opened, also by a server
\* that ignores the range; the first read of a text returns its beginning.
DataRight == Sound => \A i \in 1 .. Len(answer) : answer[i] = offset + i - 1

\* A read that returns less than it was asked for has returned all that the
\* server sent before it closed, or all of the text; but the text of a device is
\* returned as a whole or not at all.
ShortOnlyAtEnd ==
  Sound /\ Len(answer) < size =>
    CASE kind = "content" -> AtEnd(h) /\ (h.next >= 0 => offset + Len(answer) = h.from + h.next)
      [] kind = "metadata" -> Len(answer) >= text
      [] kind = "device" -> Len(answer) >= text \/ answer = << >>

-----------------------------------------------------------------------------
(* The inductive invariant that UpnpfsProofs proves of every instance.     *)

\* What this read has of what its connection has delivered.
Got == IF pc = "read" THEN Len(buf) ELSE 0

\* A connection delivers its header and the rest of the file, and no more is
\* counted into http->offset.
WithinInv ==
  /\ h.connected => h.next + h.ready <= End(h) /\ h.at + Got <= h.from + h.next + Header
  /\ n.connected => n.next + n.ready <= End(n) /\ n.at <= n.from + n.next + Header

BufInv ==
  /\ buf \in Seq(Int)
  /\ kind # "content" => buf = << >>
  /\ pc \in {"connect", "header", "opened"} => buf = << >> /\ ~kept

\* http->offset is right once the line with the range is read, and a header
\* that ended early has nothing after it, unless a poll timed out.
HeaderInv ==
  /\ pc = "header" => n.next < 0 /\ ~n.late
  /\ n.connected /\ n.next > 1 - Header => n.at = n.from
  /\ pc = "opened" => n.next <= 0 /\ (n.next < 0 /\ ~n.late => AtEnd(n))

\* A connection on which no poll timed out is where http->offset and what the
\* read has of it say.
InStep ==
  /\ h.connected /\ ~h.late =>
       /\ h.next < 0 => AtEnd(h) /\ (pc = "read" => buf = << >>)
       /\ h.next >= 0 =>
            /\ h.at + Got = h.from + h.next
            /\ pc = "read" => \A i \in 1 .. Len(buf) : buf[i] = h.at + i - 1
  /\ pc = "read" /\ ~kept => h.at = offset

IInv == TypeOK /\ WithinInv /\ BufInv /\ HeaderInv /\ InStep /\ DataRight /\ ShortOnlyAtEnd
=============================================================================
