----------------------------- MODULE RangeReply -----------------------------
(***************************************************************************)
(* The answer to GET and HEAD: the second half of gena_thread_loop         *)
(* (upnpd/common/upnp/gena.c), from the Range header to the end of the     *)
(* body, in the widths of its integers.  start, stop and size of the range *)
(* are unsigned long long, readlen and rlen are int.                       *)
(***************************************************************************)
EXTENDS Integers, Sequences

CONSTANTS
  Requests, \* records: method, ranged (a Range header came), start, bounded, stop
  Sizes,    \* sizes of files
  Chunk,    \* GENA_DATA_SIZE
  IntMax,   \* the greatest int
  LongMod   \* one more than the greatest unsigned long long

ASSUME RangeAssumption ==
  /\ Requests \subseteq [method: {"GET", "HEAD"}, ranged: BOOLEAN, start: Nat, bounded: BOOLEAN, stop: Nat]
  /\ Sizes \subseteq Nat
  /\ Chunk \in Nat \ {0} /\ IntMax \in Nat \ {0} /\ LongMod \in Nat
  /\ Chunk <= IntMax /\ 2 * IntMax + 2 < LongMod
  /\ \A n \in Sizes : n + 1 < LongMod
  /\ \A r \in Requests : r.start < LongMod /\ r.stop < LongMod

VARIABLES
  req,     \* the request
  method,  \* what the buffer header holds where the method was
  size,    \* fileinfo.size: the size of the file when it was scanned or listed
  disk,    \* its size on disk
  gone,    \* it is removed once it is open
  pc,      \* program point
  start, stop, length, \* fileinfo.filerange; length is its member size
  offset,  \* the offset of the open file
  readlen, \* how much has been sent, as an int
  body,    \* the bytes sent after the header, each named by its place in the file
  cut      \* a seek, a read or a send has failed, or the server stops

vars == << req, method, size, disk, gone, pc, start, stop, length, offset, readlen, body, cut >>

AsLong(x) == x % LongMod
AsInt(x) == LET r == x % (2 * IntMax + 2) IN IF r <= IntMax THEN r ELSE r - (2 * IntMax + 2)
Lesser(a, b) == IF a < b THEN a ELSE b

\* The header and the page of an error, where the bytes of the file should be.
ErrorPage == -1

Init ==
  /\ req \in Requests /\ method = req.method
  /\ size \in Sizes /\ disk \in Sizes /\ gone \in BOOLEAN
  /\ pc = "headers"
  /\ start = 0 /\ stop = 0 /\ length = 0
  /\ offset = 0 /\ readlen = 0 /\ body = << >> /\ cut = FALSE

-----------------------------------------------------------------------------
(* The header.                                                             *)

\* The headers are read into the buffer of the request line, so that no method
\* is left in it unless nothing at all follows that line, not even an empty
\* one.  A range whose end precedes its start is dropped.
Headers ==
  /\ pc = "headers"
  /\ method' = "none" \/ (~req.ranged /\ method' = method)
  /\ IF req.ranged /\ ~(req.bounded /\ req.stop < req.start)
     THEN start' = req.start /\ stop' = (IF req.bounded THEN req.stop ELSE 0)
     ELSE start' = 0 /\ stop' = 0
  /\ pc' = "open"
  /\ UNCHANGED << req, size, disk, gone, length, offset, readlen, body, cut >>

\* vfs.info or vfs.open finds no file.
NoFile ==
  /\ pc = "open"
  /\ pc' = "error"
  /\ UNCHANGED << req, method, size, disk, gone, start, stop, length, offset, readlen, body, cut >>

\* MUTANT: the last byte of the file is not part of an open range.
Open_Short ==
  /\ pc = "open"
  /\ LET end == IF stop = 0 /\ req.ranged THEN AsLong(size - 2) ELSE stop IN
     stop' = Lesser(end, AsLong(size - 1))
  /\ length' = IF start = 0 /\ stop' = 0 THEN size ELSE AsLong(stop' - start + 1)
  /\ pc' = "send"
  /\ UNCHANGED << req, method, size, disk, gone, start, offset, readlen, body, cut >>

\* The file is open; the actual range is computed and goes out in the header.
Open ==
  /\ pc = "open"
  /\ LET end == IF stop = 0 /\ req.ranged THEN AsLong(size - 1) ELSE stop IN
     stop' = Lesser(end, AsLong(size - 1))
  /\ length' = IF start = 0 /\ stop' = 0 THEN size ELSE AsLong(stop' - start + 1)
  /\ pc' = "send"
  /\ UNCHANGED << req, method, size, disk, gone, start, offset, readlen, body, cut >>

-----------------------------------------------------------------------------
(* The body.                                                               *)

\* What upnpd_file_seek returns, which looks at the file by its name: -1 when
\* there is none, and for a place beyond its end the offset it has, which is 0.
Sought == IF gone THEN LongMod - 1 ELSE IF start > disk THEN 0 ELSE start

\* HEAD gets no more than the header.
HeaderOnly ==
  /\ pc = "send" /\ method = "HEAD"
  /\ pc' = "closed"
  /\ UNCHANGED << req, method, size, disk, gone, start, stop, length, offset, readlen, body, cut >>

\* MUTANT: what the seek returns is not looked at.
Seek_Unchecked ==
  /\ pc = "send" /\ method # "HEAD"
  /\ pc' = "read" /\ offset' = (IF gone \/ start > disk THEN 0 ELSE start)
  /\ UNCHANGED << req, method, size, disk, gone, start, stop, length, readlen, body, cut >>

\* The file is positioned.  When that fails, the header of a file has gone out
\* already: the header and the page of an error follow it, as its body.
Seek ==
  /\ pc = "send" /\ method # "HEAD"
  /\ \/ /\ Sought = start
        /\ pc' = "read" /\ offset' = (IF gone THEN 0 ELSE start)
        /\ UNCHANGED << body, cut >>
     \/ /\ Sought # start
        /\ pc' = "closed" /\ body' = << ErrorPage >> /\ cut' = TRUE
        /\ UNCHANGED offset
  /\ UNCHANGED << req, method, size, disk, gone, start, stop, length, readlen >>

More == AsLong(readlen) < length

\* The length of the next read, which is an int.
Wanted == Lesser(AsInt(length) - readlen, Chunk)

\* MUTANT: the last chunk is read in full.
Read_Whole ==
  /\ pc = "read" /\ More /\ offset < disk
  /\ \E n \in 1 .. Lesser(Chunk, disk - offset) :
       /\ body' = body \o [i \in 1 .. n |-> offset + i - 1]
       /\ offset' = offset + n
       /\ readlen' = readlen + n
  /\ UNCHANGED << req, method, size, disk, gone, pc, start, stop, length, cut >>

\* One turn of the loop: some bytes are read and all of them are sent.
Read ==
  /\ pc = "read" /\ More /\ Wanted > 0 /\ offset < disk
  /\ \E n \in 1 .. Lesser(Wanted, disk - offset) :
       /\ body' = body \o [i \in 1 .. n |-> offset + i - 1]
       /\ offset' = offset + n
       /\ readlen' = readlen + n
  /\ UNCHANGED << req, method, size, disk, gone, pc, start, stop, length, cut >>

\* The end of the file, or a length that is no length any more: rlen <= 0.
ReadsNothing ==
  /\ pc = "read" /\ More /\ (Wanted <= 0 \/ offset >= disk)
  /\ pc' = "closed"
  /\ UNCHANGED << req, method, size, disk, gone, start, stop, length, offset, readlen, body, cut >>

\* The read fails, the send fails, or the thread is told to stop.
Break ==
  /\ pc = "read" /\ More
  /\ cut' = TRUE
  /\ pc' = "closed"
  /\ UNCHANGED << req, method, size, disk, gone, start, stop, length, offset, readlen, body >>

Close ==
  /\ pc = "read" /\ ~More
  /\ pc' = "closed"
  /\ UNCHANGED << req, method, size, disk, gone, start, stop, length, offset, readlen, body, cut >>

Terminated == pc \in {"closed", "error"} /\ UNCHANGED vars

Next ==
  \/ Headers \/ NoFile \/ Open \/ HeaderOnly \/ Seek
  \/ Read \/ ReadsNothing \/ Break \/ Close \/ Terminated

Spec == Init /\ [][Next]_vars

-----------------------------------------------------------------------------
(* What the answer promises.                                               *)

TypeOK ==
  /\ req \in Requests /\ size \in Sizes /\ disk \in Sizes /\ gone \in BOOLEAN
  /\ method \in {"GET", "HEAD", "none"}
  /\ pc \in {"headers", "open", "send", "read", "closed", "error"}
  /\ start \in Nat /\ stop \in Nat /\ length \in Nat
  /\ start < LongMod /\ stop < LongMod /\ length < LongMod
  /\ offset \in Nat /\ readlen \in Nat /\ readlen <= IntMax
  /\ body \in Seq(Int)
  /\ cut \in BOOLEAN

Known == pc \in {"send", "read", "closed"}

\* What RFC 2616 makes of the request, for a file that has such a range: its
\* bytes from first to last.  bytes=0-0 is no exception there, but it is here.
First == IF req.ranged THEN req.start ELSE 0
Last == IF req.ranged /\ req.bounded /\ req.stop < size THEN req.stop ELSE size - 1
Satisfiable == First <= Last /\ ~(req.ranged /\ req.bounded /\ req.stop < req.start)
OneByte == req.ranged /\ req.bounded /\ req.start = 0 /\ req.stop = 0

\* The range announced by the header is the one asked for.
RangeAsAsked == Known /\ Satisfiable /\ ~OneByte => length = Last - First + 1 /\ start = First

\* A start beyond the end of the file, and any range of an empty file, take the
\* arithmetic of lines 874-883 below zero: what they announce is no range.
Wrapped == start > size \/ (size = 0 /\ req.ranged)

\* A file that has been cut below the start of the range since its size was
\* taken, or removed since it was opened, cannot be positioned.
Lost == start > disk \/ gone

\* The body has the bytes of the file from the start of the range on, in order,
\* and no more of them than the header announces, or, of a file that cannot be
\* positioned, none at all: its body is the page of an error, under a header
\* that announces the range.
BodyInRange ==
  ~Wrapped =>
    IF Lost THEN body \in {<< >>, << ErrorPage >>}
    ELSE Len(body) <= length /\ \A i \in 1 .. Len(body) : body[i] = start + i - 1

\* The body is as long as the header says, if nothing fails, the file is still
\* as long as it was, and an int holds the length.
PromiseKept ==
  pc = "closed" /\ ~cut /\ method # "HEAD" /\ ~Wrapped /\ size <= disk /\ length <= IntMax =>
    Len(body) = length

-----------------------------------------------------------------------------
(* The inductive invariant of the proofs.                                  *)

RangeParsed ==
  pc = "open" =>
    IF req.ranged /\ ~(req.bounded /\ req.stop < req.start)
    THEN start = req.start /\ stop = (IF req.bounded THEN req.stop ELSE 0)
    ELSE start = 0 /\ stop = 0

RangeInFile == Known /\ ~Wrapped => start + length <= size

BodySent ==
  /\ pc \in {"headers", "open", "send", "error"} => readlen = 0 /\ body = << >>
  /\ Known => readlen <= length
  /\ pc = "read" => IF gone THEN Wrapped ELSE start <= disk /\ offset = start + readlen
  /\ IF Lost THEN ~Wrapped => body \in {<< >>, << ErrorPage >>}
     ELSE Len(body) = readlen /\ \A i \in 1 .. readlen : body[i] = start + i - 1

IInv == TypeOK /\ RangeParsed /\ RangeAsAsked /\ RangeInFile /\ BodySent /\ PromiseKept
=============================================================================
