----------------------------- MODULE Transcode ------------------------------
(***************************************************************************)
(* On-the-fly transcoding in upnpd/common/contentdir.c.  An encoder        *)
(* process writes into a fifo; the reader thread moves what it reads into  *)
(* a ring buffer; contentdirectory_vfsread, called by the HTTP thread of   *)
(* the connection, empties the ring; the writer thread starts the encoder  *)
(* and watches its output to know when it is over.                         *)
(*                                                                         *)
(* A section under reader.mutex or writer.mutex neither blocks nor is      *)
(* interrupted, and is one step.  The HTTP thread is the only one that     *)
(* waits on a condition: asleep says that it is inside the cond_wait of    *)
(* its program point, and a signal that finds it awake is lost.            *)
(***************************************************************************)
EXTENDS Integers

CONSTANTS
  Total,      \* bytes of the encoded stream
  BufferSize, \* TRANSCODE_BUFFER_SIZE
  ReadSize,   \* TRANSCODE_READ_SIZE
  FifoSize,   \* capacity of the fifo
  BlockSize   \* the length the HTTP server passes to vfs.read

ASSUME SizesAssumption ==
  /\ Total \in Nat \ {0} /\ FifoSize \in Nat \ {0} /\ BlockSize \in Nat \ {0}
  /\ ReadSize \in Nat \ {0} /\ BufferSize \in Nat /\ BufferSize >= 2

VARIABLES
  http,      \* program point of the HTTP thread
  asleep,    \* it is inside upnpd_thread_cond_wait
  reader,    \* program point of contentdirectory_reader
  writer,    \* program point of contentdirectory_writer
  encoder,   \* the encoder process
  rrunning,  \* transcode->reader.running
  writing,   \* transcode->reader.writing
  wrunning,  \* transcode->writer.running
  pid,       \* transcode->pid is set
  ring,      \* transcode->buffer; byte k of the stream is the number k
  offset,    \* transcode->offset
  length,    \* transcode->length
  room,      \* the local variable s of the reader
  chunk,     \* the local variable r of the reader; 0 once the bytes are copied
  why,       \* why the reader last found nothing to read
  made,      \* bytes the encoder has written into the fifo
  got,       \* bytes the reader has taken out of it
  fill,      \* the local variable i of vfsread
  done,      \* bytes vfsread has copied out
  sent,      \* what vfsread returned as byte k
  ended      \* vfsread has returned 0

httpvars == << http, asleep, fill, done, sent, ended >>
ringvars == << ring, offset, length >>
readvars == << room, chunk, why, got >>
flags == << rrunning, writing, wrunning, pid >>
vars == << httpvars, reader, writer, encoder, flags, ringvars, readvars, made >>

Slots == 0 .. BufferSize - 1
Bytes == 0 .. Total - 1
Least(a, b) == IF a < b THEN a ELSE b
Slot(n) == n % BufferSize

\* The started and stopped flags follow the program points: started is set by
\* the first step of a thread, stopped by its last one.
WriterStarted == writer \notin {"none", "start"}
WriterStopped == writer \in {"return", "exited"}
ReaderStarted == reader \notin {"none", "start"}
ReaderStopped == reader \in {"return", "exited"}

Init ==
  /\ http = "start" /\ asleep = FALSE
  /\ reader = "none" /\ writer = "none" /\ encoder = "none"
  /\ rrunning = FALSE /\ writing = FALSE /\ wrunning = FALSE /\ pid = FALSE
  /\ ring = [k \in Slots |-> Total] /\ offset = 0 /\ length = 0
  /\ room = 0 /\ chunk = 0 /\ why = "none"
  /\ made = 0 /\ got = 0
  /\ fill = 0 /\ done = 0 /\ sent = [k \in Bytes |-> Total] /\ ended = FALSE

\* upnpd_thread_cond_signal on the cond of the reader or of the writer: it
\* wakes an HTTP thread that sleeps at one of the points that wait on it.
SignalReaderCond == asleep' = (asleep /\ http \notin {"rstarted", "opening", "read", "rstopped"})
SignalWriterCond == asleep' = (asleep /\ http \notin {"wstarted", "wstopped"})

\* while (! ready) cond_wait;
Await(here, ready, next) ==
  /\ http = here /\ ~asleep
  /\ IF ready THEN http' = next /\ UNCHANGED asleep
              ELSE asleep' = TRUE /\ UNCHANGED http

SpuriousWakeup ==
  /\ asleep
  /\ asleep' = FALSE
  /\ UNCHANGED << http, fill, done, sent, ended, reader, writer, encoder, flags, ringvars,
                  readvars, made >>

-----------------------------------------------------------------------------
(* The HTTP thread: vfsopen with starttranscode, vfsread, and vfsclose     *)
(* with stoptranscode.                                                     *)

StartWriter ==
  /\ http = "start"
  /\ http' = "wstarted"
  /\ writer' = "start"
  /\ UNCHANGED << asleep, fill, done, sent, ended, reader, encoder, flags, ringvars, readvars, made >>

StartReader ==
  /\ Await("wstarted", WriterStarted, "rstarted")
  /\ reader' = IF WriterStarted THEN "start" ELSE reader
  /\ UNCHANGED << fill, done, sent, ended, writer, encoder, flags, ringvars, readvars, made >>

AwaitReader ==
  /\ Await("rstarted", ReaderStarted, "opening")
  /\ UNCHANGED << fill, done, sent, ended, reader, writer, encoder, flags, ringvars, readvars, made >>

\* vfsopen returns when the first bytes have been read.  Its wait for the
\* writer, whose writing flag is set from the start, never blocks.
AwaitWriting ==
  /\ Await("opening", ~rrunning \/ writing, "ready")
  /\ UNCHANGED << fill, done, sent, ended, reader, writer, encoder, flags, ringvars, readvars, made >>

ReadCall ==
  /\ http = "ready"
  /\ http' = "read"
  /\ fill' = 0
  /\ UNCHANGED << asleep, done, sent, ended, reader, writer, encoder, flags, ringvars, readvars, made >>

\* The n oldest bytes leave the ring.
Advance(n) ==
  /\ offset' = Slot(offset + n)
  /\ length' = length - n

\* The two memcpy of vfsread: the n oldest bytes of the ring, in order.
CopyOut(n) ==
  /\ sent' = [k \in Bytes |-> IF done <= k /\ k < done + n THEN ring[Slot(offset + (k - done))]
                                                          ELSE sent[k]]
  /\ done' = done + n

\* MUTANT: end of stream as soon as the reader has stopped, bytes left or not.
Read_IgnoresRest ==
  /\ http = "read" /\ ~asleep
  /\ LET n == IF rrunning THEN Least(length, BlockSize - fill) ELSE 0 IN
     /\ CopyOut(n)
     /\ Advance(n)
     /\ fill' = fill + n
     /\ \/ fill' = BlockSize /\ http' = "ready" /\ UNCHANGED << asleep, ended >>
        \/ fill' # BlockSize /\ rrunning /\ asleep' = TRUE /\ UNCHANGED << http, ended >>
        \/ /\ fill' # BlockSize /\ ~rrunning
           /\ http' = IF fill' = 0 THEN "kill" ELSE "ready"
           /\ ended' = (fill' = 0)
           /\ UNCHANGED asleep
  /\ UNCHANGED << reader, writer, encoder, flags, ring, readvars, made >>

\* The loop of vfsread under reader.mutex: take what there is, then return a
\* full block, wait for more, or return what was found if no more can come.
\* The server closes the file when it gets nothing.
Read ==
  /\ http = "read" /\ ~asleep
  /\ LET n == Least(length, BlockSize - fill) IN
     /\ CopyOut(n)
     /\ Advance(n)
     /\ fill' = fill + n
     /\ \/ fill' = BlockSize /\ http' = "ready" /\ UNCHANGED << asleep, ended >>
        \/ fill' # BlockSize /\ rrunning /\ asleep' = TRUE /\ UNCHANGED << http, ended >>
        \/ /\ fill' # BlockSize /\ ~rrunning
           /\ http' = IF fill' = 0 THEN "kill" ELSE "ready"
           /\ ended' = (fill' = 0)
           /\ UNCHANGED asleep
  /\ UNCHANGED << reader, writer, encoder, flags, ring, readvars, made >>

\* The client hangs up, has got its range, or the server stops: vfsclose.
CloseCall ==
  /\ http = "ready"
  /\ http' = "kill"
  /\ UNCHANGED << asleep, fill, done, sent, ended, reader, writer, encoder, flags, ringvars,
                  readvars, made >>

\* kill and waitpid, if the pid is known.
Kill ==
  /\ http = "kill"
  /\ http' = "stopreader"
  /\ encoder' = IF pid THEN "exited" ELSE encoder
  /\ UNCHANGED << asleep, fill, done, sent, ended, reader, writer, flags, ringvars, readvars, made >>

StopReader ==
  /\ http = "stopreader"
  /\ rrunning' = FALSE
  /\ http' = "rstopped"
  /\ UNCHANGED << asleep, fill, done, sent, ended, reader, writer, encoder, writing, wrunning,
                  pid, ringvars, readvars, made >>

AwaitReaderStopped ==
  /\ Await("rstopped", ReaderStopped, "joinreader")
  /\ UNCHANGED << fill, done, sent, ended, reader, writer, encoder, flags, ringvars, readvars, made >>

\* Join the reader, then tell the writer to stop.
StopWriter ==
  /\ http = "joinreader"
  /\ reader = "exited"
  /\ wrunning' = FALSE
  /\ http' = "wstopped"
  /\ UNCHANGED << asleep, fill, done, sent, ended, reader, writer, encoder, rrunning, writing,
                  pid, ringvars, readvars, made >>

AwaitWriterStopped ==
  /\ Await("wstopped", WriterStopped, "joinwriter")
  /\ UNCHANGED << fill, done, sent, ended, reader, writer, encoder, flags, ringvars, readvars, made >>

\* Join the writer and free the transcode_t.
Free ==
  /\ http = "joinwriter"
  /\ writer = "exited"
  /\ http' = "closed"
  /\ UNCHANGED << asleep, fill, done, sent, ended, reader, writer, encoder, flags, ringvars,
                  readvars, made >>

HttpStops == Kill \/ StopReader \/ AwaitReaderStopped \/ StopWriter \/ AwaitWriterStopped \/ Free
HttpWaits == StartWriter \/ StartReader \/ AwaitReader \/ AwaitWriting \/ Read
Http == HttpWaits \/ ReadCall \/ CloseCall \/ HttpStops

-----------------------------------------------------------------------------
(* contentdirectory_reader.                                                *)

ReaderStart ==
  /\ reader = "start"
  /\ reader' = "open"
  /\ rrunning' = TRUE
  /\ SignalReaderCond
  /\ UNCHANGED << http, fill, done, sent, ended, writer, encoder, writing, wrunning, pid,
                  ringvars, readvars, made >>

\* malloc or open fails.
ReaderFails ==
  /\ reader = "open"
  /\ reader' = "out"
  /\ UNCHANGED << httpvars, writer, encoder, flags, ringvars, readvars, made >>

\* open() of the fifo, on either side, returns when the other side is opened.
FifoOpen ==
  /\ reader = "open"
  /\ encoder = "start"
  /\ reader' = "top"
  /\ encoder' = "writing"
  /\ UNCHANGED << httpvars, writer, flags, ringvars, readvars, made >>

\* MUTANT: the bytes already in the ring are not subtracted.
ReaderTop_IgnoresLength ==
  /\ reader = "top"
  /\ IF rrunning THEN reader' = "poll" /\ room' = Least(BufferSize, ReadSize)
                 ELSE reader' = "out" /\ UNCHANGED room
  /\ UNCHANGED << httpvars, writer, encoder, flags, ringvars, chunk, why, got, made >>

\* Under the mutex: leave if told to, or measure the free space of the ring.
ReaderTop ==
  /\ reader = "top"
  /\ IF rrunning THEN reader' = "poll" /\ room' = Least(BufferSize - length, ReadSize)
                 ELSE reader' = "out" /\ UNCHANGED room
  /\ UNCHANGED << httpvars, writer, encoder, flags, ringvars, chunk, why, got, made >>

\* Without the mutex: poll the fifo.  It is readable when it holds bytes and
\* when the encoder has closed it; poll gives up after a second.
ReaderPoll ==
  /\ reader = "poll"
  /\ IF got < made \/ encoder = "exited"
       THEN reader' = "read" /\ UNCHANGED why
       ELSE reader' = "check" /\ why' = "quiet"
  /\ UNCHANGED << httpvars, writer, encoder, flags, ringvars, room, chunk, got, made >>

\* read() of at most room bytes; nothing if the ring was full or the fifo is at
\* its end.
ReaderRead ==
  /\ reader = "read"
  /\ LET r == Least(room, made - got) IN
     /\ chunk' = r
     /\ got' = got + r
     /\ reader' = IF r > 0 THEN "copy" ELSE "check"
     /\ why' = CASE r > 0 -> why [] room = 0 -> "full" [] OTHER -> "eof"
  /\ UNCHANGED << httpvars, writer, encoder, flags, ringvars, room, made >>

\* contentdirectory_writer_running: try again, or the stream is over.
ReaderCheck ==
  /\ reader = "check"
  /\ reader' = IF wrunning THEN "top" ELSE "out"
  /\ UNCHANGED << httpvars, writer, encoder, flags, ringvars, readvars, made >>

\* Where slot k lies, counted from the slot n bytes after the oldest one.
Distance(k, n) == LET first == Slot(offset + n) IN
  IF k >= first THEN k - first ELSE k + BufferSize - first

\* MUTANT: the copy does not wrap at the end of the ring.
CopyIn_NoWrap ==
  /\ ring' = [k \in Slots |-> IF k >= Slot(offset + length) /\ Distance(k, length) < chunk
                                THEN got - chunk + Distance(k, length) ELSE ring[k]]
  /\ length' = length + chunk

\* The memcpy loop of the reader: the chunk goes behind the bytes in the ring.
CopyIn ==
  /\ ring' = [k \in Slots |-> IF Distance(k, length) < chunk
                                THEN got - chunk + Distance(k, length) ELSE ring[k]]
  /\ length' = length + chunk

\* Under the mutex again: announce the first bytes, copy the chunk and signal,
\* or leave if told to stop.
ReaderCopy ==
  /\ reader = "copy"
  /\ writing' = (writing \/ length < BufferSize \div 2)
  /\ chunk' = 0
  /\ \/ rrunning /\ CopyIn /\ reader' = "top"
     \/ ~rrunning /\ reader' = "out" /\ UNCHANGED << ring, length >>
  /\ IF rrunning \/ ~writing THEN SignalReaderCond ELSE UNCHANGED asleep
  /\ UNCHANGED << http, fill, done, sent, ended, writer, encoder, rrunning, wrunning, pid,
                  offset, room, why, got, made >>

\* MUTANT: no signal when the reader ends.
ReaderStop_Silent ==
  /\ reader = "out"
  /\ reader' = "return"
  /\ rrunning' = FALSE
  /\ UNCHANGED << httpvars, writer, encoder, writing, wrunning, pid,
                  ringvars, readvars, made >>

\* Close the fifo; running = 0, stopped = 1, signal.
ReaderStop ==
  /\ reader = "out"
  /\ reader' = "return"
  /\ rrunning' = FALSE
  /\ SignalReaderCond
  /\ UNCHANGED << http, fill, done, sent, ended, writer, encoder, writing, wrunning, pid,
                  ringvars, readvars, made >>

ReaderReturn ==
  /\ reader = "return"
  /\ reader' = "exited"
  /\ UNCHANGED << httpvars, writer, encoder, flags, ringvars, readvars, made >>

Reader == \/ ReaderStart \/ FifoOpen \/ ReaderTop \/ ReaderPoll \/ ReaderRead
          \/ ReaderCheck \/ ReaderCopy \/ ReaderStop \/ ReaderReturn

-----------------------------------------------------------------------------
(* contentdirectory_writer.                                                *)

WriterStart ==
  /\ writer = "start"
  /\ writer' = "popen"
  /\ wrunning' = TRUE
  /\ SignalWriterCond
  /\ UNCHANGED << http, fill, done, sent, ended, reader, encoder, rrunning, writing, pid,
                  ringvars, readvars, made >>

\* Start the encoder.  Left out: a pipe or a fork that fails, after which the
\* writer closes a stream it does not have, fclose(NULL).
WriterPopen ==
  /\ writer = "popen"
  /\ writer' = "pid"
  /\ encoder' = "start"
  /\ UNCHANGED << httpvars, reader, flags, ringvars, readvars, made >>

\* Store its pid, under the mutex.
WriterPid ==
  /\ writer = "pid"
  /\ writer' = "gets"
  /\ pid' = TRUE
  /\ UNCHANGED << httpvars, reader, encoder, rrunning, writing, wrunning, ringvars, readvars, made >>

\* Read the encoder's messages until they end with the encoder.
WriterGets ==
  /\ writer = "gets"
  /\ encoder = "exited"
  /\ writer' = "out"
  /\ UNCHANGED << httpvars, reader, encoder, flags, ringvars, readvars, made >>

\* A message has come and the running flag is clear.
WriterTold ==
  /\ writer = "gets"
  /\ encoder \in {"start", "writing"}
  /\ ~wrunning
  /\ writer' = "out"
  /\ UNCHANGED << httpvars, reader, encoder, flags, ringvars, readvars, made >>

WriterStop ==
  /\ writer = "out"
  /\ writer' = "return"
  /\ wrunning' = FALSE
  /\ SignalWriterCond
  /\ UNCHANGED << http, fill, done, sent, ended, reader, encoder, rrunning, writing, pid,
                  ringvars, readvars, made >>

WriterReturn ==
  /\ writer = "return"
  /\ writer' = "exited"
  /\ UNCHANGED << httpvars, reader, encoder, flags, ringvars, readvars, made >>

Writer == WriterStart \/ WriterPopen \/ WriterPid \/ WriterGets \/ WriterStop \/ WriterReturn

-----------------------------------------------------------------------------
(* The encoder, an external process.                                       *)

ReaderClosed == reader \in {"return", "exited"}

\* Write one byte; a fifo without a reader kills the encoder.
EncoderWrite ==
  /\ encoder = "writing"
  /\ \/ /\ ~ReaderClosed
        /\ made < Total /\ made - got < FifoSize
        /\ made' = made + 1
        /\ UNCHANGED encoder
     \/ /\ ReaderClosed
        /\ encoder' = "exited"
        /\ UNCHANGED made
  /\ UNCHANGED << httpvars, reader, writer, flags, ringvars, readvars >>

\* It has written everything, or fails -- before it opens the fifo, too.
EncoderExit ==
  /\ encoder \in {"start", "writing"}
  /\ encoder' = "exited"
  /\ UNCHANGED << httpvars, reader, writer, flags, ringvars, readvars, made >>

-----------------------------------------------------------------------------

Terminated == http = "closed" /\ UNCHANGED vars

Next == \/ Http \/ Reader \/ ReaderFails \/ Writer \/ WriterTold
        \/ EncoderWrite \/ EncoderExit \/ SpuriousWakeup \/ Terminated

(* The three threads run whenever they can; an encoder that has opened the *)
(* fifo goes on writing while it may, and ends when it has written all.    *)
(* Nothing obliges the client to read or to hang up, an encoder to open    *)
(* the fifo, or to print a message.                                        *)
Fairness ==
  /\ WF_vars(HttpWaits) /\ WF_vars(HttpStops)
  /\ WF_vars(Reader) /\ WF_vars(Writer)
  /\ WF_vars(EncoderWrite) /\ WF_vars(made = Total /\ EncoderExit)

Spec == Init /\ [][Next]_vars
FairSpec == Spec /\ Fairness

-----------------------------------------------------------------------------
(* Properties.                                                             *)

HttpPoints == {"start", "wstarted", "rstarted", "opening", "ready", "read", "kill", "stopreader",
               "rstopped", "joinreader", "wstopped", "joinwriter", "closed"}
ReaderPoints == {"none", "start", "open", "top", "poll", "read", "copy", "check", "out",
                 "return", "exited"}
WriterPoints == {"none", "start", "popen", "pid", "gets", "out", "return", "exited"}

TypeOK ==
  /\ http \in HttpPoints /\ asleep \in BOOLEAN
  /\ reader \in ReaderPoints /\ writer \in WriterPoints
  /\ encoder \in {"none", "start", "writing", "exited"}
  /\ rrunning \in BOOLEAN /\ writing \in BOOLEAN /\ wrunning \in BOOLEAN /\ pid \in BOOLEAN
  /\ ring \in [Slots -> 0 .. Total] /\ offset \in Slots /\ length \in 0 .. BufferSize
  /\ room \in 0 .. BufferSize /\ chunk \in 0 .. BufferSize
  /\ why \in {"none", "quiet", "full", "eof"}
  /\ made \in 0 .. Total /\ got \in 0 .. made /\ done \in 0 .. got
  /\ fill \in 0 .. BlockSize /\ sent \in [Bytes -> 0 .. Total] /\ ended \in BOOLEAN

(* The free space the reader measured is still there when it copies, though *)
(* it polled and read without the mutex in between.                        *)
NoOverrun == reader = "copy" => length + chunk <= BufferSize

(* Through the fifo, the chunk and the ring, the client gets every byte    *)
(* once and in order: the implementation of ByteStream.                    *)
Stream == INSTANCE ByteStream
StreamInOrder == Stream!Spec

(* vfsread returns 0 only when it has returned all the reader ever read,   *)
(* and that is the whole stream unless the reader gave up on a fifo it had *)
(* found quiet, or on a read of no bytes into a full ring, just before the *)
(* encoder ended (or could not start at all).                              *)
EndIsEnd == ended => done = got /\ (why = "eof" => got = made)

\* The reader waits in open() for an encoder that does not open the fifo.
Mute == reader = "open"

\* The encoder was not killed, as its pid was not known, and waits in open()
\* for a reader that is gone; the writer waits for the encoder.
Orphan == http = "wstopped" /\ writer = "gets" /\ encoder = "start"

(* vfsopen returns, unless the encoder never opens the fifo, and so does   *)
(* vfsclose, whatever the three threads and the encoder were doing, unless *)
(* it comes before the pid is known.                                       *)
OpenAndCloseReturn ==
  /\ http = "opening" ~> http = "ready" \/ Mute
  /\ http = "kill" ~> http = "closed" \/ Orphan

-----------------------------------------------------------------------------
(* The inductive invariant behind the safety properties.                   *)

\* The HTTP thread has not yet told the reader to stop.
Serving == http \in {"start", "wstarted", "rstarted", "opening", "ready", "read", "kill", "stopreader"}

\* The bytes taken out of the fifo are in the client's hands, in the ring, or
\* in the chunk, and the ring holds the oldest of the last two in order.
RingInv ==
  /\ done + length + chunk <= got
  /\ Serving => done + length + chunk = got
  /\ \A j \in Slots : j < length => ring[Slot(offset + j)] = done + j
  /\ \A k \in Bytes : k < done => sent[k] = k

RoomInv ==
  /\ chunk > 0 => reader = "copy"
  /\ reader \in {"poll", "read"} => length + room <= BufferSize
  /\ NoOverrun

\* The reader finds the end of the fifo only after the encoder has ended.
EofInv ==
  /\ reader = "read" => got < made \/ encoder = "exited"
  /\ why = "eof" => encoder = "exited" /\ got = made

PhaseInv ==
  /\ reader = "none" <=> http \in {"start", "wstarted"}
  /\ reader = "start" => http \in {"rstarted"}
  /\ rrunning => ReaderStarted /\ Serving
  /\ Serving /\ ReaderStarted /\ ~ReaderStopped => rrunning
  /\ ended => done = got /\ ReaderStopped /\ http \notin {"start", "wstarted", "rstarted", "opening"}
  /\ http = "read" => fill < BlockSize
  /\ http = "start" => writer = "none"
  /\ writer \in {"none", "start", "popen"} => encoder = "none" /\ ~pid

IInv == TypeOK /\ RingInv /\ RoomInv /\ EofInv /\ PhaseInv /\ EndIsEnd
=============================================================================
