-------------------------- MODULE ContentdirProofs --------------------------
(***************************************************************************)
(* Theorems about the content directory: about Transcode, for every stream *)
(* and every size of the ring, the chunk, the fifo and the blocks; and     *)
(* about Catalog, for every directory and however it changes.              *)
(***************************************************************************)
EXTENDS Transcode, Catalog, SequenceTheorems, FiniteSetTheorems, WellFoundedInduction, TLAPS

(* An index less than two rings ahead wraps at most once.                  *)
LEMMA SlotWraps ==
  ASSUME NEW n \in 0 .. 2 * BufferSize - 1
  PROVE  Slot(n) = IF n < BufferSize THEN n ELSE n - BufferSize
<1> DEFINE q == n \div BufferSize
<1>1. BufferSize \in Nat \ {0}
  BY SizesAssumption
<1>2. q \in Int /\ Slot(n) \in 0 .. BufferSize - 1 /\ n = BufferSize * q + Slot(n)
  BY <1>1 DEF Slot
<1>3. q >= 0
  BY <1>1, <1>2, Z3
<1>4. q <= 1
  BY <1>1, <1>2, Z3
<1>5. q = 0 \/ q = 1
  BY <1>2, <1>3, <1>4
<1>6. QED
  BY <1>1, <1>2, <1>5

(* Moving on by m slots and then by j is moving on by m + j.                *)
LEMMA SlotTwice ==
  ASSUME NEW a \in Slots, NEW m \in Slots, NEW j \in Slots, m + j \in Slots
  PROVE  Slot(Slot(a + m) + j) = Slot(a + (m + j))
<1> USE SizesAssumption DEF Slots
<1>1. /\ a + m \in 0 .. 2 * BufferSize - 1
      /\ a + (m + j) \in 0 .. 2 * BufferSize - 1
  OBVIOUS
<1>2. Slot(a + m) = IF a + m < BufferSize THEN a + m ELSE a + m - BufferSize
  BY <1>1, SlotWraps
<1>3. Slot(a + m) + j \in 0 .. 2 * BufferSize - 1
  BY <1>2
<1>4. Slot(Slot(a + m) + j) = IF Slot(a + m) + j < BufferSize THEN Slot(a + m) + j
                                                            ELSE Slot(a + m) + j - BufferSize
  BY <1>3, SlotWraps
<1>5. Slot(a + (m + j)) = IF a + (m + j) < BufferSize THEN a + (m + j)
                                                      ELSE a + (m + j) - BufferSize
  BY <1>1, SlotWraps
<1>6. QED
  BY <1>2, <1>4, <1>5

(* The slot j bytes after the oldest byte, seen from the free end of the   *)
(* ring: bytes beyond the free end come next, older bytes come last.       *)
LEMMA DistanceFromEnd ==
  ASSUME TypeOK, NEW j \in 0 .. BufferSize - 1
  PROVE  /\ Slot(offset + j) \in Slots
         /\ Distance(Slot(offset + j), length) =
              IF j >= length THEN j - length ELSE j - length + BufferSize
<1>1. /\ offset + j \in 0 .. 2 * BufferSize - 1
      /\ offset + length \in 0 .. 2 * BufferSize - 1
  BY SizesAssumption DEF TypeOK, Slots
<1>2. Slot(offset + j) = IF offset + j < BufferSize THEN offset + j ELSE offset + j - BufferSize
  BY <1>1, SlotWraps, SizesAssumption DEF TypeOK, Slots
<1>3. Slot(offset + length) = IF offset + length < BufferSize
                                THEN offset + length ELSE offset + length - BufferSize
  BY <1>1, SlotWraps, SizesAssumption DEF TypeOK, Slots
<1>4. QED
  BY <1>2, <1>3, SizesAssumption DEF TypeOK, Slots, Distance

(* Nothing has been read and nothing has been sent.                        *)
LEMMA InitIInv == Init => IInv
<1> SUFFICES ASSUME Init PROVE IInv
  OBVIOUS
<1> USE SizesAssumption DEF Init
<1>1. TypeOK
  <2>1. ring \in [Slots -> 0 .. Total] /\ sent \in [Bytes -> 0 .. Total]
    OBVIOUS
  <2>2. offset \in Slots /\ length \in 0 .. BufferSize /\ room \in 0 .. BufferSize
    BY DEF Slots
  <2>3. chunk \in 0 .. BufferSize /\ made \in 0 .. Total /\ got \in 0 .. made /\ done \in 0 .. got
    OBVIOUS
  <2>4. fill \in 0 .. BlockSize
    OBVIOUS
  <2>5. /\ http \in HttpPoints /\ reader \in ReaderPoints /\ writer \in WriterPoints
        /\ encoder \in {"none", "start", "writing", "exited"}
        /\ why \in {"none", "quiet", "full", "eof"}
    BY DEF HttpPoints, ReaderPoints, WriterPoints
  <2>6. /\ asleep \in BOOLEAN /\ ended \in BOOLEAN
        /\ rrunning \in BOOLEAN /\ writing \in BOOLEAN /\ wrunning \in BOOLEAN /\ pid \in BOOLEAN
    OBVIOUS
  <2>7. QED
    BY <2>1, <2>2, <2>3, <2>4, <2>5, <2>6, Zenon DEF TypeOK
<1>2. RingInv
  BY DEF RingInv, Slots, Bytes
<1>3. RoomInv /\ EofInv /\ PhaseInv /\ EndIsEnd
  BY DEF RoomInv, EofInv, PhaseInv, NoOverrun, EndIsEnd, ReaderStarted, Serving
<1>4. QED
  BY <1>1, <1>2, <1>3 DEF IInv

(* The memcpy of the reader puts its chunk behind the bytes in the ring.   *)
LEMMA CopyInStep == ASSUME IInv, ReaderCopy PROVE IInv'
<1> USE SizesAssumption DEF IInv, TypeOK, RingInv, RoomInv, EofInv, PhaseInv, NoOverrun, EndIsEnd,
        Serving, ReaderStarted, ReaderStopped, ReaderPoints
<1>1. /\ reader = "copy" /\ chunk' = 0 /\ writing' \in BOOLEAN /\ asleep' \in BOOLEAN
      /\ UNCHANGED << http, fill, done, sent, ended, writer, encoder, rrunning, wrunning, pid,
                      offset, room, why, got, made >>
  BY DEF ReaderCopy, SignalReaderCond
<1>2. CASE rrunning
  <2>1. reader' = "top" /\ CopyIn
    BY <1>2 DEF ReaderCopy
  <2>2. length' = length + chunk /\ length' \in 0 .. BufferSize
    BY <1>1, <2>1 DEF CopyIn
  <2>3. ring' \in [Slots -> 0 .. Total]
    <3>1. ASSUME NEW k \in Slots, Distance(k, length) < chunk
          PROVE  got - chunk + Distance(k, length) \in 0 .. Total
      <4>1. offset + length \in 0 .. 2 * BufferSize - 1
        BY DEF Slots
      <4>2. Slot(offset + length) \in Slots
        BY <4>1, SlotWraps DEF Slots
      <4>3. Distance(k, length) \in Nat
        BY <4>2 DEF Distance, Slots
      <4>4. QED
        BY <3>1, <4>3
    <3>2. QED
      BY <2>1, <3>1 DEF CopyIn
  <2>4. ASSUME NEW j \in Slots, j < length' PROVE ring'[Slot(offset + j)] = done + j
    <3>1. j \in 0 .. BufferSize - 1
      BY DEF Slots
    <3>2. /\ Slot(offset + j) \in Slots
          /\ Distance(Slot(offset + j), length) =
               IF j >= length THEN j - length ELSE j - length + BufferSize
      BY <3>1, DistanceFromEnd
    <3>3. ring'[Slot(offset + j)] = IF Distance(Slot(offset + j), length) < chunk
                                     THEN got - chunk + Distance(Slot(offset + j), length)
                                     ELSE ring[Slot(offset + j)]
      BY <2>1, <3>2 DEF CopyIn
    <3>4. CASE j >= length
      <4>1. done + length + chunk = got
        BY <1>1, <1>2
      <4>2. j - length < chunk /\ got - chunk + (j - length) = done + j
        BY <2>2, <2>4, <4>1 DEF Slots
      <4>3. Distance(Slot(offset + j), length) = j - length
        BY <3>2, <3>4
      <4>4. QED
        BY <3>3, <4>2, <4>3
    <3>5. CASE j < length
      BY <1>1, <3>2, <3>3, <3>5 DEF Slots
    <3>6. QED
      BY <3>4, <3>5 DEF Slots
  <2>5. RingInv'
    BY <1>1, <2>2, <2>4
  <2>6. QED
    BY <1>1, <1>2, <2>1, <2>2, <2>3, <2>5
<1>3. CASE ~rrunning
  <2>1. reader' = "out" /\ UNCHANGED << ring, length >>
    BY <1>3 DEF ReaderCopy
  <2>2. QED
    BY <1>1, <1>3, <2>1
<1>4. QED
  BY <1>2, <1>3

(* The memcpy of vfsread takes the oldest bytes out of the ring, in order. *)
LEMMA TakenInOrder ==
  ASSUME IInv, NEW n \in 0 .. length, CopyOut(n), Advance(n), UNCHANGED ring
  PROVE  /\ done' = done + n /\ length' = length - n /\ offset' \in Slots
         /\ sent' = [k \in Bytes |-> IF done <= k /\ k < done' THEN k ELSE sent[k]]
         /\ \A j \in Slots : j < length' => ring'[Slot(offset' + j)] = done' + j
<1> USE SizesAssumption DEF IInv, TypeOK, RingInv
<1>1. done' = done + n /\ length' = length - n /\ offset' = Slot(offset + n)
  BY DEF CopyOut, Advance
<1>2. offset' \in Slots
  <2>1. offset + n \in 0 .. 2 * BufferSize - 1
    BY DEF Slots
  <2>2. QED
    BY <1>1, <2>1, SlotWraps DEF Slots
<1>3. ASSUME NEW k \in Bytes, done <= k, k < done + n
      PROVE  ring[Slot(offset + (k - done))] = k
  <2>1. k - done \in Slots /\ k - done < length /\ done + (k - done) = k
    BY <1>3 DEF Bytes, Slots
  <2>2. QED
    BY <2>1
<1>4. sent' = [k \in Bytes |-> IF done <= k /\ k < done' THEN k ELSE sent[k]]
  BY <1>1, <1>3 DEF CopyOut
<1>5. ASSUME NEW j \in Slots, j < length'
      PROVE  ring'[Slot(offset' + j)] = done' + j
  <2>1. n + j \in Slots /\ n \in Slots /\ n + j < length
    BY <1>1, <1>5 DEF Slots
  <2>2. Slot(Slot(offset + n) + j) = Slot(offset + (n + j))
    BY <2>1, SlotTwice
  <2>3. ring[Slot(offset + (n + j))] = done + (n + j)
    BY <2>1
  <2>4. QED
    BY <1>1, <2>1, <2>2, <2>3 DEF Slots
<1>6. QED
  BY <1>1, <1>2, <1>4, <1>5

(* A read keeps the invariant.                                             *)
LEMMA ReadStep == ASSUME IInv, Read PROVE IInv'
<1> DEFINE n == Least(length, BlockSize - fill)
<1> USE SizesAssumption DEF IInv, TypeOK, PhaseInv
<1>1. http = "read" /\ fill < BlockSize /\ n \in 0 .. length /\ fill + n \in 0 .. BlockSize
  BY DEF Read, Least
<1>2. /\ CopyOut(n) /\ Advance(n) /\ fill' = fill + n
      /\ UNCHANGED << reader, writer, encoder, rrunning, writing, wrunning, pid, ring,
                      room, chunk, why, got, made >>
  BY DEF Read, flags, readvars
<1>3. /\ done' = done + n /\ length' = length - n /\ offset' \in Slots
      /\ sent' = [k \in Bytes |-> IF done <= k /\ k < done' THEN k ELSE sent[k]]
      /\ \A j \in Slots : j < length' => ring'[Slot(offset' + j)] = done' + j
  BY <1>1, <1>2, TakenInOrder
<1>4. \/ fill' = BlockSize /\ http' = "ready" /\ UNCHANGED << asleep, ended >>
      \/ fill' # BlockSize /\ rrunning /\ asleep' = TRUE /\ UNCHANGED << http, ended >>
      \/ /\ fill' # BlockSize /\ ~rrunning
         /\ http' = IF fill' = 0 THEN "kill" ELSE "ready"
         /\ ended' = (fill' = 0)
         /\ UNCHANGED asleep
  BY DEF Read
<1>5. done + length + chunk = got /\ done' + length' + chunk' = got'
  BY <1>1, <1>2, <1>3 DEF RingInv, Serving
<1>6. TypeOK'
  <2>1. done' \in 0 .. got' /\ length' \in 0 .. BufferSize /\ fill' \in 0 .. BlockSize
    BY <1>1, <1>2, <1>3, <1>5
  <2>2. sent' \in [Bytes -> 0 .. Total]
    BY <1>3 DEF Bytes
  <2>3. http' \in HttpPoints /\ asleep' \in BOOLEAN /\ ended' \in BOOLEAN
    BY <1>1, <1>4 DEF HttpPoints
  <2>4. QED
    BY <1>2, <1>3, <2>1, <2>2, <2>3
<1>7. RingInv'
  <2>1. \A k \in Bytes : k < done' => sent'[k] = k
    BY <1>3 DEF RingInv, Bytes
  <2>2. done' + length' + chunk' <= got'
    BY <1>2, <1>5
  <2>3. QED
    BY <1>3, <1>5, <2>1, <2>2 DEF RingInv
<1>8. RoomInv' /\ EofInv'
  BY <1>1, <1>2, <1>3 DEF RoomInv, EofInv, NoOverrun
<1>9. PhaseInv' /\ EndIsEnd'
  <2>1. CASE UNCHANGED ended
    BY <1>1, <1>2, <1>3, <1>4, <1>5, <2>1
    DEF EndIsEnd, EofInv, Serving, ReaderStarted, ReaderStopped
  <2>2. CASE ~rrunning /\ ended' = (fill' = 0) /\ fill' # BlockSize
                       /\ http' = IF fill' = 0 THEN "kill" ELSE "ready"
    <3>1. ReaderStarted /\ ReaderStopped /\ chunk = 0
      BY <1>1, <2>2 DEF Serving, ReaderStarted, ReaderStopped, RoomInv
    <3>2. ended' => n = 0 /\ length = 0
      BY <1>1, <1>2, <2>2 DEF Least
    <3>3. QED
      BY <1>1, <1>2, <1>3, <1>5, <2>2, <3>1, <3>2
      DEF EndIsEnd, EofInv, Serving, ReaderStarted, ReaderStopped
  <2>3. QED
    BY <1>4, <2>1, <2>2
<1>10. QED
  BY <1>6, <1>7, <1>8, <1>9

(* A step that leaves the ring, the fifo and the stream alone and neither   *)
(* moves the reader into its loop nor revives the encoder only has to keep  *)
(* the types and the phases.                                               *)
LEMMA OnlyPhases ==
  ASSUME IInv, TypeOK', PhaseInv', Serving' => Serving,
         UNCHANGED << done, sent, ended, ring, offset, length, room, chunk, why, got, made >>,
         reader' = reader \/ (reader = "none" /\ reader' = "start"),
         encoder' = encoder \/ encoder' = "exited"
  PROVE  IInv'
<1>1. RingInv'
  BY DEF IInv, RingInv
<1>2. RoomInv'
  BY DEF IInv, RoomInv, NoOverrun
<1>3. EofInv' /\ EndIsEnd'
  BY DEF IInv, EofInv, EndIsEnd
<1>4. QED
  BY <1>1, <1>2, <1>3 DEF IInv

(* The other steps of the HTTP thread keep the invariant.                  *)
LEMMA HttpStep ==
  ASSUME IInv,
         \/ StartWriter \/ StartReader \/ AwaitReader \/ AwaitWriting \/ ReadCall \/ CloseCall
         \/ HttpStops \/ SpuriousWakeup
  PROVE  IInv'
<1> USE SizesAssumption DEF IInv, TypeOK, PhaseInv, Serving, ReaderStarted, ReaderStopped, Await
<1> USE DEF flags, ringvars, readvars, HttpPoints, ReaderPoints, WriterPoints
<1>1. UNCHANGED << done, sent, ended, ring, offset, length, room, chunk, why, got, made >>
  BY DEF StartWriter, StartReader, AwaitReader, AwaitWriting, ReadCall, CloseCall, HttpStops,
         Kill, StopReader, AwaitReaderStopped, StopWriter, AwaitWriterStopped, Free, SpuriousWakeup
<1>2. CASE StartWriter
  <2>1. TypeOK' /\ PhaseInv' /\ (Serving' => Serving)
    BY <1>1, <1>2 DEF StartWriter
  <2>2. /\ reader' = reader \/ (reader = "none" /\ reader' = "start")
        /\ encoder' = encoder \/ encoder' = "exited"
    BY <1>2 DEF StartWriter
  <2>3. QED
    BY <1>1, <2>1, <2>2, OnlyPhases
<1>3. CASE StartReader
  <2>0. /\ asleep' \in BOOLEAN /\ http = "wstarted"
        /\ \/ http' = "rstarted" /\ reader' = "start"
           \/ http' = "wstarted" /\ reader' = reader
        /\ UNCHANGED << fill, writer, encoder, rrunning, writing, wrunning, pid >>
    BY <1>3 DEF StartReader, WriterStarted
  <2>1. TypeOK' /\ PhaseInv' /\ (Serving' => Serving)
    BY <1>1, <2>0
  <2>2. /\ reader' = reader \/ (reader = "none" /\ reader' = "start")
        /\ encoder' = encoder \/ encoder' = "exited"
    BY <1>3 DEF StartReader
  <2>3. QED
    BY <1>1, <2>1, <2>2, OnlyPhases
<1>4. CASE AwaitReader
  <2>0. /\ asleep' \in BOOLEAN /\ http = "rstarted" /\ http' \in {"rstarted", "opening"}
        /\ http' = "opening" => ReaderStarted
        /\ UNCHANGED << fill, reader, writer, encoder, rrunning, writing, wrunning, pid >>
    BY <1>4 DEF AwaitReader
  <2>1. TypeOK' /\ PhaseInv' /\ (Serving' => Serving)
    BY <1>1, <2>0
  <2>2. /\ reader' = reader \/ (reader = "none" /\ reader' = "start")
        /\ encoder' = encoder \/ encoder' = "exited"
    BY <1>4 DEF AwaitReader
  <2>3. QED
    BY <1>1, <2>1, <2>2, OnlyPhases
<1>5. CASE AwaitWriting
  <2>0. /\ asleep' \in BOOLEAN /\ http = "opening" /\ http' \in {"opening", "ready"}
        /\ http' = "ready" => (~rrunning \/ writing)
        /\ UNCHANGED << fill, reader, writer, encoder, rrunning, writing, wrunning, pid >>
    BY <1>5 DEF AwaitWriting
  <2>1. TypeOK' /\ PhaseInv' /\ (Serving' => Serving)
    BY <1>1, <2>0
  <2>2. /\ reader' = reader \/ (reader = "none" /\ reader' = "start")
        /\ encoder' = encoder \/ encoder' = "exited"
    BY <1>5 DEF AwaitWriting
  <2>3. QED
    BY <1>1, <2>1, <2>2, OnlyPhases
<1>6. CASE ReadCall
  <2>1. TypeOK' /\ PhaseInv' /\ (Serving' => Serving)
    BY <1>1, <1>6 DEF ReadCall
  <2>2. /\ reader' = reader \/ (reader = "none" /\ reader' = "start")
        /\ encoder' = encoder \/ encoder' = "exited"
    BY <1>6 DEF ReadCall
  <2>3. QED
    BY <1>1, <2>1, <2>2, OnlyPhases
<1>7. CASE CloseCall
  <2>1. TypeOK' /\ PhaseInv' /\ (Serving' => Serving)
    BY <1>1, <1>7 DEF CloseCall
  <2>2. /\ reader' = reader \/ (reader = "none" /\ reader' = "start")
        /\ encoder' = encoder \/ encoder' = "exited"
    BY <1>7 DEF CloseCall
  <2>3. QED
    BY <1>1, <2>1, <2>2, OnlyPhases
<1>8. CASE Kill
  <2>1. TypeOK' /\ PhaseInv' /\ (Serving' => Serving)
    BY <1>1, <1>8 DEF Kill
  <2>2. /\ reader' = reader \/ (reader = "none" /\ reader' = "start")
        /\ encoder' = encoder \/ encoder' = "exited"
    BY <1>8 DEF Kill
  <2>3. QED
    BY <1>1, <2>1, <2>2, OnlyPhases
<1>9. CASE StopReader
  <2>0. /\ rrunning' = FALSE /\ rrunning' \in BOOLEAN /\ http = "stopreader" /\ http' = "rstopped"
        /\ UNCHANGED << asleep, fill, reader, writer, encoder, writing, wrunning, pid >>
    BY <1>9 DEF StopReader
  <2>1. TypeOK' /\ PhaseInv' /\ (Serving' => Serving)
    BY <1>1, <2>0
  <2>2. /\ reader' = reader \/ (reader = "none" /\ reader' = "start")
        /\ encoder' = encoder \/ encoder' = "exited"
    BY <1>9 DEF StopReader
  <2>3. QED
    BY <1>1, <2>1, <2>2, OnlyPhases
<1>10. CASE AwaitReaderStopped
  <2>0. /\ asleep' \in BOOLEAN /\ http = "rstopped" /\ http' \in {"rstopped", "joinreader"}
        /\ http' = "joinreader" => ReaderStopped
        /\ UNCHANGED << fill, reader, writer, encoder, rrunning, writing, wrunning, pid >>
    BY <1>10 DEF AwaitReaderStopped
  <2>1. TypeOK' /\ PhaseInv' /\ (Serving' => Serving)
    BY <1>1, <2>0
  <2>2. /\ reader' = reader \/ (reader = "none" /\ reader' = "start")
        /\ encoder' = encoder \/ encoder' = "exited"
    BY <1>10 DEF AwaitReaderStopped
  <2>3. QED
    BY <1>1, <2>1, <2>2, OnlyPhases
<1>11. CASE StopWriter
  <2>0. /\ wrunning' \in BOOLEAN /\ http = "joinreader" /\ http' = "wstopped"
        /\ UNCHANGED << asleep, fill, reader, writer, encoder, rrunning, writing, pid >>
    BY <1>11 DEF StopWriter
  <2>1. TypeOK' /\ PhaseInv' /\ (Serving' => Serving)
    BY <1>1, <2>0
  <2>2. /\ reader' = reader \/ (reader = "none" /\ reader' = "start")
        /\ encoder' = encoder \/ encoder' = "exited"
    BY <1>11 DEF StopWriter
  <2>3. QED
    BY <1>1, <2>1, <2>2, OnlyPhases
<1>12. CASE AwaitWriterStopped
  <2>0. /\ asleep' \in BOOLEAN /\ http = "wstopped" /\ http' \in {"wstopped", "joinwriter"}
        /\ http' = "joinwriter" => TRUE
        /\ UNCHANGED << fill, reader, writer, encoder, rrunning, writing, wrunning, pid >>
    BY <1>12 DEF AwaitWriterStopped
  <2>1. TypeOK' /\ PhaseInv' /\ (Serving' => Serving)
    BY <1>1, <2>0
  <2>2. /\ reader' = reader \/ (reader = "none" /\ reader' = "start")
        /\ encoder' = encoder \/ encoder' = "exited"
    BY <1>12 DEF AwaitWriterStopped
  <2>3. QED
    BY <1>1, <2>1, <2>2, OnlyPhases
<1>13. CASE Free
  <2>1. TypeOK' /\ PhaseInv' /\ (Serving' => Serving)
    BY <1>1, <1>13 DEF Free
  <2>2. /\ reader' = reader \/ (reader = "none" /\ reader' = "start")
        /\ encoder' = encoder \/ encoder' = "exited"
    BY <1>13 DEF Free
  <2>3. QED
    BY <1>1, <2>1, <2>2, OnlyPhases
<1>14. CASE SpuriousWakeup
  <2>0. /\ asleep' \in BOOLEAN
        /\ UNCHANGED << http, fill, reader, writer, encoder, rrunning, writing, wrunning, pid >>
    BY <1>14 DEF SpuriousWakeup
  <2>1. TypeOK' /\ PhaseInv' /\ (Serving' => Serving)
    BY <1>1, <2>0
  <2>2. /\ reader' = reader \/ (reader = "none" /\ reader' = "start")
        /\ encoder' = encoder \/ encoder' = "exited"
    BY <1>14 DEF SpuriousWakeup
  <2>3. QED
    BY <1>1, <2>1, <2>2, OnlyPhases
<1>15. QED
  BY <1>2, <1>3, <1>4, <1>5, <1>6, <1>7, <1>8, <1>9, <1>10, <1>11, <1>12, <1>13, <1>14
  DEF HttpStops

(* The steps of the reader, apart from the copy into the ring.             *)
LEMMA ReaderStep ==
  ASSUME IInv,
         \/ ReaderStart \/ ReaderFails \/ FifoOpen \/ ReaderTop \/ ReaderPoll \/ ReaderRead
         \/ ReaderCheck \/ ReaderStop \/ ReaderReturn
  PROVE  IInv'
<1> USE SizesAssumption DEF IInv, TypeOK, RoomInv, EofInv, PhaseInv, NoOverrun, EndIsEnd,
        Serving, ReaderStarted, ReaderStopped, SignalReaderCond, ReaderPoints,
        flags, ringvars, readvars, httpvars
<1>1. CASE ReaderRead
  <2> DEFINE r == Least(room, made - got)
  <2>1. r \in 0 .. room /\ r \in 0 .. made - got /\ chunk = 0
    BY <1>1 DEF ReaderRead, Least
  <2>2. /\ chunk' = r /\ got' = got + r /\ reader = "read"
        /\ UNCHANGED << httpvars, writer, encoder, flags, ringvars, room, made >>
    BY <1>1 DEF ReaderRead
  <2>3. CASE r > 0
    <3>0. room # 0
      BY <2>1, <2>3
    <3>1. reader' = "copy" /\ why' = why
      BY <1>1, <2>3, <3>0 DEF ReaderRead
    <3>2. TypeOK' /\ RingInv'
      BY <2>1, <2>2, <3>1 DEF RingInv
    <3>3. RoomInv' /\ EofInv' /\ PhaseInv' /\ EndIsEnd'
      BY <2>1, <2>2, <2>3, <3>1
    <3>4. QED
      BY <3>2, <3>3
  <2>4. CASE r = 0
    <3>1. reader' = "check" /\ why' = IF room = 0 THEN "full" ELSE "eof"
      BY <1>1, <2>4 DEF ReaderRead
    <3>2. room # 0 => got = made
      BY <2>4 DEF Least
    <3>3. TypeOK' /\ RingInv'
      BY <2>1, <2>2, <2>4, <3>1 DEF RingInv
    <3>4. RoomInv' /\ EofInv' /\ PhaseInv' /\ EndIsEnd'
      BY <2>1, <2>2, <2>4, <3>1, <3>2
    <3>5. QED
      BY <3>3, <3>4
  <2>5. QED
    BY <2>1, <2>3, <2>4
<1>2. CASE ReaderTop
  <2>1. Least(BufferSize - length, ReadSize) \in 0 .. BufferSize - length
    BY DEF Least
  <2>2. QED
    BY <1>2, <2>1 DEF ReaderTop, RingInv
<1>3. CASE ReaderStart
  BY <1>3 DEF ReaderStart, RingInv
<1>4. CASE ReaderFails
  BY <1>4 DEF ReaderFails, RingInv
<1>5. CASE FifoOpen
  BY <1>5 DEF FifoOpen, RingInv
<1>6. CASE ReaderPoll
  BY <1>6 DEF ReaderPoll, RingInv
<1>7. CASE ReaderCheck
  BY <1>7 DEF ReaderCheck, RingInv
<1>8. CASE ReaderStop
  <2>1. /\ reader = "out" /\ reader' = "return" /\ rrunning' = FALSE /\ asleep' \in BOOLEAN
        /\ UNCHANGED << http, fill, done, sent, ended, writer, encoder, writing, wrunning, pid,
                        ringvars, readvars, made >>
    BY <1>8 DEF ReaderStop
  <2>2. TypeOK' /\ RingInv'
    BY <2>1 DEF RingInv
  <2>3. RoomInv' /\ EofInv' /\ PhaseInv' /\ EndIsEnd'
    BY <2>1
  <2>4. QED
    BY <2>2, <2>3
<1>9. CASE ReaderReturn
  BY <1>9 DEF ReaderReturn, RingInv
<1>10. QED
  BY <1>1, <1>2, <1>3, <1>4, <1>5, <1>6, <1>7, <1>8, <1>9

(* The steps of the writer.                                                *)
LEMMA WriterStep == ASSUME IInv, Writer \/ WriterTold PROVE IInv'
<1> USE SizesAssumption DEF IInv, TypeOK, PhaseInv, Serving, ReaderStarted, ReaderStopped,
        WriterPoints, flags, ringvars, readvars, httpvars
<1>1. CASE WriterStart
  BY <1>1 DEF WriterStart, SignalWriterCond, RingInv, RoomInv, EofInv, NoOverrun, EndIsEnd
<1>2. CASE WriterPopen
  BY <1>2 DEF WriterPopen, RingInv, RoomInv, EofInv, NoOverrun, EndIsEnd
<1>3. CASE WriterPid
  BY <1>3 DEF WriterPid, RingInv, RoomInv, EofInv, NoOverrun, EndIsEnd
<1>4. CASE WriterGets
  BY <1>4 DEF WriterGets, RingInv, RoomInv, EofInv, NoOverrun, EndIsEnd
<1>5. CASE WriterTold
  BY <1>5 DEF WriterTold, RingInv, RoomInv, EofInv, NoOverrun, EndIsEnd
<1>6. CASE WriterStop
  <2>1. /\ writer = "out" /\ writer' = "return" /\ wrunning' \in BOOLEAN /\ asleep' \in BOOLEAN
        /\ UNCHANGED << http, fill, done, sent, ended, reader, encoder, rrunning, writing, pid,
                        ring, offset, length, room, chunk, why, got, made >>
    BY <1>6 DEF WriterStop, SignalWriterCond
  <2>2. TypeOK'
    BY <2>1
  <2>3. RingInv'
    BY <2>1 DEF RingInv
  <2>4. RoomInv' /\ EofInv' /\ EndIsEnd'
    BY <2>1 DEF RoomInv, EofInv, NoOverrun, EndIsEnd
  <2>5. PhaseInv'
    BY <2>1
  <2>6. QED
    BY <2>2, <2>3, <2>4, <2>5
<1>7. CASE WriterReturn
  BY <1>7 DEF WriterReturn, RingInv, RoomInv, EofInv, NoOverrun, EndIsEnd
<1>8. QED
  BY <1>1, <1>2, <1>3, <1>4, <1>5, <1>6, <1>7 DEF Writer

(* The steps of the encoder.                                               *)
LEMMA EncoderStep == ASSUME IInv, EncoderWrite \/ EncoderExit PROVE IInv'
<1> USE SizesAssumption DEF IInv, TypeOK, PhaseInv, Serving, ReaderStarted, ReaderStopped,
        flags, ringvars, readvars, httpvars
<1>1. CASE EncoderWrite
  BY <1>1 DEF EncoderWrite, RingInv, RoomInv, EofInv, NoOverrun, EndIsEnd
<1>2. CASE EncoderExit
  BY <1>2 DEF EncoderExit, RingInv, RoomInv, EofInv, NoOverrun, EndIsEnd
<1>3. QED
  BY <1>1, <1>2

(* IInv is inductive.                                                      *)
LEMMA NextIInv == IInv /\ [Next]_vars => IInv'
<1> SUFFICES ASSUME IInv, [Next]_vars PROVE IInv'
  OBVIOUS
<1>1. CASE Http
  BY <1>1, HttpStep, ReadStep DEF Http, HttpWaits
<1>2. CASE Reader \/ ReaderFails
  BY <1>2, ReaderStep, CopyInStep DEF Reader
<1>3. CASE Writer \/ WriterTold
  BY <1>3, WriterStep
<1>4. CASE EncoderWrite \/ EncoderExit
  BY <1>4, EncoderStep
<1>5. CASE SpuriousWakeup
  BY <1>5, HttpStep
<1>6. CASE UNCHANGED vars
  BY <1>6 DEF vars, httpvars, flags, ringvars, readvars, IInv, TypeOK, RingInv, RoomInv, EofInv,
              PhaseInv, NoOverrun, EndIsEnd, Serving, ReaderStarted, ReaderStopped
<1>7. QED
  BY <1>1, <1>2, <1>3, <1>4, <1>5, <1>6 DEF Next, Terminated

(* IInv holds in every reachable state.                                    *)
THEOREM Invariance == Spec => []IInv
  BY InitIInv, NextIInv, PTL DEF Spec

(* Every variable keeps its type: no index of the ring, no count of bytes  *)
(* ever leaves its range.                                                  *)
THEOREM TypeCorrect == Spec => []TypeOK
<1>1. IInv => TypeOK
  BY DEF IInv
<1>2. QED
  BY <1>1, Invariance, PTL

(* The reader never overwrites bytes that have not been read.              *)
THEOREM NoOverrunThm == Spec => []NoOverrun
<1>1. IInv => NoOverrun
  BY DEF IInv, RoomInv
<1>2. QED
  BY <1>1, Invariance, PTL

(* A read returns nothing only at the end of what the reader has read.     *)
THEOREM EndIsEndThm == Spec => []EndIsEnd
<1>1. IInv => EndIsEnd
  BY DEF IInv
<1>2. QED
  BY <1>1, Invariance, PTL

(* Every step is a step of the stream, or leaves it alone.                 *)
LEMMA StreamStep == IInv /\ [Next]_vars => [Stream!Next]_(Stream!vars)
<1> SUFFICES ASSUME IInv, [Next]_vars PROVE Stream!Next \/ UNCHANGED << made, done, sent >>
  BY DEF Stream!vars
<1>1. CASE Read
  <2> DEFINE n == Least(length, BlockSize - fill)
  <2>1. http = "read" /\ fill < BlockSize /\ n \in 0 .. length
    BY <1>1, SizesAssumption DEF Read, Least, IInv, TypeOK, PhaseInv
  <2>2. CopyOut(n) /\ Advance(n) /\ UNCHANGED << ring, made >>
    BY <1>1 DEF Read
  <2>3. /\ done' = done + n
        /\ sent' = [k \in Bytes |-> IF done <= k /\ k < done' THEN k ELSE sent[k]]
    BY <2>1, <2>2, TakenInOrder
  <2>4. done' \in done .. made
    BY <2>1, <2>3, SizesAssumption DEF IInv, TypeOK, RingInv
  <2>5. QED
    BY <2>2, <2>3, <2>4 DEF Stream!Next, Stream!Deliver, Bytes
<1>2. CASE EncoderWrite
  BY <1>2 DEF EncoderWrite, httpvars, Stream!Next, Stream!Produce
<1>3. CASE ~Read /\ ~EncoderWrite
  BY <1>3 DEF Next, Http, HttpWaits, HttpStops, StartWriter, StartReader, AwaitReader, AwaitWriting,
     ReadCall, CloseCall, Kill, StopReader, AwaitReaderStopped, StopWriter, AwaitWriterStopped, Free,
     Reader, ReaderStart, ReaderFails, FifoOpen, ReaderTop, ReaderPoll, ReaderRead, ReaderCheck,
     ReaderCopy, ReaderStop, ReaderReturn, Writer, WriterStart, WriterPopen, WriterPid, WriterGets,
     WriterTold, WriterStop, WriterReturn, EncoderExit, SpuriousWakeup, Terminated, vars, httpvars
<1>4. QED
  BY <1>1, <1>2, <1>3

(* Whatever the sizes of the buffers between them, the client gets the     *)
(* encoder's bytes, each once and in order.                                *)
THEOREM StreamImplemented == Spec => StreamInOrder
<1>1. Init => Stream!Init
  BY DEF Init, Stream!Init, Bytes
<1>2. QED
  BY <1>1, StreamStep, Invariance, PTL DEF Spec, StreamInOrder, Stream!Spec

-----------------------------------------------------------------------------
(* The database.                                                           *)

(* What a sequence is after an element has been added at its end.          *)
LEMMA Appended ==
  ASSUME NEW S, NEW s \in Seq(S), NEW e \in S
  PROVE  /\ Append(s, e) \in Seq(S) /\ Len(s) \in Nat
         /\ Len(Append(s, e)) = Len(s) + 1 /\ DOMAIN s = 1 .. Len(s) /\ DOMAIN Append(s, e) = 1 .. Len(s) + 1
         /\ \A i \in DOMAIN s : i \in DOMAIN Append(s, e) /\ Append(s, e)[i] = s[i]
         /\ Append(s, e)[Len(s) + 1] = e
  OBVIOUS

(* The elements of a sequence with one more in front are this one and those *)
(* it had.                                                                 *)
LEMMA Pushed ==
  ASSUME NEW S, NEW s \in Seq(S), NEW e \in S
  PROVE  /\ << e >> \o s \in Seq(S) /\ << e >> \o s # << >> /\ (<< e >> \o s)[1] = e
         /\ \A k \in DOMAIN (<< e >> \o s) : (<< e >> \o s)[k] = e \/ \E l \in DOMAIN s : (<< e >> \o s)[k] = s[l]
<1> DEFINE t == << e >> \o s
<1>1. t \in Seq(S) /\ Len(t) = Len(s) + 1 /\ Len(s) \in Nat /\ t[1] = e
  OBVIOUS
<1>2. \A k \in 1 .. Len(s) + 1 : k # 1 => t[k] = s[k - 1] /\ k - 1 \in 1 .. Len(s)
  OBVIOUS
<1>3. DOMAIN s = 1 .. Len(s) /\ DOMAIN t = 1 .. Len(s) + 1
  BY <1>1
<1> HIDE DEF t
<1>4. t # << >>
  BY <1>1
<1>5. \A k \in DOMAIN t : t[k] = e \/ \E l \in DOMAIN s : t[k] = s[l]
  BY <1>1, <1>2, <1>3
<1>6. QED
  BY <1>1, <1>4, <1>5 DEF t

(* What a sequence that is not empty has at its head, and without it.      *)
LEMMA Shortened ==
  ASSUME NEW S, NEW s \in Seq(S), s # << >>
  PROVE  /\ s[1] \in S /\ Head(s) = s[1] /\ 1 \in DOMAIN s
         /\ Tail(s) \in Seq(S) /\ (Tail(s) = << >> <=> Len(s) = 1)
         /\ \A k \in DOMAIN Tail(s) : \E l \in DOMAIN s : Tail(s)[k] = s[l]
<1>1. /\ s[1] \in S /\ Head(s) = s[1] /\ Tail(s) \in Seq(S) /\ Len(s) \in Nat /\ Len(s) # 0
      /\ DOMAIN s = 1 .. Len(s) /\ Len(Tail(s)) = Len(s) - 1 /\ DOMAIN Tail(s) = 1 .. Len(s) - 1
  OBVIOUS
<1>2. \A k \in 1 .. Len(s) - 1 : Tail(s)[k] = s[k + 1] /\ k + 1 \in 1 .. Len(s)
  OBVIOUS
<1>3. Tail(s) = << >> <=> Len(s) = 1
  <2>1. \A t \in Seq(S) : t = << >> <=> Len(t) = 0
    OBVIOUS
  <2>2. Tail(s) = << >> <=> Len(s) - 1 = 0
    BY <1>1, <2>1, Zenon
  <2>3. QED
    BY <1>1, <2>2
<1>4. QED
  BY <1>1, <1>2, <1>3

(* The rows that there are stay where they are while others are added.     *)
Grown ==
  /\ \A n \in DOMAIN details : n \in DOMAIN details' /\ details'[n] = details[n]
  /\ \A i \in DOMAIN objects : i \in DOMAIN objects' /\ objects'[i] = objects[i]

(* An id that leads to a directory does so when there are more rows.       *)
LEMMA LeadsOn ==
  ASSUME RowsInv, Grown, NEW id, NEW dir, Leads(id, dir)
  PROVE  Leads(id, dir)'
<1>1. \A j \in DOMAIN objects : /\ j \in DOMAIN objects' /\ objects'[j].id = objects[j].id
                               /\ EntryOf(objects[j])' = EntryOf(objects[j])
  BY DEF Grown, RowsInv, EntryOf
<1>2. QED
  BY <1>1 DEF Leads

(* There are no rows and no calls at the beginning.                        *)
LEMMA CatalogInitially == CatalogInit => CatalogInv
  BY CatalogAssumption DEF CatalogInit, CatalogInv, ScanOK, RowsInv, FramesInv, PendingInv

\* What the invariant depends on stays as it is.
Same == UNCHANGED << disk, details, objects, last, pc, stack, pending, spoilt >>

(* A request changes no more than the answer, or ends the program.         *)
LEMMA ReplyEnds ==
  ASSUME NEW do, NEW id, NEW class, NEW page, NEW matching, NEW missing,
         Reply(do, id, class, page, matching, missing)
  PROVE  End \/ Same
  BY DEF Reply, tables, history, Same

(* So it is with each of them.                                             *)
LEMMA RequestEnds ==
  ASSUME \/ Open
         \/ \E id \in Ids : \/ Metadata(id) \/ Info(id)
                             \/ \E page \in Pages : \/ Browse(id, page)
                                                    \/ \E class \in Classes : Search(id, class, page)
  PROVE  End \/ Same
<1>1. CASE Open
  BY <1>1, ReplyEnds, Zenon DEF Open
<1>2. ASSUME NEW id \in Ids, Metadata(id) PROVE End \/ Same
  BY <1>2, ReplyEnds, Zenon DEF Metadata
<1>3. ASSUME NEW id \in Ids, Info(id) PROVE End \/ Same
  BY <1>3, ReplyEnds, Zenon DEF Info
<1>4. ASSUME NEW id \in Ids, NEW page \in Pages, Browse(id, page) PROVE End \/ Same
  BY <1>4, ReplyEnds, Zenon DEF Browse
<1>5. ASSUME NEW id \in Ids, NEW page \in Pages, NEW class \in Classes, Search(id, class, page)
      PROVE End \/ Same
  BY <1>5, ReplyEnds, Zenon DEF Search
<1>6. QED
  BY <1>1, <1>2, <1>3, <1>4, <1>5

(* Nothing of the invariant depends on more than these.                    *)
LEMMA SameKeeps ==
  ASSUME CatalogInv, disk' \subseteq Entries, UNCHANGED << details, objects, last, pc, stack, pending, spoilt >>
  PROVE  CatalogInv'
  BY DEF CatalogInv, ScanOK, RowsInv, FramesInv, PendingInv, Leads, EntryOf

(* The directory changes; the program starts, and ends, over the rows it   *)
(* finds or without any.                                                   *)
LEMMA StartKeeps == ASSUME CatalogInv, Change \/ Rescan \/ Reopen \/ End PROVE CatalogInv'
<1>1. CASE Change
  <2>1. disk' \subseteq Entries
    BY <1>1 DEF Change, CatalogInv, ScanOK
  <2>2. QED
    BY <1>1, <2>1, SameKeeps DEF Change, tables
<1>2. CASE Rescan
  <2> DEFINE f == Frame(Root, RootId)
  <2>1. /\ f \in [dir : {Root} \cup Entries, id : Seq(Nat), todo : SUBSET Entries, read : SUBSET Entries]
        /\ f.dir = Root /\ f.id = RootId /\ RootId # << >> /\ \A e \in f.todo : Parent[e] = Root
    BY DEF CatalogInv, ScanOK, Frame, Inside, RootId
  <2>2. /\ details' = << >> /\ objects' = << >> /\ last' = 0 /\ stack' = << f >> /\ pc' = "scan"
        /\ UNCHANGED << disk, pending >>
    BY <1>2 DEF Rescan
  <2> HIDE DEF f
  <2>3. ScanOK'
    BY <2>1, <2>2 DEF CatalogInv, ScanOK
  <2>4. RowsInv' /\ PendingInv'
    BY <2>2 DEF RowsInv, PendingInv
  <2>5. FramesInv'
    BY <2>1, <2>2 DEF FramesInv, Leads
  <2>6. QED
    BY <2>2, <2>3, <2>4, <2>5 DEF CatalogInv
<1>3. CASE Reopen \/ End
  <2>1. pc' \in {"off", "serving"} /\ stack' = << >> /\ UNCHANGED << disk, details, objects, last, pending, spoilt >>
    BY <1>3 DEF Reopen, End, tables, history, CatalogInv, ScanOK
  <2>2. pc' \notin {"detail", "object"}
    BY <2>1
  <2>3. ScanOK'
    BY <2>1 DEF CatalogInv, ScanOK
  <2>4. ~spoilt => RowsInv'
    BY <2>1 DEF CatalogInv, RowsInv, Leads, EntryOf
  <2>5. FramesInv' /\ PendingInv'
    BY <2>1, <2>2 DEF FramesInv, PendingInv
  <2>6. QED
    BY <2>1, <2>2, <2>3, <2>4, <2>5 DEF CatalogInv
<1>4. QED
  BY <1>1, <1>2, <1>3

(* The calls that there are keep their ids and directories.                *)
LEMMA FramesOn ==
  ASSUME RowsInv, FramesInv, Grown, NEW f,
         f.id # << >>, Leads(f.id, f.dir)', \A e \in f.todo : Parent[e] = f.dir,
         \A k \in DOMAIN stack' : stack'[k] = f \/ \E l \in DOMAIN stack : stack'[k] = stack[l]
  PROVE  FramesInv'
<1>1. SUFFICES ASSUME NEW k \in DOMAIN stack'
               PROVE  /\ stack'[k].id # << >> /\ Leads(stack[k].id, stack[k].dir)'
                      /\ \A e \in stack'[k].todo : Parent[e] = stack'[k].dir
  BY DEF FramesInv
<1>2. CASE stack'[k] = f
  BY <1>2 DEF Leads
<1>3. ASSUME NEW l \in DOMAIN stack, stack'[k] = stack[l]
      PROVE  /\ stack'[k].id # << >> /\ Leads(stack[k].id, stack[k].dir)'
             /\ \A e \in stack'[k].todo : Parent[e] = stack'[k].dir
  <2>1. PICK g : g = stack[l]
    OBVIOUS
  <2>2. Leads(g.id, g.dir)'
    BY <2>1, LeadsOn DEF FramesInv
  <2>3. QED
    BY <1>3, <2>1, <2>2 DEF FramesInv, Leads
<1>4. QED
  BY <1>2, <1>3

(* The next entry of the directory that is read, to be described or not.   *)
LEMMA ReadDirKeeps == ASSUME CatalogInv, ReadDir PROVE CatalogInv'
<1> DEFINE Frames == [dir : {Root} \cup Entries, id : Seq(Nat), todo : SUBSET Entries, read : SUBSET Entries]
<1>1. pc = "scan" /\ stack \in Seq(Frames) /\ stack # << >> /\ disk \subseteq Entries
  BY DEF ReadDir, CatalogInv, ScanOK
<1>2. PICK e \in (Head(stack).todo \cup Inside(Head(stack).dir)) \ Head(stack).read :
        /\ stack' = << [Head(stack) EXCEPT !.read = @ \cup {e}] >> \o Tail(stack)
        /\ IF Described(e)
             THEN pc' = "detail" /\ pending' = [entry |-> e, mirror |-> FALSE, detail |-> 0]
             ELSE UNCHANGED << pc, pending >>
  BY Zenon DEF ReadDir
<1>3. UNCHANGED << disk, details, objects, last, spoilt >>
  BY DEF ReadDir, tables, history
<1> HIDE DEF Frames
<1>4. /\ stack[1] \in Frames /\ Head(stack) = stack[1] /\ 1 \in DOMAIN stack /\ Tail(stack) \in Seq(Frames)
      /\ \A k \in DOMAIN Tail(stack) : \E l \in DOMAIN stack : Tail(stack)[k] = stack[l]
  BY <1>1, Shortened
<1>5. e \in Entries
  BY <1>1, <1>2, <1>4 DEF Inside, Frames
<1>6. PICK f : f = [stack[1] EXCEPT !.read = @ \cup {e}]
  OBVIOUS
<1>7. f \in Frames /\ f.id = stack[1].id /\ f.dir = stack[1].dir /\ f.todo = stack[1].todo
  BY <1>4, <1>5, <1>6 DEF Frames
<1>8. stack' = << f >> \o Tail(stack)
  BY <1>2, <1>4, <1>6
<1>9. /\ stack' \in Seq(Frames) /\ stack' # << >> /\ stack'[1] = f
      /\ \A k \in DOMAIN stack' : stack'[k] = f \/ \E l \in DOMAIN Tail(stack) : stack'[k] = Tail(stack)[l]
  BY <1>4, <1>7, <1>8, Pushed
<1>10. \A k \in DOMAIN stack' : stack'[k] = f \/ \E l \in DOMAIN stack : stack'[k] = stack[l]
  BY <1>4, <1>9
<1>11. /\ pc' \in {"scan", "detail"}
       /\ pc' = "detail" => pending' = [entry |-> e, mirror |-> FALSE, detail |-> 0] /\ Kind[e] # "unknown"
       /\ pc' = "scan" => pending' = pending
  BY <1>1, <1>2 DEF Described
<1>12. ScanOK'
  <2>1. pending' \in [entry : {Root} \cup Entries, mirror : BOOLEAN, detail : Nat]
    <3>1. [entry |-> e, mirror |-> FALSE, detail |-> 0] \in [entry : {Root} \cup Entries, mirror : BOOLEAN, detail : Nat]
      BY <1>5
    <3>2. pending \in [entry : {Root} \cup Entries, mirror : BOOLEAN, detail : Nat]
      BY DEF CatalogInv, ScanOK
    <3>3. pending' = pending \/ pending' = [entry |-> e, mirror |-> FALSE, detail |-> 0]
      BY <1>11
    <3>4. QED
      BY <3>1, <3>2, <3>3, Zenon
  <2>2. pc' \in {"off", "scan", "detail", "object", "serving"} /\ ~(pc' \in {"off", "serving"})
    BY <1>11
  <2>3. QED
    BY <1>3, <1>9, <2>1, <2>2 DEF CatalogInv, ScanOK, Frames
<1>13. ASSUME ~spoilt PROVE RowsInv' /\ FramesInv' /\ PendingInv'
  <2>1. RowsInv /\ FramesInv
    BY <1>13 DEF CatalogInv
  <2>2. RowsInv'
    BY <1>3, <2>1 DEF RowsInv, Leads, EntryOf
  <2>3. Grown
    BY <1>3 DEF Grown
  <2>4. f.id # << >> /\ Leads(f.id, f.dir) /\ \A x \in f.todo : Parent[x] = f.dir
    BY <1>4, <1>7, <2>1 DEF FramesInv
  <2>5. Leads(f.id, f.dir)'
    BY <2>1, <2>3, <2>4, LeadsOn
  <2>6. FramesInv'
    BY <1>10, <2>1, <2>3, <2>4, <2>5, FramesOn
  <2>7. Parent[e] = stack'[1].dir
    BY <1>2, <1>4, <1>7, <1>9, <2>4 DEF Inside
  <2>8. PendingInv'
    BY <1>11, <2>7 DEF PendingInv
  <2>9. QED
    BY <2>2, <2>6, <2>8
<1>14. QED
  BY <1>3, <1>5, <1>11, <1>12, <1>13 DEF CatalogInv

(* An INSERT or an opendir that fails: nothing is said of the rows then.   *)
LEMMA FailureKeeps == ASSUME CatalogInv, InsertObjectFails \/ OpenDirFails PROVE CatalogInv'
<1> DEFINE Frames == [dir : {Root} \cup Entries, id : Seq(Nat), todo : SUBSET Entries, read : SUBSET Entries]
           Pending == [entry : {Root} \cup Entries, mirror : BOOLEAN, detail : Nat]
<1>1. /\ pc \in {"scan", "object"} /\ stack \in Seq(Frames) /\ stack # << >> /\ pending \in Pending
      /\ spoilt' = TRUE /\ UNCHANGED << disk, details, objects, last >>
      /\ pc = "object" => pending.entry \in Entries /\ Kind[pending.entry] # "unknown"
  BY DEF InsertObjectFails, OpenDirFails, CatalogInv, ScanOK, tables
<1>2. CASE InsertObjectFails
  <2>1. PICK f, e, id : f = Head(stack) /\ e = pending.entry /\ id = Append(f.id, pending.detail)
    BY Zenon
  <2>2. /\ pc = "object"
        /\ \/ stack' = << Frame(e, id) >> \o stack /\ pc' = "scan" /\ pending' = pending
           \/ stack' = stack /\ pc' = "detail" /\ pending' = [pending EXCEPT !.mirror = TRUE]
           \/ stack' = stack /\ pc' = "scan" /\ pending' = pending
    BY <1>2, <2>1 DEF InsertObjectFails
  <2> HIDE DEF Frames, Pending
  <2>3. f \in Frames
    BY <1>1, <2>1, Shortened
  <2>4. Frame(e, id) \in Frames
    <3>1. f.id \in Seq(Nat) /\ pending.detail \in Nat /\ e \in Entries /\ disk \subseteq Entries
      BY <1>1, <2>1, <2>2, <2>3 DEF Frames, Pending, CatalogInv, ScanOK
    <3>2. id \in Seq(Nat)
      BY <2>1, <3>1
    <3>3. QED
      BY <3>1, <3>2 DEF Frame, Frames, Inside
  <2>5. stack' \in Seq(Frames) /\ stack' # << >>
    <3>1. CASE stack' = stack
      BY <1>1, <3>1
    <3>2. CASE stack' = << Frame(e, id) >> \o stack
      BY <1>1, <2>4, <3>2, Pushed
    <3>3. QED
      BY <2>2, <3>1, <3>2
  <2>6. /\ pc' \in {"scan", "detail"} /\ pending' \in Pending /\ pending'.entry = pending.entry
    BY <1>1, <2>2 DEF Pending
  <2>7. ScanOK'
    BY <1>1, <2>5, <2>6 DEF CatalogInv, ScanOK, Frames, Pending
  <2>8. QED
    BY <1>1, <2>2, <2>6, <2>7 DEF CatalogInv
<1>3. CASE OpenDirFails
  <2>1. /\ stack' = Tail(stack) /\ UNCHANGED pending
        /\ pc' = IF Len(stack) = 1 THEN "serving" ELSE "scan"
    BY <1>3 DEF OpenDirFails
  <2> HIDE DEF Frames, Pending
  <2>2. Tail(stack) \in Seq(Frames) /\ (Tail(stack) = << >> <=> Len(stack) = 1)
    BY <1>1, Shortened
  <2>3. pc' \in {"scan", "serving"} /\ (stack' = << >>) = (pc' \in {"off", "serving"})
    BY <2>1, <2>2
  <2>4. ScanOK'
    BY <1>1, <2>1, <2>2, <2>3 DEF CatalogInv, ScanOK, Frames, Pending
  <2>5. QED
    BY <1>1, <2>3, <2>4 DEF CatalogInv
<1>4. QED
  BY <1>2, <1>3

(* The innermost call returns.                                             *)
LEMMA EndDirKeeps == ASSUME CatalogInv, EndDir PROVE CatalogInv'
<1> DEFINE Frames == [dir : {Root} \cup Entries, id : Seq(Nat), todo : SUBSET Entries, read : SUBSET Entries]
<1>1. pc = "scan" /\ stack \in Seq(Frames) /\ stack # << >>
  BY DEF EndDir, CatalogInv, ScanOK
<1>2. /\ stack' = Tail(stack) /\ UNCHANGED << disk, details, objects, last, pending, spoilt >>
      /\ pc' = IF Len(stack) = 1 THEN "serving" ELSE "scan"
  BY <1>1 DEF EndDir, tables
<1> HIDE DEF Frames
<1>3. /\ Tail(stack) \in Seq(Frames) /\ (Tail(stack) = << >> <=> Len(stack) = 1)
      /\ \A k \in DOMAIN Tail(stack) : \E l \in DOMAIN stack : Tail(stack)[k] = stack[l]
  BY <1>1, Shortened
<1>4. pc' \in {"scan", "serving"} /\ (stack' = << >>) = (pc' \in {"off", "serving"})
  BY <1>2, <1>3
<1>5. ScanOK'
  BY <1>2, <1>3, <1>4 DEF CatalogInv, ScanOK, Frames
<1>6. ~spoilt => RowsInv' /\ FramesInv'
  BY <1>2, <1>3 DEF CatalogInv, RowsInv, FramesInv, Leads, EntryOf
<1>7. pc' \notin {"detail", "object"}
  BY <1>4
<1>8. PendingInv'
  BY <1>7, Zenon DEF PendingInv
<1>9. QED
  BY <1>2, <1>5, <1>6, <1>7, <1>8 DEF CatalogInv

(* The details of a new row belong to no object yet.                       *)
LEMMA InsertDetailKeeps == ASSUME CatalogInv, InsertDetail PROVE CatalogInv'
<1> DEFINE Details == [entry : Entries, mirror : BOOLEAN]
           row == [entry |-> pending.entry, mirror |-> pending.mirror]
<1>1. /\ pc = "detail" /\ pc' = "object" /\ UNCHANGED << disk, objects, stack >>
      /\ pending' = [pending EXCEPT !.detail = last']
  BY DEF InsertDetail, CatalogInv, ScanOK
<1>2. CASE pending.entry \in Unstorable
  <2>1. spoilt' /\ UNCHANGED << details, last >>
    BY <1>2 DEF InsertDetail
  <2>2. pending' \in [entry : {Root} \cup Entries, mirror : BOOLEAN, detail : Nat] /\ pending'.entry = pending.entry
    BY <1>1, <2>1 DEF CatalogInv, ScanOK
  <2>3. ScanOK'
    BY <1>1, <2>1, <2>2 DEF CatalogInv, ScanOK
  <2>4. QED
    BY <1>1, <2>1, <2>2, <2>3 DEF CatalogInv
<1>3. CASE pending.entry \notin Unstorable
  <2>1. details' = Append(details, row) /\ last' = Len(details') /\ spoilt' = spoilt
    BY <1>3 DEF InsertDetail
  <2>2. row \in Details /\ row.entry = pending.entry /\ details \in Seq(Details)
    BY <1>1 DEF CatalogInv, ScanOK
  <2> HIDE DEF row, Details
  <2>3. /\ details' \in Seq(Details) /\ Len(details) \in Nat /\ last' = Len(details) + 1
        /\ DOMAIN details = 1 .. Len(details) /\ DOMAIN details' = 1 .. Len(details) + 1
        /\ \A n \in DOMAIN details : n \in DOMAIN details' /\ details'[n] = details[n]
        /\ details'[last'] = row
    BY <2>1, <2>2, Appended
  <2>4. last' \in Nat /\ last' \in DOMAIN details' /\ last' \notin DOMAIN details
    BY <2>3
  <2>5. /\ pending' \in [entry : {Root} \cup Entries, mirror : BOOLEAN, detail : Nat]
        /\ pending'.entry = pending.entry /\ pending'.detail = last'
    BY <1>1, <2>4 DEF CatalogInv, ScanOK
  <2>6. ScanOK'
    BY <1>1, <2>3, <2>4, <2>5 DEF CatalogInv, ScanOK, Details
  <2>7. ASSUME ~spoilt PROVE RowsInv' /\ FramesInv' /\ PendingInv'
    <3>1. RowsInv /\ FramesInv /\ PendingInv
      BY <2>7 DEF CatalogInv
    <3>2. Grown
      BY <1>1, <2>3 DEF Grown
    <3>3. \A i \in DOMAIN objects : EntryOf(objects[i])' = EntryOf(objects[i])
      BY <1>1, <2>3, <3>1 DEF EntryOf, RowsInv
    <3>4. \A id, dir : Leads(id, dir) => Leads(id, dir)'
      BY <3>1, <3>2, LeadsOn
    <3>5. RowsInv'
      BY <1>1, <2>3, <3>1, <3>3, <3>4 DEF RowsInv
    <3>6. FramesInv'
      BY <1>1, <3>1, <3>4 DEF FramesInv
    <3>7. PendingInv'
      <4>1. Parent[pending'.entry] = stack'[1].dir
        BY <1>1, <2>5, <3>1 DEF PendingInv
      <4>2. details'[pending'.detail].entry = pending'.entry
        BY <2>2, <2>3, <2>5
      <4>3. \A i \in DOMAIN objects' : objects'[i].detail # pending'.detail
        BY <1>1, <2>4, <2>5, <3>1 DEF RowsInv
      <4>4. QED
        BY <2>4, <2>5, <4>1, <4>2, <4>3 DEF PendingInv
    <3>8. QED
      BY <3>5, <3>6, <3>7
  <2>8. QED
    BY <1>1, <2>1, <2>5, <2>6, <2>7 DEF CatalogInv
<1>4. QED
  BY <1>2, <1>3

(* An object gets an id that no other has, below that of its directory.    *)
LEMMA InsertObjectKeeps == ASSUME CatalogInv, InsertObject PROVE CatalogInv'
<1> DEFINE Frames == [dir : {Root} \cup Entries, id : Seq(Nat), todo : SUBSET Entries, read : SUBSET Entries]
           Objects == [id : Seq(Nat), parent : Seq(Nat), detail : Nat, class : {"folder", "movie", "other"}]
           Pending == [entry : {Root} \cup Entries, mirror : BOOLEAN, detail : Nat]
<1>1. /\ pc = "object" /\ stack \in Seq(Frames) /\ stack # << >> /\ objects \in Seq(Objects) /\ pending \in Pending
      /\ pending.entry \in Entries /\ Kind[pending.entry] \in {"folder", "movie", "other"} /\ disk \subseteq Entries
  BY CatalogAssumption DEF InsertObject, CatalogInv, ScanOK
<1>2. PICK f, e, id, row :
        /\ f = Head(stack) /\ e = pending.entry /\ id = Append(f.id, pending.detail)
        /\ row = [id |-> id, parent |-> f.id, detail |-> pending.detail, class |-> Kind[e]]
  BY Zenon
<1>3. /\ objects' = Append(objects, row) /\ last' = Len(objects')
      /\ UNCHANGED << disk, details, spoilt >>
      /\ \/ stack' = << Frame(e, id) >> \o stack /\ pc' = "scan" /\ pending' = pending
         \/ stack' = stack /\ pc' = "detail" /\ pending' = [pending EXCEPT !.mirror = TRUE]
         \/ stack' = stack /\ pc' = "scan" /\ pending' = pending
  BY <1>2 DEF InsertObject, history
<1> HIDE DEF Frames, Objects, Pending
<1>4. f \in Frames /\ f = stack[1] /\ 1 \in DOMAIN stack
  BY <1>1, <1>2, Shortened
<1>5. f.id \in Seq(Nat) /\ pending.detail \in Nat
  BY <1>1, <1>4 DEF Frames, Pending
<1>6. id \in Seq(Nat) /\ id # << >> /\ (f.id # << >> => id # RootId)
  <2>1. id \in Seq(Nat) /\ Len(id) = Len(f.id) + 1 /\ Len(f.id) \in Nat /\ (f.id # << >> => Len(f.id) # 0)
    BY <1>2, <1>5
  <2>2. Len(id) # 0 /\ (f.id # << >> => Len(id) # 1)
    BY <2>1
  <2>3. Len(RootId) = 1 /\ Len(<< >>) = 0
    BY DEF RootId
  <2>4. QED
    BY <2>1, <2>2, <2>3, Zenon
<1>7. /\ row \in Objects /\ row.id = id /\ row.parent = f.id /\ row.detail = pending.detail
  BY <1>1, <1>2, <1>5, <1>6 DEF Objects
<1>8. /\ objects' \in Seq(Objects) /\ Len(objects) \in Nat /\ last' = Len(objects) + 1
      /\ DOMAIN objects = 1 .. Len(objects) /\ DOMAIN objects' = 1 .. Len(objects) + 1
      /\ \A i \in DOMAIN objects : i \in DOMAIN objects' /\ objects'[i] = objects[i]
      /\ objects'[last'] = row
  BY <1>1, <1>3, <1>7, Appended
<1>9. last' \in Nat /\ last' \in DOMAIN objects' /\ \A i \in DOMAIN objects' : i \in DOMAIN objects \/ i = last'
  BY <1>8
<1>10. PICK g : g = Frame(e, id)
  OBVIOUS
<1>11. g \in Frames /\ g.id = id /\ g.dir = e /\ \A x \in g.todo : Parent[x] = e
  BY <1>1, <1>2, <1>6, <1>10 DEF Frame, Frames, Inside
<1>12. /\ stack' \in Seq(Frames) /\ stack' # << >>
       /\ \A k \in DOMAIN stack' : (pc' = "scan" /\ stack'[k] = g) \/ \E l \in DOMAIN stack : stack'[k] = stack[l]
  <2>1. CASE stack' = stack
    BY <1>1, <2>1
  <2>2. CASE stack' # stack
    <3>1. stack' = << g >> \o stack /\ pc' = "scan"
      BY <1>3, <1>10, <2>2
    <3>2. QED
      BY <1>1, <1>11, <3>1, Pushed
  <2>3. QED
    BY <2>1, <2>2
<1>13. pc' \in {"scan", "detail"} /\ pending' \in Pending /\ pending'.entry = e
  <2>1. /\ pending.entry = e
        /\ [pending EXCEPT !.mirror = TRUE] \in Pending /\ [pending EXCEPT !.mirror = TRUE].entry = e
    BY <1>1, <1>2 DEF Pending
  <2>2. QED
    BY <1>1, <1>3, <2>1
<1>14. ScanOK'
  <2>1. ~(pc' \in {"off", "serving"}) /\ pc' \in {"off", "scan", "detail", "object", "serving"}
    BY <1>13
  <2>2. QED
    BY <1>3, <1>8, <1>9, <1>12, <1>13, <2>1 DEF CatalogInv, ScanOK, Frames, Objects, Pending
<1>15. ASSUME ~spoilt PROVE RowsInv' /\ FramesInv' /\ PendingInv'
  <2>1. RowsInv /\ FramesInv /\ PendingInv
    BY <1>15 DEF CatalogInv
  <2>2. Grown
    BY <1>3, <1>8 DEF Grown
  <2>3. \A i \in DOMAIN objects : EntryOf(objects[i])' = EntryOf(objects[i])
    BY <1>3, <1>8 DEF EntryOf
  <2>4. \A any, dir : Leads(any, dir) => Leads(any, dir)'
    BY <2>1, <2>2, LeadsOn
  <2>5. f.id # << >> /\ Leads(f.id, f.dir) /\ Parent[e] = f.dir
    BY <1>1, <1>2, <1>4, <2>1 DEF FramesInv, PendingInv
  <2>6. /\ pending.detail \in DOMAIN details /\ details[pending.detail].entry = e
        /\ \A i \in DOMAIN objects : objects[i].detail # pending.detail
    BY <1>1, <1>2, <2>1 DEF PendingInv
  <2>7. EntryOf(objects[last])' = e
    BY <1>3, <1>7, <1>8, <2>6 DEF EntryOf
  <2>8. RowsInv'
    <3>1. ASSUME NEW i \in DOMAIN objects'
          PROVE  /\ objects'[i].detail \in DOMAIN details'
                 /\ objects'[i].parent # << >> /\ objects'[i].id = Append(objects'[i].parent, objects'[i].detail)
                 /\ Leads(objects[i].parent, Parent[EntryOf(objects[i])])'
      <4>1. CASE i \in DOMAIN objects
        <5>1. PICK p, d : p = objects[i].parent /\ d = Parent[EntryOf(objects[i])]
          OBVIOUS
        <5>2. objects'[i].parent = p /\ Parent[EntryOf(objects[i])]' = d
          BY <1>8, <2>3, <4>1, <5>1
        <5>3. Leads(p, d)'
          BY <2>1, <2>4, <4>1, <5>1 DEF RowsInv
        <5>4. Leads(objects[i].parent, Parent[EntryOf(objects[i])])'
          BY <5>2, <5>3 DEF Leads
        <5>5. QED
          BY <1>3, <1>8, <2>1, <4>1, <5>4 DEF RowsInv
      <4>2. CASE i = last'
        <5>1. Leads(f.id, f.dir)'
          BY <2>4, <2>5
        <5>2. objects'[i].parent = f.id /\ Parent[EntryOf(objects[i])]' = f.dir
          BY <1>7, <1>8, <2>5, <2>7, <4>2
        <5>3. Leads(objects[i].parent, Parent[EntryOf(objects[i])])'
          BY <5>1, <5>2 DEF Leads
        <5>4. QED
          BY <1>2, <1>3, <1>7, <1>8, <2>5, <2>6, <4>2, <5>3
      <4>3. QED
        BY <1>9, <4>1, <4>2
    <3>2. \A i, j \in DOMAIN objects' : objects'[i].detail = objects'[j].detail => i = j
      BY <1>7, <1>8, <1>9, <2>1, <2>6 DEF RowsInv
    <3>3. QED
      BY <3>1, <3>2 DEF RowsInv
  <2>9. FramesInv'
    <3>1. Leads(g.id, g.dir)'
      BY <1>6, <1>7, <1>8, <1>9, <1>11, <2>5, <2>7 DEF Leads
    <3>2. QED
      BY <1>6, <1>11, <1>12, <2>1, <2>2, <3>1, FramesOn
  <2>10. PendingInv'
    <3>1. pc' = "detail" => Parent[pending'.entry] = stack'[1].dir
      BY <1>3, <1>4, <1>13, <2>5
    <3>2. QED
      BY <1>13, <3>1 DEF PendingInv
  <2>11. QED
    BY <2>8, <2>9, <2>10
<1>16. QED
  BY <1>1, <1>2, <1>3, <1>13, <1>14, <1>15 DEF CatalogInv

(* The invariant of Catalog is inductive.                                  *)
THEOREM CatalogInvariance == CatalogSpec => []CatalogInv
<1>1. CatalogInv /\ [CatalogNext]_catalogVars => CatalogInv'
  <2> SUFFICES ASSUME CatalogInv, [CatalogNext]_catalogVars PROVE CatalogInv'
    OBVIOUS
  <2>1. CASE Change \/ Rescan \/ Reopen \/ End
    BY <2>1, StartKeeps
  <2>2. CASE ReadDir \/ EndDir \/ InsertDetail \/ InsertObject \/ InsertObjectFails \/ OpenDirFails
    BY <2>2, ReadDirKeeps, EndDirKeeps, InsertDetailKeeps, InsertObjectKeeps, FailureKeeps
  <2>3. ASSUME \/ Open
               \/ \E id \in Ids : \/ Metadata(id) \/ Info(id)
                                   \/ \E page \in Pages : \/ Browse(id, page)
                                                          \/ \E class \in Classes : Search(id, class, page)
        PROVE  CatalogInv'
    <3>1. CASE End
      BY <3>1, StartKeeps
    <3>2. CASE Same
      <4>1. disk' \subseteq Entries
        BY <3>2 DEF Same, CatalogInv, ScanOK
      <4>2. QED
        BY <3>2, <4>1, SameKeeps DEF Same
    <3>3. QED
      BY <2>3, <3>1, <3>2, RequestEnds
  <2>4. CASE UNCHANGED catalogVars
    <3>1. disk' \subseteq Entries /\ UNCHANGED << details, objects, last, pc, stack, pending, spoilt >>
      BY <2>4 DEF catalogVars, tables, history, CatalogInv, ScanOK
    <3>2. QED
      BY <3>1, SameKeeps
  <2>5. QED
    BY <2>1, <2>2, <2>3, <2>4 DEF CatalogNext
<1>2. QED
  BY CatalogInitially, <1>1, PTL DEF CatalogSpec

(* With the rows as the invariant has them, an id is that of one object.   *)
LEMMA SoundByInv == CatalogInv => CatalogSound
<1> SUFFICES ASSUME CatalogInv, ~spoilt PROVE CatalogSound
  BY DEF CatalogSound
<1>1. RowsInv
  BY DEF CatalogInv
<1>2. ASSUME NEW i \in DOMAIN objects, NEW j \in DOMAIN objects, objects[i].id = objects[j].id PROVE i = j
  <2>1. /\ objects[i].detail \in Nat /\ objects[i].parent \in Seq(Nat)
        /\ objects[j].detail \in Nat /\ objects[j].parent \in Seq(Nat)
    <3> DEFINE Objects == [id : Seq(Nat), parent : Seq(Nat), detail : Nat, class : {"folder", "movie", "other"}]
    <3>1. \A o \in Objects : o.detail \in Nat /\ o.parent \in Seq(Nat)
      OBVIOUS
    <3>2. objects \in Seq(Objects)
      BY DEF CatalogInv, ScanOK
    <3> HIDE DEF Objects
    <3>3. \A k \in DOMAIN objects : objects[k] \in Objects
      BY <3>2
    <3>4. QED
      BY <3>1, <3>3
  <2>2. \A s, t \in Seq(Nat), m, n \in Nat : Append(s, m) = Append(t, n) => m = n
    <3>1. SUFFICES ASSUME NEW s \in Seq(Nat), NEW t \in Seq(Nat), NEW m \in Nat, NEW n \in Nat,
                          Append(s, m) = Append(t, n)
                   PROVE  m = n
      OBVIOUS
    <3>2. /\ Len(Append(s, m)) = Len(s) + 1 /\ Append(s, m)[Len(s) + 1] = m /\ Len(s) \in Nat
          /\ Len(Append(t, n)) = Len(t) + 1 /\ Append(t, n)[Len(t) + 1] = n /\ Len(t) \in Nat
      BY Appended
    <3>3. Len(s) = Len(t)
      BY <3>1, <3>2
    <3>4. QED
      BY <3>1, <3>2, <3>3
  <2>3. Append(objects[i].parent, objects[i].detail) = Append(objects[j].parent, objects[j].detail)
    BY <1>1, <1>2 DEF RowsInv
  <2>4. objects[i].detail = objects[j].detail
    BY <2>1, <2>2, <2>3
  <2>5. QED
    BY <1>1, <2>4 DEF RowsInv
<1>3. QED
  BY <1>1, <1>2 DEF RowsInv, Leads, CatalogSound

(* As long as every name could be inserted, an object id is that of one    *)
(* object, which has its details and is found below its directory.         *)
THEOREM CatalogSoundThm == CatalogSpec => []CatalogSound
<1>1. QED
  BY SoundByInv, CatalogInvariance, PTL

-----------------------------------------------------------------------------
(* Browse and Search.                                                      *)

\* A row of each table, by its number.
LEMMA RowTypes ==
  ASSUME ScanOK
  PROVE  /\ \A i \in DOMAIN objects : /\ objects[i].id \in Seq(Nat) /\ objects[i].parent \in Seq(Nat)
                                      /\ objects[i].detail \in Nat /\ objects[i].class \in {"folder", "movie", "other"}
         /\ \A n \in DOMAIN details : details[n].entry \in Entries /\ details[n].mirror \in BOOLEAN
                                      /\ details[n] = Row(details[n].entry, details[n].mirror)
         /\ DOMAIN objects = 1 .. Len(objects) /\ Len(objects) \in Nat
         /\ DOMAIN details = 1 .. Len(details) /\ Len(details) \in Nat
<1> DEFINE Objects == [id : Seq(Nat), parent : Seq(Nat), detail : Nat, class : {"folder", "movie", "other"}]
           Details == [entry : Entries, mirror : BOOLEAN]
<1>1. \A o \in Objects : /\ o.id \in Seq(Nat) /\ o.parent \in Seq(Nat) /\ o.detail \in Nat
                         /\ o.class \in {"folder", "movie", "other"}
  OBVIOUS
<1>2. \A d \in Details : d.entry \in Entries /\ d.mirror \in BOOLEAN /\ d = Row(d.entry, d.mirror)
  BY DEF Row
<1>3. objects \in Seq(Objects) /\ details \in Seq(Details)
  BY DEF ScanOK
<1> HIDE DEF Objects, Details
<1>4. /\ \A i \in DOMAIN objects : objects[i] \in Objects
      /\ \A n \in DOMAIN details : details[n] \in Details
      /\ DOMAIN objects = 1 .. Len(objects) /\ Len(objects) \in Nat
      /\ DOMAIN details = 1 .. Len(details) /\ Len(details) \in Nat
  BY <1>3
<1>5. QED
  BY <1>1, <1>2, <1>4

\* The first of some numbers.
LEMMA LeastOfSome == ASSUME NEW S \in SUBSET Nat, S # {} PROVE \E x \in S : \A y \in S : x <= y
<1> DEFINE Less == {pair \in Nat \X Nat : pair[1] < pair[2]}
<1>1. Less = OpToRel(<, Nat)
  BY Zenon DEF OpToRel
<1>2. IsWellFoundedOn(Less, Nat)
  BY NatLessThanWellFounded, <1>1, Zenon
<1>3. PICK x \in S : \A y \in S : ~(<< y, x >> \in Less)
  BY <1>2, WFMin, Zenon
<1>4. \A y \in S : x <= y
  <2>1. \A y \in S : << y, x >> \in Nat \X Nat /\ << y, x >>[1] = y /\ << y, x >>[2] = x
    OBVIOUS
  <2>2. \A y \in S : ~(y < x)
    BY <1>3, <2>1, Zenon
  <2>3. QED
    BY <2>2
<1>5. QED
  BY <1>4

\* The root, or a folder that is an object.
IsDir(id) == id = RootId \/ \E j \in DOMAIN objects : objects[j].id = id /\ objects[j].class = "folder"

\* What has an object in it is a directory, and so, by PrefixIsDir, is each
\* prefix of its id.
LEMMA ParentIsDir ==
  ASSUME CatalogInv, ~spoilt, ClassInv, NEW i \in DOMAIN objects
  PROVE  IsDir(objects[i].parent)
<1>1. Leads(objects[i].parent, Parent[EntryOf(objects[i])]) /\ objects[i].detail \in DOMAIN details
  BY DEF CatalogInv, RowsInv
<1>2. EntryOf(objects[i]) \in Entries
  BY <1>1, RowTypes DEF CatalogInv, EntryOf
<1>3. ASSUME NEW j \in DOMAIN objects, EntryOf(objects[j]) = Parent[EntryOf(objects[i])] PROVE objects[j].class = "folder"
  <2>1. EntryOf(objects[j]) \in Entries
    BY RowTypes DEF CatalogInv, RowsInv, EntryOf
  <2>2. Kind[EntryOf(objects[j])] = "folder"
    BY <1>2, <1>3, <2>1, CatalogAssumption
  <2>3. QED
    BY <2>2 DEF ClassInv
<1>4. QED
  BY <1>1, <1>3 DEF Leads, IsDir

\* What a sequence of numbers begins with.
LEMMA Beginning ==
  ASSUME NEW s \in Seq(Nat), NEW n \in Nat, n <= Len(s)
  PROVE  /\ SubSeq(s, 1, n) \in Seq(Nat) /\ Len(SubSeq(s, 1, n)) = n
         /\ \A k \in 1 .. n : SubSeq(s, 1, n)[k] = s[k]
<1>1. \A k \in 1 .. n : s[k] \in Nat /\ 1 + k - 1 = k
  OBVIOUS
<1>2. PICK p : p = SubSeq(s, 1, n)
  OBVIOUS
<1>3. p \in Seq(Nat) /\ Len(p) = (IF 1 <= n THEN n - 1 + 1 ELSE 0) /\ \A k \in 1 .. n - 1 + 1 : p[k] = s[1 + k - 1]
  BY <1>1, <1>2, SubSeqProperties
<1>4. Len(p) = n
  BY <1>3
<1>5. \A k \in 1 .. n : k \in 1 .. n - 1 + 1
  OBVIOUS
<1>6. \A k \in 1 .. n : p[k] = s[k]
  BY <1>1, <1>3, <1>5, Zenon
<1>7. QED
  BY <1>2, <1>3, <1>4, <1>6

\* What is left of it when an element at its end is taken away.
LEMMA FrontAndLast ==
  \A q, s \in Seq(Nat) : \A d, n \in Nat : n + 1 <= Len(s) /\ SubSeq(s, 1, n + 1) = Append(q, d) => q = SubSeq(s, 1, n)
<1> SUFFICES ASSUME NEW q \in Seq(Nat), NEW s \in Seq(Nat), NEW d \in Nat, NEW n \in Nat,
                    n + 1 <= Len(s), SubSeq(s, 1, n + 1) = Append(q, d)
             PROVE  q = SubSeq(s, 1, n)
  OBVIOUS
<1>1. /\ Len(q) \in Nat /\ Len(s) \in Nat /\ Len(Append(q, d)) = Len(q) + 1
      /\ \A k \in 1 .. Len(q) : Append(q, d)[k] = q[k]
  OBVIOUS
<1>2. n + 1 \in Nat /\ n <= Len(s)
  BY <1>1
<1>3. PICK x, y : x = SubSeq(s, 1, n + 1) /\ y = SubSeq(s, 1, n)
  OBVIOUS
<1>4. Len(x) = n + 1 /\ \A k \in 1 .. n + 1 : x[k] = s[k]
  BY <1>2, <1>3, Beginning
<1>5. y \in Seq(Nat) /\ Len(y) = n /\ \A k \in 1 .. n : y[k] = s[k]
  BY <1>2, <1>3, Beginning
<1>6. Len(q) + 1 = n + 1 /\ \A k \in 1 .. Len(q) : x[k] = q[k]
  BY <1>1, <1>3, <1>4
<1>7. PICK m : m = Len(q)
  OBVIOUS
<1>8. m = n
  BY <1>1, <1>6, <1>7
<1>9. \A k \in 1 .. n : k \in 1 .. n + 1
  OBVIOUS
<1>10. Len(q) = Len(y) /\ \A k \in 1 .. Len(q) : q[k] = y[k]
  BY <1>4, <1>5, <1>6, <1>7, <1>8, <1>9, Zenon
<1>11. q = y
  BY <1>5, <1>10, SeqEqual
<1>12. QED
  BY <1>3, <1>11

\* Whatever the id of an object begins with is the id of a directory.
LEMMA PrefixIsDir ==
  ASSUME CatalogInv, ~spoilt, ClassInv, NEW i \in DOMAIN objects, NEW n \in 1 .. Len(objects[i].parent)
  PROVE  IsDir(SubSeq(objects[i].parent, 1, n))
<1>1. PICK q : q = objects[i].parent
  OBVIOUS
<1>2. q \in Seq(Nat) /\ Len(q) \in Nat /\ n \in 1 .. Len(q)
  BY <1>1, RowTypes DEF CatalogInv
<1>3. IsDir(q) /\ SubSeq(q, 1, Len(q)) = q
  BY <1>1, <1>2, ParentIsDir
<1> DEFINE Bad == {d \in Nat : d < Len(q) /\ ~IsDir(SubSeq(q, 1, Len(q) - d))}
<1>4. Bad = {}
  <2> SUFFICES ASSUME Bad # {} PROVE FALSE
    OBVIOUS
  <2>1. PICK d \in Bad : \A y \in Bad : d <= y
    BY LeastOfSome
  <2>2. d \in Nat /\ d < Len(q) /\ ~IsDir(SubSeq(q, 1, Len(q) - d))
    BY <2>1
  <2>3. d # 0
    <3>1. Len(q) - 0 = Len(q)
      BY <1>2
    <3>2. QED
      BY <1>3, <2>2, <3>1, Zenon
  <2>4. d - 1 \in Nat /\ d - 1 < Len(q) /\ ~(d <= d - 1)
    BY <1>2, <2>2, <2>3
  <2>5. IsDir(SubSeq(q, 1, Len(q) - (d - 1)))
    BY <2>1, <2>4
  <2>6. PICK m : m = Len(q) - d
    OBVIOUS
  <2>7. m \in Nat /\ m >= 1 /\ Len(q) - (d - 1) = m + 1 /\ m + 1 <= Len(q)
    BY <1>2, <2>2, <2>3, <2>6
  <2>8. IsDir(SubSeq(q, 1, m + 1)) /\ ~IsDir(SubSeq(q, 1, m))
    BY <2>2, <2>5, <2>6, <2>7
  <2>9. SubSeq(q, 1, m + 1) # RootId
    <3>1. Len(SubSeq(q, 1, m + 1)) = m + 1 /\ m + 1 # 1
      BY <1>2, <2>7
    <3>2. Len(RootId) = 1
      BY DEF RootId
    <3>3. QED
      BY <3>1, <3>2, Zenon
  <2>10. PICK j \in DOMAIN objects : objects[j].id = SubSeq(q, 1, m + 1)
    BY <2>8, <2>9 DEF IsDir
  <2>11. objects[j].id = Append(objects[j].parent, objects[j].detail)
    BY DEF CatalogInv, RowsInv
  <2>12. objects[j].parent \in Seq(Nat) /\ objects[j].detail \in Nat
    BY RowTypes DEF CatalogInv
  <2>13. objects[j].parent = SubSeq(q, 1, m)
    <3>1. PICK up, last0 : up = objects[j].parent /\ last0 = objects[j].detail
      OBVIOUS
    <3>2. up \in Seq(Nat) /\ last0 \in Nat /\ SubSeq(q, 1, m + 1) = Append(up, last0)
      BY <2>10, <2>11, <2>12, <3>1
    <3>3. up = SubSeq(q, 1, m)
      <4>1. q \in Seq(Nat) /\ m \in Nat /\ m + 1 <= Len(q)
        BY <1>2, <2>7
      <4>2. QED
        BY <3>2, <4>1, FrontAndLast, Zenon
    <3>4. QED
      BY <3>1, <3>3
  <2>14. QED
    BY <2>8, <2>13, ParentIsDir
<1>5. PICK e : e = Len(q) - n
  OBVIOUS
<1>6. e \in Nat /\ e < Len(q) /\ Len(q) - e = n
  BY <1>2, <1>5
<1>7. IsDir(SubSeq(q, 1, Len(q) - e))
  BY <1>4, <1>6
<1>8. QED
  BY <1>1, <1>6, <1>7

\* A beginning of a beginning.
LEMMA BeginningOfIt ==
  \A s \in Seq(Nat) : \A n \in Nat : 1 <= n /\ n <= Len(s) =>
    SubSeq(SubSeq(s, 1, n), 1, n - 1) = SubSeq(s, 1, n - 1)
<1> SUFFICES ASSUME NEW s \in Seq(Nat), NEW n \in Nat, 1 <= n, n <= Len(s)
             PROVE  SubSeq(SubSeq(s, 1, n), 1, n - 1) = SubSeq(s, 1, n - 1)
  OBVIOUS
<1>1. n - 1 \in Nat /\ n - 1 <= Len(s) /\ n - 1 <= n /\ \A k \in 1 .. n - 1 : k \in 1 .. n
  OBVIOUS
<1>2. PICK r : r = SubSeq(s, 1, n)
  OBVIOUS
<1>3. r \in Seq(Nat) /\ Len(r) = n /\ \A k \in 1 .. n : r[k] = s[k]
  BY <1>2, Beginning
<1>4. PICK x, y : x = SubSeq(r, 1, n - 1) /\ y = SubSeq(s, 1, n - 1)
  OBVIOUS
<1>5. x \in Seq(Nat) /\ Len(x) = n - 1 /\ \A k \in 1 .. n - 1 : x[k] = r[k]
  BY <1>1, <1>3, <1>4, Beginning
<1>6. y \in Seq(Nat) /\ Len(y) = n - 1 /\ \A k \in 1 .. n - 1 : y[k] = s[k]
  BY <1>1, <1>4, Beginning
<1>7. Len(x) = Len(y) /\ \A k \in 1 .. Len(x) : x[k] = y[k]
  BY <1>1, <1>3, <1>5, <1>6, Zenon
<1>8. x = y
  BY <1>5, <1>6, <1>7, SeqEqual
<1>9. QED
  BY <1>2, <1>4, <1>8

\* The ids that can be asked for.
LEMMA IdLengths ==
  ASSUME CatalogInv, ~spoilt, NEW id \in Ids
  PROVE  id \in Seq(Nat) /\ Len(id) \in Nat /\ Len(id) >= 1 /\ (Len(id) = 1 => id = RootId)
<1>1. RootId \in Seq(Nat) /\ Len(RootId) = 1
  BY DEF RootId
<1>2. ASSUME NEW i \in DOMAIN objects PROVE objects[i].id \in Seq(Nat) /\ Len(objects[i].id) >= 2
  <2>1. objects[i].id = Append(objects[i].parent, objects[i].detail) /\ objects[i].parent # << >>
    BY DEF CatalogInv, RowsInv
  <2>2. PICK up, n : up = objects[i].parent /\ n = objects[i].detail
    OBVIOUS
  <2>3. up \in Seq(Nat) /\ n \in Nat /\ up # << >>
    BY <2>1, <2>2, RowTypes DEF CatalogInv
  <2>4. Append(up, n) \in Seq(Nat) /\ Len(Append(up, n)) >= 2
    BY <2>3
  <2>5. QED
    BY <2>1, <2>2, <2>4, Zenon
<1>3. CASE id = RootId
  BY <1>1, <1>3
<1>4. ASSUME NEW i \in DOMAIN objects, id = objects[i].id
      PROVE  id \in Seq(Nat) /\ Len(id) \in Nat /\ Len(id) >= 1 /\ (Len(id) = 1 => id = RootId)
  <2>1. id \in Seq(Nat) /\ Len(id) >= 2
    BY <1>2, <1>4
  <2>2. PICK n : n = Len(id)
    OBVIOUS
  <2>3. n \in Nat
    BY <2>1, <2>2
  <2>4. n >= 1 /\ n # 1
    BY <2>1, <2>2, <2>3
  <2>5. QED
    BY <2>1, <2>2, <2>3, <2>4, Zenon
<1>5. QED
  BY <1>3, <1>4 DEF Ids

\* The text of the id of a directory is that of the ids of what is below it,
\* unless it begins the text of the id of another one.
LEMMA BelowIsBelow ==
  ASSUME CatalogInv, ~spoilt, ClassInv, NEW id \in Ids, ~Extended(id), NEW i \in DOMAIN objects
  PROVE  TextPrefix(id, objects[i].parent) <=> IsPrefix(id, objects[i].parent)
<1>1. PICK q, n, r : q = objects[i].parent /\ n = Len(id) /\ r = SubSeq(q, 1, n)
  OBVIOUS
<1>2. q \in Seq(Nat) /\ Len(q) \in Nat /\ id \in Seq(Nat) /\ n \in Nat /\ 1 <= n /\ (n = 1 => id = RootId)
  <2>1. q \in Seq(Nat) /\ Len(q) \in Nat
    BY <1>1, RowTypes DEF CatalogInv
  <2>2. id \in Seq(Nat) /\ Len(id) \in Nat /\ Len(id) >= 1 /\ (Len(id) = 1 => id = RootId)
    BY IdLengths
  <2>3. n \in Nat /\ n >= 1 /\ (n = 1 => id = RootId)
    BY <1>1, <2>2, Zenon
  <2>4. QED
    BY <2>1, <2>2, <2>3
<1>3. SubSeq(id, 1, n) = id /\ Front(id) = SubSeq(id, 1, n - 1) /\ Len(id) = n
  BY <1>1, <1>2 DEF Front
<1>4. ASSUME n <= Len(q)
      PROVE  /\ r \in Seq(Nat) /\ Len(r) = n /\ r[n] = q[n] /\ SubSeq(q, 1, n - 1) = Front(r) /\ IsDir(r)
  <2>1. r \in Seq(Nat) /\ Len(r) = n /\ \A k \in 1 .. n : r[k] = q[k]
    BY <1>1, <1>2, <1>4, Beginning
  <2>2. n \in 1 .. n /\ n \in 1 .. Len(q)
    BY <1>2, <1>4
  <2>3. SubSeq(r, 1, n - 1) = SubSeq(q, 1, n - 1)
    BY <1>1, <1>2, <1>4, BeginningOfIt, Zenon
  <2>4. IsDir(r)
    BY <1>1, <2>2, PrefixIsDir
  <2>5. QED
    BY <2>1, <2>2, <2>3, <2>4 DEF Front
<1>5. ASSUME TextPrefix(id, q) PROVE IsPrefix(id, q)
  <2>1. n <= Len(q) /\ SubSeq(q, 1, n - 1) = Front(id) /\ Starts(id[n], q[n])
    BY <1>3, <1>5, Zenon DEF TextPrefix
  <2>2. r = id
    <3>1. CASE r = RootId
      <4>1. n = 1
        <5>1. Len(RootId) = 1
          BY DEF RootId
        <5>2. QED
          BY <1>4, <2>1, <3>1, <5>1
      <4>2. QED
        BY <1>2, <3>1, <4>1
    <3>2. ASSUME NEW j \in DOMAIN objects, objects[j].id = r, objects[j].class = "folder" PROVE r = id
      <4>1. Front(r) = Front(id) /\ Starts(id[Len(id)], r[Len(id)])
        <5>1. Front(r) = Front(id)
          BY <1>4, <2>1, Zenon
        <5>2. Len(r) = n /\ r[n] = q[n]
          BY <1>4, <2>1
        <5>3. QED
          BY <1>3, <2>1, <5>1, <5>2, Zenon
      <4>2. /\ objects[j].class = "folder" /\ Front(objects[j].id) = Front(id)
            /\ Starts(id[Len(id)], objects[j].id[Len(id)])
        BY <3>2, <4>1, Zenon
      <4>3. CASE objects[j].id # id
        BY <4>2, <4>3, Zenon DEF Extended
      <4>4. QED
        BY <3>2, <4>3
    <3>3. QED
      BY <1>4, <2>1, <3>1, <3>2 DEF IsDir
  <2>3. QED
    BY <1>1, <1>3, <2>1, <2>2, Zenon DEF IsPrefix
<1>6. ASSUME IsPrefix(id, q) PROVE TextPrefix(id, q)
  <2>1. n <= Len(q) /\ r = id
    BY <1>1, <1>3, <1>6, Zenon DEF IsPrefix
  <2>2. SubSeq(q, 1, n - 1) = Front(id) /\ id[n] = q[n]
    BY <1>4, <2>1
  <2>3. QED
    BY <1>3, <2>1, <2>2, Zenon DEF TextPrefix, Starts
<1>7. QED
  BY <1>1, <1>5, <1>6

\* The rows of one object, and of none.
LEMMA RowsOfOne ==
  ASSUME ScanOK, NEW i \in DOMAIN objects
  PROVE  Limit(Rows({i}), << 0, 1 >>) = << i >>
<1>1. Cardinality({i}) = 1 /\ Cardinality({}) = 0
  BY FS_Singleton, FS_EmptySet
<1>2. Title(objects[i]) \in Nat
  <2>1. CASE objects[i].detail \in DOMAIN details
    <3>1. << details[objects[i].detail].entry, details[objects[i].detail].mirror >> \in Entries \X BOOLEAN
      BY <2>1, RowTypes
    <3>2. QED
      BY <2>1, <3>1, CatalogAssumption DEF Title
  <2>2. QED
    BY <2>1 DEF Title
<1>3. i \in Nat
  BY RowTypes
<1>4. ~Precedes(i, i)
  BY <1>2, <1>3 DEF Precedes
<1>5. Place(i, {i}) = 1
  <2>1. {j \in {i} : Precedes(j, i)} = {}
    BY <1>4
  <2>2. QED
    BY <1>1, <2>1 DEF Place
<1>6. Rows({i}) = << i >>
  <2>1. (CHOOSE x \in {i} : Place(x, {i}) = 1) = i
    BY <1>5
  <2>2. \A k \in 1 .. 1 : (CHOOSE x \in {i} : Place(x, {i}) = k) = i
    BY <2>1
  <2>3. Rows({i}) = [k \in 1 .. 1 |-> i]
    BY <1>1, <2>2, Zenon DEF Rows
  <2>4. QED
    BY <2>3
<1>7. SubSeq(<< i >>, 1, 1) = << i >> /\ Len(<< i >>) = 1
  <2>1. << i >> \in Seq(Nat) /\ Len(<< i >>) = 1
    BY <1>3
  <2>2. QED
    BY <2>1, SubSeqFull, Zenon
<1>8. << 0, 1 >>[1] + 1 = 1 /\ << 0, 1 >>[1] + << 0, 1 >>[2] = 1 /\ ~(1 < 1)
  OBVIOUS
<1>9. QED
  BY <1>6, <1>7, <1>8, Zenon DEF Limit

\* Without any there are none.
LEMMA RowsOfNone == Limit(Rows({}), << 0, 1 >>) = << >>
<1>1. Cardinality({}) = 0
  BY FS_EmptySet
<1>2. Rows({}) = << >>
  BY <1>1 DEF Rows
<1>3. QED
  BY <1>2 DEF Limit

\* Where the elements are of a sequence that has one more in front, ...
LEMMA PushedAt ==
  ASSUME NEW S, NEW s \in Seq(S), NEW e \in S
  PROVE  /\ 1 \in DOMAIN (<< e >> \o s) /\ (<< e >> \o s)[1] = e
         /\ \A k \in DOMAIN s : k + 1 \in DOMAIN (<< e >> \o s) /\ (<< e >> \o s)[k + 1] = s[k]
         /\ \A k \in DOMAIN (<< e >> \o s) : k = 1 \/ \E l \in DOMAIN s : k = l + 1
<1> DEFINE t == << e >> \o s
<1>1. t \in Seq(S) /\ Len(t) = Len(s) + 1 /\ Len(s) \in Nat /\ t[1] = e
  OBVIOUS
<1>2. \A k \in 1 .. Len(s) : t[k + 1] = s[k]
  OBVIOUS
<1>3. DOMAIN s = 1 .. Len(s) /\ DOMAIN t = 1 .. Len(s) + 1
  BY <1>1
<1> HIDE DEF t
<1>4. \A k \in DOMAIN s : k + 1 \in DOMAIN t /\ t[k + 1] = s[k]
  BY <1>1, <1>2, <1>3
<1>5. ASSUME NEW k \in DOMAIN t PROVE k = 1 \/ \E l \in DOMAIN s : k = l + 1
  <2>1. k # 1 => k - 1 \in DOMAIN s /\ k = (k - 1) + 1
    BY <1>1, <1>3
  <2>2. QED
    BY <2>1
<1>6. 1 \in DOMAIN t
  BY <1>1, <1>3
<1>7. QED
  BY <1>1, <1>4, <1>5, <1>6 DEF t

\* ... or another one in its front, ...
LEMMA ReplacedAt ==
  ASSUME NEW S, NEW s \in Seq(S), s # << >>, NEW e \in S
  PROVE  /\ DOMAIN (<< e >> \o Tail(s)) = DOMAIN s /\ 1 \in DOMAIN s /\ (<< e >> \o Tail(s))[1] = e
         /\ \A k \in DOMAIN s : k # 1 => (<< e >> \o Tail(s))[k] = s[k]
<1> DEFINE t == << e >> \o Tail(s)
<1>1. /\ Len(s) \in Nat /\ Len(s) # 0 /\ Tail(s) \in Seq(S) /\ Len(Tail(s)) = Len(s) - 1
      /\ t \in Seq(S) /\ Len(t) = Len(Tail(s)) + 1 /\ t[1] = e
  OBVIOUS
<1>2. \A k \in 1 .. Len(s) - 1 : Tail(s)[k] = s[k + 1]
  OBVIOUS
<1>3. \A k \in 1 .. Len(s) - 1 : t[k + 1] = Tail(s)[k]
  BY <1>1
<1>4. DOMAIN s = 1 .. Len(s) /\ DOMAIN t = 1 .. Len(s)
  <2>1. Len(t) = Len(s)
    BY <1>1
  <2>2. QED
    BY <1>1, <2>1
<1> HIDE DEF t
<1>5. ASSUME NEW k \in DOMAIN s, k # 1 PROVE t[k] = s[k]
  <2>1. k - 1 \in 1 .. Len(s) - 1 /\ (k - 1) + 1 = k
    BY <1>1, <1>4, <1>5
  <2>2. QED
    BY <1>2, <1>3, <2>1
<1>6. 1 \in DOMAIN s
  BY <1>1, <1>4
<1>7. QED
  BY <1>1, <1>4, <1>5, <1>6 DEF t

\* ... or none.
LEMMA ShortenedAt ==
  ASSUME NEW S, NEW s \in Seq(S), s # << >>
  PROVE  /\ \A k \in DOMAIN Tail(s) : k \in Nat /\ k + 1 \in DOMAIN s /\ Tail(s)[k] = s[k + 1]
         /\ \A k \in DOMAIN s : k = 1 \/ \E l \in DOMAIN Tail(s) : k = l + 1
<1>1. /\ Len(s) \in Nat /\ Len(s) # 0 /\ Tail(s) \in Seq(S) /\ Len(Tail(s)) = Len(s) - 1
      /\ DOMAIN s = 1 .. Len(s) /\ DOMAIN Tail(s) = 1 .. Len(s) - 1
  OBVIOUS
<1>2. \A k \in 1 .. Len(s) - 1 : Tail(s)[k] = s[k + 1]
  OBVIOUS
<1>3. ASSUME NEW k \in DOMAIN s PROVE k = 1 \/ \E l \in DOMAIN Tail(s) : k = l + 1
  <2>1. k # 1 => k - 1 \in DOMAIN Tail(s) /\ k = (k - 1) + 1
    BY <1>1
  <2>2. QED
    BY <2>1
<1>4. QED
  BY <1>1, <1>2, <1>3

\* The calls of upnpd_entry_scan_path that there may be.
FrameSet == [dir : {Root} \cup Entries, id : Seq(Nat), todo : SUBSET Entries, read : SUBSET Entries]

\* What each step of the scan does to the rows and the calls: an entry is read.
LEMMA ReadDirDoes ==
  ASSUME CatalogInv, ReadDir
  PROVE  \E e \in Entries, f \in FrameSet :
           /\ pc = "scan" /\ 1 \in DOMAIN stack
           /\ e \in (stack[1].todo \cup Inside(stack[1].dir)) \ stack[1].read
           /\ f.dir = stack[1].dir /\ f.id = stack[1].id /\ f.todo = stack[1].todo /\ f.read = stack[1].read \cup {e}
           /\ DOMAIN stack' = DOMAIN stack /\ stack'[1] = f /\ stack' # << >>
           /\ \A k \in DOMAIN stack : k # 1 => stack'[k] = stack[k]
           /\ IF Described(e) THEN pc' = "detail" /\ pending' = [entry |-> e, mirror |-> FALSE, detail |-> 0]
              ELSE pc' = "scan" /\ pending' = pending
           /\ UNCHANGED << disk, changes, details, objects, last, answer, complete, scanned, steady, spoilt >>
<1>1. pc = "scan" /\ stack \in Seq(FrameSet) /\ stack # << >> /\ disk \subseteq Entries
  BY DEF ReadDir, CatalogInv, ScanOK, FrameSet
<1>2. PICK e \in (Head(stack).todo \cup Inside(Head(stack).dir)) \ Head(stack).read :
        /\ stack' = << [Head(stack) EXCEPT !.read = @ \cup {e}] >> \o Tail(stack)
        /\ IF Described(e)
             THEN pc' = "detail" /\ pending' = [entry |-> e, mirror |-> FALSE, detail |-> 0]
             ELSE UNCHANGED << pc, pending >>
  BY Zenon DEF ReadDir
<1>3. stack[1] \in FrameSet /\ Head(stack) = stack[1]
  BY <1>1, Shortened
<1>4. e \in Entries
  BY <1>1, <1>2, <1>3 DEF Inside, FrameSet
<1>5. PICK f : f = [stack[1] EXCEPT !.read = @ \cup {e}]
  OBVIOUS
<1>6. /\ f \in FrameSet /\ f.id = stack[1].id /\ f.dir = stack[1].dir /\ f.todo = stack[1].todo
      /\ f.read = stack[1].read \cup {e}
  BY <1>3, <1>4, <1>5 DEF FrameSet
<1>7. stack' = << f >> \o Tail(stack)
  BY <1>2, <1>3, <1>5
<1>8. /\ DOMAIN stack' = DOMAIN stack /\ 1 \in DOMAIN stack /\ stack'[1] = f
      /\ \A k \in DOMAIN stack : k # 1 => stack'[k] = stack[k]
  BY <1>1, <1>6, <1>7, ReplacedAt
<1>9. stack' # << >>
  BY <1>8
<1>10. UNCHANGED << disk, changes, details, objects, last, answer, complete, scanned, steady, spoilt >>
  BY DEF ReadDir, tables, history
<1>11. e \in (stack[1].todo \cup Inside(stack[1].dir)) \ stack[1].read
  BY <1>2, <1>3
<1>12. IF Described(e) THEN pc' = "detail" /\ pending' = [entry |-> e, mirror |-> FALSE, detail |-> 0]
       ELSE pc' = "scan" /\ pending' = pending
  BY <1>1, <1>2
<1>13. QED
  BY <1>1, <1>4, <1>6, <1>8, <1>9, <1>10, <1>11, <1>12, Zenon

\* The innermost call returns; the last one ends the scan.
LEMMA EndDirDoes ==
  ASSUME CatalogInv, EndDir
  PROVE  /\ pc = "scan" /\ 1 \in DOMAIN stack /\ stack[1].todo \subseteq stack[1].read
         /\ \A k \in DOMAIN stack' : k \in Nat /\ k + 1 \in DOMAIN stack /\ stack'[k] = stack[k + 1]
         /\ \A k \in DOMAIN stack : k = 1 \/ \E l \in DOMAIN stack' : k = l + 1
         /\ \/ pc' = "scan" /\ stack' # << >> /\ complete' = complete
            \/ pc' = "serving" /\ stack' = << >> /\ complete'
         /\ UNCHANGED << disk, changes, details, objects, last, pending, answer, scanned, steady, spoilt >>
<1>1. pc = "scan" /\ stack \in Seq(FrameSet) /\ stack # << >>
  BY DEF EndDir, CatalogInv, ScanOK, FrameSet
<1>2. Head(stack) = stack[1] /\ 1 \in DOMAIN stack /\ (Tail(stack) = << >> <=> Len(stack) = 1)
  BY <1>1, Shortened
<1>3. /\ stack' = Tail(stack) /\ Head(stack).todo \subseteq Head(stack).read
      /\ IF Len(stack) = 1 THEN pc' = "serving" /\ complete' = TRUE ELSE UNCHANGED << pc, complete >>
      /\ UNCHANGED << disk, changes, details, objects, last, pending, answer, scanned, steady, spoilt >>
  BY DEF EndDir, tables
<1>4. /\ \A k \in DOMAIN Tail(stack) : k \in Nat /\ k + 1 \in DOMAIN stack /\ Tail(stack)[k] = stack[k + 1]
      /\ \A k \in DOMAIN stack : k = 1 \/ \E l \in DOMAIN Tail(stack) : k = l + 1
  BY <1>1, ShortenedAt
<1>5. QED
  BY <1>1, <1>2, <1>3, <1>4

\* A row of the details is added, unless the INSERT fails.
LEMMA InsertDetailDoes ==
  ASSUME CatalogInv, InsertDetail, ~spoilt'
  PROVE  /\ pc = "detail" /\ pc' = "object" /\ pending'.entry = pending.entry /\ pending'.mirror = pending.mirror
         /\ pending'.detail \in DOMAIN details' /\ pending'.detail \notin DOMAIN details
         /\ details'[pending'.detail] = Row(pending.entry, pending.mirror)
         /\ \A n \in DOMAIN details' : n \in DOMAIN details \/ n = pending'.detail
         /\ ~spoilt /\ Grown /\ pending.entry \in Entries /\ pending.mirror \in BOOLEAN
         /\ UNCHANGED << disk, changes, objects, stack, answer, complete, scanned, steady, spoilt >>
<1> DEFINE Details == [entry : Entries, mirror : BOOLEAN]
           row == Row(pending.entry, pending.mirror)
<1>1. /\ pc = "detail" /\ pc' = "object"
      /\ UNCHANGED << disk, changes, objects, stack, answer, complete, scanned, steady >>
      /\ pending' = [pending EXCEPT !.detail = last']
  BY DEF InsertDetail, CatalogInv, ScanOK
<1>2. pending.entry \notin Unstorable
  BY DEF InsertDetail
<1>3. details' = Append(details, row) /\ last' = Len(details') /\ spoilt' = spoilt
  BY <1>2 DEF InsertDetail, Row
<1>4. /\ row \in Details /\ details \in Seq(Details) /\ pending.entry \in Entries /\ pending.mirror \in BOOLEAN
      /\ pending \in [entry : {Root} \cup Entries, mirror : BOOLEAN, detail : Nat]
  BY <1>1 DEF CatalogInv, ScanOK, Row
<1> HIDE DEF row, Details
<1>5. /\ Len(details) \in Nat /\ last' = Len(details) + 1
      /\ DOMAIN details = 1 .. Len(details) /\ DOMAIN details' = 1 .. Len(details) + 1
      /\ \A n \in DOMAIN details : n \in DOMAIN details' /\ details'[n] = details[n]
      /\ details'[last'] = row
  BY <1>3, <1>4, Appended
<1>6. last' \in DOMAIN details' /\ last' \notin DOMAIN details /\ \A n \in DOMAIN details' : n \in DOMAIN details \/ n = last'
  BY <1>5
<1>7. pending'.entry = pending.entry /\ pending'.mirror = pending.mirror /\ pending'.detail = last'
  BY <1>1, <1>4
<1>8. Grown
  BY <1>1, <1>5 DEF Grown
<1>9. QED
  BY <1>1, <1>3, <1>4, <1>5, <1>6, <1>7, <1>8 DEF row

\* An object is added, and then a folder is opened or a mirror is next.
LEMMA InsertObjectDoes ==
  ASSUME CatalogInv, InsertObject
  PROVE  \E e \in Entries, i \in DOMAIN objects' :
           /\ pc = "object" /\ e = pending.entry /\ Kind[e] # "unknown" /\ 1 \in DOMAIN stack
           /\ pending'.entry = e /\ pending.mirror \in BOOLEAN
           /\ i \notin DOMAIN objects /\ \A j \in DOMAIN objects' : j \in DOMAIN objects \/ j = i
           /\ objects'[i].detail = pending.detail /\ objects'[i].class = Kind[e]
           /\ Grown /\ UNCHANGED << disk, changes, details, answer, complete, scanned, steady, spoilt >>
           /\ stack' # << >>
           /\ \/ /\ Kind[e] = "folder" /\ pc' = "scan" /\ 1 \in DOMAIN stack'
                 /\ stack'[1].dir = e /\ stack'[1].todo = Inside(e) /\ stack'[1].read = {}
                 /\ \A k \in DOMAIN stack : k \in Nat /\ k + 1 \in DOMAIN stack' /\ stack'[k + 1] = stack[k]
                 /\ \A k \in DOMAIN stack' : k = 1 \/ \E l \in DOMAIN stack : k = l + 1
              \/ /\ Kind[e] = "movie" /\ Mirrors /\ ~pending.mirror
                 /\ stack' = stack /\ pc' = "detail" /\ pending'.mirror = TRUE
              \/ /\ Kind[e] # "folder" /\ (Kind[e] = "movie" /\ Mirrors => pending.mirror)
                 /\ stack' = stack /\ pc' = "scan"
<1> DEFINE Objects == [id : Seq(Nat), parent : Seq(Nat), detail : Nat, class : {"folder", "movie", "other"}]
           Pending == [entry : {Root} \cup Entries, mirror : BOOLEAN, detail : Nat]
<1>1. /\ pc = "object" /\ stack \in Seq(FrameSet) /\ stack # << >> /\ objects \in Seq(Objects) /\ pending \in Pending
      /\ pending.entry \in Entries /\ Kind[pending.entry] \in {"folder", "movie", "other"} /\ disk \subseteq Entries
  BY CatalogAssumption DEF InsertObject, CatalogInv, ScanOK, FrameSet
<1>2. PICK f, e, id, row :
        /\ f = Head(stack) /\ e = pending.entry /\ id = Append(f.id, pending.detail)
        /\ row = [id |-> id, parent |-> f.id, detail |-> pending.detail, class |-> Kind[e]]
  BY Zenon
<1>3. /\ objects' = Append(objects, row) /\ last' = Len(objects')
      /\ UNCHANGED << disk, changes, details, answer, complete, scanned, steady, spoilt >>
      /\ \/ Kind[e] = "folder" /\ stack' = << Frame(e, id) >> \o stack /\ pc' = "scan" /\ pending' = pending
         \/ /\ Kind[e] = "movie" /\ Mirrors /\ ~pending.mirror
            /\ stack' = stack /\ pc' = "detail" /\ pending' = [pending EXCEPT !.mirror = TRUE]
         \/ /\ Kind[e] # "folder" /\ (Kind[e] = "movie" /\ Mirrors => pending.mirror)
            /\ stack' = stack /\ pc' = "scan" /\ pending' = pending
  BY <1>2 DEF InsertObject, history
<1>4. f \in FrameSet /\ 1 \in DOMAIN stack /\ DOMAIN stack = 1 .. Len(stack)
  BY <1>1, <1>2, Shortened
<1>5. id \in Seq(Nat) /\ pending.detail \in Nat /\ f.id \in Seq(Nat)
  <2>1. f.id \in Seq(Nat) /\ pending.detail \in Nat
    BY <1>1, <1>4 DEF FrameSet
  <2>2. PICK up : up = f.id
    OBVIOUS
  <2>3. QED
    BY <1>2, <2>1, <2>2
<1>6. row \in Objects /\ row.detail = pending.detail /\ row.class = Kind[e]
  BY <1>1, <1>2, <1>5
<1>7. /\ pending.mirror \in BOOLEAN /\ [pending EXCEPT !.mirror = TRUE].entry = e /\ pending.entry = e
      /\ [pending EXCEPT !.mirror = TRUE].mirror = TRUE
  BY <1>1, <1>2
<1> HIDE DEF Objects, Pending
<1>8. /\ Len(objects) \in Nat /\ last' = Len(objects) + 1
      /\ DOMAIN objects = 1 .. Len(objects) /\ DOMAIN objects' = 1 .. Len(objects) + 1
      /\ \A i \in DOMAIN objects : i \in DOMAIN objects' /\ objects'[i] = objects[i]
      /\ objects'[last'] = row
  BY <1>1, <1>3, <1>6, Appended
<1>9. /\ last' \in DOMAIN objects' /\ last' \notin DOMAIN objects
      /\ \A j \in DOMAIN objects' : j \in DOMAIN objects \/ j = last'
  BY <1>8
<1>10. Grown
  BY <1>3, <1>8 DEF Grown
<1>11. PICK g : g = Frame(e, id)
  OBVIOUS
<1>12. g \in FrameSet /\ g.dir = e /\ g.todo = Inside(e) /\ g.read = {}
  BY <1>1, <1>2, <1>5, <1>11 DEF Frame, FrameSet, Inside
<1>13. ASSUME stack' = << Frame(e, id) >> \o stack
       PROVE  /\ 1 \in DOMAIN stack' /\ stack' # << >>
              /\ stack'[1].dir = e /\ stack'[1].todo = Inside(e) /\ stack'[1].read = {}
              /\ \A k \in DOMAIN stack : k \in Nat /\ k + 1 \in DOMAIN stack' /\ stack'[k + 1] = stack[k]
              /\ \A k \in DOMAIN stack' : k = 1 \/ \E l \in DOMAIN stack : k = l + 1
  <2>1. stack' = << g >> \o stack
    BY <1>11, <1>13
  <2>2. /\ 1 \in DOMAIN stack' /\ stack'[1] = g
        /\ \A k \in DOMAIN stack : k + 1 \in DOMAIN stack' /\ stack'[k + 1] = stack[k]
        /\ \A k \in DOMAIN stack' : k = 1 \/ \E l \in DOMAIN stack : k = l + 1
    BY <1>1, <1>12, <2>1, PushedAt
  <2>3. stack' # << >> /\ \A k \in DOMAIN stack : k \in Nat
    BY <1>4, <2>2
  <2>4. QED
    BY <1>12, <2>2, <2>3
<1>14. PICK i : i = last'
  OBVIOUS
<1>15. pending'.entry = e /\ (pc' = "detail" => pending'.mirror = TRUE)
  BY <1>3, <1>7
<1>16. QED
  <2>1. /\ pc = "object" /\ e \in Entries /\ e = pending.entry /\ Kind[e] # "unknown" /\ 1 \in DOMAIN stack
        /\ pending'.entry = e /\ pending.mirror \in BOOLEAN
        /\ i \in DOMAIN objects' /\ i \notin DOMAIN objects /\ \A j \in DOMAIN objects' : j \in DOMAIN objects \/ j = i
        /\ objects'[i].detail = pending.detail /\ objects'[i].class = Kind[e]
        /\ Grown /\ UNCHANGED << disk, changes, details, answer, complete, scanned, steady, spoilt >>
    BY <1>1, <1>2, <1>3, <1>4, <1>6, <1>7, <1>8, <1>9, <1>10, <1>14, <1>15
  <2>2. /\ stack' # << >>
        /\ \/ /\ Kind[e] = "folder" /\ pc' = "scan" /\ 1 \in DOMAIN stack'
              /\ stack'[1].dir = e /\ stack'[1].todo = Inside(e) /\ stack'[1].read = {}
              /\ \A k \in DOMAIN stack : k \in Nat /\ k + 1 \in DOMAIN stack' /\ stack'[k + 1] = stack[k]
              /\ \A k \in DOMAIN stack' : k = 1 \/ \E l \in DOMAIN stack : k = l + 1
           \/ /\ Kind[e] = "movie" /\ Mirrors /\ ~pending.mirror
              /\ stack' = stack /\ pc' = "detail" /\ pending'.mirror = TRUE
           \/ /\ Kind[e] # "folder" /\ (Kind[e] = "movie" /\ Mirrors => pending.mirror)
              /\ stack' = stack /\ pc' = "scan"
    BY <1>1, <1>3, <1>13, <1>15, Zenon
  <2>3. QED
    BY <2>1, <2>2, Zenon

\* What is in the database stays there.
LEMMA HasOn ==
  ASSUME RowsInv, Grown, NEW e, NEW mirror, Has(e, mirror)
  PROVE  Has(e, mirror)'
<1>1. PICK i \in DOMAIN objects : details[objects[i].detail] = Row(e, mirror)
  BY DEF Has
<1>2. /\ i \in DOMAIN objects' /\ objects'[i] = objects[i]
      /\ objects[i].detail \in DOMAIN details /\ details'[objects[i].detail] = details[objects[i].detail]
  BY DEF Grown, RowsInv
<1>3. Row(e, mirror)' = Row(e, mirror)
  BY DEF Row
<1>4. QED
  BY <1>1, <1>2, <1>3 DEF Has

\* So does all that stands for an entry, ...
LEMMA CoveredOn ==
  ASSUME RowsInv, Grown, NEW e, Covered(e)
  PROVE  Covered(e)'
  BY HasOn, Zenon DEF Covered

\* ... and what an object stands for.
LEMMA EntriesOn ==
  ASSUME RowsInv, Grown, NEW i \in DOMAIN objects
  PROVE  i \in DOMAIN objects' /\ objects'[i] = objects[i] /\ EntryOf(objects[i])' = EntryOf(objects[i])
  BY DEF Grown, RowsInv, EntryOf

\* The class of what is inserted.
LEMMA ClassKept ==
  ASSUME CatalogInv, ClassInv, ReadDir \/ EndDir \/ InsertDetail \/ InsertObject, ~spoilt, ~spoilt'
  PROVE  ClassInv'
<1>1. RowsInv /\ PendingInv
  BY DEF CatalogInv
<1>2. CASE ReadDir
  <2>1. PICK e \in Entries :
          /\ UNCHANGED << details, objects >>
          /\ (pc' = "detail" /\ ~pending'.mirror) \/ pc' = "scan"
    BY <1>2, ReadDirDoes
  <2>2. QED
    BY <2>1 DEF ClassInv, EntryOf
<1>3. CASE EndDir
  <2>1. UNCHANGED << details, objects >> /\ pc' \notin {"detail", "object"}
    BY <1>3, EndDirDoes
  <2>2. pc' # "object"
    BY <2>1
  <2>3. QED
    BY <2>1, <2>2 DEF ClassInv, EntryOf
<1>4. CASE InsertDetail
  <2>1. /\ pc = "detail" /\ pc' = "object" /\ pending'.entry = pending.entry /\ pending'.mirror = pending.mirror
        /\ details'[pending'.detail] = Row(pending.entry, pending.mirror)
        /\ \A n \in DOMAIN details' : n \in DOMAIN details \/ n = pending'.detail
        /\ Grown /\ UNCHANGED objects /\ pending.mirror \in BOOLEAN /\ Kind[pending.entry] # "unknown"
    BY <1>4, InsertDetailDoes DEF CatalogInv
  <2>2. \A i \in DOMAIN objects' : objects'[i].class = Kind[EntryOf(objects[i])']
    BY <1>1, <2>1, EntriesOn DEF ClassInv
  <2>3. pending.mirror => Mirrors /\ Kind[pending.entry] = "movie" /\ Has(pending.entry, FALSE)
    BY <2>1 DEF ClassInv
  <2>4. \A n \in DOMAIN details' : Kind[details'[n].entry] # "unknown"
                                   /\ (details'[n].mirror => Mirrors /\ Kind[details'[n].entry] = "movie")
    <3>1. PICK r : r = Row(pending.entry, pending.mirror)
      OBVIOUS
    <3>2. r.entry = pending.entry /\ r.mirror = pending.mirror
      BY <3>1 DEF Row
    <3>3. Kind[r.entry] # "unknown" /\ (r.mirror => Mirrors /\ Kind[r.entry] = "movie")
      BY <2>1, <2>3, <3>2
    <3>4. ASSUME NEW n \in DOMAIN details' PROVE details'[n] = r \/ (n \in DOMAIN details /\ details'[n] = details[n])
      BY <2>1, <3>1 DEF Grown
    <3>5. QED
      BY <3>3, <3>4 DEF ClassInv
  <2>5. pending'.mirror => Mirrors /\ Kind[pending'.entry] = "movie" /\ Has(pending.entry, FALSE)'
    <3>1. pending'.mirror => Has(pending.entry, FALSE)' /\ pending'.entry = pending.entry
      <4>1. ASSUME NEW x, x = pending.entry, Has(x, FALSE) PROVE Has(pending.entry, FALSE)'
        <5>1. Has(x, FALSE)'
          BY <1>1, <2>1, <4>1, HasOn
        <5>2. QED
          BY <2>1, <4>1, <5>1 DEF Has, Row
      <4>2. QED
        BY <2>1, <2>3, <4>1
    <3>2. QED
      BY <2>1, <2>3, <3>1
  <2>6. details'[pending'.detail] = Row(pending'.entry, pending'.mirror)
    BY <2>1
  <2>7. QED
    BY <2>2, <2>4, <2>5, <2>6 DEF ClassInv, Row
<1>5. CASE InsertObject
  <2>1. PICK e \in Entries, i \in DOMAIN objects' :
           /\ pc = "object" /\ e = pending.entry /\ Kind[e] # "unknown"
           /\ pending'.entry = e
           /\ \A j \in DOMAIN objects' : j \in DOMAIN objects \/ j = i
           /\ objects'[i].detail = pending.detail /\ objects'[i].class = Kind[e]
           /\ Grown /\ UNCHANGED details
           /\ (pc' = "scan" \/ (pc' = "detail" /\ Kind[e] = "movie" /\ Mirrors /\ pending.mirror = FALSE))
    BY <1>5, InsertObjectDoes, Zenon
  <2>2. details[pending.detail] = Row(e, pending.mirror)
    BY <2>1 DEF ClassInv
  <2>3. EntryOf(objects[i])' = e
    BY <2>1, <2>2 DEF EntryOf, Row
  <2>4. \A j \in DOMAIN objects' : objects'[j].class = Kind[EntryOf(objects[j])']
    BY <1>1, <2>1, <2>3, EntriesOn DEF ClassInv
  <2>5. \A n \in DOMAIN details' : Kind[details'[n].entry] # "unknown"
                                   /\ (details'[n].mirror => Mirrors /\ Kind[details'[n].entry] = "movie")
    BY <2>1 DEF ClassInv
  <2>6. pc' = "detail" => Mirrors /\ Kind[pending'.entry] = "movie" /\ Has(pending.entry, FALSE)'
    <3>1. pc' = "detail" => details'[objects'[i].detail] = Row(pending'.entry, FALSE)
      BY <2>1, <2>2
    <3>2. pc' = "detail" => Has(pending.entry, FALSE)'
      BY <3>1 DEF Has, Row
    <3>3. QED
      BY <2>1, <3>2
  <2>7. pc' # "object"
    BY <2>1
  <2>8. QED
    BY <2>1, <2>4, <2>5, <2>6, <2>7 DEF ClassInv
<1>6. QED
  BY <1>2, <1>3, <1>4, <1>5

\* A directory is in no call before it is opened, and nothing in it is inserted.
LEMMA NotYetOpened ==
  ASSUME CatalogInv, ClassInv, OnceInv, ~spoilt, pc = "object", Kind[pending.entry] = "folder"
  PROVE  /\ \A k \in DOMAIN stack : stack[k].dir # pending.entry
         /\ \A n \in DOMAIN details : Parent[details[n].entry] # pending.entry
<1>1. /\ RowsInv /\ FramesInv /\ PendingInv /\ pending.entry \in Entries
  BY DEF CatalogInv
<1>2. details[pending.detail] = Row(pending.entry, pending.mirror) /\ pending.detail \in DOMAIN details
  BY <1>1 DEF ClassInv, PendingInv
<1>3. ASSUME NEW j \in DOMAIN objects PROVE EntryOf(objects[j]) # pending.entry
  <2>1. PICK n : n = objects[j].detail
    OBVIOUS
  <2>2. n \in DOMAIN details /\ n # pending.detail
    BY <1>1, <2>1 DEF RowsInv, PendingInv
  <2>3. details[n] # details[pending.detail]
    BY <1>2, <2>2 DEF OnceInv
  <2>4. ASSUME details[n].entry = pending.entry PROVE FALSE
    <3>1. /\ details[n] = Row(details[n].entry, details[n].mirror) /\ details[n].mirror \in BOOLEAN
          /\ details[pending.detail] = Row(details[pending.detail].entry, details[pending.detail].mirror)
          /\ details[pending.detail].mirror \in BOOLEAN /\ details[pending.detail].entry = pending.entry
      BY <1>2, <2>2, RowTypes DEF CatalogInv, Row
    <3>2. ~details[n].mirror /\ ~details[pending.detail].mirror
      BY <1>2, <2>2, <2>4, <3>1 DEF ClassInv
    <3>3. details[n].mirror = FALSE /\ details[pending.detail].mirror = FALSE
      BY <3>1, <3>2
    <3>4. QED
      BY <2>3, <2>4, <3>1, <3>3, Zenon
  <2>5. QED
    BY <2>1, <2>4 DEF EntryOf
<1>4. \A id : ~Leads(id, pending.entry)
  BY <1>1, <1>3, CatalogAssumption DEF Leads
<1>5. ASSUME NEW k \in DOMAIN stack PROVE stack[k].dir # pending.entry
  <2>1. PICK id, dir : id = stack[k].id /\ dir = stack[k].dir
    OBVIOUS
  <2>2. Leads(id, dir)
    BY <1>1, <2>1 DEF FramesInv
  <2>3. QED
    BY <1>4, <2>1, <2>2
<1>6. ASSUME NEW n \in DOMAIN details PROVE Parent[details[n].entry] # pending.entry
  <2>1. CASE n = pending.detail
    <3>1. 1 \in DOMAIN stack
      BY Shortened DEF CatalogInv, ScanOK
    <3>2. Parent[pending.entry] = stack[1].dir
      BY <1>1 DEF PendingInv
    <3>3. QED
      BY <1>2, <1>5, <2>1, <3>1, <3>2 DEF Row
  <2>2. ASSUME NEW i \in DOMAIN objects, objects[i].detail = n PROVE Parent[details[n].entry] # pending.entry
    <3>1. PICK id, dir : id = objects[i].parent /\ dir = Parent[details[n].entry]
      OBVIOUS
    <3>2. Leads(id, dir)
      BY <1>1, <2>2, <3>1 DEF RowsInv, EntryOf
    <3>3. QED
      BY <1>4, <3>1, <3>2
  <2>3. QED
    BY <2>1, <2>2 DEF OnceInv
<1>7. QED
  BY <1>5, <1>6

\* Nothing is inserted twice.
LEMMA OnceKept ==
  ASSUME CatalogInv, ClassInv, OnceInv, ReadDir \/ EndDir \/ InsertDetail \/ InsertObject, ~spoilt, ~spoilt'
  PROVE  OnceInv'
<1>1. RowsInv /\ FramesInv /\ PendingInv
  BY DEF CatalogInv
<1>2. CASE ReadDir
  <2>1. PICK e \in Entries, f \in FrameSet :
           /\ pc = "scan" /\ 1 \in DOMAIN stack
           /\ e \in (stack[1].todo \cup Inside(stack[1].dir)) \ stack[1].read
           /\ f.dir = stack[1].dir /\ f.read = stack[1].read \cup {e}
           /\ DOMAIN stack' = DOMAIN stack /\ stack'[1] = f
           /\ \A k \in DOMAIN stack : k # 1 => stack'[k] = stack[k]
           /\ \/ pc' = "detail" /\ pending' = [entry |-> e, mirror |-> FALSE, detail |-> 0]
              \/ pc' = "scan"
           /\ UNCHANGED << details, objects >>
    BY <1>2, ReadDirDoes
  <2>2. \A k \in DOMAIN stack' : k \in DOMAIN stack /\ stack'[k].dir = stack[k].dir /\ stack[k].read \subseteq stack'[k].read
    BY <2>1
  <2>3. Parent[e] = stack[1].dir
    BY <1>1, <2>1 DEF FramesInv, Inside
  <2>4. \A n \in DOMAIN details : details[n].entry # e
    BY <2>1, <2>3 DEF OnceInv
  <2>5. \A mirror \in BOOLEAN, n \in DOMAIN details : details[n] # Row(e, mirror)
    BY <2>4 DEF Row
  <2>6. \A n \in DOMAIN details' : \E i \in DOMAIN objects' : objects'[i].detail = n
    BY <2>1 DEF OnceInv
  <2>7. /\ \A k, l \in DOMAIN stack' : stack'[k].dir = stack'[l].dir => k = l
        /\ \A n \in DOMAIN details' : \A k \in DOMAIN stack' :
             Parent[details'[n].entry] = stack'[k].dir => details'[n].entry \in stack'[k].read
    BY <2>1, <2>2 DEF OnceInv
  <2>8. pc' = "detail" => /\ pending'.entry = e /\ pending'.mirror = FALSE /\ e \in stack'[1].read
    BY <2>1
  <2>9. \A n, k \in DOMAIN details' : details'[n] = details'[k] => n = k
    BY <2>1 DEF OnceInv
  <2>10. pc' = "detail" => \A n \in DOMAIN details' :
           details'[n] # Row(pending'.entry, TRUE) /\ details'[n] # Row(pending'.entry, pending'.mirror)
    BY <2>1, <2>5, <2>8
  <2>11. pc' # "object"
    BY <2>1
  <2>12. QED
    BY <2>6, <2>7, <2>8, <2>9, <2>10, <2>11 DEF OnceInv, Row
<1>3. CASE EndDir
  <2>1. /\ pc = "scan" /\ pc' \in {"scan", "serving"} /\ UNCHANGED << details, objects >>
        /\ \A k \in DOMAIN stack' : k \in Nat /\ k + 1 \in DOMAIN stack /\ stack'[k] = stack[k + 1]
    BY <1>3, EndDirDoes
  <2>2. \A k, l \in DOMAIN stack' : stack'[k].dir = stack'[l].dir => k = l
    <3>1. ASSUME NEW k \in DOMAIN stack', NEW l \in DOMAIN stack', stack'[k].dir = stack'[l].dir PROVE k = l
      <4>1. k + 1 = l + 1
        BY <2>1, <3>1 DEF OnceInv
      <4>2. k \in Nat /\ l \in Nat
        BY <2>1
      <4>3. QED
        BY <4>1, <4>2
    <3>2. QED
      BY <3>1
  <2>3. \A n \in DOMAIN details : \E i \in DOMAIN objects : objects[i].detail = n
    BY <2>1 DEF OnceInv
  <2>4. \A n \in DOMAIN details' : \A k \in DOMAIN stack' :
          Parent[details'[n].entry] = stack'[k].dir => details'[n].entry \in stack'[k].read
    BY <2>1 DEF OnceInv
  <2>5. pc' \notin {"detail", "object"} /\ pc' # "detail"
    BY <2>1
  <2>6. QED
    BY <2>1, <2>2, <2>3, <2>4, <2>5 DEF OnceInv
<1>4. CASE InsertDetail
  <2>1. /\ pc = "detail" /\ pc' = "object" /\ pending'.entry = pending.entry /\ pending'.mirror = pending.mirror
        /\ pending'.detail \in DOMAIN details'
        /\ details'[pending'.detail] = Row(pending.entry, pending.mirror)
        /\ \A n \in DOMAIN details' : n \in DOMAIN details \/ n = pending'.detail
        /\ Grown /\ UNCHANGED << objects, stack >> /\ pending.mirror \in BOOLEAN
    BY <1>4, InsertDetailDoes
  <2>2. PICK r, m : r = Row(pending.entry, pending.mirror) /\ m = pending'.detail
    OBVIOUS
  <2>3. r.entry = pending.entry /\ r.mirror = pending.mirror
    BY <2>2 DEF Row
  <2>4. \A n \in DOMAIN details' : 
          \/ n = m /\ details'[n] = r
          \/ n \in DOMAIN details /\ details'[n] = details[n] /\ details'[n] # r
    <3>1. \A n \in DOMAIN details : details[n] # r
      BY <2>1, <2>2, Zenon DEF OnceInv
    <3>2. \A n \in DOMAIN details : details'[n] = details[n]
      BY <2>1 DEF Grown
    <3>3. details'[m] = r
      BY <2>1, <2>2
    <3>4. \A n \in DOMAIN details' : n \in DOMAIN details \/ n = m
      BY <2>1, <2>2
    <3>5. ASSUME NEW n \in DOMAIN details, n \in DOMAIN details'
          PROVE  n \in DOMAIN details /\ details'[n] = details[n] /\ details'[n] # r
      BY <3>1, <3>2
    <3>6. QED
      BY <3>3, <3>4, <3>5
  <2>5. \A n, k \in DOMAIN details' : details'[n] = details'[k] => n = k
    BY <2>4 DEF OnceInv
  <2>6. \A n \in DOMAIN details' : (\E i \in DOMAIN objects' : objects'[i].detail = n) \/ (pc' = "object" /\ pending'.detail = n)
    BY <2>1, <2>2, <2>4 DEF OnceInv
  <2>7. pending.entry \in stack[1].read /\ Parent[pending.entry] = stack[1].dir /\ 1 \in DOMAIN stack
    <3>1. 1 \in DOMAIN stack
      BY <2>1, Shortened DEF CatalogInv, ScanOK
    <3>2. QED
      BY <1>1, <2>1, <3>1 DEF PendingInv, OnceInv
  <2>8. \A n \in DOMAIN details' : \A k \in DOMAIN stack' :
          Parent[details'[n].entry] = stack'[k].dir => details'[n].entry \in stack'[k].read
    <3>1. ASSUME NEW n \in DOMAIN details', NEW k \in DOMAIN stack', Parent[details'[n].entry] = stack'[k].dir
          PROVE  details'[n].entry \in stack'[k].read
      <4>1. CASE n \in DOMAIN details /\ details'[n] = details[n]
        BY <2>1, <3>1, <4>1 DEF OnceInv
      <4>2. CASE details'[n] = r
        <5>1. k = 1
          BY <2>1, <2>3, <2>7, <3>1, <4>2 DEF OnceInv
        <5>2. QED
          BY <2>1, <2>3, <2>7, <4>2, <5>1
      <4>3. QED
        BY <2>4, <4>1, <4>2
    <3>2. QED
      BY <3>1
  <2>9. \A n \in DOMAIN details' : details'[n] = Row(pending'.entry, TRUE) => pending'.mirror
    <3>1. ASSUME NEW n \in DOMAIN details', details'[n] = Row(pending'.entry, TRUE) PROVE pending'.mirror
      <4>1. CASE details'[n] = r
        <5>1. Row(pending'.entry, TRUE).mirror = TRUE
          BY DEF Row
        <5>2. QED
          BY <2>1, <2>3, <3>1, <4>1, <5>1
      <4>2. CASE n \in DOMAIN details /\ details'[n] = details[n]
        BY <2>1, <3>1, <4>2 DEF OnceInv
      <4>3. QED
        BY <2>4, <4>1, <4>2
    <3>2. QED
      BY <3>1
  <2>10. pending'.entry \in stack'[1].read
    BY <2>1, <2>7
  <2>11. \A k, l \in DOMAIN stack' : stack'[k].dir = stack'[l].dir => k = l
    BY <2>1 DEF OnceInv
  <2>12. QED
    BY <2>1, <2>5, <2>6, <2>8, <2>9, <2>10, <2>11 DEF OnceInv, Row
<1>5. CASE InsertObject
  <2>1. PICK e \in Entries, i \in DOMAIN objects' :
           /\ pc = "object" /\ e = pending.entry /\ 1 \in DOMAIN stack
           /\ pending'.entry = e /\ pending.mirror \in BOOLEAN
           /\ objects'[i].detail = pending.detail
           /\ Grown /\ UNCHANGED details
           /\ \/ /\ Kind[e] = "folder" /\ pc' = "scan"
                 /\ stack'[1].dir = e /\ stack'[1].todo = Inside(e) /\ stack'[1].read = {}
                 /\ \A k \in DOMAIN stack : k \in Nat /\ k + 1 \in DOMAIN stack' /\ stack'[k + 1] = stack[k]
                 /\ \A k \in DOMAIN stack' : k = 1 \/ \E l \in DOMAIN stack : k = l + 1
              \/ stack' = stack /\ pc' = "detail" /\ pending'.mirror = TRUE /\ ~pending.mirror
              \/ stack' = stack /\ pc' = "scan"
    BY <1>5, InsertObjectDoes, Zenon
  <2>2. \A n \in DOMAIN details' : \E j \in DOMAIN objects' : objects'[j].detail = n
    BY <2>1 DEF OnceInv, Grown
  <2>3. \A n, k \in DOMAIN details' : details'[n] = details'[k] => n = k
    BY <2>1 DEF OnceInv
  <2>4. /\ \A k, l \in DOMAIN stack' : stack'[k].dir = stack'[l].dir => k = l
        /\ \A n \in DOMAIN details' : \A k \in DOMAIN stack' :
             Parent[details'[n].entry] = stack'[k].dir => details'[n].entry \in stack'[k].read
    <3>1. CASE stack' = stack
      BY <2>1, <3>1 DEF OnceInv
    <3>2. CASE stack' # stack
      <4>1. /\ Kind[e] = "folder"
            /\ stack'[1].dir = e
            /\ \A k \in DOMAIN stack' : k = 1 \/ \E l \in DOMAIN stack : k = l + 1 /\ stack'[k] = stack[l]
        BY <2>1, <3>2
      <4>2. /\ \A k \in DOMAIN stack : stack[k].dir # e
            /\ \A n \in DOMAIN details : Parent[details[n].entry] # e
        BY <2>1, <4>1, NotYetOpened
      <4>3. ASSUME NEW k \in DOMAIN stack', NEW l \in DOMAIN stack', stack'[k].dir = stack'[l].dir PROVE k = l
        BY <4>1, <4>2, <4>3 DEF OnceInv
      <4>4. ASSUME NEW n \in DOMAIN details', NEW k \in DOMAIN stack', Parent[details'[n].entry] = stack'[k].dir
            PROVE  details'[n].entry \in stack'[k].read
        BY <2>1, <4>1, <4>2, <4>4 DEF OnceInv
      <4>5. QED
        BY <4>3, <4>4
    <3>3. QED
      BY <3>1, <3>2
  <2>5. ASSUME pc' = "detail"
        PROVE  /\ pending'.entry \in stack'[1].read
               /\ \A n \in DOMAIN details' : details'[n] # Row(pending'.entry, TRUE)
               /\ pending'.mirror = TRUE
    <3>1. stack' = stack /\ pending'.mirror = TRUE /\ ~pending.mirror
      BY <2>1, <2>5
    <3>2. QED
      BY <2>1, <3>1 DEF OnceInv
  <2>6. pc' # "object"
    BY <2>1
  <2>7. QED
    BY <2>2, <2>3, <2>4, <2>5, <2>6 DEF OnceInv, Row
<1>6. QED
  BY <1>2, <1>3, <1>4, <1>5

\* All that is read is inserted.
LEMMA WholeKept ==
  ASSUME CatalogInv, ClassInv, OnceInv, WholeInv, ReadDir \/ EndDir \/ InsertDetail \/ InsertObject, ~spoilt, ~spoilt'
  PROVE  WholeInv'
<1>1. RowsInv /\ FramesInv /\ PendingInv
  BY DEF CatalogInv
<1>2. CASE ReadDir
  <2>1. PICK e \in Entries, f \in FrameSet :
           /\ pc = "scan" /\ 1 \in DOMAIN stack
           /\ f.dir = stack[1].dir /\ f.todo = stack[1].todo /\ f.read = stack[1].read \cup {e}
           /\ DOMAIN stack' = DOMAIN stack /\ stack'[1] = f
           /\ \A k \in DOMAIN stack : k # 1 => stack'[k] = stack[k]
           /\ IF Described(e) THEN pc' = "detail" /\ pending' = [entry |-> e, mirror |-> FALSE, detail |-> 0]
              ELSE pc' = "scan" /\ pending' = pending
           /\ UNCHANGED << disk, details, objects, scanned >>
    BY <1>2, ReadDirDoes
  <2>2. \A k \in DOMAIN stack' : /\ k \in DOMAIN stack /\ stack'[k].dir = stack[k].dir
                                 /\ stack'[k].todo = stack[k].todo /\ stack'[k].read \subseteq stack[k].read \cup {e}
    BY <2>1
  <2>3. \A x : Covered(x)' <=> Covered(x)
    BY <2>1 DEF Covered, Has, Row
  <2>4. disk = scanned
    BY <2>1 DEF WholeInv
  <2>5. \A x \in scanned : Kind[x] # "unknown" /\ x = e => pc' = "detail" /\ x = pending'.entry
    BY <2>1, <2>4 DEF Described
  <2>6. pc' = "detail" => pending'.entry \in scanned
    BY <2>1, <2>4 DEF Described
  <2>7. \A k \in DOMAIN stack' : \A x \in scanned' : Parent[x] = stack'[k].dir => x \in stack'[k].todo
    BY <2>1, <2>2 DEF WholeInv
  <2>8. ASSUME NEW k \in DOMAIN stack', NEW x \in stack'[k].read \cap scanned', Kind[x] # "unknown"
        PROVE  Covered(x) \/ (pc' = "detail" /\ x = pending'.entry)
    <3>1. x \in scanned
      BY <2>1
    <3>2. CASE x = e
      BY <2>5, <2>8, <3>1, <3>2
    <3>3. CASE x \in stack[k].read
      BY <2>1, <2>2, <2>8, <3>1, <3>3 DEF WholeInv
    <3>4. QED
      BY <2>2, <2>8, <3>2, <3>3
  <2>9. ASSUME NEW x \in scanned', Kind[x] # "unknown",
               Parent[x] = Root \/ \E i \in DOMAIN objects' : EntryOf(objects[i])' = Parent[x],
               \A k \in DOMAIN stack' : stack'[k].dir # Parent[x]
        PROVE  Covered(x)
    <3>1. x \in scanned /\ (Parent[x] = Root \/ \E i \in DOMAIN objects : EntryOf(objects[i]) = Parent[x])
      BY <2>1, <2>9 DEF EntryOf
    <3>2. \A k \in DOMAIN stack : stack[k].dir # Parent[x]
      BY <2>1, <2>2, <2>9
    <3>3. QED
      BY <2>9, <3>1, <3>2 DEF WholeInv
  <2>10. \A n \in DOMAIN details' : details'[n].entry \in scanned'
    BY <2>1 DEF WholeInv
  <2>11. pc' \in {"detail", "object"} => pc' = "detail"
    BY <2>1
  <2>12. QED
    BY <2>1, <2>3, <2>4, <2>6, <2>7, <2>8, <2>9, <2>10, <2>11 DEF WholeInv
<1>3. CASE EndDir
  <2>1. /\ pc = "scan" /\ 1 \in DOMAIN stack /\ stack[1].todo \subseteq stack[1].read
        /\ \A k \in DOMAIN stack' : k \in Nat /\ k + 1 \in DOMAIN stack /\ stack'[k] = stack[k + 1]
        /\ \A k \in DOMAIN stack : k = 1 \/ \E l \in DOMAIN stack' : k = l + 1
        /\ pc' \in {"scan", "serving"} /\ UNCHANGED << disk, details, objects, scanned >>
    BY <1>3, EndDirDoes
  <2>2. \A x : Covered(x)' <=> Covered(x)
    BY <2>1 DEF Covered, Has, Row
  <2>3. disk = scanned
    BY <2>1 DEF WholeInv
  <2>4. /\ \A k \in DOMAIN stack' : \A x \in scanned' : Parent[x] = stack'[k].dir => x \in stack'[k].todo
        /\ \A k \in DOMAIN stack' : \A x \in stack'[k].read \cap scanned' : Kind[x] # "unknown" => Covered(x)
    BY <2>1 DEF WholeInv
  <2>5. ASSUME NEW x \in scanned', Kind[x] # "unknown",
               Parent[x] = Root \/ \E i \in DOMAIN objects' : EntryOf(objects[i])' = Parent[x],
               \A k \in DOMAIN stack' : stack'[k].dir # Parent[x]
        PROVE  Covered(x)
    <3>1. x \in scanned /\ (Parent[x] = Root \/ \E i \in DOMAIN objects : EntryOf(objects[i]) = Parent[x])
      BY <2>1, <2>5 DEF EntryOf
    <3>2. CASE Parent[x] = stack[1].dir
      <4>1. x \in stack[1].read
        BY <2>1, <3>1, <3>2 DEF WholeInv
      <4>2. QED
        BY <2>1, <2>5, <3>1, <4>1 DEF WholeInv
    <3>3. CASE Parent[x] # stack[1].dir
      <4>1. \A k \in DOMAIN stack : stack[k].dir # Parent[x]
        BY <2>1, <2>5, <3>3
      <4>2. QED
        BY <2>5, <3>1, <4>1 DEF WholeInv
    <3>4. QED
      BY <3>2, <3>3
  <2>6. \A n \in DOMAIN details' : details'[n].entry \in scanned'
    BY <2>1 DEF WholeInv
  <2>7. pc' \notin {"detail", "object"}
    BY <2>1
  <2>8. QED
    BY <2>1, <2>2, <2>3, <2>4, <2>5, <2>6, <2>7 DEF WholeInv
<1>4. CASE InsertDetail
  <2>1. /\ pc = "detail" /\ pc' = "object" /\ pending'.entry = pending.entry
        /\ details'[pending'.detail] = Row(pending.entry, pending.mirror)
        /\ \A n \in DOMAIN details' : n \in DOMAIN details \/ n = pending'.detail
        /\ Grown /\ UNCHANGED << disk, objects, stack, scanned >>
    BY <1>4, InsertDetailDoes
  <2>2. \A x : Covered(x) => Covered(x)'
    BY <1>1, <2>1, CoveredOn
  <2>3. pending.entry \in scanned
    BY <2>1 DEF WholeInv
  <2>4. \A n \in DOMAIN details' : details'[n].entry \in scanned'
    <3>1. Row(pending.entry, pending.mirror).entry = pending.entry
      BY DEF Row
    <3>2. QED
      BY <2>1, <2>3, <3>1 DEF WholeInv, Grown
  <2>5. \A i \in DOMAIN objects : EntryOf(objects[i])' = EntryOf(objects[i])
    BY <1>1, <2>1, EntriesOn
  <2>6. ASSUME NEW x \in scanned', Kind[x] # "unknown",
               Parent[x] = Root \/ \E i \in DOMAIN objects' : EntryOf(objects[i])' = Parent[x],
               \A k \in DOMAIN stack' : stack'[k].dir # Parent[x]
        PROVE  Covered(x)
    BY <2>1, <2>5, <2>6 DEF WholeInv
  <2>7. /\ stack' # << >> => disk' = scanned'
        /\ \A k \in DOMAIN stack' :
             /\ \A e \in scanned' : Parent[e] = stack'[k].dir => e \in stack'[k].todo
             /\ \A e \in stack'[k].read \cap scanned' : Kind[e] # "unknown" => Covered(e) \/ e = pending'.entry
    BY <2>1 DEF WholeInv
  <2>8. QED
    BY <2>1, <2>2, <2>3, <2>4, <2>6, <2>7 DEF WholeInv
<1>5. CASE InsertObject
  <2>1. PICK e \in Entries, i \in DOMAIN objects' :
           /\ pc = "object" /\ e = pending.entry /\ 1 \in DOMAIN stack
           /\ pending'.entry = e /\ pending.mirror \in BOOLEAN
           /\ \A j \in DOMAIN objects' : j \in DOMAIN objects \/ j = i
           /\ objects'[i].detail = pending.detail
           /\ Grown /\ UNCHANGED << disk, details, scanned >>
           /\ \/ /\ Kind[e] = "folder" /\ pc' = "scan" /\ 1 \in DOMAIN stack'
                 /\ stack'[1].dir = e /\ stack'[1].todo = Inside(e) /\ stack'[1].read = {}
                 /\ \A k \in DOMAIN stack : k \in Nat /\ k + 1 \in DOMAIN stack' /\ stack'[k + 1] = stack[k]
                 /\ \A k \in DOMAIN stack' : k = 1 \/ \E l \in DOMAIN stack : k = l + 1
              \/ Kind[e] = "movie" /\ stack' = stack /\ pc' = "detail"
              \/ Kind[e] # "folder" /\ (Kind[e] = "movie" /\ Mirrors => pending.mirror) /\ stack' = stack /\ pc' = "scan"
    BY <1>5, InsertObjectDoes, Zenon
  <2>2. \A x : Covered(x) => Covered(x)'
    BY <1>1, <2>1, CoveredOn
  <2>3. details[pending.detail] = Row(e, pending.mirror) /\ (pending.mirror => Has(e, FALSE)')
    <3>1. details[pending.detail] = Row(e, pending.mirror) /\ (pending.mirror => Has(e, FALSE))
      BY <2>1 DEF ClassInv
    <3>2. QED
      BY <1>1, <2>1, <3>1, HasOn
  <2>4. pc' = "scan" => Covered(e)'
    <3>1. ASSUME NEW m \in BOOLEAN, m = pending.mirror PROVE Has(e, m)'
      <4>1. details'[objects'[i].detail] = Row(e, m)
        BY <2>1, <2>3, <3>1
      <4>2. QED
        BY <4>1 DEF Has, Row
    <3>2. CASE pending.mirror = TRUE
      <4>1. Has(e, TRUE)' /\ Has(e, FALSE)'
        BY <2>3, <3>1, <3>2
      <4>2. QED
        BY <4>1, Zenon DEF Covered
    <3>3. CASE pending.mirror = FALSE
      <4>1. Has(e, FALSE)'
        BY <3>1, <3>3
      <4>2. pc' = "scan" => ~(Mirrors /\ Kind[e] = "movie")
        BY <2>1, <3>3
      <4>3. QED
        BY <4>1, <4>2, Zenon DEF Covered
    <3>4. QED
      BY <2>1, <3>2, <3>3
  <2>5. \A j \in DOMAIN objects : EntryOf(objects[j])' = EntryOf(objects[j])
    BY <1>1, <2>1, EntriesOn
  <2>6. EntryOf(objects[i])' = e
    BY <2>1, <2>3 DEF EntryOf, Row
  <2>7. disk = scanned /\ pending.entry \in scanned
    <3>1. stack # << >>
      BY <2>1
    <3>2. QED
      BY <2>1, <3>1 DEF WholeInv
  <2>8. \A k \in DOMAIN stack' : (stack'[k].dir = e /\ stack'[k].todo = Inside(e) /\ stack'[k].read = {})
                                 \/ \E l \in DOMAIN stack : stack'[k] = stack[l]
    BY <2>1
  <2>9. \A l \in DOMAIN stack : \E k \in DOMAIN stack' : stack'[k] = stack[l]
    BY <2>1
  <2>10. \A k \in DOMAIN stack' : \A x \in scanned' : Parent[x] = stack'[k].dir => x \in stack'[k].todo
    BY <2>1, <2>7, <2>8 DEF WholeInv, Inside
  <2>11. ASSUME NEW k \in DOMAIN stack', NEW x \in stack'[k].read \cap scanned', Kind[x] # "unknown"
         PROVE  Covered(x)' \/ (pc' \in {"detail", "object"} /\ x = pending'.entry)
    <3>1. PICK l \in DOMAIN stack : x \in stack[l].read \cap scanned
      BY <2>1, <2>8
    <3>2. Covered(x) \/ x = e
      BY <2>1, <2>11, <3>1 DEF WholeInv
    <3>3. QED
      BY <2>1, <2>2, <2>4, <3>2
  <2>12. ASSUME NEW x \in scanned', Kind[x] # "unknown",
               Parent[x] = Root \/ \E j \in DOMAIN objects' : EntryOf(objects[j])' = Parent[x],
               \A k \in DOMAIN stack' : stack'[k].dir # Parent[x]
        PROVE  Covered(x)
    <3>1. x \in scanned /\ x \in Entries
      BY <2>1, <2>7 DEF CatalogInv, ScanOK
    <3>2. Parent[x] # e
      <4>1. ASSUME Parent[x] = e PROVE FALSE
        <5>1. Kind[e] = "folder"
          BY <2>1, <3>1, <4>1, CatalogAssumption
        <5>2. CASE 1 \in DOMAIN stack' /\ stack'[1].dir = e
          BY <2>12, <4>1, <5>2
        <5>3. QED
          BY <2>1, <5>1, <5>2
      <4>2. QED
        BY <4>1
    <3>3. Parent[x] = Root \/ \E j \in DOMAIN objects : EntryOf(objects[j]) = Parent[x]
      BY <2>1, <2>5, <2>6, <2>12, <3>2
    <3>4. \A k \in DOMAIN stack : stack[k].dir # Parent[x]
      BY <2>9, <2>12
    <3>5. QED
      BY <2>12, <3>1, <3>3, <3>4 DEF WholeInv
  <2>13. \A n \in DOMAIN details' : details'[n].entry \in scanned'
    BY <2>1 DEF WholeInv
  <2>14. disk' = scanned' /\ pending'.entry \in scanned'
    BY <2>1, <2>7
  <2>15. QED
    BY <2>2, <2>10, <2>11, <2>12, <2>13, <2>14 DEF WholeInv
<1>6. QED
  BY <1>2, <1>3, <1>4, <1>5

\* An answer from the rows there are, to what can be asked.
LEMMA ReplyDoes ==
  ASSUME NEW do, NEW id, NEW class, NEW page, NEW matching, NEW missing,
         Reply(do, id, class, page, matching, missing)
  PROVE  \/ End
         \/ /\ pc = "serving" /\ UNCHANGED << disk, changes, details, objects, last, pc, stack, pending, complete, scanned, steady, spoilt >>
            /\ answer'.do = do /\ answer'.id = id /\ answer'.class = class /\ answer'.page = page
            /\ answer'.rows = Limit(Rows(matching), page)
            /\ answer'.total = IF answer'.rows = << >> THEN 0 ELSE Cardinality(matching)
            /\ answer'.fault = (answer'.rows = << >> /\ missing)
  BY DEF Reply, tables, history

\* What an answer is made from stays the same.
Still == UNCHANGED << disk, changes, details, objects, last, pc, stack, pending, complete, scanned, steady, spoilt >>

\* The rows of a query are the same then.
LEMMA StillRows ==
  ASSUME Still
  PROVE  /\ Ids' = Ids
         /\ \A id, class : Below(id, class)' = Below(id, class)
         /\ \A id : Children(id)' = Children(id)
         /\ \A M : Rows(M)' = Rows(M)
  BY DEF Still, Ids, Below, Children, Rows, Place, Precedes, Title

\* The object that an id is of.
LEMMA FoundOnce ==
  ASSUME CatalogInv, ServedInv, ~spoilt, NEW id \in Ids, id # RootId,
         NEW M, {i \in First(id) : OnDisk(i)} \subseteq M, M \subseteq First(id)
  PROVE  \/ \E i \in DOMAIN objects : objects[i].id = id /\ Limit(Rows(M), << 0, 1 >>) = << i >>
         \/ changes > 0 /\ Limit(Rows(M), << 0, 1 >>) = << >>
<1>1. PICK i \in DOMAIN objects : objects[i].id = id
  BY DEF Ids
<1>2. \A j \in DOMAIN objects : objects[j].id = id => j = i
  BY <1>1, SoundByInv DEF CatalogSound
<1>3. First(id) = {i}
  <2>1. DOMAIN objects = 1 .. Len(objects) /\ Len(objects) \in Nat
    BY RowTypes DEF CatalogInv
  <2>2. \A j \in 1 .. i - 1 : j \in DOMAIN objects /\ j # i
    BY <2>1
  <2>3. \A j \in 1 .. i - 1 : objects[j].id # id
    BY <1>2, <2>2
  <2>4. QED
    BY <1>1, <1>2, <2>3 DEF First
<1>4. CASE M = {i}
  BY <1>1, <1>4, RowsOfOne DEF CatalogInv
<1>5. CASE M = {}
  <2>1. ~OnDisk(i)
    BY <1>3, <1>5
  <2>2. objects[i].detail \in DOMAIN details /\ details[objects[i].detail].entry \notin disk
    BY <2>1 DEF OnDisk
  <2>3. changes # 0 /\ changes \in Nat
    BY <2>2 DEF ServedInv, DiskInv
  <2>4. QED
    BY <1>5, <2>3, RowsOfNone
<1>6. QED
  BY <1>3, <1>4, <1>5

\* What is asked for by its id is found, or has gone.
LEMMA AskedKept ==
  ASSUME CatalogInv, ServedInv, Still, pc = "serving", ~spoilt, NEW id \in Ids, NEW M, NEW missing \in BOOLEAN,
         {i \in First(id) : OnDisk(i)} \subseteq M, M \subseteq First(id), missing = (id # RootId) \/ missing = TRUE,
         answer'.id = id, answer'.rows = Limit(Rows(M), << 0, 1 >>), answer'.fault = (answer'.rows = << >> /\ missing)
  PROVE  FoundRight'
<1>1. CASE id = RootId
  BY <1>1 DEF FoundRight
<1>2. CASE id # RootId
  <2>1. \/ \E i \in DOMAIN objects : objects[i].id = id /\ Limit(Rows(M), << 0, 1 >>) = << i >>
        \/ changes > 0 /\ Limit(Rows(M), << 0, 1 >>) = << >>
    BY <1>2, FoundOnce
  <2>2. UNCHANGED << objects, changes >>
    BY DEF Still
  <2>3. CASE \E i \in DOMAIN objects : objects[i].id = id /\ Limit(Rows(M), << 0, 1 >>) = << i >>
    BY <2>2, <2>3 DEF FoundRight
  <2>4. CASE changes > 0 /\ Limit(Rows(M), << 0, 1 >>) = << >>
    BY <1>2, <2>2, <2>4 DEF FoundRight
  <2>5. QED
    BY <2>1, <2>3, <2>4
<1>3. QED
  BY <1>1, <1>2

\* Each request.
LEMMA RequestKept ==
  ASSUME CatalogInv, ServedInv,
         \/ Open
         \/ \E id \in Ids : \/ Metadata(id) \/ Info(id)
                             \/ \E page \in Pages : \/ Browse(id, page)
                                                    \/ \E class \in Classes : Search(id, class, page)
  PROVE  End \/ (Still /\ AnswerInv')
<1>1. CASE Open
  <2> DEFINE M == {i \in First(answer.id) : details[objects[i].detail].mirror \/ OnDisk(i)}
  <2>1. /\ answer.do = "info" /\ ~answer.fault
        /\ Reply("open", answer.id, "any", << 0, 1 >>, M, TRUE)
    BY <1>1 DEF Open
  <2>2. answer.id \in Ids /\ << 0, 1 >> \in Nat \X Nat
    BY DEF ServedInv, AnswerInv
  <2>3. {i \in First(answer.id) : OnDisk(i)} \subseteq M /\ M \subseteq First(answer.id)
    OBVIOUS
  <2> HIDE DEF M
  <2>4. \/ End
        \/ /\ pc = "serving" /\ Still /\ answer'.do = "open" /\ answer'.id = answer.id /\ answer'.page = << 0, 1 >>
           /\ answer'.rows = Limit(Rows(M), << 0, 1 >>) /\ answer'.fault = (answer'.rows = << >> /\ TRUE)
    BY <2>1, ReplyDoes, Zenon DEF Still
  <2>5. ASSUME ~End PROVE Still /\ AnswerInv'
    <3>1. ~spoilt => FoundRight'
      BY <2>2, <2>3, <2>4, <2>5, AskedKept
    <3>2. Ids' = Ids /\ pc' = pc /\ spoilt' = spoilt
      BY <2>4, <2>5, StillRows DEF Still
    <3>3. answer'.do # "search" /\ answer'.do # "browse"
      BY <2>4, <2>5
    <3>4. QED
      BY <2>2, <2>4, <2>5, <3>1, <3>2, <3>3 DEF AnswerInv
  <2>6. QED
    BY <2>5
<1>2. ASSUME NEW id \in Ids, Metadata(id) \/ Info(id) PROVE End \/ (Still /\ AnswerInv')
  <2>1. ASSUME NEW do \in {"metadata", "info"}, NEW M, NEW missing \in BOOLEAN,
               Reply(do, id, "any", << 0, 1 >>, M, missing),
               {i \in First(id) : OnDisk(i)} \subseteq M, M \subseteq First(id),
               missing = (id # RootId) \/ missing = TRUE
        PROVE  End \/ (Still /\ AnswerInv')
    <3>1. \/ End
          \/ /\ pc = "serving" /\ Still /\ answer'.do = do /\ answer'.id = id /\ answer'.page = << 0, 1 >>
             /\ answer'.rows = Limit(Rows(M), << 0, 1 >>) /\ answer'.fault = (answer'.rows = << >> /\ missing)
      BY <2>1, ReplyDoes, Zenon DEF Still
    <3>2. ASSUME ~End PROVE Still /\ AnswerInv'
      <4>1. ~spoilt => FoundRight'
        BY <2>1, <3>1, <3>2, AskedKept
      <4>2. Ids' = Ids /\ pc' = pc /\ spoilt' = spoilt
        BY <3>1, <3>2, StillRows DEF Still
      <4>3. answer'.do # "search" /\ answer'.do # "browse" /\ << 0, 1 >> \in Nat \X Nat
        BY <3>1, <3>2
      <4>4. QED
        BY <1>2, <3>1, <3>2, <4>1, <4>2, <4>3 DEF AnswerInv
    <3>3. QED
      BY <3>2
  <2> DEFINE Found == {i \in First(id) : OnDisk(i)}
  <2>2. Found \subseteq First(id)
    OBVIOUS
  <2> HIDE DEF Found
  <2>3. Metadata(id) => Reply("metadata", id, "any", << 0, 1 >>, First(id), id # RootId)
    BY DEF Metadata
  <2>4. Info(id) => End \/ Reply("info", id, "any", << 0, 1 >>, Found, TRUE)
    BY Zenon DEF Info, Found
  <2>5. (id # RootId) \in BOOLEAN
    OBVIOUS
  <2>6. CASE Metadata(id)
    BY <2>1, <2>2, <2>3, <2>5, <2>6, Zenon DEF Found
  <2>7. CASE Info(id)
    BY <2>1, <2>2, <2>4, <2>7, Zenon DEF Found
  <2>8. QED
    BY <1>2, <2>6, <2>7
<1>3. ASSUME NEW id \in Ids, NEW page \in Pages, Browse(id, page) PROVE End \/ (Still /\ AnswerInv')
  <2>1. \/ End
        \/ /\ pc = "serving" /\ Still /\ answer'.do = "browse" /\ answer'.id = id /\ answer'.page = page
           /\ answer'.rows = Limit(Rows(Children(id)), page)
           /\ answer'.total = IF answer'.rows = << >> THEN 0 ELSE Cardinality(Children(id))
    BY <1>3, ReplyDoes, Zenon DEF Browse, Still
  <2>2. ASSUME ~End PROVE Still /\ AnswerInv'
    <3>1. FoundRight'
      BY <2>1, <2>2 DEF FoundRight
    <3>2. Ids' = Ids /\ pc' = pc /\ page \in Nat \X Nat
      BY <2>1, <2>2, StillRows, CatalogAssumption DEF Still
    <3>3. answer'.do # "search"
      BY <2>1, <2>2
    <3>4. Children(answer.id)' = Children(id) /\ \A N : Rows(N)' = Rows(N)
      BY <2>1, <2>2, StillRows
    <3>5. Limit(Rows(Children(answer.id)), answer.page)' = Limit(Rows(Children(id)), page)
      BY <2>1, <2>2, <3>4, Zenon DEF Limit
    <3>6. QED
      BY <1>3, <2>1, <2>2, <3>1, <3>2, <3>3, <3>4, <3>5 DEF AnswerInv
  <2>3. QED
    BY <2>2
<1>4. ASSUME NEW id \in Ids, NEW page \in Pages, NEW class \in Classes, Search(id, class, page)
      PROVE End \/ (Still /\ AnswerInv')
  <2>1. \/ End
        \/ /\ pc = "serving" /\ Still /\ answer'.do = "search" /\ answer'.id = id /\ answer'.page = page
           /\ answer'.class = class /\ answer'.rows = Limit(Rows(Below(id, class)), page)
    BY <1>4, ReplyDoes, Zenon DEF Search, Still
  <2>2. ASSUME ~End PROVE Still /\ AnswerInv'
    <3>1. FoundRight'
      BY <2>1, <2>2 DEF FoundRight
    <3>2. Ids' = Ids /\ pc' = pc /\ page \in Nat \X Nat
      BY <2>1, <2>2, StillRows, CatalogAssumption DEF Still
    <3>3. answer'.do # "browse"
      BY <2>1, <2>2
    <3>4. Below(answer.id, answer.class)' = Below(id, class) /\ \A N : Rows(N)' = Rows(N)
      BY <2>1, <2>2, StillRows
    <3>5. Limit(Rows(Below(answer.id, answer.class)), answer.page)' = Limit(Rows(Below(id, class)), page)
      BY <2>1, <2>2, <3>4, Zenon DEF Limit
    <3>6. QED
      BY <1>4, <2>1, <2>2, <3>1, <3>2, <3>3, <3>4, <3>5 DEF AnswerInv
  <2>3. QED
    BY <2>2
<1>5. QED
  BY <1>1, <1>2, <1>3, <1>4

\* At the beginning nothing is asked and nothing inserted.
LEMMA ServedInitially == CatalogInit => ServedInv
<1> SUFFICES ASSUME CatalogInit PROVE ServedInv
  OBVIOUS
<1>1. /\ details = << >> /\ objects = << >> /\ pc = "off" /\ stack = << >> /\ ~complete /\ changes = 0
      /\ answer = NoAnswer
  BY DEF CatalogInit
<1>2. DiskInv /\ ScannedInv
  BY <1>1 DEF DiskInv, ScannedInv, ClassInv
<1>3. AnswerInv
  <2>1. answer.id = RootId /\ answer.page = << 0, 0 >> /\ answer.do = "none"
    BY <1>1 DEF NoAnswer
  <2>2. << 0, 0 >> \in Nat \X Nat
    OBVIOUS
  <2>3. QED
    BY <1>1, <2>1, <2>2 DEF AnswerInv, FoundRight, Ids
<1>4. QED
  BY <1>1, <1>2, <1>3 DEF ServedInv

\* Nothing has been answered.
LEMMA Unanswered == ASSUME answer' = NoAnswer PROVE AnswerInv'
<1>1. answer'.id = RootId /\ answer'.page = << 0, 0 >> /\ answer'.do = "none"
  BY DEF NoAnswer
<1>2. << 0, 0 >> \in Nat \X Nat /\ NoAnswer' = NoAnswer /\ RootId' = RootId
  BY DEF NoAnswer, RootId
<1>3. RootId \in Ids'
  BY <1>2 DEF Ids
<1>4. QED
  BY <1>1, <1>2, <1>3 DEF AnswerInv, FoundRight

\* The steps of the scan.
LEMMA ScanServed ==
  ASSUME CatalogInv, ServedInv, ReadDir \/ EndDir \/ InsertDetail \/ InsertObject
  PROVE  ServedInv'
<1>1. /\ pc \in {"scan", "detail", "object"} /\ stack # << >>
      /\ UNCHANGED << disk, changes, answer, scanned, steady >>
  BY DEF ReadDir, EndDir, InsertDetail, InsertObject, tables, history, CatalogInv, ScanOK
<1>2. ~complete /\ answer' = NoAnswer
  BY <1>1 DEF ServedInv, AnswerInv
<1>3. (complete' => stack' = << >>) /\ (~spoilt' => ~spoilt)
  <2>1. CASE ReadDir
    BY <1>2, <2>1, ReadDirDoes
  <2>2. CASE EndDir
    BY <1>2, <2>2, EndDirDoes
  <2>3. CASE InsertDetail \/ InsertObject
    BY <1>2, <2>3 DEF InsertDetail, InsertObject, history
  <2>4. QED
    BY <2>1, <2>2, <2>3
<1>4. AnswerInv'
  BY <1>2, Unanswered
<1>5. DiskInv'
  <2> SUFFICES ASSUME changes = 0
               PROVE  /\ \A n \in DOMAIN details' : details'[n].entry \in disk'
                      /\ pc' \in {"detail", "object"} => pending'.entry \in disk'
    BY <1>1 DEF DiskInv
  <2>1. /\ \A n \in DOMAIN details : details[n].entry \in disk
        /\ pc \in {"detail", "object"} => pending.entry \in disk
    BY DEF ServedInv, DiskInv
  <2>2. CASE ReadDir
    <3>1. PICK e \in Entries :
            /\ UNCHANGED details
            /\ \/ Described(e) /\ pending' = [entry |-> e, mirror |-> FALSE, detail |-> 0]
               \/ pc' = "scan"
      BY <2>2, ReadDirDoes
    <3>2. QED
      BY <1>1, <2>1, <3>1 DEF Described
  <2>3. CASE EndDir
    BY <1>1, <2>1, <2>3, EndDirDoes
  <2>4. CASE InsertObject
    <3>1. /\ pc = "object" /\ UNCHANGED details /\ pending'.entry = pending.entry
      BY <2>4, InsertObjectDoes
    <3>2. QED
      BY <1>1, <2>1, <3>1
  <2>5. CASE InsertDetail
    <3>1. pc = "detail" /\ pending.entry \in disk
      BY <2>1, <2>5 DEF InsertDetail
    <3>2. pending'.entry = pending.entry
      BY <2>5 DEF InsertDetail, CatalogInv, ScanOK
    <3>3. CASE spoilt'
      <4>1. CASE UNCHANGED details
        BY <1>1, <2>1, <3>1, <3>2, <4>1
      <4>2. CASE details' = Append(details, Row(pending.entry, pending.mirror))
        <5> DEFINE Details == [entry : Entries, mirror : BOOLEAN]
                   row == Row(pending.entry, pending.mirror)
        <5>1. row \in Details /\ row.entry = pending.entry /\ details \in Seq(Details)
          BY <2>5 DEF InsertDetail, CatalogInv, ScanOK, Row
        <5>2. details' = Append(details, row)
          BY <4>2
        <5> HIDE DEF Details, row
        <5>3. /\ Len(details) \in Nat /\ DOMAIN details = 1 .. Len(details) /\ DOMAIN details' = 1 .. Len(details) + 1
              /\ \A n \in DOMAIN details : details'[n] = details[n]
              /\ details'[Len(details) + 1] = row
          BY <5>1, <5>2, Appended
        <5>4. \A n \in DOMAIN details' : n \in DOMAIN details \/ n = Len(details) + 1
          BY <5>3
        <5>5. QED
          BY <1>1, <2>1, <3>1, <3>2, <5>1, <5>3, <5>4
      <4>3. QED
        BY <2>5, <4>1, <4>2 DEF InsertDetail, Row
    <3>4. CASE ~spoilt'
      <4>1. /\ details'[pending'.detail] = Row(pending.entry, pending.mirror)
            /\ \A n \in DOMAIN details' : n \in DOMAIN details \/ n = pending'.detail
            /\ Grown
        BY <2>5, <3>4, InsertDetailDoes
      <4>2. Row(pending.entry, pending.mirror).entry = pending.entry
        BY DEF Row
      <4>3. QED
        BY <1>1, <2>1, <3>1, <3>2, <4>1, <4>2 DEF Grown
    <3>5. QED
      BY <3>3, <3>4
  <2>6. QED
    BY <2>2, <2>3, <2>4, <2>5
<1>6. ScannedInv'
  <2> SUFFICES ASSUME ~spoilt' PROVE ClassInv' /\ OnceInv' /\ (steady' => WholeInv')
    BY DEF ScannedInv
  <2>1. ~spoilt /\ ClassInv /\ OnceInv /\ (steady => WholeInv)
    BY <1>1, <1>3 DEF ServedInv, ScannedInv
  <2>2. QED
    BY <1>1, <2>1, ClassKept, OnceKept, WholeKept
<1>7. QED
  BY <1>1, <1>3, <1>4, <1>5, <1>6 DEF ServedInv

\* An INSERT or an opendir that fails.
LEMMA FailureServed == ASSUME CatalogInv, ServedInv, InsertObjectFails \/ OpenDirFails PROVE ServedInv'
<1>1. /\ pc \in {"scan", "object"} /\ stack # << >> /\ spoilt' = TRUE
      /\ UNCHANGED << disk, changes, details, answer, scanned, steady >>
  BY DEF InsertObjectFails, OpenDirFails, tables, CatalogInv, ScanOK
<1>2. ~complete /\ answer' = NoAnswer
  BY <1>1 DEF ServedInv, AnswerInv
<1>3. complete' => stack' = << >>
  <2>1. CASE InsertObjectFails
    BY <1>2, <2>1 DEF InsertObjectFails
  <2>2. CASE OpenDirFails
    <3> DEFINE Frames == [dir : {Root} \cup Entries, id : Seq(Nat), todo : SUBSET Entries, read : SUBSET Entries]
    <3>1. stack \in Seq(Frames) /\ stack' = Tail(stack) /\ (complete' => Len(stack) = 1)
      BY <1>2, <2>2 DEF OpenDirFails, CatalogInv, ScanOK
    <3> HIDE DEF Frames
    <3>2. QED
      BY <1>1, <3>1, Shortened
  <2>3. QED
    BY <2>1, <2>2
<1>4. AnswerInv'
  BY <1>2, Unanswered
<1>5. DiskInv'
  <2>1. pc' \in {"detail", "object"} => pc = "object" /\ pending'.entry = pending.entry
    BY DEF InsertObjectFails, OpenDirFails, CatalogInv, ScanOK
  <2>2. QED
    BY <1>1, <2>1 DEF ServedInv, DiskInv
<1>6. ScannedInv'
  BY <1>1 DEF ScannedInv
<1>7. QED
  BY <1>1, <1>3, <1>4, <1>5, <1>6 DEF ServedInv

\* The program starts and ends, and the directory changes.
LEMMA StartServed ==
  ASSUME CatalogInv, ServedInv, Change \/ Rescan \/ Reopen \/ End
  PROVE  ServedInv'
<1>1. CASE Change
  <2>1. /\ UNCHANGED << details, objects, last, pc, stack, pending, answer, complete, scanned, spoilt >>
        /\ changes' = changes + 1 /\ (steady' => steady /\ stack = << >>)
    BY <1>1 DEF Change, tables
  <2>2. changes' \in Nat /\ changes' # 0 /\ changes' > 0
    BY <2>1 DEF ServedInv
  <2>3. DiskInv'
    BY <2>2 DEF DiskInv
  <2>4. /\ Ids' = Ids
        /\ Below(answer.id, answer.class)' = Below(answer.id, answer.class)
        /\ Children(answer.id)' = Children(answer.id)
        /\ \A M : Rows(M)' = Rows(M)
    BY <2>1 DEF Ids, Below, Children, Rows, Place, Precedes, Title
  <2>5. FoundRight => FoundRight'
    BY <2>1, <2>2 DEF FoundRight
  <2>6. AnswerInv'
    <3>1. /\ Limit(Rows(Below(answer.id, answer.class)), answer.page)' = Limit(Rows(Below(answer.id, answer.class)), answer.page)
          /\ Limit(Rows(Children(answer.id)), answer.page)' = Limit(Rows(Children(answer.id)), answer.page)
      BY <2>1, <2>4, Zenon DEF Limit
    <3>2. QED
      BY <2>1, <2>4, <2>5, <3>1 DEF ServedInv, AnswerInv
  <2>7. \A x : Covered(x)' <=> Covered(x)
    BY <2>1 DEF Covered, Has, Row
  <2>8. ScannedInv'
    <3> SUFFICES ASSUME ~spoilt' PROVE ClassInv' /\ (stack' # << >> \/ complete' => OnceInv' /\ (steady' => WholeInv'))
      BY DEF ScannedInv
    <3>1. ClassInv /\ (stack # << >> \/ complete => OnceInv /\ (steady => WholeInv)) /\ RowsInv
      BY <2>1 DEF ServedInv, ScannedInv, CatalogInv
    <3>2. Has(pending.entry, FALSE)' <=> Has(pending.entry, FALSE)
      BY <2>1 DEF Has, Row
    <3>3. ClassInv'
      BY <2>1, <3>1, <3>2 DEF ClassInv, EntryOf, Row
    <3>4. OnceInv => OnceInv'
      BY <2>1 DEF OnceInv, Row
    <3>5. WholeInv /\ stack = << >> => WholeInv'
      BY <2>1, <2>7 DEF WholeInv, EntryOf
    <3>6. QED
      BY <2>1, <3>1, <3>3, <3>4, <3>5
  <2>9. QED
    BY <2>1, <2>2, <2>3, <2>6, <2>8 DEF ServedInv
<1>2. CASE Rescan
  <2>1. /\ details' = << >> /\ objects' = << >> /\ stack' = << Frame(Root, RootId) >> /\ pc = "off" /\ pc' = "scan"
        /\ ~complete' /\ scanned' = disk /\ UNCHANGED << disk, changes, pending, answer >>
    BY <1>2 DEF Rescan
  <2>2. AnswerInv'
    BY <2>1, Unanswered DEF ServedInv, AnswerInv
  <2>3. pc' \notin {"detail", "object"} /\ pc' # "object" /\ pc' # "detail"
    BY <2>1
  <2>4. DiskInv' /\ ClassInv'
    BY <2>1, <2>3 DEF DiskInv, ClassInv
  <2>5. PICK f : f = Frame(Root, RootId)
    OBVIOUS
  <2>6. f.dir = Root /\ f.todo = Inside(Root) /\ f.read = {}
    BY <2>5 DEF Frame
  <2>7. stack' # << >> /\ 1 \in DOMAIN stack' /\ \A k \in DOMAIN stack' : k = 1 /\ stack'[k] = f
    BY <2>1, <2>5
  <2>8. OnceInv'
    BY <2>1, <2>3, <2>7 DEF OnceInv
  <2>9. WholeInv'
    <3>1. \A k \in DOMAIN stack' : /\ \A e \in scanned' : Parent[e] = stack'[k].dir => e \in stack'[k].todo
                                   /\ stack'[k].read = {}
      BY <2>1, <2>6, <2>7 DEF Inside
    <3>2. \A e \in scanned' : Parent[e] = Root => \E k \in DOMAIN stack' : stack'[k].dir = Parent[e]
      BY <2>6, <2>7
    <3>3. QED
      BY <2>1, <2>3, <3>1, <3>2 DEF WholeInv
  <2>10. QED
    BY <2>1, <2>2, <2>4, <2>8, <2>9 DEF ServedInv, ScannedInv
<1>3. CASE Reopen \/ End
  <2>1. /\ pc' \in {"off", "serving"} /\ stack' = << >>
        /\ UNCHANGED << disk, changes, details, objects, pending, complete, scanned, steady, spoilt >>
        /\ answer' = NoAnswer
    BY <1>3 DEF Reopen, End, tables, history, CatalogInv, ScanOK, ServedInv, AnswerInv
  <2>2. AnswerInv'
    BY <2>1, Unanswered
  <2>3. pc' \notin {"detail", "object"} /\ pc' # "object" /\ pc' # "detail"
    BY <2>1
  <2>4. DiskInv'
    BY <2>1, <2>3 DEF ServedInv, DiskInv
  <2>5. \A x : Covered(x)' <=> Covered(x)
    BY <2>1 DEF Covered, Has, Row
  <2>6. ScannedInv'
    <3> SUFFICES ASSUME ~spoilt' PROVE ClassInv' /\ (complete' => OnceInv' /\ (steady' => WholeInv'))
      BY <2>1 DEF ScannedInv
    <3>1. ClassInv /\ (complete => OnceInv /\ (steady => WholeInv) /\ stack = << >>)
      BY <2>1 DEF ServedInv, ScannedInv
    <3>2. ClassInv'
      BY <2>1, <2>3, <3>1 DEF ClassInv, EntryOf
    <3>3. complete => pc \notin {"detail", "object"}
      BY <3>1 DEF CatalogInv, ScanOK
    <3>4. complete => OnceInv'
      <4>1. ASSUME complete PROVE \A n \in DOMAIN details' : \E i \in DOMAIN objects' : objects'[i].detail = n
        BY <2>1, <3>1, <3>3, <4>1 DEF OnceInv
      <4>2. complete => \A n, k \in DOMAIN details' : details'[n] = details'[k] => n = k
        BY <2>1, <3>1 DEF OnceInv
      <4>3. DOMAIN stack' = {}
        BY <2>1
      <4>4. ASSUME complete PROVE OnceInv'
        <5>1. \A n \in DOMAIN details' : (\E i \in DOMAIN objects' : objects'[i].detail = n) \/ (pc' = "object" /\ pending'.detail = n)
          BY <4>1, <4>4
        <5>2. \A n, k \in DOMAIN details' : details'[n] = details'[k] => n = k
          BY <4>2, <4>4
        <5>3. QED
          BY <2>3, <4>3, <5>1, <5>2, Zenon DEF OnceInv
      <4>5. QED
        BY <4>4
    <3>5. complete /\ steady => WholeInv'
      BY <2>1, <2>3, <2>5, <3>1 DEF WholeInv, EntryOf
    <3>6. QED
      BY <2>1, <3>2, <3>4, <3>5
  <2>7. QED
    BY <2>1, <2>2, <2>4, <2>6 DEF ServedInv
<1>4. QED
  BY <1>1, <1>2, <1>3

\* What is told apart stays the same while only the answer changes.
LEMMA StillServed ==
  ASSUME ServedInv, Still, AnswerInv'
  PROVE  ServedInv'
<1>1. \A x : Covered(x)' <=> Covered(x)
  BY DEF Covered, Has, Row, Still
<1>2. Has(pending.entry, FALSE)' <=> Has(pending.entry, FALSE)
  BY DEF Has, Row, Still
<1>3. DiskInv'
  BY DEF ServedInv, DiskInv, Still
<1>4. ClassInv => ClassInv'
  BY <1>2 DEF ClassInv, EntryOf, Row, Still
<1>5. OnceInv => OnceInv'
  BY DEF OnceInv, Row, Still
<1>6. WholeInv => WholeInv'
  BY <1>1 DEF WholeInv, EntryOf, Still
<1>7. changes' \in Nat /\ (complete' => stack' = << >>)
  BY DEF ServedInv, Still
<1>8. ScannedInv'
  BY <1>4, <1>5, <1>6 DEF ServedInv, ScannedInv, Still
<1>9. QED
  BY <1>3, <1>7, <1>8 DEF ServedInv

(* The rows are those of the directory, and the answers are from the rows. *)
THEOREM ServedInvariance == CatalogSpec => []ServedInv
<1>1. CatalogInv /\ ServedInv /\ [CatalogNext]_catalogVars => ServedInv'
  <2> SUFFICES ASSUME CatalogInv, ServedInv, [CatalogNext]_catalogVars PROVE ServedInv'
    OBVIOUS
  <2>1. CASE Change \/ Rescan \/ Reopen \/ End
    BY <2>1, StartServed
  <2>2. CASE ReadDir \/ EndDir \/ InsertDetail \/ InsertObject
    BY <2>2, ScanServed
  <2>6. CASE InsertObjectFails \/ OpenDirFails
    BY <2>6, FailureServed
  <2>3. ASSUME \/ Open
               \/ \E id \in Ids : \/ Metadata(id) \/ Info(id)
                                   \/ \E page \in Pages : \/ Browse(id, page)
                                                          \/ \E class \in Classes : Search(id, class, page)
        PROVE  ServedInv'
    BY <2>3, RequestKept, StartServed, StillServed
  <2>4. CASE UNCHANGED catalogVars
    <3>1. Still /\ answer' = answer
      BY <2>4 DEF catalogVars, tables, history, Still
    <3>2. FoundRight => FoundRight'
      BY <3>1 DEF FoundRight, Still
    <3>3. AnswerInv'
      <4>1. pc' = pc /\ spoilt' = spoilt /\ AnswerInv
        BY <3>1 DEF Still, ServedInv
      <4>2. /\ Limit(Rows(Below(answer.id, answer.class)), answer.page)' = Limit(Rows(Below(answer.id, answer.class)), answer.page)
            /\ Limit(Rows(Children(answer.id)), answer.page)' = Limit(Rows(Children(answer.id)), answer.page)
            /\ Children(answer.id)' = Children(answer.id) /\ Ids' = Ids
        BY <3>1, StillRows, Zenon DEF Limit
      <4>3. QED
        BY <3>1, <3>2, <4>1, <4>2 DEF AnswerInv
    <3>4. QED
      BY <3>1, <3>3, StillServed
  <2>7. QED
    BY <2>1, <2>2, <2>3, <2>4, <2>6 DEF CatalogNext
<1>2. QED
  BY ServedInitially, CatalogInvariance, <1>1, PTL DEF CatalogSpec

(* A search finds what is below its container, and only that, and what has *)
(* an id is found by it (contentdirectory_search, contentdirectory_vfsgetinfo). *)
THEOREM SearchRightThm == CatalogSpec => []SearchRight
<1>1. CatalogInv /\ ServedInv => SearchRight
  <2> SUFFICES ASSUME CatalogInv, ServedInv, ~spoilt PROVE SearchRight
    BY DEF SearchRight
  <2>1. AnswerInv /\ ClassInv
    BY DEF ServedInv, ScannedInv
  <2>2. PICK id, class, found :
          id = answer.id /\ class = answer.class
          /\ found = {i \in DOMAIN objects : IsPrefix(id, objects[i].parent) /\ class \in {"any", objects[i].class}}
    OBVIOUS
  <2>3. ASSUME answer.do = "search", ~Extended(id) PROVE answer.rows = Limit(Rows(found), answer.page)
    <3>1. id \in Ids
      BY <2>1, <2>2 DEF AnswerInv
    <3>2. \A i \in DOMAIN objects : TextPrefix(id, objects[i].parent) <=> IsPrefix(id, objects[i].parent)
      BY <2>1, <2>3, <3>1, BelowIsBelow
    <3>3. Below(id, class) = found
      BY <2>2, <3>2, Zenon DEF Below
    <3>4. QED
      BY <2>1, <2>2, <2>3, <3>3 DEF AnswerInv
  <2>4. FoundRight
    BY <2>1 DEF AnswerInv
  <2>5. QED
    BY <2>2, <2>3, <2>4, Zenon DEF SearchRight
<1>2. QED
  BY <1>1, CatalogInvariance, ServedInvariance, PTL

\* Rows are ordered by title, and those of one title by their keys.
LEMMA PrecedesOrders ==
  ASSUME ScanOK
  PROVE  /\ \A i \in DOMAIN objects : ~Precedes(i, i) /\ Title(objects[i]) \in Nat
         /\ \A i, j \in DOMAIN objects : i = j \/ Precedes(i, j) \/ Precedes(j, i)
         /\ \A i, j, k \in DOMAIN objects : Precedes(i, j) /\ Precedes(j, k) => Precedes(i, k)
         /\ \A i, j \in DOMAIN objects : Precedes(i, j) => Title(objects[i]) <= Title(objects[j])
<1>1. ASSUME NEW i \in DOMAIN objects PROVE Title(objects[i]) \in Nat
  <2>1. CASE objects[i].detail \in DOMAIN details
    <3>1. << details[objects[i].detail].entry, details[objects[i].detail].mirror >> \in Entries \X BOOLEAN
      BY <2>1, RowTypes
    <3>2. QED
      BY <2>1, <3>1, CatalogAssumption DEF Title
  <2>2. QED
    BY <2>1 DEF Title
<1>2. PICK t : t = [i \in DOMAIN objects |-> Title(objects[i])]
  OBVIOUS
<1>3. \A i \in DOMAIN objects : i \in Nat /\ t[i] \in Nat /\ t[i] = Title(objects[i])
  BY <1>1, <1>2, RowTypes
<1>4. \A i, j \in DOMAIN objects : Precedes(i, j) <=> (t[i] < t[j] \/ (t[i] = t[j] /\ i < j))
  BY <1>3 DEF Precedes
<1>5. QED
  BY <1>3, <1>4

\* The rows of a query are all those that match, each once, in this order.
LEMMA RowsAreOrdered ==
  ASSUME ScanOK, NEW M, M \subseteq DOMAIN objects
  PROVE  /\ IsFiniteSet(M) /\ Cardinality(M) \in Nat /\ Rows(M) \in [1 .. Cardinality(M) -> M]
         /\ \A i \in M : \E k \in 1 .. Cardinality(M) : Rows(M)[k] = i
         /\ \A k, l \in 1 .. Cardinality(M) : k < l => Precedes(Rows(M)[k], Rows(M)[l]) /\ Rows(M)[k] # Rows(M)[l]
<1>1. IsFiniteSet(M) /\ Cardinality(M) \in Nat
  <2>1. DOMAIN objects = 1 .. Len(objects) /\ Len(objects) \in Nat
    BY RowTypes
  <2>2. IsFiniteSet(1 .. Len(objects))
    BY <2>1, FS_Interval
  <2>3. IsFiniteSet(M)
    BY <2>1, <2>2, FS_Subset
  <2>4. QED
    BY <2>3, FS_CardinalityType
<1>2. PICK N \in Nat : N = Cardinality(M)
  BY <1>1
<1> DEFINE Before(i) == {j \in M : Precedes(j, i)}
<1>3. ASSUME NEW i \in M PROVE IsFiniteSet(Before(i)) /\ Cardinality(Before(i)) \in Nat /\ Cardinality(Before(i)) < N
  <2>1. Before(i) \subseteq M \ {i}
    BY PrecedesOrders
  <2>2. IsFiniteSet(M \ {i}) /\ Cardinality(M \ {i}) = N - 1
    BY <1>1, <1>2, <1>3, FS_RemoveElement
  <2>3. IsFiniteSet(Before(i)) /\ Cardinality(Before(i)) <= N - 1
    BY <2>1, <2>2, FS_Subset
  <2>4. Cardinality(Before(i)) \in Nat
    BY <2>3, FS_CardinalityType
  <2> HIDE DEF Before
  <2>5. QED
    BY <1>2, <2>3, <2>4
<1>4. \A i \in M : Place(i, M) = Cardinality(Before(i)) + 1
  BY DEF Place
<1>5. ASSUME NEW i \in M, NEW j \in M, Precedes(i, j) PROVE Place(i, M) < Place(j, M)
  <2>1. Before(i) \cup {i} \subseteq Before(j) /\ i \notin Before(i)
    BY <1>5, PrecedesOrders
  <2> HIDE DEF Before
  <2>2. Cardinality(Before(i) \cup {i}) = Cardinality(Before(i)) + 1
    BY <1>3, <2>1, FS_AddElement
  <2>3. Cardinality(Before(i) \cup {i}) <= Cardinality(Before(j))
    BY <1>3, <2>1, FS_Subset
  <2>4. QED
    BY <1>3, <1>4, <2>2, <2>3
<1> HIDE DEF Before
<1>6. \A i \in M : Place(i, M) \in 1 .. N
  BY <1>2, <1>3, <1>4
<1>7. \A i, j \in M : Place(i, M) = Place(j, M) => i = j
  <2>1. ASSUME NEW i \in M, NEW j \in M, Place(i, M) = Place(j, M) PROVE i = j
    <3>1. i = j \/ Precedes(i, j) \/ Precedes(j, i)
      BY PrecedesOrders
    <3>2. PICK m \in Nat, n \in Nat : m = Place(i, M) /\ n = Place(j, M)
      BY <1>6
    <3>3. ~(m < n) /\ ~(n < m)
      BY <2>1, <3>2
    <3>4. QED
      BY <1>5, <3>1, <3>2, <3>3
  <2>2. QED
    BY <2>1
<1>8. \A k \in 1 .. N : \E i \in M : Place(i, M) = k
  <2> DEFINE place == [i \in M |-> Place(i, M)]
  <2>1. place \in [M -> 1 .. N] /\ \A i \in M : place[i] = Place(i, M)
    BY <1>6
  <2> HIDE DEF place
  <2>2. place \in Injection(M, 1 .. N)
    BY <1>7, <2>1 DEF Injection, IsInjective
  <2>3. IsFiniteSet(1 .. N) /\ Cardinality(1 .. N) = N
    <3>1. IsFiniteSet(1 .. N) /\ Cardinality(1 .. N) = IF 1 > N THEN 0 ELSE N - 1 + 1
      <4>1. 1 \in Int /\ N \in Int
        OBVIOUS
      <4>2. QED
        BY <4>1, FS_Interval, Zenon
    <3>2. QED
      BY <1>2, <3>1
  <2>4. place \in Surjection(M, 1 .. N)
    BY <1>2, <2>2, <2>3, FS_Injection
  <2>5. QED
    BY <2>1, <2>4 DEF Surjection
<1>9. PICK r : r = Rows(M)
  OBVIOUS
<1>10. r = [k \in 1 .. N |-> CHOOSE i \in M : Place(i, M) = k]
  BY <1>2, <1>9 DEF Rows
<1>11. \A k \in 1 .. N : r[k] \in M /\ Place(r[k], M) = k
  BY <1>8, <1>10
<1>12. r \in [1 .. N -> M]
  BY <1>10, <1>11
<1>13. ASSUME NEW i \in M PROVE \E k \in 1 .. N : r[k] = i
  BY <1>6, <1>7, <1>11
<1>14. ASSUME NEW k \in 1 .. N, NEW l \in 1 .. N, k < l PROVE Precedes(r[k], r[l]) /\ r[k] # r[l]
  <2>1. PICK i \in M, j \in M : i = r[k] /\ j = r[l] /\ Place(i, M) = k /\ Place(j, M) = l
    BY <1>11
  <2>2. i # j /\ ~(Place(j, M) < Place(i, M))
    BY <1>14, <2>1
  <2>3. Precedes(i, j)
    BY <1>5, <2>2, PrecedesOrders
  <2>4. QED
    BY <2>1, <2>2, <2>3
<1>15. QED
  BY <1>1, <1>2, <1>9, <1>12, <1>13, <1>14

\* What the details of an object are.
Shown(i) == << details[objects[i].detail].entry, details[objects[i].detail].mirror >>

\* What the rows of a query show.
ShownBy(s, r, N) ==
  /\ N \in Nat /\ (\E A : r \in [1 .. N -> A]) /\ (\E B : s \in [1 .. N -> B])
  /\ \A k \in 1 .. N : s[k] = Shown(r[k])

\* A page of the rows shows a page of what they show.
LEMMA PageShows ==
  ASSUME NEW N, NEW r, NEW s, ShownBy(s, r, N), NEW page, page[1] \in Nat, page[2] \in Nat
  PROVE  Content(Limit(r, page)) = Limit(s, page)
<1> PICK A, B : N \in Nat /\ r \in [1 .. N -> A] /\ s \in [1 .. N -> B]
  BY Zenon DEF ShownBy
<1>1. Len(r) = N /\ Len(s) = N
  OBVIOUS
<1>2. PICK from, to : from = page[1] + 1 /\ to = IF page[1] + page[2] < N THEN page[1] + page[2] ELSE N
  OBVIOUS
<1>3. from \in Nat /\ from >= 1 /\ to \in Nat /\ to <= N
  BY <1>2
<1>4. \A k \in from .. to : r[k] \in A /\ s[k] \in B
  BY <1>3
<1>5. PICK x, y : x = SubSeq(r, from, to) /\ y = SubSeq(s, from, to)
  OBVIOUS
<1>6. /\ x \in Seq(A) /\ Len(x) = (IF from <= to THEN to - from + 1 ELSE 0)
      /\ \A k \in 1 .. to - from + 1 : x[k] = r[from + k - 1]
  BY <1>3, <1>4, <1>5, SubSeqProperties
<1>7. /\ y \in Seq(B) /\ Len(y) = (IF from <= to THEN to - from + 1 ELSE 0)
      /\ \A k \in 1 .. to - from + 1 : y[k] = s[from + k - 1]
  BY <1>3, <1>4, <1>5, SubSeqProperties
<1>8. DOMAIN x = DOMAIN y /\ DOMAIN x = 1 .. Len(x) /\ y = [k \in DOMAIN y |-> y[k]]
  BY <1>6, <1>7
<1>9. ASSUME NEW k \in DOMAIN x PROVE Shown(x[k]) = y[k]
  <2>1. k \in 1 .. to - from + 1 /\ from + k - 1 \in 1 .. N
    BY <1>3, <1>6, <1>8, <1>9
  <2>2. QED
    BY <1>6, <1>7, <2>1 DEF ShownBy
<1>10. Content(x) = y
  BY <1>8, <1>9 DEF Content, Shown
<1>11. Limit(r, page) = x /\ Limit(s, page) = y
  BY <1>1, <1>2, <1>5, Zenon DEF Limit
<1>12. QED
  BY <1>10, <1>11

\* The directory an id is of.
DirOf(id) == IF id = RootId THEN Root ELSE EntryOf(objects[CHOOSE i \in DOMAIN objects : objects[i].id = id])

\* A pair of a product with one value.
LEMMA PairWith == \A A, b : \A t \in A \X {b} : \E a \in A : t = << a, b >>
  OBVIOUS

\* What a directory shows.
LEMMA ShowsEach ==
  ASSUME NEW dir, NEW content
  PROVE  /\ \A e \in content, m \in BOOLEAN :
              Parent[e] = dir /\ Kind[e] # "unknown" /\ (m => Mirrors /\ Kind[e] = "movie") => << e, m >> \in Shows(dir, content)
         /\ \A t \in Shows(dir, content) : \E e \in content, m \in BOOLEAN :
              t = << e, m >> /\ Parent[e] = dir /\ Kind[e] # "unknown" /\ (m => Mirrors /\ Kind[e] = "movie")
<1> DEFINE seen == {e \in content : Parent[e] = dir /\ Kind[e] # "unknown"}
           movies == {e \in seen : Mirrors /\ Kind[e] = "movie"}
<1>1. Shows(dir, content) = (seen \X {FALSE}) \cup (movies \X {TRUE})
  BY DEF Shows
<1>2. /\ \A e : e \in seen <=> e \in content /\ Parent[e] = dir /\ Kind[e] # "unknown"
      /\ \A e : e \in movies <=> e \in seen /\ Mirrors /\ Kind[e] = "movie"
  OBVIOUS
<1> HIDE DEF seen, movies
<1>3. ASSUME NEW e \in content, NEW m \in BOOLEAN, Parent[e] = dir, Kind[e] # "unknown", m => Mirrors /\ Kind[e] = "movie"
      PROVE  << e, m >> \in Shows(dir, content)
  <2>1. CASE m = TRUE
    BY <1>1, <1>2, <1>3, <2>1
  <2>2. CASE m = FALSE
    BY <1>1, <1>2, <1>3, <2>2
  <2>3. QED
    BY <2>1, <2>2
<1>4. ASSUME NEW t \in Shows(dir, content)
      PROVE  \E e \in content, m \in BOOLEAN :
               t = << e, m >> /\ Parent[e] = dir /\ Kind[e] # "unknown" /\ (m => Mirrors /\ Kind[e] = "movie")
  <2>1. CASE t \in seen \X {FALSE}
    <3>1. PICK no : no = FALSE
      OBVIOUS
    <3>2. t \in seen \X {no}
      BY <2>1, <3>1
    <3>3. PICK e \in seen : t = << e, no >>
      BY <3>2, PairWith
    <3>4. t = << e, FALSE >>
      BY <3>1, <3>3, Zenon
    <3>5. QED
      BY <1>2, <3>3, <3>4
  <2>2. CASE t \in movies \X {TRUE}
    <3>1. PICK yes : yes = TRUE
      OBVIOUS
    <3>2. t \in movies \X {yes}
      BY <2>2, <3>1
    <3>3. PICK e \in movies : t = << e, yes >>
      BY <3>2, PairWith
    <3>4. t = << e, TRUE >>
      BY <3>1, <3>3, Zenon
    <3>5. QED
      BY <1>2, <3>3, <3>4
  <2>3. QED
    BY <1>1, <2>1, <2>2
<1>5. QED
  BY <1>3, <1>4

\* The children of an object are what its directory shows.
LEMMA ChildrenShown ==
  ASSUME CatalogInv, ServedInv, ~spoilt, complete, steady, NEW id \in Ids
  PROVE  /\ \A i \in Children(id) : Shown(i) \in Shows(DirOf(id), scanned)
         /\ \A i, j \in Children(id) : Shown(i) = Shown(j) => i = j
         /\ \A t \in Shows(DirOf(id), scanned) : \E i \in Children(id) : Shown(i) = t
<1>1. /\ RowsInv /\ ClassInv /\ OnceInv /\ WholeInv /\ stack = << >>
  BY DEF CatalogInv, ServedInv, ScannedInv
<1>2. ASSUME NEW i \in DOMAIN objects
      PROVE  /\ objects[i].detail \in DOMAIN details /\ EntryOf(objects[i]) \in Entries
             /\ EntryOf(objects[i]) \in scanned /\ details[objects[i].detail].mirror \in BOOLEAN
             /\ details[objects[i].detail] = Row(EntryOf(objects[i]), details[objects[i].detail].mirror)
             /\ Shown(i) = << EntryOf(objects[i]), details[objects[i].detail].mirror >>
  BY <1>1, RowTypes DEF CatalogInv, RowsInv, WholeInv, EntryOf, Shown
<1>3. ASSUME NEW i \in DOMAIN objects, NEW j \in DOMAIN objects, Shown(i) = Shown(j) PROVE i = j
  <2>1. EntryOf(objects[i]) = EntryOf(objects[j]) /\ details[objects[i].detail].mirror = details[objects[j].detail].mirror
    BY <1>2, <1>3
  <2>2. details[objects[i].detail] = details[objects[j].detail]
    BY <1>2, <2>1, Zenon
  <2>3. objects[i].detail = objects[j].detail
    BY <1>1, <1>2, <2>2 DEF OnceInv
  <2>4. QED
    BY <1>1, <2>3 DEF RowsInv
<1>4. PICK dir : dir = DirOf(id)
  OBVIOUS
<1>5. ASSUME NEW up, Leads(up, dir), up = id \/ \E i \in DOMAIN objects : objects[i].parent = up, NEW to, Leads(up, to)
      PROVE  to = dir
  <2>1. CASE up = RootId
    BY <1>5, <2>1 DEF Leads
  <2>2. CASE up # RootId
    BY <1>5, <2>2, SoundByInv DEF Leads, CatalogSound
  <2>3. QED
    BY <2>1, <2>2
<1>6. Leads(id, dir)
  <2>1. CASE id = RootId
    BY <1>4, <2>1 DEF Leads, DirOf
  <2>2. CASE id # RootId
    <3>1. PICK i \in DOMAIN objects : i = CHOOSE j \in DOMAIN objects : objects[j].id = id
      BY <2>2 DEF Ids
    <3>2. objects[i].id = id
      BY <2>2, <3>1 DEF Ids
    <3>3. dir = EntryOf(objects[i])
      BY <1>4, <2>2, <3>1 DEF DirOf
    <3>4. QED
      BY <2>2, <3>2, <3>3 DEF Leads
  <2>3. QED
    BY <2>1, <2>2
<1>7. \A i \in DOMAIN objects : Leads(objects[i].parent, Parent[EntryOf(objects[i])])
  BY <1>1 DEF RowsInv
<1>8. ASSUME NEW i \in DOMAIN objects PROVE Parent[EntryOf(objects[i])] = dir <=> objects[i].parent = id
  <2>1. ASSUME objects[i].parent = id PROVE Parent[EntryOf(objects[i])] = dir
    <3>1. PICK to : to = Parent[EntryOf(objects[i])]
      OBVIOUS
    <3>2. Leads(id, to)
      BY <1>7, <2>1, <3>1
    <3>3. QED
      BY <1>5, <1>6, <3>1, <3>2
  <2>2. ASSUME Parent[EntryOf(objects[i])] = dir PROVE objects[i].parent = id
    <3>1. PICK up : up = objects[i].parent
      OBVIOUS
    <3>2. Leads(up, dir)
      BY <1>7, <2>2, <3>1
    <3>3. ASSUME NEW j \in DOMAIN objects, NEW k \in DOMAIN objects, EntryOf(objects[j]) = dir, EntryOf(objects[k]) = dir
          PROVE  j = k
      <4>1. Kind[dir] = "folder"
        BY <1>2, <2>2, <3>3, CatalogAssumption
      <4>2. \A l \in DOMAIN objects : EntryOf(objects[l]) = dir => ~details[objects[l].detail].mirror
        BY <1>1, <1>2, <4>1 DEF ClassInv, EntryOf
      <4>3. details[objects[j].detail].mirror = FALSE /\ details[objects[k].detail].mirror = FALSE
        BY <1>2, <3>3, <4>2
      <4>4. QED
        BY <1>2, <1>3, <3>3, <4>3
    <3>4. \A j \in DOMAIN objects : EntryOf(objects[j]) # Root
      BY <1>2, CatalogAssumption
    <3>5. QED
      BY <1>6, <3>1, <3>2, <3>3, <3>4 DEF Leads
  <2>3. QED
    BY <2>1, <2>2
<1>9. ASSUME NEW i \in Children(id) PROVE Shown(i) \in Shows(dir, scanned)
  <2>1. i \in DOMAIN objects /\ objects[i].parent = id
    BY DEF Children
  <2>2. PICK e, m : e = EntryOf(objects[i]) /\ m = details[objects[i].detail].mirror
    OBVIOUS
  <2>3. e \in scanned /\ Parent[e] = dir /\ m \in BOOLEAN /\ Shown(i) = << e, m >>
    BY <1>2, <1>8, <2>1, <2>2
  <2>4. Kind[e] # "unknown" /\ (m => Mirrors /\ Kind[e] = "movie")
    BY <1>1, <1>2, <2>1, <2>2 DEF ClassInv, EntryOf
  <2>5. QED
    BY <2>3, <2>4, ShowsEach
<1>10. ASSUME NEW t \in Shows(dir, scanned) PROVE \E i \in Children(id) : Shown(i) = t
  <2>1. PICK e \in scanned, m \in BOOLEAN :
          t = << e, m >> /\ Parent[e] = dir /\ Kind[e] # "unknown" /\ (m => Mirrors /\ Kind[e] = "movie")
    BY ShowsEach
  <2>2. Parent[e] = Root \/ \E i \in DOMAIN objects : EntryOf(objects[i]) = Parent[e]
    BY <1>6, <2>1 DEF Leads
  <2>3. Covered(e)
    BY <1>1, <2>1, <2>2 DEF WholeInv
  <2>4. Has(e, m)
    BY <2>1, <2>3 DEF Covered
  <2>5. PICK i \in DOMAIN objects : details[objects[i].detail] = Row(e, m)
    BY <2>4 DEF Has
  <2>6. EntryOf(objects[i]) = e /\ Shown(i) = << e, m >>
    BY <2>5 DEF EntryOf, Shown, Row
  <2>7. i \in Children(id)
    BY <1>8, <2>1, <2>6 DEF Children
  <2>8. QED
    BY <2>1, <2>6, <2>7
<1>11. \A i, j \in Children(id) : Shown(i) = Shown(j) => i = j
  BY <1>3 DEF Children
<1>12. QED
  BY <1>4, <1>9, <1>10, <1>11

(* A page of a folder holds what the directory held when it was scanned,   *)
(* each entry once and by title, and counts it right.                      *)
THEOREM BrowseExactThm == CatalogSpec => []BrowseExact
<1>1. CatalogInv /\ ServedInv => BrowseExact
  <2> SUFFICES ASSUME CatalogInv, ServedInv, answer.do = "browse", complete, steady, ~spoilt PROVE BrowseExact
    BY DEF BrowseExact
  <2>1. PICK id, page, M, shown : id = answer.id /\ page = answer.page /\ M = Children(id) /\ shown = Shows(DirOf(id), scanned)
    OBVIOUS
  <2>2. /\ id \in Ids /\ page \in Nat \X Nat /\ answer.rows = Limit(Rows(M), page)
        /\ answer.total = IF answer.rows = << >> THEN 0 ELSE Cardinality(M)
    BY <2>1 DEF ServedInv, AnswerInv
  <2>3. /\ \A i \in M : Shown(i) \in shown
        /\ \A i, j \in M : Shown(i) = Shown(j) => i = j
        /\ \A t \in shown : \E i \in M : Shown(i) = t
    BY <2>1, <2>2, ChildrenShown
  <2>4. M \subseteq DOMAIN objects /\ ScanOK
    BY <2>1 DEF Children, CatalogInv
  <2>5. PICK N, r : N = Cardinality(M) /\ r = Rows(M)
    OBVIOUS
  <2>6. /\ IsFiniteSet(M) /\ N \in Nat /\ r \in [1 .. N -> M]
        /\ \A k, l \in 1 .. N : k < l => Precedes(r[k], r[l]) /\ r[k] # r[l]
    BY <2>4, <2>5, RowsAreOrdered
  <2>7. Cardinality(shown) = N
    <3> DEFINE show == [i \in M |-> Shown(i)]
    <3>1. show \in [M -> shown] /\ \A i \in M : show[i] = Shown(i)
      BY <2>3
    <3> HIDE DEF show
    <3>2. show \in Bijection(M, shown)
      BY <2>3, <3>1 DEF Bijection, Injection, Surjection, IsInjective
    <3>3. ExistsBijection(M, shown)
      BY <3>2 DEF ExistsBijection
    <3>4. QED
      BY <2>5, <2>6, <3>3, FS_Bijection
  <2> DEFINE listing == [k \in 1 .. N |-> Shown(r[k])]
  <2>8. listing \in [1 .. N -> shown] /\ \A k \in 1 .. N : listing[k] = Shown(r[k])
    BY <2>3, <2>6
  <2>9. PICK s : s = listing
    OBVIOUS
  <2>10. s \in [1 .. N -> shown] /\ DOMAIN s = 1 .. N /\ \A k \in 1 .. N : s[k] = Shown(r[k])
    BY <2>8, <2>9
  <2> HIDE DEF listing
  <2>11. ASSUME NEW k \in 1 .. N, NEW l \in 1 .. N, k < l PROVE s[k] # s[l] /\ Rank[s[k]] <= Rank[s[l]]
    <3>1. PICK i \in M, j \in M : i = r[k] /\ j = r[l] /\ i # j /\ Precedes(i, j)
      BY <2>6, <2>11
    <3>2. s[k] = Shown(i) /\ s[l] = Shown(j)
      BY <2>10, <3>1
    <3>3. Title(objects[i]) <= Title(objects[j])
      BY <2>4, <3>1, PrecedesOrders
    <3>4. Title(objects[i]) = Rank[Shown(i)] /\ Title(objects[j]) = Rank[Shown(j)]
      BY <2>4, <3>1 DEF CatalogInv, RowsInv, Title, Shown
    <3>5. QED
      BY <2>3, <3>1, <3>2, <3>3, <3>4
  <2>12. s \in Listings(shown)
    BY <2>7, <2>10, <2>11 DEF Listings
  <2>13. Content(answer.rows) = Limit(s, page)
    <3>1. Content(Limit(r, page)) = Limit(s, page)
      <4>1. page[1] \in Nat /\ page[2] \in Nat
        BY <2>2
      <4>2. ShownBy(s, r, N)
        BY <2>6, <2>10, Zenon DEF ShownBy
      <4>3. QED
        BY <4>1, <4>2, PageShows, Zenon
    <3>2. QED
      BY <2>2, <2>5, <3>1
  <2>14. answer.total = IF answer.rows = << >> THEN 0 ELSE Cardinality(shown)
    BY <2>2, <2>5, <2>7
  <2>15. shown = Shows(IF answer.id = RootId THEN Root
                       ELSE EntryOf(objects[CHOOSE i \in DOMAIN objects : objects[i].id = answer.id]), scanned)
    <3>1. shown = Shows(DirOf(answer.id), scanned)
      BY <2>1
    <3>2. QED
      BY <3>1 DEF DirOf
  <2>16. QED
    BY <2>1, <2>12, <2>13, <2>14, <2>15, Zenon DEF BrowseExact
<1>2. QED
  BY <1>1, CatalogInvariance, ServedInvariance, PTL
=============================================================================
