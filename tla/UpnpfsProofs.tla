---------------------------- MODULE UpnpfsProofs ----------------------------
(***************************************************************************)
(* Theorems about the file system: about RemoteRead, for files, reads and  *)
(* sockets of any size; and about PathCache, for any devices and objects   *)
(* and however they come and go.                                           *)
(***************************************************************************)
EXTENDS RemoteRead, PathCache, SequenceTheorems, WellFoundedInduction, NaturalsInduction, TLAPS

(* The fields of a connection.                                             *)
LEMMA Fields ==
  ASSUME NEW c \in Connection
  PROVE  /\ c.connected /\ c.live \in BOOLEAN /\ c.late \in BOOLEAN
         /\ c.from \in Nat /\ c.from < Size
         /\ c.at \in Nat /\ c.at <= Size + Header
         /\ c.next \in Int /\ -Header <= c.next /\ c.next <= Size
         /\ c.ready \in Nat /\ c.ready <= Window
<1>1. /\ c.connected \in {TRUE} /\ c.live \in BOOLEAN /\ c.late \in BOOLEAN
      /\ c.from \in 0 .. Size - 1 /\ c.at \in 0 .. Size + Header
      /\ c.next \in -Header .. Size /\ c.ready \in 0 .. Window
  BY DEF Connection
<1>2. /\ c.from \in Nat /\ c.from < Size
      /\ c.at \in Nat /\ c.at <= Size + Header
      /\ c.next \in Int /\ -Header <= c.next /\ c.next <= Size
      /\ c.ready \in Nat /\ c.ready <= Window
  BY <1>1, ReadAssumption
<1>3. QED
  BY <1>1, <1>2

(* f->protocol and the connection that is being opened.                    *)
LEMMA Typed ==
  ASSUME TypeOK
  PROVE  /\ h.connected => h \in Connection
         /\ n.connected => n \in Connection
         /\ ~h.connected => h = None
         /\ ~n.connected => n = None
<1>1. ~None.connected
  BY DEF None
<1>2. QED
  BY <1>1, Fields DEF TypeOK

-----------------------------------------------------------------------------
(* The server.                                                             *)

(* It sends on, or closes, the connection of the file.                     *)
LEMMA ServerOnOpen ==
  ASSUME IInv,
         UNCHANGED << kind, text, pc, reads, offset, size, buf, answer, kept, n >>,
         \/ Sends(h) /\ h' = [h EXCEPT !.ready = @ + 1]
         \/ Closes(h) /\ h' = [h EXCEPT !.live = FALSE]
  PROVE  IInv'
<1>1. h \in Connection
  BY Typed DEF IInv, Sends, Closes
<1>2. /\ h'.connected /\ h'.from = h.from /\ h'.at = h.at /\ h'.next = h.next /\ h'.late = h.late
      /\ h.live /\ (~h'.live => h'.ready = h.ready)
      /\ h'.live => h.ready < Window /\ h.next + h.ready < End(h) /\ h'.ready = h.ready + 1
  <2>1. CASE Sends(h) /\ h' = [h EXCEPT !.ready = @ + 1]
    BY <1>1, <2>1, Fields DEF Sends, Connection
  <2>2. CASE Closes(h) /\ h' = [h EXCEPT !.live = FALSE]
    BY <1>1, <2>2, Fields DEF Closes, Connection
  <2>3. QED
    BY <2>1, <2>2
<1>3. TypeOK'
  <2>1. h' \in Connection
    <3>1. CASE Sends(h) /\ h' = [h EXCEPT !.ready = @ + 1]
      <4>1. h.ready + 1 \in 0 .. Window
        BY <1>1, <3>1, Fields, ReadAssumption DEF Sends
      <4>2. QED
        BY <1>1, <3>1, <4>1 DEF Connection
    <3>2. CASE Closes(h) /\ h' = [h EXCEPT !.live = FALSE]
      BY <1>1, <3>2 DEF Connection
    <3>3. QED
      BY <3>1, <3>2
  <2>2. QED
    BY <1>2, <2>1, <1>1, Fields DEF IInv, TypeOK
<1>4. WithinInv'
  <2>1. /\ h.from \in Int /\ h.next \in Int /\ h.ready \in Int /\ h.at \in Int /\ h.connected
        /\ h'.ready \in Int
    BY <1>1, <1>2, Fields
  <2>2. h'.next + h'.ready <= End(h)'
    BY <1>2, <2>1, ReadAssumption DEF IInv, WithinInv, End
  <2>3. (h.at + Got)' = h.at + Got /\ h'.from + h'.next + Header = h.from + h.next + Header
    BY <1>2 DEF Got
  <2>4. UNCHANGED n
    OBVIOUS
  <2>5. QED
    BY <2>1, <2>2, <2>3, <2>4 DEF IInv, WithinInv, End
<1>5. BufInv' /\ HeaderInv'
  BY DEF IInv, BufInv, HeaderInv, AtEnd
<1>6. InStep'
  BY <1>1, <1>2, Fields DEF IInv, InStep, Got, AtEnd
<1>7. DataRight'
  BY <1>1, <1>2, Fields DEF IInv, DataRight, Sound
<1>8. ShortOnlyAtEnd'
  <2>1. kind = "content" /\ ShortOnlyAtEnd
    BY <1>1, Fields DEF IInv, TypeOK
  <2>2. Sound' <=> Sound
    BY <1>1, <1>2, Fields DEF Sound
  <2>3. ~AtEnd(h)
    BY <1>1, <1>2 DEF AtEnd
  <2>4. QED
    BY <1>2, <2>1, <2>2, <2>3 DEF ShortOnlyAtEnd
<1>9. QED
  BY <1>3, <1>4, <1>5, <1>6, <1>7, <1>8 DEF IInv

(* It sends on, or closes, the connection that is being opened.            *)
LEMMA ServerOnOpening ==
  ASSUME IInv,
         UNCHANGED << kind, text, pc, reads, offset, size, buf, answer, kept, h >>,
         \/ Sends(n) /\ n' = [n EXCEPT !.ready = @ + 1]
         \/ Closes(n) /\ n' = [n EXCEPT !.live = FALSE]
  PROVE  IInv'
<1>1. n \in Connection
  BY Typed DEF IInv, Sends, Closes
<1>2. /\ n'.connected /\ n'.from = n.from /\ n'.at = n.at /\ n'.next = n.next /\ n'.late = n.late
      /\ n.live /\ (~n'.live => n'.ready = n.ready)
      /\ n'.live => n.ready < Window /\ n.next + n.ready < End(n) /\ n'.ready = n.ready + 1
  <2>1. CASE Sends(n) /\ n' = [n EXCEPT !.ready = @ + 1]
    BY <1>1, <2>1, Fields DEF Sends, Connection
  <2>2. CASE Closes(n) /\ n' = [n EXCEPT !.live = FALSE]
    BY <1>1, <2>2, Fields DEF Closes, Connection
  <2>3. QED
    BY <2>1, <2>2
<1>3. TypeOK'
  <2>1. n' \in Connection
    <3>1. CASE Sends(n) /\ n' = [n EXCEPT !.ready = @ + 1]
      <4>1. n.ready + 1 \in 0 .. Window
        BY <1>1, <3>1, Fields, ReadAssumption DEF Sends
      <4>2. QED
        BY <1>1, <3>1, <4>1 DEF Connection
    <3>2. CASE Closes(n) /\ n' = [n EXCEPT !.live = FALSE]
      BY <1>1, <3>2 DEF Connection
    <3>3. QED
      BY <3>1, <3>2
  <2>2. QED
    BY <1>2, <2>1, <1>1, Fields DEF IInv, TypeOK
<1>4. WithinInv'
  <2>1. /\ n.from \in Int /\ n.next \in Int /\ n.ready \in Int /\ n.at \in Int /\ n.connected
        /\ n'.ready \in Int
    BY <1>1, <1>2, Fields
  <2>2. n'.next + n'.ready <= End(n)'
    BY <1>2, <2>1, ReadAssumption DEF IInv, WithinInv, End
  <2>3. n'.at = n.at /\ n'.from + n'.next + Header = n.from + n.next + Header
    BY <1>2
  <2>4. UNCHANGED << h, pc, buf >>
    OBVIOUS
  <2>5. QED
    BY <2>1, <2>2, <2>3, <2>4 DEF IInv, WithinInv, End, Got
<1>5. BufInv' /\ HeaderInv'
  <2>1. n.connected /\ ~AtEnd(n)
    BY <1>1, <1>2, Fields DEF AtEnd
  <2>2. QED
    BY <1>2, <2>1 DEF IInv, BufInv, HeaderInv
<1>6. InStep' /\ DataRight' /\ ShortOnlyAtEnd'
  BY DEF IInv, InStep, Got, AtEnd, DataRight, Sound, ShortOnlyAtEnd
<1>7. QED
  BY <1>3, <1>4, <1>5, <1>6 DEF IInv

(* The server disturbs nothing, on either connection.                      *)
LEMMA ServerKeeps == ASSUME IInv, ServerSends \/ ServerCloses PROVE IInv'
  BY ServerOnOpen, ServerOnOpening DEF ServerSends, ServerCloses

-----------------------------------------------------------------------------
(* Opening a connection.                                                   *)

(* A read goes on with the connection only from where it stands.           *)
LEMMA CallKeeps == ASSUME IInv, Call PROVE IInv'
<1>1. /\ kind = "content" /\ pc = "idle" /\ UNCHANGED << kind, text, h, n >>
      /\ reads' \in 0 .. Reads /\ offset' \in 0 .. Size - 1 /\ size' \in 0 .. Most
      /\ buf' = << >> /\ kept' = FALSE /\ Len(buf') = 0
      /\ pc' = IF h.connected /\ h.at = offset' THEN "read" ELSE "connect"
  BY ReadAssumption DEF Call, IInv, TypeOK
<1>2. TypeOK'
  <2>1. kept' \in BOOLEAN /\ pc' \in {"connect", "read"} /\ ~n'.connected
    BY <1>1 DEF IInv, TypeOK
  <2>2. (pc = "read" => h.connected)' /\ (h.connected \/ pc # "idle" => kind = "content")'
    BY <1>1
  <2>3. QED
    BY <1>1, <2>1, <2>2 DEF IInv, TypeOK
<1>3. WithinInv'
  <2>1. h.connected => h.at \in Int
    BY Typed, Fields DEF IInv
  <2>2. Got = 0 /\ Got' = 0
    BY <1>1 DEF Got
  <2>3. QED
    BY <1>1, <2>1, <2>2 DEF IInv, WithinInv, End
<1>4. BufInv' /\ HeaderInv'
  <2>1. BufInv'
    BY <1>1 DEF BufInv
  <2>2. HeaderInv'
    BY <1>1 DEF IInv, HeaderInv
  <2>3. QED
    BY <2>1, <2>2
<1>5. InStep'
  <2>1. Got = 0 /\ Got' = 0
    BY <1>1 DEF Got
  <2>2. QED
    BY <1>1, <2>1 DEF IInv, InStep, AtEnd
<1>6. DataRight' /\ ShortOnlyAtEnd'
  <2>1. pc' # "idle"
    BY <1>1
  <2>2. QED
    BY <2>1 DEF DataRight, ShortOnlyAtEnd, Sound
<1>7. QED
  BY <1>2, <1>3, <1>4, <1>5, <1>6 DEF IInv

(* Another connection is at its header, and nothing has been read.         *)
LEMMA ConnectKeeps == ASSUME IInv, Connect PROVE IInv'
<1>1. PICK from \in {offset, 0} : n' = New(from)
  BY DEF Connect
<1>2. /\ pc = "connect" /\ pc' = "header"
      /\ UNCHANGED << kind, text, reads, offset, size, h, buf, answer, kept >>
  BY DEF Connect
<1>3. /\ n' \in Connection /\ n'.connected /\ n'.from \in Int /\ n'.from < Size /\ n'.from >= 0
      /\ n'.at = 0 /\ n'.next = -Header /\ n'.ready = 0 /\ ~n'.late
  <2>1. from \in 0 .. Size - 1
    BY ReadAssumption DEF IInv, TypeOK
  <2>2. -Header \in -Header .. Size /\ 0 \in 0 .. Size + Header /\ 0 \in 0 .. Window
    BY ReadAssumption
  <2>3. QED
    BY <1>1, <2>1, <2>2, ReadAssumption DEF New, Connection
<1>4. TypeOK'
  BY <1>2, <1>3 DEF IInv, TypeOK
<1>5. WithinInv'
  <2>1. UNCHANGED Got
    BY <1>2 DEF Got
  <2>2. QED
    BY <1>2, <1>3, <2>1, ReadAssumption DEF IInv, WithinInv, End
<1>6. BufInv' /\ HeaderInv' /\ InStep'
  <2>1. BufInv'
    BY <1>2 DEF IInv, BufInv
  <2>2. HeaderInv'
    BY <1>2, <1>3, ReadAssumption DEF HeaderInv
  <2>3. InStep'
    BY <1>2 DEF IInv, InStep, Got, AtEnd
  <2>4. QED
    BY <2>1, <2>2, <2>3
<1>7. DataRight' /\ ShortOnlyAtEnd'
  BY <1>2 DEF DataRight, ShortOnlyAtEnd, Sound
<1>8. QED
  BY <1>4, <1>5, <1>6, <1>7 DEF IInv

(* A connection is refused: the one there was is read on, or the read      *)
(* fails.                                                                  *)
LEMMA RefuseKeeps == ASSUME IInv, pc \in {"connect", "header", "opened"}, Refuse PROVE IInv'
<1>1. /\ n' = None /\ ~n'.connected
      /\ UNCHANGED << kind, text, reads, offset, size, h, buf >>
      /\ buf = << >> /\ Len(buf) = 0 /\ kind = "content" /\ pc # "idle"
  BY DEF Refuse, None, IInv, TypeOK, BufInv
<1>2. CASE h.connected
  <2>1. pc' = "read" /\ kept' = TRUE /\ UNCHANGED answer
    BY <1>2 DEF Refuse
  <2>2. TypeOK'
    BY <1>1, <1>2, <2>1 DEF IInv, TypeOK
  <2>3. h.at \in Int
    BY <1>2, Typed, Fields DEF IInv
  <2>4. Got = 0 /\ Got' = 0
    BY <1>1, <2>1 DEF Got
  <2>5. WithinInv'
    BY <1>1, <2>4 DEF IInv, WithinInv, End
  <2>6. BufInv' /\ HeaderInv'
    BY <1>1, <2>1 DEF IInv, BufInv, HeaderInv
  <2>7. InStep'
    BY <1>1, <2>1, <2>4 DEF IInv, InStep, AtEnd
  <2>8. DataRight' /\ ShortOnlyAtEnd'
    BY <2>1 DEF DataRight, ShortOnlyAtEnd, Sound
  <2>9. QED
    BY <2>2, <2>5, <2>6, <2>7, <2>8 DEF IInv
<1>3. CASE ~h.connected
  <2>1. pc' = "idle" /\ answer' = Error /\ UNCHANGED kept
    BY <1>3 DEF Refuse
  <2>2. TypeOK'
    BY <1>1, <1>3, <2>1 DEF IInv, TypeOK
  <2>3. WithinInv' /\ InStep'
    BY <1>1, <1>3, <2>1 DEF WithinInv, InStep
  <2>4. BufInv' /\ HeaderInv'
    BY <1>1, <2>1 DEF IInv, BufInv, HeaderInv
  <2>5. DataRight' /\ ShortOnlyAtEnd'
    BY <2>1 DEF DataRight, ShortOnlyAtEnd, Sound
  <2>6. QED
    BY <2>2, <2>3, <2>4, <2>5 DEF IInv
<1>4. QED
  BY <1>2, <1>3

(* The second line of the header gives the offset of what follows it.      *)
LEMMA HeaderLineKeeps == ASSUME IInv, HeaderLineRead PROVE IInv'
<1>1. /\ pc = "header" /\ Readable(n) /\ n.next < 0
      /\ n' = [n EXCEPT !.next = @ + 1, !.ready = @ - 1,
                        !.at = IF n.next = 1 - Header THEN n.from ELSE @]
      /\ pc' = IF n.next = -1 THEN "opened" ELSE "header"
      /\ UNCHANGED << kind, text, reads, offset, size, h, buf, answer, kept >>
  BY DEF HeaderLineRead
<1>2. n \in Connection
  BY <1>1, Typed DEF IInv, TypeOK
<1>3. /\ n.connected /\ n.from \in Nat /\ n.from < Size /\ n.at \in Nat /\ n.at <= Size + Header
      /\ n.next \in Int /\ -Header <= n.next /\ n.ready \in Nat /\ n.ready <= Window
  BY <1>2, Fields
<1>4. /\ n'.connected /\ n'.from = n.from /\ n'.next = n.next + 1 /\ n'.ready = n.ready - 1
      /\ n'.at = (IF n.next = 1 - Header THEN n.from ELSE n.at) /\ n'.late = n.late /\ n'.live = n.live
  BY <1>1, <1>2, <1>3 DEF Connection
<1>5. TypeOK'
  <2>1. /\ n.next + 1 \in -Header .. Size /\ n.ready - 1 \in 0 .. Window
        /\ (IF n.next = 1 - Header THEN n.from ELSE n.at) \in 0 .. Size + Header
    BY <1>1, <1>3, ReadAssumption DEF Readable
  <2>2. n' \in Connection
    BY <1>1, <1>2, <2>1 DEF Connection
  <2>3. QED
    BY <1>1, <1>3, <1>4, <2>2 DEF IInv, TypeOK
<1>6. WithinInv'
  <2>1. n.next + n.ready <= Size - n.from /\ n.at <= n.from + n.next + Header
    BY <1>3 DEF IInv, WithinInv, End
  <2>2. n'.next + n'.ready <= Size - n'.from
    BY <1>3, <1>4, <2>1, ReadAssumption
  <2>3. n'.at <= n'.from + n'.next + Header
    BY <1>3, <1>4, <2>1, ReadAssumption
  <2>4. UNCHANGED << h, Got >>
    BY <1>1 DEF Got
  <2>5. QED
    BY <2>2, <2>3, <2>4 DEF IInv, WithinInv, End
<1>7. BufInv' /\ HeaderInv'
  <2>1. BufInv'
    BY <1>1 DEF IInv, BufInv
  <2>2. n'.next > 1 - Header => n'.at = n'.from
    BY <1>3, <1>4, ReadAssumption DEF IInv, HeaderInv
  <2>3. pc' = "header" => n'.next < 0 /\ ~n'.late
    BY <1>1, <1>3, <1>4 DEF IInv, HeaderInv
  <2>4. pc' = "opened" => n'.next = 0
    BY <1>1, <1>3, <1>4
  <2>5. QED
    BY <2>1, <2>2, <2>3, <2>4 DEF HeaderInv
<1>8. InStep' /\ DataRight' /\ ShortOnlyAtEnd'
  <2>1. InStep'
    BY <1>1 DEF IInv, InStep, Got, AtEnd
  <2>2. QED
    BY <1>1, <2>1 DEF DataRight, ShortOnlyAtEnd, Sound
<1>9. QED
  BY <1>5, <1>6, <1>7, <1>8 DEF IInv

(* After a header that ended early comes nothing, or a poll timed out.     *)
LEMMA HeaderCutKeeps == ASSUME IInv, HeaderCutShort PROVE IInv'
<1>1. /\ pc = "header" /\ n.ready = 0
      /\ n' = [n EXCEPT !.late = n.live] /\ pc' = "opened"
      /\ UNCHANGED << kind, text, reads, offset, size, h, buf, answer, kept >>
  BY DEF HeaderCutShort
<1>2. n \in Connection
  BY <1>1, Typed DEF IInv, TypeOK
<1>3. n' \in Connection
  BY <1>1, <1>2 DEF Connection
<1>4. n.connected /\ n'.connected /\ n'.late \in BOOLEAN /\ n.next \in Int /\ n.live \in BOOLEAN
  BY <1>2, <1>3, Fields
<1>5. /\ n'.from = n.from /\ n'.next = n.next /\ n'.ready = n.ready /\ n'.at = n.at
      /\ n'.live = n.live /\ n'.late = n.live
  BY <1>1, <1>2 DEF Connection
<1>6. TypeOK'
  BY <1>1, <1>3, <1>4 DEF IInv, TypeOK
<1>7. WithinInv'
  BY <1>1, <1>4, <1>5 DEF IInv, WithinInv, End, Got
<1>8. BufInv' /\ HeaderInv'
  <2>1. BufInv'
    BY <1>1 DEF IInv, BufInv
  <2>2. HeaderInv'
    BY <1>1, <1>4, <1>5 DEF IInv, HeaderInv, AtEnd
  <2>3. QED
    BY <2>1, <2>2
<1>9. InStep' /\ DataRight' /\ ShortOnlyAtEnd'
  <2>1. InStep'
    BY <1>1 DEF IInv, InStep, Got, AtEnd
  <2>2. QED
    BY <1>1, <2>1 DEF DataRight, ShortOnlyAtEnd, Sound
<1>10. QED
  BY <1>6, <1>7, <1>8, <1>9 DEF IInv

(* A connection that stands at the offset takes the place of the old one.  *)
LEMMA OpenedKeeps == ASSUME IInv, Opened PROVE IInv'
<1>1. CASE n.at # offset /\ Refuse
  BY <1>1, RefuseKeeps DEF Opened
<1>2. CASE n.at = offset /\ h' = n /\ n' = None /\ pc' = "read"
           /\ UNCHANGED << kind, text, reads, offset, size, buf, answer, kept >>
  <2>1. /\ pc = "opened" /\ n \in Connection /\ n.connected /\ n.next \in Int /\ n.at \in Int
        /\ n.from \in Int /\ n.next \in Int /\ n.late \in BOOLEAN
    BY Typed, Fields DEF Opened, IInv, TypeOK
  <2>2. ~n'.connected
    BY <1>2 DEF None
  <2>3. buf = << >> /\ Len(buf) = 0 /\ Got' = 0
    BY <1>2, <2>1 DEF IInv, BufInv, Got
  <2>4. TypeOK'
    BY <1>2, <2>1, <2>2 DEF IInv, TypeOK
  <2>5. WithinInv'
    BY <1>2, <2>1, <2>2, <2>3 DEF IInv, WithinInv, End
  <2>6. BufInv' /\ HeaderInv'
    BY <1>2, <2>2 DEF IInv, BufInv, HeaderInv
  <2>7. InStep'
    <3>1. n.next >= 0 => n.at = n.from + n.next
      BY <2>1, ReadAssumption DEF IInv, HeaderInv
    <3>2. n.next < 0 /\ ~n.late => AtEnd(n)
      BY <2>1 DEF IInv, HeaderInv
    <3>3. QED
      BY <1>2, <2>1, <2>3, <3>1, <3>2 DEF InStep, AtEnd
  <2>8. DataRight' /\ ShortOnlyAtEnd'
    BY <1>2 DEF DataRight, ShortOnlyAtEnd, Sound
  <2>9. QED
    BY <2>4, <2>5, <2>6, <2>7, <2>8 DEF IInv
<1>3. QED
  BY <1>1, <1>2 DEF Opened

-----------------------------------------------------------------------------
(* Reading from a connection.                                              *)

(* A piece of a file or of a text.                                         *)
LEMMA PieceLen == ASSUME NEW k \in Nat, NEW f \in [1 .. k -> Int] PROVE f \in Seq(Int) /\ Len(f) = k
<1>1. f \in Seq(Int)
  BY SeqDef
<1>2. DOMAIN f = 1 .. k /\ DOMAIN f = 1 .. Len(f) /\ Len(f) \in Nat
  BY <1>1, LenProperties
<1>3. QED
  BY <1>1, <1>2

(* What has been received and what is received now.                        *)
LEMMA Appended ==
  ASSUME NEW b \in Seq(Int), NEW k \in Nat, NEW f \in [1 .. k -> Int]
  PROVE  /\ b \o f \in Seq(Int) /\ Len(b \o f) = Len(b) + k
         /\ \A i \in 1 .. Len(b) : (b \o f)[i] = b[i]
         /\ \A i \in 1 .. k : (b \o f)[Len(b) + i] = f[i]
<1>1. f \in Seq(Int) /\ Len(f) = k
  BY PieceLen
<1>2. /\ b \o f \in Seq(Int) /\ Len(b \o f) = Len(b) + k /\ Len(b) \in Nat
      /\ \A i \in 1 .. Len(b) + k : (b \o f)[i] = IF i <= Len(b) THEN b[i] ELSE f[i - Len(b)]
  BY <1>1, ConcatProperties, LenProperties
<1>3. ASSUME NEW i \in 1 .. Len(b) PROVE (b \o f)[i] = b[i]
  BY <1>2
<1>4. ASSUME NEW i \in 1 .. k PROVE (b \o f)[Len(b) + i] = f[i]
  <2>1. Len(b) + i \in 1 .. Len(b) + k /\ ~(Len(b) + i <= Len(b)) /\ Len(b) + i - Len(b) = i
    BY <1>2
  <2>2. QED
    BY <1>2, <2>1
<1>5. QED
  BY <1>2, <1>3, <1>4

(* What is received continues what the read has already.                   *)
LEMMA ReceiveKeeps == ASSUME IInv, Receive PROVE IInv'
<1>1. PICK k \in 1 .. h.ready :
        /\ k <= size - Len(buf)
        /\ buf' = buf \o [i \in 1 .. k |-> Content(h, h.next + i - 1)]
        /\ h' = [h EXCEPT !.next = @ + k, !.ready = @ - k]
  BY DEF Receive
<1>2. /\ pc = "read" /\ Len(buf) < size /\ h \in Connection
      /\ UNCHANGED << kind, text, pc, reads, offset, size, n, answer, kept >>
  BY Typed DEF Receive, Reading, IInv, TypeOK
<1>3. /\ h.from \in Nat /\ h.from < Size /\ h.at \in Nat /\ h.at <= Size + Header
      /\ h.next \in Int /\ -Header <= h.next /\ h.next <= Size
      /\ h.ready \in Nat /\ h.ready <= Window
      /\ k \in Nat /\ k >= 1 /\ k <= h.ready
  BY <1>1, <1>2, Fields
<1>4. h.connected
  BY <1>2, Fields
<1>5. h'.connected /\ h'.live = h.live /\ h'.late = h.late
  BY <1>1, <1>2, <1>4 DEF Connection
<1>6. h'.from = h.from /\ h'.at = h.at /\ h'.next = h.next + k /\ h'.ready = h.ready - k
  BY <1>1, <1>2 DEF Connection
<1>7. buf \in Seq(Int)
  BY DEF IInv, BufInv
<1>8. Len(buf) \in Nat
  BY <1>7, LenProperties
<1>9. /\ buf' \in Seq(Int) /\ Len(buf') = Len(buf) + k
      /\ \A i \in 1 .. Len(buf) : buf'[i] = buf[i]
      /\ \A i \in 1 .. k : buf'[Len(buf) + i] = Content(h, h.next + i - 1)
  <2> DEFINE f == [i \in 1 .. k |-> Content(h, h.next + i - 1)]
  <2>1. f \in [1 .. k -> Int]
    BY <1>3 DEF Content, HeaderLine
  <2>2. \A i \in 1 .. k : f[i] = Content(h, h.next + i - 1)
    OBVIOUS
  <2>3. buf' = buf \o f
    BY <1>1
  <2>4. QED
    BY <1>3, <1>7, <2>1, <2>2, <2>3, Appended
<1>10. h.next + h.ready <= Size - h.from
  BY <1>4 DEF IInv, WithinInv, End
<1>11. h.at + Len(buf) <= h.from + h.next + Header
  BY <1>2, <1>4 DEF IInv, WithinInv, Got
<1>12. h.next + k \in -Header .. Size /\ h.ready - k \in 0 .. Window
  BY <1>3, <1>10, ReadAssumption
<1>13. (h.next + k) + (h.ready - k) <= Size - h.from
  BY <1>3, <1>10, ReadAssumption
<1>14. /\ h.at + (Len(buf) + k) <= h.from + (h.next + k) + Header
       /\ h.at + Len(buf) = h.from + h.next => h.at + (Len(buf) + k) = h.from + (h.next + k)
  <2>1. h.at + Len(buf) + k = h.at + (Len(buf) + k)
    BY <1>3, <1>8
  <2>2. h.from + h.next + k = h.from + (h.next + k)
    BY <1>3
  <2>3. h.at + Len(buf) \in Int /\ h.from + h.next \in Int /\ Header \in Int
    BY <1>3, <1>8, ReadAssumption
  <2>4. h.at + Len(buf) + k <= h.from + h.next + k + Header
    BY <1>11, <1>3, <2>3
  <2>5. QED
    BY <2>1, <2>2, <2>4
<1>15. TypeOK'
  <2>1. h.next + k \in -Header .. Size /\ h.ready - k \in 0 .. Window
    BY <1>12
  <2>2. h' \in Connection
    BY <1>1, <1>2, <2>1 DEF Connection
  <2>3. Len(buf') <= size
    BY <1>1, <1>3, <1>8, <1>9 DEF IInv, TypeOK
  <2>4. QED
    BY <1>2, <1>5, <1>6, <2>2, <2>3 DEF IInv, TypeOK
<1>16. WithinInv'
  <2>1. h'.next + h'.ready <= Size - h'.from
    BY <1>6, <1>13
  <2>2. h'.at + Len(buf') <= h'.from + h'.next + Header
    BY <1>6, <1>9, <1>14
  <2>3. Got' = Len(buf')
    BY <1>2 DEF Got
  <2>4. QED
    BY <1>2, <2>1, <2>2, <2>3 DEF IInv, WithinInv, End
<1>17. BufInv' /\ HeaderInv'
  <2>1. kind' = "content"
    BY <1>2, <1>4 DEF IInv, TypeOK
  <2>2. BufInv'
    BY <1>2, <1>9, <2>1 DEF BufInv
  <2>3. HeaderInv'
    BY <1>2 DEF IInv, HeaderInv
  <2>4. QED
    BY <2>2, <2>3
<1>18. InStep'
  <2>1. h'.late = h.late /\ (~h'.late => h.next >= 0)
    BY <1>2, <1>4, <1>3, <1>5, <1>6 DEF IInv, InStep, AtEnd
  <2>2. kept' = kept /\ (~kept => h'.at = offset')
    BY <1>2, <1>5, <1>6 DEF IInv, InStep
  <2>3. ASSUME ~h'.late
        PROVE  /\ h'.at + Got' = h'.from + h'.next
               /\ \A i \in 1 .. Len(buf') : buf'[i] = h'.at + i - 1
    <3>1. h.next >= 0 /\ h.at + Len(buf) = h.from + h.next
      BY <1>2, <1>4, <1>3, <2>1, <2>3 DEF IInv, InStep, Got
    <3>2. \A i \in 1 .. Len(buf) : buf[i] = h.at + i - 1
      BY <1>2, <1>4, <1>3, <2>1, <2>3 DEF IInv, InStep
    <3>3. h'.at + Got' = h'.from + h'.next
      BY <1>2, <1>6, <1>9, <1>14, <3>1 DEF Got
    <3>4. ASSUME NEW i \in 1 .. Len(buf')
          PROVE  buf'[i] = h'.at + i - 1
      <4>1. CASE i <= Len(buf)
        <5>1. i \in 1 .. Len(buf)
          BY <1>8, <1>9, <1>3, <3>4, <4>1
        <5>2. QED
          BY <1>6, <1>9, <3>2, <5>1
      <4>2. CASE i > Len(buf)
        <5>1. i - Len(buf) \in 1 .. k /\ i = Len(buf) + (i - Len(buf))
          BY <1>3, <1>8, <1>9, <3>4, <4>2
        <5>2. buf'[i] = Content(h, h.next + (i - Len(buf)) - 1)
          BY <1>9, <5>1
        <5>3. h.next + (i - Len(buf)) - 1 >= 0 /\ i - Len(buf) \in Int
          BY <1>3, <3>1, <5>1
        <5>4. buf'[i] = h.from + (h.next + (i - Len(buf)) - 1)
          BY <1>3, <5>2, <5>3 DEF Content
        <5>5. h.from + (h.next + (i - Len(buf)) - 1) = h.at + i - 1
          <6>1. h.from + (h.next + (i - Len(buf)) - 1) = (h.from + h.next) + (i - Len(buf)) - 1
            BY <1>3, <5>3
          <6>2. i \in Int /\ h.at \in Int
            BY <1>3, <3>4
          <6>3. (h.at + Len(buf)) + (i - Len(buf)) - 1 = h.at + i - 1
            BY <1>8, <6>2
          <6>4. QED
            BY <3>1, <6>1, <6>3
        <5>6. QED
          BY <1>6, <5>4, <5>5
      <4>3. QED
        BY <1>8, <4>1, <4>2, <3>4, <1>9, <1>3
    <3>5. QED
      BY <3>3, <3>4
  <2>4. h'.next >= 0 \/ h'.late
    BY <1>3, <1>5, <1>6, <2>1
  <2>5. QED
    BY <1>2, <1>4, <1>3, <1>5, <1>6, <2>1, <2>2, <2>3, <2>4 DEF InStep
<1>19. DataRight' /\ ShortOnlyAtEnd'
  BY <1>2 DEF DataRight, ShortOnlyAtEnd, Sound
<1>20. QED
  BY <1>15, <1>16, <1>17, <1>18, <1>19 DEF IInv

(* What was received before a poll timed out is lost, and never counted.   *)
LEMMA TimeoutKeeps == ASSUME IInv, PollTimesOut PROVE IInv'
<1>1. /\ pc = "read" /\ h \in Connection /\ kind = "content" /\ pc' = "idle"
      /\ h' = [h EXCEPT !.late = TRUE]
      /\ UNCHANGED << kind, text, reads, offset, size, n, buf, kept >>
  BY Typed DEF PollTimesOut, Reading, IInv, TypeOK
<1>2. h'.connected /\ h'.late /\ h' \in Connection
  BY <1>1, Fields DEF Connection
<1>3. h'.from = h.from /\ h'.at = h.at /\ h'.next = h.next /\ h'.ready = h.ready
  BY <1>1 DEF Connection
<1>4. TypeOK'
  BY <1>1, <1>2 DEF IInv, TypeOK
<1>5. WithinInv'
  <2>1. h.connected /\ h.from \in Int /\ h.next \in Int /\ h.at \in Int /\ Len(buf) \in Nat
    BY <1>1, Fields, LenProperties DEF IInv, BufInv
  <2>2. h.at + Len(buf) <= h.from + h.next + Header /\ Got' = 0
    BY <1>1, <2>1 DEF IInv, WithinInv, Got
  <2>3. h'.at + 0 <= h'.from + h'.next + Header
    BY <1>3, <2>1, <2>2, ReadAssumption
  <2>4. QED
    BY <1>1, <1>3, <2>1, <2>2, <2>3 DEF IInv, WithinInv, End
<1>6. BufInv' /\ HeaderInv'
  BY <1>1 DEF IInv, BufInv, HeaderInv
<1>7. InStep'
  BY <1>1, <1>2 DEF InStep
<1>8. DataRight' /\ ShortOnlyAtEnd'
  BY <1>1, <1>2 DEF DataRight, ShortOnlyAtEnd, Sound
<1>9. QED
  BY <1>4, <1>5, <1>6, <1>7, <1>8 DEF IInv

(* What a read returns is counted into http->offset.                       *)
LEMMA ReturnKeeps == ASSUME IInv, Return PROVE IInv'
<1>1. /\ pc = "read" /\ h \in Connection /\ kind = "content" /\ pc' = "idle"
      /\ Len(buf) = size \/ AtEnd(h)
      /\ h' = [h EXCEPT !.at = @ + Len(buf)] /\ answer' = buf
      /\ UNCHANGED << kind, text, reads, offset, size, n, buf, kept >>
  BY Typed DEF Return, IInv, TypeOK
<1>2. /\ h.from \in Nat /\ h.from < Size /\ h.at \in Nat /\ h.next \in Int /\ h.next <= Size
      /\ Len(buf) \in Nat
  BY <1>1, Fields, LenProperties DEF IInv, BufInv
<1>3. h.connected /\ h'.connected /\ h'.late = h.late /\ h'.live = h.live
  BY <1>1, Fields DEF Connection
<1>4. h'.from = h.from /\ h'.at = h.at + Len(buf) /\ h'.next = h.next /\ h'.ready = h.ready
  BY <1>1 DEF Connection
<1>5. h.next + h.ready <= Size - h.from /\ h.at + Len(buf) <= h.from + h.next + Header
  BY <1>1, <1>3 DEF IInv, WithinInv, End, Got
<1>6. TypeOK'
  <2>1. h.ready \in Nat
    BY <1>1, Fields
  <2>2. h.at + Len(buf) \in 0 .. Size + Header
    BY <1>2, <1>5, <2>1, ReadAssumption
  <2>3. h' \in Connection
    BY <1>1, <2>2 DEF Connection
  <2>4. QED
    BY <1>1, <1>3, <2>3 DEF IInv, TypeOK
<1>7. Got' = 0
  BY <1>1 DEF Got
<1>8. WithinInv'
  <2>1. h'.at + 0 <= h'.from + h'.next + Header
    BY <1>2, <1>4, <1>5
  <2>2. QED
    BY <1>1, <1>4, <1>5, <1>7, <2>1 DEF IInv, WithinInv, End
<1>9. BufInv' /\ HeaderInv'
  BY <1>1 DEF IInv, BufInv, HeaderInv
<1>10. ~h.late =>
         /\ h.next < 0 => AtEnd(h) /\ buf = << >>
         /\ h.next >= 0 =>
              /\ h.at + Len(buf) = h.from + h.next
              /\ \A i \in 1 .. Len(buf) : buf[i] = h.at + i - 1
  BY <1>1, <1>3 DEF IInv, InStep, Got
<1>11. InStep'
  <2>1. ~h.late /\ h.next >= 0 => h'.at + 0 = h'.from + h'.next
    BY <1>2, <1>4, <1>10
  <2>2. QED
    BY <1>1, <1>3, <1>4, <1>7, <1>10, <2>1 DEF InStep, AtEnd
<1>12. ~kept => h.at = offset
  BY <1>1 DEF IInv, InStep
<1>13. DataRight'
  <2>1. CASE ~h.late /\ ~kept
    <3>1. CASE h.next < 0
      <4>1. Len(buf) = 0
        BY <1>10, <2>1, <3>1
      <4>2. QED
        BY <1>1, <4>1 DEF DataRight
    <3>2. CASE h.next >= 0
      BY <1>1, <1>10, <1>12, <2>1, <3>2 DEF DataRight
    <3>3. QED
      BY <1>2, <3>1, <3>2
  <2>2. CASE h.late \/ kept
    BY <1>1, <1>3, <2>2 DEF DataRight, Sound
  <2>3. QED
    BY <2>1, <2>2
<1>14. ShortOnlyAtEnd'
  <2>1. SUFFICES ASSUME ~h.late, ~kept, Len(buf) < size
                 PROVE  AtEnd(h)' /\ (h'.next >= 0 => offset + Len(buf) = h'.from + h'.next)
    BY <1>1, <1>3 DEF ShortOnlyAtEnd, Sound
  <2>2. AtEnd(h)
    BY <1>1, <1>2, <2>1 DEF IInv, TypeOK
  <2>3. AtEnd(h)'
    BY <1>3, <1>4, <2>2 DEF AtEnd
  <2>4. h.next >= 0 => offset + Len(buf) = h.from + h.next
    BY <1>10, <1>12, <2>1
  <2>5. QED
    BY <1>4, <2>3, <2>4
<1>15. QED
  BY <1>6, <1>8, <1>9, <1>11, <1>13, <1>14 DEF IInv

-----------------------------------------------------------------------------
(* The files that have a text.                                             *)

(* From offset o of a text of length t.                                    *)
LEMMA FromZero == \A o, t \in Int : o = 0 => t - o >= t
  OBVIOUS

(* Before its end, z bytes are wanted.                                     *)
LEMMA FromBefore ==
  \A o, t, z \in Int : z > 0 /\ ~(o >= t) =>
    /\ t - o \in Nat /\ o + (t - o) >= t
    /\ Lesser(z, t - o) \in Nat
    /\ Lesser(z, t - o) < z => o + Lesser(z, t - o) >= t
  BY DEF Lesser

(* The beginning of a text is what a read from offset 0 wants.             *)
LEMMA TextKeeps == ASSUME IInv, ReadMetadata \/ ReadDevice PROVE IInv'
<1>1. /\ kind \in {"metadata", "device"} /\ pc = "idle" /\ ReadText
      /\ ~h.connected /\ ~n.connected
  BY DEF ReadMetadata, ReadDevice, ReadText, IInv, TypeOK
<1>2. /\ reads' \in 0 .. Reads /\ offset' \in 0 .. Size - 1 /\ size' \in 1 .. Most
      /\ UNCHANGED << kind, pc, h, n, buf, kept >>
  BY <1>1, ReadAssumption DEF ReadText, IInv, TypeOK
<1>3. text' \in 0 .. Size
  BY DEF ReadMetadata, ReadDevice, IInv, TypeOK
<1>4. offset' \in Int /\ size' \in Int /\ text' \in Int /\ size' > 0
  BY <1>2, <1>3, ReadAssumption
<1>5. TypeOK'
  <2>1. Len(buf) <= size'
    BY <1>1, <1>2, ReadAssumption DEF IInv, BufInv
  <2>2. QED
    BY <1>1, <1>2, <1>3, <2>1, ReadAssumption DEF IInv, TypeOK
<1>6. WithinInv' /\ InStep'
  BY <1>1, <1>2 DEF WithinInv, InStep
<1>7. BufInv' /\ HeaderInv'
  BY <1>1, <1>2 DEF IInv, BufInv, HeaderInv
<1>0. Sound' => offset' = 0
  BY <1>1, <1>2 DEF Sound
<1>8. ASSUME NEW length \in Nat, answer' = Beginning(length)
      PROVE  Len(answer)' = length /\ DataRight'
  <2>1. /\ [i \in 1 .. length |-> i - 1] \in [1 .. length -> Int]
        /\ answer' = [i \in 1 .. length |-> i - 1]
    BY <1>8 DEF Beginning
  <2>2. Len(answer') = length
    BY <2>1, PieceLen
  <2>3. offset' = 0 => \A i \in 1 .. Len(answer') : answer'[i] = offset' + i - 1
    BY <2>1, <2>2
  <2>4. QED
    BY <1>0, <2>2, <2>3 DEF DataRight
<1>9. ASSUME answer' = << >> PROVE Len(answer)' = 0 /\ DataRight'
  BY <1>9 DEF DataRight
<1>10. ASSUME kind = "metadata" /\ answer' # Error
      PROVE  DataRight' /\ ShortOnlyAtEnd'
  <2>1. answer' = IF offset' >= text' THEN << >> ELSE Beginning(Lesser(size', text' - offset'))
    BY <1>10 DEF ReadMetadata, ReadDevice
  <2>2. CASE offset' >= text'
    <3>1. Len(answer)' = 0 /\ DataRight'
      BY <1>9, <2>1, <2>2
    <3>2. offset' = 0 => 0 >= text'
      BY <1>4, <2>2
    <3>3. QED
      BY <1>0, <1>2, <1>10, <3>1, <3>2 DEF ShortOnlyAtEnd
  <2>3. CASE ~(offset' >= text')
    <3>1. Lesser(size', text' - offset') \in Nat
      BY <1>4, <2>3, FromBefore
    <3>2. Len(answer)' = Lesser(size', text' - offset') /\ DataRight'
      BY <1>8, <2>1, <2>3, <3>1
    <3>3. Lesser(size', text' - offset') < size' => offset' + Lesser(size', text' - offset') >= text'
      BY <1>4, <2>3, FromBefore
    <3>4. offset' = 0 /\ Len(answer)' < size' => Len(answer)' >= text'
      BY <3>1, <3>2, <3>3
    <3>5. QED
      BY <1>0, <1>2, <1>10, <3>2, <3>4 DEF ShortOnlyAtEnd
  <2>4. QED
    BY <2>2, <2>3
<1>11. ASSUME answer' = Error
      PROVE  DataRight' /\ ShortOnlyAtEnd'
  BY <1>11 DEF DataRight, ShortOnlyAtEnd, Sound
<1>12. ASSUME kind = "device"
       PROVE  DataRight' /\ ShortOnlyAtEnd'
  <2>1. answer' = IF offset' >= text' \/ size' < text' - offset' THEN << >> ELSE Beginning(text' - offset')
    BY <1>12 DEF ReadMetadata, ReadDevice
  <2>2. CASE offset' >= text' \/ size' < text' - offset'
    <3>1. answer' = << >> /\ Len(answer)' = 0 /\ DataRight'
      BY <1>9, <2>1, <2>2
    <3>2. QED
      BY <1>2, <1>12, <3>1 DEF ShortOnlyAtEnd
  <2>3. CASE ~(offset' >= text' \/ size' < text' - offset')
    <3>1. text' - offset' \in Nat /\ (offset' = 0 => text' - offset' >= text')
      BY <1>4, <2>3, FromBefore, FromZero
    <3>2. Len(answer)' = text' - offset' /\ DataRight'
      BY <1>8, <2>1, <2>3, <3>1
    <3>3. offset' = 0 => Len(answer)' >= text'
      BY <3>1, <3>2
    <3>4. QED
      BY <1>0, <1>2, <1>12, <3>2, <3>3 DEF ShortOnlyAtEnd
  <2>4. QED
    BY <2>2, <2>3
<1>13. QED
  BY <1>1, <1>5, <1>6, <1>7, <1>10, <1>11, <1>12 DEF IInv

-----------------------------------------------------------------------------

(* The invariant holds before the first read.                              *)
LEMMA InitIInv == Init => IInv
<1> SUFFICES ASSUME Init PROVE IInv
  OBVIOUS
<1>1. ~h.connected /\ ~n.connected /\ buf = << >> /\ Len(buf) = 0 /\ pc = "idle" /\ Len(answer) = 0 /\ size = 0
  BY DEF Init, None
<1>2. TypeOK
  <2>1. h \in Connection \union {None} /\ n \in Connection \union {None} /\ kept \in BOOLEAN
    BY DEF Init
  <2>2. QED
    BY <1>1, <2>1, ReadAssumption DEF Init, TypeOK
<1>3. WithinInv /\ BufInv /\ HeaderInv /\ InStep
  BY <1>1 DEF WithinInv, BufInv, HeaderInv, InStep
<1>4. DataRight /\ ShortOnlyAtEnd
  BY <1>1 DEF DataRight, ShortOnlyAtEnd
<1>5. QED
  BY <1>2, <1>3, <1>4 DEF IInv

(* A step that changes nothing.                                            *)
LEMMA StutterKeeps == ASSUME IInv, UNCHANGED vars PROVE IInv'
<1>1. TypeOK'
  BY DEF vars, IInv, TypeOK
<1>2. WithinInv'
  BY DEF vars, IInv, WithinInv, Got, End
<1>3. BufInv' /\ HeaderInv'
  BY DEF vars, IInv, BufInv, HeaderInv, AtEnd
<1>4. InStep'
  BY DEF vars, IInv, InStep, Got, AtEnd
<1>5. DataRight'
  BY DEF vars, IInv, DataRight, Sound
<1>6. ShortOnlyAtEnd'
  BY DEF vars, IInv, ShortOnlyAtEnd, Sound, AtEnd
<1>7. QED
  BY <1>1, <1>2, <1>3, <1>4, <1>5, <1>6 DEF IInv

(* IInv is inductive, hence holds in every reachable state.                *)
THEOREM Invariance == Spec => []IInv
<1>1. IInv /\ [Next]_vars => IInv'
  <2> SUFFICES ASSUME IInv, [Next]_vars PROVE IInv'
    OBVIOUS
  <2>1. CASE Next
    <3>1. OpenFails => pc \in {"connect", "header", "opened"} /\ Refuse
      BY DEF OpenFails
    <3>2. CASE Client
      BY <3>1, <3>2, CallKeeps, ConnectKeeps, RefuseKeeps, HeaderLineKeeps, HeaderCutKeeps, OpenedKeeps,
         ReceiveKeeps, TimeoutKeeps, ReturnKeeps, TextKeeps DEF Client
    <3>3. CASE UNCHANGED vars
      BY <3>3, StutterKeeps
    <3>4. QED
      BY <2>1, <3>2, <3>3, ServerKeeps DEF Next, Terminated
  <2>2. CASE UNCHANGED vars
    BY <2>2, StutterKeeps
  <2>3. QED
    BY <2>1, <2>2
<1>2. QED
  BY InitIInv, <1>1, PTL DEF Spec

(* A read returns the bytes of the file, or of the text, from its offset   *)
(* on, whatever was read before and however the connection was opened.     *)
THEOREM DataRightThm == Spec => []DataRight
<1>1. IInv => DataRight
  BY DEF IInv
<1>2. QED
  BY <1>1, Invariance, PTL

(* A read that returns less than it was asked for has all that the server  *)
(* sent before it closed, or the end of the text.                          *)
THEOREM ShortOnlyAtEndThm == Spec => []ShortOnlyAtEnd
<1>1. IInv => ShortOnlyAtEnd
  BY DEF IInv
<1>2. QED
  BY <1>1, Invariance, PTL

-----------------------------------------------------------------------------
(* Paths and their cache.                                                  *)

(* A set of natural numbers that is not empty has a least one.             *)
LEMMA LeastOfSome == ASSUME NEW S \in SUBSET Nat, S # {} PROVE \E x \in S : \A y \in S : x <= y
<1> DEFINE Less == {pair \in Nat \X Nat : pair[1] < pair[2]}
<1>1. Less = OpToRel(<, Nat)
  BY Zenon DEF OpToRel
<1>2. IsWellFoundedOn(Less, Nat)
  BY NatLessThanWellFounded, <1>1, Zenon
<1>3. PICK x \in S : \A y \in S : ~(<< y, x >> \in Less)
  BY <1>2, WFMin, Zenon
<1>4. \A y \in S : x <= y
  <2>1. \A y \in S : << y, x >> \in Nat \X Nat /\ << y, x >>[1] = y /\ << y, x >>[2] = x
    OBVIOUS
  <2>2. \A y \in S : ~(y < x)
    BY <1>3, <2>1, Zenon
  <2>3. QED
    BY <2>2
<1>5. QED
  BY <1>4

\* Components of paths.
Names == Devices \cup Range(Title)

(* The path of an object is that of its parent and one more component.     *)
LEMMA PathOfChild ==
  ASSUME NEW o \in Objects
  PROVE  /\ Parent[o] \in Nodes /\ Title[o] \in Names
         /\ PathOf[o] \in Seq(Names) /\ PathOf[Parent[o]] \in Seq(Names)
         /\ Len(PathOf[Parent[o]]) \in Nat \ {0} /\ Len(PathOf[o]) = Len(PathOf[Parent[o]]) + 1
         /\ PathOf[o][Len(PathOf[o])] = Title[o] /\ PathOf[o][1] = PathOf[Parent[o]][1]
         /\ \A i \in 1 .. Len(PathOf[o]) - 1 : PathOf[Parent[o]][i] = PathOf[o][i]
<1> DEFINE s == PathOf[Parent[o]]
           e == Title[o]
<1>1. Parent[o] \in Nodes /\ o \in Nodes /\ e \in Names
  BY PathCacheAssumption DEF Nodes, Names
<1>2. s \in Seq(Names) \ {<< >>} /\ PathOf[o] = Append(s, e)
  BY <1>1, PathCacheAssumption DEF Nodes, Names
<1> HIDE DEF s, e
<1>3. /\ Append(s, e) \in Seq(Names) /\ Len(s) \in Nat \ {0} /\ Len(Append(s, e)) = Len(s) + 1
      /\ Append(s, e)[Len(s) + 1] = e /\ \A i \in 1 .. Len(s) : Append(s, e)[i] = s[i]
  BY <1>1, <1>2
<1>4. 1 \in 1 .. Len(s) /\ Len(s) + 1 - 1 = Len(s)
  BY <1>3
<1>5. QED
  BY <1>1, <1>2, <1>3, <1>4 DEF s, e

(* The path of a device is its name.                                       *)
LEMMA PathOfDevice ==
  ASSUME NEW d \in Devices
  PROVE  PathOf[d] = << d >> /\ Len(PathOf[d]) = 1 /\ PathOf[d][1] = d /\ PathOf[d] \in Seq(Names)
<1>1. PathOf[d] = << d >> /\ d \in Names
  BY PathCacheAssumption DEF Names
<1>2. QED
  BY <1>1

(* Each prefix of the path of an object that is there, but for the first   *)
(* component, is the path of an object that is there.                      *)
LEMMA PrefixIsThere ==
  ASSUME ExistInv, exist \subseteq Objects, NEW node \in exist, NEW k \in 2 .. Len(PathOf[node])
  PROVE  \E m \in exist : Len(PathOf[m]) = k /\ \A i \in 1 .. k : PathOf[m][i] = PathOf[node][i]
<1> DEFINE Above == {m \in exist : /\ Len(PathOf[m]) \in k .. Len(PathOf[node])
                                   /\ \A i \in 1 .. Len(PathOf[m]) : PathOf[m][i] = PathOf[node][i]}
           Lengths == {l \in Nat : \E m \in Above : Len(PathOf[m]) = l}
<1>1. Len(PathOf[node]) \in Nat /\ k \in Nat /\ 2 <= k
  BY PathOfChild
<1>2. node \in Above
  BY <1>1
<1>3. Lengths \in SUBSET Nat /\ Lengths # {}
  BY <1>1, <1>2
<1>4. PICK l \in Lengths : \A y \in Lengths : l <= y
  <2> HIDE DEF Lengths
  <2>1. QED
    BY <1>3, LeastOfSome
<1>5. PICK m \in Above : Len(PathOf[m]) = l
  BY <1>4
<1>6. CASE l = k
  BY <1>5, <1>6
<1>7. CASE l # k
  <2>1. m \in exist /\ m \in Objects /\ l \in k .. Len(PathOf[node]) /\ l > k /\ l \in Nat
    BY <1>1, <1>5, <1>7
  <2> DEFINE p == Parent[m]
  <2>2. /\ p \in exist \cup Devices
        /\ Len(PathOf[p]) \in Nat /\ Len(PathOf[p]) = l - 1
        /\ \A i \in 1 .. Len(PathOf[p]) : PathOf[p][i] = PathOf[m][i]
    <3>1. p \in exist \cup Devices
      BY <2>1 DEF ExistInv
    <3>2. Len(PathOf[p]) \in Nat /\ l = Len(PathOf[p]) + 1
          /\ \A i \in 1 .. l - 1 : PathOf[p][i] = PathOf[m][i]
      BY <1>5, <2>1, PathOfChild
    <3> HIDE DEF p
    <3>3. QED
      BY <2>1, <3>1, <3>2
  <2> HIDE DEF p
  <2>3. p \notin Devices
    <3>1. Len(PathOf[p]) # 1
      BY <1>1, <2>1, <2>2
    <3>2. QED
      BY <3>1, PathOfDevice
  <2>4. \A i \in 1 .. Len(PathOf[p]) : PathOf[p][i] = PathOf[node][i]
    BY <1>5, <2>1, <2>2
  <2>5. p \in Above /\ l - 1 \in Lengths
    <3>1. l - 1 \in k .. Len(PathOf[node]) /\ l - 1 \in Nat
      BY <1>1, <2>1
    <3>2. p \in Above
      BY <2>2, <2>3, <2>4, <3>1
    <3>3. QED
      BY <2>2, <3>1, <3>2
  <2>6. QED
    BY <1>4, <2>1, <2>5
<1>8. QED
  BY <1>6, <1>7

-----------------------------------------------------------------------------

\* What the cache may have.
Entries == [path : {PathOf[node] : node \in Nodes}, object : Nodes]

\* What CacheSound says, of a list.
SoundList(list) ==
  /\ list \in Seq(Entries)
  /\ \A i \in DOMAIN list : PathOf[list[i].object] = list[i].path
  /\ \A i, j \in DOMAIN list : list[i].path = list[j].path => i = j
  /\ Len(list) <= CacheSize + 1

\* The paths of a list are those of an old one, and perhaps this one.
HasNoMore(new, old, path) ==
  \A i \in DOMAIN new : new[i].path = path \/ \E j \in DOMAIN old : new[i].path = old[j].path

(* Without its oldest entry a sound list is sound, and not over its size.  *)
LEMMA FrontSound ==
  ASSUME NEW list, SoundList(list), Len(list) > CacheSize
  PROVE  SoundList(Front(list)) /\ Len(Front(list)) <= CacheSize
         /\ \A i \in DOMAIN Front(list) : i \in DOMAIN list /\ Front(list)[i] = list[i]
<1>1. list \in Seq(Entries) /\ Len(list) \in Nat /\ CacheSize \in Nat /\ DOMAIN list = 1 .. Len(list)
  BY PathCacheAssumption DEF SoundList
<1> DEFINE k == Len(list) - 1
<1>2. k \in Nat /\ k <= CacheSize /\ k < Len(list)
  BY <1>1 DEF SoundList
<1>3. Front(list) = SubSeq(list, 1, k)
  BY DEF Front
<1>4. Front(list) \in Seq(Entries) /\ Len(Front(list)) = k /\ DOMAIN Front(list) = 1 .. k
      /\ \A i \in 1 .. k : Front(list)[i] = list[i] /\ i \in DOMAIN list
  <2> HIDE DEF Entries, k
  <2>1. SubSeq(list, 1, k) \in Seq(Entries) /\ Len(SubSeq(list, 1, k)) = k /\ DOMAIN SubSeq(list, 1, k) = 1 .. k
        /\ \A i \in 1 .. k : SubSeq(list, 1, k)[i] = list[i] /\ i \in DOMAIN list
    BY <1>1, <1>2
  <2>2. QED
    BY <1>3, <2>1
<1> HIDE DEF k, Entries
<1>5. QED
  BY <1>1, <1>2, <1>4 DEF SoundList

(* What do_insertcache does keeps the cache sound, if the object it is for *)
(* is of the path.                                                         *)
LEMMA InsertedSound ==
  ASSUME NEW list, SoundList(list), NEW node \in Nodes
  PROVE  /\ SoundList(Inserted(list, PathOf[node], node))
         /\ HasNoMore(Inserted(list, PathOf[node], node), list, PathOf[node])
<1> DEFINE path == PathOf[node]
           room == IF Len(list) > CacheSize THEN Front(list) ELSE list
           e == Entry(path, node)
           new == << e >> \o room
<1>1. CASE \E i \in DOMAIN list : list[i].path = path
  BY <1>1 DEF Inserted, HasNoMore
<1>2. CASE ~ \E i \in DOMAIN list : list[i].path = path
  <2>1. Inserted(list, path, node) = IF Valid(node) THEN new ELSE room
    BY <1>2 DEF Inserted
  <2>2. SoundList(room) /\ Len(room) <= CacheSize
        /\ \A i \in DOMAIN room : i \in DOMAIN list /\ room[i] = list[i]
    <3>1. CASE Len(list) > CacheSize
      BY <3>1, FrontSound
    <3>2. CASE ~(Len(list) > CacheSize)
      <4>1. room = list
        BY <3>2
      <4>2. Len(list) \in Nat /\ CacheSize \in Nat
        BY PathCacheAssumption DEF SoundList
      <4>3. QED
        BY <3>2, <4>1, <4>2
    <3>3. QED
      BY <3>1, <3>2
  <2>3. e \in Entries /\ e.path = path /\ e.object = node
    BY DEF Entries, Entry
  <2> HIDE DEF room, e
  <2>4. \A i \in DOMAIN room : room[i].path # path
    BY <1>2, <2>2
  <2>5. /\ room \in Seq(Entries) /\ Len(room) \in Nat /\ CacheSize \in Nat
        /\ new \in Seq(Entries) /\ Len(new) = Len(room) + 1 /\ DOMAIN new = 1 .. Len(room) + 1
        /\ DOMAIN room = 1 .. Len(room)
        /\ new[1] = e /\ \A i \in 2 .. Len(room) + 1 : new[i] = room[i - 1] /\ i - 1 \in 1 .. Len(room)
    <3>1. room \in Seq(Entries) /\ CacheSize \in Nat
      BY <2>2, PathCacheAssumption DEF SoundList
    <3> HIDE DEF Entries
    <3>2. QED
      BY <2>3, <3>1
  <2> HIDE DEF new, path, Entries
  <2>6. \A i \in DOMAIN new : i = 1 \/ i \in 2 .. Len(room) + 1
    BY <2>5
  <2>7. ASSUME NEW i \in DOMAIN new
        PROVE  \/ i = 1 /\ new[i] = e
               \/ \E j \in DOMAIN list : i - 1 = j /\ j \in DOMAIN room /\ new[i] = room[j] /\ new[i] = list[j]
    <3>1. CASE i = 1
      BY <2>5, <3>1
    <3>2. CASE i \in 2 .. Len(room) + 1
      <4>1. new[i] = room[i - 1] /\ i - 1 \in DOMAIN room
        BY <2>5, <3>2
      <4>2. QED
        BY <2>2, <4>1
    <3>3. QED
      BY <2>6, <3>1, <3>2
  <2>8. SoundList(new)
    <3>1. ASSUME NEW i \in DOMAIN new PROVE PathOf[new[i].object] = new[i].path
      <4>1. CASE new[i] = e
        BY <2>3, <4>1 DEF path
      <4>2. CASE \E j \in DOMAIN list : new[i] = list[j]
        BY <4>2 DEF SoundList
      <4>3. QED
        BY <2>7, <4>1, <4>2
    <3>2. ASSUME NEW i \in DOMAIN new, NEW j \in DOMAIN new, new[i].path = new[j].path PROVE i = j
      <4>1. CASE i = 1 /\ j = 1
        BY <4>1
      <4>2. CASE i = 1 /\ j \in 2 .. Len(room) + 1
        BY <2>3, <2>4, <2>5, <3>2, <4>2
      <4>3. CASE j = 1 /\ i \in 2 .. Len(room) + 1
        BY <2>3, <2>4, <2>5, <3>2, <4>3
      <4>4. CASE i \in 2 .. Len(room) + 1 /\ j \in 2 .. Len(room) + 1
        <5>1. room[i - 1].path = room[j - 1].path /\ i - 1 \in DOMAIN room /\ j - 1 \in DOMAIN room
          BY <2>5, <3>2, <4>4
        <5>2. i - 1 = j - 1
          BY <2>2, <5>1 DEF SoundList
        <5>3. QED
          BY <4>4, <5>2
      <4>5. QED
        BY <2>6, <4>1, <4>2, <4>3, <4>4
    <3>3. QED
      BY <2>2, <2>5, <3>1, <3>2 DEF SoundList
  <2>9. HasNoMore(new, list, path)
    BY <2>3, <2>7 DEF HasNoMore
  <2>10. HasNoMore(room, list, path)
    BY <2>2 DEF HasNoMore
  <2>11. QED
    BY <2>1, <2>2, <2>8, <2>9, <2>10 DEF path
<1>3. QED
  BY <1>1, <1>2

-----------------------------------------------------------------------------
(* The invariant.                                                          *)

(* CacheSound is what SoundList says of the cache.                         *)
LEMMA CacheIsSound == ASSUME CacheInv PROVE SoundList(cache)
  BY DEF CacheInv, CacheTypeOK, CacheSound, SoundList, Entries

(* And the other way round, after a step.                                  *)
LEMMA SoundIsCache == ASSUME SoundList(cache)' PROVE CacheSound' /\ (cache \in Seq(Entries))'
  BY DEF CacheSound, SoundList

(* What do_insertcache puts in the cache while the walk goes on is for     *)
(* another path than that of the operation.                                *)
LEMMA InsertKeepsOut ==
  ASSUME CacheInv, NEW node \in Nodes, cache' = Inserted(cache, PathOf[node], node)
  PROVE  /\ SoundList(cache)'
         /\ Cached(op.path) = {} /\ PathOf[node] # op.path /\ op' = op => Cached(op.path)' = {}
<1>1. SoundList(cache') /\ HasNoMore(cache', cache, PathOf[node])
  BY CacheIsSound, InsertedSound
<1>2. SoundList(cache)'
  BY <1>1 DEF SoundList
<1>3. ASSUME Cached(op.path) = {}, PathOf[node] # op.path, op' = op PROVE Cached(op.path)' = {}
  BY <1>1, <1>3 DEF Cached, HasNoMore
<1>4. QED
  BY <1>2, <1>3

(* Unless nothing is returned, what do_insertcache returns is of the path. *)
LEMMA KeptIsOfPath ==
  ASSUME CacheInv, NEW path, NEW node \in Nodes \cup {Nothing}, node = Nothing \/ PathOf[node] = path,
         Kept(path, node) # Nothing
  PROVE  Kept(path, node) \in Nodes /\ PathOf[Kept(path, node)] = path
<1>1. CASE Cached(path) # {}
  <2>1. PICK i \in Cached(path) : Kept(path, node) = cache[i].object
    BY <1>1 DEF Kept
  <2>2. i \in DOMAIN cache /\ cache[i].path = path /\ cache[i] \in Entries
    BY <2>1, CacheIsSound DEF Cached, SoundList
  <2>3. QED
    BY <2>1, <2>2, CacheIsSound DEF SoundList, Entries
<1>2. CASE Cached(path) = {}
  BY <1>2 DEF Kept
<1>3. QED
  BY <1>1, <1>2

(* At the beginning there is no operation and nothing in the cache.        *)
LEMMA CacheInitially == CacheInit => CacheInv
<1> SUFFICES ASSUME CacheInit PROVE CacheInv
  OBVIOUS
<1>1. CacheTypeOK
  <2>1. op \in [do : Operations, path : Asked \cup {<< >>}]
    BY DEF CacheInit, Operations
  <2>2. cache \in Seq(Entries)
    <3> HIDE DEF Entries
    <3>1. QED
      BY DEF CacheInit
  <2>3. QED
    BY <2>1, <2>2 DEF CacheInit, CacheTypeOK, Entries
<1>2. CacheSound
  BY PathCacheAssumption DEF CacheInit, CacheSound
<1>3. ExistInv /\ WalkInv /\ ListInv
  BY DEF CacheInit, ExistInv, WalkInv, ListInv
<1>4. QED
  BY <1>1, <1>2, <1>3 DEF CacheInv

(* The servers, and a device that comes or goes.                           *)
LEMMA ServersKeep ==
  ASSUME CacheInv,
         \/ \E d \in Devices : DeviceComesOrGoes(d)
         \/ \E o \in Objects : Appear(o)
         \/ \E left \in SUBSET exist : Disappear(left)
  PROVE  CacheInv'
<1>1. /\ UNCHANGED << held, cache, lookup, op, at, done, result, listed, failed, blank >> /\ steady' = FALSE
      /\ devices' \subseteq Devices /\ exist' \subseteq Objects /\ ExistInv'
  <2>1. CASE \E d \in Devices : DeviceComesOrGoes(d)
    BY <2>1 DEF DeviceComesOrGoes, CacheInv, CacheTypeOK, ExistInv, walk
  <2>2. CASE \E o \in Objects : Appear(o)
    BY <2>2 DEF Appear, CacheInv, CacheTypeOK, ExistInv, walk
  <2>3. CASE \E left \in SUBSET exist : Disappear(left)
    BY <2>3 DEF Disappear, CacheInv, CacheTypeOK, ExistInv, walk
  <2>4. QED
    BY <2>1, <2>2, <2>3
<1>2. CacheTypeOK'
  BY <1>1 DEF CacheInv, CacheTypeOK
<1>3. CacheSound'
  BY <1>1 DEF CacheInv, CacheSound
<1>4. WalkInv' /\ ListInv'
  BY <1>1 DEF CacheInv, WalkInv, ListInv, Cached
<1>5. QED
  BY <1>1, <1>2, <1>3, <1>4 DEF CacheInv

(* An operation begins; the root is listed; the unmount.                   *)
LEMMA BoundaryKeeps ==
  ASSUME CacheInv,
         \/ \E do \in Operations, path \in Asked : Begin(do, path)
         \/ ListDevices \/ Destroy \/ Destroyed
  PROVE  CacheInv'
<1>1. CASE \E do \in Operations, path \in Asked : Begin(do, path)
  <2>1. PICK do \in Operations, path \in Asked : Begin(do, path)
    BY <1>1
  <2>2. CacheTypeOK'
    BY <2>1 DEF Begin, CacheInv, CacheTypeOK, server
  <2>3. CacheSound' /\ ExistInv'
    BY <2>1 DEF Begin, CacheInv, CacheSound, ExistInv, server
  <2>4. WalkInv' /\ ListInv'
    BY <2>1 DEF Begin, WalkInv, ListInv
  <2>5. QED
    BY <2>2, <2>3, <2>4 DEF CacheInv
<1>2. CASE ListDevices
  <2>1. CacheTypeOK'
    BY <1>2 DEF ListDevices, CacheInv, CacheTypeOK, server, walk
  <2>2. CacheSound' /\ ExistInv'
    BY <1>2 DEF ListDevices, CacheInv, CacheSound, ExistInv, server
  <2>3. WalkInv' /\ ListInv'
    BY <1>2 DEF ListDevices, WalkInv, ListInv
  <2>4. QED
    BY <2>1, <2>2, <2>3 DEF CacheInv
<1>3. CASE Destroy
  <2>1. CacheTypeOK'
    BY <1>3 DEF Destroy, CacheInv, CacheTypeOK, server, walk
  <2>2. CacheSound' /\ ExistInv'
    BY <1>3 DEF Destroy, CacheInv, CacheSound, ExistInv, server
  <2>3. WalkInv' /\ ListInv'
    BY <1>3 DEF Destroy, WalkInv, ListInv
  <2>4. QED
    BY <2>1, <2>2, <2>3 DEF CacheInv
<1>4. CASE Destroyed
  <2>1. CacheTypeOK'
    <3>1. cache' \in Seq(Entries)
      <4> HIDE DEF Entries
      <4>1. QED
        BY <1>4 DEF Destroyed
    <3>2. QED
      BY <1>4, <3>1 DEF Destroyed, CacheInv, CacheTypeOK, server, walk, Entries
  <2>2. CacheSound' /\ ExistInv'
    BY <1>4, PathCacheAssumption DEF Destroyed, CacheInv, CacheSound, ExistInv, server
  <2>3. WalkInv' /\ ListInv'
    BY <1>4 DEF Destroyed, WalkInv, ListInv
  <2>4. QED
    BY <2>1, <2>2, <2>3 DEF CacheInv
<1>5. QED
  BY <1>1, <1>2, <1>3, <1>4

(* A call that does not return.                                            *)
LEMMA HangKeeps == ASSUME CacheInv, CallHangs PROVE CacheInv'
<1>1. UNCHANGED << server, held, cache, walk, steady, failed, blank >> /\ lookup' = "hung"
  BY DEF CallHangs
<1>2. CacheTypeOK' /\ CacheSound' /\ ExistInv'
  BY <1>1 DEF CacheInv, CacheTypeOK, CacheSound, ExistInv, server, walk
<1>3. WalkInv' /\ ListInv'
  BY <1>1 DEF WalkInv, ListInv
<1>4. QED
  BY <1>2, <1>3 DEF CacheInv

(* do_findpath, before the walk.                                           *)
LEMMA FindCachedKeeps == ASSUME CacheInv, FindCached PROVE CacheInv'
<1>1. /\ UNCHANGED << server, held, cache, op, at, done, listed, steady, failed, blank >> /\ lookup = "find"
      /\ \/ lookup' \in {"idle", "list"} /\ result' \in Nodes \cup {Nothing}
            /\ (lookup' = "list" => result' \in Nodes /\ PathOf[result'] = op.path)
         \/ lookup' = "root" /\ Cached(op.path) = {} /\ result' = result
  <2>1. CASE \E i \in DOMAIN op.path : op.path[i] \in Hidden
    BY <2>1 DEF FindCached, Answer
  <2>2. CASE (~ \E i \in DOMAIN op.path : op.path[i] \in Hidden) /\ Cached(op.path) # {}
    <3>1. /\ result' = Kept(op.path, Nothing) /\ Answer /\ lookup = "find"
          /\ UNCHANGED << server, held, cache, op, at, done, listed, steady, failed, blank >>
      BY <2>2 DEF FindCached
    <3>2. result' # Nothing => result' \in Nodes /\ PathOf[result'] = op.path
      BY <3>1, KeptIsOfPath
    <3>3. QED
      BY <3>1, <3>2 DEF Answer
  <2>3. CASE (~ \E i \in DOMAIN op.path : op.path[i] \in Hidden) /\ Cached(op.path) = {}
    BY <2>3 DEF FindCached
  <2>4. QED
    BY <2>1, <2>2, <2>3
<1>2. CacheTypeOK'
  BY <1>1 DEF CacheInv, CacheTypeOK, server
<1>3. CacheSound' /\ ExistInv'
  BY <1>1 DEF CacheInv, CacheSound, ExistInv, server
<1>4. WalkInv'
  BY <1>1 DEF CacheInv, WalkInv, Cached
<1>5. ListInv'
  BY <1>1 DEF ListInv
<1>6. QED
  BY <1>2, <1>3, <1>4, <1>5 DEF CacheInv

(* Two sequences are the same when they have the same elements.            *)
LEMMA SameElements ==
  ASSUME NEW S, NEW s \in Seq(S), NEW T, NEW t \in Seq(T), Len(s) = Len(t),
         \A i \in 1 .. Len(s) : s[i] = t[i]
  PROVE  s = t
  OBVIOUS

(* The first of a sequence, as a sequence. *)
LEMMA FirstOf == ASSUME NEW S, NEW s \in Seq(S), s # << >> PROVE SubSeq(s, 1, 1) = << s[1] >>
<1>1. Len(s) \in Nat /\ 1 <= Len(s) /\ 1 \in 1 .. Len(s) /\ s[1] \in S
  OBVIOUS
<1>2. SubSeq(s, 1, 1) \in Seq(S) /\ Len(SubSeq(s, 1, 1)) = 1 /\ SubSeq(s, 1, 1)[1] = s[1]
  BY <1>1
<1>3. << s[1] >> \in Seq(S) /\ Len(<< s[1] >>) = 1 /\ << s[1] >>[1] = s[1]
  BY <1>1
<1>4. \A i \in 1 .. 1 : SubSeq(s, 1, 1)[i] = << s[1] >>[i]
  BY <1>2, <1>3
<1>5. QED
  BY <1>2, <1>3, <1>4, SameElements

(* A path that is looked up is a sequence.                                 *)
LEMMA PathIsSeq ==
  ASSUME NEW path \in Asked
  PROVE  /\ path \in Seq(Range(path)) /\ Len(path) \in Nat /\ Len(path) >= 1
         /\ SubSeq(path, 1, 1) = << path[1] >>
<1>1. path # << >> /\ path \in Seq(Range(path))
  BY PathCacheAssumption
<1>2. Len(path) \in Nat /\ Len(path) >= 1
  BY <1>1
<1>3. SubSeq(path, 1, 1) = << path[1] >>
  BY <1>1, FirstOf
<1>4. QED
  BY <1>1, <1>2, <1>3

(* An operation with nothing to list is over; else what it lists is the    *)
(* object of its path.                                                     *)
LEMMA AnswerKeeps ==
  ASSUME CacheInv, lookup' = "idle" \/ (lookup' = "list" /\ result' # Nothing),
         result' = Nothing \/ (result' \in Nodes /\ PathOf[result'] = op'.path)
  PROVE  WalkInv' /\ ListInv' /\ lookup' \in {"idle", "list"} /\ result' \in Nodes \cup {Nothing}
  BY DEF WalkInv, ListInv

(* A call that failed ends the operation.                                  *)
LEMMA FailAnswers == ASSUME Fail PROVE result' = Nothing /\ lookup' = "idle"
  BY DEF Fail, Answer

(* do_findpath, the first component.                                       *)
LEMMA FindRootKeeps == ASSUME CacheInv, FindRoot PROVE CacheInv'
<1> DEFINE d == op.path[1]
<1>1. lookup = "root" /\ UNCHANGED << server, held, op, listed, steady, blank >>
      /\ op.path \in Asked /\ Cached(op.path) = {}
  BY DEF FindRoot, CacheInv, WalkInv
<1>0. failed' \in BOOLEAN
  <2>1. failed' = (d \in devices) \/ failed' = FALSE
    BY DEF FindRoot
  <2>2. (d \in devices) = TRUE \/ (d \in devices) = FALSE
    OBVIOUS
  <2> HIDE DEF d
  <2>3. failed' = TRUE \/ failed' = FALSE
    BY <2>1, <2>2
  <2>4. QED
    BY <2>3
<1>2. CASE Fail /\ UNCHANGED << cache, at, done >>
  <2>1. UNCHANGED << cache, at, done >> /\ lookup' = "idle" /\ result' = Nothing
    BY <1>2, FailAnswers
  <2>2. WalkInv' /\ ListInv'
    BY <2>1, AnswerKeeps
  <2>3. CacheTypeOK' /\ CacheSound' /\ ExistInv'
    BY <1>0, <1>1, <2>1 DEF CacheInv, CacheTypeOK, CacheSound, ExistInv, server
  <2>4. QED
    BY <2>2, <2>3 DEF CacheInv
<1>3. CASE ~(Fail /\ UNCHANGED << cache, at, done >>)
  <2>1. /\ at' = d /\ done' = 1 /\ cache' = Inserted(cache, << d >>, d) /\ d \in devices
        /\ IF Len(op.path) = 1 THEN result' = Kept(<< d >>, d) /\ Answer
           ELSE lookup' = "children" /\ UNCHANGED result
    BY <1>3 DEF FindRoot
  <2>2. d \in Devices /\ d \in Nodes /\ PathOf[d] = << d >> /\ Len(PathOf[d]) = 1
    BY <2>1, PathOfDevice DEF CacheInv, CacheTypeOK, Nodes
  <2>3. SoundList(cache)' /\ (PathOf[d] # op.path => Cached(op.path)' = {})
    BY <1>1, <2>1, <2>2, InsertKeepsOut
  <2>4. CacheSound' /\ (cache \in Seq(Entries))' /\ ExistInv'
    BY <1>1, <2>3, SoundIsCache DEF CacheInv, ExistInv, server
  <2>5. CASE Len(op.path) = 1
    <3>1. op.path = << d >>
      BY <1>1, <2>5, PathIsSeq
    <3>2. Kept(<< d >>, d) # Nothing => Kept(<< d >>, d) \in Nodes /\ PathOf[Kept(<< d >>, d)] = op.path
      BY <2>2, <3>1, KeptIsOfPath
    <3>3. WalkInv' /\ ListInv' /\ lookup' \in {"idle", "list"} /\ result' \in Nodes \cup {Nothing}
      BY <1>1, <2>1, <2>5, <3>2, AnswerKeeps DEF Answer
    <3>4. CacheTypeOK'
      BY <1>0, <1>1, <2>1, <2>2, <2>4, <3>3 DEF CacheInv, CacheTypeOK, server, Entries
    <3>5. QED
      BY <2>4, <3>3, <3>4 DEF CacheInv
  <2>6. CASE Len(op.path) # 1
    <3>1. lookup' = "children" /\ result' = result
      BY <2>1, <2>6
    <3>2. Cached(op.path)' = {}
      BY <2>2, <2>3, <2>6
    <3>3. /\ done' \in 1 .. Len(op.path) - 1 /\ at' \in Nodes
          /\ PathOf[at'] = SubSeq(op.path, 1, done')
      <4>1. Len(op.path) \in Nat /\ Len(op.path) >= 1 /\ SubSeq(op.path, 1, 1) = << d >>
        BY <1>1, PathIsSeq
      <4>2. 1 \in 1 .. Len(op.path) - 1
        <5>1. \A k \in Nat : k >= 1 /\ k # 1 => 1 \in 1 .. k - 1
          OBVIOUS
        <5>2. QED
          BY <2>6, <4>1, <5>1
      <4>3. QED
        BY <2>1, <2>2, <4>1, <4>2
    <3>4. CacheTypeOK'
      BY <1>0, <1>1, <2>1, <2>2, <2>4, <3>1 DEF CacheInv, CacheTypeOK, server, Entries
    <3>5. WalkInv'
      BY <1>1, <1>3, <2>1, <3>1, <3>2, <3>3 DEF WalkInv, server
    <3>6. ListInv'
      BY <3>1 DEF ListInv
    <3>7. QED
      BY <2>4, <3>4, <3>5, <3>6 DEF CacheInv
  <2>7. QED
    BY <2>5, <2>6
<1>4. QED
  BY <1>2, <1>3

(* do_findpath, the child of the next title.                               *)
LEMMA FindChildKeeps == ASSUME CacheInv, FindChild PROVE CacheInv'
<1>0. PICK got \in Browsed(at) :
        /\ failed' = (got # Children(at))
        /\ \/ \E o \in got : Title[o] = op.path[done + 1] /\ at' = o /\ lookup' = "metadata" /\ UNCHANGED result
           \/ Fail /\ UNCHANGED at
  BY DEF FindChild
<1>1. /\ lookup = "children" /\ UNCHANGED << server, held, cache, op, done, listed, steady, blank >>
      /\ failed' \in BOOLEAN
      /\ op.path \in Asked /\ Cached(op.path) = {} /\ done \in 1 .. Len(op.path) - 1
      /\ at \in Nodes /\ PathOf[at] = SubSeq(op.path, 1, done)
      /\ steady => op.path[1] \in devices
  BY <1>0 DEF FindChild, CacheInv, WalkInv
<1>2. CacheSound' /\ ExistInv'
  BY <1>1 DEF CacheInv, CacheSound, ExistInv, server
<1>3. CASE \E o \in got : Title[o] = op.path[done + 1] /\ at' = o /\ lookup' = "metadata" /\ UNCHANGED result
  <2>1. PICK o \in got : Title[o] = op.path[done + 1] /\ at' = o /\ lookup' = "metadata" /\ UNCHANGED result
    BY <1>3
  <2>2. o \in exist /\ o \in Objects /\ Parent[o] = at /\ Title[o] = op.path[done + 1]
    BY <1>0, <2>1 DEF Browsed, Children, CacheInv, CacheTypeOK
  <2>3. PathOf[o] = SubSeq(op.path, 1, done + 1)
    <3>1. op.path \in Seq(Range(op.path)) /\ Len(op.path) \in Nat /\ done \in Nat /\ done + 1 \in 1 .. Len(op.path)
      BY <1>1, PathIsSeq
    <3>2. PathOf[o] = Append(PathOf[at], Title[o])
      BY <2>2, PathCacheAssumption
    <3>3. Append(SubSeq(op.path, 1, done), op.path[done + 1]) = SubSeq(op.path, 1, done + 1)
      BY <3>1
    <3>4. QED
      BY <1>1, <2>2, <3>2, <3>3
  <2>4. CacheTypeOK'
    BY <1>1, <2>1, <2>2 DEF CacheInv, CacheTypeOK, server, Nodes
  <2>5. Cached(op.path)' = {}
    BY <1>1 DEF Cached
  <2>6. WalkInv'
    BY <1>1, <2>1, <2>2, <2>3, <2>5 DEF WalkInv, server
  <2>7. ListInv'
    BY <2>1 DEF ListInv
  <2>8. QED
    BY <1>2, <2>4, <2>6, <2>7 DEF CacheInv
<1>4. CASE Fail /\ UNCHANGED at
  <2>1. lookup' = "idle" /\ result' = Nothing
    BY <1>4, FailAnswers
  <2>2. WalkInv' /\ ListInv'
    BY <2>1, AnswerKeeps
  <2>3. CacheTypeOK'
    BY <1>1, <1>4, <2>1 DEF CacheInv, CacheTypeOK, server
  <2>4. QED
    BY <1>2, <2>2, <2>3 DEF CacheInv
<1>5. QED
  BY <1>0, <1>3, <1>4

(* do_findpath, the metadata of this child.                                *)
LEMMA FindMetadataKeeps == ASSUME CacheInv, FindMetadata PROVE CacheInv'
<1>1. /\ lookup = "metadata" /\ UNCHANGED << server, held, op, at, listed, steady, blank >>
      /\ failed' \in BOOLEAN
      /\ op.path \in Asked /\ Cached(op.path) = {} /\ done \in 1 .. Len(op.path) - 1
      /\ at \in Objects /\ at \in Nodes /\ PathOf[at] = SubSeq(op.path, 1, done + 1)
      /\ steady => op.path[1] \in devices /\ at \in devices \cup exist
  BY DEF FindMetadata, CacheInv, WalkInv, Nodes
<1>2. CASE Fail /\ UNCHANGED << cache, done >>
  <2>1. UNCHANGED << cache, done >> /\ lookup' = "idle" /\ result' = Nothing
    BY <1>2, FailAnswers
  <2>2. WalkInv' /\ ListInv'
    BY <2>1, AnswerKeeps
  <2>3. CacheTypeOK' /\ CacheSound' /\ ExistInv'
    BY <1>1, <2>1 DEF CacheInv, CacheTypeOK, CacheSound, ExistInv, server
  <2>4. QED
    BY <2>2, <2>3 DEF CacheInv
<1>3. CASE ~(Fail /\ UNCHANGED << cache, done >>)
  <2> DEFINE path == SubSeq(op.path, 1, done')
  <2>1. /\ done' = done + 1
        /\ cache' = Inserted(cache, path, at)
        /\ IF done' = Len(op.path) THEN result' = Kept(path, at) /\ Answer
           ELSE lookup' = "children" /\ UNCHANGED result
    BY <1>3 DEF FindMetadata
  <2>2. PathOf[at] = path /\ done' \in Nat
    BY <1>1, <2>1
  <2>3. op.path \in Seq(Range(op.path)) /\ Len(op.path) \in Nat /\ done' \in 1 .. Len(op.path)
        /\ Len(path) = done'
    <3>1. op.path \in Seq(Range(op.path)) /\ Len(op.path) \in Nat
      BY <1>1, PathIsSeq
    <3>2. \A k \in 1 .. Len(op.path) : Len(SubSeq(op.path, 1, k)) = k
      BY <3>1
    <3>3. \A k \in 1 .. Len(op.path) - 1 : k + 1 \in 1 .. Len(op.path)
      BY <3>1
    <3>4. done' \in 1 .. Len(op.path)
      BY <1>1, <2>1, <3>3
    <3>5. QED
      BY <3>1, <3>2, <3>4
  <2> HIDE DEF path
  <2>4. SoundList(cache)' /\ (path # op.path => Cached(op.path)' = {})
    BY <1>1, <2>1, <2>2, InsertKeepsOut
  <2>5. CacheSound' /\ (cache \in Seq(Entries))' /\ ExistInv'
    BY <1>1, <2>4, SoundIsCache DEF CacheInv, ExistInv, server
  <2>6. CASE done' = Len(op.path)
    <3>1. op.path = path
      <4>1. SubSeq(op.path, 1, Len(op.path)) = op.path
        BY <2>3
      <4>2. QED
        BY <2>6, <4>1 DEF path
    <3>2. Kept(path, at) # Nothing => Kept(path, at) \in Nodes /\ PathOf[Kept(path, at)] = op.path
      BY <1>1, <2>2, <3>1, KeptIsOfPath
    <3>3. WalkInv' /\ ListInv' /\ lookup' \in {"idle", "list"} /\ result' \in Nodes \cup {Nothing}
      BY <1>1, <2>1, <2>6, <3>2, AnswerKeeps DEF Answer
    <3>4. CacheTypeOK'
      BY <1>1, <2>2, <2>5, <3>3 DEF CacheInv, CacheTypeOK, server, Entries
    <3>5. QED
      BY <2>5, <3>3, <3>4 DEF CacheInv
  <2>7. CASE done' # Len(op.path)
    <3>1. lookup' = "children" /\ result' = result
      BY <2>1, <2>7
    <3>2. Cached(op.path)' = {}
      BY <2>3, <2>4, <2>7
    <3>3. done' \in 1 .. Len(op.path) - 1 /\ PathOf[at'] = SubSeq(op.path, 1, done')
      BY <1>1, <2>2, <2>3, <2>7 DEF path
    <3>4. CacheTypeOK'
      BY <1>1, <2>2, <2>5, <3>1 DEF CacheInv, CacheTypeOK, server, Entries
    <3>5. WalkInv'
      BY <1>1, <3>1, <3>2, <3>3 DEF WalkInv, server
    <3>6. ListInv'
      BY <3>1 DEF ListInv
    <3>7. QED
      BY <2>5, <3>4, <3>5, <3>6 DEF CacheInv
  <2>8. QED
    BY <2>6, <2>7
<1>4. QED
  BY <1>2, <1>3

(* op_readdir.                                                             *)
LEMMA ListKeeps == ASSUME CacheInv, List \/ InsertListed PROVE CacheInv'
<1>1. CASE List
  <2>1. /\ lookup = "list" /\ UNCHANGED << server, held, cache, op, at, done, result, steady, blank >>
        /\ lookup' \in {"idle", "insert"} /\ result \in Nodes /\ PathOf[result] = op.path
        /\ failed' \in BOOLEAN
    BY <1>1 DEF List, CacheInv, ListInv
  <2>0. \A o \in listed' : o \in exist /\ Parent[o] = result
    BY <1>1 DEF List, Browsed, Children
  <2>2. CacheTypeOK'
    BY <2>0, <2>1 DEF CacheInv, CacheTypeOK, server
  <2>3. CacheSound' /\ ExistInv'
    BY <2>1 DEF CacheInv, CacheSound, ExistInv, server
  <2>4. WalkInv' /\ ListInv'
    BY <2>0, <2>1 DEF WalkInv, ListInv
  <2>5. QED
    BY <2>2, <2>3, <2>4 DEF CacheInv
<1>2. CASE InsertListed
  <2>1. PICK o \in listed : cache' = Inserted(cache, Append(op.path, Title[o]), o) /\ listed' = listed \ {o}
    BY <1>2 DEF InsertListed
  <2>2. /\ lookup = "insert" /\ UNCHANGED << server, held, op, at, done, result, steady, failed, blank >>
        /\ lookup' \in {"idle", "insert"} /\ result \in Nodes /\ PathOf[result] = op.path
        /\ \A c \in listed : c \in Objects /\ Parent[c] = result
    BY <1>2 DEF InsertListed, CacheInv, ListInv, CacheTypeOK
  <2>3. o \in Nodes /\ PathOf[o] = Append(op.path, Title[o])
    BY <2>2, PathCacheAssumption DEF Nodes
  <2>4. CacheSound' /\ (cache \in Seq(Entries))'
    BY <2>1, <2>3, InsertKeepsOut, SoundIsCache
  <2>5. CacheTypeOK'
    BY <2>1, <2>2, <2>4 DEF CacheInv, CacheTypeOK, server, Entries
  <2>6. ExistInv'
    BY <2>2 DEF CacheInv, ExistInv, server
  <2>7. WalkInv' /\ ListInv'
    BY <2>1, <2>2 DEF WalkInv, ListInv
  <2>8. QED
    BY <2>4, <2>5, <2>6, <2>7 DEF CacheInv
<1>3. QED
  BY <1>1, <1>2

(* The invariant of PathCache is inductive.                                *)
THEOREM CacheInvariance == CacheSpec => []CacheInv
<1>1. CacheInv /\ [CacheNext]_cacheVars => CacheInv'
  <2> SUFFICES ASSUME CacheInv, [CacheNext]_cacheVars PROVE CacheInv'
    OBVIOUS
  <2>1. CASE CacheNext
    BY <2>1, ServersKeep, BoundaryKeeps, HangKeeps, FindCachedKeeps, FindRootKeeps, FindChildKeeps, FindMetadataKeeps,
       ListKeeps DEF CacheNext, Steps
  <2>2. CASE UNCHANGED cacheVars
    <3>1. CacheTypeOK' /\ CacheSound' /\ ExistInv'
      BY <2>2 DEF CacheInv, CacheTypeOK, CacheSound, ExistInv, cacheVars, server, walk
    <3>2. WalkInv' /\ ListInv'
      BY <2>2 DEF CacheInv, WalkInv, ListInv, Cached, cacheVars, server, walk
    <3>3. QED
      BY <3>1, <3>2 DEF CacheInv
  <2>3. QED
    BY <2>1, <2>2
<1>2. QED
  BY CacheInitially, <1>1, PTL DEF CacheSpec

(* The cache leads no path to an object of another one, has no path twice  *)
(* and at most one entry over its size.                                    *)
THEOREM CacheSoundThm == CacheSpec => []CacheSound
<1>1. CacheInv => CacheSound
  BY DEF CacheInv
<1>2. QED
  BY <1>1, CacheInvariance, PTL

-----------------------------------------------------------------------------

(* When the path of a walk is one of an object that is there, so is the    *)
(* child the walk is to find next; with no two objects of a path, it is    *)
(* the child of the one it has come to.                                    *)
LEMMA NextIsThere ==
  ASSUME CacheInv, lookup = "children", steady, ~Ambiguous,
         NEW node \in devices \cup exist, PathOf[node] = op.path
  PROVE  \E m \in Children(at) : Title[m] = op.path[done + 1]
<1>1. /\ exist \subseteq Objects /\ ExistInv /\ devices \subseteq Devices
      /\ op.path \in Asked /\ done \in 1 .. Len(op.path) - 1
      /\ at \in devices \cup exist /\ PathOf[at] = SubSeq(op.path, 1, done) /\ op.path[1] \in devices
  BY DEF CacheInv, CacheTypeOK, WalkInv
<1>2. op.path \in Seq(Range(op.path)) /\ Len(op.path) \in Nat
  BY <1>1, PathIsSeq
<1>3. node \in exist
  BY <1>1, <1>2, PathOfDevice
<1> DEFINE k == done + 1
<1>4. k \in 2 .. Len(op.path) /\ done \in Nat /\ done = k - 1 /\ done \in 1 .. Len(op.path)
  BY <1>1, <1>2
<1>5. PICK m \in exist : Len(PathOf[m]) = k /\ \A i \in 1 .. k : PathOf[m][i] = op.path[i]
  <2> HIDE DEF k
  <2>1. k \in 2 .. Len(PathOf[node])
    BY <1>4
  <2>2. \E m \in exist : Len(PathOf[m]) = k /\ \A i \in 1 .. k : PathOf[m][i] = PathOf[node][i]
    BY <1>1, <1>3, <2>1, PrefixIsThere
  <2>3. QED
    BY <2>2
<1> DEFINE p == Parent[m]
<1> HIDE DEF k
<1>6. /\ m \in Objects /\ p \in exist \cup Devices
      /\ PathOf[p] \in Seq(Names) /\ Len(PathOf[p]) \in Nat \ {0} /\ k = Len(PathOf[p]) + 1
      /\ PathOf[m][k] = Title[m]
      /\ \A i \in 1 .. k - 1 : PathOf[p][i] = PathOf[m][i]
  <2>1. m \in Objects /\ p \in exist \cup Devices
    BY <1>1, <1>5 DEF ExistInv
  <2>2. QED
    BY <1>5, <2>1, PathOfChild
<1> HIDE DEF p
<1>7. /\ Title[m] = op.path[done + 1] /\ Len(PathOf[p]) = done
      /\ \A i \in 1 .. done : PathOf[p][i] = op.path[i]
  BY <1>4, <1>5, <1>6 DEF k
<1>8. PathOf[p] = PathOf[at]
  <2>1. /\ SubSeq(op.path, 1, done) \in Seq(Range(op.path)) /\ Len(SubSeq(op.path, 1, done)) = done
        /\ \A i \in 1 .. done : SubSeq(op.path, 1, done)[i] = op.path[i]
    BY <1>2, <1>4
  <2>2. PathOf[p] = SubSeq(op.path, 1, done)
    BY <1>6, <1>7, <2>1, SameElements
  <2>3. QED
    BY <1>1, <2>2
<1>9. p = at
  <2>1. CASE p \in Devices
    <3>1. at \in Devices
      <4>1. ASSUME at \in exist PROVE FALSE
        <5>1. at \in Objects /\ Len(PathOf[at]) = 1
          BY <1>1, <1>8, <2>1, <4>1, PathOfDevice
        <5>2. Len(PathOf[at]) >= 2
          BY <5>1, PathOfChild
        <5>3. QED
          BY <5>1, <5>2
      <4>2. QED
        BY <1>1, <4>1
    <3>2. PathOf[p][1] = p /\ PathOf[at][1] = at
      BY <2>1, <3>1, PathOfDevice
    <3>3. QED
      BY <1>8, <3>2
  <2>2. CASE p \in exist
    <3>1. at \in exist
      <4>1. ASSUME at \in Devices PROVE FALSE
        <5>1. Len(PathOf[p]) = 1 /\ p \in Objects
          BY <1>1, <1>8, <2>2, <4>1, PathOfDevice
        <5>2. Len(PathOf[p]) >= 2
          BY <5>1, PathOfChild
        <5>3. QED
          BY <5>1, <5>2
      <4>2. QED
        BY <1>1, <4>1
    <3>2. \A a, b \in exist : PathOf[a] = PathOf[b] => a = b
      BY Zenon DEF Ambiguous
    <3>3. QED
      BY <1>8, <2>2, <3>1, <3>2, Zenon
  <2>3. QED
    BY <1>6, <2>1, <2>2
<1>10. Head(PathOf[at]) \in devices
  <2>1. Head(PathOf[p]) = PathOf[p][1] /\ 1 \in 1 .. done
    BY <1>4, <1>6
  <2>2. QED
    BY <1>1, <1>7, <1>8, <2>1
<1>11. m \in Children(at)
  BY <1>5, <1>9, <1>10 DEF Children, p
<1>12. QED
  BY <1>7, <1>11

(* The walk ends at the device: there is no such device, or it is the      *)
(* device that is looked for.                                              *)
LEMMA RootExact ==
  ASSUME CacheInv, FindRoot, lookup' # "children"
  PROVE  {result'} = Due \/ (failed' /\ result' = Nothing)
<1> DEFINE d == op.path[1]
<1>1. /\ lookup = "root" /\ op.path \in Asked /\ Cached(op.path) = {}
      /\ devices \subseteq Devices /\ exist \subseteq Objects
  BY DEF FindRoot, CacheInv, WalkInv, CacheTypeOK
<1>2. CASE d \notin devices
  <2>1. result' = Nothing
    BY <1>2, FailAnswers DEF FindRoot
  <2>2. There = {}
    BY <1>2 DEF There
  <2>3. QED
    BY <2>1, <2>2 DEF Due
<1>0. CASE d \in devices /\ failed'
  BY <1>0, FailAnswers DEF FindRoot
<1>3. CASE d \in devices /\ ~failed'
  <2>1. Len(op.path) = 1 /\ result' = Kept(<< d >>, d)
    BY <1>3 DEF FindRoot
  <2>2. op.path = << d >>
    BY <1>1, <2>1, PathIsSeq
  <2>3. Valid(d) /\ result' = d
    BY <1>1, <1>3, <2>1, <2>2 DEF Kept, Valid
  <2>4. There = {d}
    <3>1. d \in There
      BY <1>1, <1>3, <2>2, PathOfDevice DEF There
    <3>2. ASSUME NEW node \in There PROVE node = d
      <4>1. node \in devices \cup exist /\ PathOf[node] = << d >>
        BY <2>2 DEF There
      <4>2. ASSUME node \in exist PROVE FALSE
        <5>1. node \in Objects /\ Len(PathOf[node]) = 1
          BY <1>1, <2>1, <2>2, <4>1, <4>2
        <5>2. Len(PathOf[node]) >= 2
          BY <5>1, PathOfChild
        <5>3. QED
          BY <5>1, <5>2
      <4>3. << node >> = << d >>
        BY <1>1, <4>1, <4>2, PathOfDevice
      <4>4. QED
        BY <4>3
    <3>3. QED
      BY <3>1, <3>2
  <2>5. QED
    BY <2>3, <2>4 DEF Due
<1>4. QED
  BY <1>0, <1>2, <1>3

(* It ends without a child of the title: there is nothing of the path, or  *)
(* the answer was not whole.                                               *)
LEMMA ChildExact ==
  ASSUME CacheInv, FindChild, lookup' # "metadata", steady, ~Ambiguous
  PROVE  {result'} = Due \/ (failed' /\ result' = Nothing)
<1>1. PICK got \in Browsed(at) :
        /\ failed' = (got # Children(at))
        /\ {o \in got : Title[o] = op.path[done + 1]} = {}
        /\ lookup = "children" /\ result' = Nothing
  BY FailAnswers DEF FindChild
<1>2. CASE ~failed'
  <2>1. \A m \in Children(at) : Title[m] # op.path[done + 1]
    BY <1>1, <1>2
  <2>2. There = {}
    BY <1>1, <2>1, NextIsThere DEF There
  <2>3. QED
    BY <1>1, <2>2 DEF Due
<1>3. QED
  BY <1>1, <1>2

(* It ends at the last component: there is nothing else of the path.       *)
LEMMA MetadataExact ==
  ASSUME CacheInv, FindMetadata, lookup' # "children", steady, ~Ambiguous
  PROVE  {result'} = Due \/ (failed' /\ result' = Nothing)
<1>1. /\ lookup = "metadata" /\ op.path \in Asked /\ Cached(op.path) = {} /\ done \in 1 .. Len(op.path) - 1
      /\ at \in Objects /\ PathOf[at] = SubSeq(op.path, 1, done + 1)
      /\ devices \subseteq Devices /\ exist \subseteq Objects
      /\ op.path[1] \in devices /\ at \in devices \cup exist
  BY DEF FindMetadata, CacheInv, WalkInv, CacheTypeOK
<1>2. op.path \in Seq(Range(op.path)) /\ Len(op.path) \in Nat
  BY <1>1, PathIsSeq
<1>3. at \in exist /\ Head(PathOf[at]) \in devices
  <2>1. at \in exist
    BY <1>1, PathCacheAssumption
  <2>2. done + 1 \in 1 .. Len(op.path) /\ 1 \in 1 .. done + 1
    BY <1>1, <1>2
  <2>3. Head(SubSeq(op.path, 1, done + 1)) = op.path[1]
    BY <1>2, <2>2
  <2>4. QED
    BY <1>1, <2>1, <2>3
<1>0. CASE failed'
  BY <1>0, <1>3, FailAnswers DEF FindMetadata
<1> SUFFICES ASSUME ~failed' PROVE {result'} = Due
  BY <1>0
<1>4. /\ done' = done + 1 /\ done' = Len(op.path) /\ result' = Kept(SubSeq(op.path, 1, done'), at)
  BY <1>3 DEF FindMetadata
<1>5. SubSeq(op.path, 1, Len(op.path)) = op.path
  BY <1>2
<1>6. PathOf[at] = op.path /\ result' = IF Valid(at) THEN at ELSE Nothing
  BY <1>1, <1>4, <1>5 DEF Kept
<1>7. There = {at}
  <2>1. at \in There
    BY <1>1, <1>6 DEF There
  <2>2. ASSUME NEW node \in There PROVE node = at
    <3>1. node \in devices \cup exist /\ PathOf[node] = PathOf[at]
      BY <1>6 DEF There
    <3>2. ASSUME node \in devices PROVE FALSE
      <4>1. Len(PathOf[at]) = 1
        BY <1>1, <3>1, <3>2, PathOfDevice
      <4>2. Len(PathOf[at]) >= 2
        BY <1>1, PathOfChild
      <4>3. QED
        BY <4>1, <4>2
    <3>3. QED
      BY <1>3, <3>1, <3>2 DEF Ambiguous
  <2>3. QED
    BY <2>1, <2>2
<1>8. QED
  BY <1>6, <1>7 DEF Due

(* A walk during which nothing changes finds the object of the path if it  *)
(* is valid, and nothing if there is none, or if its last call failed.     *)
THEOREM ExactIfUnchangedThm == CacheSpec => ExactIfUnchanged
<1> DEFINE A == /\ lookup \in {"root", "metadata", "children"} /\ lookup' \in {"idle", "list"}
                /\ steady /\ ~Ambiguous
                => {result'} = Due \/ (failed' /\ result' = Nothing)
<1>1. ASSUME CacheInv, [CacheNext]_cacheVars PROVE [A]_cacheVars
  <2> SUFFICES ASSUME lookup \in {"root", "metadata", "children"}, lookup' \in {"idle", "list"},
                      steady, ~Ambiguous
               PROVE  {result'} = Due \/ (failed' /\ result' = Nothing)
    OBVIOUS
  <2>1. lookup' # lookup
    OBVIOUS
  <2>2. FindRoot \/ FindChild \/ FindMetadata
    BY <1>1, <2>1 DEF CacheNext, Steps, DeviceComesOrGoes, Appear, Disappear, Begin, ListDevices, FindCached,
       List, InsertListed, CallHangs, Destroy, Destroyed, cacheVars
  <2>3. QED
    BY <2>2, RootExact, ChildExact, MetadataExact, <1>1
<1>2. QED
  BY CacheInvariance, <1>1, PTL DEF CacheSpec, ExactIfUnchanged
=============================================================================
