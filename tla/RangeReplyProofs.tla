-------------------------- MODULE RangeReplyProofs --------------------------
(***************************************************************************)
(* Proofs about RangeReply, for every width of its integers, every size of *)
(* the file and every request.                                             *)
(***************************************************************************)
EXTENDS RangeReply, TLAPS

(* Arithmetic of the widths: what fits is kept. *)
LEMMA ModSmall == ASSUME NEW m \in Nat, NEW x \in Nat, x < m PROVE x % m = x
  OBVIOUS

(* What is kept of any integer is less than the modulus. *)
LEMMA ModBounds == ASSUME NEW m \in Nat, m > 0, NEW x \in Int PROVE x % m \in Nat /\ x % m < m
  OBVIOUS

(* A natural number does not grow. *)
LEMMA ModLess == ASSUME NEW m \in Nat, m > 0, NEW x \in Nat PROVE x % m <= x
  OBVIOUS

(* An unsigned long long keeps what fits it. *)
LEMMA LongFits == ASSUME NEW x \in Nat, x < LongMod PROVE AsLong(x) = x
  BY RangeAssumption, ModSmall DEF AsLong

(* An unsigned long long is below its modulus, whatever is assigned. *)
LEMMA LongBounds == ASSUME NEW x \in Int PROVE AsLong(x) \in Nat /\ AsLong(x) < LongMod
<1>1. LongMod \in Nat /\ LongMod > 0
  BY RangeAssumption
<1> QED
  BY <1>1, ModBounds DEF AsLong

(* Taken as an int, a natural number does not grow, and is kept if it fits. *)
LEMMA IntBounds ==
  ASSUME NEW x \in Nat
  PROVE  /\ AsInt(x) \in Int /\ AsInt(x) <= x /\ AsInt(x) <= IntMax
         /\ x <= IntMax => AsInt(x) = x
<1> DEFINE m == 2 * IntMax + 2
           r == x % m
<1>1. m \in Nat /\ m > 0 /\ IntMax \in Nat /\ IntMax < m
  BY RangeAssumption
<1>2. r \in Nat /\ r < m /\ r <= x
  BY <1>1, ModBounds, ModLess
<1>3. x <= IntMax => r = x
  BY <1>1, ModSmall
<1>4. AsInt(x) = IF r <= IntMax THEN r ELSE r - m
  BY DEF AsInt
<1> HIDE DEF r, m
<1> QED
  BY <1>1, <1>2, <1>3, <1>4

(* What is sent of a second sequence follows what was sent of the first. *)
LEMMA Concatenation ==
  ASSUME NEW s \in Seq(Int), NEW t \in Seq(Int)
  PROVE  /\ s \o t \in Seq(Int) /\ Len(s \o t) = Len(s) + Len(t)
         /\ \A i \in 1 .. Len(s) : (s \o t)[i] = s[i]
         /\ \A i \in 1 .. Len(t) : (s \o t)[Len(s) + i] = t[i]
  OBVIOUS

-----------------------------------------------------------------------------
(* The initial states satisfy the invariant. *)
LEMMA InitInv == Init => IInv
<1> SUFFICES ASSUME Init PROVE IInv
  OBVIOUS
<1>1. TypeOK
  <2>1. req.method \in {"GET", "HEAD"}
    BY RangeAssumption DEF Init
  <2>2. 0 < LongMod /\ 0 <= IntMax /\ << >> \in Seq(Int)
    BY RangeAssumption
  <2> QED
    BY <2>1, <2>2 DEF Init, TypeOK
<1>2. pc = "headers" /\ method = req.method /\ readlen = 0 /\ body = << >>
  BY DEF Init
<1>3. RangeParsed /\ RangeAsAsked /\ RangeInFile /\ PromiseKept
  BY <1>2 DEF RangeParsed, RangeAsAsked, RangeInFile, PromiseKept, Known
<1>4. BodySent
  <2>1. Len(body) = readlen /\ \A i \in 1 .. readlen : FALSE
    BY <1>2
  <2> QED
    BY <1>2, <2>1 DEF BodySent, Known
<1> QED
  BY <1>1, <1>3, <1>4 DEF IInv

-----------------------------------------------------------------------------
(* Opening the file computes the range that the request asked for. *)
LEMMA OpenRange ==
  ASSUME IInv, Open
  PROVE  /\ stop' \in Nat /\ stop' < LongMod /\ length' \in Nat /\ length' < LongMod
         /\ RangeAsAsked' /\ RangeInFile'
<1> DEFINE last == AsLong(size - 1)
           end == IF stop = 0 /\ req.ranged THEN last ELSE stop
           s == stop'
           l == length'
           parsed == req.ranged /\ ~(req.bounded /\ req.stop < req.start)
<1>1. /\ size \in Nat /\ size < LongMod /\ LongMod \in Nat
      /\ start \in Nat /\ stop \in Nat /\ stop < LongMod /\ start < LongMod
  BY RangeAssumption DEF IInv, TypeOK
<1>2. req.start \in Nat /\ req.stop \in Nat /\ req.ranged \in BOOLEAN /\ req.bounded \in BOOLEAN
  BY RangeAssumption DEF IInv, TypeOK
<1>3. last \in Nat /\ last < LongMod
  BY <1>1, LongBounds
<1>4. size > 0 => last = size - 1
  BY <1>1, LongFits
<1>5. UNCHANGED << req, size, start >> /\ pc' = "send"
  BY DEF Open
<1>6. s = IF end < last THEN end ELSE last
  BY DEF Open, Lesser
<1>7. l = IF start = 0 /\ s = 0 THEN size ELSE AsLong(s - start + 1)
  BY DEF Open
<1>8. IF parsed THEN start = req.start /\ stop = (IF req.bounded THEN req.stop ELSE 0)
      ELSE start = 0 /\ stop = 0
  BY DEF IInv, RangeParsed, Open
<1>9. (stop = 0 /\ req.ranged => end = last) /\ (stop # 0 \/ ~req.ranged => end = stop)
  OBVIOUS
<1>10. /\ ~req.ranged => start = 0 /\ stop = 0
       /\ stop # 0 => start <= stop
  BY <1>1, <1>2, <1>8
<1>11. end \in Nat /\ end < LongMod
  BY <1>1, <1>3, <1>9
<1> HIDE DEF last, end, s, l, parsed
<1>12. s \in Nat /\ s < LongMod /\ s <= last /\ s <= end
  BY <1>3, <1>6, <1>11
<1>13. l \in Nat /\ l < LongMod
  <2>1. s - start + 1 \in Int
    BY <1>1, <1>12
  <2> QED
    BY <2>1, <1>1, <1>7, LongBounds
<1>14. ASSUME size > 0, start <= size, ~(start = 0 /\ s = 0)
       PROVE  l = s - start + 1
  <2>1. start <= s + 1
    <3>1. CASE end = last
      BY <3>1, <1>1, <1>3, <1>4, <1>6, <1>14
    <3>2. CASE end = stop /\ stop = 0 /\ ~req.ranged
      BY <3>2, <1>1, <1>10, <1>12
    <3>3. CASE end = stop /\ stop # 0
      BY <3>3, <1>1, <1>3, <1>4, <1>6, <1>10, <1>14
    <3> QED
      BY <3>1, <3>2, <3>3, <1>9
  <2>2. s - start + 1 \in Nat /\ s - start + 1 < LongMod
    BY <2>1, <1>1, <1>4, <1>12, <1>14
  <2> QED
    BY <2>2, <1>7, <1>14, LongFits
<1>15. ASSUME size = 0, start <= size, ~req.ranged PROVE start = 0 /\ s = 0
  BY <1>1, <1>3, <1>6, <1>9, <1>10, <1>12, <1>15
<1>16. RangeInFile'
  <2> SUFFICES ASSUME start <= size, size > 0 \/ ~req.ranged
               PROVE  start + l <= size
    BY <1>1, <1>5 DEF RangeInFile, Wrapped, Known, l
  <2>1. CASE start = 0 /\ s = 0
    BY <2>1, <1>1, <1>7
  <2>2. CASE ~(start = 0 /\ s = 0)
    <3>1. size > 0
      BY <2>2, <1>1, <1>15
    <3> QED
      BY <3>1, <2>2, <1>1, <1>4, <1>12, <1>14
  <2> QED
    BY <2>1, <2>2
<1>17. RangeAsAsked'
  <2> SUFFICES ASSUME Satisfiable, ~OneByte
               PROVE  l = Last - First + 1 /\ start = First
    BY <1>5 DEF RangeAsAsked, Satisfiable, OneByte, Last, First, l
  <2>1. First \in Nat /\ First <= Last /\ Last < size /\ Last \in Nat
    BY <1>1, <1>2 DEF Satisfiable, First, Last
  <2>2. start = First
    BY <1>2, <1>8 DEF Satisfiable, First, parsed
  <2>3. size > 0 /\ start <= size /\ last = size - 1
    BY <2>1, <2>2, <1>1, <1>4
  <2>4. s = Last \/ (~req.ranged /\ s = 0 /\ start = 0)
    <3>1. CASE ~req.ranged
      BY <3>1, <1>9, <1>10, <1>12
    <3>2. CASE req.ranged /\ ~req.bounded
      <4>1. stop = 0
        BY <3>2, <1>8
      <4> QED
        BY <3>2, <4>1, <2>3, <1>1, <1>6, <1>9 DEF Last
    <3>3. CASE req.ranged /\ req.bounded
      <4>1. stop = req.stop /\ start = req.start
        BY <3>3, <1>8 DEF Satisfiable, parsed
      <4>2. stop # 0
        BY <3>3, <4>1, <1>1, <1>10, <2>1, <2>2, <1>2 DEF OneByte, Satisfiable, First, Last
      <4> QED
        BY <3>3, <4>1, <4>2, <2>3, <1>1, <1>2, <1>6, <1>9 DEF Last
    <3> QED
      BY <3>1, <3>2, <3>3, <1>2
  <2>5. CASE start = 0 /\ s = 0 /\ ~req.ranged
    BY <2>5, <1>1, <1>7 DEF First, Last
  <2>6. CASE start = 0 /\ s = 0 /\ req.ranged
    <3>1. Last = 0
      BY <2>4, <2>6
    <3>2. size = 1
      BY <3>1, <2>2, <2>6, <1>1, <1>2 DEF Last, First, OneByte
    <3> QED
      BY <3>1, <3>2, <2>2, <2>6, <1>7
  <2>7. CASE ~(start = 0 /\ s = 0)
    BY <2>7, <2>1, <2>2, <2>3, <2>4, <1>14
  <2> QED
    BY <2>2, <2>5, <2>6, <2>7
<1> QED
  BY <1>12, <1>13, <1>16, <1>17 DEF s, l
-----------------------------------------------------------------------------
(* A turn of the sending loop sends the bytes that follow. *)
LEMMA ReadSends ==
  ASSUME IInv, Read
  PROVE  /\ body' \in Seq(Int) /\ offset' \in Nat /\ readlen' \in Nat /\ readlen' <= IntMax
         /\ BodySent'
<1>1. /\ start \in Nat /\ offset \in Nat /\ readlen \in Nat /\ length \in Nat /\ body \in Seq(Int)
      /\ disk \in Nat /\ Chunk \in Nat /\ IntMax \in Nat
  BY RangeAssumption DEF IInv, TypeOK
<1>2. /\ pc = "read" /\ pc' = "read" /\ start' = start /\ length' = length
      /\ UNCHANGED << size, disk, gone, req >>
      /\ gone => Wrapped
      /\ ~gone => start <= disk /\ offset = start + readlen
      /\ ~Lost => Len(body) = readlen /\ \A i \in 1 .. readlen : body[i] = start + i - 1
      /\ Lost <=> gone
  <2>1. start \in Nat /\ disk \in Nat
    BY <1>1
  <2> QED
    BY <2>1 DEF IInv, BodySent, Read, Lost
<1>3. PICK n \in 1 .. Lesser(Wanted, disk - offset) :
        /\ body' = body \o [i \in 1 .. n |-> offset + i - 1]
        /\ offset' = offset + n
        /\ readlen' = readlen + n
  BY DEF Read
<1>4. AsInt(length) \in Int /\ AsInt(length) <= length /\ AsInt(length) <= IntMax
  BY <1>1, IntBounds
<1>5. n \in Nat /\ n > 0 /\ n <= AsInt(length) - readlen
  BY <1>1, <1>3, <1>4 DEF Wanted, Lesser
<1>6. readlen + n <= length /\ readlen + n <= IntMax
  BY <1>1, <1>4, <1>5
<1> DEFINE more == [i \in 1 .. n |-> offset + i - 1]
<1>7. more \in Seq(Int) /\ Len(more) = n /\ \A i \in 1 .. n : more[i] = offset + i - 1
  BY <1>1, <1>5
<1>8. body' = body \o more
  BY <1>3
<1> HIDE DEF more
<1>9. body' \in Seq(Int) /\ readlen + n \in Nat /\ offset + n \in Nat
  BY <1>1, <1>5, <1>7, <1>8, Concatenation
<1>10. ASSUME ~Lost
       PROVE  /\ Len(body') = readlen + n /\ offset + n = start + (readlen + n)
              /\ \A i \in 1 .. (readlen + n) : body'[i] = start + i - 1
  <2> DEFINE both == body \o more
  <2>1. /\ Len(both) = readlen + n
        /\ \A i \in 1 .. readlen : both[i] = start + i - 1
        /\ \A i \in 1 .. n : both[readlen + i] = offset + i - 1
    <3>1. /\ Len(both) = Len(body) + Len(more)
          /\ \A i \in 1 .. Len(body) : both[i] = body[i]
          /\ \A i \in 1 .. Len(more) : both[Len(body) + i] = more[i]
      BY <1>1, <1>7, Concatenation
    <3> HIDE DEF both
    <3>2. Len(body) = readlen /\ Len(more) = n /\ \A i \in 1 .. readlen : body[i] = start + i - 1
      BY <1>2, <1>7, <1>10
    <3> QED
      BY <1>7, <3>1, <3>2
  <2>2. body' = both /\ offset = start + readlen
    BY <1>2, <1>8, <1>10
  <2> HIDE DEF both
  <2>3. ASSUME NEW i \in 1 .. (readlen + n) PROVE both[i] = start + i - 1
    <3>1. CASE i <= readlen
      BY <3>1, <1>1, <2>1
    <3>2. CASE i > readlen
      <4>1. PICK k \in 1 .. n : i = readlen + k
        <5>1. i - readlen \in 1 .. n /\ i = readlen + (i - readlen)
          BY <3>2, <1>1, <1>5
        <5> QED
          BY <5>1
      <4>2. both[i] = offset + k - 1
        BY <2>1, <4>1
      <4> QED
        BY <4>1, <4>2, <1>1, <2>2, <1>5
    <3> QED
      BY <3>1, <3>2, <1>1, <1>5
  <2> QED
    BY <1>1, <1>5, <2>1, <2>2, <2>3
<1>11. readlen' = readlen + n /\ offset' = offset + n
  BY <1>3
<1>12. BodySent'
  <2>1. UNCHANGED << Lost, Wrapped >>
    BY <1>2 DEF Lost, Wrapped
  <2>2. readlen' <= length'
    BY <1>2, <1>6, <1>11
  <2>3. gone' => Wrapped'
    BY <1>2, <2>1
  <2>4. ~gone' => start' <= disk' /\ offset' = start' + readlen'
    BY <1>2, <1>10, <1>11
  <2>5. IF Lost' THEN Wrapped'
        ELSE Len(body') = readlen' /\ \A i \in 1 .. readlen' : body'[i] = start' + i - 1
    BY <1>2, <1>10, <1>11, <2>1
  <2> QED
    BY <1>2, <2>2, <2>3, <2>4, <2>5 DEF BodySent
<1> QED
  BY <1>1, <1>5, <1>6, <1>9, <1>11, <1>12

(* When the loop ends by itself the body is complete. *)
LEMMA LoopEnds ==
  ASSUME IInv, pc = "read",
         ~More \/ Wanted <= 0 \/ offset >= disk,
         ~Wrapped, size <= disk, length <= IntMax
  PROVE  Len(body) = length
<1>1. /\ start \in Nat /\ readlen \in Nat /\ length \in Nat /\ size \in Nat /\ disk \in Nat
      /\ Chunk \in Nat \ {0} /\ readlen < LongMod
  BY RangeAssumption DEF IInv, TypeOK
<1>2. /\ offset = start + readlen /\ Len(body) = readlen /\ readlen <= length
      /\ start + length <= size
  BY <1>1 DEF IInv, BodySent, RangeInFile, Known, Lost
<1>3. AsLong(readlen) = readlen /\ AsInt(length) = length
  BY <1>1, LongFits, IntBounds
<1>4. ~More => readlen >= length
  BY <1>1, <1>3 DEF More
<1>5. Wanted <= 0 => readlen >= length
  BY <1>1, <1>3 DEF Wanted, Lesser
<1> QED
  BY <1>1, <1>2, <1>4, <1>5

-----------------------------------------------------------------------------
(* Every step keeps the invariant. *)
LEMMA NextInv == IInv /\ [Next]_vars => IInv'
<1> SUFFICES ASSUME IInv, [Next]_vars PROVE IInv'
  OBVIOUS
<1>1. CASE Headers
  <2>1. req \in Requests /\ req.start \in Nat /\ req.stop \in Nat /\ req.start < LongMod /\ req.stop < LongMod /\ 0 < LongMod
    BY RangeAssumption DEF IInv, TypeOK
  <2>2. start' \in Nat /\ start' < LongMod /\ stop' \in Nat /\ stop' < LongMod
    BY <1>1, <2>1 DEF Headers
  <2>3. TypeOK'
    BY <1>1, <2>2 DEF IInv, TypeOK, Headers
  <2>4. RangeAsAsked' /\ RangeInFile' /\ PromiseKept'
    BY <1>1 DEF RangeAsAsked, RangeInFile, PromiseKept, Known, Headers
  <2>5. RangeParsed'
    BY <1>1 DEF RangeParsed, Headers
  <2>6. BodySent'
    <3>1. pc = "headers" /\ pc' = "open" /\ readlen = 0 /\ readlen' = 0 /\ body = << >> /\ body' = << >>
      BY <1>1 DEF IInv, BodySent, Headers
    <3>2. Len(body') = readlen' /\ \A i \in 1 .. readlen' : FALSE
      BY <3>1
    <3> QED
      BY <3>1, <3>2 DEF BodySent, Known
  <2> QED
    BY <2>3, <2>4, <2>5, <2>6 DEF IInv
<1>2. CASE NoFile
  <2>1. TypeOK'
    BY <1>2 DEF IInv, TypeOK, NoFile
  <2>2. RangeParsed' /\ RangeAsAsked' /\ RangeInFile' /\ PromiseKept'
    BY <1>2 DEF IInv, RangeParsed, RangeAsAsked, RangeInFile, PromiseKept, Known, NoFile
  <2>3. BodySent'
    BY <1>2 DEF IInv, BodySent, Known, NoFile, Lost, Wrapped
  <2> QED
    BY <2>1, <2>2, <2>3 DEF IInv
<1>3. CASE Open
  <2>1. /\ stop' \in Nat /\ stop' < LongMod /\ length' \in Nat /\ length' < LongMod
        /\ RangeAsAsked' /\ RangeInFile'
    BY <1>3, OpenRange
  <2>2. TypeOK'
    BY <1>3, <2>1 DEF IInv, TypeOK, Open
  <2>3. RangeParsed' /\ PromiseKept'
    BY <1>3 DEF IInv, RangeParsed, PromiseKept, Open
  <2>4. BodySent'
    BY <1>3, <2>1 DEF IInv, BodySent, Known, Open, Lost, Wrapped
  <2> QED
    BY <2>1, <2>2, <2>3, <2>4 DEF IInv
<1>4. CASE HeaderOnly \/ Seek
  <2>0. /\ start \in Nat /\ disk \in Nat /\ size \in Nat /\ gone \in BOOLEAN /\ LongMod \in Nat
        /\ size + 1 < LongMod
    BY RangeAssumption DEF IInv, TypeOK
  <2>1. /\ pc = "send" /\ UNCHANGED << req, method, size, disk, gone, start, stop, length, readlen >>
        /\ readlen = 0 /\ body = << >> /\ 0 <= length
    BY <1>4 DEF HeaderOnly, Seek, IInv, BodySent, Known
  <2>2. \/ pc' = "closed" /\ UNCHANGED << offset, body, cut >> /\ method = "HEAD"
        \/ pc' = "closed" /\ UNCHANGED offset /\ Lost /\ body' = << ErrorPage >> /\ cut' = TRUE
        \/ /\ pc' = "read" /\ offset' = (IF gone THEN 0 ELSE start) /\ UNCHANGED << body, cut >>
           /\ IF gone THEN Wrapped ELSE start <= disk
    <3>1. Sought # start => Lost
      BY DEF Sought, Lost
    <3>2. Sought = start => IF gone THEN Wrapped ELSE start <= disk
      <4>1. gone => (Sought = start => start > size)
        BY <2>0 DEF Sought
      <4>2. ~gone => (Sought = start => start <= disk)
        BY <2>0 DEF Sought
      <4> QED
        BY <4>1, <4>2 DEF Wrapped
    <3> QED
      BY <1>4, <3>1, <3>2 DEF HeaderOnly, Seek
  <2>3. TypeOK'
    <3>1. << ErrorPage >> \in Seq(Int)
      BY DEF ErrorPage
    <3> QED
      BY <2>0, <2>1, <2>2, <3>1 DEF IInv, TypeOK
  <2>4. RangeParsed' /\ RangeAsAsked' /\ RangeInFile' /\ PromiseKept'
    <3>1. RangeParsed' /\ PromiseKept'
      BY <2>1, <2>2 DEF RangeParsed, PromiseKept
    <3>2. RangeAsAsked'
      BY <2>1, <2>2 DEF IInv, RangeAsAsked, Known, Satisfiable, OneByte, First, Last
    <3>3. RangeInFile'
      BY <2>1, <2>2 DEF IInv, RangeInFile, Known, Wrapped
    <3> QED
      BY <3>1, <3>2, <3>3
  <2>5. BodySent'
    <3>1. UNCHANGED << Lost, Wrapped, readlen, length >>
      BY <2>1 DEF Lost, Wrapped
    <3>2. pc' = "read" => IF gone' THEN Wrapped' ELSE start' <= disk' /\ offset' = start' + readlen'
      BY <2>0, <2>1, <2>2, <3>1
    <3>3. body' = body \/ (Lost /\ body' = << ErrorPage >>)
      BY <2>2
    <3>4. IF Lost' THEN body' \in {<< >>, << ErrorPage >>}
          ELSE Len(body') = readlen' /\ \A i \in 1 .. readlen' : FALSE
      BY <2>1, <3>1, <3>3
    <3>5. readlen' <= length'
      BY <2>1
    <3> QED
      BY <2>1, <2>2, <3>2, <3>4, <3>5 DEF BodySent
  <2> QED
    BY <2>3, <2>4, <2>5 DEF IInv
<1>5. CASE Read
  <2>1. /\ body' \in Seq(Int) /\ offset' \in Nat /\ readlen' \in Nat /\ readlen' <= IntMax
        /\ BodySent'
    BY <1>5, ReadSends
  <2>2. pc = "read" /\ UNCHANGED << req, method, size, disk, gone, pc, start, stop, length, cut >>
    BY <1>5 DEF Read
  <2>3. TypeOK'
    BY <2>1, <2>2 DEF IInv, TypeOK
  <2>4. RangeParsed' /\ PromiseKept'
    BY <2>2 DEF IInv, RangeParsed, PromiseKept
  <2>5. RangeAsAsked'
    BY <2>2 DEF IInv, RangeAsAsked, Known, Satisfiable, OneByte, First, Last
  <2>6. RangeInFile'
    BY <2>2 DEF IInv, RangeInFile, Known, Wrapped
  <2> QED
    BY <2>1, <2>3, <2>4, <2>5, <2>6 DEF IInv
<1>6. CASE ReadsNothing \/ Close \/ Break
  <2>1. pc = "read" /\ pc' = "closed" /\ UNCHANGED << req, method, size, disk, gone, start, stop, length, offset, readlen, body >>
    BY <1>6 DEF ReadsNothing, Close, Break
  <2>2. cut' \in BOOLEAN
    BY <1>6 DEF ReadsNothing, Close, Break, IInv, TypeOK
  <2>3. TypeOK'
    BY <2>1, <2>2 DEF IInv, TypeOK
  <2>4. RangeParsed'
    BY <2>1 DEF IInv, RangeParsed
  <2>5. RangeAsAsked'
    BY <2>1 DEF IInv, RangeAsAsked, Known, Satisfiable, OneByte, First, Last
  <2>6. RangeInFile'
    BY <2>1 DEF IInv, RangeInFile, Known, Wrapped
  <2>7. BodySent'
    BY <2>1 DEF IInv, BodySent, Known, Lost, Wrapped
  <2>8. PromiseKept'
    <3> SUFFICES ASSUME ~cut', ~Wrapped, size <= disk, length <= IntMax
                 PROVE  Len(body) = length
      BY <2>1 DEF PromiseKept, Wrapped
    <3>1. ~More \/ Wanted <= 0 \/ offset >= disk
      BY <1>6 DEF ReadsNothing, Close, Break
    <3> QED
      BY <3>1, <2>1, LoopEnds
  <2> QED
    BY <2>3, <2>4, <2>5, <2>6, <2>7, <2>8 DEF IInv
<1>7. CASE UNCHANGED vars
  <2>1. TypeOK' /\ RangeParsed'
    BY <1>7 DEF IInv, TypeOK, RangeParsed, vars
  <2>2. RangeAsAsked' /\ RangeInFile'
    BY <1>7 DEF IInv, RangeAsAsked, RangeInFile, Known, Satisfiable, OneByte, First, Last, Wrapped, vars
  <2>3. BodySent' /\ PromiseKept'
    BY <1>7 DEF IInv, BodySent, PromiseKept, Known, Wrapped, Lost, vars
  <2> QED
    BY <2>1, <2>2, <2>3 DEF IInv
<1> QED
  BY <1>1, <1>2, <1>3, <1>4, <1>5, <1>6, <1>7 DEF Next, Terminated

(* The invariant holds in every reachable state. *)
THEOREM Invariance == Spec => []IInv
  BY InitInv, NextInv, PTL DEF Spec

(* Every variable keeps its type; above all, the int readlen never overflows,   *)
(* though it counts what is sent of a range of unsigned long long.              *)
THEOREM TypeCorrect == Spec => []TypeOK
<1>1. IInv => TypeOK
  BY DEF IInv
<1> QED
  BY <1>1, Invariance, PTL

(* gena_thread_loop announces the range that was asked for, whenever the file has it. *)
THEOREM RangeAsAskedThm == Spec => []RangeAsAsked
<1>1. IInv => RangeAsAsked
  BY DEF IInv
<1> QED
  BY <1>1, Invariance, PTL

(* The body has the bytes from the start of the range on, in order, and no more *)
(* than the header announced; of a file that has been cut below the start, or   *)
(* removed, it has none.                                                        *)
THEOREM BodyInRangeThm == Spec => []BodyInRange
<1>1. IInv => BodyInRange
  <2> SUFFICES ASSUME IInv, ~Wrapped
               PROVE  IF Lost THEN body \in {<< >>, << ErrorPage >>}
                      ELSE Len(body) <= length /\ \A i \in 1 .. Len(body) : body[i] = start + i - 1
    BY DEF BodyInRange
  <2>1. readlen = 0 \/ readlen <= length
    BY DEF IInv, BodySent, Known, TypeOK
  <2> QED
    BY <2>1 DEF IInv, BodySent, TypeOK
<1> QED
  BY <1>1, Invariance, PTL

(* If nothing fails and an int holds the announced length, all of it is sent. *)
THEOREM PromiseKeptThm == Spec => []PromiseKept
<1>1. IInv => PromiseKept
  BY DEF IInv
<1> QED
  BY <1>1, Invariance, PTL
=============================================================================
