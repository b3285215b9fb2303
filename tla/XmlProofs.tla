------------------------------ MODULE XmlProofs ------------------------------
(***************************************************************************)
(* Lemmas about Xml for any elements, attributes and texts: which calls of *)
(* the program's callbacks a document that was written from a tree of      *)
(* elements leads to.  The answer to a browse (Browse) and the description *)
(* of a device (Client) are both read through them.                        *)
(***************************************************************************)
EXTENDS Xml, SequenceTheorems, FiniteSetTheorems, WellFoundedInduction, TLAPS

(* A set of numbers that is not empty has a least element.                 *)
LEMMA LeastOfSome == ASSUME NEW S \in SUBSET Nat, S # {} PROVE \E x \in S : \A y \in S : x <= y
<1> DEFINE Less == {pair \in Nat \X Nat : pair[1] < pair[2]}
<1>1. Less = OpToRel(<, Nat)
  BY Zenon DEF OpToRel
<1>2. IsWellFoundedOn(Less, Nat)
  BY NatLessThanWellFounded, <1>1, Zenon
<1>3. PICK x \in S : \A y \in S : ~(<< y, x >> \in Less)
  BY <1>2, WFMin, Zenon
<1>4. \A y \in S : x <= y
  <2>1. \A y \in S : << y, x >> \in Nat \X Nat /\ << y, x >>[1] = y /\ << y, x >>[2] = x
    OBVIOUS
  <2>2. \A y \in S : ~(y < x)
    BY <1>3, <2>1, Zenon
  <2>3. QED
    BY <2>2
<1>5. QED
  BY <1>4

(* Min is that element.                                                    *)
LEMMA LeastIsOne == ASSUME NEW S \in SUBSET Nat, S # {} PROVE Min(S) \in S
<1>1. \E x \in S : \A y \in S : x <= y
  BY LeastOfSome, Zenon
<1>2. QED
  BY <1>1 DEF Min

(* A function on 1 .. k is a sequence of k elements.                       *)
LEMMA FunctionIsSequence == ASSUME NEW S, NEW k \in Nat, NEW f \in [1 .. k -> S] PROVE f \in Seq(S) /\ Len(f) = k
  OBVIOUS

-----------------------------------------------------------------------------
(* What is read of a document.                                             *)

\* Texts and documents are sequences of anything.
IsSeq(s) == \E S : s \in Seq(S)

(* Concatenation is associative, also with one element more.               *)
LEMMA Associative ==
  /\ \A S : \A s, t, u \in Seq(S) : (s \o t) \o u = s \o (t \o u)
  /\ \A S : \A s, t \in Seq(S), x \in S : s \o Append(t, x) = Append(s \o t, x)
<1>1. \A S : \A s, t, u \in Seq(S) : (s \o t) \o u = s \o (t \o u)
  BY ConcatAssociative
<1>2. ASSUME NEW S, NEW s \in Seq(S), NEW t \in Seq(S), NEW x \in S PROVE s \o Append(t, x) = Append(s \o t, x)
  <2>1. << x >> \in Seq(S) /\ s \o t \in Seq(S)
    OBVIOUS
  <2>2. Append(t, x) = t \o << x >> /\ Append(s \o t, x) = (s \o t) \o << x >>
    BY <2>1, AppendIsConcat
  <2>3. (s \o t) \o << x >> = s \o (t \o << x >>)
    BY <1>1, <2>1
  <2>4. QED
    BY <2>2, <2>3
<1>3. QED
  BY <1>1, <1>2

(* The length of a concatenation.                                          *)
LEMMA LenBoth == \A S : \A s, t \in Seq(S) : Len(s \o t) = Len(s) + Len(t) /\ Len(s) \in Nat /\ Len(t) \in Nat
  OBVIOUS

\* The function that FlattenSeq is the last value of.
Flattens(seqs, f) == f = [i \in 1 .. Len(seqs) |-> IF i = 1 THEN seqs[i] ELSE f[i - 1] \o seqs[i]]

(* There is a function as FlattenSeq defines it.                           *)
LEMMA FlattenExists == ASSUME NEW S, NEW seqs \in Seq(Seq(S)) PROVE \E f : Flattens(seqs, f)
<1> DEFINE Starts(n, f) == f = [i \in 1 .. n |-> IF i = 1 THEN seqs[i] ELSE f[i - 1] \o seqs[i]]
           Bad == {n \in Nat : ~ \E f : Starts(n, f)}
<1>1. Bad = {}
  <2> SUFFICES ASSUME Bad # {} PROVE FALSE
    OBVIOUS
  <2>1. PICK n \in Bad : \A y \in Bad : n <= y
    BY LeastOfSome, Zenon
  <2>2. n # 0
    <3>1. Starts(0, [i \in 1 .. 0 |-> seqs[i]])
      OBVIOUS
    <3>2. QED
      BY <2>1, <3>1
  <2>3. n - 1 \in Nat /\ ~(n <= n - 1)
    BY <2>1, <2>2
  <2>4. PICK f : Starts(n - 1, f)
    BY <2>1, <2>3
  <2> DEFINE g == [i \in 1 .. n |-> IF i = 1 THEN seqs[i] ELSE f[i - 1] \o seqs[i]]
  <2>5. ASSUME NEW i \in 1 .. n, i # 1 PROVE g[i - 1] = f[i - 1]
    <3>1. i - 1 \in 1 .. n - 1 /\ i - 1 \in 1 .. n
      BY <2>3, <2>5
    <3>2. f[i - 1] = IF i - 1 = 1 THEN seqs[i - 1] ELSE f[(i - 1) - 1] \o seqs[i - 1]
      BY <2>4, <3>1
    <3>3. QED
      BY <3>1, <3>2
  <2>6. Starts(n, g)
    <3>1. g = [i \in 1 .. n |-> IF i = 1 THEN seqs[i] ELSE g[i - 1] \o seqs[i]]
      BY <2>5
    <3>2. QED
      BY <3>1
  <2>7. QED
    BY <2>1, <2>6
<1>2. \A n \in Nat : \E f : Starts(n, f)
  BY <1>1
<1>3. Len(seqs) \in Nat
  OBVIOUS
<1>4. QED
  BY <1>2, <1>3 DEF Flattens

Flattening(seqs) == CHOOSE flatten : flatten = [i \in 1 .. Len(seqs) |-> IF i = 1 THEN seqs[i] ELSE flatten[i - 1] \o seqs[i]]

(* What FlattenSeq returns is the last value of such a function.           *)
LEMMA FlattenIs ==
  ASSUME NEW S, NEW seqs \in Seq(Seq(S))
  PROVE  \E f : /\ Flattens(seqs, f)
                /\ FlattenSeq(seqs) = IF Len(seqs) = 0 THEN seqs ELSE f[Len(seqs)]
<1>1. \E f : Flattens(seqs, f)
  BY FlattenExists
<1>2. Flattens(seqs, Flattening(seqs))
  BY <1>1, Zenon DEF Flattening, Flattens
<1>3. FlattenSeq(seqs) = IF Len(seqs) = 0 THEN seqs ELSE Flattening(seqs)[Len(seqs)]
  BY DEF FlattenSeq, Flattening
<1>4. QED
  BY <1>2, <1>3

(* The values of that function, and those of the one for a longer          *)
(* sequence.                                                               *)
LEMMA FlattenValues ==
  ASSUME NEW S, NEW seqs \in Seq(Seq(S)), NEW more \in Seq(Seq(S)), NEW f, NEW g,
         Flattens(seqs, f), Flattens(more, g), Len(seqs) <= Len(more),
         \A i \in 1 .. Len(seqs) : seqs[i] = more[i]
  PROVE  \A i \in 1 .. Len(seqs) : f[i] = g[i] /\ f[i] \in Seq(S)
<1> DEFINE Bad == {i \in Nat : i \in 1 .. Len(seqs) /\ ~(f[i] = g[i] /\ f[i] \in Seq(S))}
<1>1. Bad = {}
  <2> SUFFICES ASSUME Bad # {} PROVE FALSE
    OBVIOUS
  <2>1. PICK i \in Bad : \A y \in Bad : i <= y
    BY LeastOfSome, Zenon
  <2>2. i \in 1 .. Len(seqs) /\ i \in 1 .. Len(more) /\ Len(seqs) \in Nat /\ i \in Nat
    BY <2>1
  <2>3. /\ f[i] = IF i = 1 THEN seqs[i] ELSE f[i - 1] \o seqs[i]
        /\ g[i] = IF i = 1 THEN more[i] ELSE g[i - 1] \o more[i]
    BY <2>2, Zenon DEF Flattens
  <2>4. seqs[i] = more[i] /\ seqs[i] \in Seq(S)
    BY <2>2
  <2>5. CASE i = 1
    BY <2>1, <2>3, <2>4, <2>5
  <2>6. CASE i # 1
    <3>1. i - 1 \in 1 .. Len(seqs) /\ ~(i <= i - 1) /\ i - 1 \in Nat
      BY <2>2, <2>6
    <3>2. f[i - 1] = g[i - 1] /\ f[i - 1] \in Seq(S)
      BY <2>1, <3>1
    <3>3. f[i] = f[i - 1] \o seqs[i] /\ g[i] = g[i - 1] \o more[i]
      BY <2>3, <2>6
    <3>4. f[i] = g[i] /\ f[i] \in Seq(S)
      BY <2>4, <3>2, <3>3
    <3>5. QED
      BY <2>1, <3>4
  <2>7. QED
    BY <2>5, <2>6
<1>2. Len(seqs) \in Nat
  OBVIOUS
<1>3. ASSUME NEW i \in 1 .. Len(seqs) PROVE f[i] = g[i] /\ f[i] \in Seq(S)
  <2>1. i \in Nat
    BY <1>2
  <2>2. i \notin Bad
    BY <1>1, Zenon
  <2>3. QED
    BY <2>1, <2>2
<1>4. QED
  BY <1>3

(* FlattenSeq of one sequence more is one concatenation more.              *)
LEMMA FlattenAppend ==
  ASSUME NEW S, NEW seqs \in Seq(Seq(S)), NEW x \in Seq(S)
  PROVE  /\ FlattenSeq(seqs) \in Seq(S)
         /\ FlattenSeq(<< >>) = << >>
         /\ FlattenSeq(Append(seqs, x)) = FlattenSeq(seqs) \o x
<1>1. PICK more : more = Append(seqs, x)
  OBVIOUS
<1>2. PICK n : n = Len(seqs)
  OBVIOUS
<1>3. /\ more \in Seq(Seq(S)) /\ Len(more) = n + 1 /\ n \in Nat /\ more[n + 1] = x
      /\ \A i \in 1 .. n : seqs[i] = more[i]
  BY <1>1, <1>2
<1>4. PICK f : Flattens(seqs, f) /\ FlattenSeq(seqs) = IF n = 0 THEN seqs ELSE f[n]
  BY <1>2, FlattenIs
<1>5. PICK g : Flattens(more, g) /\ FlattenSeq(more) = IF Len(more) = 0 THEN more ELSE g[Len(more)]
  BY <1>3, FlattenIs
<1>6. \A i \in 1 .. n : f[i] = g[i] /\ f[i] \in Seq(S)
  <2>1. Flattens(seqs, f) /\ Flattens(more, g) /\ Len(seqs) <= Len(more) /\ \A i \in 1 .. Len(seqs) : seqs[i] = more[i]
    BY <1>2, <1>3, <1>4, <1>5
  <2>2. \A i \in 1 .. Len(seqs) : f[i] = g[i] /\ f[i] \in Seq(S)
    BY <1>3, <2>1, FlattenValues, Zenon
  <2>3. QED
    BY <1>2, <2>2
<1>7. FlattenSeq(more) = IF n = 0 THEN x ELSE g[n] \o x
  <2>1. n + 1 \in 1 .. Len(more) /\ Len(more) # 0 /\ (n + 1 = 1 <=> n = 0) /\ (n + 1) - 1 = n
    BY <1>3
  <2>2. g[n + 1] = IF n + 1 = 1 THEN more[n + 1] ELSE g[(n + 1) - 1] \o more[n + 1]
    BY <1>5, <2>1, Zenon DEF Flattens
  <2>3. QED
    BY <1>3, <1>5, <2>1, <2>2
<1>8. CASE n = 0
  <2>1. seqs = << >> /\ FlattenSeq(seqs) = seqs /\ << >> \in Seq(S)
    BY <1>2, <1>4, <1>8, EmptySeq
  <2>3. << >> \o x = x
    BY ConcatEmptySeq
  <2>2. QED
    BY <1>1, <1>7, <1>8, <2>1, <2>3
<1>9. CASE n # 0
  <2>1. n \in 1 .. n
    BY <1>3, <1>9
  <2>2. FlattenSeq(seqs) = f[n] /\ f[n] = g[n] /\ f[n] \in Seq(S)
    BY <1>4, <1>6, <1>9, <2>1
  <2>3. FlattenSeq(<< >>) = << >>
    BY Zenon, EmptySeq DEF FlattenSeq
  <2>4. QED
    BY <1>1, <1>7, <1>9, <2>2, <2>3
<1>10. QED
  BY <1>8, <1>9

(* If FlattenSeq distributes over a concatenation it does over a longer    *)
(* one.                                                                    *)
LEMMA FlattenOneMore ==
  ASSUME NEW S, NEW s \in Seq(Seq(S)), NEW u \in Seq(Seq(S)), NEW x \in Seq(S),
         FlattenSeq(s \o u) = FlattenSeq(s) \o FlattenSeq(u)
  PROVE  FlattenSeq(s \o Append(u, x)) = FlattenSeq(s) \o FlattenSeq(Append(u, x))
<1>1. s \o Append(u, x) = Append(s \o u, x) /\ s \o u \in Seq(Seq(S))
  <2>1. PICK T : T = Seq(S)
    OBVIOUS
  <2>2. s \in Seq(T) /\ u \in Seq(T) /\ x \in T
    BY <2>1
  <2>3. QED
    BY <2>1, <2>2, Associative
<1>2. PICK a, b, c : a = FlattenSeq(s) /\ b = FlattenSeq(u) /\ c = FlattenSeq(Append(u, x))
  OBVIOUS
<1>3. /\ a \in Seq(S) /\ b \in Seq(S) /\ c = b \o x
      /\ FlattenSeq(Append(s \o u, x)) = FlattenSeq(s \o u) \o x
  BY <1>1, <1>2, FlattenAppend
<1>4. (a \o b) \o x = a \o (b \o x)
  <2>1. a \in Seq(S) /\ b \in Seq(S) /\ x \in Seq(S)
    BY <1>3
  <2>2. QED
    BY <2>1, ConcatAssociative
<1>5. QED
  BY <1>1, <1>2, <1>3, <1>4

(* FlattenSeq distributes over concatenation.                              *)
LEMMA FlattenBoth ==
  ASSUME NEW S, NEW s \in Seq(Seq(S)), NEW t \in Seq(Seq(S))
  PROVE  FlattenSeq(s \o t) = FlattenSeq(s) \o FlattenSeq(t)
<1> DEFINE Right(n) == FlattenSeq(s \o SubSeq(t, 1, n)) = FlattenSeq(s) \o FlattenSeq(SubSeq(t, 1, n))
<1>1. Right(0)
  <2>1. SubSeq(t, 1, 0) = << >>
    OBVIOUS
  <2>2. s \o << >> = s /\ FlattenSeq(s) \in Seq(S) /\ FlattenSeq(<< >>) = << >>
    BY FlattenAppend, EmptySeq
  <2>3. FlattenSeq(s) \o << >> = FlattenSeq(s)
    BY <2>2
  <2>4. QED
    BY <2>1, <2>2, <2>3
<1>2. ASSUME NEW n \in Nat, n < Len(t), Right(n) PROVE Right(n + 1)
  <2>1. PICK u, x, v : u = SubSeq(t, 1, n) /\ x = t[n + 1] /\ v = SubSeq(t, 1, n + 1)
    OBVIOUS
  <2>2. n + 1 \in 1 .. Len(t)
    BY <1>2
  <2>3. u \in Seq(Seq(S)) /\ x \in Seq(S) /\ v = Append(u, x)
    BY <1>2, <2>1, <2>2
  <2>4. FlattenSeq(s \o u) = FlattenSeq(s) \o FlattenSeq(u)
    BY <1>2, <2>1
  <2>5. FlattenSeq(s \o v) = FlattenSeq(s) \o FlattenSeq(v)
    BY <2>3, <2>4, FlattenOneMore
  <2>6. QED
    BY <2>1, <2>5
<1> HIDE DEF Right
<1>3. \A n \in Nat : n <= Len(t) => Right(n)
  <2> DEFINE Bad == {n \in Nat : n <= Len(t) /\ ~Right(n)}
  <2>1. Bad = {}
    <3> SUFFICES ASSUME Bad # {} PROVE FALSE
      OBVIOUS
    <3>1. PICK n \in Bad : \A y \in Bad : n <= y
      BY LeastOfSome, Zenon
    <3>2. n # 0 /\ n \in Nat
      BY <1>1, <3>1
    <3>3. n - 1 \in Nat /\ n - 1 < Len(t) /\ ~(n <= n - 1) /\ (n - 1) + 1 = n
      BY <3>1, <3>2
    <3>4. Right(n - 1)
      BY <3>1, <3>3
    <3>5. QED
      BY <1>2, <3>1, <3>3, <3>4
  <2>2. QED
    BY <2>1
<1>4. SubSeq(t, 1, Len(t)) = t /\ Len(t) \in Nat /\ Len(t) <= Len(t)
  OBVIOUS
<1>5. QED
  BY <1>3, <1>4 DEF Right

Joined(s, t, u) == /\ Len(u) = Len(s) + Len(t)
                   /\ \A i \in 1 .. Len(s) : u[i] = s[i]
                   /\ \A i \in 1 .. Len(t) : u[Len(s) + i] = t[i]

(* A sequence with the elements of two others is their concatenation.      *)
LEMMA IsConcat ==
  ASSUME NEW T, NEW s \in Seq(T), NEW t \in Seq(T), NEW u \in Seq(T), Joined(s, t, u)
  PROVE  u = s \o t
<1>1. \A i \in 1 .. Len(s) + Len(t) : i \in 1 .. Len(s) \/ \E j \in 1 .. Len(t) : i = Len(s) + j
  <2>1. ASSUME NEW i \in 1 .. Len(s) + Len(t), i \notin 1 .. Len(s) PROVE i - Len(s) \in 1 .. Len(t) /\ i = Len(s) + (i - Len(s))
    BY <2>1
  <2>2. QED
    BY <2>1
<1>2. /\ s \o t \in Seq(T) /\ Len(s \o t) = Len(s) + Len(t)
      /\ \A i \in 1 .. Len(s) : (s \o t)[i] = s[i]
      /\ \A i \in 1 .. Len(t) : (s \o t)[Len(s) + i] = t[i]
  OBVIOUS
<1>3. \A i \in 1 .. Len(s) + Len(t) : u[i] = (s \o t)[i]
  BY <1>1, <1>2 DEF Joined
<1>4. QED
  BY <1>2, <1>3, SeqEqual DEF Joined

(* Concatenations of tuples, written as tuples.                            *)
LEMMA TuplesConcat ==
  /\ \A x, y : << x >> \o << y >> = << x, y >>
  /\ \A x, y, z : << x >> \o << y, z >> = << x, y, z >>
<1>1. ASSUME NEW x, NEW y PROVE << x >> \o << y >> = << x, y >>
  <2>1. PICK u, v, w, T : u = << x >> /\ v = << y >> /\ w = << x, y >> /\ T = {x, y}
    OBVIOUS
  <2>2. /\ u \in Seq(T) /\ v \in Seq(T) /\ w \in Seq(T) /\ Len(u) = 1 /\ Len(v) = 1 /\ Len(w) = 2
        /\ u[1] = x /\ v[1] = y /\ w[1] = x /\ w[2] = y
    BY <2>1
  <2>3. u \o v \in Seq(T) /\ Len(u \o v) = 2 /\ (u \o v)[1] = x /\ (u \o v)[1 + 1] = y
    BY <2>2
  <2>4. \A i \in 1 .. 2 : (u \o v)[i] = w[i]
    BY <2>2, <2>3
  <2>5. u \o v = w
    BY <2>2, <2>3, <2>4, SeqEqual
  <2>6. QED
    BY <2>1, <2>5
<1>2. ASSUME NEW T, NEW x \in T, NEW y \in T, NEW z \in T PROVE << x >> \o << y, z >> = << x, y, z >>
  <2>1. PICK u, v : u = << x >> /\ v = << y >>
    OBVIOUS
  <2>2. u \in Seq(T) /\ v \in Seq(T)
    BY <2>1
  <2>3. u \o Append(v, z) = Append(u \o v, z)
    BY <2>2, Associative
  <2>4. Append(v, z) = << y, z >>
    <3>1. PICK a, b : a = Append(v, z) /\ b = << y, z >>
      OBVIOUS
    <3>2. b \in Seq(T) /\ Len(b) = 2 /\ b[1] = y /\ b[2] = z
      BY <3>1
    <3>3. v \in Seq(T) /\ Len(v) = 1 /\ v[1] = y
      BY <2>1
    <3>4. a \in Seq(T) /\ Len(a) = 2 /\ a[1] = y /\ a[2] = z
      <4>1. a \in Seq(T) /\ Len(a) = Len(v) + 1 /\ a[Len(v) + 1] = z /\ \A i \in 1 .. Len(v) : a[i] = v[i]
        BY <3>1, <3>3, AppendProperties
      <4>2. QED
        BY <3>3, <4>1
    <3>5. \A i \in 1 .. 2 : a[i] = b[i]
      BY <3>2, <3>4
    <3>6. a = b
      BY <3>2, <3>4, <3>5, SeqEqual
    <3>7. QED
      BY <3>1, <3>6
  <2>5. Append(<< x, y >>, z) = << x, y, z >>
    <3>1. PICK a, b, w : a = Append(w, z) /\ b = << x, y, z >> /\ w = << x, y >>
      OBVIOUS
    <3>2. b \in Seq(T) /\ Len(b) = 3 /\ b[1] = x /\ b[2] = y /\ b[3] = z
      BY <3>1
    <3>3. w \in Seq(T) /\ Len(w) = 2 /\ w[1] = x /\ w[2] = y
      BY <3>1
    <3>4. a \in Seq(T) /\ Len(a) = 3 /\ a[1] = x /\ a[2] = y /\ a[3] = z
      BY <3>1, <3>3, AppendProperties
    <3>5. \A i \in 1 .. 3 : a[i] = b[i]
      BY <3>2, <3>4
    <3>6. a = b
      BY <3>2, <3>4, <3>5, SeqEqual
    <3>7. QED
      BY <3>1, <3>6
  <2>6. u \o v = << x, y >>
    BY <1>1, <2>1
  <2>7. QED
    BY <2>1, <2>3, <2>4, <2>5, <2>6
<1>4. ASSUME NEW x, NEW y, NEW z PROVE << x >> \o << y, z >> = << x, y, z >>
  <2>1. x \in {x, y, z} /\ y \in {x, y, z} /\ z \in {x, y, z}
    OBVIOUS
  <2>2. QED
    BY <1>2, <2>1, Zenon
<1>3. QED
  BY <1>1, <1>4

\* The elements of an entry whose text is of no consequence here, and all others.
Dull == {"dc:contributor", "dc:date", "dc:description", "dc:publisher", "dc:language", "dc:relation", "dc:rights",
         "upnp:artist", "upnp:album", "upnp:originalTrackNumber", "upnp:playlist", "upnp:genre", "upnp:longDescription",
         "upnp:producer", "upnp:rating", "upnp:actor", "upnp:director", "upnp:longdescription", "upnp:storagemedium",
         "upnp:storageUsed"}

\* The elements of a description.
DescriptionNames ==
  {"root", "specVersion", "major", "minor", "URLBase", "device", "deviceType", "presentationURL", "friendlyName", "UDN",
   "iconList", "icon", "url", "serviceList", "service", "serviceId", "serviceType", "SCPDURL", "controlURL", "eventSubURL",
   "deviceList"}

\* The names of the elements read.
Names == {"s:Envelope", "s:Body", "u:BrowseResponse", "Result", "DIDL-Lite", "container", "item",
          "dc:title", "upnp:class", "res"} \cup Dull \cup DescriptionNames

\* The elements of entries.
Kinds == {"item", "container"}

\* What is read of a document.
Tags(attrs, texts) == [tag : {"start", "end", "error"}, path : Seq(Names), attrs : attrs, text : texts]

\* The callbacks of elements with these attributes and texts.
CallbackSet(attrs, texts) == [path : Seq(Names), attrs : attrs, value : texts]

\* Documents without an error that do not end with a start.
Whole(d) == /\ \A i \in DOMAIN d : d[i].tag # "error"
            /\ Len(d) > 0 => d[Len(d)].tag = "end"

\* The callbacks at each tag.
CallsAt(d) == [i \in DOMAIN d |-> CallbackOf(d, i)]

(* The callbacks of a document are those at each of its tags, one after    *)
(* the other.                                                              *)
LEMMA CallbackTypes ==
  ASSUME NEW A, NEW X, Null \in X, NEW d \in Seq(Tags(A, X))
  PROVE  /\ CallsAt(d) \in Seq(Seq(CallbackSet(A, X)))
         /\ Len(CallsAt(d)) = Len(d)
         /\ Callbacks(d) = FlattenSeq(CallsAt(d))
         /\ Callbacks(d) \in Seq(CallbackSet(A, X))
<1>1. DOMAIN d = 1 .. Len(d) /\ Len(d) \in Nat
  OBVIOUS
<1>2. ASSUME NEW i \in DOMAIN d PROVE CallbackOf(d, i) \in Seq(CallbackSet(A, X))
  <2>1. d[i] \in Tags(A, X) /\ (i + 1 \in Readable(d) => d[i + 1] \in Tags(A, X))
    BY <1>1 DEF Readable
  <2>2. CASE d[i].tag = "start" /\ i + 1 \in Readable(d)
    <3>1. PICK c : c = [path |-> d[i].path, attrs |-> d[i].attrs, value |-> IF d[i + 1].tag = "start" THEN Null ELSE d[i].text]
      OBVIOUS
    <3>2. c \in CallbackSet(A, X)
      BY <2>1, <3>1 DEF Tags, CallbackSet
    <3>3. CallbackOf(d, i) = << c >>
      BY <2>2, <3>1, Zenon DEF CallbackOf
    <3>4. QED
      BY <3>2, <3>3
  <2>3. CASE ~(d[i].tag = "start" /\ i + 1 \in Readable(d))
    <3>1. CallbackOf(d, i) = << >>
      BY <2>3 DEF CallbackOf
    <3>2. QED
      BY <3>1
  <2>4. QED
    BY <2>2, <2>3
<1>3. PICK s : s = CallsAt(d)
  OBVIOUS
<1>4. s \in [1 .. Len(d) -> Seq(CallbackSet(A, X))]
  BY <1>1, <1>2, <1>3 DEF CallsAt
<1>5. s \in Seq(Seq(CallbackSet(A, X))) /\ Len(s) = Len(d)
  BY <1>1, <1>4, FunctionIsSequence
<1>6. Callbacks(d) = FlattenSeq(s)
  BY <1>3 DEF Callbacks, CallsAt
<1>7. FlattenSeq(s) \in Seq(CallbackSet(A, X))
  BY <1>5, FlattenAppend, EmptySeq
<1>8. QED
  BY <1>3, <1>5, <1>6, <1>7

(* A document after another one is read after it: the callbacks of whole   *)
(* documents are concatenated.                                             *)
LEMMA CallsOfBoth ==
  ASSUME NEW A, NEW X, Null \in X, NEW d \in Seq(Tags(A, X)), NEW e \in Seq(Tags(A, X)), Whole(d), Whole(e)
  PROVE  /\ Callbacks(d \o e) = Callbacks(d) \o Callbacks(e)
         /\ d \o e \in Seq(Tags(A, X)) /\ Whole(d \o e)
<1>1. PICK b, m, n : b = d \o e /\ m = Len(d) /\ n = Len(e)
  OBVIOUS
<1>2. /\ b \in Seq(Tags(A, X)) /\ m \in Nat /\ n \in Nat /\ Len(b) = m + n
      /\ DOMAIN d = 1 .. m /\ DOMAIN e = 1 .. n /\ DOMAIN b = 1 .. m + n
      /\ \A i \in 1 .. m : b[i] = d[i]
      /\ \A i \in 1 .. n : b[m + i] = e[i]
  BY <1>1
<1>3. \A i \in 1 .. m + n : \/ i \in 1 .. m
                            \/ \E j \in 1 .. n : i = m + j
  <2>1. ASSUME NEW i \in 1 .. m + n, i \notin 1 .. m PROVE i - m \in 1 .. n /\ i = m + (i - m)
    BY <1>2, <2>1
  <2>2. QED
    BY <2>1
<1>4. \A i \in 1 .. m + n : b[i].tag # "error"
  <2>1. (\A i \in 1 .. m : d[i].tag # "error") /\ (\A i \in 1 .. n : e[i].tag # "error")
    BY <1>2 DEF Whole
  <2>2. ASSUME NEW i \in 1 .. m + n PROVE b[i].tag # "error"
    <3>1. CASE i \in 1 .. m
      BY <1>2, <2>1, <3>1
    <3>2. CASE \E j \in 1 .. n : i = m + j
      BY <1>2, <2>1, <3>2
    <3>3. QED
      BY <1>3, <2>2, <3>1, <3>2
  <2>3. QED
    BY <2>2
<1>5. Whole(b)
  <2>1. CASE n > 0
    BY <1>1, <1>2, <1>4, <2>1 DEF Whole
  <2>2. CASE n = 0
    <3>1. e = << >>
      BY <1>1, <2>2, EmptySeq
    <3>2. b = d
      BY <1>1, <3>1, ConcatEmptySeq
    <3>3. QED
      BY <3>2
  <2>3. QED
    BY <1>2, <2>1, <2>2
<1>6. Readable(d) = 1 .. m /\ Readable(e) = 1 .. n /\ Readable(b) = 1 .. m + n
  <2>1. \A k, j \in Nat : j <= k => \A i \in 1 .. j : i \in 1 .. k
    OBVIOUS
  <2>2. QED
    BY <1>2, <1>4 DEF Readable, Whole
<1>7. \A i \in 1 .. m : CallbackOf(b, i) = CallbackOf(d, i)
  <2> SUFFICES ASSUME NEW i \in 1 .. m PROVE CallbackOf(b, i) = CallbackOf(d, i)
    OBVIOUS
  <2>1. CASE i = m
    <3>1. d[i].tag = "end" /\ b[i] = d[i]
      BY <1>1, <1>2, <2>1 DEF Whole
    <3>2. QED
      BY <3>1 DEF CallbackOf
  <2>2. CASE i # m
    <3>1. i + 1 \in 1 .. m /\ i + 1 \in 1 .. m + n
      BY <1>2, <2>2
    <3>2. b[i] = d[i] /\ b[i + 1] = d[i + 1] /\ i + 1 \in Readable(d) /\ i + 1 \in Readable(b)
      BY <1>2, <1>6, <3>1
    <3>3. QED
      BY <3>2, Zenon DEF CallbackOf
  <2>3. QED
    BY <2>1, <2>2
<1>8. \A i \in 1 .. n : CallbackOf(b, m + i) = CallbackOf(e, i)
  <2> SUFFICES ASSUME NEW i \in 1 .. n PROVE CallbackOf(b, m + i) = CallbackOf(e, i)
    OBVIOUS
  <2>1. b[m + i] = e[i] /\ (m + i) + 1 = m + (i + 1)
    BY <1>2
  <2>2. i + 1 \in Readable(e) <=> m + (i + 1) \in Readable(b)
    BY <1>2, <1>6
  <2>3. i + 1 \in Readable(e) => b[m + (i + 1)] = e[i + 1]
    BY <1>2, <1>6
  <2>4. QED
    BY <2>1, <2>2, <2>3, Zenon DEF CallbackOf
<1>9. PICK s, t, u : s = CallsAt(d) /\ t = CallsAt(e) /\ u = CallsAt(b)
  OBVIOUS
<1>10. /\ s \in Seq(Seq(CallbackSet(A, X))) /\ t \in Seq(Seq(CallbackSet(A, X))) /\ u \in Seq(Seq(CallbackSet(A, X)))
       /\ Len(s) = m /\ Len(t) = n /\ Len(u) = m + n
       /\ Callbacks(d) = FlattenSeq(s) /\ Callbacks(e) = FlattenSeq(t) /\ Callbacks(b) = FlattenSeq(u)
  BY <1>1, <1>2, <1>9, CallbackTypes
<1>11. /\ \A i \in 1 .. m : u[i] = s[i]
       /\ \A i \in 1 .. n : u[m + i] = t[i]
  BY <1>2, <1>7, <1>8, <1>9 DEF CallsAt
<1>12. u = s \o t
  <2>1. PICK T : T = Seq(CallbackSet(A, X))
    OBVIOUS
  <2>2. s \in Seq(T) /\ t \in Seq(T) /\ u \in Seq(T) /\ Len(s) = m /\ Len(t) = n /\ Len(u) = m + n
    BY <1>10, <2>1
  <2>3. QED
    <3>1. Joined(s, t, u)
      BY <1>11, <2>2 DEF Joined
    <3>2. QED
      BY <2>2, <3>1, IsConcat, Zenon
<1>13. FlattenSeq(u) = FlattenSeq(s) \o FlattenSeq(t)
  BY <1>10, <1>12, FlattenBoth
<1>14. QED
  BY <1>1, <1>2, <1>5, <1>10, <1>13

(* Induction up to n.                                                      *)
LEMMA UpTo ==
  ASSUME NEW n \in Nat, NEW P, 0 \in P, \A k \in Nat : k < n /\ k \in P => k + 1 \in P
  PROVE  \A k \in 0 .. n : k \in P
<1> DEFINE Bad == {k \in Nat : k <= n /\ k \notin P}
<1>1. Bad = {}
  <2> SUFFICES ASSUME Bad # {} PROVE FALSE
    OBVIOUS
  <2>1. PICK k \in Bad : \A y \in Bad : k <= y
    BY LeastOfSome, Zenon
  <2>2. k # 0 /\ k \in Nat /\ k <= n /\ k \notin P
    BY <2>1
  <2>3. k - 1 \in Nat /\ k - 1 < n /\ ~(k <= k - 1) /\ (k - 1) + 1 = k
    BY <2>2
  <2>4. k - 1 \in P
    BY <2>1, <2>3
  <2>5. QED
    BY <2>2, <2>3, <2>4
<1>2. QED
  BY <1>1

\* A start, and all that is in it.
CallOf(st, e) == [path |-> st.path, attrs |-> st.attrs, value |-> IF e[1].tag = "start" THEN Null ELSE st.text]

(* A start tag before a whole document is called back first.               *)
LEMMA CallsOfStart ==
  ASSUME NEW A, NEW X, Null \in X, NEW st \in Tags(A, X), st.tag = "start", NEW e \in Seq(Tags(A, X)), Whole(e), Len(e) > 0
  PROVE  /\ << st >> \o e \in Seq(Tags(A, X)) /\ Whole(<< st >> \o e)
         /\ Callbacks(<< st >> \o e) = << CallOf(st, e) >> \o Callbacks(e)
         /\ CallOf(st, e) \in CallbackSet(A, X)
<1>1. PICK b, n, c : b = << st >> \o e /\ n = Len(e) /\ c = CallOf(st, e)
  OBVIOUS
<1>2. /\ b \in Seq(Tags(A, X)) /\ n \in Nat /\ n > 0 /\ Len(b) = 1 + n
      /\ DOMAIN e = 1 .. n /\ DOMAIN b = 1 .. 1 + n
      /\ b[1] = st
      /\ \A i \in 1 .. n : b[1 + i] = e[i]
  BY <1>1
<1>3. \A i \in 1 .. 1 + n : i = 1 \/ \E j \in 1 .. n : i = 1 + j
  <2>1. ASSUME NEW i \in 1 .. 1 + n, i # 1 PROVE i - 1 \in 1 .. n /\ i = 1 + (i - 1)
    BY <1>2, <2>1
  <2>2. QED
    BY <2>1
<1>4. \A i \in 1 .. 1 + n : b[i].tag # "error"
  BY <1>2, <1>3 DEF Whole
<1>5. Whole(b)
  BY <1>1, <1>2, <1>4 DEF Whole
<1>6. Readable(e) = 1 .. n /\ Readable(b) = 1 .. 1 + n
  <2>1. \A k, j \in Nat : j <= k => \A i \in 1 .. j : i \in 1 .. k
    OBVIOUS
  <2>2. QED
    BY <1>2, <1>4 DEF Readable, Whole
<1>7. CallbackOf(b, 1) = << c >>
  <2>1. 1 + 1 \in Readable(b) /\ b[1 + 1] = e[1]
    BY <1>2, <1>6
  <2>2. QED
    BY <1>1, <1>2, <2>1, Zenon DEF CallbackOf, CallOf
<1>8. \A i \in 1 .. n : CallbackOf(b, 1 + i) = CallbackOf(e, i)
  <2> SUFFICES ASSUME NEW i \in 1 .. n PROVE CallbackOf(b, 1 + i) = CallbackOf(e, i)
    OBVIOUS
  <2>1. b[1 + i] = e[i] /\ (1 + i) + 1 = 1 + (i + 1)
    BY <1>2
  <2>2. i + 1 \in Readable(e) <=> 1 + (i + 1) \in Readable(b)
    BY <1>2, <1>6
  <2>3. i + 1 \in Readable(e) => b[1 + (i + 1)] = e[i + 1]
    BY <1>2, <1>6
  <2>4. QED
    BY <2>1, <2>2, <2>3, Zenon DEF CallbackOf
<1>9. PICK t, u : t = CallsAt(e) /\ u = CallsAt(b)
  OBVIOUS
<1>10. /\ t \in Seq(Seq(CallbackSet(A, X))) /\ u \in Seq(Seq(CallbackSet(A, X)))
       /\ Len(t) = n /\ Len(u) = 1 + n
       /\ Callbacks(e) = FlattenSeq(t) /\ Callbacks(b) = FlattenSeq(u)
  BY <1>1, <1>2, <1>9, CallbackTypes
<1>11. u[1] = << c >> /\ \A i \in 1 .. n : u[1 + i] = t[i]
  BY <1>2, <1>7, <1>8, <1>9 DEF CallsAt
<1>12. c \in CallbackSet(A, X)
  BY <1>1, <1>2 DEF Tags, CallbackSet, CallOf
<1>13. PICK T : T = Seq(CallbackSet(A, X))
  OBVIOUS
<1>14. << c >> \in T /\ t \in Seq(T) /\ u \in Seq(T)
  BY <1>10, <1>12, <1>13
<1>15. u = << << c >> >> \o t
  <2>1. PICK s : s = << << c >> >>
    OBVIOUS
  <2>2. s \in Seq(T) /\ Len(s) = 1 /\ s[1] = << c >>
    BY <1>14, <2>1
  <2>3. Len(u) = Len(s) + Len(t) /\ (\A i \in 1 .. Len(s) : u[i] = s[i]) /\ (\A i \in 1 .. Len(t) : u[Len(s) + i] = t[i])
    <3>1. Len(u) = Len(s) + Len(t)
      BY <1>10, <2>2
    <3>2. \A i \in 1 .. Len(s) : u[i] = s[i]
      BY <1>11, <2>2
    <3>3. \A i \in 1 .. Len(t) : u[Len(s) + i] = t[i]
      BY <1>10, <1>11, <2>2
    <3>4. QED
      BY <3>1, <3>2, <3>3
  <2>4. u = s \o t
    <3>1. Joined(s, t, u)
      BY <2>3 DEF Joined
    <3>2. QED
      BY <1>14, <2>2, <3>1, IsConcat, Zenon
  <2>5. QED
    BY <2>1, <2>4
<1>16. FlattenSeq(<< << c >> >>) = << c >>
  <2>1. << >> \in Seq(T) /\ Append(<< >>, << c >>) = << << c >> >>
    OBVIOUS
  <2>2. << c >> \in Seq(CallbackSet(A, X)) /\ << >> \in Seq(Seq(CallbackSet(A, X)))
    BY <1>12
  <2>3. FlattenSeq(Append(<< >>, << c >>)) = << >> \o << c >>
    BY <2>2, FlattenAppend
  <2>4. << >> \o << c >> = << c >>
    OBVIOUS
  <2>5. QED
    BY <2>1, <2>3, <2>4
<1>17. << << c >> >> \in Seq(Seq(CallbackSet(A, X)))
  BY <1>13, <1>14
<1>18. FlattenSeq(u) = << c >> \o FlattenSeq(t)
  BY <1>10, <1>15, <1>16, <1>17, FlattenBoth
<1>19. QED
  BY <1>1, <1>2, <1>5, <1>10, <1>12, <1>18

(* An end tag is not called back by itself.                                *)
LEMMA CallsOfEnd ==
  ASSUME NEW A, NEW X, Null \in A, Null \in X, Indent \in X, NEW name \in Names
  PROVE  End(name) \in Seq(Tags(A, X)) /\ Whole(End(name)) /\ Len(End(name)) = 1 /\ End(name)[1].tag = "end" /\ Callbacks(End(name)) = << >>
<1>1. PICK d : d = End(name)
  OBVIOUS
<1>2. d \in Seq(Tags(A, X)) /\ Len(d) = 1 /\ d[1].tag = "end" /\ DOMAIN d = {1}
  BY <1>1 DEF End, Tags
<1>3. Whole(d)
  BY <1>2 DEF Whole
<1>4. PICK s : s = CallsAt(d)
  OBVIOUS
<1>5. s \in Seq(Seq(CallbackSet(A, X))) /\ Len(s) = 1 /\ Callbacks(d) = FlattenSeq(s)
  BY <1>2, <1>4, CallbackTypes
<1>6. s[1] = << >>
  BY <1>2, <1>4 DEF CallsAt, CallbackOf
<1>7. s = Append(<< >>, << >>)
  <2>1. PICK T : T = Seq(CallbackSet(A, X))
    OBVIOUS
  <2>2. s \in Seq(T)
    BY <1>5, <2>1
  <2>3. QED
    BY <1>5, <1>6, <2>2
<1>8. << >> \in Seq(CallbackSet(A, X)) /\ << >> \in Seq(Seq(CallbackSet(A, X)))
  OBVIOUS
<1>9. FlattenSeq(s) = << >> \o << >>
  BY <1>7, <1>8, FlattenAppend
<1>10. QED
  BY <1>1, <1>2, <1>3, <1>5, <1>9

\* What is read of a leaf.
IsLeaf(A, X, name, attrs, text) ==
  /\ LeafWith(name, attrs, text) \in Seq(Tags(A, X)) /\ Whole(LeafWith(name, attrs, text))
  /\ Callbacks(LeafWith(name, attrs, text)) = << [path |-> << name >>, attrs |-> attrs, value |-> text] >>

(* An element without children is called back once, with its text.         *)
LEMMA CallsOfLeaf ==
  ASSUME NEW A, NEW X, Null \in A, Null \in X, Indent \in X, NEW name \in Names, NEW attrs \in A, NEW text \in X
  PROVE  IsLeaf(A, X, name, attrs, text)
<1>1. PICK st, e : st = [tag |-> "start", path |-> << name >>, attrs |-> attrs, text |-> text] /\ e = End(name)
  OBVIOUS
<1>2. st \in Tags(A, X) /\ st.tag = "start" /\ st.path = << name >> /\ st.attrs = attrs /\ st.text = text
  BY <1>1 DEF Tags
<1>3. e \in Seq(Tags(A, X)) /\ Whole(e) /\ Len(e) = 1 /\ e[1].tag = "end" /\ Callbacks(e) = << >>
  BY <1>1, CallsOfEnd
<1>4. LeafWith(name, attrs, text) = << st >> \o e
  BY <1>1, Zenon DEF LeafWith, Start
<1>5. PICK c : c = [path |-> << name >>, attrs |-> attrs, value |-> text]
  OBVIOUS
<1>6. /\ << st >> \o e \in Seq(Tags(A, X)) /\ Whole(<< st >> \o e)
      /\ Callbacks(<< st >> \o e) = << c >> \o << >>
  <2>1. CallOf(st, e) = c
    BY <1>2, <1>3, <1>5 DEF CallOf
  <2>2. Len(e) > 0
    BY <1>3
  <2>3. /\ << st >> \o e \in Seq(Tags(A, X)) /\ Whole(<< st >> \o e)
        /\ Callbacks(<< st >> \o e) = << CallOf(st, e) >> \o Callbacks(e)
    <3>1. \A x \in Tags(A, X), y \in Seq(Tags(A, X)) : x.tag = "start" /\ Whole(y) /\ Len(y) > 0 =>
            /\ << x >> \o y \in Seq(Tags(A, X)) /\ Whole(<< x >> \o y)
            /\ Callbacks(<< x >> \o y) = << CallOf(x, y) >> \o Callbacks(y)
      BY CallsOfStart
    <3>2. QED
      BY <1>2, <1>3, <2>2, <3>1, Zenon
  <2>4. QED
    BY <1>3, <2>1, <2>3, Zenon
<1>7. QED
  BY <1>4, <1>5, <1>6 DEF IsLeaf

(* FlattenSeq of the prefixes of a sequence, step by step.                 *)
LEMMA FlattenPrefix ==
  ASSUME NEW S, NEW s \in Seq(Seq(S))
  PROVE  /\ FlattenSeq(SubSeq(s, 1, 0)) = << >>
         /\ SubSeq(s, 1, Len(s)) = s
         /\ \A k \in Nat : k <= Len(s) => SubSeq(s, 1, k) \in Seq(Seq(S)) /\ FlattenSeq(SubSeq(s, 1, k)) \in Seq(S)
         /\ \A k \in Nat : k < Len(s) => /\ s[k + 1] \in Seq(S)
                                         /\ FlattenSeq(SubSeq(s, 1, k + 1)) = FlattenSeq(SubSeq(s, 1, k)) \o s[k + 1]
<1>1. PICK T : T = Seq(S)
  OBVIOUS
<1>2. s \in Seq(T)
  BY <1>1
<1>3. SubSeq(s, 1, 0) = << >> /\ SubSeq(s, 1, Len(s)) = s
  BY <1>2
<1>4. ASSUME NEW k \in Nat, k <= Len(s) PROVE SubSeq(s, 1, k) \in Seq(Seq(S)) /\ FlattenSeq(SubSeq(s, 1, k)) \in Seq(S)
  <2>1. PICK u : u = SubSeq(s, 1, k)
    OBVIOUS
  <2>2. u \in Seq(T)
    BY <1>2, <1>4, <2>1
  <2>3. u \in Seq(Seq(S))
    BY <1>1, <2>2
  <2>4. << >> \in Seq(S)
    OBVIOUS
  <2>5. FlattenSeq(u) \in Seq(S)
    BY <2>3, <2>4, FlattenAppend
  <2>6. QED
    BY <2>1, <2>3, <2>5
<1>5. ASSUME NEW k \in Nat, k < Len(s) PROVE /\ s[k + 1] \in Seq(S)
                                              /\ FlattenSeq(SubSeq(s, 1, k + 1)) = FlattenSeq(SubSeq(s, 1, k)) \o s[k + 1]
  <2>1. PICK u, x, v : u = SubSeq(s, 1, k) /\ x = s[k + 1] /\ v = SubSeq(s, 1, k + 1)
    OBVIOUS
  <2>2. k + 1 \in 1 .. Len(s)
    BY <1>2, <1>5
  <2>3. u \in Seq(T) /\ x \in T /\ v = Append(u, x)
    BY <1>2, <1>5, <2>1, <2>2
  <2>4. FlattenSeq(v) = FlattenSeq(u) \o x
    BY <1>1, <2>3, FlattenAppend
  <2>5. QED
    BY <1>1, <2>1, <2>3, <2>4
<1>6. FlattenSeq(<< >>) = << >>
  BY Zenon, EmptySeq DEF FlattenSeq
<1>7. QED
  BY <1>3, <1>4, <1>5, <1>6

\* F of each element.
Mapped(F, s) == [i \in DOMAIN s |-> F[s[i]]]

Maps(S, R, F) == F \in [S -> R]

MappedApart(F, s, t) == Mapped(F, s \o t) = Mapped(F, s) \o Mapped(F, t)

(* Mapping the elements of a sequence distributes over concatenation.      *)
LEMMA MappedBoth ==
  ASSUME NEW S, NEW R, NEW F, Maps(S, R, F)
  PROVE  /\ Mapped(F, << >>) = << >>
         /\ \A s \in Seq(S) : Mapped(F, s) \in Seq(R) /\ Len(Mapped(F, s)) = Len(s)
         /\ \A s, t \in Seq(S) : MappedApart(F, s, t)
<1>5. F \in [S -> R]
  BY DEF Maps
<1>1. Mapped(F, << >>) = << >>
  BY DEF Mapped
<1>2. ASSUME NEW s \in Seq(S) PROVE Mapped(F, s) \in Seq(R) /\ Len(Mapped(F, s)) = Len(s) /\ \A i \in 1 .. Len(s) : Mapped(F, s)[i] = F[s[i]]
  <2>1. Mapped(F, s) \in [1 .. Len(s) -> R] /\ Len(s) \in Nat /\ \A i \in 1 .. Len(s) : Mapped(F, s)[i] = F[s[i]]
    BY <1>5 DEF Mapped
  <2>2. QED
    BY <2>1, FunctionIsSequence
<1>3. ASSUME NEW s \in Seq(S), NEW t \in Seq(S) PROVE MappedApart(F, s, t)
  <2>1. PICK u, v, x, w, m, n : u = Mapped(F, s) /\ v = Mapped(F, t) /\ x = s \o t /\ w = Mapped(F, s \o t) /\ m = Len(s) /\ n = Len(t)
    OBVIOUS
  <2>2. /\ u \in Seq(R) /\ Len(u) = m /\ \A i \in 1 .. m : u[i] = F[s[i]]
        /\ v \in Seq(R) /\ Len(v) = n /\ \A i \in 1 .. n : v[i] = F[t[i]]
    BY <1>2, <2>1
  <2>3. x \in Seq(S) /\ Len(x) = m + n /\ (\A i \in 1 .. m : x[i] = s[i]) /\ (\A i \in 1 .. n : x[m + i] = t[i])
    BY <2>1
  <2>4. w \in Seq(R) /\ Len(w) = m + n /\ \A i \in 1 .. m + n : w[i] = F[x[i]]
    <3>1. w = Mapped(F, x)
      BY <2>1
    <3>2. Mapped(F, x) \in Seq(R) /\ Len(Mapped(F, x)) = Len(x) /\ \A i \in 1 .. Len(x) : Mapped(F, x)[i] = F[x[i]]
      BY <1>2, <2>3
    <3>3. QED
      BY <2>3, <3>1, <3>2
  <2>5. m \in Nat /\ n \in Nat
    BY <2>1
  <2>6. ASSUME NEW i \in 1 .. m PROVE w[i] = u[i]
    <3>1. i \in 1 .. m + n
      BY <2>5
    <3>2. w[i] = F[x[i]] /\ x[i] = s[i] /\ u[i] = F[s[i]]
      BY <2>2, <2>3, <2>4, <3>1
    <3>3. QED
      BY <3>2
  <2>7. ASSUME NEW i \in 1 .. n PROVE w[m + i] = v[i]
    <3>1. m + i \in 1 .. m + n
      BY <2>5
    <3>2. w[m + i] = F[x[m + i]] /\ x[m + i] = t[i] /\ v[i] = F[t[i]]
      BY <2>2, <2>3, <2>4, <3>1
    <3>3. QED
      BY <3>2
  <2>8. w = u \o v
    <3>1. u \in Seq(R) /\ v \in Seq(R) /\ w \in Seq(R) /\ Len(w) = Len(u) + Len(v)
      BY <2>2, <2>4
    <3>2. (\A i \in 1 .. Len(u) : w[i] = u[i]) /\ (\A i \in 1 .. Len(v) : w[Len(u) + i] = v[i])
      BY <2>2, <2>6, <2>7
    <3>3. Joined(u, v, w)
      BY <3>1, <3>2 DEF Joined
    <3>4. QED
      BY <3>1, <3>3, IsConcat, Zenon
  <2>9. QED
    BY <2>1, <2>8 DEF MappedApart
<1>4. QED
  BY <1>1, <1>2, <1>3

MappedEach(F, s, t) == \A i \in 1 .. Len(s) : t[i] = Mapped(F, s[i])

(* Mapping commutes with FlattenSeq.                                       *)
LEMMA FlattenMapped ==
  ASSUME NEW S, NEW R, NEW F, Maps(S, R, F), NEW s \in Seq(Seq(S)), NEW t \in Seq(Seq(R)), Len(t) = Len(s),
         MappedEach(F, s, t)
  PROVE  FlattenSeq(t) = Mapped(F, FlattenSeq(s))
<1> DEFINE Good == {k \in Nat : k <= Len(s) => FlattenSeq(SubSeq(t, 1, k)) = Mapped(F, FlattenSeq(SubSeq(s, 1, k)))}
<1>1. Len(s) \in Nat
  OBVIOUS
<1>7. /\ FlattenSeq(SubSeq(s, 1, 0)) = << >> /\ FlattenSeq(SubSeq(t, 1, 0)) = << >>
      /\ SubSeq(s, 1, Len(s)) = s /\ SubSeq(t, 1, Len(s)) = t
  BY FlattenPrefix, Zenon
<1>8. \A k \in Nat : k < Len(s) =>
        /\ FlattenSeq(SubSeq(s, 1, k)) \in Seq(S) /\ s[k + 1] \in Seq(S)
        /\ FlattenSeq(SubSeq(s, 1, k + 1)) = FlattenSeq(SubSeq(s, 1, k)) \o s[k + 1]
        /\ FlattenSeq(SubSeq(t, 1, k + 1)) = FlattenSeq(SubSeq(t, 1, k)) \o t[k + 1]
  <2>1. \A k \in Nat : k < Len(s) => k <= Len(s)
    BY <1>1
  <2>2. QED
    BY <2>1, FlattenPrefix, Zenon
<1>9. /\ Mapped(F, << >>) = << >>
      /\ \A u, v \in Seq(S) : MappedApart(F, u, v)
  BY MappedBoth
<1>2. 0 \in Good
  BY <1>7, <1>9
<1>3. ASSUME NEW k \in Nat, k < Len(s), k \in Good PROVE k + 1 \in Good
  <2>1. PICK a, b, x, y : a = FlattenSeq(SubSeq(s, 1, k)) /\ b = FlattenSeq(SubSeq(t, 1, k)) /\ x = s[k + 1] /\ y = t[k + 1]
    OBVIOUS
  <2>2. b = Mapped(F, a)
    BY <1>1, <1>3, <2>1
  <2>3. a \in Seq(S) /\ x \in Seq(S) /\ FlattenSeq(SubSeq(s, 1, k + 1)) = a \o x
    BY <1>3, <1>8, <2>1, Zenon
  <2>4. FlattenSeq(SubSeq(t, 1, k + 1)) = b \o y
    BY <1>3, <1>8, <2>1, Zenon
  <2>5. y = Mapped(F, x)
    BY <1>1, <1>3, <2>1 DEF MappedEach
  <2>6. Mapped(F, a \o x) = b \o y
    <3>1. MappedApart(F, a, x)
      BY <1>9, <2>3, Zenon
    <3>2. QED
      BY <2>2, <2>5, <3>1 DEF MappedApart
  <2>7. QED
    <3>1. FlattenSeq(SubSeq(t, 1, k + 1)) = Mapped(F, FlattenSeq(SubSeq(s, 1, k + 1)))
      BY <2>3, <2>4, <2>6
    <3>2. QED
      BY <3>1
<1> HIDE DEF Good
<1>4. \A k \in 0 .. Len(s) : k \in Good
  BY <1>1, <1>2, <1>3, UpTo
<1>5. Len(s) \in Good
  BY <1>1, <1>4
<1>6. FlattenSeq(SubSeq(t, 1, Len(s))) = Mapped(F, FlattenSeq(SubSeq(s, 1, Len(s))))
  BY <1>1, <1>5 DEF Good
<1>10. QED
  BY <1>6, <1>7

\* A callback one element deeper.
Deeper(A, X, name) == [c \in CallbackSet(A, X) |-> [c EXCEPT !.path = << name >> \o c.path]]

(* A callback one element deeper is a callback.                            *)
LEMMA DeeperTypes == ASSUME NEW A, NEW X, NEW name \in Names PROVE Maps(CallbackSet(A, X), CallbackSet(A, X), Deeper(A, X, name))
<1>1. ASSUME NEW c \in CallbackSet(A, X) PROVE [c EXCEPT !.path = << name >> \o c.path] \in CallbackSet(A, X)
  <2>1. << name >> \o c.path \in Seq(Names)
    BY DEF CallbackSet
  <2>2. QED
    BY <2>1 DEF CallbackSet
<1>2. QED
  BY <1>1 DEF Deeper, Maps

\* What is read of a document under an element.
IsUnder(A, X, name, d) ==
  /\ Under(name, d) \in Seq(Tags(A, X)) /\ Whole(Under(name, d)) /\ Len(Under(name, d)) = Len(d)
  /\ Callbacks(Under(name, d)) = Mapped(Deeper(A, X, name), Callbacks(d))

(* The document under an element is read as the document alone, each path  *)
(* one element deeper.                                                     *)
LEMMA CallsUnder ==
  ASSUME NEW A, NEW X, Null \in X, NEW name \in Names, NEW d \in Seq(Tags(A, X)), Whole(d)
  PROVE  IsUnder(A, X, name, d)
<1>1. PICK u, n : u = Under(name, d) /\ n = Len(d)
  OBVIOUS
<1>2. /\ n \in Nat /\ DOMAIN d = 1 .. n /\ DOMAIN u = 1 .. n
      /\ \A i \in 1 .. n : d[i] \in Tags(A, X) /\ u[i] = [d[i] EXCEPT !.path = << name >> \o d[i].path]
  <2>1. n \in Nat /\ DOMAIN d = 1 .. n /\ \A i \in 1 .. n : d[i] \in Tags(A, X)
    BY <1>1
  <2>2. u = [i \in 1 .. n |-> [d[i] EXCEPT !.path = << name >> \o d[i].path]]
    BY <1>1, <2>1, Zenon DEF Under
  <2>3. QED
    BY <2>1, <2>2, Zenon
<1>3. ASSUME NEW i \in 1 .. n
      PROVE  /\ u[i] \in Tags(A, X) /\ u[i].tag = d[i].tag /\ u[i].attrs = d[i].attrs /\ u[i].text = d[i].text
             /\ u[i].path = << name >> \o d[i].path
  <2>1. PICK x : x = d[i]
    OBVIOUS
  <2>2. x \in Tags(A, X) /\ u[i] = [x EXCEPT !.path = << name >> \o x.path]
    BY <1>2, <2>1
  <2>3. << name >> \o x.path \in Seq(Names)
    BY <2>2 DEF Tags
  <2>4. QED
    BY <2>1, <2>2, <2>3 DEF Tags
<1>4. u \in Seq(Tags(A, X)) /\ Len(u) = n
  <2>1. u = [i \in 1 .. n |-> u[i]]
    BY <1>1, <1>2 DEF Under
  <2>2. u \in [1 .. n -> Tags(A, X)]
    BY <1>3, <2>1
  <2>3. QED
    BY <1>2, <2>2, FunctionIsSequence
<1>5. Whole(u)
  BY <1>1, <1>2, <1>3, <1>4 DEF Whole
<1>6. Readable(d) = 1 .. n /\ Readable(u) = 1 .. n
  <2>1. \A k, j \in Nat : j <= k => \A i \in 1 .. j : i \in 1 .. k
    OBVIOUS
  <2>2. QED
    BY <1>2, <1>3, <2>1 DEF Readable, Whole
<1>7. PICK F : F = Deeper(A, X, name)
  OBVIOUS
<1>8. Maps(CallbackSet(A, X), CallbackSet(A, X), F)
  BY <1>7, DeeperTypes
<1>9. ASSUME NEW i \in 1 .. n PROVE CallbackOf(u, i) = Mapped(F, CallbackOf(d, i))
  <2>1. CASE d[i].tag = "start" /\ i + 1 \in Readable(d)
    <3>1. i + 1 \in 1 .. n /\ i + 1 \in Readable(u)
      BY <1>6, <2>1
    <3>2. PICK c, e : /\ c = [path |-> d[i].path, attrs |-> d[i].attrs, value |-> IF d[i + 1].tag = "start" THEN Null ELSE d[i].text]
                      /\ e = [path |-> u[i].path, attrs |-> u[i].attrs, value |-> IF u[i + 1].tag = "start" THEN Null ELSE u[i].text]
      OBVIOUS
    <3>3. CallbackOf(d, i) = << c >> /\ CallbackOf(u, i) = << e >>
      <4>1. u[i].tag = "start"
        BY <1>3, <2>1
      <4>2. QED
        BY <2>1, <3>1, <3>2, <4>1, Zenon DEF CallbackOf
    <3>4. c \in CallbackSet(A, X)
      BY <1>2, <3>1, <3>2 DEF Tags, CallbackSet
    <3>5. e = [c EXCEPT !.path = << name >> \o c.path]
      <4>1. u[i + 1].tag = d[i + 1].tag
        BY <1>3, <3>1
      <4>2. u[i].attrs = d[i].attrs /\ u[i].text = d[i].text /\ u[i].path = << name >> \o d[i].path
        BY <1>3
      <4>3. PICK v, p : v = (IF d[i + 1].tag = "start" THEN Null ELSE d[i].text) /\ p = << name >> \o d[i].path
        OBVIOUS
      <4>4. c = [path |-> d[i].path, attrs |-> d[i].attrs, value |-> v] /\ e = [path |-> p, attrs |-> d[i].attrs, value |-> v]
        BY <3>2, <4>1, <4>2, <4>3
      <4>5. << name >> \o c.path = p
        BY <4>3, <4>4
      <4>6. [c EXCEPT !.path = << name >> \o c.path] = [c EXCEPT !.path = p]
        BY <4>5
      <4>7. [c EXCEPT !.path = p] = [path |-> p, attrs |-> d[i].attrs, value |-> v]
        BY <4>4
      <4>8. QED
        BY <4>4, <4>6, <4>7
    <3>6. F[c] = e
      BY <1>7, <3>4, <3>5 DEF Deeper
    <3>7. Mapped(F, << c >>) = << e >>
      <4>1. PICK w : w = << c >>
        OBVIOUS
      <4>2. w \in Seq(CallbackSet(A, X)) /\ Len(w) = 1 /\ DOMAIN w = 1 .. 1 /\ w[1] = c
        BY <3>4, <4>1
      <4>3. Mapped(F, w) = [j \in 1 .. 1 |-> e]
        BY <3>6, <4>2 DEF Mapped
      <4>4. QED
        BY <4>1, <4>3
    <3>8. QED
      BY <3>3, <3>7
  <2>2. CASE ~(d[i].tag = "start" /\ i + 1 \in Readable(d))
    <3>1. CallbackOf(d, i) = << >> /\ CallbackOf(u, i) = << >>
      BY <1>3, <1>6, <2>2 DEF CallbackOf
    <3>2. QED
      BY <1>8, <3>1, MappedBoth
  <2>3. QED
    BY <2>1, <2>2
<1>10. PICK s, t : s = CallsAt(d) /\ t = CallsAt(u)
  OBVIOUS
<1>11. /\ s \in Seq(Seq(CallbackSet(A, X))) /\ Len(s) = n /\ Callbacks(d) = FlattenSeq(s)
       /\ t \in Seq(Seq(CallbackSet(A, X))) /\ Len(t) = n /\ Callbacks(u) = FlattenSeq(t)
  BY <1>1, <1>4, <1>10, CallbackTypes
<1>12. MappedEach(F, s, t)
  BY <1>2, <1>9, <1>10, <1>11 DEF CallsAt, MappedEach
<1>13. FlattenSeq(t) = Mapped(F, FlattenSeq(s))
  <2>1. s \in Seq(Seq(CallbackSet(A, X))) /\ t \in Seq(Seq(CallbackSet(A, X))) /\ Len(t) = Len(s)
    BY <1>11
  <2>2. QED
    <3>1. \A x, y \in Seq(Seq(CallbackSet(A, X))) : Len(y) = Len(x) /\ MappedEach(F, x, y) => FlattenSeq(y) = Mapped(F, FlattenSeq(x))
      BY <1>8, FlattenMapped
    <3>2. QED
      BY <1>12, <2>1, <3>1, Zenon
<1>14. QED
  BY <1>1, <1>4, <1>5, <1>7, <1>11, <1>13 DEF IsUnder

AllWhole(children) == \A i \in DOMAIN children : Whole(children[i])

\* What is read of several documents, one after the other.
Heard(s) == Callbacks(FlattenSeq(s))

\* The documents that elements with these attributes and texts are made of.
Documents(A, X, s) == s \in Seq(Seq(Tags(A, X))) /\ AllWhole(s)

(* Documents and more documents.                                           *)
LEMMA DocumentsBoth ==
  ASSUME NEW A, NEW X, NEW s, Documents(A, X, s), NEW t, Documents(A, X, t)
  PROVE  Documents(A, X, s \o t)
<1>1. PICK T : T = Seq(Tags(A, X))
  OBVIOUS
<1>2. s \in Seq(T) /\ t \in Seq(T) /\ AllWhole(s) /\ AllWhole(t)
  BY <1>1 DEF Documents
<1>3. PICK u, m, n : u = s \o t /\ m = Len(s) /\ n = Len(t)
  OBVIOUS
<1>4. /\ u \in Seq(T) /\ DOMAIN u = 1 .. m + n /\ m \in Nat /\ n \in Nat
      /\ DOMAIN s = 1 .. m /\ DOMAIN t = 1 .. n
      /\ (\A i \in 1 .. m : u[i] = s[i]) /\ (\A i \in 1 .. n : u[m + i] = t[i])
  BY <1>2, <1>3
<1>5. \A i \in 1 .. m + n : i \in 1 .. m \/ (i - m \in 1 .. n /\ i = m + (i - m))
  BY <1>4
<1>6. AllWhole(u)
  <2>1. ASSUME NEW i \in 1 .. m + n PROVE Whole(u[i])
    <3>1. CASE i \in 1 .. m
      BY <1>2, <1>4, <3>1 DEF AllWhole
    <3>2. CASE i - m \in 1 .. n /\ i = m + (i - m)
      <4>1. u[i] = t[i - m] /\ i - m \in DOMAIN t
        BY <1>4, <3>2
      <4>2. QED
        BY <1>2, <4>1 DEF AllWhole
    <3>3. QED
      BY <1>5, <3>1, <3>2
  <2>2. QED
    BY <1>4, <2>1 DEF AllWhole
<1>7. QED
  BY <1>1, <1>3, <1>4, <1>6 DEF Documents

(* One document.                                                           *)
LEMMA DocumentsOne ==
  ASSUME NEW A, NEW X, NEW d \in Seq(Tags(A, X)), Whole(d)
  PROVE  Documents(A, X, << d >>) /\ FlattenSeq(<< d >>) = d
<1>1. PICK T : T = Seq(Tags(A, X))
  OBVIOUS
<1>2. << d >> \in Seq(T) /\ AllWhole(<< d >>)
  BY <1>1 DEF AllWhole
<1>3. << >> \in Seq(T) /\ Append(<< >>, d) = << d >>
  BY <1>1
<1>4. FlattenSeq(Append(<< >>, d)) = FlattenSeq(<< >>) \o d /\ FlattenSeq(<< >>) = << >>
  BY <1>1, <1>3, FlattenAppend
<1>5. << >> \o d = d
  BY ConcatEmptySeq
<1>6. QED
  BY <1>1, <1>2, <1>3, <1>4, <1>5 DEF Documents

(* Nothing is read of an empty document.                                   *)
LEMMA NoneHeard == Callbacks(<< >>) = << >> /\ Whole(<< >>)
<1>1. CallsAt(<< >>) = << >>
  BY DEF CallsAt
<1>2. FlattenSeq(<< >>) = << >>
  BY Zenon, EmptySeq DEF FlattenSeq
<1>3. QED
  BY <1>1, <1>2 DEF Callbacks, CallsAt, Whole

(* Several documents are one document, which is read one after the other.  *)
LEMMA DocumentsWhole ==
  ASSUME NEW A, NEW X, Null \in X, NEW s, Documents(A, X, s)
  PROVE  /\ FlattenSeq(s) \in Seq(Tags(A, X)) /\ Whole(FlattenSeq(s)) /\ Heard(s) \in Seq(CallbackSet(A, X))
         /\ FlattenSeq(SubSeq(s, 1, 0)) = << >> /\ SubSeq(s, 1, Len(s)) = s
         /\ \A k \in Nat : k <= Len(s) => /\ FlattenSeq(SubSeq(s, 1, k)) \in Seq(Tags(A, X))
                                          /\ Whole(FlattenSeq(SubSeq(s, 1, k)))
         /\ \A k \in Nat : k < Len(s) => Heard(SubSeq(s, 1, k + 1)) = Heard(SubSeq(s, 1, k)) \o Callbacks(s[k + 1])
<1> DEFINE Good == {k \in Nat : k <= Len(s) => Whole(FlattenSeq(SubSeq(s, 1, k)))}
<1>0. s \in Seq(Seq(Tags(A, X))) /\ AllWhole(s)
  BY DEF Documents
<1>1. Len(s) \in Nat /\ DOMAIN s = 1 .. Len(s)
  BY <1>0
<1>2. FlattenSeq(SubSeq(s, 1, 0)) = << >> /\ SubSeq(s, 1, Len(s)) = s
  BY <1>0, FlattenPrefix, Zenon
<1>3. \A k \in Nat : k <= Len(s) => FlattenSeq(SubSeq(s, 1, k)) \in Seq(Tags(A, X))
  BY <1>0, FlattenPrefix, Zenon
<1>4. \A k \in Nat : k < Len(s) =>
        /\ FlattenSeq(SubSeq(s, 1, k)) \in Seq(Tags(A, X)) /\ s[k + 1] \in Seq(Tags(A, X)) /\ Whole(s[k + 1])
        /\ FlattenSeq(SubSeq(s, 1, k + 1)) = FlattenSeq(SubSeq(s, 1, k)) \o s[k + 1]
  <2>1. \A k \in Nat : k < Len(s) => k <= Len(s) /\ Whole(s[k + 1])
    <3>1. \A k \in Nat : k < Len(s) => k <= Len(s) /\ k + 1 \in DOMAIN s
      BY <1>1
    <3>2. QED
      BY <1>0, <3>1, Zenon DEF AllWhole
  <2>2. QED
    BY <1>0, <2>1, FlattenPrefix, Zenon
<1>5. 0 \in Good
  BY <1>2, NoneHeard
<1>6. \A x, y \in Seq(Tags(A, X)) : Whole(x) /\ Whole(y) => Whole(x \o y) /\ Callbacks(x \o y) = Callbacks(x) \o Callbacks(y)
  BY CallsOfBoth
<1>7. ASSUME NEW k \in Nat, k < Len(s), k \in Good PROVE k + 1 \in Good
  <2>1. Whole(FlattenSeq(SubSeq(s, 1, k)))
    BY <1>1, <1>7
  <2>2. Whole(FlattenSeq(SubSeq(s, 1, k)) \o s[k + 1])
    BY <1>4, <1>6, <1>7, <2>1, Zenon
  <2>3. Whole(FlattenSeq(SubSeq(s, 1, k + 1)))
    BY <1>4, <1>7, <2>2
  <2>4. QED
    BY <2>3
<1> HIDE DEF Good
<1>8. \A k \in 0 .. Len(s) : k \in Good
  BY <1>1, <1>5, <1>7, UpTo
<1>9. \A k \in Nat : k <= Len(s) => Whole(FlattenSeq(SubSeq(s, 1, k)))
  BY <1>1, <1>8 DEF Good
<1>10. \A k \in Nat : k < Len(s) => Heard(SubSeq(s, 1, k + 1)) = Heard(SubSeq(s, 1, k)) \o Callbacks(s[k + 1])
  <2> SUFFICES ASSUME NEW k \in Nat, k < Len(s) PROVE Heard(SubSeq(s, 1, k + 1)) = Heard(SubSeq(s, 1, k)) \o Callbacks(s[k + 1])
    OBVIOUS
  <2>1. PICK a, x : a = FlattenSeq(SubSeq(s, 1, k)) /\ x = s[k + 1]
    OBVIOUS
  <2>2. k <= Len(s)
    BY <1>1
  <2>3. a \in Seq(Tags(A, X)) /\ Whole(a) /\ x \in Seq(Tags(A, X)) /\ Whole(x) /\ FlattenSeq(SubSeq(s, 1, k + 1)) = a \o x
    BY <1>4, <1>9, <2>1, <2>2
  <2>4. Callbacks(a \o x) = Callbacks(a) \o Callbacks(x)
    BY <1>6, <2>3, Zenon
  <2>5. QED
    BY <2>1, <2>3, <2>4 DEF Heard
<1>11. FlattenSeq(s) \in Seq(Tags(A, X)) /\ Whole(FlattenSeq(s))
  <2>1. Len(s) <= Len(s)
    BY <1>1
  <2>2. QED
    BY <1>1, <1>2, <1>3, <1>9, <2>1
<1>12. Heard(s) \in Seq(CallbackSet(A, X))
  BY <1>11, CallbackTypes DEF Heard
<1>13. QED
  BY <1>2, <1>3, <1>9, <1>10, <1>11, <1>12

HeardApart(s, t) == Heard(s \o t) = Heard(s) \o Heard(t)

(* What is read of the children of an element distributes over             *)
(* concatenation.                                                          *)
LEMMA HeardBoth ==
  ASSUME NEW A, NEW X, Null \in X, NEW s, Documents(A, X, s), NEW t, Documents(A, X, t)
  PROVE  HeardApart(s, t)
<1>1. PICK a, b : a = FlattenSeq(s) /\ b = FlattenSeq(t)
  OBVIOUS
<1>2. a \in Seq(Tags(A, X)) /\ Whole(a) /\ b \in Seq(Tags(A, X)) /\ Whole(b)
  BY <1>1, DocumentsWhole
<1>3. FlattenSeq(s \o t) = a \o b
  BY <1>1, FlattenBoth DEF Documents
<1>4. \A x, y \in Seq(Tags(A, X)) : Whole(x) /\ Whole(y) => Callbacks(x \o y) = Callbacks(x) \o Callbacks(y)
  BY CallsOfBoth
<1>5. Callbacks(a \o b) = Callbacks(a) \o Callbacks(b)
  BY <1>2, <1>4, Zenon
<1>6. QED
  BY <1>1, <1>3, <1>5 DEF Heard, HeardApart

(* What is read of one leaf.                                               *)
LEMMA HeardOne ==
  ASSUME NEW A, NEW X, Null \in A, Null \in X, Indent \in X, NEW name \in Names, NEW attrs \in A, NEW text \in X
  PROVE  /\ Documents(A, X, << LeafWith(name, attrs, text) >>)
         /\ Heard(<< LeafWith(name, attrs, text) >>) = << [path |-> << name >>, attrs |-> attrs, value |-> text] >>
<1>1. PICK d : d = LeafWith(name, attrs, text)
  OBVIOUS
<1>2. d \in Seq(Tags(A, X)) /\ Whole(d) /\ Callbacks(d) = << [path |-> << name >>, attrs |-> attrs, value |-> text] >>
  BY <1>1, CallsOfLeaf DEF IsLeaf
<1>3. Documents(A, X, << d >>) /\ FlattenSeq(<< d >>) = d
  BY <1>2, DocumentsOne
<1>4. QED
  BY <1>1, <1>2, <1>3 DEF Heard

\* An element with others in it: its own call, whose value does not matter, and
\* theirs, one level deeper.
IsNode(A, X, name, attrs, s) ==
  /\ NodeWith(name, attrs, s) \in Seq(Tags(A, X)) /\ Whole(NodeWith(name, attrs, s))
  /\ \E v \in X : Callbacks(NodeWith(name, attrs, s)) =
                    << [path |-> << name >>, attrs |-> attrs, value |-> v] >> \o Mapped(Deeper(A, X, name), Heard(s))

(* An element is called back before its children, each of which is called  *)
(* back under it.                                                          *)
LEMMA CallsOfNode ==
  ASSUME NEW A, NEW X, Null \in A, Null \in X, Indent \in X, NEW name \in Names, NEW attrs \in A,
         NEW s, Documents(A, X, s)
  PROVE  IsNode(A, X, name, attrs, s)
<1>1. PICK st, f, u, z : /\ st = [tag |-> "start", path |-> << name >>, attrs |-> attrs, text |-> Indent]
                         /\ f = FlattenSeq(s) /\ u = Under(name, f) /\ z = End(name)
  OBVIOUS
<1>2. st \in Tags(A, X) /\ st.tag = "start" /\ st.path = << name >> /\ st.attrs = attrs
  BY <1>1 DEF Tags
<1>3. f \in Seq(Tags(A, X)) /\ Whole(f) /\ Callbacks(f) = Heard(s)
  BY <1>1, DocumentsWhole DEF Heard
<1>4. u \in Seq(Tags(A, X)) /\ Whole(u) /\ Callbacks(u) = Mapped(Deeper(A, X, name), Heard(s))
  <2>1. f \in Seq(Tags(A, X)) /\ Whole(f)
    BY <1>3
  <2>2. /\ Under(name, f) \in Seq(Tags(A, X)) /\ Whole(Under(name, f))
        /\ Callbacks(Under(name, f)) = Mapped(Deeper(A, X, name), Callbacks(f))
    <3>1. \A x \in Seq(Tags(A, X)) : Whole(x) => IsUnder(A, X, name, x)
      BY CallsUnder
    <3>2. IsUnder(A, X, name, f)
      BY <2>1, <3>1, Zenon
    <3>3. QED
      BY <3>2, Zenon DEF IsUnder
  <2>3. QED
    BY <1>1, <1>3, <2>2
<1>5. z \in Seq(Tags(A, X)) /\ Whole(z) /\ Len(z) = 1 /\ Callbacks(z) = << >>
  BY <1>1, CallsOfEnd
<1>6. PICK e : e = u \o z
  OBVIOUS
<1>7. e \in Seq(Tags(A, X)) /\ Whole(e) /\ Callbacks(e) = Callbacks(u) \o Callbacks(z) /\ Len(e) > 0
  <2>1. e \in Seq(Tags(A, X)) /\ Whole(e) /\ Callbacks(e) = Callbacks(u) \o Callbacks(z)
    <3>1. u \in Seq(Tags(A, X)) /\ Whole(u) /\ z \in Seq(Tags(A, X)) /\ Whole(z)
      BY <1>4, <1>5
    <3>2. u \o z \in Seq(Tags(A, X)) /\ Whole(u \o z) /\ Callbacks(u \o z) = Callbacks(u) \o Callbacks(z)
      <4>1. \A x, y \in Seq(Tags(A, X)) : Whole(x) /\ Whole(y) =>
              x \o y \in Seq(Tags(A, X)) /\ Whole(x \o y) /\ Callbacks(x \o y) = Callbacks(x) \o Callbacks(y)
        BY CallsOfBoth
      <4>2. QED
        BY <3>1, <4>1, Zenon
    <3>3. QED
      BY <1>6, <3>2
  <2>2. Len(e) > 0
    <3>1. PICK S : S = Tags(A, X)
      OBVIOUS
    <3>2. u \in Seq(S) /\ z \in Seq(S) /\ Len(z) = 1
      BY <1>4, <1>5, <3>1
    <3>3. Len(u \o z) = Len(u) + 1 /\ Len(u) \in Nat
      BY <3>2, LenBoth
    <3>4. QED
      BY <1>6, <3>3
  <2>3. QED
    BY <2>1, <2>2
<1>8. Callbacks(u) \in Seq(CallbackSet(A, X))
  BY <1>4, CallbackTypes
<1>9. Callbacks(e) = Callbacks(u)
  BY <1>5, <1>7, <1>8, ConcatEmptySeq
<1>10. \A x \in Tags(A, X), y \in Seq(Tags(A, X)) : x.tag = "start" /\ Whole(y) /\ Len(y) > 0 =>
         /\ << x >> \o y \in Seq(Tags(A, X)) /\ Whole(<< x >> \o y) /\ CallOf(x, y) \in CallbackSet(A, X)
         /\ Callbacks(<< x >> \o y) = << CallOf(x, y) >> \o Callbacks(y)
  BY CallsOfStart
<1>11. PICK c : c = CallOf(st, e)
  OBVIOUS
<1>12. /\ << st >> \o e \in Seq(Tags(A, X)) /\ Whole(<< st >> \o e) /\ c \in CallbackSet(A, X)
       /\ Callbacks(<< st >> \o e) = << c >> \o Callbacks(e)
  BY <1>2, <1>7, <1>10, <1>11, Zenon
<1>13. c = [path |-> << name >>, attrs |-> attrs, value |-> c.value] /\ c.value \in X
  <2>1. c.path = << name >> /\ c.attrs = attrs
    BY <1>2, <1>11 DEF CallOf
  <2>2. QED
    BY <1>12, <2>1 DEF CallbackSet
<1>14. NodeWith(name, attrs, s) = << st >> \o e
  <2>1. PICK w : w = << st >>
    OBVIOUS
  <2>2. w \in Seq(Tags(A, X))
    BY <1>2, <2>1
  <2>3. NodeWith(name, attrs, s) = (w \o u) \o z
    BY <1>1, <2>1, Zenon DEF NodeWith, Start
  <2>4. (w \o u) \o z = w \o (u \o z)
    BY <1>4, <1>5, <2>2, Associative
  <2>5. QED
    BY <1>6, <2>1, <2>3, <2>4
<1>15. QED
  BY <1>4, <1>9, <1>12, <1>13, <1>14, Zenon DEF IsNode

==============================================================================
