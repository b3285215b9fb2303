----------------------------- MODULE ByteStream -----------------------------
(***************************************************************************)
(* What a transcoded file promises its HTTP client: the bytes the encoder  *)
(* wrote, each once and in order, whatever buffers lie between.  Byte k of *)
(* the stream is the number k.                                             *)
(***************************************************************************)
EXTENDS Naturals

CONSTANT Total   \* the bytes the encoder may write

VARIABLES
  made,          \* bytes the encoder has written
  done,          \* bytes the client's reads have returned
  sent           \* sent[k]: what was returned as byte k; Total before that

vars == << made, done, sent >>

Init ==
  /\ made = 0 /\ done = 0
  /\ sent = [k \in 0 .. Total - 1 |-> Total]

Produce ==
  /\ made < Total
  /\ made' = made + 1
  /\ UNCHANGED << done, sent >>

\* A read returns some of the bytes that have been written and not yet returned.
Deliver ==
  /\ done' \in done .. made
  /\ sent' = [k \in 0 .. Total - 1 |-> IF done <= k /\ k < done' THEN k ELSE sent[k]]
  /\ UNCHANGED made

Next == Produce \/ Deliver

Spec == Init /\ [][Next]_vars
=============================================================================
