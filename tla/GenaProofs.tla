----------------------------- MODULE GenaProofs -----------------------------
(***************************************************************************)
(* Theorems about Gena for every set of connections, whichever of them     *)
(* stall and whichever threads cannot be created; about ThreadCreate, for  *)
(* the threads of the server; about GenaThreads, which is both; and about  *)
(* Exchange, for every call, whatever its texts are.                       *)
(***************************************************************************)
EXTENDS GenaThreads, Exchange, SequenceTheorems, TLAPS

(* Each variable keeps its type; what is left to visit of the list is in   *)
(* the list.                                                               *)
LEMMA TypeInit == Init => TypeOK
<1> SUFFICES ASSUME Init PROVE TypeOK
  OBVIOUS
<1>1. /\ main \in MainPoints /\ loop \in LoopPoints
      /\ gmutex \in {"free", "loop", "owner"}
      /\ running \in BOOLEAN /\ stopped \in BOOLEAN
      /\ lrunning \in BOOLEAN /\ pending \in BOOLEAN
      /\ threads \subseteq Conns /\ todo \subseteq threads
      /\ cur \in Conns \cup {NoConn}
  BY DEF Init, MainPoints, LoopPoints
<1>2. heap \in [Conns -> {"none", "live", "freed"}]
  BY DEF Init
<1>3. crunning \in [Conns -> BOOLEAN] /\ cstopped \in [Conns -> BOOLEAN] /\ file \in [Conns -> BOOLEAN]
  BY DEF Init
<1>4. cmutex \in [Conns -> {"free", "loop", "child"}]
  BY DEF Init
<1>5. cpc \in [Conns -> ChildPoints]
  BY DEF Init, ChildPoints
<1>6. QED
  BY <1>1, <1>2, <1>3, <1>4, <1>5 DEF TypeOK

(* The server starts with the invariant.                                  *)
LEMMA InitIInv == Init => IInv
  BY TypeInit, ConnsAssumption
  DEF Init, IInv, AssertNotReached, OwnerInv, LoopInv, ChildInv

(* The steps of the owner keep the invariant.                              *)
LEMMA OwnerStep == IInv /\ Owner => IInv'
<1> SUFFICES ASSUME IInv, Owner PROVE IInv'
  OBVIOUS
<1> USE ConnsAssumption DEF IInv, TypeOK, AssertNotReached, OwnerInv, LoopInv, ChildInv,
        MainPoints, LoopPoints, loopvars, childvars
<1>1. CASE OwnerCreate
  BY <1>1 DEF OwnerCreate
<1>2. CASE OwnerAwaitRunning
  BY <1>2 DEF OwnerAwaitRunning
<1>3. CASE OwnerUninit
  <2>1. CASE stopped
    BY <1>3, <2>1 DEF OwnerUninit, OwnerTestStopped
  <2>2. CASE ~stopped
    BY <1>3, <2>2 DEF OwnerUninit, OwnerTestStopped
  <2>3. QED
    BY <2>1, <2>2
<1>4. CASE OwnerAwaitStopped
  BY <1>4 DEF OwnerAwaitStopped, OwnerTestStopped
<1>5. CASE OwnerJoin
  BY <1>5 DEF OwnerJoin
<1>6. QED
  BY <1>1, <1>2, <1>3, <1>4, <1>5 DEF Owner

(* The steps of gena_loop that do not visit a particular connection.       *)
LEMMA LoopOwnStep ==
  ASSUME IInv,
         \/ LoopStart \/ LoopPoll \/ LoopIterate \/ LoopJoin \/ LoopReaped \/ LoopAwaitStopped
         \/ LoopStopped \/ LoopUnlock \/ LoopAcceptFails \/ LoopAwaitRunning \/ LoopExit \/ LoopReturn
  PROVE  IInv'
<1> USE ConnsAssumption DEF IInv, TypeOK, AssertNotReached, OwnerInv, LoopInv, ChildInv,
        MainPoints, LoopPoints, loopvars, childvars
<1>1. CASE LoopStart
  BY <1>1 DEF LoopStart, SignalOwner
<1>2. CASE LoopPoll
  BY <1>2 DEF LoopPoll
<1>3. CASE LoopIterate
  BY <1>3 DEF LoopIterate
<1>4. CASE LoopJoin
  BY <1>4 DEF LoopJoin, Joined
<1>5. CASE LoopReaped
  BY <1>5 DEF LoopReaped
<1>6. CASE LoopAwaitStopped
  BY <1>6 DEF LoopAwaitStopped
<1>7. CASE LoopStopped
  BY <1>7 DEF LoopStopped
<1>8. CASE LoopUnlock
  BY <1>8 DEF LoopUnlock
<1>9. CASE LoopAcceptFails
  BY <1>9 DEF LoopAcceptFails
<1>10. CASE LoopAwaitRunning
  BY <1>10 DEF LoopAwaitRunning
<1>11. CASE LoopExit
  BY <1>11 DEF LoopExit, SignalOwner
<1>12. CASE LoopReturn
  BY <1>12 DEF LoopReturn
<1>13. QED
  BY <1>1, <1>2, <1>3, <1>4, <1>5, <1>6, <1>7, <1>8, <1>9, <1>10, <1>11, <1>12

(* Its visits to connection c in a sweep, and its acceptance of c.         *)
LEMMA LoopVisitStep ==
  ASSUME IInv, NEW c \in Conns, LoopReap(c) \/ LoopStop(c) \/ LoopAccept(c)
  PROVE  IInv'
<1> USE ConnsAssumption DEF IInv, TypeOK, AssertNotReached, OwnerInv, LoopInv, ChildInv,
        MainPoints, LoopPoints, loopvars, childvars
<1>1. CASE LoopReap(c)
  BY <1>1 DEF LoopReap
<1>2. CASE LoopStop(c)
  <2>1. CASE cstopped[c]
    BY <1>2, <2>1 DEF LoopStop
  <2>2. CASE ~cstopped[c] /\ crunning[c]
    <3>1. /\ loop = "stop" /\ loop' = "stopsleep" /\ cur' = c /\ c \in threads
          /\ crunning' = [crunning EXCEPT ![c] = FALSE]
          /\ UNCHANGED << main, gmutex, running, stopped, lrunning, pending, threads,
                          todo, heap, cstopped, cmutex, cpc, file >>
      BY <1>2, <2>2 DEF LoopStop
    <3>2. TypeOK' /\ AssertNotReached' /\ OwnerInv' /\ LoopInv'
      BY <3>1
    <3>3. ASSUME NEW d \in Conns PROVE ChildInv(d)'
      BY <3>1
    <3>4. QED
      BY <3>2, <3>3
  <2>3. CASE ~cstopped[c] /\ ~crunning[c]
    <3>1. loop = "stop" /\ c \in threads
      BY <1>2 DEF LoopStop
    <3>2. QED
      BY <2>3, <3>1
  <2>4. QED
    BY <2>1, <2>2, <2>3
<1>3. CASE LoopAccept(c)
  BY <1>3 DEF LoopAccept, ChildPoints
<1>4. QED
  BY <1>1, <1>2, <1>3

(* The steps of the thread of connection c.                                *)
LEMMA ChildStep ==
  ASSUME IInv, NEW c \in Conns, Child(c)
  PROVE  IInv'
<1> USE ConnsAssumption DEF IInv, TypeOK, AssertNotReached, OwnerInv, LoopInv, ChildInv,
        MainPoints, LoopPoints, loopvars, childvars
<1> USE DEF Goto, ChildPoints, Exposed, SignalLoop
<1>1. CASE ChildStart(c)
  <2>1. c \notin threads
    BY <1>1 DEF ChildStart
  <2>2. CASE loop = "runsleep" /\ cur = c
    BY <1>1, <2>1, <2>2 DEF ChildStart
  <2>3. CASE ~(loop = "runsleep" /\ cur = c)
    <3>1. ~(loop = "stopsleep" /\ cur = c)
      BY <2>1
    <3>2. loop' = loop
      BY <1>1, <2>3, <3>1 DEF ChildStart
    <3>3. QED
      BY <1>1, <2>1, <3>2 DEF ChildStart
  <2>4. QED
    BY <2>2, <2>3
<1>2. CASE ChildRequest(c)
  <2>1. CASE Goto(c, "request", "header")
    <3>1. /\ cpc[c] = "request" /\ cpc' = [cpc EXCEPT ![c] = "header"]
          /\ file' = [file EXCEPT ![c] = TRUE]
          /\ UNCHANGED << main, loop, gmutex, running, stopped, lrunning, pending, threads,
                          todo, cur, heap, crunning, cstopped, cmutex >>
      BY <1>2, <2>1 DEF ChildRequest
    <3>2. TypeOK'
      BY <3>1
    <3>3. AssertNotReached' /\ OwnerInv' /\ LoopInv'
      BY <3>1
    <3>4. ASSUME NEW d \in Conns PROVE ChildInv(d)'
      BY <3>1
    <3>5. QED
      BY <3>2, <3>3, <3>4
  <2>2. CASE \E next \in {"out", "reply"} : Goto(c, "request", next)
    <3>1. UNCHANGED file
      BY <1>2, <2>2 DEF ChildRequest
    <3>2. QED
      BY <1>2, <2>2, <3>1 DEF ChildRequest
  <2>3. QED
    BY <1>2, <2>1, <2>2 DEF ChildRequest
<1>3. CASE ChildSend(c)
  BY <1>3 DEF ChildSend
<1>4. CASE ChildRead(c)
  BY <1>4 DEF ChildRead
<1>5. CASE ChildCheck(c)
  BY <1>5 DEF ChildCheck
<1>6. CASE ChildClose(c)
  BY <1>6 DEF ChildClose
<1>7. CASE ChildStop(c)
  BY <1>7 DEF ChildStop
<1>8. CASE ChildUnlock(c)
  BY <1>8 DEF ChildUnlock
<1>9. CASE ChildReturn(c)
  BY <1>9 DEF ChildReturn
<1>10. CASE ChildHeld(c)
  <2>1. PICK from \in Exposed : Goto(c, from, "held")
    BY <1>10 DEF ChildHeld
  <2>2. /\ cpc[c] \in Exposed /\ cpc' = [cpc EXCEPT ![c] = "held"]
        /\ UNCHANGED << main, loop, gmutex, running, stopped, lrunning, pending, threads,
                        todo, cur, heap, crunning, cstopped, cmutex, file >>
    BY <1>10, <2>1 DEF ChildHeld
  <2>3. TypeOK' /\ AssertNotReached' /\ OwnerInv' /\ LoopInv'
    BY <2>2
  <2>4. ASSUME NEW d \in Conns PROVE ChildInv(d)'
    BY <2>2
  <2>5. QED
    BY <2>3, <2>4
<1>11. QED
  BY <1>1, <1>2, <1>3, <1>4, <1>5, <1>6, <1>7, <1>8, <1>9, <1>10 DEF Child

(* A wakeup without a signal.                                              *)
LEMMA SpuriousStep == ASSUME IInv, SpuriousWakeup PROVE IInv'
  BY ConnsAssumption DEF IInv, TypeOK, AssertNotReached, OwnerInv, LoopInv, ChildInv,
        MainPoints, LoopPoints, loopvars, childvars,
         SpuriousWakeup, SignalOwner, SignalLoop

(* IInv is inductive.                                                      *)
LEMMA NextIInv == IInv /\ [Next]_vars => IInv'
<1> SUFFICES ASSUME IInv, [Next]_vars PROVE IInv'
  OBVIOUS
<1>1. CASE Owner
  BY <1>1, OwnerStep
<1>2. CASE Loop
  BY <1>2, LoopOwnStep, LoopVisitStep DEF Loop
<1>3. CASE SpuriousWakeup
  BY <1>3, SpuriousStep
<1>4. ASSUME NEW c \in Conns, Child(c) PROVE IInv'
  BY <1>4, ChildStep
<1>5. CASE UNCHANGED vars
  BY <1>5 DEF vars, loopvars, childvars, IInv, TypeOK, AssertNotReached,
              OwnerInv, LoopInv, ChildInv
<1>6. QED
  BY <1>1, <1>2, <1>3, <1>4, <1>5 DEF Next, Terminated

(* IInv holds in every reachable state.                                    *)
THEOREM Invariance == Spec => []IInv
<1>1. QED
  BY InitIInv, NextIInv, PTL DEF Spec

(* Every variable keeps its type, and the sweeps visit listed threads only. *)
THEOREM TypeCorrect == Spec => []TypeOK
<1>1. IInv => TypeOK
  BY DEF IInv
<1>2. QED
  BY <1>1, Invariance, PTL

(* No connection thread touches a gena_thread_t that gena_loop has freed.  *)
THEOREM NoUseAfterFreeThm == Spec => []NoUseAfterFree
<1>1. IInv => NoUseAfterFree
  BY DEF IInv, TypeOK, ChildInv, NoUseAfterFree, Alive
<1>2. QED
  BY <1>1, Invariance, PTL

(* The assert(0) of the second sweep is not reached.                       *)
THEOREM AssertNotReachedThm == Spec => []AssertNotReached
<1>1. IInv => AssertNotReached
  BY DEF IInv
<1>2. QED
  BY <1>1, Invariance, PTL

(* When upnpd_upnp_gena_uninit returns, nothing of the server is left.     *)
THEOREM ShutdownIsCleanThm == Spec => []ShutdownIsClean
<1>1. IInv => ShutdownIsClean
  BY DEF IInv, TypeOK, OwnerInv, LoopInv, ChildInv, ShutdownIsClean, Alive
<1>2. QED
  BY <1>1, Invariance, PTL

-----------------------------------------------------------------------------
(* The thread wrapper, for any threads that are created with it, whichever *)
(* of them pthread_create refuses: here those of the server.               *)

(* The handshake holds before anything is created.                         *)
LEMMA WrapperInit == T!Init => T!IInv
  BY DEF T!Init, T!IInv, T!TypeOK, T!Handshake, T!CreatorPoints, T!WorkerPoints

(* A step of the creator of t keeps the invariant.                         *)
LEMMA CreatorKeeps == ASSUME T!IInv, NEW t \in Started, T!CreatorStep(t) \/ T!Spurious(t) PROVE T!IInv'
<1> USE DEF T!IInv, T!TypeOK, T!Handshake, T!CreatorPoints, T!WorkerPoints, T!Creator, T!Worker
<1>1. CASE T!Prepare(t)
  BY <1>1 DEF T!Prepare
<1>2. CASE T!Create(t)
  BY <1>2 DEF T!Create
<1>3. CASE T!Test(t)
  BY <1>3 DEF T!Test
<1>4. CASE T!Wait(t)
  BY <1>4 DEF T!Wait
<1>5. CASE T!Wake(t)
  BY <1>5 DEF T!Wake
<1>6. CASE T!Return(t)
  BY <1>6 DEF T!Return
<1>7. CASE T!Join(t)
  BY <1>7 DEF T!Join
<1>8. CASE T!Spurious(t)
  BY <1>8 DEF T!Spurious
<1>9. QED
  BY <1>1, <1>2, <1>3, <1>4, <1>5, <1>6, <1>7, <1>8 DEF T!CreatorStep

(* A step of thread_run keeps the invariant.                               *)
LEMMA WorkerKeeps == ASSUME T!IInv, NEW t \in Started, T!WorkerStep(t) PROVE T!IInv'
<1> USE DEF T!IInv, T!TypeOK, T!Handshake, T!CreatorPoints, T!WorkerPoints, T!Creator, T!Worker
<1>1. CASE T!ReadArg(t)
  BY <1>1 DEF T!ReadArg
<1>2. CASE T!SetFlag(t)
  BY <1>2 DEF T!SetFlag
<1>3. CASE T!Signal(t)
  BY <1>3 DEF T!Signal
<1>4. CASE T!Unlock(t)
  BY <1>4 DEF T!Unlock
<1>5. CASE T!Exit(t)
  BY <1>5 DEF T!Exit
<1>6. QED
  BY <1>1, <1>2, <1>3, <1>4, <1>5 DEF T!WorkerStep

(* The handshake holds in every reachable state of the wrapper.            *)
THEOREM WrapperInvariance == T!Spec => []T!IInv
<1>1. T!IInv /\ [T!Next]_(T!vars) => T!IInv'
  <2> SUFFICES ASSUME T!IInv, [T!Next]_(T!vars) PROVE T!IInv'
    OBVIOUS
  <2>1. CASE T!Next
    BY <2>1, CreatorKeeps, WorkerKeeps DEF T!Next
  <2>2. CASE UNCHANGED T!vars
    BY <2>2 DEF T!vars, T!IInv, T!TypeOK, T!Handshake
  <2>3. QED
    BY <2>1, <2>2
<1>2. QED
  BY WrapperInit, <1>1, PTL DEF T!Spec

-----------------------------------------------------------------------------
(* The server on top of the thread wrapper.                                *)

(* Every step of the composition is a step of the server or leaves it      *)
(* alone: what is proved of module Gena holds of the composition.          *)
THEOREM ComposedIsGena == ComposedSpec => Spec
<1>1. ComposedInit => Init
  BY DEF ComposedInit
<1>2. [ComposedNext]_allvars => [Next]_vars
  <2> SUFFICES ASSUME ComposedNext PROVE Next \/ UNCHANGED vars
    BY DEF allvars
  <2>1. CASE OwnerThread
    BY <2>1 DEF OwnerThread, OwnerPrepares, OwnerCreates, OwnerAwaits, OwnerJoins, HandOver,
                Next, Owner
  <2>2. CASE LoopThread
    BY <2>2 DEF LoopThread, TakeOver, HandOver, LoopWorks, LoopPrepares, LoopCreates,
                LoopJoins, LoopReturns, Next, Loop
  <2>3. CASE SpuriousWakeups
    BY <2>3 DEF SpuriousWakeups, Next
  <2>4. ASSUME NEW c \in Conns, ConnThread(c) PROVE Next \/ UNCHANGED vars
    BY <2>4 DEF ConnThread, TakeOver, ChildWorks, Next, Child
  <2>5. CASE Terminated
    BY <2>5 DEF Next
  <2>6. QED
    BY <2>1, <2>2, <2>3, <2>4, <2>5 DEF ComposedNext
<1>3. QED
  BY <1>1, <1>2, PTL DEF ComposedSpec, Spec

(* A step of the wrapper for one of the server's threads is a step of the   *)
(* wrapper.                                                                *)
LEMMA WrapperStep ==
  ASSUME NEW t \in Started,
         \/ T!Prepare(t) \/ T!Create(t) \/ T!Join(t)
         \/ T!Test(t) \/ T!Wait(t) \/ T!Wake(t) \/ T!Return(t) \/ T!Spurious(t)
         \/ T!ReadArg(t) \/ T!SetFlag(t) \/ T!Signal(t) \/ T!Unlock(t) \/ T!Exit(t)
  PROVE  T!Next
  BY DEF T!Next, T!CreatorStep, T!WorkerStep

(* Every step of the composition is a step of the thread wrapper, for      *)
(* gena_loop or for a connection, or leaves the wrapper alone; a join is   *)
(* of a thread that exists.                                                *)
THEOREM ComposedIsThreadCreate == ComposedSpec => T!Spec
<1>1. ComposedInit => T!Init
  BY DEF ComposedInit
<1>2. IInv /\ [ComposedNext]_allvars => [T!Next]_(T!vars)
  <2> SUFFICES ASSUME IInv, ComposedNext PROVE T!Next \/ UNCHANGED tvars
    BY DEF allvars, tvars, T!vars
  <2>0. Server \in Started /\ Conns \subseteq Started
    BY DEF Started
  <2>1. CASE OwnerThread
    BY <2>0, <2>1, WrapperStep DEF OwnerThread, OwnerPrepares, OwnerCreates, OwnerJoins, HandOver
  <2>2. CASE LoopThread
    <3>1. CASE LoopJoins
      <4>1. cur \in Conns
        BY <3>1 DEF LoopJoins, LoopJoin, IInv, TypeOK, LoopInv
      <4>2. QED
        BY <2>0, <3>1, <4>1, WrapperStep DEF LoopJoins
    <3>2. ASSUME NEW c \in Conns, LoopPrepares(c) \/ LoopCreates(c) \/ HandOver(c)
          PROVE  T!Next \/ UNCHANGED tvars
      BY <2>0, <3>2, WrapperStep DEF LoopPrepares, LoopCreates, HandOver
    <3>3. CASE TakeOver(Server) \/ LoopReturns
      BY <2>0, <3>3, WrapperStep DEF TakeOver, LoopReturns
    <3>4. QED
      BY <2>2, <3>1, <3>2, <3>3 DEF LoopThread
  <2>3. CASE SpuriousWakeups
    BY <2>3, WrapperStep DEF SpuriousWakeups
  <2>4. ASSUME NEW c \in Conns, ConnThread(c) PROVE T!Next \/ UNCHANGED tvars
    BY <2>0, <2>4, WrapperStep DEF ConnThread, TakeOver
  <2>5. QED
    BY <2>1, <2>2, <2>3, <2>4 DEF ComposedNext
<1>3. QED
  BY <1>1, <1>2, ComposedIsGena, Invariance, PTL DEF ComposedSpec, T!Spec

(* In the running server thread_run never uses an argument block that its  *)
(* creator has freed.                                                      *)
THEOREM ArgOutlivesUseThm == ComposedSpec => []ArgOutlivesUse
<1>1. T!IInv => ArgOutlivesUse
  BY DEF T!IInv, T!TypeOK, T!Handshake, T!ArgOutlivesUse, ArgOutlivesUse, T!CreatorPoints, T!WorkerPoints
<1>2. QED
  BY ComposedIsThreadCreate, WrapperInvariance, <1>1, PTL

-----------------------------------------------------------------------------
\* The words of a line.
Words == {"post", "host", "length", "type", "soapaction", "get", "accept", "status", "date"}
Lined == Words \cup {"eol"}

(* A header is a sequence of words with an "eol" behind each, and one more *)
(* at its end.                                                             *)
Framed(h) ==
  /\ h \in Seq(Lined) /\ Len(h) \in Nat /\ Len(h) >= 3 /\ DOMAIN h = 1 .. Len(h)
  /\ h[1] # "eol" /\ h[Len(h)] = "eol"
  /\ \A i \in 1 .. Len(h) : h[i] # "empty"
  /\ \A i \in 1 .. Len(h) - 1 : IF h[i] = "eol" THEN i + 1 = Len(h) \/ h[i + 1] # "eol"
                                ELSE i + 1 < Len(h) /\ h[i + 1] = "eol"

\* The lines of any words make up a header.
LEMMA LinesFramed ==
  ASSUME NEW words \in Seq(Words), words # << >>
  PROVE  Framed(Lines(words)) /\ Len(Lines(words)) = 2 * Len(words) + 1
<1> DEFINE h == Lines(words)
           n == Len(words)
<1>1. n \in Nat /\ n >= 1 /\ \A i \in 1 .. n : words[i] \in Lined /\ words[i] \notin {"eol", "empty"}
  BY DEF Words, Lined
<1> HIDE DEF n
<1>2. \A i \in 1 .. 2 * n + 1 : i % 2 = 1 /\ i < 2 * n => (i + 1) \div 2 \in 1 .. n
  BY <1>1
<1>3. h = [i \in 1 .. 2 * n + 1 |-> IF i % 2 = 1 /\ i < 2 * n THEN words[(i + 1) \div 2] ELSE "eol"]
  BY DEF Lines, n
<1> HIDE DEF h
<1>4. \A i \in 1 .. 2 * n + 1 : h[i] \in Lined /\ h[i] # "empty" /\ (h[i] = "eol" <=> ~(i % 2 = 1 /\ i < 2 * n))
  <2> SUFFICES ASSUME NEW i \in 1 .. 2 * n + 1
               PROVE  h[i] \in Lined /\ h[i] # "empty" /\ (h[i] = "eol" <=> ~(i % 2 = 1 /\ i < 2 * n))
    OBVIOUS
  <2>1. CASE i % 2 = 1 /\ i < 2 * n
    <3>1. (i + 1) \div 2 \in 1 .. n
      BY <1>2, <2>1
    <3>0. h[i] = words[(i + 1) \div 2]
      BY <1>3, <2>1
    <3>2. QED
      BY <1>1, <2>1, <3>0, <3>1
  <2>2. CASE ~(i % 2 = 1 /\ i < 2 * n)
    <3>1. h[i] = "eol"
      BY <1>3, <2>2
    <3>2. QED
      <4>1. h[i] \in Lined /\ h[i] # "empty"
        <5>1. "eol" \in Lined /\ "eol" # "empty"
          BY DEF Lined
        <5>2. QED
          BY <3>1, <5>1, Zenon
      <4>2. h[i] = "eol" <=> ~(i % 2 = 1 /\ i < 2 * n)
        BY <2>2, <3>1, Zenon
      <4>3. QED
        BY <4>1, <4>2, Zenon
  <2>3. QED
    BY <2>1, <2>2
<1>5. h \in [1 .. 2 * n + 1 -> Lined]
  BY <1>3, <1>4
<1>6. h \in Seq(Lined) /\ Len(h) = 2 * n + 1
  BY <1>1, <1>5
<1>7. h[1] # "eol" /\ h[2 * n + 1] = "eol"
  <2>1. 1 \in 1 .. 2 * n + 1 /\ 2 * n + 1 \in 1 .. 2 * n + 1 /\ 1 % 2 = 1 /\ 1 < 2 * n /\ ~(2 * n + 1 < 2 * n)
    BY <1>1
  <2>2. QED
    BY <2>1, <1>4
<1>8. \A i \in 1 .. 2 * n : IF h[i] = "eol" THEN i + 1 = 2 * n + 1 \/ h[i + 1] # "eol"
                            ELSE i + 1 < 2 * n + 1 /\ h[i + 1] = "eol"
  BY <1>1, <1>4
<1>9. QED
  BY <1>1, <1>4, <1>6, <1>7, <1>8 DEF Framed, h, n

Messages == {"action", "download", "reply", "file", "error"}

\* Each of the five messages has a header of this form.
LEMMA HeadersFramed == ASSUME NEW m \in Messages PROVE Framed(Header[m])
<1>1. \A words \in Seq(Words) : words # << >> => Framed(Lines(words))
  BY LinesFramed, Zenon
<1>2. /\ \A a, b, c \in Words : << a, b, c >> \in Seq(Words) \ {<< >>}
      /\ \A a, b, c, d \in Words : << a, b, c, d >> \in Seq(Words) \ {<< >>}
      /\ \A a, b, c, d, e \in Words : << a, b, c, d, e >> \in Seq(Words) \ {<< >>}
  OBVIOUS
<1>3. /\ "post" \in Words /\ "host" \in Words /\ "length" \in Words /\ "type" \in Words /\ "soapaction" \in Words
      /\ "get" \in Words /\ "accept" \in Words /\ "status" \in Words /\ "date" \in Words
  BY DEF Words
<1>4. \A s : s \in Seq(Words) \ {<< >>} => Framed(Lines(s))
  BY <1>1, Zenon
<1>5. /\ << "post", "host", "length", "type", "soapaction" >> \in Seq(Words) \ {<< >>}
      /\ << "get", "host", "accept" >> \in Seq(Words) \ {<< >>}
      /\ << "status", "length", "type" >> \in Seq(Words) \ {<< >>}
      /\ << "status", "type", "date", "length" >> \in Seq(Words) \ {<< >>}
      /\ << "status", "type", "date" >> \in Seq(Words) \ {<< >>}
  <2>1. << "post", "host", "length", "type", "soapaction" >> \in Seq(Words) \ {<< >>}
    BY <1>2, <1>3, Zenon
  <2>2. << "get", "host", "accept" >> \in Seq(Words) \ {<< >>}
    BY <1>2, <1>3, Zenon
  <2>3. << "status", "length", "type" >> \in Seq(Words) \ {<< >>}
    BY <1>2, <1>3, Zenon
  <2>4. << "status", "type", "date", "length" >> \in Seq(Words) \ {<< >>}
    BY <1>2, <1>3, Zenon
  <2>5. << "status", "type", "date" >> \in Seq(Words) \ {<< >>}
    BY <1>2, <1>3, Zenon
  <2>6. QED
    BY <2>1, <2>2, <2>3, <2>4, <2>5
<1>6. /\ Framed(Header.action) /\ Framed(Header.download)
      /\ Framed(Header.reply) /\ Framed(Header.file) /\ Framed(Header.error)
  <2>1. /\ Header.action = Lines(<< "post", "host", "length", "type", "soapaction" >>)
        /\ Header.download = Lines(<< "get", "host", "accept" >>)
        /\ Header.reply = Lines(<< "status", "length", "type" >>)
        /\ Header.file = Lines(<< "status", "type", "date", "length" >>)
        /\ Header.error = Lines(<< "status", "type", "date" >>)
    BY DEF Header
  <2>2. QED
    BY <2>1, <1>4, <1>5, Zenon
<1>7. QED
  BY <1>6 DEF Messages

\* What is known of the length at the end of a header.
LEMMA LengthKnown ==
  /\ \A s \in Sides : \A m \in {"action", "reply", "file"} : LengthAt(s, m, Len(Header[m])) = Announced(s)
  /\ \A s \in Sides : \A m \in {"download", "error"} : LengthAt(s, m, Len(Header[m])) = None
<1>1. /\ Header.action[5] = "length" /\ 5 \in 1 .. Len(Header.action) - 1
      /\ Header.reply[3] = "length" /\ 3 \in 1 .. Len(Header.reply) - 1
      /\ Header.file[7] = "length" /\ 7 \in 1 .. Len(Header.file) - 1
  BY DEF Header, Lines
<1>2. /\ \A i \in 1 .. Len(Header.download) - 1 : Header.download[i] # "length"
      /\ \A i \in 1 .. Len(Header.error) - 1 : Header.error[i] # "length"
  BY DEF Header, Lines
<1>3. QED
  BY <1>1, <1>2, Zenon DEF LengthAt

\* gena_handler tells a GET from a POST by the first line of its header.
LEMMA GetKnown == Header.download[1] = "get" /\ \A k \in 0 .. Len(Header.action) : LineAt("action", k) # "get"
  BY DEF Header, Lines, LineAt
-----------------------------------------------------------------------------
(* Sequences.                                                              *)

\* A sequence without its first n elements.
LEMMA Dropped ==
  ASSUME NEW S, NEW q \in Seq(S), NEW n \in Nat, n <= Len(q)
  PROVE  /\ SubSeq(q, n + 1, Len(q)) \in Seq(S) /\ Len(SubSeq(q, n + 1, Len(q))) = Len(q) - n
         /\ \A i \in 1 .. Len(q) - n : SubSeq(q, n + 1, Len(q))[i] = q[n + i]
  OBVIOUS

\* The first n elements of a sequence.
LEMMA Kept ==
  ASSUME NEW S, NEW q \in Seq(S), NEW n \in Nat, n <= Len(q)
  PROVE  /\ SubSeq(q, 1, n) \in Seq(S) /\ Len(SubSeq(q, 1, n)) = n
         /\ \A i \in 1 .. n : SubSeq(q, 1, n)[i] = q[i]
  OBVIOUS

\* A sequence with another one behind it.
LEMMA Appended ==
  ASSUME NEW S, NEW q \in Seq(S), NEW r \in Seq(S)
  PROVE  /\ q \o r \in Seq(S) /\ Len(q \o r) = Len(q) + Len(r) /\ Len(q) \in Nat /\ Len(r) \in Nat
         /\ \A i \in 1 .. Len(q) : (q \o r)[i] = q[i]
         /\ \A i \in 1 .. Len(r) : (q \o r)[Len(q) + i] = r[i]
  OBVIOUS

\* Two sequences of one length that agree everywhere are one.
LEMMA Same ==
  ASSUME NEW S, NEW q \in Seq(S), NEW r \in Seq(S), Len(q) = Len(r), \A i \in 1 .. Len(r) : q[i] = r[i]
  PROVE  q = r
  OBVIOUS

\* The messages are texts.
LEMMA MessageTyped ==
  ASSUME NEW m \in Messages
  PROVE  /\ Header[m] \in Seq(Symbols) /\ Body[m] \in Seq(Symbols)
         /\ Len(Header[m]) \in Nat /\ Len(Header[m]) >= 3 /\ Len(Body[m]) \in Nat
<1>1. m \in DOMAIN Header /\ m \in DOMAIN Body
  BY DEF Messages, Header, Body
<1>2. Framed(Header[m])
  BY HeadersFramed
<1>3. Header[m] \in Seq(Symbols)
  <2>1. ToSet(Header[m]) \subseteq Symbols
    <3>1. ToSet(Header[m]) \cup ToSet(Body[m]) \in {ToSet(Header[n]) \cup ToSet(Body[n]) : n \in DOMAIN Header}
      BY <1>1, Zenon
    <3>2. QED
      BY <3>1, Zenon DEF Symbols
  <2>2. \A i \in 1 .. Len(Header[m]) : Header[m][i] \in ToSet(Header[m])
    <3>1. DOMAIN Header[m] = 1 .. Len(Header[m])
      BY <1>2 DEF Framed
    <3>2. QED
      BY <3>1, Zenon DEF ToSet
  <2>3. \A i \in 1 .. Len(Header[m]) : Header[m][i] \in Symbols
    BY <2>1, <2>2
  <2> DEFINE h == Header[m]
  <2>4. h \in Seq(Lined) /\ \A i \in 1 .. Len(h) : h[i] \in Symbols
    BY <1>2, <2>3 DEF Framed
  <2> HIDE DEF h
  <2>5. h \in Seq(Symbols)
    BY <2>4
  <2>6. QED
    BY <2>5 DEF h
<1>4. Body[m] \in Seq(Symbols)
  BY <1>1, ExchangeAssumption DEF Texts
<1>5. QED
  BY <1>2, <1>3, <1>4 DEF Framed

\* What the type invariant says of one side.
LEMMA SideTyped ==
  ASSUME ExchangeTypeOK, NEW s \in Sides
  PROVE  /\ wire[s] \in [sent : Texts, come : Nat, ended : BOOLEAN]
         /\ wire[s].sent \in Seq(Symbols) /\ Len(wire[s].sent) \in Nat
         /\ wire[s].come \in Nat /\ wire[s].come <= Len(wire[s].sent) /\ wire[s].ended \in BOOLEAN
         /\ body[s] \in Seq(Symbols) /\ Len(body[s]) \in Nat
         /\ Announced(s) \in Nat \ {0}
         /\ asked \in Messages
         /\ wire[s].sent = << >> <=> Len(wire[s].sent) = 0
<1>1. wire[s] \in [sent : Texts, come : Nat, ended : BOOLEAN] /\ wire[s].come <= Len(wire[s].sent)
      /\ body[s] \in Texts
  BY DEF ExchangeTypeOK
<1>2. wire[s].sent \in Seq(Symbols) /\ wire[s].come \in Nat /\ wire[s].ended \in BOOLEAN /\ body[s] \in Seq(Symbols)
  BY <1>1 DEF Texts
<1>3. Announced(s) \in Nat \ {0}
  <2>1. \A m \in {"action", "reply", "file"} : Body[m] \in Seq(Symbols)
    BY MessageTyped DEF Messages
  <2>2. Request \in Seq(Symbols) /\ Response \in Seq(Symbols) /\ Document \in Seq(Symbols)
    BY <2>1 DEF Body
  <2>3. Request # << >> /\ Response # << >> /\ Document # << >>
    BY ExchangeAssumption
  <2>4. \A q \in Seq(Symbols) : q # << >> => Len(q) \in Nat \ {0}
    OBVIOUS
  <2>5. QED
    BY <2>2, <2>3, <2>4 DEF Announced
<1>4. asked \in Messages
  BY DEF ExchangeTypeOK, Messages
<1>5. \A q \in Seq(Symbols) : Len(q) \in Nat /\ (q = << >> <=> Len(q) = 0)
  OBVIOUS
<1>6. QED
  BY <1>1, <1>2, <1>3, <1>4, <1>5

\* What recv leaves.
LEMMA Taken ==
  ASSUME ExchangeTypeOK, NEW s \in Sides, NEW n \in Nat, n <= wire[s].come, Take(s, n)
  PROVE  /\ wire' \in [Sides -> [sent : Texts, come : Nat, ended : BOOLEAN]]
         /\ \A r \in Sides : wire'[r].come <= Len(wire'[r].sent)
         /\ wire'[s].sent \in Seq(Symbols) /\ Len(wire'[s].sent) = Len(wire[s].sent) - n
         /\ \A i \in 1 .. Len(wire[s].sent) - n : wire'[s].sent[i] = wire[s].sent[n + i]
         /\ wire'[s].come = wire[s].come - n /\ wire'[s].ended = wire[s].ended
         /\ \A r \in Sides : r # s => wire'[r] = wire[r]
<1> DEFINE q == SubSeq(wire[s].sent, n + 1, Len(wire[s].sent))
<1>1. q \in Seq(Symbols) /\ Len(q) = Len(wire[s].sent) - n
      /\ \A i \in 1 .. Len(wire[s].sent) - n : q[i] = wire[s].sent[n + i]
  <2>1. wire[s].sent \in Seq(Symbols) /\ n <= Len(wire[s].sent)
    BY SideTyped
  <2>2. \A p \in Seq(Symbols) : n <= Len(p) =>
          /\ SubSeq(p, n + 1, Len(p)) \in Seq(Symbols) /\ Len(SubSeq(p, n + 1, Len(p))) = Len(p) - n
          /\ \A i \in 1 .. Len(p) - n : SubSeq(p, n + 1, Len(p))[i] = p[n + i]
    BY Dropped, Zenon
  <2>3. QED
    BY <2>1, <2>2, Zenon
<1>2. wire \in [Sides -> [sent : Texts, come : Nat, ended : BOOLEAN]]
  BY DEF ExchangeTypeOK
<1>3. wire' = [wire EXCEPT ![s] = [sent |-> q, come |-> wire[s].come - n, ended |-> wire[s].ended]]
  BY DEF Take
<1>4. wire[s].come - n \in Nat
  BY SideTyped
<1> HIDE DEF q
<1>5. wire'[s] = [sent |-> q, come |-> wire[s].come - n, ended |-> wire[s].ended]
  BY <1>2, <1>3
<1>6. \A r \in Sides : r # s => wire'[r] = wire[r]
  BY <1>2, <1>3
<1>7. wire' \in [Sides -> [sent : Texts, come : Nat, ended : BOOLEAN]]
  BY <1>1, <1>2, <1>3, <1>4, SideTyped DEF Texts
<1>8. \A r \in Sides : wire'[r].come <= Len(wire'[r].sent)
  <2>1. wire'[s].come <= Len(wire'[s].sent)
    BY <1>1, <1>4, <1>5, SideTyped
  <2>2. \A r \in Sides : wire[r].come <= Len(wire[r].sent)
    BY DEF ExchangeTypeOK
  <2>3. QED
    BY <1>6, <2>1, <2>2
<1>9. QED
  BY <1>1, <1>5, <1>6, <1>7, <1>8

-----------------------------------------------------------------------------
(* HasRead of a side, as a relation of what the side has: q is what is on  *)
(* its way, and e whether no more will follow; p is the program point, l   *)
(* the line, n the length and b the body; the message has header h and     *)
(* body t, and announces the length a.                                     *)
Gone(q, e) == q = << >> /\ e
SymbolOf(h, t, i) == IF i <= Len(h) THEN h[i] ELSE t[i - Len(h)]
LineOf(h, k) == IF k = 0 \/ h[k] = "eol" THEN "empty" ELSE h[k]
LengthOf(a, h, k) == IF \E i \in 1 .. k - 1 : h[i] = "length" THEN a ELSE None
OnTheWay(q, h, t, k) ==
  /\ k + Len(q) <= Len(h) + Len(t)
  /\ \A i \in 1 .. Len(q) : q[i] = SymbolOf(h, t, k + i)
HeadRead(q, e, p, l, n, b, a, h, k) ==
  /\ k < Len(h) /\ b = << >>
  /\ l = LineOf(h, k) \/ (Gone(q, e) /\ l = "empty")
  /\ n = LengthOf(a, h, k) \/ Gone(q, e)
  /\ p = "request" => k <= 1
BodyRead(q, e, n, b, a, h, t, k) ==
  \/ Gone(q, e) /\ b = << >>
  \/ /\ k = Len(h) + Len(b)
     /\ n = LengthOf(a, h, Len(h))
     /\ \A i \in 1 .. Len(b) : b[i] = t[i]
HeadPoints == {"send", "request", "header"}
BodyPoints == {"content", "rest"}
Read(q, e, p, l, n, b, a, h, t, k) ==
  /\ OnTheWay(q, h, t, k)
  /\ p \in HeadPoints => HeadRead(q, e, p, l, n, b, a, h, k)
  /\ p \in BodyPoints => BodyRead(q, e, n, b, a, h, t, k)

\* HasRead is this relation, in a state and in the next one.
LEMMA AsRead ==
  ASSUME NEW s, NEW m, NEW k
  PROVE  /\ HasRead(s, m, k) <=> Read(wire[s].sent, wire[s].ended, pc[s], line[s], length[s], body[s],
                                      Announced(s), Header[m], Body[m], k)
         /\ HasRead(s, m, k)' <=> Read(wire'[s].sent, wire'[s].ended, pc'[s], line'[s], length'[s], body'[s],
                                       Announced(s)', Header[m], Body[m], k)
<1>1. HasRead(s, m, k) <=> Read(wire[s].sent, wire[s].ended, pc[s], line[s], length[s], body[s],
                                Announced(s), Header[m], Body[m], k)
  BY Zenon DEF HasRead, Read, OnTheWay, HeadRead, BodyRead, HeadPoints, BodyPoints, Gone, Ended,
               LengthAt, LengthOf, LineAt, LineOf, Symbol, SymbolOf
<1>2. HasRead(s, m, k)' <=> Read(wire'[s].sent, wire'[s].ended, pc'[s], line'[s], length'[s], body'[s],
                                 Announced(s)', Header[m], Body[m], k)
  BY Zenon DEF HasRead, Read, OnTheWay, HeadRead, BodyRead, HeadPoints, BodyPoints, Gone, Ended,
               LengthAt, LengthOf, LineAt, LineOf, Symbol, SymbolOf
<1>3. QED
  BY <1>1, <1>2

\* What is left of a sequence behind its first j elements.
After(q, r, j) == r \in Seq(Symbols) /\ Len(r) = Len(q) - j /\ \A i \in 1 .. Len(q) - j : r[i] = q[j + i]

\* What the first elements of a sequence are.
Before(q, r) == r \in Seq(Symbols) /\ Len(r) <= Len(q) /\ \A i \in 1 .. Len(r) : r[i] = q[i]

\* A part of what is on its way may be lost with the connection.
LEMMA StillRead ==
  ASSUME NEW q \in Seq(Symbols), NEW r, Before(q, r), NEW e \in BOOLEAN, NEW f \in BOOLEAN, e => f,
         NEW h \in Seq(Symbols), NEW t \in Seq(Symbols), NEW k \in Nat,
         NEW p, NEW l, NEW n, NEW b, NEW a, Read(q, e, p, l, n, b, a, h, t, k)
  PROVE  Read(r, f, p, l, n, b, a, h, t, k)
<1>1. Gone(q, e) => Gone(r, f)
  BY DEF Gone, Before
<1>2. OnTheWay(r, h, t, k)
  <2>1. /\ k + Len(q) <= Len(h) + Len(t) /\ \A i \in 1 .. Len(q) : q[i] = SymbolOf(h, t, k + i)
        /\ Len(q) \in Nat /\ Len(h) \in Nat /\ Len(t) \in Nat
    BY LenProperties, Zenon DEF OnTheWay, Read
  <2>2. /\ Len(r) \in Nat /\ Len(r) <= Len(q) /\ \A i \in 1 .. Len(r) : r[i] = q[i]
    BY DEF Before
  <2>3. k + Len(r) <= Len(h) + Len(t)
    BY <2>1, <2>2
  <2>4. \A i \in 1 .. Len(r) : i \in 1 .. Len(q)
    BY <2>1, <2>2
  <2>5. QED
    BY <2>1, <2>2, <2>3, <2>4, Zenon DEF OnTheWay
<1>3. QED
  BY <1>1, <1>2, Zenon DEF Read, HeadRead, BodyRead

\* Where j symbols have been taken, what is left is on its way behind them.
LEMMA OnTheWayOn ==
  ASSUME NEW q \in Seq(Symbols), NEW r, NEW j \in Nat, j >= 1, j <= Len(q), After(q, r, j),
         NEW h \in Seq(Symbols), NEW t \in Seq(Symbols), NEW k \in Nat, OnTheWay(q, h, t, k), NEW e
  PROVE  ~Gone(q, e) /\ OnTheWay(r, h, t, k + j)
<1>1. ~Gone(q, e)
  BY DEF Gone
<1>2. k + j + Len(r) <= Len(h) + Len(t)
  BY DEF After, OnTheWay
<1>3. ASSUME NEW i \in 1 .. Len(r) PROVE r[i] = SymbolOf(h, t, k + j + i)
  <2>1. r[i] = q[j + i] /\ j + i \in 1 .. Len(q)
    BY DEF After
  <2>2. q[j + i] = SymbolOf(h, t, k + (j + i))
    BY <2>1 DEF OnTheWay
  <2>3. k + (j + i) = k + j + i
    OBVIOUS
  <2>4. QED
    BY <2>1, <2>2, <2>3
<1>4. QED
  BY <1>1, <1>2, <1>3 DEF OnTheWay

\* One more symbol of a header that is no "eol".
LEMMA CharRead ==
  ASSUME NEW q \in Seq(Symbols), NEW r, 1 <= Len(q), After(q, r, 1), q[1] # "eol",
         NEW h \in Seq(Symbols), Framed(h), NEW t \in Seq(Symbols), NEW k \in Nat,
         NEW p \in {"request", "header"}, NEW l, NEW n, NEW b, NEW a, NEW e,
         Read(q, e, p, l, n, b, a, h, t, k)
  PROVE  Read(r, e, p, q[1], n, b, a, h, t, k + 1)
<1>1. ~Gone(q, e) /\ OnTheWay(r, h, t, k + 1)
  BY OnTheWayOn DEF Read
<1>2. HeadRead(q, e, p, l, n, b, a, h, k)
  BY DEF Read, HeadPoints
<1>3. /\ Len(h) >= 3 /\ h[1] # "eol" /\ h[Len(h)] = "eol"
      /\ \A i \in 1 .. Len(h) : h[i] # "empty"
      /\ \A i \in 1 .. Len(h) - 1 : h[i] = "eol" => i + 1 = Len(h) \/ h[i + 1] # "eol"
      /\ \A i \in 1 .. Len(h) - 1 : h[i] # "eol" => i + 1 < Len(h) /\ h[i + 1] = "eol"
  BY Zenon DEF Framed
<1>4. k < Len(h) /\ k \in 0 .. Len(h) - 1 /\ k + 1 \in 1 .. Len(h)
  BY <1>2 DEF HeadRead
<1>5. q[1] = h[k + 1]
  BY <1>4 DEF Read, OnTheWay, SymbolOf
<1>6. k + 1 < Len(h)
  BY <1>3, <1>4, <1>5
<1>7. k = 0 \/ (k \in 1 .. Len(h) - 1 /\ h[k] = "eol")
  BY <1>3, <1>4, <1>5
<1>8. LengthOf(a, h, k + 1) = LengthOf(a, h, k)
  <2>1. ASSUME NEW i \in 1 .. k, h[i] = "length" PROVE i \in 1 .. k - 1
    BY <1>7, <2>1
  <2>2. \A i \in 1 .. k - 1 : i \in 1 .. (k + 1) - 1
    OBVIOUS
  <2>3. \A i \in 1 .. (k + 1) - 1 : i \in 1 .. k
    OBVIOUS
  <2>4. (\E i \in 1 .. (k + 1) - 1 : h[i] = "length") <=> (\E i \in 1 .. k - 1 : h[i] = "length")
    BY <2>1, <2>2, <2>3
  <2>5. QED
    BY <2>4, Zenon DEF LengthOf
<1>9. q[1] = LineOf(h, k + 1)
  BY <1>5 DEF LineOf
<1>10. p = "request" => k + 1 <= 1
  BY <1>2, <1>3, <1>7 DEF HeadRead
<1>11. HeadRead(r, e, p, q[1], n, b, a, h, k + 1)
  BY <1>1, <1>2, <1>6, <1>8, <1>9, <1>10, Zenon DEF HeadRead
<1>12. p \notin BodyPoints
  BY DEF BodyPoints
<1>13. QED
  BY <1>1, <1>11, <1>12, Zenon DEF Read

\* The end of a line of a header.
LEMMA LineRead ==
  ASSUME NEW q \in Seq(Symbols), NEW r, 1 <= Len(q), After(q, r, 1), q[1] = "eol",
         NEW h \in Seq(Symbols), Framed(h), NEW t \in Seq(Symbols), NEW k \in Nat,
         NEW p \in {"request", "header"}, NEW l, NEW n, NEW b, NEW a, NEW e,
         NEW p2, NEW n2, p2 # "request" /\ p2 # "send",
         l = "empty" => p2 # "header" /\ n2 = n,
         l # "empty" => p2 = "header" /\ n2 = IF l = "length" THEN a ELSE n,
         Read(q, e, p, l, n, b, a, h, t, k)
  PROVE  Read(r, e, p2, "empty", n2, b, a, h, t, k + 1)
<1>1. ~Gone(q, e) /\ OnTheWay(r, h, t, k + 1)
  BY OnTheWayOn DEF Read
<1>2. HeadRead(q, e, p, l, n, b, a, h, k)
  BY DEF Read, HeadPoints
<1>3. /\ Len(h) >= 3 /\ h[1] # "eol" /\ h[Len(h)] = "eol"
      /\ \A i \in 1 .. Len(h) : h[i] # "empty"
      /\ \A i \in 1 .. Len(h) - 1 : h[i] = "eol" => i + 1 = Len(h) \/ h[i + 1] # "eol"
      /\ \A i \in 1 .. Len(h) - 1 : h[i] # "eol" => i + 1 < Len(h) /\ h[i + 1] = "eol"
  BY Zenon DEF Framed
<1>4. k < Len(h) /\ k \in 0 .. Len(h) - 1 /\ k + 1 \in 1 .. Len(h)
  BY <1>2 DEF HeadRead
<1>5. h[k + 1] = "eol"
  BY <1>4 DEF Read, OnTheWay, SymbolOf
<1>6. k \in 1 .. Len(h) - 1
  BY <1>3, <1>4, <1>5
<1>7. b = << >> /\ l = LineOf(h, k) /\ n = LengthOf(a, h, k)
  BY <1>1, <1>2 DEF HeadRead
<1>8. l = IF h[k] = "eol" THEN "empty" ELSE h[k]
  BY <1>6, <1>7 DEF LineOf
<1>9. LengthOf(a, h, k + 1) = IF h[k] = "length" THEN a ELSE n
  <2>1. (\E i \in 1 .. (k + 1) - 1 : h[i] = "length")
          <=> (h[k] = "length" \/ \E i \in 1 .. k - 1 : h[i] = "length")
    <3>1. \A i : i \in 1 .. (k + 1) - 1 <=> i = k \/ i \in 1 .. k - 1
      BY <1>6
    <3>2. QED
      BY <3>1, Zenon
  <2>2. QED
    BY <1>7, <2>1, Zenon DEF LengthOf
<1>10. CASE l = "empty"
  <2>1. h[k] = "eol"
    BY <1>3, <1>6, <1>8, <1>10
  <2>2. k + 1 = Len(h)
    BY <1>3, <1>5, <1>6, <2>1
  <2>3. n2 = LengthOf(a, h, Len(h)) /\ k + 1 = Len(h) + Len(b)
    <3>1. Len(b) = 0
      BY <1>7
    <3>2. n2 = n /\ "eol" # "length"
      BY <1>10
    <3>3. QED
      BY <1>9, <2>1, <2>2, <3>1, <3>2
  <2>4. \A i \in 1 .. Len(b) : b[i] = t[i]
    BY <1>7
  <2>5. BodyRead(r, e, n2, b, a, h, t, k + 1)
    BY <2>3, <2>4, Zenon DEF BodyRead
  <2>6. p2 \notin HeadPoints
    BY <1>10 DEF HeadPoints
  <2>7. QED
    BY <1>1, <2>5, <2>6, Zenon DEF Read
<1>11. CASE l # "empty"
  <2>1. h[k] # "eol" /\ l = h[k]
    BY <1>8, <1>11
  <2>2. k + 1 < Len(h)
    BY <1>3, <1>6, <2>1
  <2>3. n2 = LengthOf(a, h, k + 1)
    BY <1>9, <1>11, <2>1
  <2>4. "empty" = LineOf(h, k + 1)
    BY <1>4, <1>5 DEF LineOf
  <2>5. HeadRead(r, e, p2, "empty", n2, b, a, h, k + 1)
    <3>1. p2 # "request"
      OBVIOUS
    <3>2. QED
      BY <1>7, <2>2, <2>3, <2>4, <3>1, Zenon DEF HeadRead
  <2>6. p2 \notin BodyPoints
    BY <1>11 DEF BodyPoints
  <2>7. QED
    BY <1>1, <2>5, <2>6, Zenon DEF Read
<1>12. QED
  BY <1>10, <1>11

\* The end of the connection in a header.
LEMMA NothingRead ==
  ASSUME NEW q, NEW e, Gone(q, e), NEW h, NEW t, NEW k, NEW p \in {"request", "header"},
         NEW l, NEW n, NEW b, NEW a, NEW p2, NEW n2, p2 # "request",
         Read(q, e, p, l, n, b, a, h, t, k)
  PROVE  Read(q, e, p2, "empty", n2, b, a, h, t, k)
<1>1. HeadRead(q, e, p, l, n, b, a, h, k)
  BY DEF Read, HeadPoints
<1>2. QED
  BY <1>1, Zenon DEF Read, HeadRead, BodyRead

\* The symbols of a message.
LEMMA SymbolsOf ==
  ASSUME NEW h \in Seq(Symbols), NEW t
  PROVE  /\ \A i \in Nat : i <= Len(h) => SymbolOf(h, t, i) = h[i]
         /\ \A i \in Nat : i > Len(h) => SymbolOf(h, t, i) = t[i - Len(h)]
  BY DEF SymbolOf

\* The first j of the symbols q have been put behind the body b, which is then c.
Gained(q, b, c, j) ==
  /\ q \in Seq(Symbols) /\ j \in Nat /\ j >= 1 /\ j <= Len(q)
  /\ b \in Seq(Symbols) /\ c \in Seq(Symbols) /\ Len(c) = Len(b) + j
  /\ \A i \in 1 .. Len(b) : c[i] = b[i]
  /\ \A i \in 1 .. j : c[Len(b) + i] = q[i]

\* A body of which more has been read is still the one of its message.
LEMMA BodyReadOn ==
  ASSUME NEW q, NEW r, NEW j, NEW b, NEW c, Gained(q, b, c, j), After(q, r, j),
         NEW h \in Seq(Symbols), NEW t \in Seq(Symbols), NEW k \in Nat,
         NEW p \in BodyPoints, NEW l, NEW n, NEW a, NEW e, Read(q, e, p, l, n, b, a, h, t, k)
  PROVE  Read(r, e, p, l, n, c, a, h, t, k + j)
<1> USE DEF Gained
<1>1. ~Gone(q, e) /\ OnTheWay(r, h, t, k + j)
  BY OnTheWayOn DEF Read
<1>2. k = Len(h) + Len(b) /\ n = LengthOf(a, h, Len(h)) /\ \A i \in 1 .. Len(b) : b[i] = t[i]
  BY <1>1 DEF Read, BodyPoints, BodyRead
<1>4. ASSUME NEW i \in 1 .. Len(c) PROVE c[i] = t[i]
  <2>1. CASE i <= Len(b)
    BY <1>2, <2>1
  <2>2. CASE i > Len(b)
    <3> DEFINE x == i - Len(b)
    <3>1. x \in 1 .. j /\ x \in 1 .. Len(q) /\ i = Len(b) + x /\ ~(k + x <= Len(h)) /\ k + x - Len(h) = i
      BY <1>2, <2>2
    <3> HIDE DEF x
    <3>2. c[i] = q[x]
      BY <3>1
    <3>3. q[x] = SymbolOf(h, t, k + x)
      BY <3>1 DEF Read, OnTheWay
    <3>4. SymbolOf(h, t, k + x) = t[i]
      <4>1. PICK y \in Nat : y = k + x
        BY <3>1
      <4>2. y > Len(h) /\ y - Len(h) = i
        BY <3>1, <4>1
      <4>3. SymbolOf(h, t, y) = t[y - Len(h)]
        BY <4>2, SymbolsOf
      <4>4. SymbolOf(h, t, y) = t[i]
        BY <4>2, <4>3, Zenon
      <4>5. QED
        BY <4>1, <4>4, Zenon
    <3>5. QED
      BY <3>2, <3>3, <3>4
  <2>3. QED
    BY <2>1, <2>2
<1>5. k + j = Len(h) + Len(c)
  BY <1>2
<1>6. p \notin HeadPoints
  BY DEF HeadPoints, BodyPoints
<1>7. QED
  BY <1>1, <1>2, <1>4, <1>5, <1>6, Zenon DEF Read, BodyRead

\* More of a message is sent.
LEMMA MoreSent ==
  ASSUME NEW q \in Seq(Symbols), NEW u \in Seq(Symbols),
         NEW h \in Seq(Symbols), NEW t \in Seq(Symbols), NEW k \in Nat,
         k + Len(q) + Len(u) <= Len(h) + Len(t),
         \A i \in 1 .. Len(u) : u[i] = SymbolOf(h, t, k + Len(q) + i),
         NEW p, NEW l, NEW n, NEW b, NEW a, Read(q, FALSE, p, l, n, b, a, h, t, k)
  PROVE  Read(q \o u, FALSE, p, l, n, b, a, h, t, k)
<1> DEFINE r == q \o u
<1>1. ~Gone(q, FALSE)
  BY DEF Gone
<1>2. r \in Seq(Symbols) /\ Len(r) = Len(q) + Len(u)
      /\ (\A i \in 1 .. Len(q) : r[i] = q[i])
      /\ \A i \in 1 .. Len(u) : r[Len(q) + i] = u[i]
  BY Appended
<1> HIDE DEF r
<1>3. OnTheWay(r, h, t, k)
  <2>1. k + Len(r) <= Len(h) + Len(t)
    BY <1>2
  <2>2. ASSUME NEW i \in 1 .. Len(r) PROVE r[i] = SymbolOf(h, t, k + i)
    <3>1. CASE i <= Len(q)
      BY <1>2, <3>1 DEF Read, OnTheWay
    <3>2. CASE i > Len(q)
      <4> DEFINE x == i - Len(q)
      <4>1. x \in 1 .. Len(u) /\ i = Len(q) + x /\ k + Len(q) + x = k + i
        BY <1>2, <3>2
      <4> HIDE DEF x
      <4>2. r[i] = u[x]
        BY <1>2, <4>1
      <4>3. u[x] = SymbolOf(h, t, k + i)
        BY <4>1
      <4>4. QED
        BY <4>2, <4>3
    <3>3. QED
      BY <1>2, <3>1, <3>2
  <2>3. QED
    BY <2>1, <2>2 DEF OnTheWay
<1>4. Read(r, FALSE, p, l, n, b, a, h, t, k)
  BY <1>1, <1>3, Zenon DEF Read, HeadRead, BodyRead
<1>5. QED
  BY <1>4 DEF r

\* A message begins where nothing has been sent.
LEMMA Begun ==
  ASSUME NEW u \in Seq(Symbols), NEW h \in Seq(Symbols), Framed(h), NEW t \in Seq(Symbols),
         NEW h2 \in Seq(Symbols), Framed(h2), NEW t2 \in Seq(Symbols),
         Len(u) <= Len(h2) + Len(t2), \A i \in 1 .. Len(u) : u[i] = SymbolOf(h2, t2, i),
         NEW p, NEW l, NEW n, NEW b, NEW a, NEW e, Read(<< >>, FALSE, p, l, n, b, a, h, t, 0)
  PROVE  Read(u, e, p, l, n, b, a, h2, t2, 0)
<1>1. ~Gone(<< >>, FALSE)
  BY DEF Gone
<1>2. OnTheWay(u, h2, t2, 0)
  <2>1. 0 + Len(u) <= Len(h2) + Len(t2)
    OBVIOUS
  <2>2. \A i \in 1 .. Len(u) : u[i] = SymbolOf(h2, t2, i) /\ 0 + i = i
    OBVIOUS
  <2>3. QED
    BY <2>1, <2>2 DEF OnTheWay
<1>3. Len(h) >= 3 /\ Len(h2) >= 3
  BY DEF Framed
<1>4. ASSUME p \in BodyPoints PROVE FALSE
  <2>1. BodyRead(<< >>, FALSE, n, b, a, h, t, 0)
    BY <1>4 DEF Read
  <2>2. 0 = Len(h) + Len(b) /\ \A i \in 1 .. Len(b) : b[i] = t[i]
    BY <1>1, <2>1 DEF BodyRead
  <2>3. QED
    BY <1>3, <2>2
<1>5. ASSUME p \in HeadPoints PROVE HeadRead(u, e, p, l, n, b, a, h2, 0)
  <2>1. HeadRead(<< >>, FALSE, p, l, n, b, a, h, 0)
    BY <1>5 DEF Read
  <2>2. l = LineOf(h, 0) /\ n = LengthOf(a, h, 0) /\ b = << >>
    BY <1>1, <2>1 DEF HeadRead
  <2>3. LineOf(h, 0) = LineOf(h2, 0)
    BY DEF LineOf
  <2>4. LengthOf(a, h, 0) = LengthOf(a, h2, 0)
    <3>1. \A i : i \notin 1 .. 0 - 1
      OBVIOUS
    <3>2. QED
      BY <3>1, Zenon DEF LengthOf
  <2>5. 0 < Len(h2) /\ 0 <= 1
    BY <1>3
  <2>6. QED
    BY <2>2, <2>3, <2>4, <2>5, Zenon DEF HeadRead
<1>6. QED
  BY <1>2, <1>4, <1>5 DEF Read

-----------------------------------------------------------------------------
(* What a step leaves alone.                                               *)
ClientPoints == {"send", "header", "content", "rest", "fail", "done"}
ServerPoints == {"request", "header", "content", "refuse", "reply", "response", "file", "pieces", "close", "done"}

\* The program points of each side, from the type invariant.
LEMMA PointsTyped ==
  ASSUME ExchangeTypeOK
  PROVE  pc \in [Sides -> ClientPoints \cup ServerPoints] /\ pc["client"] \in ClientPoints /\ pc["server"] \in ServerPoints
<1>1. pc \in [client : ClientPoints, server : ServerPoints]
  BY DEF ExchangeTypeOK, ClientPoints, ServerPoints
<1>2. pc.client \in ClientPoints /\ pc.server \in ServerPoints
  BY <1>1
<1>3. pc = [client |-> pc.client, server |-> pc.server]
  BY <1>1
<1>4. pc \in [Sides -> ClientPoints \cup ServerPoints]
  BY <1>2, <1>3 DEF Sides
<1>5. QED
  BY <1>2, <1>4

\* Proceed moves one side, and leaves the point of the other one alone.
LEMMA Proceeds ==
  ASSUME ExchangeTypeOK, NEW s \in Sides, NEW v, Proceed(s, v)
  PROVE  /\ pc'[s] = v /\ \A r \in Sides : r # s => pc'[r] = pc[r]
         /\ (s = "client" /\ v \in ClientPoints) \/ (s = "server" /\ v \in ServerPoints)
              => pc' \in [client : ClientPoints, server : ServerPoints]
<1>1. pc' = [pc EXCEPT ![s] = v] /\ pc \in [Sides -> ClientPoints \cup ServerPoints]
  BY PointsTyped DEF Proceed
<1>2. pc'[s] = v /\ \A r \in Sides : r # s => pc'[r] = pc[r]
  BY <1>1
<1>3. pc' = [client |-> pc'["client"], server |-> pc'["server"]]
  BY <1>1 DEF Sides
<1>4. ASSUME (s = "client" /\ v \in ClientPoints) \/ (s = "server" /\ v \in ServerPoints)
      PROVE  pc' \in [client : ClientPoints, server : ServerPoints]
  BY <1>2, <1>3, <1>4, PointsTyped DEF Sides
<1>5. QED
  BY <1>2, <1>4

\* What is known of the wires, of what is read, and of the call.
WireOK(w) == w \in [Sides -> [sent : Texts, come : Nat, ended : BOOLEAN]] /\ \A s \in Sides : w[s].come <= Len(w[s].sent)

\* What Send makes of the wires: the text is behind what was sent, or lost.
LEMMA Sends ==
  ASSUME ExchangeTypeOK, NEW to \in Sides, NEW text \in Seq(Symbols), Send(to, text)
  PROVE  /\ WireOK(wire') /\ \A r \in Sides : r # to => wire'[r] = wire[r]
         /\ \/ ~broken /\ wire'[to].sent = wire[to].sent \o text
               /\ wire'[to].come = wire[to].come /\ wire'[to].ended = wire[to].ended
            \/ (broken \/ pc[to] = "done") /\ wire' = wire
<1>1. CASE (broken \/ pc[to] = "done") /\ wire' = wire
  BY <1>1 DEF ExchangeTypeOK, WireOK
<1>2. CASE ~broken /\ wire' = [wire EXCEPT ![to].sent = @ \o text]
  <2> DEFINE q == wire[to].sent \o text
  <2>1. wire \in [Sides -> [sent : Texts, come : Nat, ended : BOOLEAN]] /\ wire[to] \in [sent : Texts, come : Nat, ended : BOOLEAN]
    BY DEF ExchangeTypeOK
  <2>2. wire' = [wire EXCEPT ![to] = [wire[to] EXCEPT !.sent = q]]
    BY <1>2, <2>1
  <2>3. q \in Seq(Symbols) /\ Len(q) = Len(wire[to].sent) + Len(text) /\ Len(text) \in Nat
    BY SideTyped, Appended
  <2>4. q \in Texts /\ Len(q) >= wire[to].come
    BY <2>3, SideTyped DEF Texts
  <2> HIDE DEF q
  <2>5. wire'[to] = [wire[to] EXCEPT !.sent = q] /\ \A r \in Sides : r # to => wire'[r] = wire[r]
    BY <2>1, <2>2
  <2>6. wire'[to].sent = q /\ wire'[to].come = wire[to].come /\ wire'[to].ended = wire[to].ended
    BY <2>1, <2>5
  <2>7. wire'[to] \in [sent : Texts, come : Nat, ended : BOOLEAN]
    BY <2>1, <2>4, <2>5
  <2>8. wire' \in [Sides -> [sent : Texts, come : Nat, ended : BOOLEAN]]
    BY <2>1, <2>2, <2>7, <2>5
  <2>9. \A s \in Sides : wire'[s].come <= Len(wire'[s].sent)
    BY <2>4, <2>5, <2>6 DEF ExchangeTypeOK
  <2>10. QED
    BY <1>2, <2>5, <2>6, <2>8, <2>9 DEF WireOK, q
<1>3. QED
  BY <1>1, <1>2, Zenon DEF Send

\* What the end of a connection makes of the wires.
LEMMA EndsWire ==
  ASSUME ExchangeTypeOK, NEW s \in Sides, wire' = [wire EXCEPT ![s].ended = TRUE]
  PROVE  /\ WireOK(wire') /\ \A r \in Sides : r # s => wire'[r] = wire[r]
         /\ wire'[s].sent = wire[s].sent /\ wire'[s].come = wire[s].come /\ wire'[s].ended
<1>1. wire \in [Sides -> [sent : Texts, come : Nat, ended : BOOLEAN]] /\ wire[s] \in [sent : Texts, come : Nat, ended : BOOLEAN]
  BY DEF ExchangeTypeOK
<1>2. wire'[s] = [wire[s] EXCEPT !.ended = TRUE] /\ \A r \in Sides : r # s => wire'[r] = wire[r]
  BY <1>1
<1>3. wire'[s].sent = wire[s].sent /\ wire'[s].come = wire[s].come /\ wire'[s].ended
  BY <1>1, <1>2
<1>4. wire' \in [Sides -> [sent : Texts, come : Nat, ended : BOOLEAN]]
  BY <1>1, <1>2
<1>5. \A r \in Sides : wire'[r].come <= Len(wire'[r].sent)
  BY <1>2, <1>3 DEF ExchangeTypeOK
<1>6. QED
  BY <1>2, <1>3, <1>4, <1>5 DEF WireOK

\* What recv makes of the wires: the first n symbols are gone from one of them.
LEMMA Takes ==
  ASSUME ExchangeTypeOK, NEW s \in Sides, NEW n \in Nat, n <= wire[s].come, Take(s, n)
  PROVE  /\ WireOK(wire') /\ \A r \in Sides : r # s => wire'[r] = wire[r]
         /\ After(wire[s].sent, wire'[s].sent, n)
         /\ wire'[s].ended = wire[s].ended
  BY Taken, Zenon DEF WireOK, After

\* The end of a header.
LEMMA EndsHeader ==
  ASSUME ExchangeTypeOK, NEW s \in Sides, EndHeader(s)
  PROVE  \E v : /\ Proceed(s, v) /\ v \notin {"send", "request", "header", "done"}
                /\ s = "server" =>
                     /\ v \in {"file", "refuse", "content"}
                     /\ v = "file" <=> "get" \in named["server"]
                     /\ v = "content" => length["server"] = Announced("server")
                /\ s = "client" =>
                     /\ v \in {"rest", "fail", "content"}
                     /\ v = "content" => length["client"] = Announced("client") /\ length["client"] # None
                     /\ v = "rest" => length["client"] = None
<1>0. length[s] \in {None, 0, Announced(s)}
  BY DEF ExchangeTypeOK
<1>1. CASE s = "server"
  <2> DEFINE v == IF "get" \in named[s] THEN "file"
                  ELSE IF length[s] \in {None, 0} \/ ~{"host", "soapaction"} \subseteq named[s] THEN "refuse"
                  ELSE "content"
  <2>1. Proceed(s, v)
    BY <1>1, Zenon DEF EndHeader
  <2>2. v \in {"file", "refuse", "content"} /\ (v = "file" <=> "get" \in named["server"])
    BY <1>1
  <2>3. v = "content" => length["server"] = Announced("server")
    BY <1>0, <1>1
  <2> HIDE DEF v
  <2>4. QED
    BY <1>1, <2>1, <2>2, <2>3
<1>2. CASE s = "client"
  <2> DEFINE v == IF length[s] = None THEN "rest" ELSE IF length[s] = 0 THEN "fail" ELSE "content"
  <2>1. Proceed(s, v)
    BY <1>2, Zenon DEF EndHeader
  <2>2. v \in {"rest", "fail", "content"}
    OBVIOUS
  <2>3. (v = "content" => length["client"] = Announced("client") /\ length["client"] # None)
        /\ (v = "rest" => length["client"] = None)
    BY <1>0, <1>2
  <2> HIDE DEF v
  <2>4. QED
    BY <1>2, <2>1, <2>2, <2>3
<1>3. QED
  BY <1>1, <1>2 DEF Sides

\* Where a side goes on in the header, and behind it.
Onward(s, v) ==
  /\ v \notin {"send", "request", "done"}
  /\ (s = "client" /\ v \in ClientPoints) \/ (s = "server" /\ v \in ServerPoints)

\* EndHeader and the return to the next line go on where Onward says.
LEMMA Onwards ==
  ASSUME ExchangeTypeOK, NEW s \in Sides
  PROVE  /\ EndHeader(s) => \E v : Proceed(s, v) /\ Onward(s, v)
         /\ Onward(s, "header")
         /\ pc[s] = "request" => s = "server" /\ Onward(s, "refuse")
<1>1. EndHeader(s) => \E v : Proceed(s, v) /\ Onward(s, v)
  <2> SUFFICES ASSUME EndHeader(s) PROVE \E v : Proceed(s, v) /\ Onward(s, v)
    OBVIOUS
  <2>1. PICK v : /\ Proceed(s, v) /\ v \notin {"send", "request", "header", "done"}
                 /\ s = "server" => v \in {"file", "refuse", "content"}
                 /\ s = "client" => v \in {"rest", "fail", "content"}
    BY EndsHeader, Zenon
  <2>2. Onward(s, v)
    <3>1. CASE s = "server"
      <4>1. v \in {"file", "refuse", "content"}
        BY <2>1, <3>1
      <4>2. QED
        BY <3>1, <4>1 DEF Onward, ServerPoints
    <3>2. CASE s = "client"
      <4>1. v \in {"rest", "fail", "content"}
        BY <2>1, <3>2
      <4>2. v \in ClientPoints /\ v \notin {"send", "request", "done"}
        BY <4>1 DEF ClientPoints
      <4>3. QED
        BY <3>2, <4>2, Zenon DEF Onward
    <3>3. QED
      BY <3>1, <3>2 DEF Sides
  <2>3. QED
    BY <2>1, <2>2
<1>2. Onward(s, "header")
  BY DEF Onward, ClientPoints, ServerPoints, Sides
<1>3. pc[s] = "request" => s = "server" /\ Onward(s, "refuse")
  BY PointsTyped DEF Onward, ClientPoints, ServerPoints, Sides
<1>4. QED
  BY <1>1, <1>2, <1>3

\* What a side does in a header: nothing to the other side.
Apart(s) ==
  \A r \in Sides : r # s =>
    /\ wire'[r] = wire[r] /\ pc'[r] = pc[r] /\ line'[r] = line[r] /\ length'[r] = length[r]
    /\ named'[r] = named[r] /\ late'[r] = late[r]

\* A side that goes on like this keeps the types of the program points.
LEMMA PointsGo ==
  ASSUME ExchangeTypeOK, NEW s \in Sides,
         UNCHANGED pc \/ \E v : Proceed(s, v) /\ Onward(s, v)
  PROVE  /\ pc' \in [client : ClientPoints, server : ServerPoints]
         /\ \A r \in Sides : r # s => pc'[r] = pc[r]
         /\ pc' = pc \/ Onward(s, pc'[s])
<1>1. CASE UNCHANGED pc
  BY <1>1 DEF ExchangeTypeOK, ClientPoints, ServerPoints
<1>2. CASE \E v : Proceed(s, v) /\ Onward(s, v)
  <2>1. PICK v : Proceed(s, v) /\ Onward(s, v)
    BY <1>2
  <2>2. (s = "client" /\ v \in ClientPoints) \/ (s = "server" /\ v \in ServerPoints)
    BY <2>1 DEF Onward
  <2>3. pc'[s] = v /\ (\A r \in Sides : r # s => pc'[r] = pc[r]) /\ pc' \in [client : ClientPoints, server : ServerPoints]
    BY <2>1, <2>2, Proceeds, Zenon
  <2>4. QED
    BY <2>1, <2>3
<1>3. QED
  BY <1>1, <1>2

\* A step in a header changes nothing but what its side has read, and keeps the types.
LEMMA HeaderStep ==
  ASSUME ExchangeTypeOK, NEW s \in Sides, GetChar(s) \/ GetLine(s) \/ GetNothing(s) \/ GetLate(s)
  PROVE  /\ UNCHANGED << body, performed, result, broken, asked >> /\ InHeader(s)
         /\ Apart(s) /\ pc'[s] # "send" /\ (pc'[s] = "request" => pc[s] = "request")
         /\ (late[s] => late'[s])
         /\ ExchangeTypeOK'
<1>1. UNCHANGED << body, performed, result, broken, asked >> /\ InHeader(s)
  BY Zenon DEF GetChar, GetLine, GetNothing, GetLate
<1>2. UNCHANGED pc \/ \E v : Proceed(s, v) /\ Onward(s, v)
  <2>1. GetChar(s) => UNCHANGED pc
    BY Zenon DEF GetChar
  <2>2. GetLine(s) => \/ EndHeader(s) \/ Proceed(s, "header") \/ (pc[s] = "request" /\ Proceed(s, "refuse"))
    BY DEF GetLine
  <2>3. GetNothing(s) => UNCHANGED pc \/ EndHeader(s) \/ Proceed(s, "header") \/ (pc[s] = "request" /\ Proceed(s, "refuse"))
    BY DEF GetNothing
  <2>4. GetLate(s) => EndHeader(s) \/ (pc[s] = "request" /\ Proceed(s, "refuse"))
    BY DEF GetLate
  <2>5. QED
    BY <2>1, <2>2, <2>3, <2>4, Onwards, Zenon
<1>3. /\ pc' \in [client : ClientPoints, server : ServerPoints]
      /\ \A r \in Sides : r # s => pc'[r] = pc[r]
      /\ pc' = pc \/ Onward(s, pc'[s])
  BY <1>2, PointsGo, Zenon
<1>4. WireOK(wire') /\ \A r \in Sides : r # s => wire'[r] = wire[r]
  <2>1. CASE UNCHANGED wire
    BY <2>1 DEF ExchangeTypeOK, WireOK
  <2>2. CASE Readable(s) /\ Take(s, 1)
    <3>1. 1 \in Nat /\ 1 <= wire[s].come
      BY <2>2, SideTyped DEF Readable
    <3>2. QED
      BY <2>2, <3>1, Takes
  <2>3. QED
    BY <2>1, <2>2, Zenon DEF GetChar, GetLine, GetNothing, GetLate
<1>5. line' \in [Sides -> Symbols \cup {"empty"}] /\ \A r \in Sides : r # s => line'[r] = line[r]
  <2>1. line \in [Sides -> Symbols \cup {"empty"}]
    BY DEF ExchangeTypeOK
  <2>2. CASE line' = [line EXCEPT ![s] = "empty"]
    BY <2>1, <2>2
  <2>3. CASE GetChar(s)
    <3>1. line' = [line EXCEPT ![s] = Head(wire[s].sent)] /\ wire[s].come > 0
      BY <2>3, Zenon DEF GetChar, Readable
    <3>2. \A q \in Seq(Symbols) : Len(q) > 0 => Head(q) \in Symbols
      OBVIOUS
    <3>3. Len(wire[s].sent) > 0
      BY <3>1, SideTyped
    <3>4. Head(wire[s].sent) \in Symbols
      BY <3>2, <3>3, SideTyped
    <3>5. QED
      BY <2>1, <3>1, <3>4
  <2>4. QED
    BY <2>2, <2>3, Zenon DEF GetLine, GetNothing, GetLate
<1>6. length' \in [Sides -> Nat \cup {None}] /\ (\A r \in Sides : length'[r] \in {None, 0, Announced(r)})
      /\ \A r \in Sides : r # s => length'[r] = length[r]
  <2>1. length \in [Sides -> Nat \cup {None}] /\ \A r \in Sides : length[r] \in {None, 0, Announced(r)}
    BY DEF ExchangeTypeOK
  <2>2. length' \in {length, [length EXCEPT ![s] = 0], [length EXCEPT ![s] = Announced(s)]}
    BY DEF GetChar, GetLine, GetNothing, GetLate
  <2>3. Announced(s) \in Nat
    BY SideTyped
  <2>4. QED
    BY <2>1, <2>2, <2>3
<1>7. \A r \in Sides : Announced(r)' = Announced(r)
  BY <1>1 DEF Announced
<1>8. named' \in [Sides -> SUBSET (Symbols \cup {"empty"})] /\ \A r \in Sides : r # s => named'[r] = named[r]
  <2>1. named \in [Sides -> SUBSET (Symbols \cup {"empty"})] /\ line[s] \in Symbols \cup {"empty"}
    BY DEF ExchangeTypeOK
  <2>2. named' = named \/ named' = [named EXCEPT ![s] = @ \cup {line[s]}]
    BY Zenon DEF GetChar, GetLine, GetNothing, GetLate
  <2>3. QED
    BY <2>1, <2>2
<1>9. late' \in [Sides -> BOOLEAN] /\ (\A r \in Sides : r # s => late'[r] = late[r]) /\ (late[s] => late'[s])
  <2>1. late \in [Sides -> BOOLEAN]
    BY DEF ExchangeTypeOK
  <2>2. late' = late \/ late' = [late EXCEPT ![s] = TRUE]
    BY Zenon DEF GetChar, GetLine, GetNothing, GetLate
  <2>3. QED
    BY <2>1, <2>2
<1>10. Apart(s)
  BY <1>3, <1>4, <1>5, <1>6, <1>8, <1>9, Zenon DEF Apart
<1>11. pc'[s] # "send" /\ (pc'[s] = "request" => pc[s] = "request")
  BY <1>1, <1>3 DEF Onward, InHeader
<1>12. ExchangeTypeOK'
  <2>1. pc' \in [client : {"send", "header", "content", "rest", "fail", "done"},
                 server : {"request", "header", "content", "refuse", "reply", "response",
                           "file", "pieces", "close", "done"}]
    BY <1>3 DEF ClientPoints, ServerPoints
  <2>2. /\ asked' \in {"action", "download"} /\ body' \in [Sides -> Texts]
        /\ performed' \in Texts \cup {None} /\ result' \in Texts \cup {None} /\ broken' \in BOOLEAN
    BY <1>1 DEF ExchangeTypeOK
  <2>3. QED
    BY <1>4, <1>5, <1>6, <1>7, <1>8, <1>9, <2>1, <2>2, Zenon DEF ExchangeTypeOK, WireOK
<1>13. QED
  BY <1>1, <1>9, <1>10, <1>11, <1>12, Zenon
-----------------------------------------------------------------------------
(* What a step makes of HasRead.                                           *)

\* What is announced depends on the call alone.
LEMMA Announces == asked' = asked => \A s \in Sides : Announced(s)' = Announced(s)
  BY DEF Announced

\* A step in a header that did not time out reads on in the same message.
LEMMA HeaderReads ==
  ASSUME ExchangeTypeOK, NEW s \in Sides, NEW m \in Messages, NEW k \in Nat, HasRead(s, m, k),
         GetChar(s) \/ GetLine(s) \/ GetNothing(s)
  PROVE  \E j \in {0, 1} : HasRead(s, m, k + j)' /\ j + Len(wire'[s].sent) = Len(wire[s].sent)
<1> DEFINE q == wire[s].sent
           e == wire[s].ended
           h == Header[m]
           t == Body[m]
           a == Announced(s)
<1>1. Read(q, e, pc[s], line[s], length[s], body[s], a, h, t, k)
  BY AsRead, Zenon
<1>2. h \in Seq(Symbols) /\ t \in Seq(Symbols) /\ Framed(h) /\ q \in Seq(Symbols) /\ Len(q) \in Nat
  BY MessageTyped, HeadersFramed, SideTyped
<1>3. body'[s] = body[s] /\ Announced(s)' = a /\ pc[s] \in {"request", "header"}
  <2>1. UNCHANGED << body, asked >> /\ InHeader(s)
    BY HeaderStep, Zenon
  <2>2. QED
    BY <2>1, Announces DEF InHeader
<1>4. /\ pc \in [Sides -> ClientPoints \cup ServerPoints] /\ line \in [Sides -> Symbols \cup {"empty"}]
      /\ length \in [Sides -> Nat \cup {None}]
  BY PointsTyped DEF ExchangeTypeOK
<1>5. CASE Readable(s) /\ Take(s, 1)
  <2>1. 1 \in Nat /\ 1 <= wire[s].come /\ 1 <= Len(q) /\ Head(q) = q[1]
    BY <1>5, <1>2, SideTyped DEF Readable
  <2>2. After(q, wire'[s].sent, 1) /\ wire'[s].ended = e
    BY <1>5, <2>1, Takes
  <2>3. 1 + Len(wire'[s].sent) = Len(wire[s].sent)
    <3> DEFINE r == wire'[s].sent
    <3>1. After(q, r, 1) /\ Len(q) \in Nat
      BY <1>2, <2>2
    <3> HIDE DEF q, r
    <3>2. 1 + Len(r) = Len(q)
      BY <3>1 DEF After
    <3>3. QED
      BY <3>2 DEF q, r
  <2>4. CASE GetChar(s)
    <3>1. q[1] # "eol" /\ line' = [line EXCEPT ![s] = q[1]] /\ UNCHANGED << pc, length >>
      BY <2>1, <2>4 DEF GetChar
    <3>2. Read(wire'[s].sent, e, pc[s], q[1], length[s], body[s], a, h, t, k + 1)
      <4> HIDE DEF q, e, h, t, a
      <4>1. QED
        BY <1>1, <1>2, <1>3, <2>1, <2>2, <3>1, CharRead
    <3>3. line'[s] = q[1]
      BY <1>4, <3>1
    <3>4. HasRead(s, m, k + 1)'
      BY <1>3, <2>2, <3>1, <3>2, <3>3, AsRead, Zenon
    <3>5. QED
      BY <2>3, <3>4, Zenon
  <2>5. CASE GetLine(s)
    <3>1. q[1] = "eol" /\ line' = [line EXCEPT ![s] = "empty"]
          /\ length' = IF line[s] = "length" THEN [length EXCEPT ![s] = Announced(s)] ELSE length
      BY <2>1, <2>5 DEF GetLine
    <3>2. line'[s] = "empty" /\ length'[s] = IF line[s] = "length" THEN a ELSE length[s]
      BY <1>4, <3>1
    <3>3. line[s] = "empty" => pc'[s] # "header" /\ length'[s] = length[s] /\ pc'[s] # "request" /\ pc'[s] # "send"
      <4>1. SUFFICES ASSUME line[s] = "empty"
                     PROVE  pc'[s] # "header" /\ length'[s] = length[s] /\ pc'[s] # "request" /\ pc'[s] # "send"
        OBVIOUS
      <4>2. length'[s] = length[s]
        BY <3>2, <4>1
      <4>3. \/ pc[s] = "request" /\ Proceed(s, "refuse")
            \/ \E v : Proceed(s, v) /\ v \notin {"send", "request", "header", "done"}
        BY <2>5, <4>1, EndsHeader, Zenon DEF GetLine
      <4>4. pc'[s] \notin {"send", "request", "header"}
        <5>1. \E v : Proceed(s, v) /\ v \notin {"send", "request", "header"}
          BY <4>3
        <5>2. QED
          BY <5>1, Proceeds, Zenon
      <4>5. QED
        BY <4>2, <4>4
    <3>4. line[s] # "empty" => pc'[s] = "header"
      BY <2>5, Proceeds, Zenon DEF GetLine
    <3>5. Read(wire'[s].sent, e, pc'[s], "empty", length'[s], body[s], a, h, t, k + 1)
      <4>1. pc'[s] # "request" /\ pc'[s] # "send"
        BY <3>3, <3>4
      <4>2. PICK p2, n2 : p2 = pc'[s] /\ n2 = length'[s]
        OBVIOUS
      <4>3. p2 # "request" /\ p2 # "send" /\ (line[s] = "empty" => p2 # "header" /\ n2 = length[s])
            /\ (line[s] # "empty" => p2 = "header" /\ n2 = IF line[s] = "length" THEN a ELSE length[s])
        BY <3>2, <3>3, <3>4, <4>1, <4>2
      <4> HIDE DEF q, e, h, t, a
      <4>4. Read(wire'[s].sent, e, p2, "empty", n2, body[s], a, h, t, k + 1)
        BY <1>1, <1>2, <1>3, <2>1, <2>2, <3>1, <4>3, LineRead
      <4>5. QED
        BY <4>2, <4>4
    <3>6. HasRead(s, m, k + 1)'
      BY <1>3, <2>2, <3>2, <3>5, AsRead, Zenon
    <3>7. QED
      BY <2>3, <3>6, Zenon
  <2>6. CASE GetNothing(s)
    <3>1. q = << >>
      BY <2>6, Zenon DEF GetNothing, Ended
    <3>2. QED
      BY <2>1, <3>1
  <2>7. QED
    BY <2>4, <2>5, <2>6
<1>6. CASE GetNothing(s)
  <2>1. Gone(q, e) /\ wire' = wire /\ line' = [line EXCEPT ![s] = "empty"]
    BY <1>6, Zenon DEF GetNothing, Gone, Ended
  <2>2. line'[s] = "empty"
    BY <1>4, <2>1
  <2>3. pc'[s] # "request"
    <3>1. \/ pc[s] = "request" /\ Proceed(s, "refuse")
          \/ EndHeader(s)
          \/ Proceed(s, "header")
          \/ pc[s] = "header" /\ UNCHANGED pc
      BY <1>6, Zenon DEF GetNothing
    <3>2. (\E v : Proceed(s, v) /\ v # "request") \/ (pc[s] = "header" /\ UNCHANGED pc)
      BY <3>1, EndsHeader
    <3>3. QED
      BY <3>2, Proceeds
  <2>4. Read(q, e, pc'[s], "empty", length'[s], body[s], a, h, t, k)
    <3>1. \A p2, n2 : p2 # "request" => Read(q, e, p2, "empty", n2, body[s], a, h, t, k)
      <4> HIDE DEF q, e, h, t, a
      <4>1. QED
        BY <1>1, <1>3, <2>1, NothingRead
    <3>2. QED
      BY <2>3, <3>1, Zenon
  <2>5. HasRead(s, m, k)'
    BY <1>3, <2>1, <2>2, <2>4, AsRead, Zenon
  <2>6. k + 0 = k /\ 0 + Len(wire'[s].sent) = Len(wire[s].sent)
    <3>1. Len(q) \in Nat
      BY <1>2
    <3>2. \A x \in Nat : 0 + x = x /\ x + 0 = x
      OBVIOUS
    <3>3. QED
      BY <2>1, <3>1, <3>2
  <2>7. HasRead(s, m, k + 0)'
    BY <2>5, <2>6, Zenon
  <2>8. QED
    BY <2>6, <2>7, Zenon
<1>7. QED
  BY <1>5, <1>6, Zenon DEF GetChar, GetLine
-----------------------------------------------------------------------------
(* The server.                                                             *)
PerformedRight == performed # None /\ ~late.server => performed = Request
ServerInv == ServerReads /\ ServerKnows /\ SendInv /\ PerformedRight

\* ServerReads, by the message that has been asked for.
LEMMA ServerReadsAs ==
  ASSUME NEW m \in Messages
  PROVE  /\ ExchangeTypeOK /\ asked = m =>
              (ServerReads <=> (InHeader("server") \/ (pc.server = "content" /\ ~late.server) =>
                                  \E k \in Nat : HasRead("server", m, k)))
         /\ ExchangeTypeOK' /\ asked' = m =>
              (ServerReads' <=> (InHeader("server")' \/ (pc'.server = "content" /\ ~late'.server) =>
                                  \E k \in Nat : HasRead("server", m, k)'))
<1> DEFINE h == Header[m]
           t == Body[m]
<1>1. h \in Seq(Symbols) /\ t \in Seq(Symbols) /\ "server" \in Sides
  BY MessageTyped DEF Sides
<1>2. Len(h \o t) = Len(h) + Len(t)
  BY <1>1, Appended
<1>3. \A q \in Seq(Symbols) : \A k \in Nat : k + Len(q) <= Len(h) + Len(t) => k \in 0 .. Len(h \o t)
  <2> HIDE DEF h, t
  <2>1. QED
    BY <1>1, <1>2
<1>4. \A k \in 0 .. Len(h \o t) : k \in Nat
  OBVIOUS
<1>5. ASSUME ExchangeTypeOK, asked = m
      PROVE  ServerReads <=> (InHeader("server") \/ (pc.server = "content" /\ ~late.server) =>
                                \E k \in Nat : HasRead("server", m, k))
  <2>1. wire["server"].sent \in Seq(Symbols)
    BY <1>1, <1>5, SideTyped
  <2>2. \A k \in Nat : HasRead("server", m, k) => k \in 0 .. Len(h \o t)
    BY <1>3, <2>1, Zenon DEF HasRead
  <2>3. RequestText = h \o t
    BY <1>5 DEF RequestText
  <2>4. ServerReads <=> (InHeader("server") \/ (pc.server = "content" /\ ~late.server) =>
                           \E k \in 0 .. Len(h \o t) : HasRead("server", m, k))
    BY <1>5, <2>3, Zenon DEF ServerReads
  <2>5. QED
    BY <1>4, <2>2, <2>4, Zenon
<1>6. ASSUME ExchangeTypeOK', asked' = m
      PROVE  ServerReads' <=> (InHeader("server")' \/ (pc'.server = "content" /\ ~late'.server) =>
                                \E k \in Nat : HasRead("server", m, k)')
  <2>1. wire'["server"].sent \in Seq(Symbols)
    <3>1. wire' \in [Sides -> [sent : Texts, come : Nat, ended : BOOLEAN]]
      BY <1>6, Zenon DEF ExchangeTypeOK
    <3>2. QED
      BY <1>1, <3>1 DEF Texts
  <2>2. \A k \in Nat : HasRead("server", m, k)' => k \in 0 .. Len(h \o t)
    BY <1>3, <2>1, Zenon DEF HasRead
  <2>3. RequestText' = h \o t
    BY <1>6 DEF RequestText
  <2>4. ServerReads' <=> (InHeader("server")' \/ (pc'.server = "content" /\ ~late'.server) =>
                           \E k \in 0 .. Len(h \o t) : HasRead("server", m, k)')
    BY <1>6, <2>3, ZenonT(60) DEF ServerReads, HasRead, Ended, LineAt, LengthAt, Symbol
  <2>5. QED
    BY <1>4, <2>2, <2>4, Zenon
<1>7. QED
  BY <1>5, <1>6

\* What a server knows is not lost with what is on its way.
LEMMA ServerKept ==
  ASSUME ExchangeTypeOK, ExchangeTypeOK', ServerInv, UNCHANGED << asked, performed >>,
         pc'.server = pc.server, line'.server = line.server, length'.server = length.server,
         named'.server = named.server, body'.server = body.server, late'.server = late.server,
         Before(wire.server.sent, wire'.server.sent), wire.server.ended => wire'.server.ended,
         pc'.client = "send" => pc.client = "send"
  PROVE  ServerInv'
<1>1. PICK m \in Messages : m = asked
  BY SideTyped DEF Sides
<1>2. ASSUME NEW k \in Nat, HasRead("server", m, k) PROVE HasRead("server", m, k)'
  <2> DEFINE q == wire.server.sent
             r == wire'.server.sent
             e == wire.server.ended
             f == wire'.server.ended
             h == Header[m]
             t == Body[m]
             a == Announced("server")
  <2>1. Read(q, e, pc.server, line.server, length.server, body.server, a, h, t, k)
    BY <1>2, AsRead, Zenon
  <2>2. h \in Seq(Symbols) /\ t \in Seq(Symbols) /\ q \in Seq(Symbols) /\ e \in BOOLEAN /\ f \in BOOLEAN
    BY MessageTyped, SideTyped DEF ExchangeTypeOK, Sides
  <2>3. Read(r, f, pc.server, line.server, length.server, body.server, a, h, t, k)
    <3> HIDE DEF q, r, e, f, h, t, a
    <3>1. Before(q, r) /\ (e => f)
      BY DEF q, r, e, f
    <3>2. QED
      BY <2>1, <2>2, <3>1, StillRead
  <2>4. Announced("server")' = Announced("server")
    BY Announces DEF Sides
  <2>5. QED
    BY <2>3, <2>4, AsRead, Zenon
<1>3. ServerReads'
  <2>1. ServerReads /\ asked' = m
    BY <1>1 DEF ServerInv
  <2>2. InHeader("server")' <=> InHeader("server")
    BY DEF InHeader
  <2>3. QED
    BY <1>1, <1>2, <2>1, <2>2, ServerReadsAs, Zenon
<1>4. ServerKnows'
  BY Zenon DEF ServerInv, ServerKnows, InHeader
<1>5. SendInv'
  <2> SUFFICES ASSUME pc'.client = "send"
               PROVE  /\ wire'.server.sent = << >> /\ wire'.server.come = 0
                      /\ pc'.server \in {"request", "refuse", "close", "done"}
                      /\ pc'.server = "request" => line'.server = "empty" /\ length'.server = None
    BY Zenon DEF SendInv
  <2>1. wire.server.sent = << >> /\ pc.server \in {"request", "refuse", "close", "done"}
        /\ (pc.server = "request" => line.server = "empty" /\ length.server = None)
    BY DEF ServerInv, SendInv
  <2>2. wire'.server.sent = << >>
    <3> DEFINE r == wire'.server.sent
    <3>1. Before(<< >>, r)
      BY <2>1
    <3> HIDE DEF r
    <3>2. r = << >>
      BY <3>1 DEF Before
    <3>3. QED
      BY <3>2 DEF r
  <2>3. wire'.server.come = 0
    <3>1. wire'.server.come \in Nat /\ wire'.server.come <= Len(wire'.server.sent)
      BY DEF ExchangeTypeOK, Sides
    <3>2. Len(<< >>) = 0
      OBVIOUS
    <3>3. QED
      BY <2>2, <3>1, <3>2
  <2>4. QED
    BY <2>1, <2>2, <2>3
<1>6. PerformedRight'
  BY Zenon DEF ServerInv, PerformedRight
<1>7. QED
  BY <1>3, <1>4, <1>5, <1>6 DEF ServerInv

\* How a server goes on in a header.
LEMMA ServerMoves ==
  ASSUME ExchangeTypeOK, GetChar("server") \/ GetLine("server") \/ GetNothing("server") \/ GetLate("server")
  PROVE  /\ named'.server \in {named.server, named.server \cup {line.server}}
         /\ GetLate("server") => pc'.server \in {"file", "refuse", "content"}
         /\ ~GetLate("server") => late'.server = late.server
         /\ \/ pc'.server = pc.server
            \/ pc'.server = "refuse"
            \/ /\ pc'.server = "header" /\ line.server # "empty" /\ ~GetChar("server")
               /\ named'.server = named.server \cup {line.server}
            \/ /\ pc.server = "header" /\ pc'.server \in {"file", "refuse", "content"}
               /\ pc'.server = "file" <=> "get" \in named.server
               /\ pc'.server = "content" => length'.server = Announced("server")
         /\ pc'.server = pc.server => GetChar("server") \/ pc.server = "header"
<1>0. "server" \in Sides
  BY DEF Sides
<1>1. named \in [Sides -> SUBSET (Symbols \cup {"empty"})] /\ late \in [Sides -> BOOLEAN]
  BY DEF ExchangeTypeOK
<1>2. named'.server \in {named.server, named.server \cup {line.server}}
  <2>1. named' = named \/ named' = [named EXCEPT !["server"] = @ \cup {line["server"]}]
    BY Zenon DEF GetChar, GetLine, GetNothing, GetLate
  <2>2. QED
    BY <1>0, <1>1, <2>1
<1>3. ~GetLate("server") => late'.server = late.server
  BY Zenon DEF GetChar, GetLine, GetNothing
<1>4. InHeader("server") /\ (pc.server = "request" \/ pc.server = "header")
  BY HeaderStep, <1>0 DEF InHeader
<1>5. ASSUME EndHeader("server"), length' = length, pc.server # "request"
      PROVE  /\ pc.server = "header" /\ pc'.server \in {"file", "refuse", "content"}
             /\ pc'.server = "file" <=> "get" \in named.server
             /\ pc'.server = "content" => length'.server = Announced("server")
  <2>1. PICK v : /\ Proceed("server", v) /\ v \in {"file", "refuse", "content"}
                 /\ v = "file" <=> "get" \in named["server"]
                 /\ v = "content" => length["server"] = Announced("server")
    BY <1>0, <1>5, EndsHeader, Zenon
  <2>2. pc'.server = v
    BY <1>0, <2>1, Proceeds, Zenon
  <2>3. QED
    BY <1>4, <1>5, <2>1, <2>2
<1>6. ASSUME Proceed("server", "refuse") PROVE pc'.server = "refuse"
  BY <1>0, <1>6, Proceeds, Zenon
<1>7. ASSUME Proceed("server", "header") PROVE pc'.server = "header"
  BY <1>0, <1>7, Proceeds, Zenon
<1>8. CASE GetChar("server")
  <2>1. pc' = pc /\ ~GetLate("server")
    <3>1. pc' = pc /\ Readable("server")
      BY <1>8, Zenon DEF GetChar
    <3>2. QED
      BY <3>1, Zenon DEF GetLate, Silent
  <2>2. QED
    BY <1>2, <1>3, <1>8, <2>1
<1>9. CASE GetLine("server")
  <2>1. ~GetLate("server") /\ ~GetChar("server")
    BY <1>9, Zenon DEF GetLine, GetLate, GetChar, Silent
  <2>2. CASE line["server"] = "empty"
    <3>1. length' = length
      <4>1. line["server"] # "length"
        BY <2>2
      <4>2. QED
        BY <1>9, <4>1, Zenon DEF GetLine
    <3>2. (pc.server = "request" /\ Proceed("server", "refuse")) \/ (pc.server # "request" /\ EndHeader("server"))
      BY <1>9, <2>2, Zenon DEF GetLine
    <3>3. QED
      BY <1>2, <1>3, <1>5, <1>6, <2>1, <3>1, <3>2
  <2>3. CASE line["server"] # "empty"
    <3>1. Proceed("server", "header") /\ named' = [named EXCEPT !["server"] = @ \cup {line["server"]}]
      BY <1>9, <2>3, Zenon DEF GetLine
    <3>2. named'.server = named.server \cup {line.server}
      BY <1>0, <1>1, <3>1
    <3>3. pc'.server = "header"
      BY <1>7, <3>1
    <3>4. QED
      BY <1>3, <1>4, <2>1, <2>3, <3>2, <3>3
  <2>4. QED
    BY <2>2, <2>3
<1>10. CASE GetNothing("server")
  <2>1. ~GetLate("server") /\ ~GetChar("server")
    <3>1. wire["server"].sent = << >> /\ Ended("server")
      BY <1>10, Zenon DEF GetNothing, Ended
    <3>2. ~Readable("server")
      BY <1>0, <3>1, SideTyped DEF Readable
    <3>3. QED
      BY <3>1, <3>2, Zenon DEF GetLate, GetChar, Silent
  <2>2. CASE line["server"] = "empty"
    <3>1. length' = length
      BY <1>10, <2>2, Zenon DEF GetNothing
    <3>2. (pc.server = "request" /\ Proceed("server", "refuse")) \/ (pc.server # "request" /\ EndHeader("server"))
      BY <1>10, <2>2, Zenon DEF GetNothing
    <3>3. QED
      BY <1>2, <1>3, <1>5, <1>6, <2>1, <3>1, <3>2
  <2>3. CASE line["server"] # "empty"
    <3>1. \/ Proceed("server", "refuse")
          \/ Proceed("server", "header") /\ named' = [named EXCEPT !["server"] = @ \cup {line["server"]}]
          \/ pc.server = "header" /\ pc' = pc
      BY <1>10, <2>3, Zenon DEF GetNothing
    <3>2. CASE Proceed("server", "refuse")
      BY <1>2, <1>3, <1>4, <1>6, <2>1, <3>2
    <3>3. CASE Proceed("server", "header") /\ named' = [named EXCEPT !["server"] = @ \cup {line["server"]}]
      <4>1. named'.server = named.server \cup {line.server}
        BY <1>0, <1>1, <3>3
      <4>2. pc'.server = "header"
        BY <1>7, <3>3
      <4>3. QED
        BY <1>3, <1>4, <2>1, <2>3, <4>1, <4>2
    <3>4. CASE pc.server = "header" /\ pc' = pc
      BY <1>2, <1>3, <2>1, <3>4
    <3>5. QED
      BY <3>1, <3>2, <3>3, <3>4
  <2>4. QED
    BY <2>2, <2>3
<1>11. CASE GetLate("server")
  <2>1. length' = length
    BY <1>11, Zenon DEF GetLate
  <2>2. (pc.server = "request" /\ Proceed("server", "refuse")) \/ (pc.server # "request" /\ EndHeader("server"))
    BY <1>11, Zenon DEF GetLate
  <2>3. QED
    BY <1>2, <1>5, <1>6, <1>4, <1>11, <2>1, <2>2
<1>12. QED
  BY <1>8, <1>9, <1>10, <1>11

\* The steps of a server in a header keep what it knows.
LEMMA ServerHeader ==
  ASSUME ExchangeTypeOK, ServerInv,
         GetChar("server") \/ GetLine("server") \/ GetNothing("server") \/ GetLate("server")
  PROVE  ServerInv'
<1>0. "server" \in Sides /\ "client" \in Sides
  BY DEF Sides
<1>1. PICK m \in Messages : m = asked
  BY <1>0, SideTyped
<1>2. UNCHANGED << body, performed, asked >> /\ InHeader("server") /\ Apart("server")
      /\ (pc'.server = "request" => pc.server = "request")
      /\ (late.server => late'.server) /\ ExchangeTypeOK'
  BY <1>0, HeaderStep, Zenon
<1>3. /\ named'.server \in {named.server, named.server \cup {line.server}}
      /\ GetLate("server") => pc'.server \in {"file", "refuse", "content"}
      /\ ~GetLate("server") => late'.server = late.server
      /\ \/ pc'.server = pc.server
         \/ pc'.server = "refuse"
         \/ /\ pc'.server = "header" /\ line.server # "empty" /\ ~GetChar("server")
            /\ named'.server = named.server \cup {line.server}
         \/ /\ pc.server = "header" /\ pc'.server \in {"file", "refuse", "content"}
            /\ pc'.server = "file" <=> "get" \in named.server
            /\ pc'.server = "content" => length'.server = Announced("server")
      /\ pc'.server = pc.server => GetChar("server") \/ pc.server = "header"
  BY ServerMoves
<1>4. PICK k \in Nat : HasRead("server", m, k)
  <2>1. ServerReads
    BY DEF ServerInv
  <2>2. QED
    BY <1>1, <1>2, <2>1, ServerReadsAs, Zenon
<1>5. /\ InHeader("server") => ~late.server /\ body.server = << >>
      /\ InHeader("server") /\ asked = "action" => "get" \notin named.server
      /\ pc.server = "header" /\ asked = "download" => "get" \in named.server
  BY Zenon DEF ServerInv, ServerKnows
<1>6. pc.server \in {"request", "header"} /\ asked \in {"action", "download"} /\ pc'.server \in ServerPoints
  BY <1>2, PointsTyped DEF InHeader, ExchangeTypeOK, ServerPoints
<1>7. /\ k < Len(Header[m])
      /\ line.server = LineAt(m, k) \/ line.server = "empty"
      /\ pc.server = "request" => k <= 1
  BY <1>6, <1>4, Zenon DEF HasRead
<1>8. ServerReads'
  <2>1. CASE GetLate("server")
    <3>1. late' = [late EXCEPT !["server"] = TRUE]
      BY <2>1, Zenon DEF GetLate
    <3>2. late'.server
      BY <1>0, <3>1 DEF ExchangeTypeOK
    <3>3. ~InHeader("server")'
      BY <1>3, <2>1 DEF InHeader
    <3>4. QED
      BY <1>1, <1>2, <3>2, <3>3, ServerReadsAs, Zenon
  <2>2. CASE GetChar("server") \/ GetLine("server") \/ GetNothing("server")
    <3>1. PICK j \in {0, 1} : HasRead("server", m, k + j)'
      BY <1>0, <1>4, <2>2, HeaderReads, Zenon
    <3>2. k + j \in Nat
      OBVIOUS
    <3>3. QED
      BY <1>1, <1>2, <3>1, <3>2, ServerReadsAs, Zenon
  <2>3. QED
    BY <2>1, <2>2
<1>9. asked = "action" => line.server # "get"
  <2>1. SUFFICES ASSUME asked = "action" PROVE line.server # "get"
    OBVIOUS
  <2>2. Len(Header.action) \in Nat
    BY MessageTyped DEF Messages
  <2>3. k \in 0 .. Len(Header.action)
    BY <1>1, <1>7, <2>1, <2>2
  <2>4. LineAt("action", k) # "get"
    BY <2>3, GetKnown
  <2>5. QED
    BY <1>1, <1>7, <2>1, <2>4
<1>10. asked = "download" /\ pc.server = "request" /\ line.server # "empty" => line.server = "get"
  <2>1. SUFFICES ASSUME asked = "download", pc.server = "request", line.server # "empty" PROVE line.server = "get"
    OBVIOUS
  <2>2. k \in {0, 1} /\ line.server = LineAt("download", k)
    BY <1>1, <1>7, <2>1
  <2>3. LineAt("download", 0) = "empty" /\ LineAt("download", 1) = "get"
    BY GetKnown DEF LineAt
  <2>4. QED
    BY <2>1, <2>2, <2>3
<1>11. ServerKnows'
  <2>1. InHeader("server")' => ~late'.server /\ body'.server = << >>
    <3>1. GetLate("server") => ~InHeader("server")'
      BY <1>3 DEF InHeader
    <3>2. QED
      BY <1>2, <1>3, <1>5, <3>1
  <2>2. InHeader("server")' /\ asked' = "action" => "get" \notin named'.server
    BY <1>2, <1>3, <1>5, <1>9
  <2>3. pc'.server = "header" /\ asked' = "download" => "get" \in named'.server
    BY <1>2, <1>3, <1>5, <1>6, <1>10
  <2>4. pc'.server = "content" => asked' = "action" /\ length'.server = Len(Request)
    <3>1. SUFFICES ASSUME pc'.server = "content" PROVE asked' = "action" /\ length'.server = Len(Request)
      OBVIOUS
    <3>2. pc.server = "header" /\ "get" \notin named.server /\ length'.server = Announced("server")
      BY <1>3, <1>6, <3>1
    <3>3. Announced("server") = Len(Request)
      BY DEF Announced
    <3>4. QED
      BY <1>2, <1>5, <1>6, <3>2, <3>3
  <2>5. pc'.server \notin {"reply", "response", "pieces"}
    BY <1>3, <1>6
  <2>6. pc'.server = "file" => asked' = "download" /\ body'.server = << >>
    BY <1>2, <1>3, <1>5, <1>6
  <2>7. QED
    BY <2>1, <2>2, <2>3, <2>4, <2>5, <2>6 DEF ServerKnows
<1>12. SendInv'
  <2>1. SUFFICES ASSUME pc'.client = "send"
                 PROVE  /\ wire'.server.sent = << >> /\ wire'.server.come = 0
                        /\ pc'.server \in {"request", "refuse", "close", "done"}
                        /\ pc'.server = "request" => line'.server = "empty" /\ length'.server = None
    BY Zenon DEF SendInv
  <2>2. pc.client = "send"
    BY <1>0, <1>2, <2>1 DEF Apart
  <2>3. wire.server.sent = << >> /\ wire.server.come = 0 /\ pc.server = "request" /\ line.server = "empty"
    BY <1>6, <2>2 DEF ServerInv, SendInv
  <2>4. ~GetChar("server") /\ ~GetLine("server")
    BY <2>3 DEF GetChar, GetLine, Readable
  <2>5. wire' = wire
    BY <2>4, Zenon DEF GetNothing, GetLate
  <2>6. pc'.server = "refuse"
    BY <1>3, <2>3, <2>4
  <2>7. QED
    BY <2>3, <2>5, <2>6
<1>13. PerformedRight'
  BY <1>2, Zenon DEF ServerInv, PerformedRight
<1>14. QED
  BY <1>8, <1>11, <1>12, <1>13 DEF ServerInv
-----------------------------------------------------------------------------
(* The types, for the other steps.                                         *)

\* What the conjuncts of the type invariant come to.
PointsOK(p) == p \in [client : ClientPoints, server : ServerPoints]
BodyOK(b) == b \in [Sides -> Texts]

\* The types of the wires, of the program points and of the bodies.
LEMMA TypesAre == ExchangeTypeOK => WireOK(wire) /\ PointsOK(pc) /\ BodyOK(body)
  BY DEF ExchangeTypeOK, WireOK, PointsOK, ClientPoints, ServerPoints, BodyOK

\* The types are kept, where those three are.
LEMMA TypesStay ==
  ASSUME ExchangeTypeOK, WireOK(wire'), PointsOK(pc'), BodyOK(body'),
         UNCHANGED << line, length, named, late, asked >>,
         performed' \in Texts \cup {None}, result' \in Texts \cup {None}, broken' \in BOOLEAN
  PROVE  ExchangeTypeOK'
<1>1. \A s \in Sides : length'[s] \in {None, 0, Announced(s)'}
  BY Announces DEF ExchangeTypeOK
<1>2. /\ line' \in [Sides -> Symbols \cup {"empty"}] /\ length' \in [Sides -> Nat \cup {None}]
      /\ named' \in [Sides -> SUBSET (Symbols \cup {"empty"})] /\ late' \in [Sides -> BOOLEAN]
      /\ asked' \in {"action", "download"}
  BY DEF ExchangeTypeOK
<1>3. pc' \in [client : {"send", "header", "content", "rest", "fail", "done"},
               server : {"request", "header", "content", "refuse", "reply", "response",
                         "file", "pieces", "close", "done"}]
  BY DEF PointsOK, ClientPoints, ServerPoints
<1>4. QED
  BY <1>1, <1>2, <1>3, Zenon DEF ExchangeTypeOK, WireOK, BodyOK

\* A wire that another one replaces.
LEMMA WireReplaced ==
  ASSUME ExchangeTypeOK, NEW s \in Sides, NEW q \in Seq(Symbols), NEW e \in BOOLEAN,
         wire' = [wire EXCEPT ![s] = [sent |-> q, come |-> 0, ended |-> e]]
  PROVE  WireOK(wire') /\ wire'[s].sent = q /\ \A r \in Sides : r # s => wire'[r] = wire[r]
<1>1. wire \in [Sides -> [sent : Texts, come : Nat, ended : BOOLEAN]] /\ \A r \in Sides : wire[r].come <= Len(wire[r].sent)
  BY DEF ExchangeTypeOK
<1>2. wire'[s] = [sent |-> q, come |-> 0, ended |-> e] /\ \A r \in Sides : r # s => wire'[r] = wire[r]
  BY <1>1
<1>3. wire' \in [Sides -> [sent : Texts, come : Nat, ended : BOOLEAN]]
  BY <1>1 DEF Texts
<1>4. wire'[s].sent = q /\ wire'[s].come = 0 /\ 0 <= Len(q)
  BY <1>2
<1>5. \A r \in Sides : wire'[r].come <= Len(wire'[r].sent)
  BY <1>1, <1>2, <1>4
<1>6. QED
  BY <1>2, <1>3, <1>4, <1>5 DEF WireOK

\* Symbols that arrive change nothing that has been sent.
LEMMA ArriveStep ==
  ASSUME ExchangeTypeOK, NEW s \in Sides, Arrive(s)
  PROVE  /\ ExchangeTypeOK' /\ UNCHANGED << pc, read, performed, result, broken, asked >>
         /\ \A r \in Sides : wire'[r].sent = wire[r].sent /\ wire'[r].ended = wire[r].ended
<1>1. PICK n \in wire[s].come + 1 .. Len(wire[s].sent) : wire' = [wire EXCEPT ![s].come = n]
  BY DEF Arrive
<1>2. n \in Nat /\ n <= Len(wire[s].sent)
  BY SideTyped
<1>3. wire \in [Sides -> [sent : Texts, come : Nat, ended : BOOLEAN]] /\ wire[s] \in [sent : Texts, come : Nat, ended : BOOLEAN]
  BY DEF ExchangeTypeOK
<1>4. wire'[s] = [wire[s] EXCEPT !.come = n] /\ \A r \in Sides : r # s => wire'[r] = wire[r]
  BY <1>1, <1>3
<1>5. WireOK(wire') /\ wire'[s].sent = wire[s].sent /\ wire'[s].ended = wire[s].ended
      /\ \A r \in Sides : r # s => wire'[r] = wire[r]
  <2>1. wire'[s].sent = wire[s].sent /\ wire'[s].ended = wire[s].ended /\ wire'[s].come = n
    BY <1>3, <1>4
  <2>2. wire' \in [Sides -> [sent : Texts, come : Nat, ended : BOOLEAN]]
    BY <1>1, <1>2, <1>3
  <2>3. \A r \in Sides : wire'[r].come <= Len(wire'[r].sent)
    BY <1>2, <1>4, <2>1 DEF ExchangeTypeOK
  <2>4. QED
    BY <1>4, <2>1, <2>2, <2>3 DEF WireOK
<1>6. UNCHANGED << pc, read, performed, result, broken, asked >>
  BY DEF Arrive
<1>7. ExchangeTypeOK'
  BY <1>5, <1>6, TypesAre, TypesStay DEF read, ExchangeTypeOK
<1>8. QED
  BY <1>5, <1>6, <1>7

\* A connection that breaks loses what is on its way, behind some symbol.
LEMMA BreakStep ==
  ASSUME ExchangeTypeOK, Break
  PROVE  /\ ExchangeTypeOK' /\ UNCHANGED << pc, read, performed, result, asked >> /\ broken'
         /\ \A r \in Sides : Before(wire[r].sent, wire'[r].sent) /\ wire'[r].ended
<1>1. PICK c \in 0 .. wire.client.come, d \in 0 .. wire.server.come :
        wire' = [client |-> [sent |-> SubSeq(wire.client.sent, 1, c), come |-> c, ended |-> TRUE],
                 server |-> [sent |-> SubSeq(wire.server.sent, 1, d), come |-> d, ended |-> TRUE]]
  BY DEF Break
<1>2. UNCHANGED << pc, read, performed, result, asked >> /\ broken' = TRUE
  BY DEF Break
<1> DEFINE x == SubSeq(wire.client.sent, 1, c)
           y == SubSeq(wire.server.sent, 1, d)
<1>3. c \in Nat /\ c <= Len(wire.client.sent) /\ d \in Nat /\ d <= Len(wire.server.sent)
  <2>1. wire["client"].come \in Nat /\ wire["client"].come <= Len(wire["client"].sent) /\ Len(wire["client"].sent) \in Nat
        /\ wire["server"].come \in Nat /\ wire["server"].come <= Len(wire["server"].sent) /\ Len(wire["server"].sent) \in Nat
    BY SideTyped DEF Sides
  <2>2. QED
    BY <2>1
<1>4. x \in Seq(Symbols) /\ Len(x) = c /\ \A i \in 1 .. c : x[i] = wire.client.sent[i]
  BY <1>3, SideTyped, Kept DEF Sides
<1>5. y \in Seq(Symbols) /\ Len(y) = d /\ \A i \in 1 .. d : y[i] = wire.server.sent[i]
  BY <1>3, SideTyped, Kept DEF Sides
<1>6. Before(wire.client.sent, x) /\ Before(wire.server.sent, y)
  BY <1>3, <1>4, <1>5 DEF Before
<1> HIDE DEF x, y
<1>7. wire' = [client |-> [sent |-> x, come |-> c, ended |-> TRUE], server |-> [sent |-> y, come |-> d, ended |-> TRUE]]
  BY <1>1 DEF x, y
<1>8. wire'.client = [sent |-> x, come |-> c, ended |-> TRUE] /\ wire'.server = [sent |-> y, come |-> d, ended |-> TRUE]
  BY <1>7
<1>9. wire' \in [Sides -> [sent : Texts, come : Nat, ended : BOOLEAN]]
  <2> DEFINE R == [sent : Texts, come : Nat, ended : BOOLEAN]
             u == [sent |-> x, come |-> c, ended |-> TRUE]
             v == [sent |-> y, come |-> d, ended |-> TRUE]
  <2>1. u \in R /\ v \in R
    BY <1>3, <1>4, <1>5 DEF Texts
  <2>2. wire' = [client |-> u, server |-> v]
    BY <1>7
  <2> HIDE DEF R, u, v
  <2>3. wire' \in [Sides -> R]
    BY <2>1, <2>2 DEF Sides
  <2>4. QED
    BY <2>3 DEF R
<1>10. \A r \in Sides : wire'[r].come <= Len(wire'[r].sent)
  BY <1>3, <1>4, <1>5, <1>8 DEF Sides
<1>11. \A r \in Sides : Before(wire[r].sent, wire'[r].sent) /\ wire'[r].ended
  BY <1>6, <1>8 DEF Sides
<1>12. ExchangeTypeOK'
  BY <1>2, <1>9, <1>10, TypesAre, TypesStay DEF read, ExchangeTypeOK, WireOK
<1>13. QED
  BY <1>2, <1>11, <1>12
-----------------------------------------------------------------------------
(* The steps of a server behind the header.                                *)

\* The server goes on to v.
ServerTo(v) == pc' = [pc EXCEPT !["server"] = v]

\* ServerTo moves the server alone.
LEMMA ServerGoes ==
  ASSUME ExchangeTypeOK, NEW v \in ServerPoints, ServerTo(v)
  PROVE  PointsOK(pc') /\ pc'.server = v /\ pc'.client = pc.client
<1>1. Proceed("server", v) /\ "server" \in Sides /\ "client" \in Sides /\ "client" # "server"
  BY DEF ServerTo, Proceed, Sides
<1>2. QED
  BY <1>1, Proceeds DEF PointsOK

\* Behind the header a server keeps its invariant, if it goes on as it does here.
LEMMA ServerAfter ==
  ASSUME ExchangeTypeOK, ExchangeTypeOK', ServerInv, wire'.server = wire.server,
         UNCHANGED << line, length, named, late, asked >>, pc'.client = "send" => pc.client = "send",
         pc.server \notin {"request", "header", "done"},
         pc'.server \in {"refuse", "reply", "response", "pieces", "close", "done"},
         pc.server = "refuse" => pc'.server = "close",
         pc.server = "close" => pc'.server = "done",
         pc'.server \in {"reply", "response"} => asked = "action" /\ performed' # None,
         pc'.server = "pieces" => asked = "download",
         PerformedRight'
  PROVE  ServerInv'
<1>0. pc'.server \notin {"request", "header", "content", "file"}
  OBVIOUS
<1>1. ServerReads'
  BY <1>0 DEF ServerReads, InHeader
<1>2. ServerKnows'
  BY <1>0 DEF ServerKnows, InHeader
<1>3. SendInv'
  <2>1. SUFFICES ASSUME pc'.client = "send"
                 PROVE  /\ wire'.server.sent = << >> /\ wire'.server.come = 0
                        /\ pc'.server \in {"request", "refuse", "close", "done"}
                        /\ pc'.server = "request" => line'.server = "empty" /\ length'.server = None
    BY Zenon DEF SendInv
  <2>2. wire.server.sent = << >> /\ wire.server.come = 0 /\ pc.server \in {"request", "refuse", "close", "done"}
    BY <2>1 DEF ServerInv, SendInv
  <2>3. QED
    BY <1>0, <2>2
<1>4. QED
  BY <1>1, <1>2, <1>3 DEF ServerInv

\* What the server keeps in these steps.
Serves == UNCHANGED << line, length, named, late, result, broken, asked >>

\* Content, a recv of the body of the request, keeps the invariant of the server.
LEMMA ContentStep ==
  ASSUME ExchangeTypeOK, ServerInv, Content
  PROVE  /\ ExchangeTypeOK' /\ ServerInv' /\ Serves /\ UNCHANGED << pc, performed >>
         /\ wire'.client = wire.client /\ body'.client = body.client
<1>0. "server" \in Sides /\ "client" \in Sides /\ "client" # "server"
  BY DEF Sides
<1>1. /\ pc.server = "content" /\ Readable("server") /\ Take("server", 1) /\ Serves /\ UNCHANGED << pc, performed >>
      /\ body' = [body EXCEPT !["server"] = Append(@, Head(wire.server.sent))]
  BY DEF Content, Serves
<1> DEFINE q == wire["server"].sent
           e == wire["server"].ended
           b == body["server"]
           c == Append(b, Head(q))
<1>2. q \in Seq(Symbols) /\ Len(q) \in Nat /\ 1 <= Len(q) /\ 1 <= wire["server"].come /\ b \in Seq(Symbols) /\ Len(b) \in Nat
  BY <1>0, <1>1, SideTyped DEF Readable
<1>3. WireOK(wire') /\ wire'["client"] = wire["client"] /\ After(q, wire'["server"].sent, 1) /\ wire'["server"].ended = e
  BY <1>0, <1>1, <1>2, Takes
<1>4. c \in Seq(Symbols) /\ Len(c) = Len(b) + 1 /\ (\A i \in 1 .. Len(b) : c[i] = b[i]) /\ c[Len(b) + 1] = q[1]
  <2> HIDE DEF q, b
  <2>1. QED
    BY <1>2
<1>5. body' = [body EXCEPT !["server"] = c] /\ body \in [Sides -> Texts]
  BY <1>1 DEF ExchangeTypeOK
<1>6. BodyOK(body') /\ body'["client"] = body["client"] /\ body'["server"] = c
  <2> HIDE DEF c
  <2>1. QED
    BY <1>0, <1>4, <1>5 DEF BodyOK, Texts
<1>7. ExchangeTypeOK'
  BY <1>1, <1>3, <1>6, TypesAre, TypesStay DEF Serves, ExchangeTypeOK
<1>8. ServerReads'
  <2>1. PICK m \in Messages : m = asked
    BY <1>0, SideTyped
  <2>2. asked' = m /\ ~InHeader("server")'
    BY <1>1, <2>1 DEF Serves, InHeader
  <2>3. ASSUME ~late.server PROVE \E k \in Nat : HasRead("server", m, k)'
    <3>1. PICK k \in Nat : HasRead("server", m, k)
      <4>1. ServerReads
        BY DEF ServerInv
      <4>2. QED
        BY <1>1, <2>1, <2>3, <4>1, ServerReadsAs, Zenon
    <3> DEFINE h == Header[m]
               t == Body[m]
               a == Announced("server")
    <3>2. Read(q, e, "content", line["server"], length["server"], b, a, h, t, k)
      BY <1>1, <3>1, AsRead, Zenon
    <3>3. h \in Seq(Symbols) /\ t \in Seq(Symbols)
      BY MessageTyped
    <3>4. Read(wire'["server"].sent, e, "content", line["server"], length["server"], c, a, h, t, k + 1)
      <4> HIDE DEF q, e, b, c, h, t, a
      <4>1. Gained(q, b, c, 1)
        BY <1>2, <1>4 DEF Gained
      <4>2. PICK r : r = wire'["server"].sent
        OBVIOUS
      <4>3. After(q, r, 1)
        BY <1>3, <4>2
      <4>4. PICK p \in BodyPoints : p = "content"
        BY DEF BodyPoints
      <4>5. PICK l, n : l = line["server"] /\ n = length["server"]
        OBVIOUS
      <4>6. Read(q, e, p, l, n, b, a, h, t, k)
        BY <3>2, <4>4, <4>5
      <4>7. Read(r, e, p, l, n, c, a, h, t, k + 1)
        BY <3>3, <4>1, <4>3, <4>6, BodyReadOn, Zenon
      <4>8. QED
        BY <4>2, <4>4, <4>5, <4>7
    <3>5. Announced("server")' = a /\ UNCHANGED << pc, line, length >>
      BY <1>0, <1>1, Announces DEF Serves
    <3>6. HasRead("server", m, k + 1)'
      BY <1>1, <1>3, <1>6, <3>4, <3>5, AsRead, Zenon
    <3>7. k + 1 \in Nat
      OBVIOUS
    <3>8. QED
      BY <3>6, <3>7, Zenon
  <2>4. late' = late
    BY <1>1 DEF Serves
  <2>5. QED
    BY <1>7, <2>2, <2>3, <2>4, ServerReadsAs, Zenon
<1>9. ServerKnows' /\ SendInv' /\ PerformedRight'
  <2>1. ServerKnows'
    <3>1. pc.server = "content" /\ pc' = pc /\ length' = length /\ asked' = asked
      BY <1>1 DEF Serves
    <3>2. asked = "action" /\ length.server = Len(Request)
      BY <1>1 DEF ServerInv, ServerKnows
    <3>3. QED
      BY <3>1, <3>2 DEF ServerKnows, InHeader
  <2>2. SendInv'
    BY <1>1 DEF ServerInv, SendInv
  <2>3. PerformedRight'
    BY <1>1, Zenon DEF ServerInv, PerformedRight, Serves
  <2>4. QED
    BY <2>1, <2>2, <2>3
<1>10. QED
  BY <1>1, <1>3, <1>6, <1>7, <1>8, <1>9 DEF ServerInv

\* ContentShort, where the body never comes whole, keeps the invariant of the server.
LEMMA ContentShortStep ==
  ASSUME ExchangeTypeOK, ServerInv, ContentShort
  PROVE  /\ ExchangeTypeOK' /\ ServerInv' /\ Serves /\ UNCHANGED << wire, body, performed >>
         /\ pc'.client = pc.client /\ pc.server = "content" /\ pc'.server = "refuse"
<1>1. pc.server = "content" /\ ServerTo("refuse") /\ UNCHANGED << wire, body, performed >> /\ Serves
  BY DEF ContentShort, ServerTo, Proceed, Serves, read
<1>2. PointsOK(pc') /\ pc'.server = "refuse" /\ pc'.client = pc.client
  BY <1>1, ServerGoes DEF ServerPoints
<1>3. ExchangeTypeOK'
  BY <1>1, <1>2, TypesAre, TypesStay DEF Serves, ExchangeTypeOK
<1>4. PerformedRight'
  BY <1>1, Zenon DEF ServerInv, PerformedRight, Serves
<1>5. ServerInv'
  BY <1>1, <1>2, <1>3, <1>4, ServerAfter DEF Serves
<1>6. QED
  BY <1>1, <1>2, <1>3, <1>5

\* An action is performed as it was asked for.
LEMMA PerformStep ==
  ASSUME ExchangeTypeOK, ServerInv, Perform
  PROVE  /\ ExchangeTypeOK' /\ ServerInv' /\ Serves /\ UNCHANGED << wire, body >>
         /\ pc'.client = pc.client /\ pc.server = "content" /\ pc'.server \in {"reply", "refuse"} /\ performed' # None
<1>0. "server" \in Sides
  BY DEF Sides
<1>1. /\ pc.server = "content" /\ (ServerTo("reply") \/ ServerTo("refuse")) /\ UNCHANGED << wire, body >> /\ Serves
      /\ Len(body.server) = length.server /\ performed' = body.server
  BY DEF Perform, ServerTo, Serves, read
<1>2. PointsOK(pc') /\ pc'.server \in {"reply", "refuse"} /\ pc'.client = pc.client
  BY <1>1, ServerGoes DEF ServerPoints
<1>3. body["server"] \in Texts
  BY <1>0 DEF ExchangeTypeOK
<1>4. performed' \in Texts /\ performed' # None
  BY <1>1, <1>3, ExchangeAssumption
<1>5. ExchangeTypeOK'
  BY <1>1, <1>2, <1>4, TypesAre, TypesStay DEF Serves, ExchangeTypeOK
<1>6. asked = "action" /\ length.server = Len(Request)
  BY <1>1 DEF ServerInv, ServerKnows
<1>7. PerformedRight'
  <2>1. SUFFICES ASSUME ~late.server PROVE body.server = Request
    BY <1>1 DEF PerformedRight, Serves
  <2>2. PICK k \in Nat : HasRead("server", "action", k)
    <3>1. ServerReads /\ "action" \in Messages
      BY DEF ServerInv, Messages
    <3>2. QED
      BY <1>1, <1>6, <2>1, <3>1, ServerReadsAs, Zenon
  <2>3. \/ body["server"] = << >>
        \/ \A i \in 1 .. Len(body["server"]) : body["server"][i] = Body["action"][i]
    BY <1>1, <2>2 DEF HasRead
  <2>4. Body["action"] = Request /\ Request \in Seq(Symbols) /\ Len(Request) \in Nat \ {0}
    <3>1. Body["action"] = Request
      BY DEF Body
    <3>2. Announced("server") \in Nat \ {0}
      BY <1>0, SideTyped
    <3>3. QED
      BY <3>1, <3>2, MessageTyped DEF Announced, Messages
  <2> DEFINE b == body["server"]
  <2>5. b \in Seq(Symbols) /\ Len(b) = Len(Request)
    BY <1>1, <1>3, <1>6 DEF Texts
  <2>6. b # << >> /\ \A i \in 1 .. Len(Request) : b[i] = Request[i]
    <3> HIDE DEF b
    <3>1. b = << >> \/ \A i \in 1 .. Len(b) : b[i] = Request[i]
      BY <2>3, <2>4 DEF b
    <3>2. b # << >>
      BY <2>4, <2>5
    <3>3. QED
      BY <2>5, <3>1, <3>2
  <2>7. b = Request
    <3> HIDE DEF b
    <3>1. QED
      BY <2>4, <2>5, <2>6, Same
  <2>8. QED
    BY <2>7
<1>8. ServerInv'
  BY <1>1, <1>2, <1>4, <1>5, <1>6, <1>7, ServerAfter DEF Serves
<1>9. QED
  BY <1>1, <1>2, <1>4, <1>5, <1>8

\* A step that sends, or ends the connection.
LEMMA ServerSends ==
  ASSUME ExchangeTypeOK, ServerInv, Serves, UNCHANGED performed,
         WireOK(wire'), wire'.server = wire.server, BodyOK(body'),
         NEW v \in {"close", "response", "refuse", "pieces", "done"}, ServerTo(v) \/ (v = "pieces" /\ pc.server = v /\ UNCHANGED pc),
         pc.server \in {"reply", "response", "file", "pieces", "refuse", "close"},
         pc.server = "refuse" => v = "close", pc.server = "close" => v = "done",
         v = "response" => pc.server = "reply", v = "pieces" => pc.server \in {"file", "pieces"}
  PROVE  ExchangeTypeOK' /\ ServerInv' /\ pc'.server = v /\ pc'.client = pc.client
<1>1. PointsOK(pc') /\ pc'.server = v /\ pc'.client = pc.client
  BY ServerGoes, TypesAre DEF ServerPoints
<1>2. ExchangeTypeOK'
  BY <1>1, TypesStay DEF Serves, ExchangeTypeOK
<1>3. PerformedRight'
  BY Zenon DEF ServerInv, PerformedRight, Serves
<1>4. v \in {"reply", "response"} => asked = "action" /\ performed' # None
  BY DEF ServerInv, ServerKnows
<1>5. v = "pieces" => asked = "download"
  BY DEF ServerInv, ServerKnows
<1>6. ServerInv'
  BY <1>1, <1>2, <1>3, <1>4, <1>5, ServerAfter DEF Serves
<1>7. QED
  BY <1>1, <1>2, <1>6
-----------------------------------------------------------------------------
(* The control point.                                                      *)
ReturnedRight ==
  result # None /\ ~late.client =>
    \/ asked = "action" /\ result = Response /\ performed # None
    \/ asked = "download" /\ result = Document
    \/ IsPrefix(result, Page)
ClientInv == ClientReads /\ ClientKnows /\ ReturnedRight

\* Which of the replies it may be reading, and InStep, as relations.
Replies == {"reply", "file", "error"}
MayBe(m, call, done) == (m = "reply" => call = "action" /\ done # None) /\ (m = "file" => call = "download")
StepAt(p, b, m, sent) ==
  /\ p \in {"request", "header", "content", "refuse", "reply", "file"} => sent = 0
  /\ p = "response" => m = "reply" /\ sent = Len(Header.reply)
  /\ p = "pieces" => m = "file" /\ sent = Len(Header.file) + Len(b)
Expecting == pc.client \in {"send", "header", "content", "rest"} /\ ~late.client

\* The replies are messages.
LEMMA RepliesAreMessages == Replies \subseteq Messages
  BY DEF Replies, Messages

\* ClientReads, by the reply, in a state and in the next one.
LEMMA ClientReadsAs ==
  /\ ExchangeTypeOK =>
       (ClientReads <=> (Expecting => \E m \in Replies : \E k \in Nat :
          /\ HasRead("client", m, k) /\ MayBe(m, asked, performed)
          /\ ~broken => StepAt(pc.server, body.server, m, k + Len(wire.client.sent))))
  /\ ExchangeTypeOK' =>
       (ClientReads' <=> (Expecting' => \E m \in Replies : \E k \in Nat :
          /\ HasRead("client", m, k)' /\ MayBe(m, asked', performed')
          /\ ~broken' => StepAt(pc'.server, body'.server, m, k + Len(wire'.client.sent))))
<1>0. "client" \in Sides
  BY DEF Sides
<1>1. ASSUME NEW m \in Replies, NEW q \in Seq(Symbols), NEW k \in Nat, k + Len(q) <= Len(Header[m]) + Len(Body[m])
      PROVE  k \in 0 .. Len(Header[m]) + Len(Body[m])
  <2> DEFINE h == Header[m]
             t == Body[m]
  <2>1. h \in Seq(Symbols) /\ t \in Seq(Symbols) /\ k + Len(q) <= Len(h) + Len(t)
    BY <1>1, RepliesAreMessages, MessageTyped
  <2> HIDE DEF h, t
  <2>2. k \in 0 .. Len(h) + Len(t)
    BY <2>1
  <2>3. QED
    BY <2>2 DEF h, t
<1>2. \A m \in Replies : \A k \in 0 .. Len(Header[m]) + Len(Body[m]) : k \in Nat
  OBVIOUS
<1>3. ASSUME ExchangeTypeOK
      PROVE  ClientReads <=> (Expecting => \E m \in Replies : \E k \in Nat :
               /\ HasRead("client", m, k) /\ MayBe(m, asked, performed)
               /\ ~broken => StepAt(pc.server, body.server, m, k + Len(wire.client.sent)))
  <2>1. wire["client"].sent \in Seq(Symbols)
    BY <1>0, <1>3, SideTyped
  <2>2. \A m \in Replies : \A k \in Nat : HasRead("client", m, k) => k \in 0 .. Len(Header[m]) + Len(Body[m])
    BY <1>1, <2>1, Zenon DEF HasRead
  <2>3. ClientReads <=> (Expecting => \E m \in Replies : \E k \in 0 .. Len(Header[m]) + Len(Body[m]) :
          /\ HasRead("client", m, k) /\ MayBe(m, asked, performed)
          /\ ~broken => StepAt(pc.server, body.server, m, k + Len(wire.client.sent)))
    BY Zenon DEF ClientReads, Expecting, Replies, MayBe, InStep, StepAt
  <2>4. QED
    BY <1>2, <2>2, <2>3, Zenon
<1>4. ASSUME ExchangeTypeOK'
      PROVE  ClientReads' <=> (Expecting' => \E m \in Replies : \E k \in Nat :
               /\ HasRead("client", m, k)' /\ MayBe(m, asked', performed')
               /\ ~broken' => StepAt(pc'.server, body'.server, m, k + Len(wire'.client.sent)))
  <2>1. wire'["client"].sent \in Seq(Symbols)
    BY <1>0, <1>4 DEF ExchangeTypeOK, Texts
  <2>2. \A m \in Replies : \A k \in Nat : HasRead("client", m, k)' => k \in 0 .. Len(Header[m]) + Len(Body[m])
    BY <1>1, <2>1, Zenon DEF HasRead
  <2>3. ClientReads' <=> (Expecting' => \E m \in Replies : \E k \in 0 .. Len(Header[m]) + Len(Body[m]) :
          /\ HasRead("client", m, k)' /\ MayBe(m, asked', performed')
          /\ ~broken' => StepAt(pc'.server, body'.server, m, k + Len(wire'.client.sent)))
    BY Zenon DEF ClientReads, Expecting, Replies, MayBe, InStep, StepAt
  <2>4. QED
    BY <1>2, <2>2, <2>3, Zenon
<1>5. QED
  BY <1>3, <1>4

\* What the control point knows stays, whatever the server goes on to do.
LEMMA ClientKept ==
  ASSUME ExchangeTypeOK, ExchangeTypeOK', ClientInv, UNCHANGED << asked, result >>,
         performed # None => performed' # None,
         pc'.client = pc.client, line'.client = line.client, length'.client = length.client,
         body'.client = body.client, late.client => late'.client,
         Before(wire.client.sent, wire'.client.sent), wire.client.ended => wire'.client.ended,
         wire'.client.ended => wire.client.ended \/ broken' \/ pc'.server = "done",
         broken => broken', pc.server = "done" => pc'.server = "done",
         ~broken' /\ pc.client # "done" =>
            /\ Len(wire'.client.sent) = Len(wire.client.sent)
            /\ \A m \in Replies : \A sent \in Nat :
                 StepAt(pc.server, body.server, m, sent) => StepAt(pc'.server, body'.server, m, sent)
  PROVE  ClientInv'
<1>0. "client" \in Sides
  BY DEF Sides
<1>1. ASSUME NEW m \in Replies, NEW k \in Nat, HasRead("client", m, k) PROVE HasRead("client", m, k)'
  <2> DEFINE q == wire.client.sent
             r == wire'.client.sent
             e == wire.client.ended
             f == wire'.client.ended
             h == Header[m]
             t == Body[m]
             a == Announced("client")
  <2>1. Read(q, e, pc.client, line.client, length.client, body.client, a, h, t, k)
    BY <1>1, AsRead, Zenon
  <2>2. h \in Seq(Symbols) /\ t \in Seq(Symbols) /\ q \in Seq(Symbols) /\ e \in BOOLEAN /\ f \in BOOLEAN
    BY MessageTyped, RepliesAreMessages, SideTyped DEF ExchangeTypeOK, Sides
  <2>3. Read(r, f, pc.client, line.client, length.client, body.client, a, h, t, k)
    <3> HIDE DEF q, r, e, f, h, t, a
    <3>1. Before(q, r) /\ (e => f)
      BY DEF q, r, e, f
    <3>2. QED
      BY <2>1, <2>2, <3>1, StillRead
  <2>4. Announced("client")' = Announced("client")
    BY <1>0, Announces
  <2>5. QED
    BY <2>3, <2>4, AsRead, Zenon
<1>2. ClientReads'
  <2>1. SUFFICES ASSUME Expecting'
                 PROVE  \E m \in Replies : \E k \in Nat :
                          /\ HasRead("client", m, k)' /\ MayBe(m, asked', performed')
                          /\ ~broken' => StepAt(pc'.server, body'.server, m, k + Len(wire'.client.sent))
    BY ClientReadsAs, Zenon
  <2>2. Expecting /\ pc.client # "done"
    BY <2>1 DEF Expecting
  <2>3. PICK m \in Replies, k \in Nat :
          /\ HasRead("client", m, k) /\ MayBe(m, asked, performed)
          /\ ~broken => StepAt(pc.server, body.server, m, k + Len(wire.client.sent))
    BY <2>2, ClientReadsAs, Zenon DEF ClientInv
  <2>4. HasRead("client", m, k)'
    BY <1>1, <2>3
  <2>5. MayBe(m, asked', performed')
    BY <2>3 DEF MayBe
  <2>6. ASSUME ~broken' PROVE StepAt(pc'.server, body'.server, m, k + Len(wire'.client.sent))
    <3>1. Len(wire["client"].sent) \in Nat
      BY <1>0, SideTyped
    <3>2. PICK n \in Nat : n = k + Len(wire.client.sent)
      BY <3>1
    <3>3. StepAt(pc.server, body.server, m, n)
      BY <2>3, <2>6, <3>2
    <3>4. StepAt(pc'.server, body'.server, m, n)
      BY <2>2, <2>6, <3>3, Zenon
    <3>5. k + Len(wire'.client.sent) = n
      BY <2>2, <2>6, <3>2
    <3>6. QED
      BY <3>4, <3>5
  <2>7. QED
    BY <2>4, <2>5, <2>6
<1>3. ClientKnows'
  <2>1. Announced("client")' = Announced("client")
    BY <1>0, Announces
  <2>2. QED
    BY <2>1, Zenon DEF ClientInv, ClientKnows
<1>4. ReturnedRight'
  BY Zenon DEF ClientInv, ReturnedRight
<1>5. QED
  BY <1>2, <1>3, <1>4 DEF ClientInv

\* A step of the server that sends u to the control point.
Gives(u) == Serves /\ UNCHANGED performed /\ pc'.client = pc.client /\ body'.client = body.client /\ Send("client", u)

\* The server sends u: the control point's invariant is kept if it may read all of it.
LEMMA ClientGiven ==
  ASSUME ExchangeTypeOK, ExchangeTypeOK', ClientInv, NEW u \in Seq(Symbols), Gives(u), pc.server # "done",
         ~broken /\ Expecting =>
           \E m \in Replies : \E k \in Nat :
             /\ Read(wire.client.sent \o u, FALSE, pc.client, line.client, length.client, body.client,
                     Announced("client"), Header[m], Body[m], k)
             /\ MayBe(m, asked, performed)
             /\ StepAt(pc'.server, body'.server, m, k + Len(wire.client.sent \o u))
  PROVE  ClientInv'
<1>0. "client" \in Sides
  BY DEF Sides
<1>1. UNCHANGED << line, length, named, late, result, broken, asked, performed >>
      /\ pc'.client = pc.client /\ body'.client = body.client
  BY DEF Gives, Serves
<1>2. \/ ~broken /\ wire'["client"].sent = wire["client"].sent \o u /\ wire'["client"].ended = wire["client"].ended
      \/ (broken \/ pc["client"] = "done") /\ wire' = wire
  BY <1>0, Sends DEF Gives
<1>3. CASE (broken \/ pc.client = "done") /\ wire' = wire
  <2>1. Before(wire.client.sent, wire'.client.sent)
    <3>1. wire'.client.sent = wire.client.sent /\ wire["client"].sent \in Seq(Symbols)
      BY <1>0, <1>3, SideTyped
    <3>2. \A q \in Seq(Symbols) : Before(q, q)
      BY DEF Before
    <3>3. QED
      BY <3>1, <3>2
  <2>2. ~(~broken' /\ pc.client # "done")
    BY <1>1, <1>3
  <2>3. QED
    BY <1>1, <1>3, <2>1, <2>2, ClientKept, Zenon
<1>4. CASE ~broken /\ wire'["client"].sent = wire["client"].sent \o u /\ wire'["client"].ended = wire["client"].ended
  <2>1. wire["client"].ended = FALSE
    <3>1. ~wire.client.ended
      BY <1>4 DEF ClientInv, ClientKnows
    <3>2. wire["client"].ended \in BOOLEAN
      BY <1>0, SideTyped
    <3>3. QED
      BY <3>1, <3>2
  <2>2. Announced("client")' = Announced("client")
    BY <1>0, <1>1, Announces
  <2>3. ClientReads'
    <3>1. SUFFICES ASSUME Expecting'
                   PROVE  \E m \in Replies : \E k \in Nat :
                            /\ HasRead("client", m, k)' /\ MayBe(m, asked', performed')
                            /\ ~broken' => StepAt(pc'.server, body'.server, m, k + Len(wire'.client.sent))
      BY ClientReadsAs, Zenon
    <3>2. Expecting
      BY <1>1, <3>1 DEF Expecting
    <3>3. PICK m \in Replies, k \in Nat :
             /\ Read(wire.client.sent \o u, FALSE, pc.client, line.client, length.client, body.client,
                     Announced("client"), Header[m], Body[m], k)
             /\ MayBe(m, asked, performed)
             /\ StepAt(pc'.server, body'.server, m, k + Len(wire.client.sent \o u))
      BY <1>4, <3>2, Zenon
    <3>4. HasRead("client", m, k)'
      <4>1. wire'.client.sent = wire.client.sent \o u /\ wire'.client.ended = FALSE
            /\ line'.client = line.client /\ length'.client = length.client
        BY <1>1, <1>4, <2>1
      <4>2. QED
        BY <1>1, <2>2, <3>3, <4>1, AsRead, Zenon
    <3>5. MayBe(m, asked', performed') /\ StepAt(pc'.server, body'.server, m, k + Len(wire'.client.sent))
      BY <1>1, <1>4, <3>3, Zenon
    <3>6. QED
      BY <3>4, <3>5
  <2>4. ClientKnows'
    <3>1. ~wire'.client.ended
      BY <1>4, <2>1
    <3>2. /\ pc.client = "content" => length.client = Announced("client") /\ length.client # None
          /\ pc.client = "rest" => length.client = None
      BY DEF ClientInv, ClientKnows
    <3>3. length'.client = length.client
      BY <1>1
    <3>4. QED
      BY <1>1, <2>2, <3>1, <3>2, <3>3, Zenon DEF ClientKnows
  <2>5. ReturnedRight'
    BY <1>1, Zenon DEF ClientInv, ReturnedRight
  <2>6. QED
    BY <2>3, <2>4, <2>5 DEF ClientInv
<1>5. QED
  BY <1>2, <1>3, <1>4

\* Nothing of a reply has been sent before: it may be any.
LEMMA ClientBegun ==
  ASSUME ExchangeTypeOK, ExchangeTypeOK', ClientInv, NEW u \in Seq(Symbols), Gives(u),
         pc.server \in {"reply", "file", "refuse"},
         NEW m \in Replies, MayBe(m, asked, performed), Len(u) <= Len(Header[m]) + Len(Body[m]),
         \A i \in 1 .. Len(u) : u[i] = SymbolOf(Header[m], Body[m], i),
         StepAt(pc'.server, body'.server, m, Len(u))
  PROVE  ClientInv'
<1>0. "client" \in Sides
  BY DEF Sides
<1>1. ASSUME ~broken, Expecting
      PROVE  /\ Read(wire.client.sent \o u, FALSE, pc.client, line.client, length.client, body.client,
                     Announced("client"), Header[m], Body[m], 0)
             /\ StepAt(pc'.server, body'.server, m, 0 + Len(wire.client.sent \o u))
  <2>1. PICK m1 \in Replies, k \in Nat :
          HasRead("client", m1, k) /\ StepAt(pc.server, body.server, m1, k + Len(wire.client.sent))
    BY <1>1, ClientReadsAs, Zenon DEF ClientInv
  <2>2. k + Len(wire.client.sent) = 0
    BY <2>1 DEF StepAt
  <2> DEFINE q == wire["client"].sent
  <2>3. q \in Seq(Symbols) /\ k + Len(q) = 0 /\ Len(q) \in Nat
    BY <1>0, <2>2, SideTyped
  <2>4. k = 0 /\ q = << >>
    <3> HIDE DEF q
    <3>1. k = 0 /\ Len(q) = 0
      BY <2>3
    <3>2. QED
      BY <2>3, <3>1
  <2>5. wire["client"].ended = FALSE
    <3>1. ~wire.client.ended
      BY <1>1 DEF ClientInv, ClientKnows
    <3>2. wire["client"].ended \in BOOLEAN
      BY <1>0, SideTyped
    <3>3. QED
      BY <3>1, <3>2
  <2> DEFINE h1 == Header[m1]
             t1 == Body[m1]
             h == Header[m]
             t == Body[m]
             a == Announced("client")
  <2>6. Read(<< >>, FALSE, pc.client, line.client, length.client, body.client, a, h1, t1, 0)
    BY <2>1, <2>4, <2>5, AsRead, Zenon
  <2>7. /\ h1 \in Seq(Symbols) /\ t1 \in Seq(Symbols) /\ Framed(h1)
        /\ h \in Seq(Symbols) /\ t \in Seq(Symbols) /\ Framed(h)
    BY RepliesAreMessages, MessageTyped, HeadersFramed
  <2>8. Len(u) <= Len(h) + Len(t) /\ \A i \in 1 .. Len(u) : u[i] = SymbolOf(h, t, i)
    BY Zenon
  <2> HIDE DEF h1, t1, h, t, a
  <2>9. Read(u, FALSE, pc.client, line.client, length.client, body.client, a, h, t, 0)
    BY <2>6, <2>7, <2>8, Begun
  <2>10. q \o u = u /\ 0 + Len(u) = Len(u)
    BY <2>4
  <2>11. QED
    BY <2>9, <2>10, Zenon DEF q, h, t, a
<1>2. pc.server # "done" /\ 0 \in Nat
  OBVIOUS
<1>3. QED
  BY <1>1, <1>2, ClientGiven, Zenon

\* The first n symbols of a reply have been sent: u is what follows.
Follows(u, m, n) ==
  /\ \A m1 \in Replies : \A i \in Nat : StepAt(pc.server, body.server, m1, i) => m1 = m /\ i = n
  /\ n + Len(u) <= Len(Header[m]) + Len(Body[m])
  /\ \A i \in 1 .. Len(u) : u[i] = SymbolOf(Header[m], Body[m], n + i)
  /\ StepAt(pc'.server, body'.server, m, n + Len(u))

\* The server sends u: the control point's invariant is kept if u follows in a reply.
LEMMA ClientSent ==
  ASSUME ExchangeTypeOK, ExchangeTypeOK', ClientInv, NEW u \in Seq(Symbols), Gives(u), pc.server # "done",
         NEW m \in Replies, NEW n \in Nat, Follows(u, m, n)
  PROVE  ClientInv'
<1>0. "client" \in Sides
  BY DEF Sides
<1>1. ASSUME ~broken, Expecting
      PROVE  \E k \in Nat :
               /\ Read(wire.client.sent \o u, FALSE, pc.client, line.client, length.client, body.client,
                       Announced("client"), Header[m], Body[m], k)
               /\ MayBe(m, asked, performed)
               /\ StepAt(pc'.server, body'.server, m, k + Len(wire.client.sent \o u))
  <2>1. PICK m1 \in Replies, k \in Nat :
          /\ HasRead("client", m1, k) /\ MayBe(m1, asked, performed)
          /\ StepAt(pc.server, body.server, m1, k + Len(wire.client.sent))
    BY <1>1, ClientReadsAs, Zenon DEF ClientInv
  <2> DEFINE q == wire["client"].sent
             h == Header[m]
             t == Body[m]
             a == Announced("client")
  <2>2. q \in Seq(Symbols) /\ Len(q) \in Nat /\ h \in Seq(Symbols) /\ t \in Seq(Symbols)
    BY <1>0, SideTyped, MessageTyped, RepliesAreMessages
  <2>3. k + Len(q) \in Nat
    BY <2>2
  <2>4. m1 = m /\ k + Len(q) = n
    BY <2>1, <2>3, Zenon DEF Follows
  <2>5. wire["client"].ended = FALSE
    <3>1. ~wire.client.ended
      BY <1>1 DEF ClientInv, ClientKnows
    <3>2. wire["client"].ended \in BOOLEAN
      BY <1>0, SideTyped
    <3>3. QED
      BY <3>1, <3>2
  <2>6. Read(q, FALSE, pc.client, line.client, length.client, body.client, a, h, t, k)
    BY <2>1, <2>4, <2>5, AsRead, Zenon
  <2>7. n + Len(u) <= Len(h) + Len(t) /\ \A i \in 1 .. Len(u) : u[i] = SymbolOf(h, t, n + i)
    BY Zenon DEF Follows
  <2>8. StepAt(pc'.server, body'.server, m, n + Len(u))
    BY Zenon DEF Follows
  <2> HIDE DEF q, h, t, a
  <2>9. k + Len(q) + Len(u) <= Len(h) + Len(t) /\ \A i \in 1 .. Len(u) : u[i] = SymbolOf(h, t, k + Len(q) + i)
    BY <2>4, <2>7
  <2>10. Read(q \o u, FALSE, pc.client, line.client, length.client, body.client, a, h, t, k)
    BY <2>2, <2>6, <2>9, MoreSent
  <2>11. k + Len(q \o u) = n + Len(u)
    <3>1. Len(q \o u) = Len(q) + Len(u) /\ Len(q) \in Nat /\ Len(u) \in Nat
      BY <2>2, Appended
    <3>2. \A x, y \in Nat : k + x = n => k + (x + y) = n + y
      OBVIOUS
    <3>3. QED
      BY <2>4, <3>1, <3>2, Zenon
  <2>12. QED
    BY <2>1, <2>4, <2>8, <2>10, <2>11, Zenon DEF q, h, t, a
<1>2. QED
  BY <1>1, ClientGiven, Zenon
-----------------------------------------------------------------------------
(* The steps that send.                                                    *)

\* The symbols of the parts of a message.
LEMMA PartSymbols ==
  ASSUME NEW h \in Seq(Symbols), NEW t \in Seq(Symbols)
  PROVE  /\ \A i \in 1 .. Len(h) : h[i] = SymbolOf(h, t, i)
         /\ h \o t \in Seq(Symbols) /\ Len(h \o t) = Len(h) + Len(t)
         /\ \A i \in 1 .. Len(h \o t) : (h \o t)[i] = SymbolOf(h, t, i)
         /\ \A j \in 0 .. Len(t) : \A n \in j .. Len(t) :
              /\ SubSeq(t, j + 1, n) \in Seq(Symbols) /\ Len(SubSeq(t, j + 1, n)) = n - j
              /\ \A i \in 1 .. n - j : SubSeq(t, j + 1, n)[i] = SymbolOf(h, t, Len(h) + j + i)
<1>1. \A i \in 1 .. Len(h) : h[i] = SymbolOf(h, t, i)
  BY DEF SymbolOf
<1>2. h \o t \in Seq(Symbols) /\ Len(h \o t) = Len(h) + Len(t)
      /\ (\A i \in 1 .. Len(h) : (h \o t)[i] = h[i])
      /\ \A i \in 1 .. Len(t) : (h \o t)[Len(h) + i] = t[i]
  BY Appended
<1>3. \A i \in 1 .. Len(t) : SymbolOf(h, t, Len(h) + i) = t[i]
  <2> SUFFICES ASSUME NEW i \in 1 .. Len(t) PROVE SymbolOf(h, t, Len(h) + i) = t[i]
    OBVIOUS
  <2>1. PICK y \in Nat : y = Len(h) + i
    OBVIOUS
  <2>2. y > Len(h) /\ y - Len(h) = i
    BY <2>1
  <2>3. SymbolOf(h, t, y) = t[y - Len(h)]
    BY <2>2, SymbolsOf
  <2>4. QED
    BY <2>1, <2>2, <2>3, Zenon
<1>4. ASSUME NEW i \in 1 .. Len(h \o t) PROVE (h \o t)[i] = SymbolOf(h, t, i)
  <2>1. CASE i <= Len(h)
    <3>1. i \in 1 .. Len(h)
      BY <1>2, <2>1
    <3>2. QED
      BY <1>1, <1>2, <3>1
  <2>2. CASE i > Len(h)
    <3>1. PICK x \in 1 .. Len(t) : i = Len(h) + x
      <4>1. i - Len(h) \in 1 .. Len(t) /\ i = Len(h) + (i - Len(h))
        BY <1>2, <2>2
      <4>2. QED
        BY <4>1
    <3>2. (h \o t)[Len(h) + x] = t[x] /\ SymbolOf(h, t, Len(h) + x) = t[x]
      BY <1>2, <1>3
    <3>3. QED
      BY <3>1, <3>2, Zenon
  <2>3. QED
    BY <1>2, <2>1, <2>2
<1>5. ASSUME NEW j \in 0 .. Len(t), NEW n \in j .. Len(t)
      PROVE  /\ SubSeq(t, j + 1, n) \in Seq(Symbols) /\ Len(SubSeq(t, j + 1, n)) = n - j
             /\ \A i \in 1 .. n - j : SubSeq(t, j + 1, n)[i] = SymbolOf(h, t, Len(h) + j + i)
  <2>1. /\ SubSeq(t, j + 1, n) \in Seq(Symbols) /\ Len(SubSeq(t, j + 1, n)) = n - j
        /\ \A i \in 1 .. n - j : SubSeq(t, j + 1, n)[i] = t[j + i]
    OBVIOUS
  <2>2. \A i \in 1 .. n - j : SymbolOf(h, t, Len(h) + j + i) = t[j + i]
    <3>1. \A i \in 1 .. n - j : j + i \in 1 .. Len(t) /\ Len(h) + (j + i) = Len(h) + j + i
      OBVIOUS
    <3>2. QED
      BY <1>3, <3>1
  <2>3. QED
    BY <2>1, <2>2
<1>6. QED
  BY <1>1, <1>2, <1>4, <1>5

\* The replies are texts.
LEMMA RepliesAre ==
  /\ Header.reply = Header["reply"] /\ Header.file = Header["file"] /\ Header.error = Header["error"]
  /\ Body["reply"] = Response /\ Body["file"] = Document /\ Body["error"] = Page
  /\ "reply" \in Replies /\ "file" \in Replies /\ "error" \in Replies
  /\ \A m \in Replies : /\ Header[m] \in Seq(Symbols) /\ Body[m] \in Seq(Symbols)
                        /\ Len(Header[m]) \in Nat /\ Len(Body[m]) \in Nat
<1>1. Body["reply"] = Response /\ Body["file"] = Document /\ Body["error"] = Page
  BY DEF Body
<1>2. "reply" \in Replies /\ "file" \in Replies /\ "error" \in Replies
  BY DEF Replies
<1>3. QED
  BY <1>1, <1>2, MessageTyped, RepliesAreMessages

\* What sending leaves alone.
LEMMA ServerGives ==
  ASSUME ExchangeTypeOK, NEW u \in Seq(Symbols), Send("client", u)
  PROVE  WireOK(wire') /\ wire'.server = wire.server
<1>1. "client" \in Sides /\ "server" \in Sides /\ "server" # "client"
  BY DEF Sides
<1>2. QED
  BY <1>1, Sends

\* Reply, the header of the reply to an action, keeps the invariant.
LEMMA ReplyStep ==
  ASSUME ExchangeTypeOK, ServerInv, ClientInv, Reply
  PROVE  ExchangeTypeOK' /\ ServerInv' /\ ClientInv'
<1> DEFINE h == Header["reply"]
           t == Body["reply"]
<1>1. pc.server = "reply" /\ Send("client", h) /\ Serves /\ UNCHANGED << body, performed >>
  BY Zenon DEF Reply, Serves, read
<1>2. PICK v \in {"close", "response"} : ServerTo(v)
  BY Zenon DEF Reply, ServerTo, Proceed
<1>3. h \in Seq(Symbols) /\ t \in Seq(Symbols) /\ "reply" \in Replies
  BY RepliesAre
<1>4. WireOK(wire') /\ wire'.server = wire.server
  BY <1>1, <1>3, ServerGives
<1>5. BodyOK(body')
  BY <1>1, TypesAre
<1>6. ExchangeTypeOK' /\ ServerInv' /\ pc'.server = v /\ pc'.client = pc.client
  BY <1>1, <1>2, <1>4, <1>5, ServerSends
<1>7. Gives(h)
  BY <1>1, <1>6 DEF Gives
<1>8. MayBe("reply", asked, performed)
  BY <1>1 DEF ServerInv, ServerKnows, MayBe
<1>9. Len(h) <= Len(h) + Len(t) /\ \A i \in 1 .. Len(h) : h[i] = SymbolOf(h, t, i)
  <2>1. \A i \in 1 .. Len(h) : h[i] = SymbolOf(h, t, i)
    BY <1>3, PartSymbols
  <2> HIDE DEF h, t
  <2>2. QED
    BY <1>3, <2>1
<1>10. StepAt(pc'.server, body'.server, "reply", Len(h))
  <2>1. pc'.server \in {"close", "response"}
    BY <1>6
  <2>2. h = Header.reply
    BY RepliesAre
  <2> HIDE DEF h
  <2>3. QED
    BY <2>1, <2>2 DEF StepAt
<1>11. ClientInv'
  <2>1. pc.server \in {"reply", "file", "refuse"}
    BY <1>1
  <2>2. QED
    BY <1>3, <1>6, <1>7, <1>8, <1>9, <1>10, <2>1, ClientBegun, Zenon
<1>12. QED
  BY <1>6, <1>11

\* Respond, the body of that reply, keeps the invariant.
LEMMA RespondStep ==
  ASSUME ExchangeTypeOK, ServerInv, ClientInv, Respond
  PROVE  ExchangeTypeOK' /\ ServerInv' /\ ClientInv'
<1> DEFINE h == Header["reply"]
           t == Body["reply"]
<1>1. /\ pc.server = "response" /\ Send("client", Response) /\ Serves /\ UNCHANGED << body, performed >>
      /\ ServerTo("close")
  BY Zenon DEF Respond, Serves, read, ServerTo, Proceed
<1>2. t = Response /\ h = Header.reply
  BY RepliesAre
<1>3. h \in Seq(Symbols) /\ t \in Seq(Symbols) /\ "reply" \in Replies /\ Len(h) \in Nat /\ Len(t) \in Nat
  BY RepliesAre
<1>4. WireOK(wire') /\ wire'.server = wire.server
  BY <1>1, <1>2, <1>3, ServerGives
<1>5. BodyOK(body')
  BY <1>1, TypesAre
<1>6. ExchangeTypeOK' /\ ServerInv' /\ pc'.server = "close" /\ pc'.client = pc.client
  BY <1>1, <1>4, <1>5, ServerSends
<1>7. Gives(t)
  BY <1>1, <1>2, <1>6 DEF Gives
<1> HIDE DEF h, t
<1>8. \A m1 \in Replies : \A i \in Nat : StepAt(pc.server, body.server, m1, i) => m1 = "reply" /\ i = Len(h)
  BY <1>1, <1>2 DEF StepAt
<1>9. Len(h) + Len(t) <= Len(h) + Len(t) /\ \A i \in 1 .. Len(t) : t[i] = SymbolOf(h, t, Len(h) + i)
  <2>1. 0 \in 0 .. Len(t) /\ Len(t) \in 0 .. Len(t)
    BY <1>3
  <2>2. \A i \in 1 .. Len(t) - 0 : SubSeq(t, 0 + 1, Len(t))[i] = SymbolOf(h, t, Len(h) + 0 + i)
    BY <1>3, <2>1, PartSymbols
  <2>3. SubSeq(t, 0 + 1, Len(t)) = t
    BY <1>3
  <2>4. Len(t) - 0 = Len(t) /\ \A i \in 1 .. Len(t) : Len(h) + 0 + i = Len(h) + i
    BY <1>3
  <2>5. QED
    BY <1>3, <2>2, <2>3, <2>4
<1>10. StepAt(pc'.server, body'.server, "reply", Len(h) + Len(t))
  BY <1>6 DEF StepAt
<1>11. Follows(t, "reply", Len(h))
  BY <1>8, <1>9, <1>10, Zenon DEF Follows, h, t
<1>12. ClientInv'
  BY <1>1, <1>3, <1>6, <1>7, <1>11, ClientSent
<1>13. QED
  BY <1>6, <1>12

\* File, the header of a description, keeps the invariant.
LEMMA FileStep ==
  ASSUME ExchangeTypeOK, ServerInv, ClientInv, File
  PROVE  ExchangeTypeOK' /\ ServerInv' /\ ClientInv'
<1> DEFINE h == Header["file"]
           t == Body["file"]
<1>1. pc.server = "file" /\ Serves /\ UNCHANGED << body, performed >>
  BY Zenon DEF File, Serves, read
<1>2. h \in Seq(Symbols) /\ t \in Seq(Symbols) /\ "file" \in Replies /\ Len(h) \in Nat /\ Len(t) \in Nat
  BY RepliesAre
<1>3. BodyOK(body') /\ WireOK(wire)
  BY <1>1, TypesAre
<1>4. CASE ServerTo("refuse") /\ UNCHANGED wire
  <2>1. ExchangeTypeOK' /\ ServerInv' /\ pc'.server = "refuse" /\ pc'.client = pc.client
    BY <1>1, <1>3, <1>4, ServerSends
  <2>2. \A m \in Replies : \A i \in Nat : StepAt(pc.server, body.server, m, i) => StepAt(pc'.server, body'.server, m, i)
    BY <1>1, <2>1 DEF StepAt
  <2>3. Before(wire.client.sent, wire'.client.sent)
    <3>1. wire'.client.sent = wire.client.sent /\ wire["client"].sent \in Seq(Symbols)
      BY <1>4, SideTyped DEF Sides
    <3>2. \A q \in Seq(Symbols) : Before(q, q)
      BY DEF Before
    <3>3. QED
      BY <3>1, <3>2
  <2>4. ClientInv'
    <3>1. UNCHANGED << asked, result, performed, line, length, late, body, broken, wire >> /\ pc.server # "done"
      BY <1>1, <1>4 DEF Serves
    <3>2. QED
      BY <2>1, <2>2, <2>3, <3>1, ClientKept, Zenon
  <2>5. QED
    BY <2>1, <2>4
<1>5. CASE ServerTo("pieces") /\ Send("client", h)
  <2>1. WireOK(wire') /\ wire'.server = wire.server
    BY <1>2, <1>5, ServerGives
  <2>2. ExchangeTypeOK' /\ ServerInv' /\ pc'.server = "pieces" /\ pc'.client = pc.client
    BY <1>1, <1>3, <1>5, <2>1, ServerSends
  <2>3. Gives(h)
    BY <1>1, <1>5, <2>2 DEF Gives
  <2>4. MayBe("file", asked, performed) /\ body.server = << >>
    BY <1>1 DEF ServerInv, ServerKnows, MayBe
  <2>5. Len(h) <= Len(h) + Len(t) /\ \A i \in 1 .. Len(h) : h[i] = SymbolOf(h, t, i)
    <3>1. \A i \in 1 .. Len(h) : h[i] = SymbolOf(h, t, i)
      BY <1>2, PartSymbols
    <3> HIDE DEF h, t
    <3>2. QED
      BY <1>2, <3>1
  <2>6. StepAt(pc'.server, body'.server, "file", Len(h))
    <3>1. pc'.server = "pieces" /\ body'.server = << >>
      BY <1>1, <2>2, <2>4
    <3>2. h = Header.file
      BY RepliesAre
    <3>3. Len(h) = Len(h) + Len(<< >>)
      <4> HIDE DEF h
      <4>1. QED
        BY <1>2
    <3> HIDE DEF h
    <3>4. QED
      BY <3>1, <3>2, <3>3 DEF StepAt
  <2>7. ClientInv'
    <3>1. pc.server \in {"reply", "file", "refuse"}
      BY <1>1
    <3>2. QED
      BY <1>2, <2>2, <2>3, <2>4, <2>5, <2>6, <3>1, ClientBegun, Zenon
  <2>8. QED
    BY <2>2, <2>7
<1>6. QED
  BY <1>4, <1>5, Zenon DEF File, ServerTo, Proceed

\* Refuse, the page of an error, keeps the invariant.
LEMMA RefuseStep ==
  ASSUME ExchangeTypeOK, ServerInv, ClientInv, Refuse
  PROVE  ExchangeTypeOK' /\ ServerInv' /\ ClientInv'
<1> DEFINE h == Header["error"]
           t == Body["error"]
<1>1. /\ pc.server = "refuse" /\ Serves /\ UNCHANGED << body, performed >> /\ ServerTo("close")
      /\ Send("client", Header.error \o Page)
  BY Zenon DEF Refuse, Serves, read, ServerTo, Proceed
<1>2. h \in Seq(Symbols) /\ t \in Seq(Symbols) /\ "error" \in Replies /\ h \o t = Header.error \o Page
  BY RepliesAre
<1>3. h \o t \in Seq(Symbols) /\ Len(h \o t) = Len(h) + Len(t)
      /\ \A i \in 1 .. Len(h \o t) : (h \o t)[i] = SymbolOf(h, t, i)
  BY <1>2, PartSymbols
<1> DEFINE u == h \o t
<1>4. WireOK(wire') /\ wire'.server = wire.server
  BY <1>1, <1>2, <1>3, ServerGives
<1>5. BodyOK(body')
  BY <1>1, TypesAre
<1>6. ExchangeTypeOK' /\ ServerInv' /\ pc'.server = "close" /\ pc'.client = pc.client
  BY <1>1, <1>4, <1>5, ServerSends
<1>7. Gives(u)
  BY <1>1, <1>2, <1>6 DEF Gives
<1>8. MayBe("error", asked, performed)
  BY DEF MayBe
<1>9. Len(u) <= Len(h) + Len(t)
  <2>1. Len(u) = Len(h) + Len(t) /\ Len(h) \in Nat /\ Len(t) \in Nat
    BY <1>3, RepliesAre
  <2> HIDE DEF u, h, t
  <2>2. QED
    BY <2>1
<1>10. StepAt(pc'.server, body'.server, "error", Len(u))
  BY <1>6 DEF StepAt
<1>11. ClientInv'
  <2>1. pc.server \in {"reply", "file", "refuse"}
    BY <1>1
  <2>2. u \in Seq(Symbols) /\ \A i \in 1 .. Len(u) : u[i] = SymbolOf(h, t, i)
    BY <1>3
  <2> HIDE DEF u
  <2>3. QED
    BY <1>2, <1>6, <1>7, <1>8, <1>9, <1>10, <2>1, <2>2, ClientBegun, Zenon
<1>12. QED
  BY <1>6, <1>11

\* Piece, a part of a description, keeps the invariant.
LEMMA PieceStep ==
  ASSUME ExchangeTypeOK, ServerInv, ClientInv, Piece
  PROVE  ExchangeTypeOK' /\ ServerInv' /\ ClientInv'
<1>0. "server" \in Sides /\ "client" \in Sides /\ "client" # "server"
  BY DEF Sides
<1> DEFINE h == Header["file"]
           t == Body["file"]
           b == body["server"]
           j == Len(body["server"])
<1>1. pc.server = "pieces" /\ Serves /\ UNCHANGED performed
  BY Zenon DEF Piece, Serves
<1>2. /\ h \in Seq(Symbols) /\ t \in Seq(Symbols) /\ "file" \in Replies /\ Len(h) \in Nat /\ Len(t) \in Nat
      /\ t = Document /\ h = Header.file
  BY RepliesAre
<1>3. b \in Seq(Symbols) /\ j \in Nat /\ body \in [Sides -> Texts]
  BY <1>0, SideTyped DEF ExchangeTypeOK
<1>4. PICK n \in j + 1 .. Len(Document) :
        LET piece == SubSeq(Document, j + 1, n) IN
        /\ Send("client", piece)
        /\ IF wire' = wire
             THEN Proceed("server", "close") /\ UNCHANGED body
             ELSE /\ body' = [body EXCEPT !["server"] = @ \o piece]
                  /\ Proceed("server", "close") \/ (n < Len(Document) /\ UNCHANGED pc)
  BY Zenon DEF Piece
<1> DEFINE u == SubSeq(t, j + 1, n)
           c == b \o u
<1>5. j \in 0 .. Len(t) /\ n \in j .. Len(t)
  <2>1. n \in j + 1 .. Len(t)
    BY <1>2
  <2> HIDE DEF j, t
  <2>2. QED
    BY <1>2, <1>3, <2>1
<1>6. u \in Seq(Symbols) /\ Len(u) = n - j /\ \A i \in 1 .. n - j : u[i] = SymbolOf(h, t, Len(h) + j + i)
  <2> HIDE DEF h, t, j
  <2>1. \A x \in 0 .. Len(t) : \A y \in x .. Len(t) :
          /\ SubSeq(t, x + 1, y) \in Seq(Symbols) /\ Len(SubSeq(t, x + 1, y)) = y - x
          /\ \A i \in 1 .. y - x : SubSeq(t, x + 1, y)[i] = SymbolOf(h, t, Len(h) + x + i)
    BY <1>2, PartSymbols
  <2>2. QED
    BY <1>5, <2>1, Zenon
<1>7. Send("client", u)
      /\ \/ ServerTo("close") /\ body' = body
         \/ /\ body' = [body EXCEPT !["server"] = c]
            /\ ServerTo("close") \/ UNCHANGED pc
  <2>1. \/ ServerTo("close") /\ body' = body
        \/ /\ body' = [body EXCEPT !["server"] = @ \o u]
           /\ ServerTo("close") \/ UNCHANGED pc
    BY <1>2, <1>4, Zenon DEF ServerTo, Proceed
  <2>2. [body EXCEPT !["server"] = @ \o u] = [body EXCEPT !["server"] = c]
    BY <1>3
  <2>3. Send("client", u)
    BY <1>2, <1>4, Zenon
  <2>4. QED
    BY <2>1, <2>2, <2>3, Zenon
<1>8. c \in Seq(Symbols) /\ Len(c) = j + Len(u)
  <2>1. b \in Seq(Symbols) /\ u \in Seq(Symbols)
    BY <1>3, <1>6
  <2>2. c \in Seq(Symbols) /\ Len(c) = Len(b) + Len(u)
    BY <2>1, Appended
  <2>3. QED
    BY <2>2
<1> HIDE DEF u, c
<1>9. BodyOK(body') /\ body'["client"] = body["client"] /\ (body' = body \/ body'["server"] = c)
  BY <1>0, <1>3, <1>7, <1>8 DEF BodyOK, Texts
<1>10. WireOK(wire') /\ wire'.server = wire.server
  BY <1>6, <1>7, ServerGives
<1>11. PICK v \in {"close", "pieces"} :
         /\ ExchangeTypeOK' /\ ServerInv' /\ pc'.server = v /\ pc'.client = pc.client
         /\ v = "pieces" => body'["server"] = c
  <2>1. CASE ServerTo("close")
    <3>1. ExchangeTypeOK' /\ ServerInv' /\ pc'.server = "close" /\ pc'.client = pc.client
      BY <1>1, <1>9, <1>10, <2>1, ServerSends
    <3>2. QED
      BY <3>1
  <2>2. CASE UNCHANGED pc /\ body'["server"] = c
    <3>1. ExchangeTypeOK' /\ ServerInv' /\ pc'.server = "pieces" /\ pc'.client = pc.client
      BY <1>1, <1>9, <1>10, <2>2, ServerSends
    <3>2. QED
      BY <2>2, <3>1
  <2>3. body' = [body EXCEPT !["server"] = c] => body'["server"] = c
    BY <1>0, <1>3
  <2>4. QED
    BY <1>7, <2>1, <2>2, <2>3
<1>12. Gives(u)
  BY <1>1, <1>7, <1>9, <1>11 DEF Gives
<1>13. Follows(u, "file", Len(h) + j)
  <2>1. \A m1 \in Replies : \A i \in Nat : StepAt(pc.server, body.server, m1, i) => m1 = "file" /\ i = Len(h) + j
    BY <1>1, <1>2 DEF StepAt
  <2> HIDE DEF h, t, j
  <2>2. Len(h) + j + Len(u) <= Len(h) + Len(t)
    BY <1>2, <1>3, <1>5, <1>6
  <2>3. \A i \in 1 .. Len(u) : u[i] = SymbolOf(h, t, Len(h) + j + i)
    BY <1>6
  <2>4. StepAt(pc'.server, body'.server, "file", Len(h) + j + Len(u))
    <3>1. CASE v = "close"
      BY <1>11, <3>1 DEF StepAt
    <3>2. CASE v = "pieces"
      <4>1. Len(h) + j + Len(u) = Len(h) + Len(c)
        BY <1>2, <1>3, <1>5, <1>6, <1>8
      <4>2. pc'.server = "pieces" /\ body'.server = c
        BY <1>11, <3>2
      <4>3. QED
        BY <1>2, <4>1, <4>2 DEF StepAt
    <3>3. QED
      BY <3>1, <3>2
  <2>5. QED
    BY <2>1, <2>2, <2>3, <2>4, Zenon DEF Follows, h, t
<1>14. ClientInv'
  <2>1. Len(h) + j \in Nat /\ pc.server # "done"
    <3>1. \A x, y \in Nat : x + y \in Nat
      OBVIOUS
    <3>2. QED
      BY <1>1, <1>2, <1>3, <3>1
  <2>2. QED
    BY <1>2, <1>6, <1>11, <1>12, <1>13, <2>1, ClientSent
<1>15. QED
  BY <1>11, <1>14

\* Nothing that has been sent is lost: the control point knows what it knew.
LEMMA BeforeItself == ASSUME NEW q \in Seq(Symbols) PROVE Before(q, q)
  BY DEF Before

\* Close, the end of the connection, keeps the invariant.
LEMMA CloseStep ==
  ASSUME ExchangeTypeOK, ServerInv, ClientInv, Close
  PROVE  ExchangeTypeOK' /\ ServerInv' /\ ClientInv'
<1>0. "server" \in Sides /\ "client" \in Sides /\ "client" # "server"
  BY DEF Sides
<1>1. /\ pc.server = "close" /\ Serves /\ UNCHANGED << body, performed >> /\ ServerTo("done")
      /\ wire' = [wire EXCEPT !["client"].ended = TRUE]
  BY Zenon DEF Close, Serves, read, ServerTo, Proceed
<1>2. WireOK(wire') /\ wire'["server"] = wire["server"]
      /\ wire'["client"].sent = wire["client"].sent /\ wire'["client"].ended
  BY <1>0, <1>1, EndsWire
<1>3. BodyOK(body')
  BY <1>1, TypesAre
<1>4. ExchangeTypeOK' /\ ServerInv' /\ pc'.server = "done" /\ pc'.client = pc.client
  BY <1>1, <1>2, <1>3, ServerSends
<1>5. Before(wire.client.sent, wire'.client.sent)
  BY <1>0, <1>2, SideTyped, BeforeItself
<1>6. \A m \in Replies : \A i \in Nat : StepAt(pc'.server, body'.server, m, i)
  BY <1>4 DEF StepAt
<1>7. ClientInv'
  <2>1. UNCHANGED << asked, result, performed, line, length, late, body, broken >>
    BY <1>1 DEF Serves
  <2>2. Len(wire'.client.sent) = Len(wire.client.sent) /\ wire'.client.ended
    BY <1>2
  <2>3. QED
    BY <1>4, <1>5, <1>6, <2>1, <2>2, ClientKept, Zenon
<1>8. QED
  BY <1>4, <1>7

\* A request begins.
LEMMA Beginning ==
  ASSUME NEW h \in Seq(Symbols), Framed(h), NEW t \in Seq(Symbols), NEW q, Before(h \o t, q), NEW e, NEW a
  PROVE  Read(q, e, "request", "empty", None, << >>, a, h, t, 0)
<1>1. /\ h \o t \in Seq(Symbols) /\ Len(h \o t) = Len(h) + Len(t)
      /\ \A i \in 1 .. Len(h \o t) : (h \o t)[i] = SymbolOf(h, t, i)
  BY PartSymbols
<1>2. OnTheWay(q, h, t, 0)
  <2> DEFINE u == h \o t
  <2>1. Before(u, q) /\ u \in Seq(Symbols) /\ Len(u) = Len(h) + Len(t) /\ \A i \in 1 .. Len(u) : u[i] = SymbolOf(h, t, i)
    BY <1>1
  <2> HIDE DEF u
  <2>2. 0 + Len(q) <= Len(h) + Len(t)
    BY <2>1 DEF Before
  <2>3. \A i \in 1 .. Len(q) : q[i] = SymbolOf(h, t, i) /\ 0 + i = i
    BY <2>1 DEF Before
  <2>4. QED
    BY <2>2, <2>3 DEF OnTheWay
<1>3. 0 < Len(h) /\ 0 <= 1
  <2>1. Len(h) >= 3
    BY Zenon DEF Framed
  <2>2. QED
    BY <2>1
<1>4. "empty" = LineOf(h, 0)
  BY DEF LineOf
<1>5. None = LengthOf(a, h, 0)
  <2>1. \A i : i \notin 1 .. 0 - 1
    OBVIOUS
  <2>2. QED
    BY <2>1, Zenon DEF LengthOf
<1>6. HeadRead(q, e, "request", "empty", None, << >>, a, h, 0)
  BY <1>3, <1>4, <1>5, Zenon DEF HeadRead
<1>7. "request" \notin BodyPoints
  BY DEF BodyPoints
<1>8. QED
  BY <1>2, <1>6, <1>7, Zenon DEF Read

\* SendRequest, the request of the control point, keeps the invariant.
LEMMA SendRequestStep ==
  ASSUME ExchangeTypeOK, ServerInv, ClientInv, SendRequest
  PROVE  ExchangeTypeOK' /\ ServerInv' /\ ClientInv'
<1>0. "server" \in Sides /\ "client" \in Sides /\ "client" # "server"
  BY DEF Sides
<1>1. pc.client = "send" /\ UNCHANGED << line, length, named, body, late, performed, result, broken, asked >>
  BY DEF SendRequest, read
<1>2. PICK v \in {"header", "fail"} : Proceed("client", v)
  BY Zenon DEF SendRequest
<1>3. PointsOK(pc') /\ pc'.client = v /\ pc'.server = pc.server
  <2>1. v \in ClientPoints
    BY DEF ClientPoints
  <2>2. QED
    BY <1>0, <1>2, <2>1, Proceeds DEF PointsOK
<1>4. PICK m \in Messages : m = asked
  BY <1>0, SideTyped
<1> DEFINE h == Header[m]
           t == Body[m]
           u == h \o t
<1>5. RequestText = u /\ h \in Seq(Symbols) /\ t \in Seq(Symbols) /\ Framed(h) /\ u \in Seq(Symbols) /\ Len(u) \in Nat
  <2>1. RequestText = u
    BY <1>4 DEF RequestText
  <2>2. h \in Seq(Symbols) /\ t \in Seq(Symbols) /\ Framed(h)
    BY MessageTyped, HeadersFramed
  <2>3. u \in Seq(Symbols) /\ Len(u) \in Nat
    <3> HIDE DEF h, t
    <3>1. QED
      BY <2>2
  <2>4. QED
    BY <2>1, <2>2, <2>3
<1> HIDE DEF u
<1>6. /\ wire.server.sent = << >> /\ wire.server.come = 0
      /\ pc.server \in {"request", "refuse", "close", "done"}
      /\ pc.server = "request" => line.server = "empty" /\ length.server = None
  BY <1>1, Zenon DEF ServerInv, SendInv
<1>7. /\ WireOK(wire') /\ wire'["client"] = wire["client"]
      /\ pc.server # "done" => Before(u, wire'["server"].sent)
  <2>1. CASE ~broken /\ Send("server", RequestText)
    <3>1. /\ WireOK(wire') /\ wire'["client"] = wire["client"]
          /\ wire'["server"].sent = wire["server"].sent \o u \/ pc["server"] = "done"
      BY <1>0, <1>5, <2>1, Sends
    <3>2. << >> \o u = u
      BY <1>5
    <3>3. QED
      BY <1>5, <1>6, <3>1, <3>2, BeforeItself
  <2>2. CASE \E n \in 0 .. Len(RequestText) - 1 :
               wire' = [wire EXCEPT !.server = [sent |-> SubSeq(RequestText, 1, n), come |-> 0, ended |-> TRUE]]
    <3>1. PICK n \in 0 .. Len(u) - 1 :
            wire' = [wire EXCEPT !["server"] = [sent |-> SubSeq(u, 1, n), come |-> 0, ended |-> TRUE]]
      BY <1>5, <2>2
    <3>2. SubSeq(u, 1, n) \in Seq(Symbols) /\ Len(SubSeq(u, 1, n)) = n /\ n <= Len(u) /\ n \in Nat
          /\ \A i \in 1 .. n : SubSeq(u, 1, n)[i] = u[i]
      BY <1>5, Kept
    <3> DEFINE q == SubSeq(u, 1, n)
    <3>3. q \in Seq(Symbols) /\ 0 <= Len(q) /\ Before(u, q)
      <4>1. q \in Seq(Symbols) /\ Len(q) = n /\ \A i \in 1 .. n : q[i] = u[i]
        BY <3>2
      <4> HIDE DEF q
      <4>2. QED
        BY <3>2, <4>1 DEF Before
    <3> HIDE DEF q
    <3>4. wire' = [wire EXCEPT !["server"] = [sent |-> q, come |-> 0, ended |-> TRUE]]
      BY <3>1 DEF q
    <3>5. WireOK(wire') /\ wire'["client"] = wire["client"] /\ wire'["server"].sent = q
      <4>1. TRUE \in BOOLEAN
        OBVIOUS
      <4>2. QED
        BY <1>0, <3>3, <3>4, <4>1, WireReplaced
    <3>6. QED
      BY <3>3, <3>5
  <2>3. QED
    BY <2>1, <2>2, Zenon DEF SendRequest
<1>8. ExchangeTypeOK'
  BY <1>1, <1>3, <1>7, TypesAre, TypesStay DEF ExchangeTypeOK
<1>9. ServerReads'
  <2>1. ASSUME pc.server = "request" PROVE HasRead("server", m, 0)'
    <3>1. InHeader("server")
      BY <2>1 DEF InHeader
    <3>2. body.server = << >>
      BY <3>1, Zenon DEF ServerInv, ServerKnows
    <3> DEFINE a == Announced("server")'
               q == wire'["server"].sent
               e == wire'["server"].ended
    <3>3. Before(u, q)
      BY <1>7, <2>1
    <3>4. Read(q, e, "request", "empty", None, << >>, a, h, t, 0)
      <4> HIDE DEF h, t, q, e, a
      <4>1. QED
        BY <1>5, <3>3, Beginning DEF u
    <3>5. pc'.server = "request" /\ line'.server = "empty" /\ length'.server = None /\ body'.server = << >>
      BY <1>1, <1>3, <1>6, <2>1, <3>2
    <3>6. QED
      BY <3>4, <3>5, AsRead, Zenon
  <2>2. asked' = m /\ pc'.server # "content"
    BY <1>1, <1>3, <1>4, <1>6
  <2>3. InHeader("server")' => pc.server = "request"
    BY <1>3, <1>6 DEF InHeader
  <2>4. 0 \in Nat
    OBVIOUS
  <2>5. QED
    BY <1>8, <2>1, <2>2, <2>3, <2>4, ServerReadsAs, Zenon
<1>10. ServerInv'
  <2>1. pc'.client # "send"
    BY <1>3
  <2>2. ServerKnows'
    <3>1. UNCHANGED << late, body, named, asked, length, performed >> /\ pc'.server = pc.server
      BY <1>1, <1>3
    <3>2. QED
      BY <3>1, Zenon DEF ServerInv, ServerKnows, InHeader
  <2>3. PerformedRight'
    BY <1>1, Zenon DEF ServerInv, PerformedRight
  <2>4. QED
    BY <1>9, <2>1, <2>2, <2>3, Zenon DEF ServerInv, SendInv
<1>11. ClientReads'
  <2>1. SUFFICES ASSUME Expecting'
                 PROVE  \E m1 \in Replies : \E k \in Nat :
                          /\ HasRead("client", m1, k)' /\ MayBe(m1, asked', performed')
                          /\ ~broken' => StepAt(pc'.server, body'.server, m1, k + Len(wire'.client.sent))
    BY <1>8, ClientReadsAs, Zenon
  <2>2. Expecting /\ pc'.client = "header"
    BY <1>1, <1>3, <2>1 DEF Expecting
  <2>3. PICK m1 \in Replies, k \in Nat :
          /\ HasRead("client", m1, k) /\ MayBe(m1, asked, performed)
          /\ ~broken => StepAt(pc.server, body.server, m1, k + Len(wire.client.sent))
    BY <2>2, ClientReadsAs, Zenon DEF ClientInv
  <2>4. HasRead("client", m1, k)'
    <3> DEFINE a == Announced("client")
    <3>1. Read(wire.client.sent, wire.client.ended, "send", line.client, length.client, body.client, a, Header[m1], Body[m1], k)
      BY <1>1, <2>3, AsRead, Zenon
    <3>2. HeadRead(wire.client.sent, wire.client.ended, "send", line.client, length.client, body.client, a, Header[m1], k)
          /\ OnTheWay(wire.client.sent, Header[m1], Body[m1], k)
      BY <3>1 DEF Read, HeadPoints
    <3>3. HeadRead(wire.client.sent, wire.client.ended, "header", line.client, length.client, body.client, a, Header[m1], k)
      <4>1. "header" # "request"
        OBVIOUS
      <4>2. QED
        BY <3>2, <4>1, Zenon DEF HeadRead
    <3>4. "header" \notin BodyPoints
      BY DEF BodyPoints
    <3>5. Read(wire.client.sent, wire.client.ended, "header", line.client, length.client, body.client, a, Header[m1], Body[m1], k)
      BY <3>2, <3>3, <3>4, Zenon DEF Read
    <3>6. Announced("client")' = a /\ wire'.client = wire.client /\ line'.client = line.client
          /\ length'.client = length.client /\ body'.client = body.client
      BY <1>0, <1>1, <1>7, Announces
    <3>7. QED
      BY <2>2, <3>5, <3>6, AsRead, Zenon
  <2>5. MayBe(m1, asked', performed')
        /\ (~broken' => StepAt(pc'.server, body'.server, m1, k + Len(wire'.client.sent)))
    <3>1. UNCHANGED << asked, performed, broken, body >> /\ pc'.server = pc.server /\ wire'.client = wire.client
      BY <1>1, <1>3, <1>7
    <3>2. QED
      BY <2>3, <3>1, Zenon
  <2>6. QED
    BY <2>4, <2>5
<1>12. ClientInv'
  <2>1. ClientKnows'
    <3>1. wire'.client.ended => broken' \/ pc'.server = "done"
      BY <1>1, <1>3, <1>7 DEF ClientInv, ClientKnows
    <3>2. pc'.client # "content" /\ pc'.client # "rest"
      BY <1>3
    <3>3. QED
      BY <3>1, <3>2, Zenon DEF ClientKnows
  <2>2. ReturnedRight'
    BY <1>1, Zenon DEF ClientInv, ReturnedRight
  <2>3. QED
    BY <1>11, <2>1, <2>2 DEF ClientInv
<1>13. QED
  BY <1>8, <1>10, <1>12
-----------------------------------------------------------------------------
(* The steps of the control point.                                         *)

\* How a control point goes on in a header.
LEMMA ClientMoves ==
  ASSUME ExchangeTypeOK, GetChar("client") \/ GetLine("client") \/ GetNothing("client") \/ GetLate("client")
  PROVE  /\ wire'.client.ended = wire.client.ended
         /\ GetLate("client") => late'.client
         /\ pc'.client = "content" => length'.client = Announced("client") /\ length'.client # None
         /\ pc'.client = "rest" => length'.client = None
<1>0. "client" \in Sides /\ "client" # "server"
  BY DEF Sides
<1>1. wire'.client.ended = wire.client.ended
  <2>1. CASE UNCHANGED wire
    BY <2>1
  <2>2. CASE Readable("client") /\ Take("client", 1)
    <3>1. 1 \in Nat /\ 1 <= wire["client"].come
      BY <1>0, <2>2, SideTyped DEF Readable
    <3>2. QED
      BY <1>0, <2>2, <3>1, Takes
  <2>3. QED
    BY <2>1, <2>2, Zenon DEF GetChar, GetLine, GetNothing, GetLate
<1>2. GetLate("client") => late'.client
  BY <1>0 DEF GetLate, ExchangeTypeOK
<1>3. pc.client = "header"
  <2>1. InHeader("client")
    BY <1>0, HeaderStep, Zenon
  <2>2. QED
    BY <2>1, PointsTyped DEF InHeader, ClientPoints
<1>4. ASSUME EndHeader("client"), length' = length
      PROVE  /\ pc'.client = "content" => length'.client = Announced("client") /\ length'.client # None
             /\ pc'.client = "rest" => length'.client = None
  <2>1. PICK v : /\ Proceed("client", v)
                 /\ v = "content" => length["client"] = Announced("client") /\ length["client"] # None
                 /\ v = "rest" => length["client"] = None
    BY <1>0, <1>4, EndsHeader, Zenon
  <2>2. pc'.client = v
    BY <1>0, <2>1, Proceeds, Zenon
  <2>3. QED
    BY <1>4, <2>1, <2>2
<1>5. ASSUME Proceed("client", "header") PROVE pc'.client = "header"
  BY <1>0, <1>5, Proceeds, Zenon
<1>6. \/ UNCHANGED pc
      \/ Proceed("client", "header")
      \/ EndHeader("client") /\ length' = length
  <2>1. GetChar("client") => UNCHANGED pc
    BY Zenon DEF GetChar
  <2>2. GetLate("client") => EndHeader("client") /\ length' = length
    BY <1>3 DEF GetLate
  <2>3. GetNothing("client") => UNCHANGED pc \/ Proceed("client", "header") \/ (EndHeader("client") /\ length' = length)
    BY <1>3 DEF GetNothing
  <2>4. GetLine("client") => Proceed("client", "header") \/ (EndHeader("client") /\ length' = length)
    <3>1. "empty" # "length"
      OBVIOUS
    <3>2. QED
      BY <1>3, <3>1 DEF GetLine
  <2>5. QED
    BY <2>1, <2>2, <2>3, <2>4, Zenon
<1>7. /\ pc'.client = "content" => length'.client = Announced("client") /\ length'.client # None
      /\ pc'.client = "rest" => length'.client = None
  <2>1. CASE UNCHANGED pc \/ Proceed("client", "header")
    BY <1>3, <1>5, <2>1
  <2>2. CASE EndHeader("client") /\ length' = length
    BY <1>4, <2>2
  <2>3. QED
    BY <1>6, <2>1, <2>2
<1>8. QED
  BY <1>1, <1>2, <1>7

\* The steps of a control point in a header keep what it knows.
LEMMA ClientHeader ==
  ASSUME ExchangeTypeOK, ClientInv,
         GetChar("client") \/ GetLine("client") \/ GetNothing("client") \/ GetLate("client")
  PROVE  ClientInv'
<1>0. "client" \in Sides /\ "server" \in Sides /\ "server" # "client"
  BY DEF Sides
<1>1. UNCHANGED << body, performed, result, broken, asked >> /\ InHeader("client") /\ Apart("client")
      /\ (late["client"] => late'["client"]) /\ ExchangeTypeOK'
  BY <1>0, HeaderStep, Zenon
<1>2. wire'["server"] = wire["server"] /\ pc'["server"] = pc["server"]
  BY <1>0, <1>1 DEF Apart
<1>3. pc.client = "header"
  BY <1>1, PointsTyped DEF InHeader, ClientPoints
<1>4. ClientReads'
  <2>1. SUFFICES ASSUME Expecting'
                 PROVE  \E m \in Replies : \E k \in Nat :
                          /\ HasRead("client", m, k)' /\ MayBe(m, asked', performed')
                          /\ ~broken' => StepAt(pc'.server, body'.server, m, k + Len(wire'.client.sent))
    BY <1>1, ClientReadsAs, Zenon
  <2>2. Expecting /\ ~GetLate("client")
    BY <1>1, <1>3, <2>1, ClientMoves DEF Expecting
  <2>3. PICK m \in Replies, k \in Nat :
          /\ HasRead("client", m, k) /\ MayBe(m, asked, performed)
          /\ ~broken => StepAt(pc.server, body.server, m, k + Len(wire.client.sent))
    BY <2>2, ClientReadsAs, Zenon DEF ClientInv
  <2>4. PICK j \in {0, 1} : HasRead("client", m, k + j)' /\ j + Len(wire'["client"].sent) = Len(wire["client"].sent)
    <3>1. m \in Messages
      BY RepliesAreMessages
    <3>2. GetChar("client") \/ GetLine("client") \/ GetNothing("client")
      BY <2>2
    <3>3. QED
      BY <1>0, <2>3, <3>1, <3>2, HeaderReads, Zenon
  <2>5. k + j + Len(wire'.client.sent) = k + Len(wire.client.sent)
    <3>1. PICK x, y : x = Len(wire'.client.sent) /\ y = Len(wire.client.sent)
      OBVIOUS
    <3>2. x \in Nat
      <4>1. wire'["client"].sent \in Seq(Symbols)
        BY <1>0, <1>1 DEF ExchangeTypeOK, Texts
      <4>2. QED
        BY <3>1, <4>1
    <3>3. j + x = y
      BY <2>4, <3>1
    <3>4. k + j + x = k + y
      BY <3>2, <3>3
    <3>5. QED
      BY <3>1, <3>4
  <2>6. MayBe(m, asked', performed')
        /\ (~broken' => StepAt(pc'.server, body'.server, m, k + j + Len(wire'.client.sent)))
    BY <1>1, <1>2, <2>3, <2>5
  <2>7. k + j \in Nat
    OBVIOUS
  <2>8. QED
    BY <2>4, <2>6, <2>7, Zenon
<1>5. ClientKnows'
  <2>1. Announced("client")' = Announced("client")
    BY <1>0, <1>1, Announces
  <2>2. wire'.client.ended => broken' \/ pc'.server = "done"
    BY <1>1, <1>2, ClientMoves DEF ClientInv, ClientKnows
  <2>3. /\ pc'.client = "content" => length'.client = Announced("client") /\ length'.client # None
        /\ pc'.client = "rest" => length'.client = None
    BY ClientMoves
  <2>4. QED
    BY <2>1, <2>2, <2>3, Zenon DEF ClientKnows
<1>6. ReturnedRight'
  BY <1>1, Zenon DEF ClientInv, ReturnedRight
<1>7. QED
  BY <1>4, <1>5, <1>6 DEF ClientInv

\* Receive, a recv of the body of the reply, keeps the invariant.
LEMMA ReceiveStep ==
  ASSUME ExchangeTypeOK, ServerInv, ClientInv, Receive
  PROVE  ExchangeTypeOK' /\ ServerInv' /\ ClientInv'
<1>0. "client" \in Sides /\ "server" \in Sides /\ "server" # "client"
  BY DEF Sides
<1>1. pc.client \in {"content", "rest"} /\ UNCHANGED << pc, line, length, named, late, performed, result, broken, asked >>
  BY DEF Receive
<1>2. PICK j \in 1 .. wire["client"].come :
        /\ body' = [body EXCEPT !["client"] = @ \o SubSeq(wire["client"].sent, 1, j)]
        /\ Take("client", j)
  BY DEF Receive
<1> DEFINE q == wire["client"].sent
           e == wire["client"].ended
           b == body["client"]
           u == SubSeq(q, 1, j)
           c == b \o u
<1>3. q \in Seq(Symbols) /\ b \in Seq(Symbols) /\ j \in Nat /\ j >= 1 /\ j <= Len(q) /\ j <= wire["client"].come
      /\ body \in [Sides -> Texts]
  BY <1>0, SideTyped DEF ExchangeTypeOK
<1>4. u \in Seq(Symbols) /\ Len(u) = j /\ \A i \in 1 .. j : u[i] = q[i]
  <2> HIDE DEF q
  <2>1. QED
    BY <1>3, Kept
<1>5. c \in Seq(Symbols) /\ Len(c) = Len(b) + j /\ (\A i \in 1 .. Len(b) : c[i] = b[i])
      /\ \A i \in 1 .. j : c[Len(b) + i] = q[i]
  <2> HIDE DEF q, b, u
  <2>1. b \in Seq(Symbols) /\ u \in Seq(Symbols) /\ Len(u) = j
    BY <1>3, <1>4
  <2>2. /\ c \in Seq(Symbols) /\ Len(c) = Len(b) + Len(u) /\ (\A i \in 1 .. Len(b) : c[i] = b[i])
        /\ \A i \in 1 .. Len(u) : c[Len(b) + i] = u[i]
    <3>1. \A x, y \in Seq(Symbols) :
            /\ x \o y \in Seq(Symbols) /\ Len(x \o y) = Len(x) + Len(y)
            /\ \A i \in 1 .. Len(x) : (x \o y)[i] = x[i]
            /\ \A i \in 1 .. Len(y) : (x \o y)[Len(x) + i] = y[i]
      BY Appended
    <3>2. QED
      BY <2>1, <3>1, Zenon
  <2> HIDE DEF c
  <2>3. QED
    BY <1>4, <2>1, <2>2
<1>6. body' = [body EXCEPT !["client"] = c]
  BY <1>0, <1>2, <1>3
<1> HIDE DEF u, c
<1>7. BodyOK(body') /\ body'["server"] = body["server"] /\ body'["client"] = c
  BY <1>0, <1>3, <1>5, <1>6 DEF BodyOK, Texts
<1>8. WireOK(wire') /\ wire'["server"] = wire["server"] /\ After(q, wire'["client"].sent, j) /\ wire'["client"].ended = e
  BY <1>0, <1>2, <1>3, Takes
<1>9. ExchangeTypeOK'
  BY <1>1, <1>7, <1>8, TypesAre, TypesStay DEF ExchangeTypeOK
<1>10. ServerInv'
  <2>1. Before(wire.server.sent, wire'.server.sent)
    BY <1>0, <1>8, SideTyped, BeforeItself
  <2>2. QED
    BY <1>1, <1>7, <1>8, <1>9, <2>1, ServerKept, Zenon
<1>11. ClientReads'
  <2>1. SUFFICES ASSUME Expecting'
                 PROVE  \E m \in Replies : \E k \in Nat :
                          /\ HasRead("client", m, k)' /\ MayBe(m, asked', performed')
                          /\ ~broken' => StepAt(pc'.server, body'.server, m, k + Len(wire'.client.sent))
    BY <1>9, ClientReadsAs, Zenon
  <2>2. Expecting
    BY <1>1, <2>1 DEF Expecting
  <2>3. PICK m \in Replies, k \in Nat :
          /\ HasRead("client", m, k) /\ MayBe(m, asked, performed)
          /\ ~broken => StepAt(pc.server, body.server, m, k + Len(wire.client.sent))
    BY <2>2, ClientReadsAs, Zenon DEF ClientInv
  <2> DEFINE h == Header[m]
             t == Body[m]
             a == Announced("client")
  <2>4. Read(q, e, pc.client, line.client, length.client, b, a, h, t, k)
    BY <2>3, AsRead, Zenon
  <2>5. h \in Seq(Symbols) /\ t \in Seq(Symbols)
    BY RepliesAreMessages, MessageTyped
  <2>6. PICK r : r = wire'["client"].sent
    OBVIOUS
  <2>7. After(q, r, j)
    BY <1>8, <2>6
  <2>8. Read(r, e, pc.client, line.client, length.client, c, a, h, t, k + j)
    <3>1. PICK p \in BodyPoints : p = pc.client
      BY <1>1 DEF BodyPoints
    <3>2. PICK l, n : l = line.client /\ n = length.client
      OBVIOUS
    <3> HIDE DEF q, e, b, h, t, a
    <3>3. Read(q, e, p, l, n, b, a, h, t, k)
      BY <2>4, <3>1, <3>2
    <3>4. Read(r, e, p, l, n, c, a, h, t, k + j)
      <4>1. Gained(q, b, c, j)
        BY <1>3, <1>5 DEF Gained
      <4>2. QED
        BY <2>5, <2>7, <3>3, <4>1, BodyReadOn, Zenon
    <3>5. QED
      BY <3>1, <3>2, <3>4
  <2>9. HasRead("client", m, k + j)'
    <3>1. Announced("client")' = a
      BY <1>0, <1>1, Announces
    <3>2. QED
      BY <1>1, <1>7, <1>8, <2>6, <2>8, <3>1, AsRead, Zenon
  <2>10. k + j + Len(wire'.client.sent) = k + Len(wire.client.sent) /\ k + j \in Nat
    <3> HIDE DEF q
    <3>1. k + j + Len(r) = k + Len(q) /\ k + j \in Nat
      BY <1>3, <2>7 DEF After
    <3>2. QED
      BY <2>6, <3>1 DEF q
  <2>11. MayBe(m, asked', performed')
         /\ (~broken' => StepAt(pc'.server, body'.server, m, k + j + Len(wire'.client.sent)))
    BY <1>1, <1>7, <2>3, <2>10
  <2>12. QED
    BY <2>9, <2>10, <2>11, Zenon
<1>12. ClientInv'
  <2>1. ClientKnows'
    <3>1. Announced("client")' = Announced("client")
      BY <1>0, <1>1, Announces
    <3>2. QED
      BY <1>1, <1>8, <3>1, Zenon DEF ClientInv, ClientKnows
  <2>2. ReturnedRight'
    BY <1>1, Zenon DEF ClientInv, ReturnedRight
  <2>3. QED
    BY <1>11, <2>1, <2>2 DEF ClientInv
<1>13. QED
  BY <1>9, <1>10, <1>12

\* A text that agrees with another one, as far as it goes, is its beginning.
LEMMA Beginnings ==
  ASSUME NEW b \in Seq(Symbols), NEW t \in Seq(Symbols), Len(b) <= Len(t), \A i \in 1 .. Len(b) : b[i] = t[i]
  PROVE  IsPrefix(b, t)
<1>1. SubSeq(b, 1, Len(b)) = b /\ SubSeq(t, 1, Len(b)) \in Seq(Symbols) /\ Len(SubSeq(t, 1, Len(b))) = Len(b)
      /\ \A i \in 1 .. Len(b) : SubSeq(t, 1, Len(b))[i] = t[i]
  OBVIOUS
<1>2. b = SubSeq(t, 1, Len(b))
  <2> DEFINE u == SubSeq(t, 1, Len(b))
  <2>1. u \in Seq(Symbols) /\ Len(u) = Len(b) /\ \A i \in 1 .. Len(b) : u[i] = b[i]
    BY <1>1
  <2> HIDE DEF u
  <2>2. u = b
    BY <2>1, Same
  <2>3. QED
    BY <2>2 DEF u
<1>3. QED
  BY <1>1, <1>2, Zenon DEF IsPrefix

\* What the control point has read, once there is no more of it.
LEMMA BodyIs ==
  ASSUME ExchangeTypeOK, ClientInv, ~late.client, pc.client \in {"content", "rest"},
         pc.client = "content" => Len(body.client) = length.client
  PROVE  \/ asked = "action" /\ body.client = Response /\ performed # None
         \/ asked = "download" /\ body.client = Document
         \/ IsPrefix(body.client, Page)
<1>0. "client" \in Sides
  BY DEF Sides
<1>1. PICK m \in Replies, k \in Nat : HasRead("client", m, k) /\ MayBe(m, asked, performed)
  <2>1. Expecting
    BY DEF Expecting
  <2>2. QED
    BY <2>1, ClientReadsAs, Zenon DEF ClientInv
<1> DEFINE b == body["client"]
           h == Header[m]
           t == Body[m]
<1>2. b \in Seq(Symbols) /\ Len(b) \in Nat /\ Announced("client") \in Nat \ {0} /\ wire["client"].sent \in Seq(Symbols)
  BY <1>0, SideTyped
<1>3. h \in Seq(Symbols) /\ t \in Seq(Symbols) /\ Body["error"] = Page /\ Page \in Seq(Symbols)
  BY RepliesAre
<1>4. \/ b = << >>
      \/ /\ k = Len(h) + Len(b) /\ length.client = LengthAt("client", m, Len(h))
         /\ \A i \in 1 .. Len(b) : b[i] = t[i]
  BY <1>1, Zenon DEF HasRead
<1>5. k + Len(wire["client"].sent) <= Len(h) + Len(t)
  BY <1>1, Zenon DEF HasRead
<1>6. /\ pc.client = "content" => length.client = Announced("client") /\ length.client # None
      /\ pc.client = "rest" => length.client = None
  BY Zenon DEF ClientInv, ClientKnows
<1>7. CASE b = << >>
  <2>1. pc.client # "content"
    <3>1. Len(b) = 0
      BY <1>7
    <3>2. QED
      BY <1>2, <1>6, <3>1
  <2>2. IsPrefix(<< >>, Page)
    <3>1. << >> \in Seq(Symbols) /\ Len(<< >>) <= Len(Page) /\ \A i \in 1 .. Len(<< >>) : << >>[i] = Page[i]
      BY <1>3
    <3>2. QED
      BY <1>3, <3>1, Beginnings
  <2>3. QED
    BY <1>7, <2>2
<1>8. CASE /\ k = Len(h) + Len(b) /\ length.client = LengthAt("client", m, Len(h))
           /\ \A i \in 1 .. Len(b) : b[i] = t[i]
  <2>1. CASE m = "error"
    <3>1. t = Page
      BY <1>3, <2>1
    <3>2. Len(b) <= Len(t)
      <4> DEFINE q == wire["client"].sent
      <4>1. q \in Seq(Symbols) /\ k + Len(q) <= Len(h) + Len(t) /\ k = Len(h) + Len(b)
        BY <1>2, <1>5, <1>8
      <4> HIDE DEF q, h, t, b
      <4>2. QED
        BY <1>2, <1>3, <4>1
    <3> HIDE DEF b, t, h
    <3>3. IsPrefix(b, t)
      BY <1>2, <1>3, <1>8, <3>2, Beginnings
    <3>4. QED
      BY <3>1, <3>3 DEF b
  <2>2. CASE m # "error"
    <3>1. m \in {"reply", "file"}
      BY <2>2 DEF Replies
    <3>2. length.client = Announced("client")
      <4>1. LengthAt("client", m, Len(Header[m])) = Announced("client")
        BY <1>0, <3>1, LengthKnown
      <4>2. QED
        BY <1>8, <4>1
    <3>3. pc.client = "content"
      <4>1. Announced("client") # None
        BY <1>2, ExchangeAssumption
      <4>2. QED
        BY <1>6, <3>2, <4>1
    <3>4. Announced("client") = Len(t)
      <4>1. (m = "reply" => asked = "action") /\ (m = "file" => asked = "download")
        BY <1>1 DEF MayBe
      <4>2. (m = "reply" => t = Response) /\ (m = "file" => t = Document)
        BY RepliesAre
      <4>3. (asked = "action" => Announced("client") = Len(Response)) /\ (asked = "download" => Announced("client") = Len(Document))
        BY DEF Announced
      <4>4. QED
        BY <3>1, <4>1, <4>2, <4>3
    <3>5. b = t
      <4>1. Len(b) = Len(t)
        BY <3>2, <3>3, <3>4
      <4> HIDE DEF b, t, h
      <4>2. \A i \in 1 .. Len(t) : b[i] = t[i]
        BY <1>8, <4>1
      <4>3. QED
        BY <1>2, <1>3, <4>1, <4>2, Same
    <3>6. (m = "reply" => t = Response) /\ (m = "file" => t = Document)
      BY RepliesAre
    <3>7. QED
      BY <1>1, <3>1, <3>5, <3>6 DEF MayBe
  <2>3. QED
    BY <2>1, <2>2
<1>9. QED
  BY <1>4, <1>7, <1>8

\* ReceiveEnds, where nothing more comes, keeps the invariant, and returns what is right.
LEMMA ReceiveEndsStep ==
  ASSUME ExchangeTypeOK, ServerInv, ClientInv, ReceiveEnds
  PROVE  ExchangeTypeOK' /\ ServerInv' /\ ClientInv'
<1>0. "client" \in Sides /\ "server" \in Sides /\ "server" # "client"
  BY DEF Sides
<1>1. UNCHANGED << line, length, named, body, late, performed, broken, asked >>
  BY DEF ReceiveEnds, read
<1>2. \/ Leave(None)
      \/ /\ pc.client \in {"content", "rest"} /\ (pc.client = "content" => Len(body.client) = length.client)
         /\ Leave(body.client)
  BY DEF ReceiveEnds
<1>3. PICK value : Leave(value) /\ (value # None => /\ value = body.client /\ pc.client \in {"content", "rest"}
                                                    /\ pc.client = "content" => Len(body.client) = length.client)
  BY <1>2
<1>4. result' = value /\ wire' = [wire EXCEPT !["server"].ended = TRUE] /\ Proceed("client", "done")
  BY <1>3, Zenon DEF Leave
<1>5. PointsOK(pc') /\ pc'.client = "done" /\ pc'.server = pc.server
  <2>1. "done" \in ClientPoints
    BY DEF ClientPoints
  <2>2. QED
    BY <1>0, <1>4, <2>1, Proceeds DEF PointsOK
<1>6. WireOK(wire') /\ wire'["client"] = wire["client"] /\ wire'["server"].sent = wire["server"].sent /\ wire'["server"].ended
  BY <1>0, <1>4, EndsWire
<1>7. ExchangeTypeOK'
  <2>1. result' \in Texts \cup {None}
    BY <1>0, <1>3, <1>4 DEF ExchangeTypeOK
  <2>2. QED
    BY <1>1, <1>5, <1>6, <2>1, TypesAre, TypesStay DEF ExchangeTypeOK
<1>8. ServerInv'
  <2>1. Before(wire.server.sent, wire'.server.sent)
    BY <1>0, <1>6, SideTyped, BeforeItself
  <2>2. pc'.client # "send"
    BY <1>5
  <2>3. QED
    BY <1>1, <1>5, <1>6, <1>7, <2>1, <2>2, ServerKept, Zenon
<1>9. ClientReads'
  BY <1>5 DEF ClientReads
<1>10. ClientKnows'
  <2>1. wire'.client.ended => broken' \/ pc'.server = "done"
    BY <1>1, <1>5, <1>6 DEF ClientInv, ClientKnows
  <2>2. QED
    BY <1>5, <2>1 DEF ClientKnows
<1>11. ReturnedRight'
  <2>1. SUFFICES ASSUME value # None, ~late.client
                 PROVE  \/ asked = "action" /\ value = Response /\ performed # None
                        \/ asked = "download" /\ value = Document
                        \/ IsPrefix(value, Page)
    BY <1>1, <1>4, Zenon DEF ReturnedRight
  <2>2. QED
    BY <1>3, <2>1, BodyIs
<1>12. QED
  BY <1>7, <1>8, <1>9, <1>10, <1>11 DEF ClientInv
-----------------------------------------------------------------------------
(* The invariant.                                                          *)

\* The invariant is that of the types, of the server and of the control point.
LEMMA InvIs == ExchangeInv <=> ExchangeTypeOK /\ ServerInv /\ ClientInv
  BY Zenon DEF ExchangeInv, ServerInv, ClientInv, ResultRight, PerformedRight, ReturnedRight

\* It holds before the request is sent.
LEMMA ExchangeInitially == ExchangeInit => ExchangeInv
<1> SUFFICES ASSUME ExchangeInit PROVE ExchangeInv
  OBVIOUS
<1>0. "client" \in Sides /\ "server" \in Sides
  BY DEF Sides
<1>1. /\ pc.client = "send" /\ pc.server = "request" /\ ~broken
      /\ performed = None /\ result = None /\ asked \in {"action", "download"}
  BY DEF ExchangeInit
<1>2. \A s \in Sides : /\ wire[s] = [sent |-> << >>, come |-> 0, ended |-> FALSE]
                       /\ line[s] = "empty" /\ length[s] = None /\ named[s] = {} /\ body[s] = << >> /\ late[s] = FALSE
  BY DEF ExchangeInit
<1>3. \A s \in Sides : wire[s].sent = << >> /\ wire[s].come = 0 /\ wire[s].ended = FALSE
  BY <1>2
<1>4. ExchangeTypeOK
  <2>1. << >> \in Texts /\ 0 <= Len(<< >>)
    BY DEF Texts
  <2>2. wire \in [Sides -> [sent : Texts, come : Nat, ended : BOOLEAN]]
    BY <2>1 DEF ExchangeInit
  <2>3. \A s \in Sides : wire[s].come <= Len(wire[s].sent)
    BY <1>3, <2>1
  <2>4. pc \in [client : {"send", "header", "content", "rest", "fail", "done"},
                server : {"request", "header", "content", "refuse", "reply", "response",
                          "file", "pieces", "close", "done"}]
    BY DEF ExchangeInit
  <2>5. /\ line \in [Sides -> Symbols \cup {"empty"}] /\ length \in [Sides -> Nat \cup {None}]
        /\ \A s \in Sides : length[s] \in {None, 0, Announced(s)}
        /\ named \in [Sides -> SUBSET (Symbols \cup {"empty"})]
        /\ body \in [Sides -> Texts] /\ late \in [Sides -> BOOLEAN]
    BY <1>2, <2>1 DEF ExchangeInit
  <2>6. performed \in Texts \cup {None} /\ result \in Texts \cup {None} /\ broken \in BOOLEAN
    BY DEF ExchangeInit
  <2>7. QED
    BY <1>1, <2>2, <2>3, <2>4, <2>5, <2>6, Zenon DEF ExchangeTypeOK
<1>5. ASSUME NEW m \in Messages, NEW s \in Sides, pc[s] = "request" \/ pc[s] = "send" PROVE HasRead(s, m, 0)
  <2> DEFINE h == Header[m]
             t == Body[m]
             a == Announced(s)
             e == wire[s].ended
  <2>1. h \in Seq(Symbols) /\ t \in Seq(Symbols) /\ Framed(h)
    BY MessageTyped, HeadersFramed
  <2>2. Before(h \o t, << >>)
    <3>1. h \o t \in Seq(Symbols)
      BY <2>1, PartSymbols
    <3>2. \A q \in Seq(Symbols) : Before(q, << >>)
      BY DEF Before
    <3>3. QED
      BY <3>1, <3>2
  <2>3. Read(<< >>, e, "request", "empty", None, << >>, a, h, t, 0)
    <3> HIDE DEF h, t, a, e
    <3>1. QED
      BY <2>1, <2>2, Beginning
  <2>4. HeadRead(<< >>, e, "request", "empty", None, << >>, a, h, 0) /\ OnTheWay(<< >>, h, t, 0)
    BY <2>3 DEF Read, HeadPoints
  <2>5. HeadRead(<< >>, e, pc[s], "empty", None, << >>, a, h, 0)
    <3>1. "send" # "request"
      OBVIOUS
    <3>2. QED
      BY <1>5, <2>4, <3>1, Zenon DEF HeadRead
  <2>6. pc[s] \notin BodyPoints
    BY <1>5 DEF BodyPoints
  <2>7. Read(<< >>, e, pc[s], "empty", None, << >>, a, h, t, 0)
    BY <2>4, <2>5, <2>6, Zenon DEF Read
  <2>8. wire[s].sent = << >> /\ line[s] = "empty" /\ length[s] = None /\ body[s] = << >>
    BY <1>2, <1>3
  <2>9. QED
    BY <2>7, <2>8, AsRead, Zenon
<1>6. ServerInv
  <2>1. ServerReads
    <3>1. PICK m \in Messages : m = asked
      BY <1>1 DEF Messages
    <3>2. HasRead("server", m, 0) /\ 0 \in Nat
      BY <1>0, <1>1, <1>5
    <3>3. QED
      BY <1>4, <3>1, <3>2, ServerReadsAs, Zenon
  <2>2. ServerKnows
    <3>1. ~late.server /\ body.server = << >> /\ named.server = {}
      BY <1>0, <1>2
    <3>2. QED
      BY <1>1, <3>1 DEF ServerKnows, InHeader
  <2>3. SendInv
    BY <1>0, <1>1, <1>2, <1>3 DEF SendInv
  <2>4. QED
    BY <1>1, <2>1, <2>2, <2>3 DEF ServerInv, PerformedRight
<1>7. ClientInv
  <2>1. HasRead("client", "error", 0) /\ 0 \in Nat /\ "error" \in Replies /\ MayBe("error", asked, performed)
    BY <1>0, <1>1, <1>5 DEF Messages, Replies, MayBe
  <2>2. StepAt(pc.server, body.server, "error", 0 + Len(wire.client.sent))
    <3>1. 0 + Len(wire["client"].sent) = 0
      BY <1>0, <1>3
    <3>2. QED
      BY <1>1, <3>1 DEF StepAt
  <2>3. ClientReads
    BY <1>4, <2>1, <2>2, ClientReadsAs, Zenon
  <2>4. ClientKnows
    <3>1. ~wire.client.ended
      BY <1>0, <1>3
    <3>2. QED
      BY <1>1, <3>1 DEF ClientKnows
  <2>5. QED
    BY <1>1, <2>3, <2>4 DEF ClientInv, ReturnedRight
<1>8. QED
  BY <1>4, <1>6, <1>7, InvIs

\* The steps that the control point knows nothing of.
LEMMA ServerAlone ==
  ASSUME ExchangeTypeOK, ExchangeTypeOK', ClientInv, Serves, performed # None => performed' # None,
         wire'.client = wire.client, pc'.client = pc.client, body'.client = body.client,
         pc.server \in {"request", "header", "content"},
         pc'.server \in {"request", "header", "content", "refuse", "reply", "file"}
  PROVE  ClientInv'
<1>1. Before(wire.client.sent, wire'.client.sent)
  BY SideTyped, BeforeItself DEF Sides
<1>2. \A m \in Replies : \A i \in Nat : StepAt(pc.server, body.server, m, i) => StepAt(pc'.server, body'.server, m, i)
  BY DEF StepAt
<1>3. UNCHANGED << line, length, late, result, broken, asked >> /\ pc.server # "done"
  BY DEF Serves
<1>4. QED
  BY <1>1, <1>2, <1>3, ClientKept, Zenon

\* The steps in a header keep the invariant.
LEMMA HeaderKeeps ==
  ASSUME ExchangeTypeOK, ServerInv, ClientInv, NEW s \in Sides,
         GetChar(s) \/ GetLine(s) \/ GetNothing(s) \/ GetLate(s)
  PROVE  ExchangeTypeOK' /\ ServerInv' /\ ClientInv'
<1>0. "client" \in Sides /\ "server" \in Sides /\ "server" # "client"
  BY DEF Sides
<1>1. UNCHANGED << body, performed, result, broken, asked >> /\ InHeader(s) /\ Apart(s) /\ ExchangeTypeOK'
  BY HeaderStep, Zenon
<1>2. CASE s = "server"
  <2>1. ServerInv'
    BY <1>2, ServerHeader
  <2>2. /\ wire'.client = wire.client /\ pc'.client = pc.client /\ line'.client = line.client
        /\ length'.client = length.client /\ late'.client = late.client
    BY <1>0, <1>1, <1>2, Zenon DEF Apart
  <2>3. pc.server \in {"request", "header"}
    BY <1>1, <1>2 DEF InHeader
  <2>4. pc'.server \in {"request", "header", "content", "refuse", "file"}
    BY <1>2, <2>3, ServerMoves
  <2>5. \A m \in Replies : \A i \in Nat : StepAt(pc.server, body.server, m, i) => StepAt(pc'.server, body'.server, m, i)
    BY <2>3, <2>4 DEF StepAt
  <2>6. Before(wire.client.sent, wire'.client.sent)
    BY <1>0, <2>2, SideTyped, BeforeItself
  <2>7. pc.server # "done"
    BY <2>3
  <2>8. ClientInv'
    BY <1>1, <2>2, <2>5, <2>6, <2>7, ClientKept, Zenon
  <2>9. QED
    BY <1>1, <2>1, <2>8
<1>3. CASE s = "client"
  <2>1. ClientInv'
    BY <1>3, ClientHeader
  <2>2. /\ wire'.server = wire.server /\ pc'.server = pc.server /\ line'.server = line.server
        /\ length'.server = length.server /\ named'.server = named.server /\ late'.server = late.server
    BY <1>0, <1>1, <1>3, Zenon DEF Apart
  <2>3. pc'.client # "send"
    BY <1>0, <1>3, HeaderStep, Zenon
  <2>4. Before(wire.server.sent, wire'.server.sent)
    BY <1>0, <2>2, SideTyped, BeforeItself
  <2>5. ServerInv'
    BY <1>1, <2>2, <2>3, <2>4, ServerKept, Zenon
  <2>6. QED
    BY <1>1, <2>1, <2>5
<1>4. QED
  BY <1>2, <1>3 DEF Sides

\* The steps of the connection keep the invariant.
LEMMA ConnectionKeeps ==
  ASSUME ExchangeTypeOK, ServerInv, ClientInv, Break \/ \E s \in Sides : Arrive(s)
  PROVE  ExchangeTypeOK' /\ ServerInv' /\ ClientInv'
<1>0. "client" \in Sides /\ "server" \in Sides
  BY DEF Sides
<1>1. /\ ExchangeTypeOK' /\ UNCHANGED << pc, read, performed, result, asked >> /\ (broken => broken')
      /\ \A r \in Sides : /\ Before(wire[r].sent, wire'[r].sent) /\ (wire[r].ended => wire'[r].ended)
                          /\ wire'[r].ended => wire[r].ended \/ broken'
                          /\ ~broken' => Len(wire'[r].sent) = Len(wire[r].sent)
  <2>1. CASE Break
    BY <2>1, BreakStep
  <2>2. CASE \E s \in Sides : Arrive(s)
    BY <2>2, ArriveStep, SideTyped, BeforeItself
  <2>3. QED
    BY <2>1, <2>2
<1>2. UNCHANGED << line, length, named, body, late >>
  BY <1>1 DEF read
<1>3. ServerInv'
  BY <1>0, <1>1, <1>2, ServerKept, Zenon
<1>4. ClientInv'
  BY <1>0, <1>1, <1>2, ClientKept, Zenon
<1>5. QED
  BY <1>1, <1>3, <1>4

\* Every step keeps the invariant.
LEMMA ExchangeStep == ExchangeInv /\ [ExchangeNext]_exchangeVars => ExchangeInv'
<1> SUFFICES ASSUME ExchangeTypeOK, ServerInv, ClientInv, [ExchangeNext]_exchangeVars
             PROVE  ExchangeTypeOK' /\ ServerInv' /\ ClientInv'
  BY InvIs, Zenon DEF ExchangeInv, ServerInv, ClientInv, ResultRight, PerformedRight, ReturnedRight
<1>1. CASE Break \/ \E s \in Sides : Arrive(s)
  BY <1>1, ConnectionKeeps
<1>2. CASE \E s \in Sides : GetChar(s) \/ GetLine(s) \/ GetNothing(s) \/ GetLate(s)
  BY <1>2, HeaderKeeps
<1>3. CASE Content
  BY <1>3, ContentStep, ServerAlone DEF Content
<1>4. CASE ContentShort
  BY <1>4, ContentShortStep, ServerAlone
<1>5. CASE Perform
  BY <1>5, PerformStep, ServerAlone
<1>6. CASE Reply
  BY <1>6, ReplyStep
<1>7. CASE Respond
  BY <1>7, RespondStep
<1>8. CASE File
  BY <1>8, FileStep
<1>9. CASE Piece
  BY <1>9, PieceStep
<1>10. CASE Refuse
  BY <1>10, RefuseStep
<1>11. CASE Close
  BY <1>11, CloseStep
<1>12. CASE SendRequest
  BY <1>12, SendRequestStep
<1>13. CASE Receive
  BY <1>13, ReceiveStep
<1>14. CASE ReceiveEnds
  BY <1>14, ReceiveEndsStep
<1>15. CASE UNCHANGED exchangeVars
  <2>1. UNCHANGED << pc, wire, line, length, named, body, late, performed, result, broken, asked >>
    BY <1>15 DEF exchangeVars, read
  <2>2. ExchangeTypeOK'
    BY <2>1, TypesAre, TypesStay DEF ExchangeTypeOK
  <2>3. \A r \in Sides : Before(wire[r].sent, wire'[r].sent)
    BY <2>1, SideTyped, BeforeItself
  <2>4. "client" \in Sides /\ "server" \in Sides
    BY DEF Sides
  <2>5. ServerInv'
    BY <2>1, <2>2, <2>3, <2>4, ServerKept, Zenon
  <2>6. ClientInv'
    BY <2>1, <2>2, <2>3, <2>4, ClientKept, Zenon
  <2>7. QED
    BY <2>2, <2>5, <2>6
<1>16. QED
  BY <1>1, <1>2, <1>3, <1>4, <1>5, <1>6, <1>7, <1>8, <1>9, <1>10, <1>11, <1>12, <1>13, <1>14, <1>15, Zenon
     DEF ExchangeNext

(* The types, and what each side knows, hold in every state of a call.     *)
THEOREM ExchangeInvariance == ExchangeSpec => []ExchangeInv
<1>1. ExchangeInit => ExchangeInv
  BY ExchangeInitially
<1>2. ExchangeInv /\ [ExchangeNext]_exchangeVars => ExchangeInv'
  BY ExchangeStep
<1>3. QED
  BY <1>1, <1>2, PTL DEF ExchangeSpec

(* Whatever the texts are, and however the connection delays, cuts and     *)
(* breaks, as long as no poll timed out in a header: an action is          *)
(* performed as it was asked for or not at all, and what                   *)
(* upnpd_upnp_gena_send_recv returns is the result of that action or the   *)
(* description, whole, or the beginning of an error's text.                *)
THEOREM ResultRightThm == ExchangeSpec => []ResultRight
<1>1. ExchangeInv => ResultRight
  BY Zenon DEF ExchangeInv
<1>2. QED
  BY <1>1, ExchangeInvariance, PTL
=============================================================================
