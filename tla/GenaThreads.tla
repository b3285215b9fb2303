---------------------------- MODULE GenaThreads ----------------------------
(***************************************************************************)
(* The HTTP server of gena.c on top of the thread wrapper of thread.c:     *)
(* the threads of module Gena, each started and joined as module           *)
(* ThreadCreate says.  The owner starts gena_loop, gena_loop starts one    *)
(* thread per connection, and a thread takes no step of its own function   *)
(* before thread_run has called it, nor of anything else while it is       *)
(* inside upnpd_thread_create.                                             *)
(***************************************************************************)
EXTENDS Gena

CONSTANT Server    \* the thread of gena_loop

ASSUME ServerAssumption == Server \notin Conns

VARIABLES creator, worker, arg, flag, mutex, tid   \* as in ThreadCreate

tvars == << creator, worker, arg, flag, mutex, tid >>
allvars == << vars, tvars >>

Started == Conns \cup {Server}
T == INSTANCE ThreadCreate WITH Threads <- Started, Fails <- Unborn

ComposedInit == Init /\ T!Init

\* upnpd_thread_create has been called for t and has not returned.
Creating(t) == creator[t] \notin {"idle", "back", "joined"}
LoopIsCreating == \E c \in Conns : Creating(c)

\* The steps that belong to the wrapper alone, of the creator and of t.
HandOver(t) == (T!Test(t) \/ T!Wait(t) \/ T!Wake(t) \/ T!Return(t)) /\ UNCHANGED vars
TakeOver(t) == (T!ReadArg(t) \/ T!SetFlag(t) \/ T!Signal(t) \/ T!Unlock(t)) /\ UNCHANGED vars

-----------------------------------------------------------------------------
(* The owner.                                                              *)

OwnerPrepares == main = "init" /\ T!Prepare(Server) /\ UNCHANGED vars
OwnerCreates == OwnerCreate /\ T!Create(Server)
OwnerAwaits == OwnerAwaitRunning \/ OwnerAwaitStopped
OwnerJoins == OwnerJoin /\ T!Join(Server)

OwnerThread ==
  \/ OwnerPrepares \/ OwnerCreates \/ HandOver(Server) \/ OwnerJoins
  \/ (OwnerAwaits \/ OwnerUninit) /\ ~Creating(Server) /\ UNCHANGED tvars

-----------------------------------------------------------------------------
(* gena_loop.                                                              *)

\* What gena_loop does with gena and with connections that exist.
LoopWorks ==
  \/ LoopStart \/ LoopPoll \/ LoopIterate \/ LoopReaped \/ LoopAwaitStopped \/ LoopStopped
  \/ LoopUnlock \/ LoopAcceptFails \/ LoopAwaitRunning \/ LoopExit
  \/ \E c \in Conns : LoopReap(c) \/ LoopStop(c)

\* gena_loop has locked the mutex of the connection before it calls
\* upnpd_thread_create, and gives it up in the wait that follows.
LoopPrepares(c) ==
  loop = "accept" /\ heap[c] = "none" /\ ~LoopIsCreating /\ T!Prepare(c) /\ UNCHANGED vars
LoopCreates(c) == LoopAccept(c) /\ T!Create(c)
LoopJoins == LoopJoin /\ T!Join(cur)
LoopReturns == LoopReturn /\ T!Exit(Server)

LoopThread ==
  \/ TakeOver(Server)
  \/ worker[Server] = "run" /\ ~LoopIsCreating /\ LoopWorks /\ UNCHANGED tvars
  \/ LoopJoins \/ LoopReturns
  \/ \E c \in Conns : LoopPrepares(c) \/ LoopCreates(c) \/ HandOver(c)

-----------------------------------------------------------------------------
(* A connection thread.                                                    *)

ChildWorks(c) ==
  \/ ChildStart(c) \/ ChildRequest(c) \/ ChildSend(c) \/ ChildRead(c)
  \/ ChildCheck(c) \/ ChildClose(c) \/ ChildStop(c) \/ ChildUnlock(c) \/ ChildHeld(c)

\* The first thing gena_thread_loop does is to lock the mutex that gena_loop
\* holds while it creates the thread.
ConnThread(c) ==
  \/ TakeOver(c)
  \/ worker[c] = "run" /\ ~Creating(c) /\ ChildWorks(c) /\ UNCHANGED tvars
  \/ ChildReturn(c) /\ T!Exit(c)

-----------------------------------------------------------------------------

\* Wake-ups without a signal, of a wait in gena.c or of one in thread.c.
SpuriousWakeups ==
  \/ /\ SpuriousWakeup
     /\ Creating(Server) => UNCHANGED main
     /\ LoopIsCreating => UNCHANGED loop
     /\ UNCHANGED tvars
  \/ \E t \in Started : T!Spurious(t) /\ UNCHANGED vars

ComposedNext ==
  \/ OwnerThread \/ LoopThread \/ SpuriousWakeups
  \/ \E c \in Conns : ConnThread(c)
  \/ Terminated /\ UNCHANGED tvars

ComposedSpec == ComposedInit /\ [][ComposedNext]_allvars

(* Every thread that can run does run; a thread that finds a mutex free    *)
(* again and again gets it: gena_loop spends up to 500 ms in poll without  *)
(* gena->mutex, and a creator that wakes up without reason goes back to    *)
(* sleep.  A call of a connection thread returns or holds the thread for   *)
(* good, as the peer or an encoder likes; nothing bounds the number of     *)
(* blocks of a file.  Nothing obliges the owner to stop the server.        *)
ComposedFairness ==
  /\ WF_allvars(OwnerPrepares \/ OwnerCreates \/ HandOver(Server) \/ OwnerJoins)
  /\ SF_allvars(OwnerAwaits /\ ~Creating(Server) /\ UNCHANGED tvars)
  /\ WF_allvars(LoopThread)
  /\ SF_allvars(\E t \in Started : T!SetFlag(t) /\ UNCHANGED vars)
  /\ \A c \in Conns : WF_allvars(ConnThread(c))

FairSpec == ComposedSpec /\ ComposedFairness

-----------------------------------------------------------------------------
(* Properties, with those of module Gena.                                  *)

(* thread_run never uses an argument block, or its mutex and condition,    *)
(* that upnpd_thread_create has freed: for gena_loop and for every         *)
(* connection, whatever the server does meanwhile.                         *)
ArgOutlivesUse == T!ArgOutlivesUse

(* upnpd_thread_create returns, however creator and thread interleave and  *)
(* whatever the other threads of the server do: the signal of thread_run   *)
(* is never lost.                                                          *)
CreateReturns == T!CreateReturns
=============================================================================
