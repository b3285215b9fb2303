---------------------------- MODULE ThreadCreate ----------------------------
(***************************************************************************)
(* The start of a thread in platform/posix/thread.c: upnpd_thread_create   *)
(* hands a thread_arg_t to thread_run, waits for its flag and frees it.    *)
(* Every thread of the program (gena, ssdp, client timer, transcoder,      *)
(* connections) is started this way.                                       *)
(*                                                                         *)
(* The creator tests the flag and goes to sleep in two steps, with the     *)
(* mutex held between them; a signal that finds no sleeper is lost.        *)
(***************************************************************************)
EXTENDS Naturals

CONSTANTS
  Threads,   \* the threads that are created
  Fails      \* those for which pthread_create returns an error

VARIABLES
  creator,   \* program point of the caller of upnpd_thread_create, per thread
  worker,    \* program point of thread_run
  arg,       \* allocation state of the thread_arg_t
  flag,      \* arg->flag
  mutex,     \* who holds arg->mut
  tid        \* what upnpd_thread_create returned, and what became of it

vars == << creator, worker, arg, flag, mutex, tid >>

CreatorPoints == {"idle", "create", "test", "wait", "sleep", "wake", "out", "back", "joined"}
WorkerPoints == {"none", "start", "lock", "signal", "unlock", "run", "exited"}

Init ==
  /\ creator = [t \in Threads |-> "idle"]
  /\ worker = [t \in Threads |-> "none"]
  /\ arg = [t \in Threads |-> "none"]
  /\ flag = [t \in Threads |-> FALSE]
  /\ mutex = [t \in Threads |-> "free"]
  /\ tid = [t \in Threads |-> "none"]

Creator(t, from, to) == creator[t] = from /\ creator' = [creator EXCEPT ![t] = to]
Worker(t, from, to) == worker[t] = from /\ worker' = [worker EXCEPT ![t] = to]

-----------------------------------------------------------------------------
(* upnpd_thread_create.                                                    *)

\* Allocate the thread object and its argument.
Prepare(t) ==
  /\ Creator(t, "idle", "create")
  /\ arg' = [arg EXCEPT ![t] = "live"]
  /\ UNCHANGED << worker, flag, mutex, tid >>

\* MUTANT: the mutex is not held over pthread_create and the wait.
Create_Unlocked(t) ==
  /\ IF t \in Fails THEN Creator(t, "create", "out") /\ UNCHANGED worker
                    ELSE Creator(t, "create", "test") /\ Worker(t, "none", "start")
  /\ UNCHANGED << arg, flag, mutex, tid >>

\* Lock arg->mut and call pthread_create.
Create(t) ==
  /\ mutex[t] = "free"
  /\ mutex' = [mutex EXCEPT ![t] = "creator"]
  /\ IF t \in Fails THEN Creator(t, "create", "out") /\ UNCHANGED worker
                    ELSE Creator(t, "create", "test") /\ Worker(t, "none", "start")
  /\ UNCHANGED << arg, flag, tid >>

\* MUTANT: the creator does not wait for the new thread.
Test_NoWait(t) ==
  /\ Creator(t, "test", "out")
  /\ UNCHANGED << worker, arg, flag, mutex, tid >>

\* while (arg->flag != 1)
Test(t) ==
  /\ Creator(t, "test", IF flag[t] THEN "out" ELSE "wait")
  /\ UNCHANGED << worker, arg, flag, mutex, tid >>

\* upnpd_thread_cond_wait: release the mutex and sleep.
Wait(t) ==
  /\ Creator(t, "wait", "sleep")
  /\ mutex' = [mutex EXCEPT ![t] = "free"]
  /\ UNCHANGED << worker, arg, flag, tid >>

\* A wakeup without a signal.
Spurious(t) ==
  /\ Creator(t, "sleep", "wake")
  /\ UNCHANGED << worker, arg, flag, mutex, tid >>

\* The wait returns with the mutex held again.
Wake(t) ==
  /\ Creator(t, "wake", "test")
  /\ mutex[t] = "free"
  /\ mutex' = [mutex EXCEPT ![t] = "creator"]
  /\ UNCHANGED << worker, arg, flag, tid >>

\* Unlock, destroy the condition and the mutex, free the argument, return the
\* thread object -- whether or not pthread_create succeeded.
Return(t) ==
  /\ Creator(t, "out", "back")
  /\ mutex' = [mutex EXCEPT ![t] = "free"]
  /\ arg' = [arg EXCEPT ![t] = "freed"]
  /\ tid' = [tid EXCEPT ![t] = "object"]
  /\ UNCHANGED << worker, flag >>

\* upnpd_thread_join, which blocks until the thread has returned.
Join(t) ==
  /\ Creator(t, "back", "joined")
  /\ worker[t] = "exited"
  /\ tid' = [tid EXCEPT ![t] = "freed"]
  /\ UNCHANGED << worker, arg, flag, mutex >>

-----------------------------------------------------------------------------
(* thread_run.                                                             *)

\* Read arg->arg and arg->f.
ReadArg(t) ==
  /\ Worker(t, "start", "lock")
  /\ UNCHANGED << creator, arg, flag, mutex, tid >>

SetFlag(t) ==
  /\ Worker(t, "lock", "signal")
  /\ mutex[t] = "free"
  /\ mutex' = [mutex EXCEPT ![t] = "worker"]
  /\ flag' = [flag EXCEPT ![t] = TRUE]
  /\ UNCHANGED << creator, arg, tid >>

Signal(t) ==
  /\ Worker(t, "signal", "unlock")
  /\ creator' = [creator EXCEPT ![t] = IF @ = "sleep" THEN "wake" ELSE @]
  /\ UNCHANGED << arg, flag, mutex, tid >>

Unlock(t) ==
  /\ Worker(t, "unlock", "run")
  /\ mutex' = [mutex EXCEPT ![t] = "free"]
  /\ UNCHANGED << creator, arg, flag, tid >>

\* The thread's own function returns.
Exit(t) ==
  /\ Worker(t, "run", "exited")
  /\ UNCHANGED << creator, arg, flag, mutex, tid >>

-----------------------------------------------------------------------------

CreatorStep(t) ==
  Prepare(t) \/ Create(t) \/ Test(t) \/ Wait(t) \/ Wake(t) \/ Return(t) \/ Join(t)
WorkerStep(t) == ReadArg(t) \/ SetFlag(t) \/ Signal(t) \/ Unlock(t) \/ Exit(t)

Next == \E t \in Threads : CreatorStep(t) \/ WorkerStep(t) \/ Spurious(t)

Spec == Init /\ [][Next]_vars

-----------------------------------------------------------------------------
(* Properties.                                                             *)

TypeOK ==
  /\ creator \in [Threads -> CreatorPoints]
  /\ worker \in [Threads -> WorkerPoints]
  /\ arg \in [Threads -> {"none", "live", "freed"}]
  /\ flag \in [Threads -> BOOLEAN]
  /\ mutex \in [Threads -> {"free", "creator", "worker"}]
  /\ tid \in [Threads -> {"none", "object", "freed"}]

(* The argument, its mutex and its condition are freed only when thread_run *)
(* has used them for the last time.                                        *)
ArgOutlivesUse ==
  \A t \in Threads : worker[t] \in {"start", "lock", "signal", "unlock"} => arg[t] = "live"

(* upnpd_thread_create returns, however the two threads interleave: the    *)
(* signal of thread_run is never lost.                                     *)
CreateReturns == \A t \in Threads : creator[t] = "create" ~> creator[t] \in {"back", "joined"}

-----------------------------------------------------------------------------
(* The inductive invariant behind ArgOutlivesUse.                          *)

Handshake(t) ==
  /\ worker[t] = "none" <=> creator[t] \in {"idle", "create"} \/ t \in Fails
  /\ mutex[t] = "creator" <=> creator[t] \in {"test", "wait", "out"}
  /\ mutex[t] = "worker" <=> worker[t] \in {"signal", "unlock"}
  /\ flag[t] <=> worker[t] \in {"signal", "unlock", "run", "exited"}
  /\ arg[t] = "live" <=> creator[t] \notin {"idle", "back", "joined"}
  /\ creator[t] \in {"out", "back", "joined"} => flag[t] \/ t \in Fails
  /\ creator[t] \in {"back", "joined"} => worker[t] \in {"none", "run", "exited"}

IInv == TypeOK /\ \A t \in Threads : Handshake(t)
=============================================================================
