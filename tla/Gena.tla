-------------------------------- MODULE Gena --------------------------------
(***************************************************************************)
(* The HTTP/GENA server of upnpd/common/upnp/gena.c: the accept loop       *)
(* (gena_loop), one thread per accepted connection (gena_thread_loop), and *)
(* the owner that starts and stops the server (upnpd_upnp_gena_init and    *)
(* upnpd_upnp_gena_uninit).                                                *)
(*                                                                         *)
(* A critical section that neither blocks nor is interrupted is one step;  *)
(* it is taken only when the mutex it locks is free.  A wait on a          *)
(* condition variable is a "...sleep" program point, which a signal (or a  *)
(* spurious wakeup) turns into a "...wake" point, where the mutex has to be *)
(* locked again before the predicate is tested.  A signal that finds no    *)
(* sleeper is lost.                                                        *)
(***************************************************************************)
EXTENDS Naturals, FiniteSets

CONSTANTS
  Conns,    \* the connections a run may accept; each has its own gena_thread_t
  Unborn,   \* connections for which pthread_create() fails
  NoConn    \* no connection

ASSUME ConnsAssumption ==
  /\ Unborn \subseteq Conns
  /\ NoConn \notin Conns

VARIABLES
  main,     \* program point of the thread that calls init and uninit
  loop,     \* program point of gena_loop
  gmutex,   \* who holds gena->mutex
  running,  \* gena->running
  stopped,  \* gena->stopped
  lrunning, \* the local variable running of gena_loop
  pending,  \* the last poll of the listening socket reported a connection
  threads,  \* gena->threads, the list of connection threads
  todo,     \* the elements the current list_for_each_entry_safe has yet to visit
  cur,      \* the local variable gena_thread of gena_loop
  heap,     \* allocation state of each gena_thread_t
  crunning, \* gena_thread->running
  cstopped, \* gena_thread->stopped
  cmutex,   \* who holds gena_thread->mutex
  cpc,      \* program point of each connection thread
  file      \* the connection thread holds an open vfs handle

loopvars == << lrunning, pending, threads, todo, cur >>
childvars == << heap, crunning, cstopped, cmutex, cpc, file >>
vars == << main, loop, gmutex, running, stopped, loopvars, childvars >>

\* Where a connection thread is in the hands of others, and "held", where it is
\* in a call that never returns.
Exposed == {"request", "reply", "header", "read", "body"}
ChildPoints == {"none", "unborn", "start", "held", "check", "close",
                "out", "unlock", "return", "exited"} \cup Exposed
LoopPoints == {"none", "start", "poll", "iterate", "reap", "reapjoin", "stop",
               "stopsleep", "stopwake", "stopjoin", "unlock", "accept",
               "runsleep", "runwake", "exit", "return", "exited", "abort"}
MainPoints == {"init", "initlock", "initsleep", "initwake", "up", "quitsleep",
               "quitwake", "quitjoin", "done"}

Init ==
  /\ main = "init" /\ loop = "none"
  /\ gmutex = "free" /\ running = FALSE /\ stopped = FALSE
  /\ lrunning = FALSE /\ pending = FALSE
  /\ threads = {} /\ todo = {} /\ cur = NoConn
  /\ heap = [c \in Conns |-> "none"]
  /\ crunning = [c \in Conns |-> FALSE]
  /\ cstopped = [c \in Conns |-> FALSE]
  /\ cmutex = [c \in Conns |-> "free"]
  /\ cpc = [c \in Conns |-> "none"]
  /\ file = [c \in Conns |-> FALSE]

-----------------------------------------------------------------------------
(* Condition variables.  Only the owner waits on gena->cond, and only      *)
(* gena_loop waits on the cond of a connection.                            *)

SignalOwner ==
  main' = CASE main = "initsleep" -> "initwake"
            [] main = "quitsleep" -> "quitwake"
            [] OTHER -> main

SignalLoop(c) ==
  loop' = CASE loop = "runsleep" /\ cur = c -> "runwake"
            [] loop = "stopsleep" /\ cur = c -> "stopwake"
            [] OTHER -> loop

\* A wakeup without a signal, which POSIX allows.
SpuriousWakeup ==
  \/ /\ main \in {"initsleep", "quitsleep"}
     /\ SignalOwner
     /\ UNCHANGED << loop, gmutex, running, stopped, loopvars, childvars >>
  \/ /\ loop \in {"runsleep", "stopsleep"}
     /\ SignalLoop(cur)
     /\ UNCHANGED << main, gmutex, running, stopped, loopvars, childvars >>

-----------------------------------------------------------------------------
(* The owner.                                                              *)

\* upnpd_upnp_gena_init up to the creation of the gena_loop thread.
OwnerCreate ==
  /\ main = "init"
  /\ main' = "initlock"
  /\ loop' = "start"
  /\ UNCHANGED << gmutex, running, stopped, loopvars, childvars >>

\* The wait for gena->running: lock, test, and wait or leave.
OwnerAwaitRunning ==
  /\ main \in {"initlock", "initwake"}
  /\ gmutex = "free"
  /\ main' = IF running THEN "up" ELSE "initsleep"
  /\ UNCHANGED << loop, gmutex, running, stopped, loopvars, childvars >>

\* The test of gena->stopped in upnpd_upnp_gena_uninit: the owner keeps the
\* mutex for the join, or gives it up to wait.
OwnerTestStopped ==
  IF stopped THEN main' = "quitjoin" /\ gmutex' = "owner"
             ELSE main' = "quitsleep" /\ UNCHANGED gmutex

\* upnpd_upnp_gena_uninit: ask gena_loop to stop.  Its signal finds nobody.
OwnerUninit ==
  /\ main = "up"
  /\ gmutex = "free"
  /\ running' = FALSE
  /\ OwnerTestStopped
  /\ UNCHANGED << loop, stopped, loopvars, childvars >>

OwnerAwaitStopped ==
  /\ main = "quitwake"
  /\ gmutex = "free"
  /\ OwnerTestStopped
  /\ UNCHANGED << loop, running, stopped, loopvars, childvars >>

\* The join of gena_loop, made with gena->mutex held; gena is then freed.
OwnerJoin ==
  /\ main = "quitjoin"
  /\ loop = "exited"
  /\ main' = "done"
  /\ gmutex' = "free"
  /\ UNCHANGED << loop, running, stopped, loopvars, childvars >>

Owner == OwnerCreate \/ OwnerAwaitRunning \/ OwnerUninit \/ OwnerAwaitStopped \/ OwnerJoin

-----------------------------------------------------------------------------
(* gena_loop.                                                              *)

LoopStart ==
  /\ loop = "start"
  /\ gmutex = "free"
  /\ running' = TRUE
  /\ lrunning' = TRUE
  /\ SignalOwner
  /\ loop' = "poll"
  /\ UNCHANGED << gmutex, stopped, pending, threads, todo, cur, childvars >>

\* The 500 ms poll of the listening socket ends, with or without a connection.
LoopPoll ==
  /\ loop = "poll"
  /\ \/ pending' = FALSE
     \/ pending' = TRUE /\ \E c \in Conns : heap[c] = "none"
  /\ loop' = "iterate"
  /\ UNCHANGED << main, gmutex, running, stopped, lrunning, threads, todo, cur, childvars >>

\* Lock gena->mutex, sample gena->running, start the sweep over the threads.
LoopIterate ==
  /\ loop = "iterate"
  /\ gmutex = "free"
  /\ gmutex' = "loop"
  /\ lrunning' = running
  /\ todo' = threads
  /\ loop' = "reap"
  /\ UNCHANGED << main, running, stopped, pending, threads, cur, childvars >>

\* MUTANT: the first sweep joins a thread without looking at its stopped flag.
LoopReap_JoinsAll(c) ==
  /\ loop = "reap"
  /\ c \in todo
  /\ cmutex[c] = "free"
  /\ cmutex' = [cmutex EXCEPT ![c] = "loop"]
  /\ cur' = c
  /\ loop' = "reapjoin"
  /\ UNCHANGED << main, gmutex, running, stopped, lrunning, pending, threads, todo,
                  heap, crunning, cstopped, cpc, file >>

\* MUTANT: the first sweep frees what has stopped without joining the thread.
LoopReap_FreesAtOnce(c) ==
  /\ loop = "reap"
  /\ c \in todo
  /\ cmutex[c] = "free"
  /\ todo' = todo \ {c}
  /\ IF cstopped[c] THEN threads' = threads \ {c} /\ heap' = [heap EXCEPT ![c] = "freed"]
                    ELSE UNCHANGED << threads, heap >>
  /\ UNCHANGED << main, loop, gmutex, running, stopped, lrunning, pending, cur,
                  crunning, cstopped, cmutex, cpc, file >>

\* Visit one thread of the first sweep: join it if it has stopped.
LoopReap(c) ==
  /\ loop = "reap"
  /\ c \in todo
  /\ cmutex[c] = "free"
  /\ IF cstopped[c]
       THEN /\ cmutex' = [cmutex EXCEPT ![c] = "loop"]
            /\ cur' = c
            /\ loop' = "reapjoin"
            /\ UNCHANGED todo
       ELSE todo' = todo \ {c} /\ UNCHANGED << cmutex, cur, loop >>
  /\ UNCHANGED << main, gmutex, running, stopped, lrunning, pending, threads,
                  heap, crunning, cstopped, cpc, file >>

\* upnpd_thread_join(gena_thread->thread) returns: the thread has returned.
Joined(c) == cpc[c] = "exited"

\* upnpd_thread_join returns; unlink, unlock, destroy and free.  Either sweep.
LoopJoin ==
  /\ loop \in {"reapjoin", "stopjoin"}
  /\ Joined(cur)
  /\ threads' = threads \ {cur}
  /\ todo' = todo \ {cur}
  /\ heap' = [heap EXCEPT ![cur] = "freed"]
  /\ cmutex' = [cmutex EXCEPT ![cur] = "free"]
  /\ loop' = IF loop = "reapjoin" THEN "reap" ELSE "stop"
  /\ UNCHANGED << main, gmutex, running, stopped, lrunning, pending, cur,
                  crunning, cstopped, cpc, file >>

\* MUTANT: the second sweep is forgotten.
LoopReaped_NoSecondSweep ==
  /\ loop = "reap"
  /\ todo = {}
  /\ loop' = "unlock"
  /\ UNCHANGED << main, gmutex, running, stopped, loopvars, childvars >>

\* The first sweep is over; the second one runs only when asked to stop.
LoopReaped ==
  /\ loop = "reap"
  /\ todo = {}
  /\ IF lrunning THEN loop' = "unlock" /\ UNCHANGED todo
                 ELSE loop' = "stop" /\ todo' = threads
  /\ UNCHANGED << main, gmutex, running, stopped, lrunning, pending, threads, cur, childvars >>

\* Visit one thread of the second sweep: join a stopped one, tell a running
\* one to stop and wait for it, and abort on one that is neither.
LoopStop(c) ==
  /\ loop = "stop"
  /\ c \in todo
  /\ cmutex[c] = "free"
  /\ cur' = c
  /\ \/ /\ cstopped[c]
        /\ cmutex' = [cmutex EXCEPT ![c] = "loop"]
        /\ loop' = "stopjoin"
        /\ UNCHANGED crunning
     \/ /\ ~cstopped[c] /\ crunning[c]
        /\ crunning' = [crunning EXCEPT ![c] = FALSE]
        /\ loop' = "stopsleep"
        /\ UNCHANGED cmutex
     \/ /\ ~cstopped[c] /\ ~crunning[c]
        /\ loop' = "abort"
        /\ UNCHANGED << crunning, cmutex >>
  /\ UNCHANGED << main, gmutex, running, stopped, lrunning, pending, threads, todo,
                  heap, cstopped, cpc, file >>

LoopAwaitStopped ==
  /\ loop = "stopwake"
  /\ cmutex[cur] = "free"
  /\ IF cstopped[cur]
       THEN loop' = "stopjoin" /\ cmutex' = [cmutex EXCEPT ![cur] = "loop"]
       ELSE loop' = "stopsleep" /\ UNCHANGED cmutex
  /\ UNCHANGED << main, gmutex, running, stopped, loopvars, heap, crunning, cstopped, cpc, file >>

LoopStopped ==
  /\ loop = "stop"
  /\ todo = {}
  /\ loop' = "unlock"
  /\ UNCHANGED << main, gmutex, running, stopped, loopvars, childvars >>

\* Unlock gena->mutex and leave the loop, accept, or poll again.
LoopUnlock ==
  /\ loop = "unlock"
  /\ gmutex' = "free"
  /\ loop' = CASE ~lrunning -> "exit"
               [] lrunning /\ pending -> "accept"
               [] OTHER -> "poll"
  /\ UNCHANGED << main, running, stopped, loopvars, childvars >>

\* accept() or malloc() fails.
LoopAcceptFails ==
  /\ loop = "accept"
  /\ loop' = "poll"
  /\ UNCHANGED << main, gmutex, running, stopped, loopvars, childvars >>

\* Allocate the gena_thread_t, create its thread with its mutex held, and wait
\* for its running flag.  A failed pthread_create goes unnoticed.
LoopAccept(c) ==
  /\ loop = "accept"
  /\ heap[c] = "none"
  /\ heap' = [heap EXCEPT ![c] = "live"]
  /\ cpc' = [cpc EXCEPT ![c] = IF c \in Unborn THEN "unborn" ELSE "start"]
  /\ cur' = c
  /\ loop' = "runsleep"
  /\ UNCHANGED << main, gmutex, running, stopped, lrunning, pending, threads, todo,
                  crunning, cstopped, cmutex, file >>

\* MUTANT: the wait for the running flag is an if, not a while.
LoopAwaitRunning_NoRecheck ==
  /\ loop = "runwake"
  /\ cmutex[cur] = "free"
  /\ threads' = threads \cup {cur} /\ loop' = "poll"
  /\ UNCHANGED << main, gmutex, running, stopped, lrunning, pending, todo, cur, childvars >>

\* The running flag is set: list_add, without gena->mutex.
LoopAwaitRunning ==
  /\ loop = "runwake"
  /\ cmutex[cur] = "free"
  /\ IF crunning[cur] THEN threads' = threads \cup {cur} /\ loop' = "poll"
                      ELSE loop' = "runsleep" /\ UNCHANGED threads
  /\ UNCHANGED << main, gmutex, running, stopped, lrunning, pending, todo, cur, childvars >>

LoopExit ==
  /\ loop = "exit"
  /\ gmutex = "free"
  /\ stopped' = TRUE
  /\ SignalOwner
  /\ loop' = "return"
  /\ UNCHANGED << gmutex, running, loopvars, childvars >>

LoopReturn ==
  /\ loop = "return"
  /\ loop' = "exited"
  /\ UNCHANGED << main, gmutex, running, stopped, loopvars, childvars >>

Loop ==
  \/ LoopStart \/ LoopPoll \/ LoopIterate \/ LoopJoin \/ LoopReaped
  \/ LoopAwaitStopped \/ LoopStopped \/ LoopUnlock \/ LoopAcceptFails
  \/ LoopAwaitRunning \/ LoopExit \/ LoopReturn
  \/ \E c \in Conns : LoopReap(c) \/ LoopStop(c) \/ LoopAccept(c)

-----------------------------------------------------------------------------
(* gena_thread_loop, the thread of connection c.                           *)

Goto(c, from, to) == cpc[c] = from /\ cpc' = [cpc EXCEPT ![c] = to]

ChildStart(c) ==
  /\ Goto(c, "start", "request")
  /\ cmutex[c] = "free"
  /\ crunning' = [crunning EXCEPT ![c] = TRUE]
  /\ SignalLoop(c)
  /\ UNCHANGED << main, gmutex, running, stopped, loopvars, heap, cstopped, cmutex, file >>

\* The request has been read, parsed and handled.  It fails silently, it is
\* answered by an error or by an event handler, or it opens a file whose header
\* is then sent.
ChildRequest(c) ==
  /\ \/ Goto(c, "request", "out") /\ UNCHANGED file
     \/ Goto(c, "request", "reply") /\ UNCHANGED file
     \/ Goto(c, "request", "header") /\ file' = [file EXCEPT ![c] = TRUE]
  /\ UNCHANGED << main, loop, gmutex, running, stopped, loopvars,
                  heap, crunning, cstopped, cmutex >>

\* gena_send() returns.
ChildSend(c) ==
  /\ \/ Goto(c, "reply", "out")
     \/ \E next \in {"read", "close"} : Goto(c, "header", next)
     \/ \E next \in {"check", "close"} : Goto(c, "body", next)
  /\ UNCHANGED << main, loop, gmutex, running, stopped, loopvars,
                  heap, crunning, cstopped, cmutex, file >>

\* vfs.read: data to send, or the end of the range, of the file, or an error.
ChildRead(c) ==
  /\ \E next \in {"body", "close"} : Goto(c, "read", next)
  /\ UNCHANGED << main, loop, gmutex, running, stopped, loopvars,
                  heap, crunning, cstopped, cmutex, file >>

\* The thread is held for good.  gena_getline gives each character a timeout of
\* its own, and the loops over the lines of a header have no bound: a peer that
\* goes on sending lines is read for ever.  gena_send polls again after every
\* timeout: a peer that stops reading is waited for for ever.  An event handler
\* waits for device->mutex, and vfs.read for an encoder.  None of them looks at
\* gena_thread->running.
ChildHeld(c) ==
  /\ \E from \in Exposed : Goto(c, from, "held")
  /\ UNCHANGED << main, loop, gmutex, running, stopped, loopvars,
                  heap, crunning, cstopped, cmutex, file >>

\* MUTANT: the thread does not look at its running flag.
ChildCheck_Ignored(c) ==
  /\ Goto(c, "check", "read")
  /\ UNCHANGED << main, loop, gmutex, running, stopped, loopvars,
                  heap, crunning, cstopped, cmutex, file >>

\* After each block sent: has gena_loop asked this thread to stop?
ChildCheck(c) ==
  /\ cmutex[c] = "free"
  /\ Goto(c, "check", IF crunning[c] THEN "read" ELSE "close")
  /\ UNCHANGED << main, loop, gmutex, running, stopped, loopvars,
                  heap, crunning, cstopped, cmutex, file >>

ChildClose(c) ==
  /\ Goto(c, "close", "out")
  /\ file' = [file EXCEPT ![c] = FALSE]
  /\ UNCHANGED << main, loop, gmutex, running, stopped, loopvars,
                  heap, crunning, cstopped, cmutex >>

\* Lock, stopped = 1, signal; the mutex is released by the next step.
ChildStop(c) ==
  /\ cmutex[c] = "free"
  /\ Goto(c, "out", "unlock")
  /\ cmutex' = [cmutex EXCEPT ![c] = "child"]
  /\ cstopped' = [cstopped EXCEPT ![c] = TRUE]
  /\ SignalLoop(c)
  /\ UNCHANGED << main, gmutex, running, stopped, loopvars, heap, crunning, file >>

ChildUnlock(c) ==
  /\ Goto(c, "unlock", "return")
  /\ cmutex' = [cmutex EXCEPT ![c] = "free"]
  /\ UNCHANGED << main, loop, gmutex, running, stopped, loopvars,
                  heap, crunning, cstopped, file >>

ChildReturn(c) ==
  /\ Goto(c, "return", "exited")
  /\ UNCHANGED << main, loop, gmutex, running, stopped, loopvars,
                  heap, crunning, cstopped, cmutex, file >>

Child(c) ==
  \/ ChildStart(c) \/ ChildRequest(c) \/ ChildSend(c) \/ ChildRead(c)
  \/ ChildCheck(c) \/ ChildClose(c) \/ ChildStop(c) \/ ChildUnlock(c)
  \/ ChildReturn(c) \/ ChildHeld(c)

-----------------------------------------------------------------------------

\* The server has been stopped and freed: nothing is left to do.
Terminated == main = "done" /\ UNCHANGED vars

Next ==
  \/ Owner \/ Loop \/ SpuriousWakeup \/ Terminated
  \/ \E c \in Conns : Child(c)

Spec == Init /\ [][Next]_vars

-----------------------------------------------------------------------------
(* Properties.                                                             *)

TypeOK ==
  /\ main \in MainPoints /\ loop \in LoopPoints
  /\ gmutex \in {"free", "loop", "owner"}
  /\ running \in BOOLEAN /\ stopped \in BOOLEAN
  /\ lrunning \in BOOLEAN /\ pending \in BOOLEAN
  /\ threads \subseteq Conns /\ todo \subseteq threads
  /\ cur \in Conns \cup {NoConn}
  /\ heap \in [Conns -> {"none", "live", "freed"}]
  /\ crunning \in [Conns -> BOOLEAN] /\ cstopped \in [Conns -> BOOLEAN]
  /\ cmutex \in [Conns -> {"free", "loop", "child"}]
  /\ cpc \in [Conns -> ChildPoints]
  /\ file \in [Conns -> BOOLEAN]

\* The thread of c may still lock, signal or read its gena_thread_t, or has
\* not yet returned to the system.
Alive(c) == cpc[c] \notin {"none", "unborn", "exited"}

(* A gena_thread_t is freed only after its thread has returned: no         *)
(* connection thread ever touches a freed mutex, cond or socket.           *)
NoUseAfterFree == \A c \in Conns : Alive(c) => heap[c] = "live"

(* The assert(0) of gena_loop, "this should not happen", is not reached: a *)
(* listed thread has set its running flag before it is listed, and only    *)
(* the second sweep clears it, waiting then until the thread has stopped.  *)
AssertNotReached == loop # "abort"

(* When upnpd_upnp_gena_uninit returns, every thread ever created has      *)
(* returned, every gena_thread_t is freed, every vfs handle is closed --    *)
(* a connection accepted while the owner was already asking to stop        *)
(* included.                                                               *)
ShutdownIsClean ==
  main = "done" =>
    /\ threads = {}
    /\ loop = "exited"
    /\ \A c \in Conns : ~Alive(c) /\ heap[c] # "live" /\ ~file[c]

\* gena_loop waits for good: for a thread that is held, or for the running flag
\* of a thread that was never created.
Stuck ==
  \/ loop \in {"stopsleep", "stopwake"} /\ cpc[cur] = "held"
  \/ loop \in {"runsleep", "runwake"} /\ cur \in Unborn

Quitting == main \in {"quitsleep", "quitwake", "quitjoin"}

(* upnpd_upnp_gena_uninit returns, and the only things that can keep it    *)
(* from returning are a connection thread that is in a call which does not *)
(* return, as ChildHeld says, and a thread that could not be created.      *)
UninitReturns == Quitting ~> (main = "done" \/ Stuck)

(* One connection cannot hold up the others: until the owner stops the     *)
(* server, gena_loop comes back to its poll again and again, whatever its  *)
(* connection threads do, unless a thread could not be created.            *)
KeepsAccepting == (main = "up") ~> (loop = "poll" \/ main # "up" \/ Stuck)

-----------------------------------------------------------------------------
(* The inductive invariant behind the safety properties.                   *)

\* gena->mutex is held exactly where the code holds it across steps, and the
\* owner is past its wait only when gena_loop has made its last announcement.
OwnerInv ==
  /\ main = "init" => loop = "none"
  /\ gmutex = "owner" <=> main = "quitjoin"
  /\ stopped => loop \in {"return", "exited"}
  /\ main = "quitjoin" => stopped
  /\ main = "done" => loop = "exited"

\* The second sweep empties the list, and gena_loop leaves only after it.
LoopInv ==
  /\ gmutex = "loop" <=> loop \in {"reap", "reapjoin", "stop", "stopsleep", "stopwake",
                                   "stopjoin", "unlock", "abort"}
  /\ loop \in {"exit", "return", "exited"} => threads = {}
  /\ loop = "unlock" /\ ~lrunning => threads = {}
  /\ loop \in {"stop", "stopsleep", "stopwake", "stopjoin"} => ~lrunning /\ todo = threads
  /\ loop \in {"reapjoin", "stopsleep", "stopwake", "stopjoin"} => cur \in todo
  /\ loop \in {"runsleep", "runwake"} => cur \in Conns \ threads

\* A gena_thread_t is allocated exactly while it is listed or being listed, and
\* a listed thread has started.
ChildInv(c) ==
  /\ heap[c] = "live" <=> c \in threads \/ (loop \in {"runsleep", "runwake"} /\ cur = c)
  /\ heap[c] = "none" <=> cpc[c] = "none"
  /\ heap[c] = "freed" => cpc[c] = "exited"
  /\ cstopped[c] <=> cpc[c] \in {"unlock", "return", "exited"}
  /\ crunning[c] => cpc[c] \notin {"none", "unborn", "start"}
  /\ c \in threads => /\ cpc[c] \notin {"none", "unborn", "start"}
                      /\ \/ crunning[c] \/ cstopped[c]
                         \/ loop \in {"stopsleep", "stopwake"} /\ cur = c
  /\ file[c] => cpc[c] \in {"header", "read", "body", "held", "check", "close"}

IInv == TypeOK /\ AssertNotReached /\ OwnerInv /\ LoopInv /\ \A c \in Conns : ChildInv(c)
=============================================================================
