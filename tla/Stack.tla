-------------------------------- MODULE Stack --------------------------------
(***************************************************************************)
(* The life of a device's UPnP stack: upnpd_device_init and _uninit of     *)
(* upnpd/common/device.c driving upnpd/common/upnp/upnp.c, whose web       *)
(* server (gena.c) serves requests before the device is registered, and    *)
(* whose SSDP thread (ssdp.c) listens, answers and announces meanwhile.    *)
(*                                                                         *)
(* The web server is only what it does to upnp_t: module Gena has its      *)
(* threads and module Device the handlers behind the callbacks, of which   *)
(* what is left here is that they need device->mutex.  A critical section  *)
(* in which nothing can be waited for is one step.  A message stands for   *)
(* both copies ssdp_advertise_send sends, and may be lost; how often a     *)
(* device is announced is module Presence.                                 *)
(***************************************************************************)
EXTENDS Naturals

CONSTANTS
  Count,    \* how many ssdp_device_t upnpd_upnp_register_device registers
  Services, \* which of them stand for a service
  Requests, \* the requests control points send
  Owner,    \* the thread that calls upnpd_device_init and _uninit
  Loop,     \* the thread of ssdp_thread_loop
  None      \* no thread

Entries == 1 .. Count
Description == 0 \* the request for /description.xml
Resources == {Description} \cup Services

ASSUME StackAssumption ==
  /\ Count \in Nat
  /\ Services \subseteq Entries
  /\ Owner # Loop /\ None \notin {Owner, Loop}

VARIABLES
  main,        \* program point of the owner
  waiting,     \* the owner is asleep on ssdp->cond
  gena,        \* the web server: "none", "up" or "down"
  umutex,      \* upnp->mutex is held by the owner
  smutex,      \* who holds ssdp->mutex
  flags,       \* ssdp->started, running and stopped
  registered,  \* ssdp->devices holds the entries 1 .. registered
  freed,       \* the entries and the mutex of ssdp are freed
  type,        \* upnp->type.type is UPNP_TYPE_DEVICE
  description, \* upnp->type.device.description
  listed,      \* upnp->type.device.services
  loop,        \* program point of ssdp_thread_loop
  inbox,       \* datagrams poll reported that are not handled yet
  heard,       \* the entries some control point knows of
  req,         \* each request: its program point, what it asks for, and when it came
  early,       \* the datagram being handled came before the device was registered
  ready,       \* upnpd_upnp_register_device has returned, and not failed
  fault        \* undefined behaviour that has been met

ownerVars == << main, waiting >>
ssdpVars == << smutex, flags, registered, freed >>
upnpVars == << umutex, type, description, listed >>
loopVars == << loop, inbox >>
vars == << main, waiting, gena, umutex, smutex, flags, registered, freed, type, description,
           listed, loop, inbox, heard, req, early, ready, fault >>

Init ==
  /\ main = "new" /\ waiting = FALSE /\ gena = "none"
  /\ umutex = FALSE /\ type = FALSE /\ description = "none" /\ listed = {}
  /\ smutex = None /\ registered = 0 /\ freed = FALSE
  /\ flags = [started |-> FALSE, running |-> FALSE, stopped |-> FALSE]
  /\ loop = "none" /\ inbox = 0
  /\ heard = {}
  /\ req = [r \in Requests |-> [at |-> "idle", for |-> Description, came |-> "late"]]
  /\ early = FALSE /\ ready = FALSE
  /\ fault = "none"

\* What the stack was told of it, a control point may have been told.
Hear(S) == \E told \in SUBSET S : heard' = heard \cup told

\* Waiting for ssdp->cond lets go of ssdp->mutex.
Sleep == waiting' = TRUE /\ smutex' = None
Signal == waiting' = FALSE

-----------------------------------------------------------------------------
(* upnpd_upnp_init.                                                        *)

\* upnpd_upnp_gena_init: requests are accepted from here on.
InitGena ==
  /\ main = "new"
  /\ gena' = "up"
  /\ main' = "sockets"
  /\ UNCHANGED << waiting, ssdpVars, upnpVars, loopVars, heard, req, early, ready, fault >>

\* upnpd_upnp_ssdp_init: either a socket call fails, and upnpd_upnp_init takes
\* the web server down again, or the thread is created under ssdp->mutex.
InitSsdp ==
  /\ main = "sockets"
  /\ \/ main' = "stopgena" /\ UNCHANGED << smutex, loop >>
     \/ main' = "awaitstarted" /\ smutex' = Owner /\ loop' = "start"
  /\ UNCHANGED << waiting, gena, flags, registered, freed, upnpVars, inbox, heard, req, early, ready, fault >>

AwaitStarted ==
  /\ main = "awaitstarted" /\ smutex = Owner
  /\ IF flags.started
       THEN main' = "register" /\ smutex' = None /\ UNCHANGED waiting
       ELSE Sleep /\ UNCHANGED main
  /\ UNCHANGED << gena, flags, registered, freed, upnpVars, loopVars, heard, req, early, ready, fault >>

\* upnpd_thread_cond_wait returns, to either of the two loops around it.
Wake ==
  /\ main \in {"awaitstarted", "awaitstopped"} /\ smutex = None /\ ~waiting
  /\ smutex' = Owner
  /\ UNCHANGED << ownerVars, gena, flags, registered, freed, upnpVars, loopVars, heard, req, early, ready, fault >>

SpuriousWakeup ==
  /\ waiting
  /\ Signal
  /\ UNCHANGED << main, gena, ssdpVars, upnpVars, loopVars, heard, req, early, ready, fault >>

-----------------------------------------------------------------------------
(* upnpd_upnp_register_device and upnpd_upnp_advertise.                    *)

\* upnp->mutex is taken, and not let go of before the last entry is in.
Register ==
  /\ main = "register"
  /\ umutex' = TRUE
  /\ main' = "type"
  /\ UNCHANGED << waiting, gena, ssdpVars, type, description, listed, loopVars, heard, req, early, ready, fault >>

\* MUTANT: the type of the stack is left as it was.
SetType_Not ==
  /\ main = "type"
  /\ main' = "describe"
  /\ UNCHANGED << waiting, gena, ssdpVars, umutex, type, description, listed, loopVars, heard, req, early, ready, fault >>

SetType ==
  /\ main = "type"
  /\ type' = TRUE
  /\ main' = "describe"
  /\ UNCHANGED << waiting, gena, ssdpVars, umutex, description, listed, loopVars, heard, req, early, ready, fault >>

Describe ==
  /\ main = "describe"
  /\ description' = "live"
  /\ main' = "parse"
  /\ UNCHANGED << waiting, gena, ssdpVars, umutex, type, listed, loopVars, heard, req, early, ready, fault >>

\* MUTANT: upnp->mutex is let go of when the description is in place.
Parse_Unlocks ==
  /\ main = "parse"
  /\ umutex' = FALSE
  /\ main' = "entry"
  /\ UNCHANGED << waiting, gena, ssdpVars, type, description, listed, loopVars, heard, req, early, ready, fault >>

\* The description is parsed.  When it is refused it is freed, but not
\* forgotten, and upnpd_device_init fails: its caller shuts the device down.
Parse ==
  /\ main = "parse"
  /\ \/ main' = "entry" /\ UNCHANGED << umutex, description >>
     \/ main' = "byebye" /\ umutex' = FALSE /\ description' = "freed"
  /\ UNCHANGED << waiting, gena, ssdpVars, type, listed, loopVars, heard, req, early, ready, fault >>

\* upnpd_upnp_ssdp_register, under ssdp->mutex: the thread may announce the
\* entry at once, or answer a search with it.
RegisterEntry ==
  /\ main = "entry" /\ registered < Count
  /\ smutex = None
  /\ registered' = registered + 1
  /\ main' = IF registered + 1 \in Services THEN "service" ELSE "entry"
  /\ UNCHANGED << waiting, gena, smutex, flags, freed, upnpVars, loopVars, heard, req, early, ready, fault >>

AddService ==
  /\ main = "service"
  /\ listed' = listed \cup {registered}
  /\ main' = "entry"
  /\ UNCHANGED << waiting, gena, ssdpVars, umutex, type, description, loopVars, heard, req, early, ready, fault >>

Registered ==
  /\ main = "entry" /\ registered = Count
  /\ umutex' = FALSE
  /\ ready' = TRUE
  /\ main' = "advertise"
  /\ UNCHANGED << waiting, gena, ssdpVars, type, description, listed, loopVars, heard, req, early, fault >>

AdvertiseLock ==
  /\ main = "advertise"
  /\ umutex' = TRUE
  /\ main' = "send"
  /\ UNCHANGED << waiting, gena, ssdpVars, type, description, listed, loopVars, heard, req, early, ready, fault >>

\* upnpd_upnp_ssdp_advertise: every entry, under both mutexes.
Advertise ==
  /\ main = "send" /\ smutex = None
  /\ Hear(1 .. registered)
  /\ umutex' = FALSE
  /\ main' = "run"
  /\ UNCHANGED << waiting, gena, ssdpVars, type, description, listed, loopVars, req, early, ready, fault >>

-----------------------------------------------------------------------------
(* upnpd_upnp_uninit.                                                      *)

Uninit ==
  /\ main = "run"
  /\ main' = "byebye"
  /\ UNCHANGED << waiting, gena, ssdpVars, upnpVars, loopVars, heard, req, early, ready, fault >>

\* upnpd_upnp_ssdp_byebye; the thread is still running.
Byebye ==
  /\ main = "byebye" /\ smutex = None
  /\ \E told \in SUBSET (1 .. registered) : heard' = heard \ told
  /\ main' = "stop"
  /\ UNCHANGED << waiting, gena, ssdpVars, upnpVars, loopVars, req, early, ready, fault >>

\* upnpd_upnp_ssdp_uninit: running = 0, and ssdp->mutex is kept.
Stop ==
  /\ main = "stop" /\ smutex = None
  /\ smutex' = Owner
  /\ flags' = [flags EXCEPT !.running = FALSE]
  /\ main' = "awaitstopped"
  /\ UNCHANGED << waiting, gena, registered, freed, upnpVars, loopVars, heard, req, early, ready, fault >>

\* MUTANT: the thread is told to stop, and not waited for.
AwaitStopped_Not ==
  /\ main = "awaitstopped" /\ smutex = Owner
  /\ main' = "free"
  /\ UNCHANGED << waiting, gena, ssdpVars, upnpVars, loopVars, heard, req, early, ready, fault >>

AwaitStopped ==
  /\ main = "awaitstopped" /\ smutex = Owner
  /\ IF flags.stopped
       THEN main' = "join" /\ UNCHANGED << waiting, smutex >>
       ELSE Sleep /\ UNCHANGED main
  /\ UNCHANGED << gena, flags, registered, freed, upnpVars, loopVars, heard, req, early, ready, fault >>

Join ==
  /\ main = "join" /\ loop = "exited"
  /\ main' = "free"
  /\ UNCHANGED << waiting, gena, ssdpVars, upnpVars, loopVars, heard, req, early, ready, fault >>

FreeSsdp ==
  /\ main = "free"
  /\ freed' = TRUE
  /\ registered' = 0
  /\ smutex' = None
  /\ main' = "stopgena"
  /\ UNCHANGED << waiting, gena, flags, upnpVars, loopVars, heard, req, early, ready, fault >>

\* upnpd_upnp_gena_uninit accepts nothing more and waits for every request.
StopGena ==
  /\ main = "stopgena"
  /\ \A r \in Requests : req[r].at \in {"idle", "served", "missing"}
  /\ gena' = "down"
  /\ main' = "freeupnp"
  /\ UNCHANGED << waiting, ssdpVars, upnpVars, loopVars, heard, req, early, ready, fault >>

\* The services and the description of a stack that got as far as its type: a
\* description that was refused is freed again.
FreeUpnp ==
  /\ main = "freeupnp"
  /\ fault' = IF type /\ description = "freed" THEN "refused" ELSE fault
  /\ listed' = {}
  /\ description' = IF type THEN "freed" ELSE description
  /\ main' = "off"
  /\ UNCHANGED << waiting, gena, ssdpVars, umutex, type, loopVars, heard, req, early, ready >>

-----------------------------------------------------------------------------
(* ssdp_thread_loop.                                                       *)

\* started and running are set under ssdp->mutex, and signalled without it.
LoopStart ==
  /\ loop = "start" /\ smutex = None
  /\ flags' = [flags EXCEPT !.started = TRUE, !.running = TRUE]
  /\ loop' = "signal"
  /\ UNCHANGED << ownerVars, gena, smutex, registered, freed, upnpVars, inbox, heard, req, early, ready, fault >>

\* The loop, or the way out if it gets no memory for its buffer.
LoopSignal ==
  /\ loop = "signal"
  /\ Signal
  /\ loop' \in {"top", "out"}
  /\ UNCHANGED << main, gena, ssdpVars, upnpVars, inbox, heard, req, early, ready, fault >>

\* ssdp->mutex and what it guards are used, or used after they were freed.
Take ==
  IF freed THEN fault' = "freed" /\ UNCHANGED smutex
           ELSE smutex = None /\ smutex' = Loop /\ UNCHANGED fault

LoopLock ==
  /\ loop = "top"
  /\ Take
  /\ loop' = "advertise"
  /\ UNCHANGED << ownerVars, gena, flags, registered, freed, upnpVars, inbox, heard, req, early, ready >>

\* The entries that are due are announced, and only then running is tested.
LoopAdvertise ==
  /\ loop = "advertise"
  /\ Hear(1 .. registered)
  /\ smutex' = None
  /\ loop' = IF flags.running THEN "poll" ELSE "out"
  /\ UNCHANGED << ownerVars, gena, flags, registered, freed, upnpVars, inbox, req, early, ready, fault >>

\* MUTANT: a thread whose poll fails returns as it is.
PollFails_Returns ==
  /\ loop = "poll"
  /\ loop' = "exited"
  /\ UNCHANGED << ownerVars, gena, ssdpVars, upnpVars, inbox, heard, req, early, ready, fault >>

\* Poll reports an error or a hangup: the loop is left, for good.
PollFails ==
  /\ loop = "poll"
  /\ loop' = "out"
  /\ UNCHANGED << ownerVars, gena, ssdpVars, upnpVars, inbox, heard, req, early, ready, fault >>

\* Poll times out, or reports a datagram on one of the sockets or both.
Poll ==
  /\ loop = "poll"
  /\ inbox' \in 0 .. 2
  /\ loop' = IF inbox' = 0 THEN "top" ELSE "receive"
  /\ UNCHANGED << ownerVars, gena, ssdpVars, upnpVars, heard, req, early, ready, fault >>

\* The next datagram is a search, a NOTIFY or answer of another device, or
\* nothing ssdp_parse accepts.
Receive ==
  /\ loop = "receive"
  /\ IF inbox = 0
       THEN loop' = "top" /\ UNCHANGED << inbox, early >>
       ELSE /\ inbox' = inbox - 1
            /\ early' = ~ready
            /\ loop' \in {"search", "notify", "receive"}
  /\ UNCHANGED << ownerVars, gena, ssdpVars, upnpVars, heard, req, ready, fault >>

SearchLock ==
  /\ loop = "search"
  /\ Take
  /\ loop' = "answer"
  /\ UNCHANGED << ownerVars, gena, flags, registered, freed, upnpVars, inbox, heard, req, early, ready >>

\* The entries whose NT the search names are sent to where it came from.
Answer ==
  /\ loop = "answer"
  /\ Hear(1 .. registered)
  /\ smutex' = None
  /\ loop' = "receive"
  /\ UNCHANGED << ownerVars, gena, flags, registered, freed, upnpVars, inbox, req, early, ready, fault >>

\* ssdp->mutex is taken and let go of again.
Touch ==
  IF freed THEN fault' = "freed" ELSE smutex = None /\ UNCHANGED fault

\* ssdp_request_handler lets go of the mutex for ssdp_callback_event, which
\* looks at the stack without one: it is for control points only ...
Dispatch ==
  /\ loop = "notify"
  /\ Touch
  /\ loop' = IF type THEN "relock" ELSE "call"
  /\ UNCHANGED << ownerVars, gena, ssdpVars, upnpVars, inbox, heard, req, early, ready >>

\* ... and its callback, which has its place in the union where a device has
\* its description: there is none, or what is called is no function.
Call ==
  /\ loop = "call"
  /\ fault' = IF description = "none" THEN fault ELSE IF early THEN "early" ELSE "unprovoked"
  /\ loop' = "relock"
  /\ UNCHANGED << ownerVars, gena, ssdpVars, upnpVars, inbox, heard, req, early, ready >>

Relock ==
  /\ loop = "relock"
  /\ Touch
  /\ loop' = "receive"
  /\ UNCHANGED << ownerVars, gena, ssdpVars, upnpVars, inbox, heard, req, early, ready >>

LoopOut ==
  /\ loop = "out" /\ (freed \/ smutex = None)
  /\ fault' = IF freed THEN "freed" ELSE fault
  /\ flags' = [flags EXCEPT !.stopped = TRUE, !.running = FALSE]
  /\ Signal
  /\ loop' = "exited"
  /\ UNCHANGED << main, gena, smutex, registered, freed, upnpVars, inbox, heard, req, early, ready >>

-----------------------------------------------------------------------------
(* The connection threads of the web server.                               *)

\* upnpd_device_uninit has device->mutex while it waits for the requests, and
\* a description that is refused gets there too.
DeviceHeld == main \in {"byebye", "stop", "awaitstopped", "join", "free", "stopgena", "freeupnp"}

\* A request for something the sender was told of, or for what it guesses or
\* remembers from a former run; its header may drip in for ever.
Arrive(r) ==
  /\ req[r].at = "idle" /\ gena = "up" /\ main # "stopgena"
  /\ \E resource \in Resources : \E at \in {IF resource = Description THEN "info" ELSE "lookup", "stalled"} :
       req' = [req EXCEPT ![r] =
         [at |-> at, for |-> resource,
          came |-> IF resource \in heard \/ (resource = Description /\ heard # {}) THEN "called"
                   ELSE IF ready THEN "late" ELSE "early"]]
  /\ UNCHANGED << ownerVars, gena, ssdpVars, upnpVars, loopVars, heard, early, ready, fault >>

Goto(r, point) == req' = [req EXCEPT ![r].at = point]

\* The answer is sent, to a peer that may never read it: gena_send does not
\* give up.
Reply(r, answer) == \E end \in {answer, "stalled"} : Goto(r, end)

\* What a request meets that dereferences what it should not.
Stumble(r) == fault' = IF req[r].came = "early" THEN "early" ELSE "unprovoked"

\* gena_callback_info and then gena_callback_open: the description is measured,
\* and copied, under upnp->mutex.  The copy is what is sent.
Describing(r) ==
  /\ req[r].at \in {"info", "open"} /\ ~umutex
  /\ IF req[r].at = "info" THEN Goto(r, "open") ELSE Reply(r, "served")
  /\ IF description = "live" THEN UNCHANGED fault ELSE Stumble(r)
  /\ UNCHANGED << ownerVars, gena, ssdpVars, upnpVars, loopVars, heard, early, ready >>

\* gena_callback_event: the service is looked for under upnp->mutex, in a list
\* that is set up with the type.
LookUp(r) ==
  /\ req[r].at = "lookup" /\ ~umutex
  /\ IF type THEN UNCHANGED fault ELSE Stumble(r)
  /\ IF req[r].for \in listed THEN Goto(r, "callback") ELSE Reply(r, "missing")
  /\ UNCHANGED << ownerVars, gena, ssdpVars, upnpVars, loopVars, heard, early, ready >>

\* The callback of the device reads the service without upnp->mutex, once it
\* has device->mutex.
Callback(r) ==
  /\ req[r].at = "callback" /\ ~DeviceHeld
  /\ fault' = IF req[r].for \in listed THEN fault ELSE "freed"
  /\ Reply(r, "served")
  /\ UNCHANGED << ownerVars, gena, ssdpVars, upnpVars, loopVars, heard, early, ready >>

-----------------------------------------------------------------------------
OwnerSteps ==
  \/ InitGena \/ InitSsdp \/ AwaitStarted
  \/ Register \/ SetType \/ Describe \/ Parse \/ AddService \/ Registered \/ AdvertiseLock
  \/ AwaitStopped \/ Join \/ FreeSsdp \/ StopGena \/ FreeUpnp
OwnerLocks == Wake \/ RegisterEntry \/ Advertise \/ Byebye \/ Stop
LoopSteps ==
  \/ LoopSignal \/ LoopAdvertise \/ Poll \/ Receive \/ Answer \/ Call
LoopLocks == LoopStart \/ LoopLock \/ SearchLock \/ Dispatch \/ Relock \/ LoopOut
RequestSteps(r) == Describing(r) \/ LookUp(r) \/ Callback(r)

\* Undefined behaviour is where the model ends.
Next ==
  /\ fault = "none"
  /\ \/ OwnerSteps \/ OwnerLocks \/ Uninit \/ SpuriousWakeup
     \/ LoopSteps \/ LoopLocks \/ PollFails
     \/ \E r \in Requests : Arrive(r) \/ RequestSteps(r)

(* Every thread is scheduled.  ssdp->mutex is free whenever the thread     *)
(* polls, and so whoever waits for it gets it in the end.  Nothing makes a *)
(* peer that holds the thread of a request let go of it.                   *)
Fairness ==
  /\ WF_vars(fault = "none" /\ OwnerSteps) /\ SF_vars(fault = "none" /\ OwnerLocks)
  /\ WF_vars(fault = "none" /\ LoopSteps) /\ SF_vars(fault = "none" /\ LoopLocks)
  /\ \A r \in Requests : WF_vars(fault = "none" /\ RequestSteps(r))

Spec == Init /\ [][Next]_vars
FairSpec == Spec /\ Fairness

-----------------------------------------------------------------------------
(* Properties.                                                             *)

TypeOK ==
  /\ main \in {"new", "sockets", "awaitstarted", "register", "type", "describe", "parse", "entry",
               "service", "advertise", "send", "run", "byebye", "stop", "awaitstopped", "join",
               "free", "stopgena", "freeupnp", "off"}
  /\ waiting \in BOOLEAN /\ umutex \in BOOLEAN /\ freed \in BOOLEAN
  /\ type \in BOOLEAN /\ early \in BOOLEAN /\ ready \in BOOLEAN
  /\ gena \in {"none", "up", "down"}
  /\ smutex \in {Owner, Loop, None}
  /\ flags \in [started : BOOLEAN, running : BOOLEAN, stopped : BOOLEAN]
  /\ registered \in 0 .. Count
  /\ description \in {"none", "live", "freed"}
  /\ listed \subseteq Services
  /\ loop \in {"none", "start", "signal", "top", "advertise", "poll", "receive", "search", "answer",
               "notify", "call", "relock", "out", "exited"}
  /\ inbox \in 0 .. 2
  /\ heard \subseteq Entries
  /\ req \in [Requests -> [at : {"idle", "info", "open", "lookup", "callback", "served", "missing", "stalled"},
                          for : Resources, came : {"called", "early", "late"}]]
  /\ fault \in {"none", "refused", "early", "unprovoked", "freed"}

(* Whoever asks for what the stack announced is served, although entries   *)
(* are announced and searches answered while the device is still being     *)
(* registered: upnp->mutex makes the request wait for the rest.            *)
AnnouncedIsServed == \A r \in Requests : req[r].came = "called" => req[r].at # "missing"

(* What comes once the device is registered, or because of what it has     *)
(* announced, meets no missing description, no list of services that is    *)
(* not set up, and no callback that is none.  What comes before may.       *)
SoundOnceRegistered == fault # "unprovoked"

(* Neither the SSDP thread nor a request uses what the shutdown has freed. *)
NoUseAfterFree == fault # "freed"

(* The shutdown returns, though the thread may have left its loop already  *)
(* and a datagram or a request may be in the middle of being handled: only *)
(* a request whose callback has yet to get device->mutex, or whose peer    *)
(* never finishes its header or never reads the answer, keeps it for ever. *)
UninitReturns ==
  main = "byebye" ~> main = "off" \/ fault # "none" \/ \E r \in Requests : req[r].at \in {"callback", "stalled"}

-----------------------------------------------------------------------------
(* The inductive invariant that StackProofs proves of every instance.      *)

\* What is served has been set up, and is not freed before the end.
SetUp == type /\ (description = "live" \/ main = "off")

\* upnp->mutex is held from the type to the last entry, and for the announcement.
MutexInv == umutex <=> main \in {"type", "describe", "parse", "entry", "service", "send"}

\* The SSDP thread is not there before it is created; what the shutdown waits
\* for is over: the thread when its memory is freed, and every request when
\* the services are.
OverInv ==
  /\ freed => main \in {"stopgena", "freeupnp", "off"}
  /\ main \in {"new", "sockets", "free", "stopgena", "freeupnp", "off"} => loop \in {"none", "exited"}
  /\ main \in {"freeupnp", "off"} =>
       gena = "down" /\ \A r \in Requests : req[r].at \in {"idle", "served", "missing"}

\* Nothing is announced, nor taken for registered, before it is set up, and
\* what came till then came early.
SetUpInv ==
  /\ main \in {"new", "sockets", "awaitstarted", "register", "type", "describe", "parse"} =>
       /\ registered = 0 /\ heard = {} /\ ~ready
       /\ \A r \in Requests : req[r].at = "idle" \/ req[r].came = "early"
  /\ main \in {"describe", "parse", "entry", "service"} => type
  /\ main \in {"parse", "entry", "service"} => description = "live"
  /\ registered > 0 \/ heard # {} \/ ready => SetUp

\* A service that is registered or announced can be found, but for the moment
\* between its registration and its place in the list.
ListedInv ==
  /\ main = "service" => registered \in Services
  /\ \A s \in Services :
       s <= registered \/ s \in heard => s \in listed \/ (main = "service" /\ s = registered) \/ main = "off"

\* A datagram that came when the device was registered meets its type.
DatagramInv ==
  /\ loop = "notify" /\ ~early => type
  /\ loop = "call" => early

\* A request that did not come early meets what is set up.
RequestInv ==
  \A r \in Requests :
    /\ req[r].at # "idle" /\ req[r].came # "early" => SetUp
    /\ req[r].at = "lookup" => req[r].for \in Services
    /\ req[r].at = "lookup" /\ req[r].came = "called" =>
         req[r].for \in listed \/ (main = "service" /\ req[r].for = registered)
    /\ req[r].at = "callback" => req[r].for \in listed

IInv ==
  /\ TypeOK /\ MutexInv /\ OverInv /\ SetUpInv /\ ListedInv /\ DatagramInv /\ RequestInv
  /\ AnnouncedIsServed /\ SoundOnceRegistered /\ NoUseAfterFree
=============================================================================
