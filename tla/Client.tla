------------------------------- MODULE Client -------------------------------
(***************************************************************************)
(* The control point of upnpd/common/client.c: the owner that initialises, *)
(* uses and uninitialises it, its timer thread, and the ssdp thread of the *)
(* UPnP stack that delivers advertisements, around client->mutex and the   *)
(* list of devices.  Module Presence has the expire times; here a device   *)
(* may expire at any turn of the timer.                                    *)
(*                                                                         *)
(* The description behind an advertisement has one device that is not      *)
(* embedded, with its three texts and the advertised uuid.                 *)
(***************************************************************************)
EXTENDS Integers, FiniteSets, Description

CONSTANTS
  Devices,  \* the uuids that may be advertised
  Document, \* the description that each of them serves
  Hosts,    \* the addresses it takes, one after the other, as it is restarted
  Calls     \* how many actions or refreshes the owner asks for

\* What a description says of a device.  The code takes every text but the last
\* two of a service without a look whether it is there.
Text == Seq(STRING) \ {Null}
ServiceData == [type : Text, id : Text, control : Text, scpd : Seq(STRING), event : Seq(STRING)]
DeviceData == [type : Text, name : Seq(Nat) \ {Null}, udn : Seq(Devices), services : Seq(ServiceData)]

\* An address is a name or a number with a port, which a slash ends.
ASSUME ClientAssumption ==
  /\ \A d \in Devices :
       /\ Hosts[d] \in Seq(STRING \ {"/"})
       /\ Document[d] \in [urlbase : BOOLEAN, device : DeviceData, embedded : Seq(DeviceData)]
       /\ Document[d].device.udn = << d >>
  /\ Calls \in Nat

VARIABLES
  main,    \* program point of the owner
  calls,   \* the calls the owner has yet to make
  timer,   \* program point of client_timer
  ssdp,    \* program point of the callback that the ssdp thread runs
  cmutex,  \* who holds client->mutex
  running, \* client->running
  trunning,\* client->timer_running
  stack,   \* the UPnP stack, the static variable upnp of client.c
  list,    \* client->devices, in list order
  heap,    \* allocation state of the client_device_t of each uuid
  known,   \* its contents
  heard,   \* the type under which it was advertised when it was listed
  adv,     \* the advertisement being handled
  at,      \* which of its hosts each device is at
  used     \* the devices that upnpd_client_action is using

objects == << list, heap, known, heard >>
vars == << main, calls, timer, ssdp, cmutex, running, trunning, stack, objects, adv, at, used >>

Threads == {"main", "timer", "ssdp"}
MainPoints == {"init", "initwait", "initsleep", "refresh", "run", "action", "uninit",
               "stop", "stopwait", "stopsleep", "join", "done"}
TimerPoints == {"none", "start", "loop", "asleep", "woken", "return", "exited"}
SsdpPoints == {"none", "idle", "alive", "download", "byebye"}

\* controller_devices (upnpd/common/controller.c), and the services it names.
mediaserver_services == << << "ContentDirectory" >>, << "ConnectionManager" >>, << "AVTransport" >> >>
mediarenderer_services == << << "ConnectionManager" >>, << "AVTransport" >>, << "RenderingControl" >> >>
controller_devices ==
  << [device |-> "MediaServer", services |-> mediaserver_services],
     [device |-> "MediaRenderer", services |-> mediarenderer_services],
     [device |-> "upnp:rootdevice", services |-> mediaserver_services],
     [device |-> "upnp:rootdevice", services |-> mediarenderer_services] >>

\* The types under which a device is looked for, and the services looked for on
\* one that is advertised under a type: those of the first entry of the table.
Sought == {controller_devices[i].device : i \in DOMAIN controller_devices}
ServicesFor(type) == controller_devices[SelectInSeq(controller_devices, LAMBDA e : e.device = type)].services

NoDevice == [name |-> Null, uuid |-> Null, location |-> Null, services |-> << >>]
NoAdvertisement == [uuid |-> CHOOSE d \in Devices : TRUE, device |-> "", location |-> Null]

\* Where a device that is at its n-th host has its description.
Location(d, n) == << "http://", Hosts[d][n], "/", "description.xml" >>

\* A device is advertised under its type and as a root device.
Advertisements ==
  UNION {[uuid : {d}, device : {Document[d].device.type[1], "upnp:rootdevice"},
          location : {Location(d, n) : n \in DOMAIN Hosts[d]}] : d \in Devices}

\* What upnpd_upnp_download, upnpd_xml_parse_buffer_callback and the rest of
\* client_event_advertisement_alive make of an advertisement, while the device is
\* at that location.
Outcomes ==
  {[advertisement |-> a,
    device |-> LET served == DescriptionText(Document[a.uuid], a.location[2])
               IN DeviceFrom(ParsedDescription(served), a.location, ServicesFor(a.device))]
     : a \in {b \in Advertisements : b.device \in Sought}}

Init ==
  /\ main = "init" /\ calls = Calls
  /\ timer = "none" /\ ssdp = "none"
  /\ cmutex = "free" /\ running = FALSE /\ trunning = FALSE
  /\ stack = "none"
  /\ list = << >>
  /\ heap = [d \in Devices |-> "none"]
  /\ known = [d \in Devices |-> NoDevice] /\ heard = [d \in Devices |-> ""]
  /\ adv = NoAdvertisement /\ at = [d \in Devices |-> 1]
  /\ used = {}

-----------------------------------------------------------------------------
(* The list of devices.                                                    *)

Listed == {list[i] : i \in 1 .. Len(list)}

\* The list of these devices in the order of the present one.
InOrder(left) ==
  LET Precedes(d, e) == \E i, j \in 1 .. Len(list) : i < j /\ list[i] = d /\ list[j] = e
  IN {l \in [1 .. Cardinality(left) -> left] : \A i, j \in DOMAIN l : i < j => Precedes(l[i], l[j])}

Without(removed) ==
  /\ list' \in InOrder(Listed \ removed)
  /\ heap' = [d \in Devices |-> IF d \in removed THEN "freed" ELSE heap[d]]
  /\ known' = [d \in Devices |-> IF d \in removed THEN NoDevice ELSE known[d]]
  /\ heard' = [d \in Devices |-> IF d \in removed THEN "" ELSE heard[d]]

\* A new device goes before the first one whose name is greater.
Place(name) ==
  LET place == SelectInSeq(list, LAMBDA d : Greater(known[d].name, name))
  IN IF place = 0 THEN Len(list) + 1 ELSE place

\* A broadcast wakes the owner and the timer, whichever of them sleeps.
WakeMain == main' = CASE main = "initsleep" -> "initwait" [] main = "stopsleep" -> "stopwait" [] OTHER -> main
WakeTimer == timer' = IF timer = "asleep" THEN "woken" ELSE timer

-----------------------------------------------------------------------------
(* The owner.                                                              *)

\* upnpd_client_init: the stack comes up, and events with it, before the timer
\* is started.
InitStack ==
  /\ main = "init"
  /\ stack' = "live" /\ ssdp' = "idle"
  /\ running' = TRUE
  /\ timer' = "start"
  /\ main' = "initwait"
  /\ UNCHANGED << calls, cmutex, trunning, objects, adv, used, at >>

\* The wait for client->timer_running.
AwaitTimer ==
  /\ main = "initwait"
  /\ cmutex = "free"
  /\ main' = IF trunning THEN "refresh" ELSE "initsleep"
  /\ UNCHANGED << calls, timer, ssdp, cmutex, running, trunning, stack, objects, adv, used, at >>

\* upnpd_client_refresh(client, 1): forget every device and search for them.
Refresh ==
  /\ main = "refresh"
  /\ cmutex = "free"
  /\ Without(Devices)
  /\ main' = "run"
  /\ UNCHANGED << calls, timer, ssdp, cmutex, running, trunning, stack, adv, used, at >>

\* upnpd_client_refresh again, at the user's request.
RefreshAgain ==
  /\ main = "run" /\ calls > 0
  /\ calls' = calls - 1
  /\ main' = "refresh"
  /\ UNCHANGED << timer, ssdp, cmutex, running, trunning, stack, objects, adv, used, at >>

\* The first device of a name, if it has a service of the type.
Found(name, type) ==
  LET i == SelectInSeq(list, LAMBDA d : known[d].name = name)
  IN IF i # 0 /\ \E s \in Range(known[list[i]].services) : s.type = type THEN {list[i]} ELSE {}

Asked == {Document[d].device.name : d \in Devices} \X {<< "ContentDirectory" >>, << "RenderingControl" >>}

\* MUTANT: client->mutex is released before the action is sent.
Action_Unlocked ==
  /\ main = "run" /\ calls > 0
  /\ cmutex = "free"
  /\ calls' = calls - 1
  /\ \E question \in Asked : used' = Found(question[1], question[2])
  /\ main' = IF used' = {} THEN "run" ELSE "action"
  /\ UNCHANGED << timer, ssdp, cmutex, running, trunning, stack, objects, adv, at >>

\* upnpd_client_action finds the device and sends the action with the mutex
\* held, or finds no such device or service.
Action ==
  /\ main = "run" /\ calls > 0
  /\ cmutex = "free"
  /\ calls' = calls - 1
  /\ \E question \in Asked : used' = Found(question[1], question[2])
  /\ main' = IF used' = {} THEN "run" ELSE "action"
  /\ cmutex' = IF used' = {} THEN "free" ELSE "main"
  /\ UNCHANGED << timer, ssdp, running, trunning, stack, objects, adv, at >>

\* The answer to the action, whenever it ends, or a timeout.
Answered ==
  /\ main = "action"
  /\ used' = {}
  /\ cmutex' = IF cmutex = "main" THEN "free" ELSE cmutex
  /\ main' = "run"
  /\ UNCHANGED << calls, timer, ssdp, running, trunning, stack, objects, adv, at >>

Uninit ==
  /\ main = "run"
  /\ main' = "uninit"
  /\ UNCHANGED << calls, timer, ssdp, cmutex, running, trunning, stack, objects, adv, used, at >>

\* upnpd_upnp_uninit returns when the ssdp thread is out of its callback; it
\* comes before the timer is stopped.
UninitStack ==
  /\ main = "uninit"
  /\ ssdp = "idle"
  /\ ssdp' = "none"
  /\ stack' = "freed"
  /\ main' = "stop"
  /\ UNCHANGED << calls, timer, cmutex, running, trunning, objects, adv, used, at >>

\* MUTANT: the timer is woken without being told to stop.
StopTimer_Untold ==
  /\ main = "stop"
  /\ cmutex = "free"
  /\ WakeTimer
  /\ main' = "stopwait"
  /\ UNCHANGED << calls, ssdp, cmutex, running, trunning, stack, objects, adv, used, at >>

StopTimer ==
  /\ main = "stop"
  /\ cmutex = "free"
  /\ running' = FALSE
  /\ WakeTimer
  /\ main' = "stopwait"
  /\ UNCHANGED << calls, ssdp, cmutex, trunning, stack, objects, adv, used, at >>

\* The wait for client->timer_running to fall, which ends with the mutex held.
AwaitStopped ==
  /\ main = "stopwait"
  /\ cmutex = "free"
  /\ IF trunning THEN main' = "stopsleep" /\ UNCHANGED cmutex
                 ELSE main' = "join" /\ cmutex' = "main"
  /\ UNCHANGED << calls, timer, ssdp, running, trunning, stack, objects, adv, used, at >>

\* Join the timer, free the devices, destroy the mutex.
Join ==
  /\ main = "join"
  /\ timer = "exited"
  /\ Without(Devices)
  /\ cmutex' = "free"
  /\ main' = "done"
  /\ UNCHANGED << calls, timer, ssdp, running, trunning, stack, adv, used, at >>

Main ==
  \/ InitStack \/ AwaitTimer \/ Refresh \/ RefreshAgain \/ Action \/ Answered
  \/ Uninit \/ UninitStack \/ StopTimer \/ AwaitStopped \/ Join

-----------------------------------------------------------------------------
(* client_timer.                                                           *)

TimerStart ==
  /\ timer = "start"
  /\ cmutex = "free"
  /\ trunning' = TRUE
  /\ WakeMain
  /\ timer' = "loop"
  /\ UNCHANGED << calls, ssdp, cmutex, running, stack, objects, adv, used, at >>

\* The wait is entered without a look at client->running.
TimerSleep ==
  /\ timer = "loop"
  /\ cmutex = "free"
  /\ timer' = "asleep"
  /\ UNCHANGED << main, calls, ssdp, cmutex, running, trunning, stack, objects, adv, used, at >>

\* MUTANT: the wait has no timeout.
TimerTimeout_Never ==
  /\ FALSE
  /\ UNCHANGED vars

\* The timeout of the wait.
TimerTimeout ==
  /\ timer = "asleep"
  /\ timer' = "woken"
  /\ UNCHANGED << main, calls, ssdp, cmutex, running, trunning, stack, objects, adv, used, at >>

\* A turn of the timer: the expired devices are removed, or the thread leaves
\* and says so, if it has been stopped.
TimerTurn ==
  /\ timer = "woken"
  /\ cmutex = "free"
  /\ IF running
       THEN /\ \E expired \in SUBSET Listed : Without(expired)
            /\ timer' = "loop"
            /\ UNCHANGED << main, trunning >>
       ELSE /\ trunning' = FALSE
            /\ WakeMain
            /\ timer' = "return"
            /\ UNCHANGED objects
  /\ UNCHANGED << calls, ssdp, cmutex, running, stack, adv, used, at >>

TimerReturn ==
  /\ timer = "return"
  /\ timer' = "exited"
  /\ UNCHANGED << main, calls, ssdp, cmutex, running, trunning, stack, objects, adv, used, at >>

Timer == TimerStart \/ TimerSleep \/ TimerTimeout \/ TimerTurn \/ TimerReturn

-----------------------------------------------------------------------------
(* The ssdp thread.                                                        *)

\* A device is restarted, at another address, and says no byebye.
Restart(d) ==
  /\ at[d] < Len(Hosts[d])
  /\ at' = [at EXCEPT ![d] = @ + 1]
  /\ UNCHANGED << main, calls, timer, ssdp, cmutex, running, trunning, stack, objects, adv, used >>

\* An advertisement, or the answer to a search, arrives: under the type of the
\* device or as of a root device, from where the device is or was.
Advertised ==
  /\ ssdp = "idle"
  /\ adv' \in {a \in Advertisements : \E n \in 1 .. at[a.uuid] : a.location = Location(a.uuid, n)}
  /\ ssdp' \in {"alive", "byebye"}
  /\ UNCHANGED << main, calls, timer, cmutex, running, trunning, stack, objects, used, at >>

\* client_event_advertisement_alive: a device of another type is ignored, and a
\* known one is refreshed, no more, even if it has moved; the description of an
\* unknown one is downloaded, mutex held.
Alive ==
  /\ ssdp = "alive"
  /\ cmutex = "free"
  /\ IF adv.device \notin Sought \/ \E d \in Listed : known[d].uuid = << adv.uuid >>
       THEN ssdp' = "idle" /\ adv' = NoAdvertisement /\ UNCHANGED cmutex
       ELSE ssdp' = "download" /\ cmutex' = "ssdp" /\ UNCHANGED adv
  /\ UNCHANGED << main, calls, timer, running, trunning, stack, objects, used, at >>

\* The device is inserted, if its description can be had where it is said to be
\* and parsed; the subscription to its services does nothing.
Downloaded ==
  /\ ssdp = "download"
  /\ \/ /\ adv.location = Location(adv.uuid, at[adv.uuid])
        /\ \E o \in Outcomes :
             /\ o.advertisement = adv
             /\ list' = InsertAt(list, Place(o.device.name), adv.uuid)
             /\ known' = [known EXCEPT ![adv.uuid] = o.device]
        /\ heap' = [heap EXCEPT ![adv.uuid] = "live"]
        /\ heard' = [heard EXCEPT ![adv.uuid] = adv.device]
     \/ UNCHANGED objects
  /\ cmutex' = "free"
  /\ ssdp' = "idle" /\ adv' = NoAdvertisement
  /\ UNCHANGED << main, calls, timer, running, trunning, stack, used, at >>

\* client_event_advertisement_byebye, which ignores other types as well.
Byebye ==
  /\ ssdp = "byebye"
  /\ cmutex = "free"
  /\ Without({d \in Listed : adv.device \in Sought /\ known[d].uuid = << adv.uuid >>})
  /\ ssdp' = "idle" /\ adv' = NoAdvertisement
  /\ UNCHANGED << main, calls, timer, cmutex, running, trunning, stack, used, at >>

Ssdp == Alive \/ Downloaded \/ Byebye

-----------------------------------------------------------------------------

Next == Main \/ Timer \/ Advertised \/ Ssdp \/ \E d \in Devices : Restart(d)

\* Every thread runs on, but for a network exchange: a mutex that is free again
\* and again is got (strong fairness).  An exchange need not end: the times of
\* its waits are bounded, character by character, the length of the answer is
\* not.  Nothing obliges a device to advertise or the owner to call or to
\* uninitialise.
OwnerGoesOn == InitStack \/ AwaitTimer \/ Refresh \/ UninitStack \/ StopTimer \/ AwaitStopped \/ Join
SsdpGoesOn == Alive \/ Byebye
Fairness == SF_vars(OwnerGoesOn) /\ SF_vars(Timer) /\ SF_vars(SsdpGoesOn)

Spec == Init /\ [][Next]_vars
FairSpec == Spec /\ Fairness

-----------------------------------------------------------------------------
(* Properties.                                                             *)

ThreadsOK ==
  /\ main \in MainPoints /\ timer \in TimerPoints /\ ssdp \in SsdpPoints
  /\ cmutex \in {"free"} \cup Threads
  /\ running \in BOOLEAN /\ trunning \in BOOLEAN
  /\ stack \in {"none", "live", "freed"}

TypeOK ==
  /\ ThreadsOK
  /\ calls \in 0 .. Calls
  /\ list \in Seq(Devices)
  /\ heap \in [Devices -> {"none", "live", "freed"}]
  /\ adv.uuid \in Devices
  /\ at \in [Devices -> Nat]
  /\ used \in SUBSET Devices

(* The device that an action is sent to is not freed under it, by its      *)
(* expiry, its byebye or the end of the client.                            *)
DeviceOutlivesAction == \A d \in used : heap[d] = "live"

(* The search of the timer can meet a stack that is no more, but only      *)
(* before upnpd_client_uninit has cleared client->running: nothing else    *)
(* that uses the stack, and no later turn, comes after its end.            *)
StackUsedLive ==
  [][/\ TimerTurn /\ running /\ list' # << >> => stack = "live" \/ main = "stop"
     /\ Refresh \/ Alive \/ Downloaded => stack = "live"
     /\ main' = "action" => stack = "live"]_vars

(* A service of a device is described as the first one of its type.        *)
FirstOfType(d, i) ==
  LET services == Document[d].device.services
  IN \A j \in 1 .. i - 1 : services[j].type # services[i].type

\* The url of a path on a host: its leading slashes become one.
IsUrl(url, host, path) ==
  \E n \in 0 .. Len(path) :
    /\ (\A i \in 1 .. n : path[i] = "/") /\ (n < Len(path) => path[n + 1] # "/")
    /\ url = << host, "/" >> \o SubSeq(path, n + 1, Len(path))

\* What is known of a device that was heard under a type is what was described:
\* of the types looked for, the first service that has events.
AsDescribed(device, d, type) ==
  LET told == Document[d].device
      offered == {i \in 1 .. Len(told.services) :
                    /\ FirstOfType(d, i) /\ told.services[i].event # Null
                    /\ told.services[i].type \in Range(ServicesFor(type))}
  IN /\ device.uuid = << d >> /\ device.name = told.name
     /\ Len(device.services) = Cardinality(offered)
     /\ \A i \in offered : \E s \in Range(device.services) :
          /\ s.type = told.services[i].type /\ s.id = told.services[i].id
          /\ IsUrl(s.controlurl, device.location[2], told.services[i].control)
          /\ IsUrl(s.eventurl, device.location[2], told.services[i].event)

(* What the list knows of a device is what its description said, once and  *)
(* in the order of the names: of the types looked for, the first service   *)
(* described that has events, with its urls at the address of the          *)
(* advertisement or of URLBase, however the document mixes it with icons,  *)
(* embedded devices and white space.  The types are those of the           *)
(* advertisement that was heard first, so that a renderer heard as a root  *)
(* device is listed without its RenderingControl, and the address is that  *)
(* of the time, even if the device has moved since.                        *)
ListedAsDescribed ==
  /\ \A i, j \in 1 .. Len(list) : i < j => list[i] # list[j] /\ ~Greater(known[list[i]].name, known[list[j]].name)
  /\ \A d \in Listed : /\ AsDescribed(known[d], d, heard[d])
                        /\ \E n \in 1 .. at[d] : known[d].location = Location(d, n)

(* No thread of the client runs on when it has been uninitialised.         *)
NothingRunsOn == main = "done" => timer = "exited" /\ ssdp = "none" /\ cmutex = "free"

(* upnpd_client_uninit returns, unless the device whose description is     *)
(* being downloaded never ends its answer.  The broadcast of the uninit is *)
(* lost when the timer is between two waits; the timeout of the next wait  *)
(* makes up for it.                                                        *)
UninitReturns == (main = "uninit" ~> main = "done") \/ <>[](ssdp = "download")

-----------------------------------------------------------------------------
(* The inductive invariant.                                                *)

LockInv ==
  /\ cmutex = "main" <=> main \in {"action", "join"}
  /\ cmutex = "ssdp" <=> ssdp = "download"
  /\ cmutex # "timer"

LifeInv ==
  /\ stack = "none" <=> main = "init"
  /\ main \in {"stop", "stopwait", "stopsleep", "join", "done"} <=> stack = "freed"
  /\ ssdp = "none" <=> stack # "live"
  /\ timer = "none" <=> main = "init"
  /\ trunning <=> timer \in {"loop", "asleep", "woken"}
  /\ running <=> main \notin {"init", "stopwait", "stopsleep", "join", "done"}
  /\ timer \in {"return", "exited"} => main \in {"stopwait", "stopsleep", "join", "done"}
  /\ main \notin {"init", "initwait", "initsleep"} => timer # "start"
  /\ main \in {"join", "done"} => ~trunning
  /\ main = "done" => timer = "exited"

\* What is on the list or in use is live; it is in use only as long as an action
\* is being sent, and what is downloaded is the description of a device.
DevicesInv ==
  /\ list \in Seq(Devices) /\ used \subseteq Devices
  /\ heap \in [Devices -> {"none", "live", "freed"}]
  /\ \A d \in Listed \cup used : heap[d] = "live"
  /\ used # {} => main = "action"
  /\ ssdp \in {"alive", "download", "byebye"} => adv.uuid \in Devices

\* The part that says nothing of devices.
ControlInv == ThreadsOK /\ LockInv /\ LifeInv

IInv == ControlInv /\ DevicesInv

\* The ssdp thread handles an advertisement that can be had, and downloads the
\* description of a device that is looked for and not listed.
HandledInv ==
  /\ at \in [Devices -> Nat \ {0}]
  /\ DOMAIN known = Devices /\ DOMAIN heard = Devices
  /\ ssdp \in {"alive", "download", "byebye"} => adv \in Advertisements
  /\ ssdp = "download" => adv.device \in Sought /\ adv.uuid \notin Listed

ListInv == HandledInv /\ ListedAsDescribed
=============================================================================
