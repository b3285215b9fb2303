------------------------------- MODULE Device -------------------------------
(***************************************************************************)
(* A UPnP device serving requests while it may be shut down: the event     *)
(* callbacks of upnpd/common/upnp/upnp.c, the handlers behind them in      *)
(* upnpd/common/device.c, and upnpd_device_uninit.                         *)
(*                                                                         *)
(* Every request runs in its own connection thread (module Gena) and takes *)
(* device->mutex, service->mutex and upnp->mutex in that order.  A         *)
(* critical section of upnp->mutex is two steps, the lock and the rest, so *)
(* that a section that forgets to leave is visible.  The device has one    *)
(* service: the mutexes of two services are never held together.           *)
(***************************************************************************)
EXTENDS Naturals, FiniteSets

CONSTANTS
  Subscribers, \* SUBSCRIBE requests; the SID each is given is the request itself
  Hasty,       \* subscribers that may unsubscribe before their initial event
  Unreachable, \* subscribers whose CALLBACK host refuses the connection
  Sluggish,    \* requests whose peer may hold its thread as long as it likes
  Droppers,    \* requests that name a SID: UNSUBSCRIBEs and renewals
  Actions,     \* SOAP action requests
  Files,       \* GET requests
  Owner,       \* the thread that calls upnpd_device_uninit
  None         \* no thread, and a SID nobody was given

Requests == Subscribers \cup Droppers \cup Actions \cup Files

ASSUME RequestsAssumption ==
  /\ Hasty \subseteq Subscribers
  /\ Unreachable \subseteq Subscribers
  /\ Sluggish \subseteq Requests
  /\ Subscribers \cap (Droppers \cup Actions \cup Files) = {}
  /\ Droppers \cap (Actions \cup Files) = {}
  /\ Actions \cap Files = {}
  /\ {Owner, None} \cap Requests = {}
  /\ Owner # None

VARIABLES
  main,     \* program point of upnpd_device_uninit
  services, \* device->services still lists the service
  dmutex,   \* who holds device->mutex
  smutex,   \* who holds service->mutex
  umutex,   \* who holds upnp->mutex
  pc,       \* program point of each request
  subs,     \* the subscribers list of the service
  heap,     \* allocation state of each upnp_subscribe_t
  answered, \* the subscriber has been sent its SID
  events,   \* NOTIFY messages the subscriber has been sent
  target    \* the SID an UNSUBSCRIBE or a renewal names

locks == << dmutex, smutex, umutex >>
subscriptions == << subs, heap, answered, events >>
vars == << main, services, dmutex, smutex, umutex, pc, subs, heap, answered, events, target >>

\* The points at which a request waits for upnp->mutex, and those inside it.
UpnpPoints == {"request", "accept", "find", "relock", "reopen", "copy"}
Inside == [request |-> "requested", accept |-> "accepting", find |-> "finding", relock |-> "relocked",
           reopen |-> "reopening", copy |-> "copying"]
InsidePoints == {"requested", "accepting", "finding", "relocked", "reopening", "copying"}
\* The points at which it holds device->mutex and service->mutex.
ServicePoints == {"perform", "find", "finding", "compose", "connect", "notify", "await", "dripping", "release"}
\* Those at which it waits for device->mutex, and those at which it holds no other.
DevicePoints == {"device", "opening"}
FilePoints == {"info", "open"}
Points == {"idle", "answer", "service", "read", "stalled", "done"} \cup DevicePoints \cup FilePoints
            \cup UpnpPoints \cup InsidePoints \cup ServicePoints

Init ==
  /\ main = "up" /\ services = TRUE
  /\ dmutex = None /\ smutex = None /\ umutex = None
  /\ pc = [r \in Requests |-> "idle"]
  /\ subs = {}
  /\ heap = [s \in Subscribers |-> "none"]
  /\ answered = [s \in Subscribers |-> FALSE]
  /\ events = [s \in Subscribers |-> 0]
  /\ target = [d \in Droppers |-> None]

Goto(r, point) == pc' = [pc EXCEPT ![r] = point]

\* Where the peer of r may hold its thread: at that point or nowhere.
Held(r, point) == IF r \in Sluggish THEN {point} ELSE {}

\* The answer goes out, a page or an error, and the connection is closed;
\* unless the peer does not read.  gena_send then polls again, for ever, and
\* never looks at gena->running: the peer holds the thread as long as it likes.
Reply(r) == \E end \in Held(r, "stalled") \cup {"done"} : Goto(r, end)

-----------------------------------------------------------------------------
(* Requests.                                                               *)

\* The SIDs a control point may name: a patient one waits for its initial
\* event before it unsubscribes.
Known == {s \in Subscribers : answered[s] /\ (s \in Hasty \/ events[s] > 0)}

\* gena_thread_loop accepts a request and reads its header.  gena_getline bounds
\* the time between two characters, but neither that of a line nor how many
\* there are: a peer can hold the thread here too.
Arrive(r) ==
  /\ pc[r] = "idle"
  /\ main \in {"up", "freed"}
  /\ \E point \in Held(r, "stalled") \cup {"request"} : Goto(r, point)
  /\ IF r \in Droppers
       THEN \E s \in Known \cup {None} : target' = [target EXCEPT ![r] = s]
       ELSE UNCHANGED target
  /\ UNCHANGED << main, services, dmutex, smutex, umutex, subs, heap, answered, events >>

LockUpnp(r) ==
  /\ pc[r] \in UpnpPoints
  /\ umutex = None
  /\ umutex' = r
  /\ Goto(r, Inside[pc[r]])
  /\ UNCHANGED << main, services, dmutex, smutex, subs, heap, answered, events, target >>

\* gena_callback_event_subscribe_request: a new subscriber, unless the
\* CALLBACK url does not parse.
Subscribe(r) ==
  /\ r \in Subscribers
  /\ pc[r] = "requested"
  /\ \/ /\ subs' = subs \cup {r}
        /\ heap' = [heap EXCEPT ![r] = "live"]
        /\ Goto(r, "answer")
     \/ Reply(r) /\ UNCHANGED << subs, heap >>
  /\ umutex' = None
  /\ UNCHANGED << main, services, dmutex, smutex, answered, events, target >>

\* MUTANT: the subscription is never accepted.
Answer_NoAccept(r) ==
  /\ pc[r] = "answer"
  /\ answered' = [answered EXCEPT ![r] = TRUE]
  /\ Goto(r, "done")
  /\ UNCHANGED << main, services, dmutex, smutex, umutex, subs, heap, events, target >>

\* gena_handler_subscribe sends the SID; only if all of it went out is the
\* subscription accepted.
Answer(r) ==
  /\ pc[r] = "answer"
  /\ \/ answered' = [answered EXCEPT ![r] = TRUE] /\ Goto(r, "accept")
     \/ Reply(r) /\ UNCHANGED answered
  /\ UNCHANGED << main, services, dmutex, smutex, umutex, subs, heap, events, target >>

\* MUTANT: the callback of the device runs inside upnp->mutex.
LookUp_KeepsLock(r) ==
  /\ \/ pc[r] \in {"accepting", "reopening"}
     \/ r \in Actions \cup Files /\ pc[r] = "requested"
  /\ Goto(r, IF pc[r] = "reopening" THEN "opening" ELSE "device")
  /\ UNCHANGED << main, services, dmutex, smutex, umutex, subs, heap, answered, events, target >>

\* gena_callback_event_subscribe_accept, gena_callback_event_action,
\* gena_callback_info and gena_callback_open find their service or path, and
\* leave upnp->mutex before they call the device.
LookUp(r) ==
  /\ \/ pc[r] \in {"accepting", "reopening"}
     \/ r \in Actions \cup Files /\ pc[r] = "requested"
  /\ umutex' = None
  /\ Goto(r, IF pc[r] = "reopening" THEN "opening" ELSE "device")
  /\ UNCHANGED << main, services, dmutex, smutex, subs, heap, answered, events, target >>

\* /description.xml never reaches the device: gena_callback_info has its
\* length, gena_callback_open a copy, both inside upnp->mutex.  All that is
\* left to do with a copy is to send it.
Describe(r) ==
  /\ r \in Files
  /\ pc[r] \in {"requested", "copying"}
  /\ umutex' = None
  /\ IF pc[r] = "requested" THEN Goto(r, "copy") ELSE Reply(r)
  /\ UNCHANGED << main, services, dmutex, smutex, subs, heap, answered, events, target >>

\* device_event_handler, device_vfsgetinfo or device_vfsopen, up to the search
\* for the service.
LockDevice(r) ==
  /\ pc[r] \in DevicePoints
  /\ dmutex = None
  /\ dmutex' = r
  /\ Goto(r, IF ~services THEN "release"
             ELSE IF r \in Files THEN (IF pc[r] = "device" THEN "info" ELSE "open") ELSE "service")
  /\ UNCHANGED << main, services, smutex, umutex, subs, heap, answered, events, target >>

LockService(r) ==
  /\ pc[r] = "service"
  /\ smutex = None
  /\ smutex' = r
  /\ Goto(r, IF r \in Actions THEN "perform" ELSE "find")
  /\ UNCHANGED << main, services, dmutex, umutex, subs, heap, answered, events, target >>

\* device_event_action_request: the function of the action.
Perform(r) ==
  /\ pc[r] = "perform"
  /\ Goto(r, "release")
  /\ UNCHANGED << main, services, locks, subscriptions, target >>

\* device_vfsgetinfo: a service or an icon has the path, or a service knows a
\* file of that name, or it is not found.
Info(r) ==
  /\ pc[r] = "info"
  /\ \/ Goto(r, "reopen")
     \/ Reply(r)
  /\ dmutex' = None
  /\ UNCHANGED << main, services, smutex, umutex, subs, heap, answered, events, target >>

\* device_vfsopen: a file that the service opens, or a copy of the service
\* description or the icon, or nothing, as the file is gone by now.
Open(r) ==
  /\ pc[r] = "open"
  /\ \/ Goto(r, "read")
     \/ Reply(r)
  /\ dmutex' = None
  /\ UNCHANGED << main, services, smutex, umutex, subs, heap, answered, events, target >>

\* While the file is sent device_vfsseek, device_vfsread and at last
\* device_vfsclose use file->service and take no mutex.
Close(r) ==
  /\ pc[r] = "read"
  /\ Reply(r)
  /\ UNCHANGED << main, services, locks, subscriptions, target >>

\* MUTANT: the way out when the subscriber is gone does not unlock.
Find_KeepsLock(r) ==
  /\ pc[r] = "finding"
  /\ IF r \in subs
       THEN Goto(r, "compose") /\ umutex' = None
       ELSE Goto(r, "release") /\ UNCHANGED umutex
  /\ UNCHANGED << main, services, dmutex, smutex, subs, heap, answered, events, target >>

\* upnpd_upnp_accept_subscription: the search for the subscriber, which ends
\* with upnp->mutex released either way.
Find(r) ==
  /\ pc[r] = "finding"
  /\ Goto(r, IF r \in subs THEN "compose" ELSE "release")
  /\ umutex' = None
  /\ UNCHANGED << main, services, dmutex, smutex, subs, heap, answered, events, target >>

\* It composes the header from the upnp_subscribe_t and counts the event.
Compose(r) ==
  /\ pc[r] = "compose"
  /\ Goto(r, "connect")
  /\ UNCHANGED << main, services, locks, subscriptions, target >>

\* upnpd_upnp_gena_send_recv, which is given the host of the upnp_subscribe_t.
Connect(r) ==
  /\ pc[r] = "connect"
  /\ Goto(r, IF r \in Unreachable THEN "release" ELSE "notify")
  /\ UNCHANGED << main, services, locks, subscriptions, target >>

Notify(r) ==
  /\ pc[r] = "notify"
  /\ events' = [events EXCEPT ![r] = @ + 1]
  /\ Goto(r, "await")
  /\ UNCHANGED << main, services, dmutex, smutex, umutex, subs, heap, answered, target >>

\* MUTANT: the event is sent again when no answer comes.
Await_Retries(r) ==
  /\ pc[r] = "await"
  /\ Goto(r, IF events[r] < 2 THEN "connect" ELSE "release")
  /\ UNCHANGED << main, services, locks, subscriptions, target >>

\* The answer of the subscriber or the timeout of a poll; but the lines of its
\* header may drip in for ever, with both mutexes held.
Await(r) ==
  /\ pc[r] = "await"
  /\ \E point \in Held(r, "dripping") \cup {"release"} : Goto(r, point)
  /\ UNCHANGED << main, services, locks, subscriptions, target >>

\* The unlocks of service->mutex and device->mutex.
Release(r) ==
  /\ pc[r] = "release"
  /\ smutex' = IF smutex = r THEN None ELSE smutex
  /\ dmutex' = None
  /\ IF r \in Files THEN Reply(r) ELSE Goto(r, "relock")
  /\ UNCHANGED << main, services, umutex, subs, heap, answered, events, target >>

\* The callbacks lock upnp->mutex again before they return.  A subscriber has
\* had its answer, an action gets it now.
Return(r) ==
  /\ pc[r] = "relocked"
  /\ umutex' = None
  /\ IF r \in Actions THEN Reply(r) ELSE Goto(r, "done")
  /\ UNCHANGED << main, services, dmutex, smutex, subs, heap, answered, events, target >>

\* gena_callback_event_subscribe_drop: the subscriber with that SID, if there
\* is one, is freed.
Drop(r) ==
  /\ r \in Droppers
  /\ pc[r] = "requested"
  /\ subs' = subs \ {target[r]}
  /\ heap' = [s \in Subscribers |-> IF s = target[r] /\ s \in subs THEN "freed" ELSE heap[s]]
  /\ target' = [target EXCEPT ![r] = None]
  /\ umutex' = None
  /\ Reply(r)
  /\ UNCHANGED << main, services, dmutex, smutex, answered, events >>

\* gena_callback_event_subscribe_renew: whether it finds the subscriber or
\* not, the answer is an error, and nothing has changed.
Renew(r) ==
  /\ r \in Droppers
  /\ pc[r] = "requested"
  /\ target' = [target EXCEPT ![r] = None]
  /\ umutex' = None
  /\ Reply(r)
  /\ UNCHANGED << main, services, dmutex, smutex, subs, heap, answered, events >>

Step(r) ==
  \/ LockUpnp(r) \/ Subscribe(r) \/ Answer(r) \/ LookUp(r) \/ Describe(r) \/ LockDevice(r)
  \/ LockService(r) \/ Perform(r) \/ Info(r) \/ Open(r) \/ Close(r) \/ Find(r) \/ Compose(r)
  \/ Connect(r) \/ Notify(r) \/ Await(r) \/ Release(r) \/ Return(r) \/ Drop(r) \/ Renew(r)

-----------------------------------------------------------------------------
(* upnpd_device_uninit.                                                    *)

\* MUTANT: device->mutex is not taken.
UninitServices_Unlocked ==
  /\ main = "up"
  /\ services' = FALSE
  /\ main' = "freed"
  /\ UNCHANGED << dmutex, smutex, umutex, pc, subs, heap, answered, events, target >>

\* The services are freed inside device->mutex, which is kept from here on;
\* upnpd_upnp_uninit then stops ssdp, while gena still accepts.
UninitServices ==
  /\ main = "up"
  /\ dmutex = None
  /\ dmutex' = Owner
  /\ services' = FALSE
  /\ main' = "freed"
  /\ UNCHANGED << smutex, umutex, pc, subs, heap, answered, events, target >>

\* upnpd_upnp_gena_uninit asks gena_loop to stop: nothing is accepted any more.
StopGena ==
  /\ main = "freed"
  /\ main' = "drain"
  /\ UNCHANGED << services, locks, pc, subscriptions, target >>

\* It returns when every connection thread has; upnpd_upnp_uninit frees the
\* subscribers and upnpd_device_uninit releases device->mutex.
UninitUpnp ==
  /\ main = "drain"
  /\ \A r \in Requests : pc[r] \in {"idle", "done"}
  /\ subs' = {}
  /\ heap' = [s \in Subscribers |-> IF s \in subs THEN "freed" ELSE heap[s]]
  /\ dmutex' = None
  /\ main' = "done"
  /\ UNCHANGED << services, smutex, umutex, pc, answered, events, target >>

Uninit == UninitServices \/ StopGena \/ UninitUpnp

-----------------------------------------------------------------------------

Next == Uninit \/ \E r \in Requests : Arrive(r) \/ Step(r)

\* A request that has arrived runs on unless its peer holds it, and so does an
\* uninit that has begun.  Nothing obliges a request to arrive, the owner to
\* shut down, or a peer that holds a thread ever to let go of it.
Fairness ==
  /\ \A r \in Requests : WF_vars(Step(r))
  /\ WF_vars(StopGena) /\ WF_vars(UninitUpnp)

Spec == Init /\ [][Next]_vars
FairSpec == Spec /\ Fairness

-----------------------------------------------------------------------------
(* Properties.                                                             *)

TypeOK ==
  /\ main \in {"up", "freed", "drain", "done"}
  /\ services \in BOOLEAN
  /\ dmutex \in Requests \cup {Owner, None}
  /\ smutex \in Requests \cup {None}
  /\ umutex \in Requests \cup {None}
  /\ pc \in [Requests -> Points]
  /\ subs \in SUBSET Subscribers
  /\ heap \in [Subscribers -> {"none", "live", "freed"}]
  /\ answered \in [Subscribers -> BOOLEAN]
  /\ events \in [Subscribers -> 0 .. 1] \* nothing but the initial event is ever sent
  /\ target \in [Droppers -> Subscribers \cup {None}]

(* upnpd_upnp_accept_subscription uses an upnp_subscribe_t after it has let *)
(* go of upnp->mutex.  It is still allocated, provided the control point   *)
(* waits for its initial event before it unsubscribes.                     *)
NoUseAfterFree ==
  \A s \in Subscribers \ Hasty : pc[s] \in {"compose", "connect"} => heap[s] = "live"

(* A service is not freed under a request that holds its mutex.  Under a   *)
(* file that is being read it may be, by a shutdown; but that read is over *)
(* when upnpd_device_uninit returns, and whoever owns the device frees it. *)
ServiceOutlivesUse ==
  /\ smutex # None => services
  /\ \A f \in Files : pc[f] = "read" => services \/ main \in {"freed", "drain"}

(* No subscriber is sent an event before it has been sent its SID.         *)
AnswerBeforeEvent == \A s \in Subscribers : events[s] > 0 => answered[s]

\* A subscriber takes for ever over the answer to its event, with the mutexes
\* of the service and of the device held.
Slow == \E s \in Subscribers : pc[s] = "dripping"

(* Whatever the interleaving of requests, each is served or held by its own *)
(* peer: the locks of the three layers are never waited for in a circle.    *)
(* A shutdown may strand a request, and so may a slow subscriber: all that  *)
(* need device->mutex wait for it.                                          *)
Served == \A r \in Requests : pc[r] = "request" ~> pc[r] \in {"stalled", "done"} \/ main # "up" \/ Slow

(* A subscriber is sent one initial event, after its SID and never twice,  *)
(* and it does get it, unless it cannot be reached, has unsubscribed,      *)
(* another subscriber is slow, or the device shuts down.                   *)
InitialEvent ==
  /\ [](\A s \in Subscribers : events[s] > 0 => answered[s] /\ events[s] = 1)
  /\ \A s \in Subscribers \ Unreachable :
       answered[s] ~> events[s] > 0 \/ s \notin subs \/ main # "up" \/ Slow

(* upnpd_device_uninit returns, unless a peer holds the thread of a         *)
(* request, or a request waits for the device->mutex that uninit holds      *)
(* while it waits for the requests.                                         *)
UninitReturns ==
  main = "freed" ~> main = "done" \/ \E r \in Requests : pc[r] \in DevicePoints \cup {"stalled"}

-----------------------------------------------------------------------------
(* The inductive invariant behind the safety properties.                   *)

\* Who holds which mutex, by program point.
LockInv ==
  /\ \A r \in Requests : pc[r] \in ServicePoints \cup FilePoints \cup {"service"} <=> dmutex = r
  /\ \A r \in Requests : smutex = r => pc[r] \in ServicePoints
  /\ \A r \in Requests : umutex = r <=> pc[r] \in InsidePoints
  /\ dmutex = Owner <=> main \in {"freed", "drain"}
  /\ services <=> main = "up"
  /\ \A r \in Requests : pc[r] \in FilePoints \cup {"service"} => services
  /\ main = "done" => \A r \in Requests : pc[r] \in {"idle", "done"}
  /\ \A r \in Requests \ Files :
       pc[r] \notin FilePoints \cup {"reopen", "reopening", "opening", "copy", "copying", "read"}

\* The life of a subscription, by the program point of its request.
SubscriptionInv ==
  \A s \in Subscribers :
    /\ pc[s] \in {"idle", "request", "requested"} => heap[s] = "none" /\ ~answered[s]
    /\ pc[s] = "answer" => ~answered[s]
    /\ answered[s] => pc[s] \notin {"idle", "request", "requested", "answer"}
    /\ pc[s] \notin {"idle", "request", "requested", "answer", "stalled", "done"} => answered[s]
    /\ s \in subs <=> heap[s] = "live"
    /\ pc[s] \in {"idle", "request", "requested", "answer", "accept", "accepting", "device", "service", "find", "finding",
                  "compose", "connect", "notify"} => events[s] = 0
    /\ events[s] > 0 => answered[s]
    /\ s \notin Hasty /\ pc[s] \in {"answer", "accept", "accepting", "device", "service", "find", "finding",
                                    "compose", "connect", "notify"} => heap[s] = "live"

\* An UNSUBSCRIBE of a patient control point names a SID whose event is out.
TargetInv == \A d \in Droppers : target[d] # None => target[d] \in Known

IInv == TypeOK /\ LockInv /\ SubscriptionInv /\ TargetInv
=============================================================================
