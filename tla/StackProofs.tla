----------------------------- MODULE StackProofs -----------------------------
(***************************************************************************)
(* Theorems about Stack for any device, any number of requests and any     *)
(* datagrams, and about Presence for all times that satisfy                *)
(* TimesAssumption, of which those of the code are one instance.           *)
(*                                                                         *)
(* In Stack no step needs to know who holds ssdp->mutex: what keeps the    *)
(* SSDP thread off freed memory is the join, and what keeps the requests   *)
(* off it is the wait for their threads.                                   *)
(***************************************************************************)
EXTENDS Stack, Presence, TLAPS

-----------------------------------------------------------------------------
(* Types.                                                                  *)

(* upnpd_upnp_init, and the two waits for the SSDP thread.                 *)
LEMMA StartTypes ==
  ASSUME TypeOK,
         InitGena \/ InitSsdp \/ AwaitStarted \/ AwaitStopped \/ Wake \/ SpuriousWakeup
  PROVE  TypeOK'
<1> USE StackAssumption DEF TypeOK, ownerVars, ssdpVars, upnpVars, loopVars, Hear, Sleep, Signal, Take, Touch, Entries
<1>1. CASE InitGena
  BY <1>1 DEF InitGena
<1>2. CASE InitSsdp
  BY <1>2 DEF InitSsdp
<1>3. CASE AwaitStarted
  <2>1. waiting' \in BOOLEAN
    BY <1>3 DEF AwaitStarted
  <2>2. QED
    BY <1>3, <2>1 DEF AwaitStarted
<1>4. CASE AwaitStopped
  <2>1. waiting' \in BOOLEAN
    BY <1>4 DEF AwaitStopped
  <2>2. QED
    BY <1>4, <2>1 DEF AwaitStopped
<1>5. CASE Wake
  BY <1>5 DEF Wake
<1>6. CASE SpuriousWakeup
  <2>1. waiting' \in BOOLEAN
    BY <1>6 DEF SpuriousWakeup
  <2>2. QED
    BY <1>6, <2>1 DEF SpuriousWakeup
<1>7. QED
  BY <1>1, <1>2, <1>3, <1>4, <1>5, <1>6

(* upnpd_upnp_register_device and upnpd_upnp_advertise.                    *)
LEMMA RegisterTypes ==
  ASSUME TypeOK, main = "service" => registered \in Services,
         Register \/ SetType \/ Describe \/ Parse \/ RegisterEntry \/ AddService
      \/ Registered \/ AdvertiseLock \/ Advertise
  PROVE  TypeOK'
<1> USE StackAssumption DEF TypeOK, ownerVars, ssdpVars, upnpVars, loopVars, Hear, Sleep, Signal, Take, Touch, Entries
<1>1. CASE Register
  BY <1>1 DEF Register
<1>2. CASE SetType
  BY <1>2 DEF SetType
<1>3. CASE Describe
  BY <1>3 DEF Describe
<1>4. CASE Parse
  <2>1. umutex' \in BOOLEAN
    BY <1>4 DEF Parse
  <2>2. QED
    BY <1>4, <2>1 DEF Parse
<1>5. CASE RegisterEntry
  BY <1>5 DEF RegisterEntry
<1>6. CASE AddService
  BY <1>6 DEF AddService
<1>7. CASE Registered
  <2>1. umutex' \in BOOLEAN /\ ready' \in BOOLEAN
    BY <1>7 DEF Registered
  <2>2. QED
    BY <1>7, <2>1 DEF Registered
<1>8. CASE AdvertiseLock
  BY <1>8 DEF AdvertiseLock
<1>9. CASE Advertise
  <2>1. umutex' \in BOOLEAN
    BY <1>9 DEF Advertise
  <2>2. QED
    BY <1>9, <2>1 DEF Advertise
<1>10. QED
  BY <1>1, <1>2, <1>3, <1>4, <1>5, <1>6, <1>7, <1>8, <1>9

(* upnpd_upnp_uninit.                                                      *)
LEMMA UninitTypes ==
  ASSUME TypeOK,
         Uninit \/ Byebye \/ Stop \/ Join \/ FreeSsdp \/ StopGena \/ FreeUpnp
  PROVE  TypeOK'
<1> USE StackAssumption DEF TypeOK, ownerVars, ssdpVars, upnpVars, loopVars, Hear, Sleep, Signal, Take, Touch, Entries
<1>1. CASE Uninit
  BY <1>1 DEF Uninit
<1>2. CASE Byebye
  BY <1>2 DEF Byebye
<1>3. CASE Stop
  <2>1. flags' \in [started : BOOLEAN, running : BOOLEAN, stopped : BOOLEAN]
    BY <1>3 DEF Stop
  <2>2. QED
    BY <1>3, <2>1 DEF Stop
<1>4. CASE Join
  BY <1>4 DEF Join
<1>5. CASE FreeSsdp
  BY <1>5 DEF FreeSsdp
<1>6. CASE StopGena
  BY <1>6 DEF StopGena
<1>7. CASE FreeUpnp
  BY <1>7 DEF FreeUpnp
<1>8. QED
  BY <1>1, <1>2, <1>3, <1>4, <1>5, <1>6, <1>7

(* The SSDP thread.                                                        *)
LEMMA LoopTypes ==
  ASSUME TypeOK,
         LoopStart \/ LoopSignal \/ LoopLock \/ LoopAdvertise \/ Poll \/ PollFails
      \/ Receive \/ SearchLock \/ Answer \/ Dispatch \/ Call \/ Relock \/ LoopOut
  PROVE  TypeOK'
<1> USE StackAssumption DEF TypeOK, ownerVars, ssdpVars, upnpVars, loopVars, Hear, Sleep, Signal, Take, Touch, Entries
<1>1. CASE LoopStart
  <2>1. flags' \in [started : BOOLEAN, running : BOOLEAN, stopped : BOOLEAN]
    BY <1>1 DEF LoopStart
  <2>2. QED
    BY <1>1, <2>1 DEF LoopStart
<1>2. CASE LoopSignal
  <2>1. waiting' \in BOOLEAN
    BY <1>2 DEF LoopSignal
  <2>2. QED
    BY <1>2, <2>1 DEF LoopSignal
<1>3. CASE LoopLock
  BY <1>3 DEF LoopLock
<1>4. CASE LoopAdvertise
  BY <1>4 DEF LoopAdvertise
<1>5. CASE Poll
  BY <1>5 DEF Poll
<1>6. CASE PollFails
  BY <1>6 DEF PollFails
<1>7. CASE Receive
  <2>1. early' \in BOOLEAN
    BY <1>7 DEF Receive
  <2>2. QED
    BY <1>7, <2>1 DEF Receive
<1>8. CASE SearchLock
  BY <1>8 DEF SearchLock
<1>9. CASE Answer
  BY <1>9 DEF Answer
<1>10. CASE Dispatch
  BY <1>10 DEF Dispatch
<1>11. CASE Call
  BY <1>11 DEF Call
<1>12. CASE Relock
  BY <1>12 DEF Relock
<1>13. CASE LoopOut
  <2>1. waiting' \in BOOLEAN /\ flags' \in [started : BOOLEAN, running : BOOLEAN, stopped : BOOLEAN]
    BY <1>13 DEF LoopOut
  <2>2. QED
    BY <1>13, <2>1 DEF LoopOut
<1>14. QED
  BY <1>1, <1>2, <1>3, <1>4, <1>5, <1>6, <1>7, <1>8, <1>9, <1>10, <1>11, <1>12, <1>13

(* A request.                                                              *)
LEMMA RequestTypes == ASSUME TypeOK, NEW r \in Requests, Arrive(r) \/ RequestSteps(r) PROVE TypeOK'
<1> USE StackAssumption DEF TypeOK, ownerVars, ssdpVars, upnpVars, loopVars, Goto, Reply, Stumble
<1>1. CASE Arrive(r)
  BY <1>1 DEF Arrive
<1>2. CASE Describing(r)
  BY <1>2 DEF Describing
<1>3. CASE LookUp(r)
  BY <1>3 DEF LookUp
<1>4. CASE Callback(r)
  BY <1>4 DEF Callback
<1>5. QED
  BY <1>1, <1>2, <1>3, <1>4 DEF RequestSteps

-----------------------------------------------------------------------------
(* The rest of the invariant.                                              *)

Rest ==
  /\ MutexInv /\ OverInv /\ SetUpInv /\ ListedInv /\ DatagramInv /\ RequestInv
  /\ AnnouncedIsServed /\ SoundOnceRegistered /\ NoUseAfterFree

(* upnpd_upnp_init, and the two waits for the SSDP thread.                 *)
LEMMA StartKeeps ==
  ASSUME IInv,
         \/ InitGena \/ InitSsdp \/ AwaitStarted \/ AwaitStopped \/ Wake
         \/ SpuriousWakeup
  PROVE  Rest'
<1> USE StackAssumption DEF IInv, Rest, MutexInv, OverInv, SetUpInv, SetUp, ListedInv, DatagramInv, RequestInv,
        AnnouncedIsServed, SoundOnceRegistered, NoUseAfterFree,
        ownerVars, ssdpVars, upnpVars, loopVars, Sleep, Signal
<1>0. /\ registered \in Nat /\ listed \subseteq Services /\ heard \subseteq Entries
      /\ \A s \in Services : s \in Nat /\ s > 0
  BY DEF TypeOK, Entries
<1>1. CASE InitGena
  BY <1>0, <1>1 DEF InitGena
<1>2. CASE InitSsdp
  <2>1. /\ main = "sockets"
        /\ UNCHANGED << waiting, gena, flags, registered, freed, upnpVars, inbox, heard, req, early, ready, fault >>
    BY <1>2 DEF InitSsdp
  <2>2. CASE main' = "stopgena" /\ UNCHANGED << smutex, loop >>
    BY <1>0, <2>1, <2>2
  <2>3. CASE main' = "awaitstarted" /\ smutex' = Owner /\ loop' = "start"
    BY <1>0, <2>1, <2>3
  <2>4. QED
    BY <1>2, <2>2, <2>3 DEF InitSsdp
<1>3. CASE AwaitStarted
  BY <1>0, <1>3 DEF AwaitStarted
<1>4. CASE AwaitStopped
  BY <1>0, <1>4 DEF AwaitStopped
<1>5. CASE Wake
  BY <1>0, <1>5 DEF Wake
<1>6. CASE SpuriousWakeup
  BY <1>0, <1>6 DEF SpuriousWakeup
<1>7. QED
  BY <1>1, <1>2, <1>3, <1>4, <1>5, <1>6

(* upnpd_upnp_register_device and upnpd_upnp_advertise.                    *)
LEMMA RegisterKeeps ==
  ASSUME IInv,
         \/ Register \/ SetType \/ Describe \/ Parse \/ RegisterEntry \/ AddService
         \/ Registered \/ AdvertiseLock \/ Advertise
  PROVE  Rest'
<1> USE StackAssumption DEF IInv, Rest, MutexInv, OverInv, SetUpInv, SetUp, ListedInv, DatagramInv, RequestInv,
        AnnouncedIsServed, SoundOnceRegistered, NoUseAfterFree,
        ownerVars, ssdpVars, upnpVars, loopVars, Hear
<1>0. /\ registered \in Nat /\ listed \subseteq Services /\ heard \subseteq Entries
      /\ \A s \in Services : s \in Nat /\ s > 0
  BY DEF TypeOK, Entries
<1>1. CASE Register
  BY <1>0, <1>1 DEF Register
<1>2. CASE SetType
  BY <1>0, <1>2 DEF SetType
<1>3. CASE Describe
  BY <1>0, <1>3 DEF Describe
<1>4. CASE Parse
  <2>1. /\ main = "parse"
        /\ UNCHANGED << waiting, gena, ssdpVars, type, listed, loopVars, heard, req, early, ready, fault >>
    BY <1>4 DEF Parse
  <2>2. CASE main' = "entry" /\ UNCHANGED << umutex, description >>
    BY <1>0, <2>1, <2>2
  <2>3. CASE main' = "byebye" /\ umutex' = FALSE /\ description' = "freed"
    <3>1. MutexInv' /\ OverInv' /\ DatagramInv'
      BY <1>0, <2>1, <2>3
    <3>2. SetUpInv'
      BY <1>0, <2>1, <2>3
    <3>3. ListedInv'
      BY <1>0, <2>1, <2>3
    <3>4. RequestInv'
      <4>1. \A x \in Requests : req[x].at = "idle" \/ req[x].came = "early"
        BY <2>1
      <4>2. QED
        BY <1>0, <2>1, <2>3, <4>1
    <3>5. QED
      BY <2>1, <2>3, <3>1, <3>2, <3>3, <3>4
  <2>4. QED
    BY <1>4, <2>2, <2>3 DEF Parse
<1>5. CASE RegisterEntry
  <2>1. MutexInv' /\ OverInv' /\ DatagramInv'
    BY <1>0, <1>5 DEF RegisterEntry
  <2>2. SetUpInv'
    BY <1>0, <1>5 DEF RegisterEntry
  <2>3. ListedInv'
    BY <1>0, <1>5 DEF RegisterEntry
  <2>4. RequestInv'
    BY <1>0, <1>5 DEF RegisterEntry
  <2>5. AnnouncedIsServed' /\ SoundOnceRegistered' /\ NoUseAfterFree'
    BY <1>0, <1>5 DEF RegisterEntry
  <2>6. QED
    BY <2>1, <2>2, <2>3, <2>4, <2>5
<1>6. CASE AddService
  BY <1>0, <1>6 DEF AddService
<1>7. CASE Registered
  BY <1>0, <1>7 DEF Registered
<1>8. CASE AdvertiseLock
  BY <1>0, <1>8 DEF AdvertiseLock
<1>9. CASE Advertise
  <2>0. \A x \in heard' : x \in heard \/ x \in 1 .. registered
    BY <1>0, <1>9 DEF Advertise
  <2>1. MutexInv' /\ OverInv' /\ DatagramInv'
    BY <1>0, <2>0, <1>9 DEF Advertise
  <2>2. SetUpInv'
    BY <1>0, <2>0, <1>9 DEF Advertise
  <2>3. ListedInv'
    BY <1>0, <2>0, <1>9 DEF Advertise
  <2>4. RequestInv'
    BY <1>0, <2>0, <1>9 DEF Advertise
  <2>5. AnnouncedIsServed' /\ SoundOnceRegistered' /\ NoUseAfterFree'
    BY <1>0, <2>0, <1>9 DEF Advertise
  <2>6. QED
    BY <2>1, <2>2, <2>3, <2>4, <2>5
<1>10. QED
  BY <1>1, <1>2, <1>3, <1>4, <1>5, <1>6, <1>7, <1>8, <1>9

(* upnpd_upnp_uninit.                                                      *)
LEMMA UninitKeeps ==
  ASSUME IInv,
         \/ Uninit \/ Byebye \/ Stop \/ Join \/ FreeSsdp \/ StopGena \/ FreeUpnp
  PROVE  Rest'
<1> USE StackAssumption DEF IInv, Rest, MutexInv, OverInv, SetUpInv, SetUp, ListedInv, DatagramInv, RequestInv,
        AnnouncedIsServed, SoundOnceRegistered, NoUseAfterFree,
        ownerVars, ssdpVars, upnpVars, loopVars
<1>0. /\ registered \in Nat /\ listed \subseteq Services /\ heard \subseteq Entries
      /\ \A s \in Services : s \in Nat /\ s > 0
  BY DEF TypeOK, Entries
<1>1. CASE Uninit
  BY <1>0, <1>1 DEF Uninit
<1>2. CASE Byebye
  BY <1>0, <1>2 DEF Byebye
<1>3. CASE Stop
  BY <1>0, <1>3 DEF Stop
<1>4. CASE Join
  BY <1>0, <1>4 DEF Join
<1>5. CASE FreeSsdp
  <2>1. MutexInv' /\ OverInv' /\ DatagramInv'
    BY <1>0, <1>5 DEF FreeSsdp
  <2>2. SetUpInv'
    BY <1>0, <1>5 DEF FreeSsdp
  <2>3. ListedInv'
    BY <1>0, <1>5 DEF FreeSsdp
  <2>4. RequestInv'
    BY <1>0, <1>5 DEF FreeSsdp
  <2>5. AnnouncedIsServed' /\ SoundOnceRegistered' /\ NoUseAfterFree'
    BY <1>0, <1>5 DEF FreeSsdp
  <2>6. QED
    BY <2>1, <2>2, <2>3, <2>4, <2>5
<1>6. CASE StopGena
  BY <1>0, <1>6 DEF StopGena
<1>7. CASE FreeUpnp
  BY <1>0, <1>7 DEF FreeUpnp
<1>8. QED
  BY <1>1, <1>2, <1>3, <1>4, <1>5, <1>6, <1>7

(* The SSDP thread, which has steps only while nothing of it is freed.     *)
LEMMA LoopKeeps ==
  ASSUME IInv,
         \/ LoopStart \/ LoopSignal \/ LoopLock \/ LoopAdvertise \/ Poll \/ PollFails
         \/ Receive \/ SearchLock \/ Answer \/ Dispatch \/ Call \/ Relock \/ LoopOut
  PROVE  Rest'
<1> USE StackAssumption DEF IInv, Rest, MutexInv, OverInv, SetUpInv, SetUp, ListedInv, DatagramInv, RequestInv,
        AnnouncedIsServed, SoundOnceRegistered, NoUseAfterFree,
        ownerVars, ssdpVars, upnpVars, loopVars, Hear, Signal, Take, Touch
<1>0. /\ registered \in Nat /\ listed \subseteq Services /\ heard \subseteq Entries
      /\ \A s \in Services : s \in Nat /\ s > 0
  BY DEF TypeOK, Entries
<1>1. CASE LoopStart
  BY <1>0, <1>1 DEF LoopStart
<1>2. CASE LoopSignal
  BY <1>0, <1>2 DEF LoopSignal
<1>3. CASE LoopLock
  BY <1>0, <1>3 DEF LoopLock
<1>4. CASE LoopAdvertise
  <2>0. \A x \in heard' : x \in heard \/ x \in 1 .. registered
    BY <1>0, <1>4 DEF LoopAdvertise
  <2>1. MutexInv' /\ OverInv' /\ DatagramInv'
    BY <1>0, <2>0, <1>4 DEF LoopAdvertise
  <2>2. SetUpInv'
    BY <1>0, <2>0, <1>4 DEF LoopAdvertise
  <2>3. ListedInv'
    BY <1>0, <2>0, <1>4 DEF LoopAdvertise
  <2>4. RequestInv'
    BY <1>0, <2>0, <1>4 DEF LoopAdvertise
  <2>5. AnnouncedIsServed' /\ SoundOnceRegistered' /\ NoUseAfterFree'
    BY <1>0, <2>0, <1>4 DEF LoopAdvertise
  <2>6. QED
    BY <2>1, <2>2, <2>3, <2>4, <2>5
<1>5. CASE Poll
  BY <1>0, <1>5 DEF Poll
<1>6. CASE PollFails
  BY <1>0, <1>6 DEF PollFails
<1>7. CASE Receive
  BY <1>0, <1>7 DEF Receive
<1>8. CASE SearchLock
  BY <1>0, <1>8 DEF SearchLock
<1>9. CASE Answer
  <2>0. \A x \in heard' : x \in heard \/ x \in 1 .. registered
    BY <1>0, <1>9 DEF Answer
  <2>1. MutexInv' /\ OverInv' /\ DatagramInv'
    BY <1>0, <2>0, <1>9 DEF Answer
  <2>2. SetUpInv'
    BY <1>0, <2>0, <1>9 DEF Answer
  <2>3. ListedInv'
    BY <1>0, <2>0, <1>9 DEF Answer
  <2>4. RequestInv'
    BY <1>0, <2>0, <1>9 DEF Answer
  <2>5. AnnouncedIsServed' /\ SoundOnceRegistered' /\ NoUseAfterFree'
    BY <1>0, <2>0, <1>9 DEF Answer
  <2>6. QED
    BY <2>1, <2>2, <2>3, <2>4, <2>5
<1>10. CASE Dispatch
  <2>1. MutexInv' /\ OverInv' /\ DatagramInv'
    BY <1>0, <1>10 DEF Dispatch
  <2>2. SetUpInv'
    BY <1>0, <1>10 DEF Dispatch
  <2>3. ListedInv'
    BY <1>0, <1>10 DEF Dispatch
  <2>4. RequestInv'
    BY <1>0, <1>10 DEF Dispatch
  <2>5. AnnouncedIsServed' /\ SoundOnceRegistered' /\ NoUseAfterFree'
    BY <1>0, <1>10 DEF Dispatch
  <2>6. QED
    BY <2>1, <2>2, <2>3, <2>4, <2>5
<1>11. CASE Call
  BY <1>0, <1>11 DEF Call
<1>12. CASE Relock
  <2>1. MutexInv' /\ OverInv' /\ DatagramInv'
    BY <1>0, <1>12 DEF Relock
  <2>2. SetUpInv'
    BY <1>0, <1>12 DEF Relock
  <2>3. ListedInv'
    BY <1>0, <1>12 DEF Relock
  <2>4. RequestInv'
    BY <1>0, <1>12 DEF Relock
  <2>5. AnnouncedIsServed' /\ SoundOnceRegistered' /\ NoUseAfterFree'
    BY <1>0, <1>12 DEF Relock
  <2>6. QED
    BY <2>1, <2>2, <2>3, <2>4, <2>5
<1>13. CASE LoopOut
  BY <1>0, <1>13 DEF LoopOut
<1>14. QED
  BY <1>1, <1>2, <1>3, <1>4, <1>5, <1>6, <1>7, <1>8, <1>9, <1>10, <1>11, <1>12, <1>13

(* A request.                                                              *)
LEMMA RequestKeeps == ASSUME IInv, NEW r \in Requests, Arrive(r) \/ RequestSteps(r) PROVE Rest'
<1> USE StackAssumption DEF IInv, Rest, MutexInv, OverInv, SetUpInv, SetUp, ListedInv, DatagramInv, RequestInv,
        AnnouncedIsServed, SoundOnceRegistered, NoUseAfterFree,
        ownerVars, ssdpVars, upnpVars, loopVars, Goto, Reply, Stumble
<1>0. /\ heard \subseteq Entries
      /\ req = [x \in Requests |-> req[x]] /\ \A x \in Requests : req[x].for \in Resources
  BY DEF TypeOK
<1>1. CASE Arrive(r)
  <2>1. /\ UNCHANGED << ownerVars, gena, ssdpVars, upnpVars, loopVars, heard, early, ready, fault >>
        /\ req[r].at = "idle" /\ gena = "up"
    BY <1>1 DEF Arrive
  <2>2. PICK resource \in Resources : \E at \in {IF resource = Description THEN "info" ELSE "lookup", "stalled"} :
          req' = [req EXCEPT ![r] =
            [at |-> at, for |-> resource,
             came |-> IF resource \in heard \/ (resource = Description /\ heard # {}) THEN "called"
                      ELSE IF ready THEN "late" ELSE "early"]]
    BY <1>1 DEF Arrive
  <2>3. /\ req'[r].at \in {IF resource = Description THEN "info" ELSE "lookup", "stalled"}
        /\ req'[r].for = resource
        /\ req'[r].came = "called" => heard # {} /\ (resource # Description => resource \in heard)
        /\ req'[r].came = "late" => ready
        /\ req'[r].came \in {"called", "late", "early"}
        /\ \A x \in Requests \ {r} : req'[x] = req[x]
    BY <1>0, <2>2
  <2>4. MutexInv' /\ DatagramInv' /\ ListedInv'
    BY <2>1
  <2>5. OverInv' /\ SetUpInv'
    BY <2>1, <2>3
  <2>6. RequestInv'
    <3> SUFFICES ASSUME NEW x \in Requests
                 PROVE  /\ req'[x].at # "idle" /\ req'[x].came # "early" => SetUp
                        /\ req'[x].at = "lookup" => req'[x].for \in Services
                        /\ req'[x].at = "lookup" /\ req'[x].came = "called" =>
                             req'[x].for \in listed \/ (main = "service" /\ req'[x].for = registered)
                        /\ req'[x].at = "callback" => req'[x].for \in listed
      BY <2>1
    <3>1. CASE x = r
      BY <2>1, <2>3, <3>1 DEF Resources
    <3>2. CASE x # r
      BY <2>3, <3>2
    <3>3. QED
      BY <3>1, <3>2
  <2>7. AnnouncedIsServed' /\ SoundOnceRegistered' /\ NoUseAfterFree'
    BY <2>1, <2>3
  <2>8. QED
    BY <2>4, <2>5, <2>6, <2>7
<1>2. CASE Describing(r)
  <2>1. /\ UNCHANGED << ownerVars, gena, ssdpVars, upnpVars, loopVars, heard, early, ready >>
        /\ req[r].at \in {"info", "open"} /\ ~umutex
    BY <1>2 DEF Describing
  <2>2. PICK at \in {"open", "served", "stalled"} : req' = [req EXCEPT ![r].at = at]
    BY <1>2 DEF Describing
  <2>3. /\ req'[r].at = at /\ req'[r].for = req[r].for /\ req'[r].came = req[r].came
        /\ \A x \in Requests \ {r} : req'[x] = req[x]
    <3>1. req'[r] = [req[r] EXCEPT !.at = at] /\ \A x \in Requests \ {r} : req'[x] = req[x]
      BY <1>0, <2>2
    <3>2. req[r] \in [at : {"idle", "info", "open", "lookup", "callback", "served", "missing", "stalled"},
                      for : Resources, came : {"called", "early", "late"}]
      BY DEF TypeOK
    <3>3. QED
      BY <3>1, <3>2
  <2>4. req[r].came = "early" \/ description = "live" \/ main = "off"
    BY <2>1
  <2>5. main # "off"
    BY <2>1
  <2>6. fault' = fault \/ fault' = "early"
    BY <1>2, <2>4, <2>5 DEF Describing
  <2>7. MutexInv' /\ OverInv' /\ DatagramInv' /\ SetUpInv' /\ ListedInv'
    BY <2>1, <2>3
  <2>8. RequestInv'
    BY <2>1, <2>3
  <2>9. AnnouncedIsServed' /\ SoundOnceRegistered' /\ NoUseAfterFree'
    BY <2>3, <2>6
  <2>10. QED
    BY <2>7, <2>8, <2>9
<1>3. CASE LookUp(r)
  <2>1. /\ UNCHANGED << ownerVars, gena, ssdpVars, upnpVars, loopVars, heard, early, ready >>
        /\ req[r].at = "lookup" /\ ~umutex
    BY <1>3 DEF LookUp
  <2>2. PICK at \in {"callback", "missing", "stalled"} :
          /\ req' = [req EXCEPT ![r].at = at]
          /\ at = "callback" => req[r].for \in listed
          /\ at = "missing" => req[r].for \notin listed
    BY <1>3 DEF LookUp
  <2>3. /\ req'[r].at = at /\ req'[r].for = req[r].for /\ req'[r].came = req[r].came
        /\ \A x \in Requests \ {r} : req'[x] = req[x]
    <3>1. req'[r] = [req[r] EXCEPT !.at = at] /\ \A x \in Requests \ {r} : req'[x] = req[x]
      BY <1>0, <2>2
    <3>2. req[r] \in [at : {"idle", "info", "open", "lookup", "callback", "served", "missing", "stalled"},
                      for : Resources, came : {"called", "early", "late"}]
      BY DEF TypeOK
    <3>3. QED
      BY <3>1, <3>2
  <2>4. req[r].came = "early" \/ type
    BY <2>1
  <2>5. fault' = fault \/ fault' = "early"
    BY <1>3, <2>4 DEF LookUp
  <2>6. MutexInv' /\ OverInv' /\ DatagramInv' /\ SetUpInv' /\ ListedInv'
    BY <2>1, <2>3
  <2>7. RequestInv'
    BY <2>1, <2>2, <2>3
  <2>8. req[r].came = "called" => at # "missing"
    BY <2>1, <2>2
  <2>9. AnnouncedIsServed' /\ SoundOnceRegistered' /\ NoUseAfterFree'
    BY <2>3, <2>5, <2>8
  <2>10. QED
    BY <2>6, <2>7, <2>9
<1>4. CASE Callback(r)
  BY <1>0, <1>4 DEF Callback
<1>5. QED
  BY <1>1, <1>2, <1>3, <1>4 DEF RequestSteps

-----------------------------------------------------------------------------

(* The invariant holds before upnpd_upnp_init.                             *)
LEMMA InitIInv == Init => IInv
<1> SUFFICES ASSUME Init PROVE IInv
  OBVIOUS
<1>1. TypeOK
  <2>1. req \in [Requests -> [at : {"idle", "info", "open", "lookup", "callback", "served", "missing", "stalled"},
                             for : Resources, came : {"called", "early", "late"}]]
    BY DEF Init, Resources
  <2>2. /\ waiting \in BOOLEAN /\ umutex \in BOOLEAN /\ freed \in BOOLEAN
        /\ type \in BOOLEAN /\ early \in BOOLEAN /\ ready \in BOOLEAN
        /\ flags \in [started : BOOLEAN, running : BOOLEAN, stopped : BOOLEAN]
    BY DEF Init
  <2>3. QED
    BY <2>1, <2>2, StackAssumption DEF Init, TypeOK
<1>2. Rest
  BY StackAssumption DEF Init, Rest, MutexInv, OverInv, SetUpInv, SetUp, ListedInv, DatagramInv, RequestInv, Entries,
     AnnouncedIsServed, SoundOnceRegistered, NoUseAfterFree
<1>3. QED
  BY <1>1, <1>2 DEF IInv, Rest

(* IInv is inductive, hence holds in every reachable state.                *)
THEOREM Invariance == Spec => []IInv
<1>1. IInv /\ [Next]_vars => IInv'
  <2> SUFFICES ASSUME IInv, [Next]_vars PROVE IInv'
    OBVIOUS
  <2>1. CASE Next
    <3>1. TypeOK'
      BY <2>1, StartTypes, RegisterTypes, UninitTypes, LoopTypes, RequestTypes
      DEF Next, OwnerSteps, OwnerLocks, LoopSteps, LoopLocks, IInv, ListedInv
    <3>2. Rest'
      BY <2>1, StartKeeps, RegisterKeeps, UninitKeeps, LoopKeeps, RequestKeeps
      DEF Next, OwnerSteps, OwnerLocks, LoopSteps, LoopLocks
    <3>3. QED
      BY <3>1, <3>2 DEF IInv, Rest
  <2>2. CASE UNCHANGED vars
    BY <2>2 DEF vars, IInv, TypeOK, MutexInv, OverInv, SetUpInv, SetUp, ListedInv, DatagramInv, RequestInv,
                AnnouncedIsServed, SoundOnceRegistered, NoUseAfterFree
  <2>3. QED
    BY <2>1, <2>2
<1>2. QED
  BY InitIInv, <1>1, PTL DEF Spec

(* Whoever asks for a service that was announced finds it, even when the   *)
(* rest of the device is still being registered.                           *)
THEOREM AnnouncedIsServedThm == Spec => []AnnouncedIsServed
<1>1. IInv => AnnouncedIsServed
  BY DEF IInv
<1>2. QED
  BY <1>1, Invariance, PTL

(* Nothing that comes once the device is registered, or because of what it *)
(* has announced, meets what is not set up.                                *)
THEOREM SoundOnceRegisteredThm == Spec => []SoundOnceRegistered
<1>1. IInv => SoundOnceRegistered
  BY DEF IInv
<1>2. QED
  BY <1>1, Invariance, PTL

(* Neither the SSDP thread nor a request uses what the shutdown has freed. *)
THEOREM NoUseAfterFreeThm == Spec => []NoUseAfterFree
<1>1. IInv => NoUseAfterFree
  BY DEF IInv
<1>2. QED
  BY <1>1, Invariance, PTL

-----------------------------------------------------------------------------
(* Presence.                                                               *)

(* Half of the age is a number below it.                                   *)
LEMMA HalfAgeBounds == HalfAge \in Nat /\ HalfAge <= Age
  BY TimesAssumption DEF HalfAge

(* The turns of the timer are all different, and none is below zero.       *)
LEMMA TurnsDiffer == Stamp \in Nat /\ 0 < Stamp /\ Turns \subseteq Nat
  BY TimesAssumption DEF Turns

(* The invariant holds before the device is first started.                 *)
LEMMA InitPresenceInv == PresenceInit => PresenceInv
<1> USE TimesAssumption, HalfAgeBounds DEF PresenceInit
<1>1. ASSUME PresenceInit PROVE PresenceTypeOK
  <2>1. server = "down" /\ interval \in HalfAge .. Age /\ counted \in 0 .. Round /\ spent \in 0 .. Busy
    BY <1>1
  <2>2. net \in SUBSET Messages /\ lag \in 0 .. Lag /\ lost \in 0 .. MaxLost
    BY <1>1
  <2>3. present \in BOOLEAN /\ met \in BOOLEAN
    BY <1>1
  <2>4. expiretime = 0 /\ timer \in 0 .. Stamp + Late /\ downtime \in 0 .. Horizon
    BY <1>1
  <2>5. QED
    BY <2>1, <2>2, <2>3, <2>4 DEF PresenceTypeOK
<1>2. ASSUME PresenceInit PROVE TurnsInv /\ DownInv /\ UpInv
  BY <1>2 DEF TurnsInv, DownInv, UpInv
<1>3. QED
  BY <1>1, <1>2 DEF PresenceInv

(* A step Start keeps the invariant.                                       *)
LEMMA StartKeepsPresence == ASSUME PresenceInv, Start PROVE PresenceInv'
<1> USE TimesAssumption DEF PresenceInv, Turns, Messages, Start
<1>1. PresenceTypeOK'
  <2>1. server' = "up" /\ interval' \in HalfAge .. Age /\ counted' \in 0 .. Round /\ spent' \in 0 .. Busy
    BY HalfAgeBounds
  <2>2. net' \in SUBSET Messages /\ downtime' \in 0 .. Horizon
    BY DEF PresenceTypeOK
  <2>3. met' \in BOOLEAN
    OBVIOUS
  <2>4. UNCHANGED << lag, lost, present, expiretime, timer >>
    OBVIOUS
  <2>5. QED
    BY <2>1, <2>2, <2>3, <2>4 DEF PresenceTypeOK
<1>2. TurnsInv'
  BY DEF PresenceTypeOK, TurnsInv
<1>3. DownInv'
  BY DEF PresenceTypeOK, TurnsInv, DownInv
<1>4. UpInv'
  BY DEF PresenceTypeOK, TurnsInv, UpInv, SinceAlive
<1>5. QED
  BY <1>1, <1>2, <1>3, <1>4

(* A step Iterate keeps the invariant.                                     *)
LEMMA IterateKeeps == ASSUME PresenceInv, Iterate PROVE PresenceInv'
<1> USE TimesAssumption DEF PresenceInv, Turns, Messages, Iterate
<1>1. PresenceTypeOK'
  <2>1. interval \in Int /\ counted \in Int /\ interval - counted <= Age
    BY DEF PresenceTypeOK
  <2>2. interval' \in HalfAge .. Age
    <3>1. CASE interval - counted < HalfAge \/ interval - counted > Age
      BY <3>1, HalfAgeBounds
    <3>2. CASE ~(interval - counted < HalfAge \/ interval - counted > Age)
      BY <3>2, <2>1, HalfAgeBounds
    <3>3. QED
      BY <3>1, <3>2
  <2>3. counted' \in 0 .. Round /\ spent' \in 0 .. Busy /\ net' \in SUBSET Messages
    <3>1. counted' = 0 /\ (spent' = 0 \/ spent' = spent) /\ (net' = net \/ net' = net \cup {"alive"})
      OBVIOUS
    <3>2. PresenceTypeOK
      OBVIOUS
    <3>3. counted' \in 0 .. Round
      BY <3>1, TimesAssumption
    <3>4. spent' \in 0 .. Busy
      BY <3>1, <3>2, TimesAssumption DEF PresenceTypeOK
    <3>5. net' \in SUBSET Messages
      BY <3>1, <3>2 DEF PresenceTypeOK, Messages
    <3>6. QED
      BY <3>3, <3>4, <3>5
  <2>4. UNCHANGED << server, lag, lost, present, expiretime, timer, met, downtime >>
    OBVIOUS
  <2>5. QED
    BY <2>2, <2>3, <2>4 DEF PresenceTypeOK
<1>2. TurnsInv'
  BY DEF PresenceTypeOK, TurnsInv
<1>3. DownInv'
  BY DEF PresenceTypeOK, TurnsInv, DownInv
<1>4. UpInv'
  BY DEF PresenceTypeOK, TurnsInv, UpInv, SinceAlive
<1>5. QED
  BY <1>1, <1>2, <1>3, <1>4

(* A step AnswerSearch keeps the invariant.                                *)
LEMMA AnswerKeeps == ASSUME PresenceInv, AnswerSearch PROVE PresenceInv'
<1> USE TimesAssumption DEF PresenceInv, Turns, Messages, AnswerSearch
<1>1. PresenceTypeOK'
  BY DEF PresenceTypeOK, TurnsInv
<1>2. TurnsInv'
  BY DEF PresenceTypeOK, TurnsInv
<1>3. DownInv'
  BY DEF PresenceTypeOK, TurnsInv, DownInv
<1>4. UpInv'
  BY DEF PresenceTypeOK, TurnsInv, UpInv, SinceAlive
<1>5. QED
  BY <1>1, <1>2, <1>3, <1>4

(* A step Leave keeps the invariant.                                       *)
LEMMA LeaveKeeps == ASSUME PresenceInv, Leave PROVE PresenceInv'
<1> USE TimesAssumption DEF PresenceInv, Turns, Messages, Leave
<1>1. PresenceTypeOK'
  BY DEF PresenceTypeOK, TurnsInv
<1>2. TurnsInv'
  BY DEF PresenceTypeOK, TurnsInv
<1>3. DownInv'
  BY DEF PresenceTypeOK, TurnsInv, DownInv
<1>4. UpInv'
  BY DEF PresenceTypeOK, TurnsInv, UpInv, SinceAlive
<1>5. QED
  BY <1>1, <1>2, <1>3, <1>4

(* A step StopLoop keeps the invariant.                                    *)
LEMMA StopKeeps == ASSUME PresenceInv, StopLoop PROVE PresenceInv'
<1> USE TimesAssumption DEF PresenceInv, Turns, Messages, StopLoop
<1>1. PresenceTypeOK'
  BY DEF PresenceTypeOK, TurnsInv
<1>2. TurnsInv'
  BY DEF PresenceTypeOK, TurnsInv
<1>3. DownInv'
  BY DEF PresenceTypeOK, TurnsInv, DownInv
<1>4. UpInv'
  BY DEF PresenceTypeOK, TurnsInv, UpInv, SinceAlive
<1>5. QED
  BY <1>1, <1>2, <1>3, <1>4

(* A step Lose keeps the invariant.                                        *)
LEMMA LoseKeeps == ASSUME PresenceInv, \E m \in Messages : Lose(m) PROVE PresenceInv'
<1> USE TimesAssumption DEF PresenceInv, Turns, Messages, Lose
<1>1. PresenceTypeOK'
  BY DEF PresenceTypeOK, TurnsInv
<1>2. TurnsInv'
  BY DEF PresenceTypeOK, TurnsInv
<1>3. DownInv'
  BY DEF PresenceTypeOK, TurnsInv, DownInv
<1>4. UpInv'
  BY DEF PresenceTypeOK, TurnsInv, UpInv, SinceAlive
<1>5. QED
  BY <1>1, <1>2, <1>3, <1>4

(* A step HearAlive keeps the invariant.                                   *)
LEMMA HearAliveKeeps == ASSUME PresenceInv, \E m \in Messages : HearAlive(m) PROVE PresenceInv'
<1> USE TimesAssumption DEF PresenceInv, Turns, Messages, HearAlive
<1>1. PresenceTypeOK'
  <2>1. present' \in BOOLEAN /\ (expiretime' = expiretime \/ expiretime' = Expires)
    BY DEF PresenceTypeOK
  <2>2. net' \in SUBSET Messages /\ lost' = 0 /\ met' \in BOOLEAN
    BY DEF PresenceTypeOK
  <2>3. UNCHANGED << server, interval, counted, spent, lag, timer, downtime >>
    OBVIOUS
  <2>4. QED
    BY <2>1, <2>2, <2>3 DEF PresenceTypeOK
<1>2. TurnsInv'
  BY DEF PresenceTypeOK, TurnsInv
<1>3. DownInv'
  BY DEF PresenceTypeOK, TurnsInv, DownInv
<1>4. UpInv'
  <2>1. present' => expiretime' = Expires
    OBVIOUS
  <2>2. QED
    BY <2>1, TurnsDiffer DEF UpInv
<1>5. QED
  BY <1>1, <1>2, <1>3, <1>4

(* A step HearByebye keeps the invariant.                                  *)
LEMMA HearByebyeKeeps == ASSUME PresenceInv, HearByebye PROVE PresenceInv'
<1> USE TimesAssumption DEF PresenceInv, Turns, Messages, HearByebye
<1>1. PresenceTypeOK'
  BY DEF PresenceTypeOK, TurnsInv
<1>2. TurnsInv'
  BY DEF PresenceTypeOK, TurnsInv
<1>3. DownInv'
  BY DEF PresenceTypeOK, TurnsInv, DownInv
<1>4. UpInv'
  BY DEF PresenceTypeOK, TurnsInv, UpInv, SinceAlive
<1>5. QED
  BY <1>1, <1>2, <1>3, <1>4

(* A step TimerFires keeps the invariant.                                  *)
LEMMA TimerFiresKeeps == ASSUME PresenceInv, TimerFires PROVE PresenceInv'
<1> USE TimesAssumption DEF PresenceInv, Turns, Messages, TimerFires
<1>1. PresenceTypeOK'
  BY DEF PresenceTypeOK, TurnsInv
<1>2. TurnsInv'
  <2>1. present' => present /\ expiretime - Stamp >= 0 /\ expiretime' = expiretime - Stamp
    OBVIOUS
  <2>2. UNCHANGED << server, downtime >>
    OBVIOUS
  <2>3. QED
    BY <2>1, <2>2 DEF TurnsInv
<1>3. DownInv'
  BY DEF PresenceTypeOK, TurnsInv, DownInv
<1>4. UpInv'
  <2>1. present' => present /\ expiretime - Stamp >= 0 /\ expiretime' = expiretime - Stamp
    OBVIOUS
  <2>2. present' /\ expiretime' < Stamp => "search" \in net'
    <3>1. present' => expiretime \in Int
      BY TurnsDiffer DEF PresenceTypeOK, TurnsInv
    <3>2. QED
      BY <2>1, <3>1, TurnsDiffer
  <2>3. net \subseteq net' /\ net' \subseteq net \cup {"search"} /\ timer' = 0 /\ timer >= Stamp
    OBVIOUS
  <2>4. UNCHANGED << server, interval, counted, spent, lag, lost, met >>
    OBVIOUS
  <2>5. SinceAlive \in Int /\ SinceAlive' = SinceAlive /\ 0 <= SinceAlive /\ SinceAlive < 2 * Stamp
    <3>1. interval \in Int /\ HalfAge <= interval /\ interval <= Age
      BY HalfAgeBounds DEF PresenceTypeOK
    <3>2. counted \in Int /\ 0 <= counted /\ counted <= Round /\ spent \in Int /\ 0 <= spent /\ spent <= Busy
      BY DEF PresenceTypeOK
    <3>3. SinceAlive' = SinceAlive
      BY <2>4 DEF SinceAlive
    <3>4. QED
      BY <3>1, <3>2, <3>3, HalfAgeBounds DEF SinceAlive
  <2>6. SUFFICES ASSUME server' = "up", met', present' PROVE UpInv'
    BY DEF UpInv
  <2>7. server = "up" /\ met /\ present /\ expiretime \in Turns
    BY <2>1, <2>4, <2>6 DEF TurnsInv
  <2>8. CASE expiretime = Expires
    BY <2>1, <2>3, <2>4, <2>5, <2>6, <2>8, TurnsDiffer DEF UpInv
  <2>9. CASE expiretime = Expires - Stamp
    BY <2>1, <2>3, <2>4, <2>5, <2>6, <2>7, <2>9, TurnsDiffer DEF UpInv, PresenceTypeOK
  <2>10. CASE expiretime = Expires - 2 * Stamp
    BY <2>1, <2>2, <2>3, <2>4, <2>5, <2>6, <2>7, <2>10, TurnsDiffer DEF UpInv, PresenceTypeOK
  <2>11. CASE expiretime = Expires - 3 * Stamp
    BY <2>1, <2>6, <2>11, TurnsDiffer
  <2>12. QED
    BY <2>7, <2>8, <2>9, <2>10, <2>11
<1>5. QED
  BY <1>1, <1>2, <1>3, <1>4

(* A step Tick keeps the invariant.                                        *)
LEMMA TickKeeps == ASSUME PresenceInv, Tick PROVE PresenceInv'
<1> USE TimesAssumption DEF PresenceInv, Turns, Messages, Tick
<1>1. PresenceTypeOK'
  BY DEF PresenceTypeOK, TurnsInv
<1>2. TurnsInv'
  BY DEF PresenceTypeOK, TurnsInv
<1>3. DownInv'
  BY DEF PresenceTypeOK, TurnsInv, DownInv
<1>4. UpInv'
  BY DEF PresenceTypeOK, TurnsInv, UpInv, SinceAlive
<1>5. QED
  BY <1>1, <1>2, <1>3, <1>4

(* IInv is inductive, hence holds in every reachable state.                *)
THEOREM PresenceInvariance == PresenceSpec => []PresenceInv
<1>1. PresenceInv /\ [PresenceNext]_presence => PresenceInv'
  <2> SUFFICES ASSUME PresenceInv, [PresenceNext]_presence PROVE PresenceInv'
    OBVIOUS
  <2>1. CASE PresenceNext
    BY <2>1, StartKeepsPresence, IterateKeeps, AnswerKeeps, LeaveKeeps, StopKeeps, LoseKeeps,
       HearAliveKeeps, HearByebyeKeeps, TimerFiresKeeps, TickKeeps DEF PresenceNext
  <2>2. CASE UNCHANGED presence
    BY <2>2 DEF presence, PresenceInv, PresenceTypeOK, TurnsInv, DownInv, UpInv, SinceAlive
  <2>3. QED
    BY <2>1, <2>2
<1>2. QED
  BY InitPresenceInv, <1>1, PTL DEF PresenceSpec

(* Whatever the times, a device that has gone is forgotten in bounded time. *)
THEOREM ForgottenInTimeThm == PresenceSpec => []ForgottenInTime
<1>1. PresenceInv => ForgottenInTime
  BY TimesAssumption DEF PresenceInv, PresenceTypeOK, TurnsInv, DownInv, Turns, ForgottenInTime
<1>2. QED
  BY <1>1, PresenceInvariance, PTL

(* Whatever the times, the timer never removes a device that is up, was    *)
(* heard, and has no two messages in a row lost.                           *)
THEOREM NeverForgottenThm == PresenceSpec => NeverForgotten
<1> DEFINE Kept == server = "up" /\ met /\ present /\ ~present' => "byebye" \in net
<1>1. PresenceInv /\ [PresenceNext]_presence => [Kept]_presence
  <2> SUFFICES ASSUME PresenceInv, PresenceNext, server = "up", met, present, ~present' PROVE "byebye" \in net
    OBVIOUS
  <2> USE TimesAssumption DEF PresenceInv, PresenceTypeOK, TurnsInv, UpInv, Turns
  <2>1. CASE TimerFires
    <3>1. expiretime \in Turns /\ timer \in Nat /\ Stamp <= timer
      BY <2>1 DEF TimerFires
    <3>2. ~(expiretime - Stamp >= 0)
      BY <2>1, Zenon DEF TimerFires
    <3>3. expiretime = Expires - 3 * Stamp
      BY <3>1, <3>2, TurnsDiffer
    <3>4. timer <= lag
      BY <3>3, TurnsDiffer
    <3>5. QED
      BY <3>1, <3>4
  <2>2. CASE HearByebye
    BY <2>2 DEF HearByebye
  <2>3. CASE \E m \in Messages : HearAlive(m)
    BY <2>3 DEF HearAlive
  <2>4. CASE Start \/ Iterate \/ AnswerSearch \/ Leave \/ StopLoop \/ Tick \/ \E m \in Messages : Lose(m)
    BY <2>4 DEF Start, Iterate, AnswerSearch, Leave, StopLoop, Tick, Lose
  <2>5. QED
    BY <2>1, <2>2, <2>3, <2>4 DEF PresenceNext
<1>2. QED
  BY <1>1, PresenceInvariance, PTL DEF PresenceSpec, NeverForgotten
=============================================================================
