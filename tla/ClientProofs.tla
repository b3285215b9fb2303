---------------------------- MODULE ClientProofs ----------------------------
(***************************************************************************)
(* Theorems about the control point: its list of devices (Client) for any  *)
(* devices and any number of calls, and its listing of a directory         *)
(* (Browse) for any entries, titles, size of a page and number of changes  *)
(* of the directory.                                                       *)
(***************************************************************************)
EXTENDS Client, Browse, XmlProofs, SequenceTheorems, FiniteSetTheorems, WellFoundedInduction, TLAPS

-----------------------------------------------------------------------------
(* The client.                                                             *)

(* What is left of the list is in the order of before.                     *)
LEMMA WithoutIs ==
  ASSUME DevicesInv, NEW gone, Without(gone)
  PROVE  /\ list' \in Seq(Listed \ gone)
         /\ \A i, j \in 1 .. Len(list') : i < j => \E k, m \in 1 .. Len(list) : k < m /\ list[k] = list'[i] /\ list[m] = list'[j]
<1> DEFINE left == Listed \ gone
           Precedes(d, e) == \E k, m \in 1 .. Len(list) : k < m /\ list[k] = d /\ list[m] = e
<1>1. Listed \subseteq Devices /\ Len(list) \in Nat
  BY DEF DevicesInv, Listed
<1>2. IsFiniteSet(left)
  <2>1. IsFiniteSet(1 .. Len(list))
    BY <1>1, FS_Interval
  <2>2. IsFiniteSet(Listed)
    <3>1. list \in Surjection(1 .. Len(list), Listed)
      BY <1>1 DEF Surjection, Listed, DevicesInv
    <3>2. QED
      BY <2>1, <3>1, FS_Surjection
  <2>3. QED
    BY <2>2, FS_Subset
<1>3. Cardinality(left) \in Nat
  BY <1>2, FS_CardinalityType
<1>4. list' \in [1 .. Cardinality(left) -> left] /\ \A i, j \in DOMAIN list' : i < j => Precedes(list'[i], list'[j])
  <2>1. list' \in InOrder(left)
    BY Zenon DEF Without
  <2>2. InOrder(left) = {l \in [1 .. Cardinality(left) -> left] : \A i, j \in DOMAIN l : i < j => Precedes(l[i], l[j])}
    BY Zenon DEF InOrder
  <2>3. QED
    BY <2>1, <2>2, Zenon
<1>5. list' \in Seq(left) /\ Len(list') = Cardinality(left)
  BY <1>3, <1>4, FunctionIsSequence
<1>6. DOMAIN list' = 1 .. Len(list')
  BY <1>5
<1>7. ASSUME NEW i \in 1 .. Len(list'), NEW j \in 1 .. Len(list'), i < j PROVE Precedes(list'[i], list'[j])
  <2>1. i \in DOMAIN list' /\ j \in DOMAIN list'
    BY <1>6, <1>7
  <2>2. QED
    BY <1>4, <1>7, <2>1, Zenon
<1>8. QED
  BY <1>5, <1>7, Zenon

(* What is left of the list are devices that are live.                     *)
LEMMA WithoutKeeps ==
  ASSUME DevicesInv, NEW gone, Without(gone)
  PROVE  /\ list' \in Seq(Devices) /\ heap' \in [Devices -> {"none", "live", "freed"}]
         /\ \A d \in Listed' : heap'[d] = "live"
<1>1. Listed \subseteq Devices
  BY DEF DevicesInv, Listed
<1>2. list' \in Seq(Listed \ gone)
  BY WithoutIs
<1>3. list' \in Seq(Devices) /\ Listed' \subseteq Listed \ gone
  BY <1>1, <1>2 DEF Listed
<1>4. heap' = [d \in Devices |-> IF d \in gone THEN "freed" ELSE heap[d]]
  BY Zenon DEF Without
<1>5. QED
  BY <1>1, <1>3, <1>4 DEF DevicesInv

(* What a sequence is after an insertion.                                  *)
LEMMA InsertAtElements ==
  ASSUME NEW S, NEW s \in Seq(S), NEW e \in S, NEW p \in 1 .. Len(s) + 1
  PROVE  /\ InsertAt(s, p, e) \in Seq(S)
         /\ Len(InsertAt(s, p, e)) = Len(s) + 1
         /\ \A i \in 1 .. Len(s) + 1 :
              InsertAt(s, p, e)[i] = IF i < p THEN s[i] ELSE IF i = p THEN e ELSE s[i - 1]
<1> DEFINE a == SubSeq(s, 1, p - 1)
           b == a \o << e >>
           c == SubSeq(s, p, Len(s))
<1>1. a \in Seq(S) /\ Len(a) = p - 1 /\ \A i \in 1 .. p - 1 : a[i] = s[i]
  OBVIOUS
<1>2. c \in Seq(S) /\ Len(c) = Len(s) - p + 1 /\ \A i \in 1 .. Len(c) : c[i] = s[p + i - 1]
  OBVIOUS
<1> HIDE DEF a, c
<1>3. b \in Seq(S) /\ Len(b) = p /\ \A i \in 1 .. p : b[i] = IF i < p THEN s[i] ELSE e
  BY <1>1
<1>4. InsertAt(s, p, e) = b \o c
  BY DEF InsertAt, a, c
<1> HIDE DEF b
<1>5. Len(b \o c) = Len(s) + 1 /\ b \o c \in Seq(S)
  BY <1>2, <1>3
<1>6. \A i \in 1 .. Len(s) + 1 : (b \o c)[i] = IF i <= p THEN b[i] ELSE c[i - p]
  BY <1>2, <1>3
<1>7. \A i \in 1 .. Len(s) + 1 : (b \o c)[i] = IF i < p THEN s[i] ELSE IF i = p THEN e ELSE s[i - 1]
  <2> SUFFICES ASSUME NEW i \in 1 .. Len(s) + 1
               PROVE  (b \o c)[i] = IF i < p THEN s[i] ELSE IF i = p THEN e ELSE s[i - 1]
    OBVIOUS
  <2>1. Len(s) \in Nat /\ p \in Nat /\ i \in Nat
    OBVIOUS
  <2>2. CASE i <= p
    BY <2>2, <1>3, <1>6
  <2>3. CASE ~(i <= p)
    <3>1. i - p \in 1 .. Len(c) /\ p + (i - p) - 1 = i - 1
      BY <2>1, <2>3, <1>2
    <3>2. (b \o c)[i] = c[i - p]
      BY <2>1, <2>3, <1>6
    <3>3. c[i - p] = s[i - 1]
      BY <3>1, <1>2
    <3>4. QED
      BY <2>3, <3>2, <3>3
  <2>4. QED
    BY <2>1, <2>2, <2>3
<1>8. QED
  BY <1>4, <1>5, <1>7

(* A name has a place among those that are listed.                         *)
LEMMA PlaceIs ==
  ASSUME list \in Seq(Devices), NEW name
  PROVE  /\ Place(name) \in 1 .. Len(list) + 1
         /\ \A i \in 1 .. Len(list) : i < Place(name) => ~Greater(known[list[i]].name, name)
         /\ Place(name) <= Len(list) => Greater(known[list[Place(name)]].name, name)
<1> DEFINE Later == {i \in 1 .. Len(list) : Greater(known[list[i]].name, name)}
<1>1. Len(list) \in Nat
  OBVIOUS
<1>2. Place(name) = LET place == IF Later # {} THEN Min(Later) ELSE 0 IN IF place = 0 THEN Len(list) + 1 ELSE place
  BY Zenon DEF Place, SelectInSeq
<1>3. \A i : i \in Later <=> i \in 1 .. Len(list) /\ Greater(known[list[i]].name, name)
  BY Zenon
<1> HIDE DEF Later
<1>4. PICK p, m : p = Place(name) /\ m = Min(Later)
  OBVIOUS
<1>5. CASE Later # {}
  <2>1. Later \in SUBSET Nat
    BY <1>1, <1>3
  <2>2. m \in Later /\ \A y \in Later : m <= y
    <3>1. \E x \in Later : \A y \in Later : x <= y
      BY <1>5, <2>1, LeastOfSome
    <3>2. QED
      BY <1>4, <3>1 DEF Min
  <2>3. m \in 1 .. Len(list) /\ Greater(known[list[m]].name, name)
    BY <1>3, <2>2, Zenon
  <2>4. p = m
    <3>1. m # 0
      BY <2>3
    <3>2. QED
      BY <1>2, <1>4, <1>5, <3>1, Zenon
  <2>5. ASSUME NEW i \in 1 .. Len(list), i < p PROVE ~Greater(known[list[i]].name, name)
    <3>1. i \notin Later
      BY <1>1, <2>1, <2>2, <2>4, <2>5
    <3>2. QED
      BY <1>3, <3>1, Zenon
  <2>6. p \in 1 .. Len(list) + 1
    BY <1>1, <2>3, <2>4
  <2>7. QED
    BY <1>4, <2>3, <2>4, <2>5, <2>6, Zenon
<1>6. CASE Later = {}
  <2>1. p = Len(list) + 1
    BY <1>2, <1>4, <1>6, Zenon
  <2>2. p \in 1 .. Len(list) + 1 /\ ~(p <= Len(list))
    BY <1>1, <2>1
  <2>3. \A i \in 1 .. Len(list) : ~Greater(known[list[i]].name, name)
    BY <1>3, <1>6, Zenon
  <2>4. QED
    BY <1>4, <2>2, <2>3, Zenon
<1>7. QED
  BY <1>5, <1>6

(* A device is inserted among those that were there.                       *)
LEMMA InsertKeeps ==
  ASSUME list \in Seq(Devices), NEW name, NEW d \in Devices, list' = InsertAt(list, Place(name), d)
  PROVE  list' \in Seq(Devices) /\ Listed' \subseteq Listed \cup {d}
<1> DEFINE p == Place(name)
<1>1. p \in 1 .. Len(list) + 1
  BY PlaceIs
<1> HIDE DEF p
<1>2. /\ list' \in Seq(Devices) /\ Len(list') = Len(list) + 1
      /\ \A i \in 1 .. Len(list) + 1 : list'[i] = IF i < p THEN list[i] ELSE IF i = p THEN d ELSE list[i - 1]
  <2>1. list' = InsertAt(list, p, d)
    BY DEF p
  <2>2. /\ InsertAt(list, p, d) \in Seq(Devices) /\ Len(InsertAt(list, p, d)) = Len(list) + 1
        /\ \A i \in 1 .. Len(list) + 1 :
             InsertAt(list, p, d)[i] = IF i < p THEN list[i] ELSE IF i = p THEN d ELSE list[i - 1]
    BY <1>1, InsertAtElements
  <2>3. QED
    BY <2>1, <2>2, Zenon
<1>3. Len(list) \in Nat /\ \A i \in 1 .. Len(list) : list[i] \in Listed
  <2>1. Len(list) \in Nat
    OBVIOUS
  <2>2. \A i \in 1 .. Len(list) : list[i] \in Listed
    BY Zenon DEF Listed
  <2>3. QED
    BY <2>1, <2>2
<1>4. ASSUME NEW i \in 1 .. Len(list) + 1 PROVE list'[i] \in Listed \cup {d}
  <2>1. CASE i < p
    BY <2>1, <1>1, <1>2, <1>3
  <2>2. CASE i = p
    BY <2>2, <1>1, <1>2, <1>3
  <2>3. CASE p < i
    <3>1. i - 1 \in 1 .. Len(list) /\ ~(i < p) /\ i # p
      BY <2>3, <1>1, <1>3
    <3>2. list'[i] = list[i - 1]
      BY <3>1, <1>2
    <3>3. QED
      BY <3>1, <3>2, <1>3
  <2>4. QED
    BY <2>1, <2>2, <2>3, <1>1, <1>3
<1>5. QED
  BY <1>2, <1>4 DEF Listed

(* The invariant holds before upnpd_client_init.                           *)
LEMMA InitIInv == Init => IInv
<1> SUFFICES ASSUME Init PROVE IInv
  OBVIOUS
<1>1. ThreadsOK /\ LockInv /\ LifeInv
  BY DEF Init, ThreadsOK, LockInv, LifeInv, MainPoints, TimerPoints, SsdpPoints, Threads
<1>2. list = << >> /\ used = {} /\ heap = [d \in Devices |-> "none"] /\ ssdp = "none"
  BY DEF Init
<1>3. Listed = {}
  BY <1>2 DEF Listed
<1>4. DevicesInv
  BY <1>2, <1>3 DEF DevicesInv
<1>5. QED
  BY <1>1, <1>4 DEF IInv, ControlInv

(* A step of the owner keeps ControlInv.                                   *)
LEMMA MainKeeps == ASSUME ControlInv, Main PROVE ControlInv'
<1> USE DEF ControlInv, ThreadsOK, LockInv, LifeInv, MainPoints, TimerPoints, SsdpPoints, Threads
<1>1. CASE InitStack
  BY <1>1 DEF InitStack, WakeMain, WakeTimer
<1>2. CASE AwaitTimer
  BY <1>2 DEF AwaitTimer, WakeMain, WakeTimer
<1>3. CASE Refresh
  BY <1>3 DEF Refresh, WakeMain, WakeTimer
<1>4. CASE RefreshAgain
  BY <1>4 DEF RefreshAgain, WakeMain, WakeTimer
<1>5. CASE Action
  BY <1>5 DEF Action, WakeMain, WakeTimer
<1>6. CASE Answered
  BY <1>6 DEF Answered, WakeMain, WakeTimer
<1>7. CASE Uninit
  BY <1>7 DEF Uninit, WakeMain, WakeTimer
<1>8. CASE UninitStack
  BY <1>8 DEF UninitStack, WakeMain, WakeTimer
<1>9. CASE StopTimer
  BY <1>9 DEF StopTimer, WakeMain, WakeTimer
<1>10. CASE AwaitStopped
  BY <1>10 DEF AwaitStopped, WakeMain, WakeTimer
<1>11. CASE Join
  BY <1>11 DEF Join, WakeMain, WakeTimer
<1>12. QED
  BY <1>1, <1>2, <1>3, <1>4, <1>5, <1>6, <1>7, <1>8, <1>9, <1>10, <1>11 DEF Main

(* A step of client_timer keeps ControlInv.                                *)
LEMMA TimerKeeps == ASSUME ControlInv, Timer PROVE ControlInv'
<1> USE DEF ControlInv, ThreadsOK, LockInv, LifeInv, MainPoints, TimerPoints, SsdpPoints, Threads
<1>1. CASE TimerStart
  BY <1>1 DEF TimerStart, WakeMain, WakeTimer
<1>2. CASE TimerSleep
  BY <1>2 DEF TimerSleep, WakeMain, WakeTimer
<1>3. CASE TimerTimeout
  BY <1>3 DEF TimerTimeout, WakeMain, WakeTimer
<1>4. CASE TimerTurn
  <2>1. timer = "woken" /\ cmutex = "free" /\ UNCHANGED << ssdp, cmutex, running, stack >>
    BY <1>4 DEF TimerTurn
  <2>2. CASE running
    <3>1. timer' = "loop" /\ UNCHANGED << main, trunning >>
      BY <1>4, <2>2 DEF TimerTurn
    <3>2. QED
      BY <2>1, <2>2, <3>1
  <2>3. CASE ~running
    <3>1. timer' = "return" /\ ~trunning' /\ trunning' \in BOOLEAN
      BY <1>4, <2>3 DEF TimerTurn
    <3>2. main' = CASE main = "initsleep" -> "initwait" [] main = "stopsleep" -> "stopwait" [] OTHER -> main
      BY <1>4, <2>3 DEF TimerTurn, WakeMain
    <3>3. main \in {"stopwait", "stopsleep", "join", "done"}
      BY <2>1, <2>3
    <3>4. QED
      BY <2>1, <2>3, <3>1, <3>2, <3>3
  <2>4. QED
    BY <2>2, <2>3
<1>5. CASE TimerReturn
  BY <1>5 DEF TimerReturn, WakeMain, WakeTimer
<1>6. QED
  BY <1>1, <1>2, <1>3, <1>4, <1>5 DEF Timer

(* An advertisement, a step of the ssdp thread and the restart of a device *)
(* keep ControlInv.                                                       *)
LEMMA SsdpKeeps == ASSUME ControlInv, Advertised \/ Ssdp \/ \E d \in Devices : Restart(d) PROVE ControlInv'
<1> USE DEF ControlInv, ThreadsOK, LockInv, LifeInv, MainPoints, TimerPoints, SsdpPoints, Threads
<1>1. CASE Advertised
  BY <1>1 DEF Advertised, WakeMain, WakeTimer
<1>2. CASE Alive
  BY <1>2 DEF Alive, WakeMain, WakeTimer
<1>3. CASE Downloaded
  BY <1>3 DEF Downloaded, WakeMain, WakeTimer
<1>4. CASE Byebye
  BY <1>4 DEF Byebye, WakeMain, WakeTimer
<1>5. CASE \E d \in Devices : Restart(d)
  BY <1>5 DEF Restart
<1>6. QED
  BY <1>1, <1>2, <1>3, <1>4, <1>5 DEF Ssdp

(* What is found is on the list.                                           *)
LEMMA FoundIsListed == ASSUME NEW name, NEW type PROVE Found(name, type) \subseteq Listed
<1> DEFINE Named == {i \in 1 .. Len(list) : known[list[i]].name = name}
           first == IF Named # {} THEN Min(Named) ELSE 0
<1>1. Found(name, type) =
        IF first # 0 /\ \E s \in Range(known[list[first]].services) : s.type = type THEN {list[first]} ELSE {}
  BY Zenon DEF Found, SelectInSeq
<1>2. CASE first = 0
  BY <1>1, <1>2, Zenon
<1>3. CASE first # 0
  <2>1. Named # {} /\ first = Min(Named)
    BY <1>3, Zenon
  <2>2. first \in Named
    <3>1. Named \in SUBSET Nat
      OBVIOUS
    <3> HIDE DEF Named
    <3>2. QED
      BY <2>1, <3>1, LeastIsOne
  <2>3. first \in 1 .. Len(list)
    BY <2>2, Zenon
  <2> HIDE DEF first
  <2>4. list[first] \in Listed
    BY <2>3, Zenon DEF Listed
  <2>5. QED
    BY <1>1, <2>4, Zenon
<1>4. QED
  BY <1>2, <1>3

(* Devices are freed only by whoever has the mutex, and no action is being *)
(* sent then.                                                              *)
LEMMA DevicesKeep == ASSUME IInv, Next PROVE DevicesInv'
<1> USE DEF IInv, DevicesInv
<1>1. main # "action" \/ cmutex = "main"
  BY DEF ControlInv, LockInv
<1>2. ASSUME UNCHANGED << objects, adv, used >>, ssdp' = ssdp \/ ssdp' \in {"none", "idle"}, main = "action" => main' = "action"
      PROVE  DevicesInv'
  BY <1>2 DEF objects, Listed
<1>3. ASSUME NEW gone, Without(gone), cmutex = "free" \/ main = "join", used' = used, ssdp' = ssdp \/ ssdp' = "idle", adv' = adv \/ ssdp' = "idle"
      PROVE  DevicesInv'
  <2>1. used = {}
    BY <1>1, <1>3
  <2>2. QED
    BY <1>3, <2>1, WithoutKeeps
<1>4. CASE Main
  <2>1. CASE InitStack \/ AwaitTimer \/ RefreshAgain \/ Uninit \/ UninitStack \/ StopTimer \/ AwaitStopped
    BY <2>1, <1>2 DEF InitStack, AwaitTimer, RefreshAgain, Uninit, UninitStack, StopTimer, AwaitStopped
  <2>2. CASE Refresh
    BY <2>2, <1>3, Zenon DEF Refresh
  <2>3. CASE Join
    BY <2>3, <1>3, Zenon DEF Join
  <2>4. CASE Action
    <3>1. used' \subseteq Listed
      BY <2>4, FoundIsListed DEF Action
    <3>2. (used' # {} => main' = "action") /\ UNCHANGED << list, heap, ssdp, adv >>
      BY <2>4 DEF Action, objects
    <3>3. Listed \subseteq Devices
      BY DEF Listed
    <3>4. QED
      BY <3>1, <3>2, <3>3 DEF Listed
  <2>5. CASE Answered
    BY <2>5 DEF Answered, objects, Listed
  <2>6. QED
    BY <1>4, <2>1, <2>2, <2>3, <2>4, <2>5 DEF Main
<1>5. CASE Timer
  <2>1. CASE TimerStart \/ TimerSleep \/ TimerTimeout \/ TimerReturn
    BY <2>1, <1>2 DEF TimerStart, TimerSleep, TimerTimeout, TimerReturn, WakeMain
  <2>2. CASE TimerTurn /\ running
    <3>1. PICK expired \in SUBSET Listed : Without(expired)
      BY <2>2, Zenon DEF TimerTurn
    <3>2. cmutex = "free" /\ UNCHANGED << ssdp, adv, used >>
      BY <2>2 DEF TimerTurn
    <3>3. QED
      BY <3>1, <3>2, <1>3
  <2>3. CASE TimerTurn /\ ~running
    BY <2>3, <1>2 DEF TimerTurn, WakeMain
  <2>4. QED
    BY <1>5, <2>1, <2>2, <2>3 DEF Timer
<1>6. CASE Advertised
  <2>1. adv'.uuid \in Devices
    BY <1>6 DEF Advertised, Advertisements
  <2>2. UNCHANGED << main, list, heap, used >>
    BY <1>6 DEF Advertised, objects
  <2>3. QED
    BY <2>1, <2>2 DEF Listed
<1>7. CASE Alive
  <2>1. UNCHANGED << main, list, heap, used >> /\ (ssdp' = "idle" \/ adv' = adv) /\ ssdp = "alive"
    BY <1>7 DEF Alive, objects
  <2>2. QED
    BY <2>1 DEF Listed
<1>8. CASE Downloaded
  <2>1. UNCHANGED << main, used >> /\ ssdp' = "idle" /\ adv.uuid \in Devices
    BY <1>8 DEF Downloaded
  <2>2. CASE UNCHANGED objects
    BY <2>1, <2>2 DEF objects, Listed
  <2>3. CASE ~ UNCHANGED objects
    <3>1. PICK name : list' = InsertAt(list, Place(name), adv.uuid)
      BY <1>8, <2>3, Zenon DEF Downloaded
    <3>2. heap' = [heap EXCEPT ![adv.uuid] = "live"]
      BY <1>8, <2>3, Zenon DEF Downloaded
    <3>3. list' \in Seq(Devices) /\ Listed' \subseteq Listed \cup {adv.uuid}
      BY <2>1, <3>1, InsertKeeps
    <3>4. QED
      BY <2>1, <3>2, <3>3
  <2>4. QED
    BY <2>2, <2>3
<1>9. CASE Byebye
  BY <1>9, <1>3, Zenon DEF Byebye
<1>10. CASE \E d \in Devices : Restart(d)
  BY <1>10, <1>2 DEF Restart
<1>11. QED
  BY <1>4, <1>5, <1>6, <1>7, <1>8, <1>9, <1>10 DEF Next, Ssdp

(* IInv is inductive, hence holds in every reachable state.                *)
THEOREM Invariance == Spec => []IInv
<1>1. IInv /\ [Next]_vars => IInv'
  <2> SUFFICES ASSUME IInv, [Next]_vars PROVE IInv'
    OBVIOUS
  <2>1. CASE Next
    BY <2>1, MainKeeps, TimerKeeps, SsdpKeeps, DevicesKeep DEF Next, IInv
  <2>2. CASE UNCHANGED vars
    BY <2>2 DEF vars, objects, IInv, ControlInv, ThreadsOK, LockInv, LifeInv, DevicesInv, Listed
  <2>3. QED
    BY <2>1, <2>2
<1>2. QED
  BY InitIInv, <1>1, PTL DEF Spec

(* When upnpd_client_uninit has returned, no thread of the client runs on, *)
(* and nobody holds the mutex that it destroys.                            *)
THEOREM NothingRunsOnThm == Spec => []NothingRunsOn
<1>1. IInv => NothingRunsOn
  BY DEF IInv, ControlInv, ThreadsOK, LockInv, LifeInv, NothingRunsOn, Threads
<1>2. QED
  BY <1>1, Invariance, PTL

(* The device that an action is sent to is not freed under it.             *)
THEOREM DeviceOutlivesActionThm == Spec => []DeviceOutlivesAction
<1>1. IInv => DeviceOutlivesAction
  BY DEF IInv, DevicesInv, DeviceOutlivesAction
<1>2. QED
  BY <1>1, Invariance, PTL

(* The devices that a step uses the stack for are searched for, described  *)
(* or asked while it is live; only a turn of the timer between the end of  *)
(* the stack and that of client->running can come too late.                *)
THEOREM StackUsedLiveThm == Spec => StackUsedLive
<1> DEFINE Uses ==
      /\ TimerTurn /\ running /\ list' # << >> => stack = "live" \/ main = "stop"
      /\ Refresh \/ Alive \/ Downloaded => stack = "live"
      /\ main' = "action" => stack = "live"
<1>1. IInv /\ [Next]_vars => [Uses]_vars
  <2> SUFFICES ASSUME IInv, Next PROVE Uses
    OBVIOUS
  <2>1. main \in {"initwait", "initsleep", "refresh", "run", "action", "uninit"} => stack = "live"
    BY DEF IInv, ControlInv, ThreadsOK, LifeInv
  <2>2. TimerTurn /\ running => stack = "live" \/ main = "stop"
    BY <2>1 DEF TimerTurn, IInv, ControlInv, ThreadsOK, LifeInv, MainPoints
  <2>3. Refresh \/ Alive \/ Downloaded => stack = "live"
    BY <2>1 DEF Refresh, Alive, Downloaded, IInv, ControlInv, ThreadsOK, LifeInv
  <2>4. main' = "action" => main \in {"run", "action"}
    <3>1. CASE Main
      BY <3>1 DEF Main, InitStack, AwaitTimer, Refresh, RefreshAgain, Action, Answered, Uninit, UninitStack,
                  StopTimer, AwaitStopped, Join
    <3>2. CASE Timer
      BY <3>2 DEF Timer, TimerStart, TimerSleep, TimerTimeout, TimerTurn, TimerReturn, WakeMain
    <3>3. CASE Advertised \/ Ssdp
      BY <3>3 DEF Advertised, Ssdp, Alive, Downloaded, Byebye
    <3>4. CASE \E d \in Devices : Restart(d)
      BY <3>4 DEF Restart
    <3>5. QED
      BY <3>1, <3>2, <3>3, <3>4 DEF Next
  <2>5. QED
    BY <2>1, <2>2, <2>3, <2>4
<1>2. QED
  BY Invariance, <1>1, PTL DEF Spec, StackUsedLive

-----------------------------------------------------------------------------

\* What entry_parser_callback knows after each call.
Trace(first, h, f) == f = [i \in 0 .. Len(h) |-> IF i = 0 THEN first ELSE entry_parser_callback(f[i - 1], h[i])]

\* What is known after some calls.
After(first, h) == (CHOOSE f : Trace(first, h, f))[Len(h)]

(* There is a trace of what is known after each of the calls.              *)
LEMMA TraceExists == ASSUME NEW S, NEW h \in Seq(S), NEW first PROVE \E f : Trace(first, h, f)
<1> DEFINE Starts(n, f) == f = [i \in 0 .. n |-> IF i = 0 THEN first ELSE entry_parser_callback(f[i - 1], h[i])]
           Good == {n \in Nat : \E f : Starts(n, f)}
<1>1. 0 \in Good
  <2>1. Starts(0, [i \in 0 .. 0 |-> first])
    OBVIOUS
  <2>2. QED
    BY <2>1
<1>2. ASSUME NEW k \in Nat, k \in Good PROVE k + 1 \in Good
  <2>1. PICK f : Starts(k, f)
    BY <1>2
  <2> DEFINE g == [i \in 0 .. k + 1 |-> IF i = 0 THEN first ELSE entry_parser_callback(f[i - 1], h[i])]
  <2>2. ASSUME NEW i \in 0 .. k + 1, i # 0 PROVE g[i - 1] = f[i - 1]
    <3>1. i - 1 \in 0 .. k /\ i - 1 \in 0 .. k + 1
      BY <2>2
    <3>2. f[i - 1] = IF i - 1 = 0 THEN first ELSE entry_parser_callback(f[(i - 1) - 1], h[i - 1])
      BY <2>1, <3>1
    <3>3. QED
      BY <3>1, <3>2
  <2>3. Starts(k + 1, g)
    <3>1. g = [i \in 0 .. k + 1 |-> IF i = 0 THEN first ELSE entry_parser_callback(g[i - 1], h[i])]
      BY <2>2
    <3>2. QED
      BY <3>1
  <2> HIDE DEF Starts, g
  <2>4. QED
    BY <2>3
<1>3. Len(h) \in Nat
  OBVIOUS
<1> HIDE DEF Good
<1>4. \A k \in 0 .. Len(h) : k \in Good
  BY <1>1, <1>2, <1>3, UpTo
<1>5. Len(h) \in Good
  BY <1>3, <1>4
<1>6. QED
  BY <1>5 DEF Good, Trace

(* Nothing changes without a call.                                         *)
LEMMA AfterNone == ASSUME NEW first PROVE After(first, << >>) = first
<1>1. PICK h : h = << >>
  OBVIOUS
<1>2. h \in Seq({}) /\ Len(h) = 0
  BY <1>1
<1>3. Trace(first, h, CHOOSE f : Trace(first, h, f))
  BY <1>2, TraceExists
<1>4. PICK f : f = CHOOSE g : Trace(first, h, g)
  OBVIOUS
<1>5. f[0] = first
  BY <1>2, <1>3, <1>4 DEF Trace
<1>6. QED
  BY <1>1, <1>2, <1>4, <1>5 DEF After

(* One call more is one step more.                                         *)
LEMMA AfterMore ==
  ASSUME NEW S, NEW first, NEW h \in Seq(S), NEW c \in S
  PROVE  After(first, Append(h, c)) = entry_parser_callback(After(first, h), c)
<1>1. PICK n, b : n = Len(h) /\ b = Append(h, c)
  OBVIOUS
<1>2. n \in Nat /\ b \in Seq(S) /\ Len(b) = n + 1 /\ b[n + 1] = c /\ \A i \in 1 .. n : b[i] = h[i]
  BY <1>1
<1>3. Trace(first, h, CHOOSE f : Trace(first, h, f)) /\ Trace(first, b, CHOOSE f : Trace(first, b, f))
  BY <1>2, TraceExists
<1>4. PICK f, g : f = (CHOOSE x : Trace(first, h, x)) /\ g = (CHOOSE x : Trace(first, b, x))
  OBVIOUS
<1>5. /\ \A i \in 0 .. n : f[i] = IF i = 0 THEN first ELSE entry_parser_callback(f[i - 1], h[i])
      /\ \A i \in 0 .. n + 1 : g[i] = IF i = 0 THEN first ELSE entry_parser_callback(g[i - 1], b[i])
  <2>1. Trace(first, h, f) /\ Trace(first, b, g) /\ Len(h) = n /\ Len(b) = n + 1
    BY <1>1, <1>2, <1>3, <1>4
  <2>2. /\ f = [i \in 0 .. n |-> IF i = 0 THEN first ELSE entry_parser_callback(f[i - 1], h[i])]
        /\ g = [i \in 0 .. n + 1 |-> IF i = 0 THEN first ELSE entry_parser_callback(g[i - 1], b[i])]
    BY <2>1, Zenon DEF Trace
  <2>3. QED
    BY <2>2, Zenon
<1> DEFINE Good == {i \in Nat : i <= n => f[i] = g[i]}
<1>6. 0 \in Good
  BY <1>2, <1>5
<1>7. ASSUME NEW k \in Nat, k < n, k \in Good PROVE k + 1 \in Good
  <2>1. f[k] = g[k] /\ k + 1 \in 1 .. n /\ k + 1 \in 0 .. n /\ k + 1 \in 0 .. n + 1 /\ k + 1 # 0 /\ (k + 1) - 1 = k
    BY <1>2, <1>7
  <2>2. f[k + 1] = entry_parser_callback(f[k], h[k + 1]) /\ g[k + 1] = entry_parser_callback(g[k], b[k + 1])
    BY <1>5, <2>1
  <2>3. b[k + 1] = h[k + 1]
    BY <1>2, <2>1
  <2>4. f[k + 1] = g[k + 1]
    BY <2>1, <2>2, <2>3
  <2>5. QED
    BY <2>4
<1> HIDE DEF Good
<1>8. \A k \in 0 .. n : k \in Good
  BY <1>2, <1>6, <1>7, UpTo
<1>9. f[n] = g[n]
  <2>1. n \in Good /\ n <= n
    BY <1>2, <1>8
  <2>2. QED
    BY <2>1 DEF Good
<1>10. g[n + 1] = entry_parser_callback(g[n], c)
  <2>1. n + 1 \in 0 .. n + 1 /\ n + 1 # 0 /\ (n + 1) - 1 = n
    BY <1>2
  <2>2. g[n + 1] = entry_parser_callback(g[(n + 1) - 1], b[n + 1])
    BY <1>5, <2>1, Zenon
  <2>3. QED
    BY <1>2, <2>1, <2>2
<1>11. After(first, h) = f[n] /\ After(first, b) = g[n + 1]
  BY <1>1, <1>2, <1>4, Zenon DEF After
<1>12. QED
  BY <1>1, <1>9, <1>10, <1>11

(* The calls of a concatenation are made one after the other.              *)
LEMMA AfterBoth ==
  ASSUME NEW S, NEW first, NEW h \in Seq(S), NEW g \in Seq(S)
  PROVE  After(first, h \o g) = After(After(first, h), g)
<1> DEFINE Good == {k \in Nat : k <= Len(g) => After(first, h \o SubSeq(g, 1, k)) = After(After(first, h), SubSeq(g, 1, k))}
<1>1. Len(g) \in Nat
  OBVIOUS
<1>2. 0 \in Good
  <2>1. SubSeq(g, 1, 0) = << >> /\ h \o << >> = h
    OBVIOUS
  <2>2. After(After(first, h), << >>) = After(first, h)
    BY AfterNone
  <2>3. QED
    BY <2>1, <2>2
<1>3. ASSUME NEW k \in Nat, k < Len(g), k \in Good PROVE k + 1 \in Good
  <2>1. PICK u, c, v : u = SubSeq(g, 1, k) /\ c = g[k + 1] /\ v = SubSeq(g, 1, k + 1)
    OBVIOUS
  <2>2. k + 1 \in 1 .. Len(g)
    BY <1>1, <1>3
  <2>3. u \in Seq(S) /\ c \in S /\ v = Append(u, c)
    BY <1>3, <2>1, <2>2
  <2>4. h \o v = Append(h \o u, c) /\ h \o u \in Seq(S)
    BY <2>3, Associative
  <2>5. After(first, h \o u) = After(After(first, h), u)
    BY <1>1, <1>3, <2>1
  <2>8. After(first, h \o v) = After(After(first, h), v)
    <3>1. After(first, Append(h \o u, c)) = entry_parser_callback(After(first, h \o u), c)
      <4>1. PICK w : w = h \o u
        OBVIOUS
      <4>2. w \in Seq(S) /\ c \in S
        BY <2>3, <2>4, <4>1
      <4>3. After(first, Append(w, c)) = entry_parser_callback(After(first, w), c)
        BY <4>2, AfterMore
      <4>4. QED
        BY <4>1, <4>3
    <3>2. After(After(first, h), Append(u, c)) = entry_parser_callback(After(After(first, h), u), c)
      BY <2>3, AfterMore
    <3>3. QED
      BY <2>3, <2>4, <2>5, <3>1, <3>2
  <2>9. QED
    BY <2>1, <2>8
<1> HIDE DEF Good
<1>4. \A k \in 0 .. Len(g) : k \in Good
  BY <1>1, <1>2, <1>3, UpTo
<1>5. Len(g) \in Good /\ Len(g) <= Len(g) /\ SubSeq(g, 1, Len(g)) = g
  BY <1>1, <1>4
<1>6. QED
  BY <1>5 DEF Good

-----------------------------------------------------------------------------

(* What Append does, whatever the elements are.                            *)
LEMMA AppendAny ==
  ASSUME NEW s, IsSeq(s), NEW x
  PROVE  /\ IsSeq(Append(s, x)) /\ Len(s) \in Nat /\ Len(Append(s, x)) = Len(s) + 1 /\ Append(s, x)[Len(s) + 1] = x
         /\ \A i \in 1 .. Len(s) : Append(s, x)[i] = s[i]
         /\ \A y : [Append(s, x) EXCEPT ![Len(s) + 1] = y] = Append(s, y)
<1>1. PICK S : s \in Seq(S)
  BY DEF IsSeq
<1>2. PICK n, t : n = Len(s) /\ t = Append(s, x)
  OBVIOUS
<1>3. s \in Seq(S \cup {x}) /\ n \in Nat /\ x \in S \cup {x}
  BY <1>1, <1>2
<1>4. t \in Seq(S \cup {x}) /\ Len(t) = n + 1 /\ t[n + 1] = x /\ \A i \in 1 .. n : t[i] = s[i]
  BY <1>2, <1>3
<1>5. ASSUME NEW y PROVE [t EXCEPT ![n + 1] = y] = Append(s, y)
  <2>1. PICK T : T = S \cup {x, y}
    OBVIOUS
  <2>2. PICK u, v : u = [t EXCEPT ![n + 1] = y] /\ v = Append(s, y)
    OBVIOUS
  <2>3. s \in Seq(T) /\ y \in T /\ t \in Seq(T)
    BY <1>1, <1>4, <2>1
  <2>4. v \in Seq(T) /\ Len(v) = n + 1 /\ v[n + 1] = y /\ \A i \in 1 .. n : v[i] = s[i]
    BY <1>2, <2>2, <2>3
  <2>5. t \in [1 .. n + 1 -> T]
    BY <1>4, <2>3
  <2>6. u \in [1 .. n + 1 -> T] /\ u[n + 1] = y /\ \A i \in 1 .. n : u[i] = t[i]
    BY <1>3, <2>2, <2>3, <2>5
  <2>7. v \in [1 .. n + 1 -> T]
    BY <2>4
  <2>8. \A i \in 1 .. n + 1 : u[i] = v[i]
    BY <1>3, <1>4, <2>4, <2>6
  <2>9. u = v
    <3>1. u = [i \in 1 .. n + 1 |-> u[i]] /\ v = [i \in 1 .. n + 1 |-> v[i]]
      BY <2>6, <2>7
    <3>2. QED
      BY <2>8, <3>1
  <2>10. QED
    BY <2>2, <2>9
<1>6. IsSeq(t)
  BY <1>4 DEF IsSeq
<1>7. QED
  BY <1>2, <1>3, <1>4, <1>5, <1>6

-----------------------------------------------------------------------------

\* An entry as entry_parser_callback makes it.
IsEntry(e) == e = [id |-> e.id, parentid |-> e.parentid, type |-> e.type, texts |-> e.texts, res |-> e.res,
                   resattrs |-> e.resattrs, restricted |-> e.restricted]

\* What the elements other than title, class and resource leave alone.
Kept(d, e) == /\ IsEntry(e)
              /\ e.id = d.id /\ e.parentid = d.parentid /\ e.restricted = d.restricted /\ e.type = d.type /\ e.res = d.res
              /\ "dc:title" \in DOMAIN d.texts => "dc:title" \in DOMAIN e.texts /\ e.texts["dc:title"] = d.texts["dc:title"]

(* A text noted is there, and the others stay.                             *)
LEMMA TextsKept ==
  ASSUME NEW texts, NEW tag, NEW value
  PROVE  /\ tag \in DOMAIN With(texts, tag, value) /\ With(texts, tag, value)[tag] = value
         /\ \A t \in DOMAIN texts : t # tag => t \in DOMAIN With(texts, tag, value) /\ With(texts, tag, value)[t] = texts[t]
  BY DEF With

(* The other elements leave the title, the class and the resource alone.   *)
LEMMA DullNoted ==
  ASSUME NEW e, IsEntry(e), NEW element, NEW tag \in Dull, NEW call
  PROVE  Kept(e, Noted(e, element, tag, call))
<1>1. PICK f, texts : f = Noted(e, element, tag, call) /\ texts = With(e.texts, tag, call.value)
  OBVIOUS
<1>2. tag # "dc:title" /\ tag # "upnp:class" /\ tag # "res"
  BY DEF Dull
<1>3. f = e \/ f = [e EXCEPT !.texts = texts]
  BY <1>1, <1>2, Zenon DEF Noted
<1>4. "dc:title" \in DOMAIN e.texts => "dc:title" \in DOMAIN texts /\ texts["dc:title"] = e.texts["dc:title"]
  BY <1>1, <1>2, TextsKept
<1>5. CASE f = e
  BY <1>1, <1>5 DEF Kept
<1>6. CASE f = [e EXCEPT !.texts = texts]
  <2>1. f = [id |-> e.id, parentid |-> e.parentid, type |-> e.type, texts |-> texts, res |-> e.res,
                   resattrs |-> e.resattrs, restricted |-> e.restricted]
    BY <1>6 DEF IsEntry
  <2>2. QED
    BY <1>1, <1>4, <2>1 DEF Kept, IsEntry
<1>7. QED
  BY <1>3, <1>5, <1>6

(* What two steps leave alone both leave alone.                            *)
LEMMA KeptTwice == ASSUME NEW d, NEW e, NEW f, Kept(d, e), Kept(e, f) PROVE Kept(d, f)
  BY DEF Kept

\* The state of the parser: the entries so far, and the one that is being read.
Reading(old, e) == [entries |-> Append(old, e), current |-> TRUE]

(* Entries are replaced in the state of the parser.                        *)
LEMMA OtherEntries == \A s, t, b : [[entries |-> s, current |-> b] EXCEPT !.entries = t] = [entries |-> t, current |-> b]
  OBVIOUS

(* A callback of a child of an entry changes the entry that is being read, *)
(* the last one.                                                           *)
LEMMA CallOfElement ==
  ASSUME NEW old, IsSeq(old), NEW e, NEW call, NEW element \in Kinds, NEW tag \in Names,
         call.path = << "DIDL-Lite", element, tag >>, call.value # Null
  PROVE  entry_parser_callback(Reading(old, e), call) = Reading(old, Noted(e, element, tag, call))
<1>1. PICK data, m, s, f : data = Reading(old, e) /\ m = Len(old) + 1 /\ s = Append(old, e) /\ f = Noted(e, element, tag, call)
  OBVIOUS
<1>2. data = [entries |-> s, current |-> TRUE] /\ Len(s) = m /\ s[m] = e /\ [s EXCEPT ![m] = f] = Append(old, f)
  BY <1>1, AppendAny DEF Reading
<1>3. /\ Len(call.path) = 3 /\ call.path[1] = "DIDL-Lite" /\ call.path[2] = element /\ call.path[3] = tag
      /\ call.path \notin {<< "DIDL-Lite", "item" >>, << "DIDL-Lite", "container" >>}
  OBVIOUS
<1>4. entry_parser_callback(data, call) = [data EXCEPT !.entries[Len(data.entries)] = Noted(@, call.path[2], call.path[3], call)]
  BY <1>2, <1>3 DEF entry_parser_callback, Kinds
<1>5. [data EXCEPT !.entries[Len(data.entries)] = Noted(@, call.path[2], call.path[3], call)] = [entries |-> [s EXCEPT ![m] = f], current |-> TRUE]
  <2>1. data.entries = s /\ Len(data.entries) = m
    BY <1>2
  <2>2. Noted(data.entries[Len(data.entries)], call.path[2], call.path[3], call) = f
    BY <1>1, <1>2, <1>3, <2>1
  <2>3. [data EXCEPT !.entries[Len(data.entries)] = Noted(@, call.path[2], call.path[3], call)]
          = [data EXCEPT !.entries = [s EXCEPT ![m] = f]]
    BY <2>1, <2>2, Zenon
  <2>4. QED
    <3>1. PICK t : t = [s EXCEPT ![m] = f]
      OBVIOUS
    <3>2. [data EXCEPT !.entries = t] = [entries |-> t, current |-> TRUE]
      <4>1. [[entries |-> s, current |-> TRUE] EXCEPT !.entries = t] = [entries |-> t, current |-> TRUE]
        BY OtherEntries, Zenon
      <4>2. QED
        BY <1>2, <4>1, Zenon
    <3>3. QED
      BY <2>3, <3>1, <3>2, Zenon
<1>6. QED
  BY <1>1, <1>2, <1>4, <1>5 DEF Reading

\* The calls of the elements of an entry, as those of the document it is in.
Deep(A, X, element, h) == Mapped(Deeper(A, X, "DIDL-Lite"), Mapped(Deeper(A, X, element), h))

\* What is known after reading these elements of an entry.
Read(A, X, element, data, s) == After(data, Deep(A, X, element, Heard(s)))

(* Callbacks one element deeper, of a sequence of callbacks.               *)
LEMMA MappedTypes ==
  ASSUME NEW A, NEW X, NEW name \in Names
  PROVE  /\ \A h \in Seq(CallbackSet(A, X)) : Mapped(Deeper(A, X, name), h) \in Seq(CallbackSet(A, X))
         /\ \A h, g \in Seq(CallbackSet(A, X)) : MappedApart(Deeper(A, X, name), h, g)
<1>1. PICK F, C : F = Deeper(A, X, name) /\ C = CallbackSet(A, X)
  OBVIOUS
<1>2. Maps(C, C, F)
  BY <1>1, DeeperTypes
<1>3. (\A h \in Seq(C) : Mapped(F, h) \in Seq(C)) /\ (\A h, g \in Seq(C) : MappedApart(F, h, g))
  BY <1>2, MappedBoth
<1>4. QED
  BY <1>1, <1>3, Zenon

(* The same two elements deeper.                                           *)
LEMMA DeepBoth ==
  ASSUME NEW A, NEW X, NEW element \in Names, NEW h \in Seq(CallbackSet(A, X)), NEW g \in Seq(CallbackSet(A, X))
  PROVE  /\ Deep(A, X, element, h) \in Seq(CallbackSet(A, X))
         /\ Deep(A, X, element, h \o g) = Deep(A, X, element, h) \o Deep(A, X, element, g)
<1>1. PICK a, b, c : a = Mapped(Deeper(A, X, element), h) /\ b = Mapped(Deeper(A, X, element), g) /\ c = Mapped(Deeper(A, X, element), h \o g)
  OBVIOUS
<1>2. a \in Seq(CallbackSet(A, X)) /\ b \in Seq(CallbackSet(A, X)) /\ c = a \o b
  <2>1. \A n \in Names, x \in Seq(CallbackSet(A, X)) : Mapped(Deeper(A, X, n), x) \in Seq(CallbackSet(A, X))
    BY MappedTypes
  <2>2. \A n \in Names, x, y \in Seq(CallbackSet(A, X)) : MappedApart(Deeper(A, X, n), x, y)
    BY MappedTypes
  <2>4. MappedApart(Deeper(A, X, element), h, g)
    BY <2>2, Zenon
  <2>3. QED
    BY <1>1, <2>1, <2>4 DEF MappedApart
<1>3. /\ Mapped(Deeper(A, X, "DIDL-Lite"), a) \in Seq(CallbackSet(A, X))
      /\ Mapped(Deeper(A, X, "DIDL-Lite"), a \o b) = Mapped(Deeper(A, X, "DIDL-Lite"), a) \o Mapped(Deeper(A, X, "DIDL-Lite"), b)
  <2>1. "DIDL-Lite" \in Names
    BY DEF Names
  <2>2. /\ \A x \in Seq(CallbackSet(A, X)) : Mapped(Deeper(A, X, "DIDL-Lite"), x) \in Seq(CallbackSet(A, X))
        /\ \A x, y \in Seq(CallbackSet(A, X)) : MappedApart(Deeper(A, X, "DIDL-Lite"), x, y)
    BY <2>1, MappedTypes
  <2>3. a \o b \in Seq(CallbackSet(A, X))
    BY <1>2
  <2>4. QED
    <3>1. MappedApart(Deeper(A, X, "DIDL-Lite"), a, b) /\ Mapped(Deeper(A, X, "DIDL-Lite"), a \o b) \in Seq(CallbackSet(A, X))
                                                      /\ Mapped(Deeper(A, X, "DIDL-Lite"), a) \in Seq(CallbackSet(A, X))
      BY <1>2, <2>2, <2>3, Zenon
    <3>2. QED
      BY <3>1, Zenon DEF MappedApart
<1>4. QED
  BY <1>1, <1>2, <1>3 DEF Deep

OneMapped(A, X, name, c) ==
  Mapped(Deeper(A, X, name), << c >>) = << [path |-> << name >> \o c.path, attrs |-> c.attrs, value |-> c.value] >>

(* One callback one element deeper.                                        *)
LEMMA MappedOne ==
  ASSUME NEW A, NEW X, NEW name \in Names, NEW c \in CallbackSet(A, X)
  PROVE  OneMapped(A, X, name, c)
<1>1. PICK w, F, e : w = << c >> /\ F = Deeper(A, X, name) /\ e = [path |-> << name >> \o c.path, attrs |-> c.attrs, value |-> c.value]
  OBVIOUS
<1>2. F[c] = [c EXCEPT !.path = << name >> \o c.path]
  BY <1>1 DEF Deeper
<1>3. [c EXCEPT !.path = << name >> \o c.path] = e
  <2>1. PICK p : p = << name >> \o c.path
    OBVIOUS
  <2>2. [c EXCEPT !.path = p] = [path |-> p, attrs |-> c.attrs, value |-> c.value]
    BY DEF CallbackSet
  <2>3. QED
    BY <1>1, <2>1, <2>2
<1>4. w \in Seq(CallbackSet(A, X)) /\ DOMAIN w = 1 .. 1 /\ w[1] = c
  BY <1>1
<1>5. Mapped(F, w) = [j \in 1 .. 1 |-> e]
  <2>1. Mapped(F, w) = [j \in 1 .. 1 |-> F[w[j]]]
    BY <1>4, Zenon DEF Mapped
  <2>2. \A j \in 1 .. 1 : F[w[j]] = e
    BY <1>2, <1>3, <1>4
  <2>3. QED
    BY <2>1, <2>2
<1>6. [j \in 1 .. 1 |-> e] = << e >>
  OBVIOUS
<1>7. QED
  BY <1>1, <1>5, <1>6 DEF OneMapped

(* One callback two elements deeper.                                       *)
LEMMA DeepOne ==
  ASSUME NEW A, NEW X, NEW element \in Names, NEW tag \in Names, NEW attrs \in A, NEW value \in X
  PROVE  Deep(A, X, element, << [path |-> << tag >>, attrs |-> attrs, value |-> value] >>)
           = << [path |-> << "DIDL-Lite", element, tag >>, attrs |-> attrs, value |-> value] >>
<1>1. PICK c, d, e : /\ c = [path |-> << tag >>, attrs |-> attrs, value |-> value]
                     /\ d = [path |-> << element >> \o c.path, attrs |-> c.attrs, value |-> c.value]
                     /\ e = [path |-> << "DIDL-Lite" >> \o d.path, attrs |-> d.attrs, value |-> d.value]
  OBVIOUS
<1>2. c \in CallbackSet(A, X)
  BY <1>1 DEF CallbackSet
<1>3. << element >> \o c.path = << element, tag >>
  BY <1>1, TuplesConcat
<1>4. d = [path |-> << element, tag >>, attrs |-> attrs, value |-> value]
  BY <1>1, <1>3
<1>5. d \in CallbackSet(A, X)
  BY <1>4 DEF CallbackSet
<1>6. << "DIDL-Lite" >> \o d.path = << "DIDL-Lite", element, tag >>
  BY <1>4, TuplesConcat
<1>7. e = [path |-> << "DIDL-Lite", element, tag >>, attrs |-> attrs, value |-> value]
  BY <1>1, <1>4, <1>6
<1>8. Mapped(Deeper(A, X, element), << c >>) = << d >>
  <2>1. Mapped(Deeper(A, X, element), << c >>) = << [path |-> << element >> \o c.path, attrs |-> c.attrs, value |-> c.value] >>
    <3>1. OneMapped(A, X, element, c)
      BY <1>2, MappedOne
    <3>2. QED
      BY <3>1, Zenon DEF OneMapped
  <2>2. QED
    BY <1>1, <2>1
<1>9. Mapped(Deeper(A, X, "DIDL-Lite"), << d >>) = << e >>
  <2>1. "DIDL-Lite" \in Names
    BY DEF Names
  <2>2. Mapped(Deeper(A, X, "DIDL-Lite"), << d >>) = << [path |-> << "DIDL-Lite" >> \o d.path, attrs |-> d.attrs, value |-> d.value] >>
    <3>1. OneMapped(A, X, "DIDL-Lite", d)
      BY <1>5, <2>1, MappedOne
    <3>2. QED
      BY <3>1, Zenon DEF OneMapped
  <2>3. QED
    BY <1>1, <2>2
<1>10. QED
  BY <1>1, <1>7, <1>8, <1>9, Zenon DEF Deep

ReadsApart(A, X, element, data, s, t) ==
  Read(A, X, element, data, s \o t) = Read(A, X, element, Read(A, X, element, data, s), t)

(* Children are read one after the other.                                  *)
LEMMA ReadBoth ==
  ASSUME NEW A, NEW X, Null \in X, NEW element \in Names, NEW data, NEW s, Documents(A, X, s), NEW t, Documents(A, X, t)
  PROVE  ReadsApart(A, X, element, data, s, t)
<1>1. PICK h, g : h = Heard(s) /\ g = Heard(t)
  OBVIOUS
<1>2. h \in Seq(CallbackSet(A, X)) /\ g \in Seq(CallbackSet(A, X))
  BY <1>1, DocumentsWhole
<1>3. Heard(s \o t) = h \o g
  <2>1. HeardApart(s, t)
    BY HeardBoth
  <2>2. QED
    BY <1>1, <2>1 DEF HeardApart
<1>4. PICK a, b : a = Deep(A, X, element, h) /\ b = Deep(A, X, element, g)
  OBVIOUS
<1>5. a \in Seq(CallbackSet(A, X)) /\ b \in Seq(CallbackSet(A, X)) /\ Deep(A, X, element, h \o g) = a \o b
  BY <1>2, <1>4, DeepBoth
<1>6. After(data, a \o b) = After(After(data, a), b)
  BY <1>5, AfterBoth
<1>7. QED
  BY <1>1, <1>3, <1>4, <1>5, <1>6 DEF Read, ReadsApart

(* What is known after one call.                                           *)
LEMMA AfterOne == ASSUME NEW first, NEW c PROVE After(first, << c >>) = entry_parser_callback(first, c)
<1>1. << >> \in Seq({c}) /\ c \in {c} /\ Append(<< >>, c) = << c >>
  OBVIOUS
<1>2. After(first, Append(<< >>, c)) = entry_parser_callback(After(first, << >>), c)
  <2>1. PICK h, S : h = << >> /\ S = {c}
    OBVIOUS
  <2>2. h \in Seq(S) /\ c \in S
    BY <2>1
  <2>3. After(first, Append(h, c)) = entry_parser_callback(After(first, h), c)
    BY <2>2, AfterMore
  <2>4. QED
    BY <2>1, <2>3
<1>3. QED
  BY <1>1, <1>2, AfterNone

(* What is known after the callback of a child.                            *)
LEMMA CallRead ==
  ASSUME NEW old, IsSeq(old), NEW e, NEW element \in Kinds, NEW tag \in Names, NEW attrs, NEW value, value # Null
  PROVE  After(Reading(old, e), << [path |-> << "DIDL-Lite", element, tag >>, attrs |-> attrs, value |-> value] >>)
           = Reading(old, Noted(e, element, tag, [path |-> << "DIDL-Lite", element, tag >>, attrs |-> attrs, value |-> value]))
<1>1. PICK c : c = [path |-> << "DIDL-Lite", element, tag >>, attrs |-> attrs, value |-> value]
  OBVIOUS
<1>2. c.path = << "DIDL-Lite", element, tag >> /\ c.value # Null
  BY <1>1
<1>3. entry_parser_callback(Reading(old, e), c) = Reading(old, Noted(e, element, tag, c))
  BY <1>2, CallOfElement
<1>4. QED
  BY <1>1, <1>3, AfterOne

\* The attributes and texts that any document has.
Vocabulary(A, X) == Null \in A /\ Null \in X /\ Indent \in X

CallFor(element, tag, attrs, value) == [path |-> << "DIDL-Lite", element, tag >>, attrs |-> attrs, value |-> value]

\* What is read of one child.
ReadsOne(A, X, element, old, e, tag, attrs, value) ==
  /\ Documents(A, X, << LeafWith(tag, attrs, value) >>)
  /\ Read(A, X, element, Reading(old, e), << LeafWith(tag, attrs, value) >>)
       = Reading(old, Noted(e, element, tag, [path |-> << "DIDL-Lite", element, tag >>, attrs |-> attrs, value |-> value]))

(* A child is read as one callback.                                        *)
LEMMA ReadOne ==
  ASSUME NEW A, NEW X, Vocabulary(A, X), NEW old, IsSeq(old), NEW e, NEW element \in Kinds,
         NEW tag \in Names, NEW attrs \in A, NEW value \in X \ {Null}
  PROVE  ReadsOne(A, X, element, old, e, tag, attrs, value)
<1>1. PICK s, h : s = << LeafWith(tag, attrs, value) >> /\ h = Heard(s)
  OBVIOUS
<1>2. value \in X /\ element \in Names /\ value # Null
  BY DEF Names, Kinds
<1>0. Null \in A /\ Null \in X /\ Indent \in X
  BY DEF Vocabulary
<1>3. Documents(A, X, s) /\ h = << [path |-> << tag >>, attrs |-> attrs, value |-> value] >>
  BY <1>0, <1>1, <1>2, HeardOne
<1>4. Deep(A, X, element, h) = << [path |-> << "DIDL-Lite", element, tag >>, attrs |-> attrs, value |-> value] >>
  BY <1>2, <1>3, DeepOne
<1>5. After(Reading(old, e), << [path |-> << "DIDL-Lite", element, tag >>, attrs |-> attrs, value |-> value] >>)
        = Reading(old, Noted(e, element, tag, [path |-> << "DIDL-Lite", element, tag >>, attrs |-> attrs, value |-> value]))
  BY <1>2, CallRead
<1>6. QED
  BY <1>1, <1>3, <1>4, <1>5 DEF Read, ReadsOne

\* Children that are none of title, class and resource.
DullDocuments(A, X, s) ==
  Documents(A, X, s) /\ \A i \in DOMAIN s : \E tag \in Dull, attrs \in A, value \in X \ {Null} : s[i] = LeafWith(tag, attrs, value)

LeavesKept(A, X, element, old, e, s) == \E f : Kept(e, f) /\ Read(A, X, element, Reading(old, e), s) = Reading(old, f)

(* Children that are none of title, class and resource leave these alone.  *)
LEMMA ReadDull ==
  ASSUME NEW A, NEW X, Vocabulary(A, X), NEW old, IsSeq(old), NEW e, IsEntry(e), NEW element \in Kinds,
         NEW s, DullDocuments(A, X, s)
  PROVE  LeavesKept(A, X, element, old, e, s)
<1>0. Null \in A /\ Null \in X /\ Indent \in X /\ element \in Names
  BY DEF Vocabulary, Kinds, Names
<1>1. Documents(A, X, s) /\ Len(s) \in Nat /\ DOMAIN s = 1 .. Len(s)
  <2>1. Documents(A, X, s)
    BY DEF DullDocuments
  <2>2. PICK T : T = Seq(Tags(A, X))
    OBVIOUS
  <2>3. s \in Seq(T)
    BY <2>1, <2>2 DEF Documents
  <2>4. QED
    BY <2>1, <2>3
<1> DEFINE H(k) == Heard(SubSeq(s, 1, k))
           Good == {k \in Nat : k <= Len(s) => \E f : Kept(e, f) /\ After(Reading(old, e), Deep(A, X, element, H(k))) = Reading(old, f)}
<1>2. /\ Heard(SubSeq(s, 1, 0)) = << >> /\ SubSeq(s, 1, Len(s)) = s
      /\ \A k \in Nat : k <= Len(s) => Heard(SubSeq(s, 1, k)) \in Seq(CallbackSet(A, X))
      /\ \A k \in Nat : k < Len(s) => Heard(SubSeq(s, 1, k + 1)) = Heard(SubSeq(s, 1, k)) \o Callbacks(s[k + 1])
  <2>1. /\ FlattenSeq(SubSeq(s, 1, 0)) = << >> /\ SubSeq(s, 1, Len(s)) = s
        /\ \A k \in Nat : k <= Len(s) => FlattenSeq(SubSeq(s, 1, k)) \in Seq(Tags(A, X))
        /\ \A k \in Nat : k < Len(s) => Heard(SubSeq(s, 1, k + 1)) = Heard(SubSeq(s, 1, k)) \o Callbacks(s[k + 1])
    BY <1>0, <1>1, DocumentsWhole, Zenon
  <2>2. \A d \in Seq(Tags(A, X)) : Callbacks(d) \in Seq(CallbackSet(A, X))
    BY <1>0, CallbackTypes
  <2>3. QED
    BY <2>1, <2>2, NoneHeard DEF Heard
<1>3. 0 \in Good
  <2>1. Mapped(Deeper(A, X, element), << >>) = << >>
    BY DEF Mapped
  <2>2. Mapped(Deeper(A, X, "DIDL-Lite"), << >>) = << >>
    BY DEF Mapped
  <2>3. Deep(A, X, element, << >>) = << >>
    BY <2>1, <2>2 DEF Deep
  <2>4. After(Reading(old, e), Deep(A, X, element, H(0))) = Reading(old, e)
    BY <1>2, <2>3, AfterNone
  <2>5. Kept(e, e)
    BY DEF Kept
  <2>6. QED
    BY <2>4, <2>5
<1>4. ASSUME NEW k \in Nat, k < Len(s), k \in Good PROVE k + 1 \in Good
  <2>1. PICK f : Kept(e, f) /\ After(Reading(old, e), Deep(A, X, element, H(k))) = Reading(old, f)
    BY <1>1, <1>4
  <2>2. k + 1 \in DOMAIN s
    BY <1>1, <1>4
  <2>3. PICK tag \in Dull, attrs \in A, value \in X \ {Null} : s[k + 1] = LeafWith(tag, attrs, value)
    BY <2>2 DEF DullDocuments
  <2>4. tag \in Names /\ value \in X /\ value # Null
    BY DEF Names
  <2>5. PICK c : c = [path |-> << tag >>, attrs |-> attrs, value |-> value]
    OBVIOUS
  <2>6. Callbacks(s[k + 1]) = << c >>
    <3>1. IsLeaf(A, X, tag, attrs, value)
      BY <1>0, <2>4, CallsOfLeaf
    <3>2. QED
      BY <2>3, <2>5, <3>1 DEF IsLeaf
  <2>7. PICK h, d : h = H(k) /\ d = CallFor(element, tag, attrs, value)
    OBVIOUS
  <2>8. h \in Seq(CallbackSet(A, X)) /\ << c >> \in Seq(CallbackSet(A, X))
    <3>1. c \in CallbackSet(A, X)
      BY <2>4, <2>5 DEF CallbackSet
    <3>2. k <= Len(s)
      BY <1>1, <1>4
    <3>3. QED
      BY <1>2, <2>7, <3>1, <3>2
  <2>9. H(k + 1) = h \o << c >>
    BY <1>2, <1>4, <2>6, <2>7
  <2>10. Deep(A, X, element, << c >>) = << d >>
    BY <1>0, <2>4, <2>5, <2>7, DeepOne DEF CallFor
  <2>11. PICK a, b : a = Deep(A, X, element, h) /\ b = Deep(A, X, element, << c >>)
    OBVIOUS
  <2>12. a \in Seq(CallbackSet(A, X)) /\ b \in Seq(CallbackSet(A, X)) /\ Deep(A, X, element, h \o << c >>) = a \o b
    BY <1>0, <2>8, <2>11, DeepBoth
  <2>13. After(Reading(old, e), a \o b) = After(Reading(old, f), << d >>)
    <3>1. After(Reading(old, e), a \o b) = After(After(Reading(old, e), a), b)
      BY <2>12, AfterBoth
    <3>2. QED
      BY <2>1, <2>7, <2>10, <2>11, <3>1
  <2>14. PICK g : g = Noted(f, element, tag, d)
    OBVIOUS
  <2>15. After(Reading(old, f), << d >>) = Reading(old, g)
    <3>1. d.path = << "DIDL-Lite", element, tag >> /\ d.value # Null
      BY <2>4, <2>7 DEF CallFor
    <3>2. entry_parser_callback(Reading(old, f), d) = Reading(old, Noted(f, element, tag, d))
      BY <2>4, <3>1, CallOfElement
    <3>3. QED
      BY <2>14, <3>2, AfterOne
  <2>16. Kept(e, g)
    <3>1. IsEntry(f)
      BY <2>1 DEF Kept
    <3>2. Kept(f, g)
      BY <2>14, <3>1, DullNoted
    <3>3. QED
      BY <2>1, <3>2, KeptTwice
  <2>17. After(Reading(old, e), Deep(A, X, element, H(k + 1))) = Reading(old, g)
    BY <2>9, <2>12, <2>13, <2>15
  <2>18. QED
    BY <2>16, <2>17
<1> HIDE DEF Good, H
<1>5. \A k \in 0 .. Len(s) : k \in Good
  BY <1>1, <1>3, <1>4, UpTo
<1>6. Len(s) \in Good /\ Len(s) <= Len(s)
  BY <1>1, <1>5
<1>7. PICK f : Kept(e, f) /\ After(Reading(old, e), Deep(A, X, element, H(Len(s)))) = Reading(old, f)
  BY <1>6 DEF Good
<1>8. H(Len(s)) = Heard(s)
  BY <1>2 DEF H
<1>9. QED
  BY <1>7, <1>8 DEF LeavesKept, Read

(* Such children, and more of them.                                        *)
LEMMA DullBoth ==
  ASSUME NEW A, NEW X, NEW s, DullDocuments(A, X, s), NEW t, DullDocuments(A, X, t)
  PROVE  DullDocuments(A, X, s \o t)
<1>1. PICK T : T = Seq(Tags(A, X))
  OBVIOUS
<1>2. Documents(A, X, s) /\ Documents(A, X, t) /\ s \in Seq(T) /\ t \in Seq(T)
  BY <1>1 DEF DullDocuments, Documents
<1>3. PICK u, m, n : u = s \o t /\ m = Len(s) /\ n = Len(t)
  OBVIOUS
<1>4. /\ DOMAIN u = 1 .. m + n /\ m \in Nat /\ n \in Nat
      /\ DOMAIN s = 1 .. m /\ DOMAIN t = 1 .. n
      /\ (\A i \in 1 .. m : u[i] = s[i]) /\ (\A i \in 1 .. n : u[m + i] = t[i])
  BY <1>2, <1>3
<1>5. ASSUME NEW i \in 1 .. m + n PROVE \E tag \in Dull, attrs \in A, value \in X \ {Null} : u[i] = LeafWith(tag, attrs, value)
  <2>1. CASE i \in 1 .. m
    BY <1>4, <2>1 DEF DullDocuments
  <2>2. CASE i \notin 1 .. m
    <3>1. i - m \in 1 .. n /\ i = m + (i - m)
      BY <1>4, <2>2
    <3>2. u[i] = t[i - m] /\ i - m \in DOMAIN t
      BY <1>4, <3>1
    <3>3. QED
      BY <3>2 DEF DullDocuments
  <2>3. QED
    BY <2>1, <2>2
<1>6. Documents(A, X, u)
  BY <1>2, <1>3, DocumentsBoth
<1>7. QED
  BY <1>3, <1>4, <1>5, <1>6 DEF DullDocuments

(* Such children with the same text.                                       *)
LEMMA DullLeaves ==
  ASSUME NEW A, NEW X, Vocabulary(A, X), NEW tags \in Seq(Dull), NEW text \in X, text # Null
  PROVE  DullDocuments(A, X, Leaves(tags, text))
<1>1. PICK s, n : s = Leaves(tags, text) /\ n = Len(tags)
  OBVIOUS
<1>2. n \in Nat /\ DOMAIN s = 1 .. n /\ \A i \in 1 .. n : tags[i] \in Dull /\ s[i] = LeafWith(tags[i], Null, text)
  BY <1>1 DEF Leaves, Leaf
<1>3. Null \in A /\ Null \in X /\ Indent \in X
  BY DEF Vocabulary
<1>4. ASSUME NEW i \in 1 .. n PROVE s[i] \in Seq(Tags(A, X)) /\ Whole(s[i])
  <2>1. tags[i] \in Names
    BY <1>2 DEF Names
  <2>2. IsLeaf(A, X, tags[i], Null, text)
    BY <1>3, <2>1, CallsOfLeaf
  <2>3. QED
    BY <1>2, <2>2 DEF IsLeaf
<1>5. s = [i \in 1 .. n |-> s[i]]
  BY <1>1, <1>2 DEF Leaves
<1>6. s \in Seq(Seq(Tags(A, X)))
  <2>1. s \in [1 .. n -> Seq(Tags(A, X))]
    BY <1>4, <1>5
  <2>2. QED
    BY <1>2, <2>1, FunctionIsSequence
<1>7. AllWhole(s)
  BY <1>2, <1>4 DEF AllWhole
<1>8. QED
  BY <1>1, <1>2, <1>3, <1>6, <1>7 DEF DullDocuments, Documents

(* One such child.                                                         *)
LEMMA DullOne ==
  ASSUME NEW A, NEW X, Vocabulary(A, X), NEW tag \in Dull, NEW text \in X, text # Null
  PROVE  DullDocuments(A, X, << Leaf(tag, text) >>)
<1>1. PICK d, s : d = LeafWith(tag, Null, text) /\ s = << d >>
  OBVIOUS
<1>2. Null \in A /\ Null \in X /\ Indent \in X /\ tag \in Names
  BY DEF Vocabulary, Names
<1>3. d \in Seq(Tags(A, X)) /\ Whole(d)
  BY <1>1, <1>2, CallsOfLeaf DEF IsLeaf
<1>4. Documents(A, X, s)
  BY <1>1, <1>3, DocumentsOne
<1>5. DOMAIN s = {1} /\ s[1] = d
  BY <1>1
<1>6. QED
  BY <1>1, <1>2, <1>4, <1>5 DEF DullDocuments, Leaf

(* Two such children.                                                      *)
LEMMA DullTwo ==
  ASSUME NEW A, NEW X, Vocabulary(A, X), NEW tag \in Dull, NEW text \in X, text # Null, NEW tag2 \in Dull, NEW text2 \in X, text2 # Null
  PROVE  DullDocuments(A, X, << Leaf(tag, text), Leaf(tag2, text2) >>)
<1>1. PICK d, e : d = Leaf(tag, text) /\ e = Leaf(tag2, text2)
  OBVIOUS
<1>2. DullDocuments(A, X, << d >>) /\ DullDocuments(A, X, << e >>)
  BY <1>1, DullOne
<1>3. PICK s, t : s = << d >> /\ t = << e >>
  OBVIOUS
<1>4. DullDocuments(A, X, s \o t)
  BY <1>2, <1>3, DullBoth
<1>5. s \o t = << d, e >>
  BY <1>3, TuplesConcat
<1>6. QED
  BY <1>1, <1>4, <1>5

\* The texts and the attributes of an entry.
ItemAttrs(id, parentid) == [id |-> id, parentID |-> parentid, restricted |-> "true"]
FolderAttrs(id, parentid) == With(With(ItemAttrs(id, parentid), "childCount", 0), "searchable", "false")
ResAttrs(id, type) == LET attrs == [protocolInfo |-> << "http-get", type >>, size |-> << id >>]
                      IN IF type = "movie" THEN With(attrs, "duration", << "duration" >>) ELSE attrs

\* The attributes and texts of an entry.
TextsOf(A, X, id, parentid, type, title) ==
  /\ Vocabulary(A, X)
  /\ Printed \in X /\ << 0 >> \in X /\ << "date" >> \in X /\ << "http://", id >> \in X /\ << ClassOf[type] >> \in X /\ title \in X
  /\ title # Null
  /\ ItemAttrs(id, parentid) \in A /\ FolderAttrs(id, parentid) \in A /\ ResAttrs(id, type) \in A

Kind(type) == IF type = Folder THEN "container" ELSE "item"

(* The elements that the server writes besides.                            *)
LEMMA DullTuples ==
  /\ << "upnp:artist", "upnp:album" >> \in Seq(Dull)
  /\ << "upnp:playlist", "upnp:genre", "upnp:longDescription" >> \in Seq(Dull)
  /\ << "upnp:genre", "upnp:longDescription", "upnp:producer", "upnp:rating", "upnp:actor", "upnp:director" >> \in Seq(Dull)
  /\ << "upnp:longdescription", "upnp:storagemedium" >> \in Seq(Dull)
  /\ DublinCore \in Seq(Dull)
<1>1. /\ << "upnp:artist", "upnp:album" >> \in Seq(Dull)
      /\ << "upnp:longdescription", "upnp:storagemedium" >> \in Seq(Dull)
  BY DEF Dull
<1>2. << "upnp:playlist", "upnp:genre", "upnp:longDescription" >> \in Seq(Dull)
  BY DEF Dull
<1>3. << "upnp:genre", "upnp:longDescription", "upnp:producer", "upnp:rating", "upnp:actor", "upnp:director" >> \in Seq(Dull)
  BY DEF Dull
<1>4. DublinCore \in Seq(Dull)
  BY DEF Dull, DublinCore
<1>5. QED
  BY <1>1, <1>2, <1>3, <1>4

(* What the server writes besides about a track, a movie or a photo.       *)
LEMMA DullDetails ==
  ASSUME NEW A, NEW X, Vocabulary(A, X), Printed \in X, << 0 >> \in X, NEW type \in {"musicTrack", "movie", "photo"}
  PROVE  DullDocuments(A, X, Details(type))
<1>1. Printed # Null /\ << 0 >> # Null
  BY DEF Printed, Null
<1>2. "upnp:originalTrackNumber" \in Dull /\ "upnp:rating" \in Dull /\ "upnp:album" \in Dull
  BY DEF Dull
<1>3. \A tags \in Seq(Dull) : DullDocuments(A, X, Leaves(tags, Printed))
  BY <1>1, DullLeaves
<1>4. CASE type = "musicTrack"
  <2>1. PICK a, b, c : /\ a = Leaves(<< "upnp:artist", "upnp:album" >>, Printed) /\ b = << Leaf("upnp:originalTrackNumber", << 0 >>) >>
                       /\ c = Leaves(<< "upnp:playlist", "upnp:genre", "upnp:longDescription" >>, Printed)
    OBVIOUS
  <2>2. DullDocuments(A, X, a) /\ DullDocuments(A, X, c)
    BY <1>3, <2>1, DullTuples
  <2>3. DullDocuments(A, X, b)
    BY <1>1, <1>2, <2>1, DullOne
  <2>4. DullDocuments(A, X, (a \o b) \o c)
    BY <2>2, <2>3, DullBoth
  <2>5. Details(type) = (a \o b) \o c
    BY <1>4, <2>1, Zenon DEF Details
  <2>6. QED
    BY <2>4, <2>5
<1>5. CASE type = "movie"
  <2>1. Details(type) = Leaves(<< "upnp:genre", "upnp:longDescription", "upnp:producer", "upnp:rating", "upnp:actor", "upnp:director" >>, Printed)
    BY <1>5 DEF Details
  <2>2. QED
    BY <1>3, <2>1, DullTuples
<1>6. CASE type = "photo"
  <2>1. PICK a, b : /\ a = Leaves(<< "upnp:longdescription", "upnp:storagemedium" >>, Printed)
                    /\ b = << Leaf("upnp:rating", << 0 >>), Leaf("upnp:album", Printed) >>
    OBVIOUS
  <2>2. DullDocuments(A, X, a)
    BY <1>3, <2>1, DullTuples
  <2>3. DullDocuments(A, X, b)
    BY <1>1, <1>2, <2>1, DullTwo
  <2>4. DullDocuments(A, X, a \o b)
    BY <2>2, <2>3, DullBoth
  <2>5. Details(type) = a \o b
    BY <1>6, <2>1 DEF Details
  <2>6. QED
    BY <2>4, <2>5
<1>7. QED
  BY <1>4, <1>5, <1>6

\* An entry as it is listed: so far, with its title, with its class, with its url.
Begun(e, id, parentid) == IsEntry(e) /\ e.id = id /\ e.parentid = parentid /\ e.restricted = 1
Titled(e, title) == "dc:title" \in DOMAIN e.texts /\ e.texts["dc:title"] = title

(* The title is noted.                                                     *)
LEMMA TitleNoted ==
  ASSUME NEW id, NEW parentid, NEW e, Begun(e, id, parentid), NEW element, NEW call
  PROVE  LET f == Noted(e, element, "dc:title", call)
         IN Begun(f, id, parentid) /\ Titled(f, call.value) /\ f.res = e.res
<1>1. PICK f, texts : f = Noted(e, element, "dc:title", call) /\ texts = With(e.texts, "dc:title", call.value)
  OBVIOUS
<1>2. f = [e EXCEPT !.texts = texts]
  BY <1>1, Zenon DEF Noted
<1>3. "dc:title" \in DOMAIN texts /\ texts["dc:title"] = call.value
  BY <1>1, TextsKept
<1>4. f = [id |-> e.id, parentid |-> e.parentid, type |-> e.type, texts |-> texts, res |-> e.res,
           resattrs |-> e.resattrs, restricted |-> e.restricted]
  BY <1>2 DEF Begun, IsEntry
<1>5. QED
  BY <1>1, <1>3, <1>4 DEF Begun, IsEntry, Titled

(* A type is found again by its class.                                     *)
LEMMA ClassKnown == \A type \in DOMAIN ClassOf : entry_upnp_type_from_class(ClassOf[type]) = type
<1>1. ASSUME NEW type \in DOMAIN ClassOf PROVE entry_upnp_type_from_class(ClassOf[type]) = type
  <2>1. ClassOf[type] \in Range(ClassOf)
    BY DEF Range
  <2>2. \A t \in DOMAIN ClassOf : ClassOf[t] = ClassOf[type] => t = type
    BY DEF ClassOf
  <2>3. (CHOOSE t \in DOMAIN ClassOf : ClassOf[t] = ClassOf[type]) = type
    BY <2>2
  <2>4. QED
    BY <2>1, <2>3 DEF entry_upnp_type_from_class
<1>2. QED
  BY <1>1

(* The class is noted, as a type.                                          *)
LEMMA ClassNoted ==
  ASSUME NEW id, NEW parentid, NEW title, NEW e, Begun(e, id, parentid), Titled(e, title), NEW element, NEW call,
         NEW type \in DOMAIN ClassOf, call.value = << ClassOf[type] >>
  PROVE  LET f == Noted(e, element, "upnp:class", call)
         IN Begun(f, id, parentid) /\ Titled(f, title) /\ f.type = type /\ f.res = e.res
<1>1. PICK f : f = Noted(e, element, "upnp:class", call)
  OBVIOUS
<1>2. call.value[1] = ClassOf[type]
  OBVIOUS
<1>3. f = [e EXCEPT !.type = type]
  <2>1. f = [e EXCEPT !.type = entry_upnp_type_from_class(call.value[1])]
    <3>1. "upnp:class" \notin KeptOfItem \cup KeptOfType(e.type)
      BY DEF KeptOfItem, KeptOfType
    <3>2. QED
      BY <1>1, <3>1 DEF Noted
  <2>2. entry_upnp_type_from_class(call.value[1]) = type
    BY <1>2, ClassKnown
  <2>3. QED
    BY <2>1, <2>2
<1>4. f = [id |-> e.id, parentid |-> e.parentid, type |-> type, texts |-> e.texts, res |-> e.res,
           resattrs |-> e.resattrs, restricted |-> e.restricted]
  BY <1>3 DEF Begun, IsEntry
<1>5. QED
  BY <1>1, <1>4 DEF Begun, IsEntry, Titled

(* The resource is noted.                                                  *)
LEMMA ResourceNoted ==
  ASSUME NEW id, NEW parentid, NEW title, NEW e, Begun(e, id, parentid), Titled(e, title), e.res = Null, NEW call,
         call.value = << "http://", id >>
  PROVE  LET f == Noted(e, "item", "res", call)
         IN Begun(f, id, parentid) /\ Titled(f, title) /\ f.type = e.type /\ f.res = << "http://", id >>
<1>1. PICK f : f = Noted(e, "item", "res", call)
  OBVIOUS
<1>2. Head(call.value) = "http://"
  OBVIOUS
<1>3. "res" \notin KeptOfItem \cup KeptOfType(e.type)
  BY DEF KeptOfItem, KeptOfType
<1>4. f = [e EXCEPT !.res = call.value, !.resattrs = call.attrs]
  BY <1>1, <1>2, <1>3 DEF Noted
<1>5. f = [id |-> e.id, parentid |-> e.parentid, type |-> e.type, texts |-> e.texts, res |-> call.value,
           resattrs |-> call.attrs, restricted |-> e.restricted]
  BY <1>4 DEF Begun, IsEntry
<1>6. QED
  BY <1>1, <1>5 DEF Begun, IsEntry, Titled

\* An entry is listed as the server has it.
EntryListed(e, id, parentid, type, title) ==
  Begun(e, id, parentid) /\ Titled(e, title) /\ e.type = type /\ (type # Folder => e.res = << "http://", id >>)

\* What is read of an entry, after others.
EntryReads(A, X, id, parentid, type, title) ==
  LET d == EntryText(DidlFromPath(id, parentid, type, title))
  IN /\ d \in Seq(Tags(A, X)) /\ Whole(d)
     /\ \A old : IsSeq(old) => \A current :
          \E e : /\ EntryListed(e, id, parentid, type, title)
                 /\ After([entries |-> old, current |-> current], Mapped(Deeper(A, X, "DIDL-Lite"), Callbacks(d))) = Reading(old, e)

(* The title of an entry is read.                                          *)
LEMMA ReadTitle ==
  ASSUME NEW A, NEW X, Vocabulary(A, X), NEW old, IsSeq(old), NEW id, NEW parentid, NEW e, Begun(e, id, parentid), NEW element \in Kinds,
         NEW title \in X \ {Null}
  PROVE  /\ Documents(A, X, << Leaf("dc:title", title) >>)
         /\ \E f : /\ Begun(f, id, parentid) /\ Titled(f, title) /\ f.res = e.res
                   /\ Read(A, X, element, Reading(old, e), << Leaf("dc:title", title) >>) = Reading(old, f)
<1>1. PICK c : c = [path |-> << "DIDL-Lite", element, "dc:title" >>, attrs |-> Null, value |-> title]
  OBVIOUS
<1>2. Null \in A /\ "dc:title" \in Names
  BY DEF Vocabulary, Names
<1>3. ReadsOne(A, X, element, old, e, "dc:title", Null, title)
  BY <1>2, ReadOne
<1>4. PICK f : f = Noted(e, element, "dc:title", c)
  OBVIOUS
<1>5. Begun(f, id, parentid) /\ Titled(f, c.value) /\ f.res = e.res
  BY <1>4, TitleNoted
<1>6. c.value = title
  BY <1>1
<1>7. Read(A, X, element, Reading(old, e), << Leaf("dc:title", title) >>) = Reading(old, f) /\ Documents(A, X, << Leaf("dc:title", title) >>)
  BY <1>1, <1>3, <1>4, Zenon DEF ReadsOne, Leaf
<1>8. QED
  BY <1>5, <1>6, <1>7

(* The class of an entry is read.                                          *)
LEMMA ReadClass ==
  ASSUME NEW A, NEW X, Vocabulary(A, X), NEW old, IsSeq(old), NEW id, NEW parentid, NEW title, NEW e, Begun(e, id, parentid), Titled(e, title),
         NEW element \in Kinds, NEW type \in DOMAIN ClassOf, << ClassOf[type] >> \in X
  PROVE  /\ Documents(A, X, << Leaf("upnp:class", << ClassOf[type] >>) >>)
         /\ \E f : /\ Begun(f, id, parentid) /\ Titled(f, title) /\ f.type = type /\ f.res = e.res
                   /\ Read(A, X, element, Reading(old, e), << Leaf("upnp:class", << ClassOf[type] >>) >>) = Reading(old, f)
<1>1. PICK v, c : v = << ClassOf[type] >> /\ c = [path |-> << "DIDL-Lite", element, "upnp:class" >>, attrs |-> Null, value |-> v]
  OBVIOUS
<1>2. Null \in A /\ "upnp:class" \in Names /\ v \in X \ {Null}
  BY <1>1 DEF Vocabulary, Names, Null
<1>3. ReadsOne(A, X, element, old, e, "upnp:class", Null, v)
  BY <1>2, ReadOne
<1>4. PICK f : f = Noted(e, element, "upnp:class", c)
  OBVIOUS
<1>5. c.value = << ClassOf[type] >>
  BY <1>1
<1>6. Begun(f, id, parentid) /\ Titled(f, title) /\ f.type = type /\ f.res = e.res
  BY <1>4, <1>5, ClassNoted
<1>7. Read(A, X, element, Reading(old, e), << Leaf("upnp:class", v) >>) = Reading(old, f) /\ Documents(A, X, << Leaf("upnp:class", v) >>)
  BY <1>1, <1>3, <1>4, Zenon DEF ReadsOne, Leaf
<1>8. QED
  BY <1>1, <1>6, <1>7

(* The resource of an entry is read.                                       *)
LEMMA ReadResource ==
  ASSUME NEW A, NEW X, Vocabulary(A, X), NEW old, IsSeq(old), NEW id, NEW parentid, NEW title, NEW type, NEW e, Begun(e, id, parentid), Titled(e, title),
         e.res = Null, e.type = type, NEW attrs \in A, << "http://", id >> \in X
  PROVE  /\ Documents(A, X, << LeafWith("res", attrs, << "http://", id >>) >>)
         /\ \E f : /\ Begun(f, id, parentid) /\ Titled(f, title) /\ f.type = type /\ f.res = << "http://", id >>
                   /\ Read(A, X, "item", Reading(old, e), << LeafWith("res", attrs, << "http://", id >>) >>) = Reading(old, f)
<1>1. PICK v, c : v = << "http://", id >> /\ c = [path |-> << "DIDL-Lite", "item", "res" >>, attrs |-> attrs, value |-> v]
  OBVIOUS
<1>2. "item" \in Kinds /\ "res" \in Names /\ v \in X \ {Null}
  BY <1>1 DEF Kinds, Names, Null
<1>3. ReadsOne(A, X, "item", old, e, "res", attrs, v)
  BY <1>2, ReadOne
<1>4. PICK f : f = Noted(e, "item", "res", c)
  OBVIOUS
<1>5. c.value = << "http://", id >>
  BY <1>1
<1>6. Begun(f, id, parentid) /\ Titled(f, title) /\ f.type = type /\ f.res = << "http://", id >>
  BY <1>4, <1>5, ResourceNoted
<1>7. Read(A, X, "item", Reading(old, e), << LeafWith("res", attrs, v) >>) = Reading(old, f) /\ Documents(A, X, << LeafWith("res", attrs, v) >>)
  BY <1>1, <1>3, <1>4, Zenon DEF ReadsOne
<1>8. QED
  BY <1>1, <1>6, <1>7

\* A call with the attributes of an entry begins one.
EntryAttrs(id, parentid) == {ItemAttrs(id, parentid), FolderAttrs(id, parentid)}
Begins(id, parentid, old, current, element, v, attrs) ==
  LET c == [path |-> << "DIDL-Lite", element >>, attrs |-> attrs, value |-> v]
  IN \E e : /\ Begun(e, id, parentid) /\ e.res = Null
            /\ After([entries |-> old, current |-> current], << c >>) = Reading(old, e)

(* The element of an entry, before its children, begins a new entry.       *)
LEMMA EntryBegins ==
  ASSUME NEW id, NEW parentid, NEW old, NEW current, NEW element \in Kinds, NEW v, NEW attrs \in EntryAttrs(id, parentid)
  PROVE  Begins(id, parentid, old, current, element, v, attrs)
<1>1. PICK c, e, data : /\ c = [path |-> << "DIDL-Lite", element >>, attrs |-> attrs, value |-> v] /\ e = NewEntry(attrs)
                        /\ data = [entries |-> old, current |-> current]
  OBVIOUS
<1>2. /\ {"id", "parentID", "restricted"} \subseteq DOMAIN attrs
      /\ attrs.id = id /\ attrs.parentID = parentid /\ attrs.restricted = "true"
  <2>1. PICK a, b, d : a = ItemAttrs(id, parentid) /\ b = With(a, "childCount", 0) /\ d = With(b, "searchable", "false")
    OBVIOUS
  <2>2. {"id", "parentID", "restricted"} \subseteq DOMAIN a /\ a["id"] = id /\ a["parentID"] = parentid /\ a["restricted"] = "true"
    BY <2>1 DEF ItemAttrs
  <2>3. {"id", "parentID", "restricted"} \subseteq DOMAIN b /\ b["id"] = id /\ b["parentID"] = parentid /\ b["restricted"] = "true"
    BY <2>1, <2>2, TextsKept
  <2>4. {"id", "parentID", "restricted"} \subseteq DOMAIN d /\ d["id"] = id /\ d["parentID"] = parentid /\ d["restricted"] = "true"
    BY <2>1, <2>3, TextsKept
  <2>5. attrs = a \/ attrs = d
    BY <2>1 DEF FolderAttrs, EntryAttrs
  <2>6. QED
    BY <2>2, <2>4, <2>5
<1>3. e = [id |-> id, parentid |-> parentid, type |-> "unknown", texts |-> << >>, res |-> Null, resattrs |-> Null, restricted |-> 1]
  BY <1>1, <1>2 DEF NewEntry
<1>4. Begun(e, id, parentid) /\ e.res = Null
  BY <1>3 DEF Begun, IsEntry
<1>5. c.path \in {<< "DIDL-Lite", "item" >>, << "DIDL-Lite", "container" >>} /\ c.attrs = attrs
  BY <1>1 DEF Kinds
<1>6. entry_parser_callback(data, c) = [entries |-> Append(data.entries, NewEntry(c.attrs)), current |-> TRUE]
  <2>1. {"id", "parentID"} \subseteq DOMAIN c.attrs
    BY <1>2, <1>5
  <2>2. Len(c.path) # 3
    BY <1>5
  <2>3. QED
    BY <1>5, <2>1, <2>2, Zenon DEF entry_parser_callback
<1>7. data.entries = old
  BY <1>1
<1>8. After(data, << c >>) = Reading(old, e)
  BY <1>1, <1>5, <1>6, <1>7, AfterOne, Zenon DEF Reading
<1>9. QED
  BY <1>1, <1>4, <1>8 DEF Begins

\* The two kinds of entries, their elements one after the other.
FolderElements(title) == << Leaf("dc:title", title), Leaf("upnp:class", << ClassOf[Folder] >>), Leaf("upnp:storageUsed", << 0 >>) >>
ItemElements(id, type, title) ==
  << Leaf("dc:title", title), Leaf("dc:contributor", Printed), Leaf("dc:date", << "date" >>) >> \o Leaves(DublinCore, Printed)
    \o << Leaf("upnp:class", << ClassOf[type] >>) >> \o Details(type) \o << LeafWith("res", ResAttrs(id, type), << "http://", id >>) >>

\* What is read of the elements of an entry that has begun.
ElementsRead(A, X, id, parentid, type, title, kind, s) ==
  /\ Documents(A, X, s)
  /\ \A old, e : IsSeq(old) /\ Begun(e, id, parentid) /\ e.res = Null =>
       \E f : EntryListed(f, id, parentid, type, title) /\ Read(A, X, kind, Reading(old, e), s) = Reading(old, f)

(* The elements of a folder are read as the folder.                        *)
LEMMA FolderReads ==
  ASSUME NEW A, NEW X, NEW id, NEW parentid, NEW title, TextsOf(A, X, id, parentid, Folder, title)
  PROVE  ElementsRead(A, X, id, parentid, Folder, title, "container", FolderElements(title))
<1>1. PICK t, c, u, s : /\ t = Leaf("dc:title", title) /\ c = Leaf("upnp:class", << ClassOf[Folder] >>) /\ u = Leaf("upnp:storageUsed", << 0 >>)
                        /\ s = << t, c, u >>
  OBVIOUS
<1>2. /\ Vocabulary(A, X) /\ title \in X \ {Null} /\ << ClassOf[Folder] >> \in X /\ << 0 >> \in X /\ << 0 >> # Null
      /\ Folder \in DOMAIN ClassOf /\ "upnp:storageUsed" \in Dull /\ "container" \in Kinds /\ "container" \in Names /\ Null \in X
  BY DEF TextsOf, Vocabulary, Folder, ClassOf, Dull, Kinds, Names, Null
<1>3. DullDocuments(A, X, << u >>)
  BY <1>1, <1>2, DullOne
<1>4. PICK ts, cs, us : ts = << t >> /\ cs = << c >> /\ us = << u >>
  OBVIOUS
<1>5. s = ts \o (cs \o us)
  BY <1>1, <1>4, TuplesConcat
<1>6. \A old, e : IsSeq(old) /\ Begun(e, id, parentid) =>
        /\ Documents(A, X, ts)
        /\ \E f : Begun(f, id, parentid) /\ Titled(f, title) /\ f.res = e.res /\ Read(A, X, "container", Reading(old, e), ts) = Reading(old, f)
  BY <1>1, <1>2, <1>4, ReadTitle
<1>7. \A old, e : IsSeq(old) /\ Begun(e, id, parentid) /\ Titled(e, title) =>
        /\ Documents(A, X, cs)
        /\ \E f : /\ Begun(f, id, parentid) /\ Titled(f, title) /\ f.type = Folder /\ f.res = e.res
                  /\ Read(A, X, "container", Reading(old, e), cs) = Reading(old, f)
  BY <1>1, <1>2, <1>4, ReadClass
<1>8. \A old, e : IsSeq(old) /\ IsEntry(e) => LeavesKept(A, X, "container", old, e, us)
  BY <1>2, <1>3, <1>4, ReadDull
<1>9. Documents(A, X, ts) /\ Documents(A, X, cs) /\ Documents(A, X, us)
  <2>1. IsSeq(<< >>)
    BY DEF IsSeq
  <2>2. Begun(NewEntry(ItemAttrs(id, parentid)), id, parentid)
    BY DEF Begun, IsEntry, NewEntry, ItemAttrs
  <2>3. Documents(A, X, ts)
    BY <1>6, <2>1, <2>2
  <2>4. \E f : Begun(f, id, parentid) /\ Titled(f, title)
    BY <1>6, <2>1, <2>2
  <2>5. Documents(A, X, cs)
    BY <1>7, <2>1, <2>4
  <2>6. QED
    BY <1>3, <1>4, <2>3, <2>5 DEF DullDocuments
<1>10. Documents(A, X, cs \o us) /\ Documents(A, X, ts \o (cs \o us))
  BY <1>9, DocumentsBoth
<1>11. ASSUME NEW old, NEW e, IsSeq(old), Begun(e, id, parentid)
       PROVE  \E f : EntryListed(f, id, parentid, Folder, title) /\ Read(A, X, "container", Reading(old, e), s) = Reading(old, f)
  <2>1. PICK f : Begun(f, id, parentid) /\ Titled(f, title) /\ Read(A, X, "container", Reading(old, e), ts) = Reading(old, f)
    BY <1>6, <1>11
  <2>2. PICK g : Begun(g, id, parentid) /\ Titled(g, title) /\ g.type = Folder /\ Read(A, X, "container", Reading(old, f), cs) = Reading(old, g)
    BY <1>7, <1>11, <2>1
  <2>3. PICK h : Kept(g, h) /\ Read(A, X, "container", Reading(old, g), us) = Reading(old, h)
    BY <1>8, <1>11, <2>2 DEF LeavesKept, Begun
  <2>4. EntryListed(h, id, parentid, Folder, title)
    BY <2>2, <2>3 DEF EntryListed, Begun, Titled, Kept
  <2>5. PICK w : w = cs \o us
    OBVIOUS
  <2>6. Read(A, X, "container", Reading(old, e), ts \o w) = Read(A, X, "container", Read(A, X, "container", Reading(old, e), ts), w)
    BY <1>2, <1>9, <1>10, <2>5, ReadBoth DEF ReadsApart
  <2>7. Read(A, X, "container", Reading(old, f), cs \o us) = Read(A, X, "container", Read(A, X, "container", Reading(old, f), cs), us)
    BY <1>2, <1>9, ReadBoth DEF ReadsApart
  <2>8. Read(A, X, "container", Reading(old, e), s) = Reading(old, h)
    BY <1>5, <2>1, <2>2, <2>3, <2>5, <2>6, <2>7
  <2>9. QED
    BY <2>4, <2>8
<1>12. QED
  BY <1>1, <1>5, <1>10, <1>11 DEF ElementsRead, FolderElements

(* The elements of a file are read as the file.                            *)
LEMMA ItemReads ==
  ASSUME NEW A, NEW X, NEW id, NEW parentid, NEW type \in {"musicTrack", "movie", "photo"}, NEW title, TextsOf(A, X, id, parentid, type, title)
  PROVE  ElementsRead(A, X, id, parentid, type, title, "item", ItemElements(id, type, title))
<1>1. PICK t, u, ts, cs, us, ls, ds, rs :
        /\ t = Leaf("dc:title", title) /\ u = << Leaf("dc:contributor", Printed), Leaf("dc:date", << "date" >>) >>
        /\ ts = << t >> /\ us = << t, Leaf("dc:contributor", Printed), Leaf("dc:date", << "date" >>) >>
        /\ ls = Leaves(DublinCore, Printed) /\ cs = << Leaf("upnp:class", << ClassOf[type] >>) >>
        /\ ds = Details(type) /\ rs = << LeafWith("res", ResAttrs(id, type), << "http://", id >>) >>
  OBVIOUS
<1>2. /\ Vocabulary(A, X) /\ title \in X \ {Null} /\ << ClassOf[type] >> \in X /\ << 0 >> \in X /\ Printed \in X /\ << "date" >> \in X
      /\ << "http://", id >> \in X /\ ResAttrs(id, type) \in A /\ Null \in X
  BY DEF TextsOf, Vocabulary
<1>3. /\ Printed # Null /\ << "date" >> # Null
      /\ type \in DOMAIN ClassOf /\ "dc:contributor" \in Dull /\ "dc:date" \in Dull /\ "item" \in Kinds /\ "item" \in Names /\ type # Folder
  BY DEF Folder, ClassOf, Dull, Kinds, Names, Null, Printed
<1>4. DullDocuments(A, X, u) /\ DullDocuments(A, X, ls) /\ DullDocuments(A, X, ds)
  <2>1. DullDocuments(A, X, u)
    BY <1>1, <1>2, <1>3, DullTwo
  <2>2. DullDocuments(A, X, ls)
    BY <1>1, <1>2, <1>3, DullTuples, DullLeaves
  <2>3. DullDocuments(A, X, ds)
    BY <1>1, <1>2, DullDetails
  <2>4. QED
    BY <2>1, <2>2, <2>3
<1>5. us = ts \o u
  BY <1>1, TuplesConcat
<1>6. \A old, e : IsSeq(old) /\ Begun(e, id, parentid) =>
        /\ Documents(A, X, ts)
        /\ \E f : Begun(f, id, parentid) /\ Titled(f, title) /\ f.res = e.res /\ Read(A, X, "item", Reading(old, e), ts) = Reading(old, f)
  BY <1>1, <1>2, <1>3, ReadTitle
<1>7. \A old, e : IsSeq(old) /\ Begun(e, id, parentid) /\ Titled(e, title) =>
        /\ Documents(A, X, cs)
        /\ \E f : /\ Begun(f, id, parentid) /\ Titled(f, title) /\ f.type = type /\ f.res = e.res
                  /\ Read(A, X, "item", Reading(old, e), cs) = Reading(old, f)
  BY <1>1, <1>2, <1>3, ReadClass
<1>8. \A old, e : IsSeq(old) /\ Begun(e, id, parentid) /\ Titled(e, title) /\ e.res = Null /\ e.type = type =>
        /\ Documents(A, X, rs)
        /\ \E f : /\ Begun(f, id, parentid) /\ Titled(f, title) /\ f.type = type /\ f.res = << "http://", id >>
                  /\ Read(A, X, "item", Reading(old, e), rs) = Reading(old, f)
  BY <1>1, <1>2, ReadResource
<1>9. \A s : DullDocuments(A, X, s) =>
        \A old, e : IsSeq(old) /\ IsEntry(e) => LeavesKept(A, X, "item", old, e, s)
  BY <1>2, <1>3, ReadDull
<1>10. /\ Documents(A, X, ts) /\ Documents(A, X, cs) /\ Documents(A, X, rs)
       /\ Documents(A, X, u) /\ Documents(A, X, ls) /\ Documents(A, X, ds)
  <2>1. IsSeq(<< >>)
    BY DEF IsSeq
  <2>2. PICK n : n = NewEntry(ItemAttrs(id, parentid))
    OBVIOUS
  <2>3. Begun(n, id, parentid) /\ n.res = Null
    BY <2>2 DEF Begun, IsEntry, NewEntry, ItemAttrs
  <2>4. Documents(A, X, ts)
    BY <1>6, <2>1, <2>3
  <2>5. PICK f : Begun(f, id, parentid) /\ Titled(f, title) /\ f.res = Null
    BY <1>6, <2>1, <2>3
  <2>6. Documents(A, X, cs)
    BY <1>7, <2>1, <2>5
  <2>7. PICK g : Begun(g, id, parentid) /\ Titled(g, title) /\ g.res = Null /\ g.type = type
    BY <1>7, <2>1, <2>5
  <2>8. Documents(A, X, rs)
    BY <1>8, <2>1, <2>7
  <2>9. QED
    BY <1>4, <2>4, <2>6, <2>8 DEF DullDocuments
<1>11. PICK s1, s2, s3, s4, s5 : s1 = ts \o u /\ s2 = s1 \o ls /\ s3 = s2 \o cs /\ s4 = s3 \o ds /\ s5 = s4 \o rs
  OBVIOUS
<1>12. /\ Documents(A, X, s1) /\ Documents(A, X, s2) /\ Documents(A, X, s3) /\ Documents(A, X, s4) /\ Documents(A, X, s5)
  <2>1. Documents(A, X, s1)
    BY <1>10, <1>11, DocumentsBoth
  <2>2. Documents(A, X, s2)
    BY <1>10, <1>11, <2>1, DocumentsBoth
  <2>3. Documents(A, X, s3)
    BY <1>10, <1>11, <2>2, DocumentsBoth
  <2>4. Documents(A, X, s4)
    BY <1>10, <1>11, <2>3, DocumentsBoth
  <2>5. Documents(A, X, s5)
    BY <1>10, <1>11, <2>4, DocumentsBoth
  <2>6. QED
    BY <2>1, <2>2, <2>3, <2>4, <2>5
<1>13. ASSUME NEW old, NEW e, IsSeq(old), Begun(e, id, parentid), e.res = Null
       PROVE  \E f : EntryListed(f, id, parentid, type, title) /\ Read(A, X, "item", Reading(old, e), s5) = Reading(old, f)
  <2>1. PICK f0 : Begun(f0, id, parentid) /\ Titled(f0, title) /\ f0.res = Null /\ Read(A, X, "item", Reading(old, e), ts) = Reading(old, f0)
    BY <1>6, <1>13
  <2>2. PICK f1 : Kept(f0, f1) /\ Read(A, X, "item", Reading(old, f0), u) = Reading(old, f1)
    BY <1>4, <1>9, <1>13, <2>1 DEF LeavesKept, Begun
  <2>3. Begun(f1, id, parentid) /\ Titled(f1, title) /\ f1.res = Null
    BY <2>1, <2>2 DEF Begun, Titled, Kept
  <2>4. PICK f2 : Kept(f1, f2) /\ Read(A, X, "item", Reading(old, f1), ls) = Reading(old, f2)
    BY <1>4, <1>9, <1>13, <2>3 DEF LeavesKept, Begun
  <2>5. Begun(f2, id, parentid) /\ Titled(f2, title) /\ f2.res = Null
    BY <2>3, <2>4 DEF Begun, Titled, Kept
  <2>6. PICK f3 : Begun(f3, id, parentid) /\ Titled(f3, title) /\ f3.type = type /\ f3.res = Null /\ Read(A, X, "item", Reading(old, f2), cs) = Reading(old, f3)
    BY <1>7, <1>13, <2>5
  <2>7. PICK f4 : Kept(f3, f4) /\ Read(A, X, "item", Reading(old, f3), ds) = Reading(old, f4)
    BY <1>4, <1>9, <1>13, <2>6 DEF LeavesKept, Begun
  <2>8. Begun(f4, id, parentid) /\ Titled(f4, title) /\ f4.type = type /\ f4.res = Null
    BY <2>6, <2>7 DEF Begun, Titled, Kept
  <2>9. PICK f5 : /\ Begun(f5, id, parentid) /\ Titled(f5, title) /\ f5.type = type /\ f5.res = << "http://", id >>
                  /\ Read(A, X, "item", Reading(old, f4), rs) = Reading(old, f5)
    BY <1>8, <1>13, <2>8
  <2>10. EntryListed(f5, id, parentid, type, title)
    BY <2>9 DEF EntryListed
  <2>11. \A x, y, data : Documents(A, X, x) /\ Documents(A, X, y) =>
           ReadsApart(A, X, "item", data, x, y)
    BY <1>2, <1>3, ReadBoth
  <2>12. Read(A, X, "item", Reading(old, e), s1) = Reading(old, f1)
    BY <1>10, <1>11, <2>1, <2>2, <2>11 DEF ReadsApart
  <2>13. Read(A, X, "item", Reading(old, e), s2) = Reading(old, f2)
    BY <1>10, <1>11, <1>12, <2>4, <2>11, <2>12 DEF ReadsApart
  <2>14. Read(A, X, "item", Reading(old, e), s3) = Reading(old, f3)
    BY <1>10, <1>11, <1>12, <2>6, <2>11, <2>13 DEF ReadsApart
  <2>15. Read(A, X, "item", Reading(old, e), s4) = Reading(old, f4)
    BY <1>10, <1>11, <1>12, <2>7, <2>11, <2>14 DEF ReadsApart
  <2>16. Read(A, X, "item", Reading(old, e), s5) = Reading(old, f5)
    BY <1>10, <1>11, <1>12, <2>9, <2>11, <2>15 DEF ReadsApart
  <2>17. QED
    BY <2>10, <2>16
<1>14. s5 = us \o ls \o cs \o ds \o rs
  BY <1>5, <1>11
<1>15. QED
  BY <1>1, <1>12, <1>13, <1>14 DEF ElementsRead, ItemElements

NodeReads(A, X, kind, attrs, s, id, parentid) ==
  LET d == NodeWith(kind, attrs, s)
  IN /\ d \in Seq(Tags(A, X)) /\ Whole(d)
     /\ \A old, current :
          \E e : /\ Begun(e, id, parentid) /\ e.res = Null
                 /\ After([entries |-> old, current |-> current], Mapped(Deeper(A, X, "DIDL-Lite"), Callbacks(d)))
                      = Read(A, X, kind, Reading(old, e), s)

(* An entry begins, and then its elements are read.                        *)
LEMMA NodeIsRead ==
  ASSUME NEW A, NEW X, Vocabulary(A, X), NEW id, NEW parentid, NEW kind \in Kinds, NEW attrs \in A, NEW s, Documents(A, X, s),
         attrs \in EntryAttrs(id, parentid)
  PROVE  NodeReads(A, X, kind, attrs, s, id, parentid)
<1>1. Null \in A /\ Null \in X /\ Indent \in X /\ kind \in Names /\ "DIDL-Lite" \in Names
  BY DEF Vocabulary, Kinds, Names
<1>2. PICK d : d = NodeWith(kind, attrs, s)
  OBVIOUS
<1>3. IsNode(A, X, kind, attrs, s)
  BY <1>1, CallsOfNode
<1>4. PICK v \in X : Callbacks(d) = << [path |-> << kind >>, attrs |-> attrs, value |-> v] >> \o Mapped(Deeper(A, X, kind), Heard(s))
  BY <1>2, <1>3 DEF IsNode
<1>5. d \in Seq(Tags(A, X)) /\ Whole(d)
  BY <1>2, <1>3 DEF IsNode
<1>6. PICK c, e, h, g : /\ c = [path |-> << kind >>, attrs |-> attrs, value |-> v]
                        /\ e = [path |-> << "DIDL-Lite", kind >>, attrs |-> attrs, value |-> v]
                        /\ h = << c >> /\ g = Mapped(Deeper(A, X, kind), Heard(s))
  OBVIOUS
<1>7. c \in CallbackSet(A, X)
  BY <1>1, <1>6 DEF CallbackSet
<1>8. h \in Seq(CallbackSet(A, X)) /\ g \in Seq(CallbackSet(A, X))
  <2>1. Heard(s) \in Seq(CallbackSet(A, X))
    BY <1>1, DocumentsWhole
  <2>2. QED
    BY <1>1, <1>6, <1>7, <2>1, MappedTypes
<1>9. Mapped(Deeper(A, X, "DIDL-Lite"), h) = << e >>
  <2>1. OneMapped(A, X, "DIDL-Lite", c)
    BY <1>1, <1>7, MappedOne
  <2>2. << "DIDL-Lite" >> \o c.path = << "DIDL-Lite", kind >> /\ c.attrs = attrs /\ c.value = v
    BY <1>6, TuplesConcat
  <2>3. QED
    BY <1>6, <2>1, <2>2 DEF OneMapped
<1>10. Mapped(Deeper(A, X, "DIDL-Lite"), Callbacks(d)) = << e >> \o Deep(A, X, kind, Heard(s))
  <2>1. MappedApart(Deeper(A, X, "DIDL-Lite"), h, g)
    BY <1>1, <1>8, MappedTypes
  <2>2. QED
    BY <1>4, <1>6, <1>9, <2>1 DEF MappedApart, Deep
<1>11. PICK b : b = Deep(A, X, kind, Heard(s))
  OBVIOUS
<1>12. << e >> \in Seq(CallbackSet(A, X)) /\ b \in Seq(CallbackSet(A, X))
  <2>1. Heard(s) \in Seq(CallbackSet(A, X))
    BY <1>1, DocumentsWhole
  <2>2. b \in Seq(CallbackSet(A, X))
    BY <1>1, <1>11, <2>1, DeepBoth
  <2>3. e \in CallbackSet(A, X)
    BY <1>1, <1>6 DEF CallbackSet
  <2>4. QED
    BY <2>2, <2>3
<1>13. ASSUME NEW old, NEW current
       PROVE  \E f : /\ Begun(f, id, parentid) /\ f.res = Null
                     /\ After([entries |-> old, current |-> current], Mapped(Deeper(A, X, "DIDL-Lite"), Callbacks(d)))
                          = Read(A, X, kind, Reading(old, f), s)
  <2>1. PICK f : /\ Begun(f, id, parentid) /\ f.res = Null
                 /\ After([entries |-> old, current |-> current], << [path |-> << "DIDL-Lite", kind >>, attrs |-> attrs, value |-> v] >>) = Reading(old, f)
    <3>1. Begins(id, parentid, old, current, kind, v, attrs)
      BY EntryBegins
    <3>2. QED
      BY <3>1 DEF Begins
  <2>2. PICK data, w : data = [entries |-> old, current |-> current] /\ w = << e >>
    OBVIOUS
  <2>3. After(data, w) = Reading(old, f)
    BY <1>6, <2>1, <2>2
  <2>4. After(data, w \o b) = After(After(data, w), b)
    <3>1. PICK C : C = CallbackSet(A, X)
      OBVIOUS
    <3>2. w \in Seq(C) /\ b \in Seq(C)
      BY <1>12, <2>2, <3>1
    <3>3. \A x, y \in Seq(C) : After(data, x \o y) = After(After(data, x), y)
      BY AfterBoth
    <3>4. QED
      BY <3>2, <3>3
  <2>5. After(data, w \o b) = Read(A, X, kind, Reading(old, f), s)
    BY <1>11, <2>3, <2>4 DEF Read
  <2>6. QED
    BY <1>10, <1>11, <2>1, <2>2, <2>5
<1>14. QED
  BY <1>2, <1>5, <1>13 DEF NodeReads

(* The text that the server writes of an entry is read back as the entry:  *)
(* its id, parent, type, title and url.                                    *)
LEMMA EntryIsRead ==
  ASSUME NEW A, NEW X, NEW id, NEW parentid, NEW type \in {"storageFolder", "musicTrack", "movie", "photo"}, NEW title,
         TextsOf(A, X, id, parentid, type, title)
  PROVE  EntryReads(A, X, id, parentid, type, title)
<1>1. PICK d : d = EntryText(DidlFromPath(id, parentid, type, title))
  OBVIOUS
<1>2. PICK entry : entry = DidlFromPath(id, parentid, type, title)
  OBVIOUS
<1>3. /\ entry.id = id /\ entry.parentid = parentid /\ entry.type = type /\ entry.title = title
      /\ [id |-> entry.id, parentID |-> entry.parentid, restricted |-> entry.restricted] = ItemAttrs(id, parentid)
  BY <1>2 DEF DidlFromPath, ItemAttrs
<1>4. Vocabulary(A, X) /\ ItemAttrs(id, parentid) \in A /\ FolderAttrs(id, parentid) \in A
  BY DEF TextsOf
<1>5. CASE type = Folder
  <2>1. PICK s : s = FolderElements(title)
    OBVIOUS
  <2>2. d = NodeWith("container", FolderAttrs(id, parentid), s)
    BY <1>1, <1>2, <1>3, <1>5, <2>1, Zenon DEF EntryText, FolderAttrs, FolderElements
  <2>3. /\ Documents(A, X, s)
        /\ \A old, e : IsSeq(old) /\ Begun(e, id, parentid) /\ e.res = Null =>
             \E f : EntryListed(f, id, parentid, type, title) /\ Read(A, X, "container", Reading(old, e), s) = Reading(old, f)
    BY <1>5, <2>1, FolderReads DEF ElementsRead
  <2>4. NodeReads(A, X, "container", FolderAttrs(id, parentid), s, id, parentid)
    <3>1. "container" \in Kinds
      BY DEF Kinds
    <3>2. QED
      BY <1>4, <2>3, <3>1, NodeIsRead DEF EntryAttrs
  <2>5. QED
    BY <1>1, <2>2, <2>3, <2>4 DEF EntryReads, NodeReads
<1>6. CASE type # Folder
  <2>1. PICK s : s = ItemElements(id, type, title)
    OBVIOUS
  <2>2. Resource(entry) = LeafWith("res", ResAttrs(id, type), << "http://", id >>)
    BY <1>3, Zenon DEF Resource, ResAttrs
  <2>3. d = NodeWith("item", ItemAttrs(id, parentid), s)
    BY <1>1, <1>2, <1>3, <1>6, <2>1, <2>2, Zenon DEF EntryText, ItemElements
  <2>4. /\ Documents(A, X, s)
        /\ \A old, e : IsSeq(old) /\ Begun(e, id, parentid) /\ e.res = Null =>
             \E f : EntryListed(f, id, parentid, type, title) /\ Read(A, X, "item", Reading(old, e), s) = Reading(old, f)
    <3>1. type \in {"musicTrack", "movie", "photo"}
      BY <1>6 DEF Folder
    <3>2. QED
      BY <2>1, <3>1, ItemReads DEF ElementsRead
  <2>5. NodeReads(A, X, "item", ItemAttrs(id, parentid), s, id, parentid)
    <3>1. "item" \in Kinds
      BY DEF Kinds
    <3>2. QED
      BY <1>4, <2>4, <3>1, NodeIsRead DEF EntryAttrs
  <2>6. QED
    BY <1>1, <2>3, <2>4, <2>5 DEF EntryReads, NodeReads
<1>7. QED
  BY <1>5, <1>6

-----------------------------------------------------------------------------

\* The texts of the entries of a page.
Kids(parentid, p) == [i \in DOMAIN p |-> EntryText(DidlFromPath(p[i], parentid, Type[p[i]], Title[p[i]]))]

\* The entries as the server has them.
ListedAs(es, parentid, p, n) ==
  /\ IsSeq(es) /\ Len(es) = n
  /\ \A i \in 1 .. n : EntryListed(es[i], p[i], parentid, Type[p[i]], Title[p[i]])

Fresh == [entries |-> << >>, current |-> FALSE]

\* What is known after the first n of them.
KidsAre(A, X, parentid, p, k, n) ==
  \E es, current : /\ ListedAs(es, parentid, p, n)
                   /\ After(Fresh, Mapped(Deeper(A, X, "DIDL-Lite"), Heard(SubSeq(k, 1, n)))) = [entries |-> es, current |-> current]

(* The texts of several entries are read back as these entries, in their   *)
(* order.                                                                  *)
LEMMA KidsRead ==
  ASSUME NEW A, NEW X, Vocabulary(A, X), NEW parentid, NEW p \in Seq(Entries),
         \A e \in Entries : EntryReads(A, X, e, parentid, Type[e], Title[e])
  PROVE  /\ Documents(A, X, Kids(parentid, p))
         /\ KidsAre(A, X, parentid, p, Kids(parentid, p), Len(p))
<1>1. PICK k, n : k = Kids(parentid, p) /\ n = Len(p)
  OBVIOUS
<1>2. /\ n \in Nat /\ DOMAIN p = 1 .. n /\ \A i \in 1 .. n : p[i] \in Entries
  BY <1>1
<1>3. \A i \in 1 .. n : k[i] = EntryText(DidlFromPath(p[i], parentid, Type[p[i]], Title[p[i]]))
  BY <1>1, <1>2 DEF Kids
<1>4. \A i \in 1 .. n : k[i] \in Seq(Tags(A, X)) /\ Whole(k[i])
  BY <1>2, <1>3, Zenon DEF EntryReads
<1>5. k \in Seq(Seq(Tags(A, X))) /\ Len(k) = n /\ DOMAIN k = 1 .. n
  <2>1. PICK T : T = Seq(Tags(A, X))
    OBVIOUS
  <2>2. k = [i \in 1 .. n |-> k[i]]
    BY <1>1, <1>2 DEF Kids
  <2>3. \A i \in 1 .. n : k[i] \in T
    BY <1>4, <2>1
  <2>4. k \in [1 .. n -> T]
    BY <2>2, <2>3
  <2>5. k \in Seq(T) /\ Len(k) = n
    BY <1>2, <2>4, FunctionIsSequence
  <2>6. QED
    BY <2>1, <2>4, <2>5
<1>6. Documents(A, X, k)
  BY <1>4, <1>5 DEF Documents, AllWhole
<1>7. Null \in X /\ "DIDL-Lite" \in Names
  BY DEF Vocabulary, Names
<1>8. /\ FlattenSeq(SubSeq(k, 1, 0)) = << >>
      /\ \A i \in Nat : i <= Len(k) => FlattenSeq(SubSeq(k, 1, i)) \in Seq(Tags(A, X))
      /\ \A i \in Nat : i < Len(k) => Heard(SubSeq(k, 1, i + 1)) = Heard(SubSeq(k, 1, i)) \o Callbacks(k[i + 1])
  BY <1>6, <1>7, DocumentsWhole
<1> DEFINE Good == {i \in Nat : i <= n => KidsAre(A, X, parentid, p, k, i)}
<1>9. 0 \in Good
  <2>1. Heard(SubSeq(k, 1, 0)) = << >>
    BY <1>8, NoneHeard DEF Heard
  <2>2. Mapped(Deeper(A, X, "DIDL-Lite"), << >>) = << >>
    BY DEF Mapped
  <2>3. After(Fresh, Mapped(Deeper(A, X, "DIDL-Lite"), Heard(SubSeq(k, 1, 0)))) = Fresh
    BY <2>1, <2>2, AfterNone
  <2>4. ListedAs(<< >>, parentid, p, 0)
    BY DEF ListedAs, IsSeq
  <2>5. KidsAre(A, X, parentid, p, k, 0)
    BY <2>3, <2>4 DEF KidsAre, Fresh
  <2>6. QED
    BY <2>5
<1>10. ASSUME NEW i \in Nat, i < n, i \in Good PROVE i + 1 \in Good
  <2>1. KidsAre(A, X, parentid, p, k, i)
    BY <1>2, <1>10
  <2>2. PICK es, current : /\ ListedAs(es, parentid, p, i)
                           /\ After(Fresh, Mapped(Deeper(A, X, "DIDL-Lite"), Heard(SubSeq(k, 1, i)))) = [entries |-> es, current |-> current]
    BY <2>1 DEF KidsAre
  <2>3. i + 1 \in 1 .. n
    BY <1>2, <1>10
  <2>4. PICK h, g, F : h = Heard(SubSeq(k, 1, i)) /\ g = Callbacks(k[i + 1]) /\ F = Deeper(A, X, "DIDL-Lite")
    OBVIOUS
  <2>5. h \in Seq(CallbackSet(A, X)) /\ g \in Seq(CallbackSet(A, X))
    <3>1. FlattenSeq(SubSeq(k, 1, i)) \in Seq(Tags(A, X)) /\ k[i + 1] \in Seq(Tags(A, X))
      BY <1>2, <1>4, <1>5, <1>8, <1>10, <2>3
    <3>2. \A d \in Seq(Tags(A, X)) : Callbacks(d) \in Seq(CallbackSet(A, X))
      BY <1>7, CallbackTypes
    <3>3. QED
      BY <2>4, <3>1, <3>2, Zenon DEF Heard
  <2>6. /\ Mapped(F, h) \in Seq(CallbackSet(A, X)) /\ Mapped(F, g) \in Seq(CallbackSet(A, X)) /\ MappedApart(F, h, g)
    BY <1>7, <2>4, <2>5, MappedTypes
  <2>7. Heard(SubSeq(k, 1, i + 1)) = h \o g
    BY <1>5, <1>8, <1>10, <2>4
  <2>8. EntryReads(A, X, p[i + 1], parentid, Type[p[i + 1]], Title[p[i + 1]])
    BY <1>2, <2>3
  <2>9. IsSeq(es)
    BY <2>2 DEF ListedAs
  <2>10. PICK e : /\ EntryListed(e, p[i + 1], parentid, Type[p[i + 1]], Title[p[i + 1]])
                  /\ After([entries |-> es, current |-> current], Mapped(F, g)) = Reading(es, e)
    BY <1>3, <2>3, <2>4, <2>8, <2>9, Zenon DEF EntryReads
  <2>11. PICK a, b : a = Mapped(F, h) /\ b = Mapped(F, g)
    OBVIOUS
  <2>12. After(Fresh, a \o b) = After(After(Fresh, a), b)
    <3>1. PICK C : C = CallbackSet(A, X)
      OBVIOUS
    <3>2. a \in Seq(C) /\ b \in Seq(C)
      BY <2>6, <2>11, <3>1
    <3>3. \A x, y \in Seq(C) : After(Fresh, x \o y) = After(After(Fresh, x), y)
      BY AfterBoth
    <3>4. QED
      BY <3>2, <3>3
  <2>13. After(Fresh, Mapped(F, Heard(SubSeq(k, 1, i + 1)))) = Reading(es, e)
    BY <2>2, <2>4, <2>6, <2>7, <2>10, <2>11, <2>12 DEF MappedApart
  <2>14. ListedAs(Append(es, e), parentid, p, i + 1)
    <3>1. PICK t : t = Append(es, e)
      OBVIOUS
    <3>2. IsSeq(t) /\ Len(es) = i /\ Len(t) = i + 1 /\ t[i + 1] = e /\ \A j \in 1 .. i : t[j] = es[j]
      BY <2>2, <2>9, <3>1, AppendAny DEF ListedAs
    <3>3. \A j \in 1 .. i + 1 : j = i + 1 \/ j \in 1 .. i
      BY <1>10
    <3>4. \A j \in 1 .. i + 1 : EntryListed(t[j], p[j], parentid, Type[p[j]], Title[p[j]])
      BY <2>2, <2>10, <3>2, <3>3 DEF ListedAs
    <3>5. QED
      BY <3>1, <3>2, <3>4 DEF ListedAs
  <2>15. KidsAre(A, X, parentid, p, k, i + 1)
    BY <2>4, <2>13, <2>14 DEF KidsAre, Reading
  <2>16. QED
    BY <2>15
<1> HIDE DEF Good
<1>11. \A i \in 0 .. n : i \in Good
  BY <1>2, <1>9, <1>10, UpTo
<1>12. n \in Good /\ n <= n
  BY <1>2, <1>11
<1>13. KidsAre(A, X, parentid, p, k, n)
  BY <1>12 DEF Good
<1>14. QED
  BY <1>1, <1>6, <1>13

ResultReads(A, X, parentid, p) ==
  LET d == Node("DIDL-Lite", Kids(parentid, p))
  IN d \in Seq(Tags(A, X)) /\ Whole(d) /\ ListedAs(upnpd_entry_from_result(d), parentid, p, Len(p))

(* A DIDL-Lite document is read back as the entries it was written from.   *)
LEMMA ResultIsRead ==
  ASSUME NEW A, NEW X, Vocabulary(A, X), NEW parentid, NEW p \in Seq(Entries),
         \A e \in Entries : EntryReads(A, X, e, parentid, Type[e], Title[e])
  PROVE  ResultReads(A, X, parentid, p)
<1>1. PICK k, d : k = Kids(parentid, p) /\ d = Node("DIDL-Lite", k)
  OBVIOUS
<1>2. Documents(A, X, k) /\ KidsAre(A, X, parentid, p, k, Len(p))
  BY <1>1, KidsRead
<1>3. Null \in A /\ Null \in X /\ Indent \in X /\ "DIDL-Lite" \in Names
  BY DEF Vocabulary, Names
<1>4. IsNode(A, X, "DIDL-Lite", Null, k)
  BY <1>2, <1>3, CallsOfNode
<1>5. d = NodeWith("DIDL-Lite", Null, k)
  BY <1>1, Zenon DEF Node
<1>6. d \in Seq(Tags(A, X)) /\ Whole(d)
  BY <1>4, <1>5 DEF IsNode
<1>7. PICK v \in X : Callbacks(d) = << [path |-> << "DIDL-Lite" >>, attrs |-> Null, value |-> v] >> \o Mapped(Deeper(A, X, "DIDL-Lite"), Heard(k))
  BY <1>4, <1>5 DEF IsNode
<1>8. PICK c, h, g : /\ c = [path |-> << "DIDL-Lite" >>, attrs |-> Null, value |-> v] /\ h = << c >>
                     /\ g = Mapped(Deeper(A, X, "DIDL-Lite"), Heard(k))
  OBVIOUS
<1>9. h \in Seq(CallbackSet(A, X)) /\ g \in Seq(CallbackSet(A, X))
  <2>1. c \in CallbackSet(A, X)
    BY <1>3, <1>8 DEF CallbackSet
  <2>2. Heard(k) \in Seq(CallbackSet(A, X))
    BY <1>2, <1>3, DocumentsWhole
  <2>3. QED
    BY <1>3, <1>8, <2>1, <2>2, MappedTypes
<1>10. After(Fresh, h) = Fresh
  <2>1. Len(c.path) = 1 /\ c.path \notin {<< "DIDL-Lite", "item" >>, << "DIDL-Lite", "container" >>}
    BY <1>8
  <2>2. entry_parser_callback(Fresh, c) = Fresh
    <3>1. Len(c.path) # 3
      BY <2>1
    <3>2. QED
      BY <2>1, <3>1, Zenon DEF entry_parser_callback
  <2>3. QED
    BY <1>8, <2>2, AfterOne
<1>11. After(Fresh, h \o g) = After(After(Fresh, h), g)
  <2>1. PICK C : C = CallbackSet(A, X)
    OBVIOUS
  <2>2. h \in Seq(C) /\ g \in Seq(C)
    BY <1>9, <2>1
  <2>3. \A x, y \in Seq(C) : After(Fresh, x \o y) = After(After(Fresh, x), y)
    BY AfterBoth
  <2>4. QED
    BY <2>2, <2>3
<1>12. After(Fresh, Callbacks(d)) = After(Fresh, g)
  BY <1>7, <1>8, <1>10, <1>11
<1>13. SubSeq(k, 1, Len(p)) = k
  <2>1. Len(k) = Len(p)
    BY <1>1 DEF Kids
  <2>2. SubSeq(k, 1, Len(k)) = k
    BY <1>2, <1>3, DocumentsWhole
  <2>3. QED
    BY <2>1, <2>2
<1>14. PICK es, current : ListedAs(es, parentid, p, Len(p)) /\ After(Fresh, g) = [entries |-> es, current |-> current]
  BY <1>2, <1>8, <1>13 DEF KidsAre
<1>15. upnpd_entry_from_result(d) = After(Fresh, Callbacks(d)).entries
  BY Zenon DEF upnpd_entry_from_result, After, Trace, Fresh
<1>16. upnpd_entry_from_result(d) = es
  BY <1>12, <1>14, <1>15
<1>17. QED
  BY <1>1, <1>6, <1>14, <1>16 DEF ResultReads

-----------------------------------------------------------------------------
\* Elements one in the other: the i-th call is of an element i levels deep.
Nested(A, X, d, n, path, value) ==
  /\ d \in Seq(Tags(A, X)) /\ Whole(d) /\ Callbacks(d) \in Seq(CallbackSet(A, X)) /\ Len(Callbacks(d)) = n
  /\ \A i \in 1 .. n : Len(Callbacks(d)[i].path) = i
  /\ Callbacks(d)[n].path = path /\ Callbacks(d)[n].value = value

(* One more element around a document that is a chain of elements.         *)
LEMMA NodeNested ==
  ASSUME NEW A, NEW X, Vocabulary(A, X), NEW d, NEW n \in Nat \ {0}, NEW path \in Seq(Names), NEW value, Nested(A, X, d, n, path, value),
         NEW name \in Names, NEW longer, longer = << name >> \o path
  PROVE  Nested(A, X, Node(name, << d >>), n + 1, longer, value)
<1>1. Null \in A /\ Null \in X /\ Indent \in X
  BY DEF Vocabulary
<1>2. PICK s, e : s = << d >> /\ e = Node(name, s)
  OBVIOUS
<1>3. d \in Seq(Tags(A, X)) /\ Whole(d)
  BY DEF Nested
<1>4. Documents(A, X, s) /\ FlattenSeq(s) = d
  BY <1>2, <1>3, DocumentsOne
<1>5. IsNode(A, X, name, Null, s) /\ e = NodeWith(name, Null, s)
  BY <1>1, <1>2, <1>4, CallsOfNode DEF Node
<1>6. PICK v \in X : Callbacks(e) = << [path |-> << name >>, attrs |-> Null, value |-> v] >> \o Mapped(Deeper(A, X, name), Callbacks(d))
  BY <1>4, <1>5 DEF IsNode, Heard
<1>7. PICK c, h, F, m, C : /\ c = [path |-> << name >>, attrs |-> Null, value |-> v] /\ h = Callbacks(d) /\ F = Deeper(A, X, name)
                           /\ m = Mapped(F, h) /\ C = CallbackSet(A, X)
  OBVIOUS
<1>8. c \in C
  BY <1>1, <1>7 DEF CallbackSet
<1>9. h \in Seq(C) /\ Len(h) = n /\ (\A i \in 1 .. n : Len(h[i].path) = i) /\ h[n].path = path /\ h[n].value = value
  BY <1>7 DEF Nested
<1>10. Maps(C, C, F) /\ \A x \in C : F[x].path = << name >> \o x.path /\ F[x].value = x.value /\ x.path \in Seq(Names)
  <2>1. Maps(C, C, F)
    BY <1>7, DeeperTypes
  <2>2. \A x \in C : F[x] = [x EXCEPT !.path = << name >> \o x.path]
    BY <1>7 DEF Deeper
  <2>3. ASSUME NEW x \in C PROVE F[x].path = << name >> \o x.path /\ F[x].value = x.value /\ x.path \in Seq(Names)
    <3>1. PICK p : p = << name >> \o x.path
      OBVIOUS
    <3>2. F[x] = [x EXCEPT !.path = p] /\ x = [path |-> x.path, attrs |-> x.attrs, value |-> x.value] /\ x.path \in Seq(Names)
      BY <1>7, <2>2, <3>1 DEF CallbackSet
    <3>3. F[x].path = p /\ F[x].value = x.value
      BY <3>2
    <3>4. QED
      BY <3>1, <3>2, <3>3
  <2>4. QED
    BY <2>1, <2>3
<1>11. m \in Seq(C) /\ Len(m) = n /\ \A i \in 1 .. n : m[i] = F[h[i]] /\ h[i] \in C
  <2>1. m \in Seq(C) /\ Len(m) = n
    BY <1>7, <1>9, <1>10, MappedBoth
  <2>2. \A i \in 1 .. n : m[i] = F[h[i]] /\ h[i] \in C
    BY <1>7, <1>9 DEF Mapped
  <2>3. QED
    BY <2>1, <2>2
<1>12. PICK g : g = << c >> \o m
  OBVIOUS
<1>13. g \in Seq(C) /\ Len(g) = n + 1 /\ g[1] = c /\ \A i \in 1 .. n : g[1 + i] = m[i]
  BY <1>8, <1>11, <1>12
<1>14. Len(c.path) = 1
  BY <1>7
<1>15. ASSUME NEW i \in 1 .. n + 1 PROVE Len(g[i].path) = i
  <2>1. CASE i = 1
    BY <1>13, <1>14, <2>1
  <2>2. CASE i # 1
    <3>1. PICK j : j = i - 1
      OBVIOUS
    <3>2. j \in 1 .. n /\ i = 1 + j
      BY <2>2, <3>1
    <3>3. g[i] = F[h[j]] /\ h[j] \in C /\ Len(h[j].path) = j
      BY <1>9, <1>11, <1>13, <3>2
    <3>4. F[h[j]].path = << name >> \o h[j].path /\ h[j].path \in Seq(Names)
      BY <1>10, <3>3
    <3>5. Len(<< name >> \o h[j].path) = 1 + j
      BY <3>3, <3>4
    <3>6. QED
      BY <3>2, <3>3, <3>4, <3>5
  <2>3. QED
    BY <2>1, <2>2
<1>16. g[n + 1].path = longer /\ g[n + 1].value = value
  <2>1. n \in 1 .. n /\ n + 1 = 1 + n
    OBVIOUS
  <2>2. g[n + 1] = F[h[n]] /\ h[n] \in C
    BY <1>11, <1>13, <2>1
  <2>3. QED
    BY <1>9, <1>10, <2>2
<1>17. e \in Seq(Tags(A, X)) /\ Whole(e) /\ Callbacks(e) = g
  BY <1>5, <1>6, <1>7, <1>12 DEF IsNode
<1>18. QED
  BY <1>2, <1>7, <1>13, <1>15, <1>16, <1>17 DEF Nested

\* What the control point makes of the calls of an answer.
Answering(h, f) == f = [i \in 0 .. Len(h) |-> IF i = 0 THEN << >> ELSE controller_parser_callback(f[i - 1], h[i])]
AllAnswered(h) == (CHOOSE f : Answering(h, f))[Len(h)]
ResultPath == << "s:Envelope", "s:Body", "u:BrowseResponse", "Result" >>

(* The callback at the result of an answer reads the entries, and no other *)
(* callback does anything.                                                 *)
LEMMA AnswerRead ==
  ASSUME NEW h, Len(h) = 4, \A i \in 1 .. 3 : h[i].path # ResultPath, h[4].path = ResultPath,
         NEW d, h[4].value = << d >>, IsSeq(upnpd_entry_from_result(d))
  PROVE  AllAnswered(h) = upnpd_entry_from_result(d)
<1>1. PICK es : es = upnpd_entry_from_result(d)
  OBVIOUS
<1>2. \A x : \A i \in 1 .. 3 : controller_parser_callback(x, h[i]) = x
  BY Zenon DEF controller_parser_callback, ResultPath
<1>3. \A x : controller_parser_callback(x, h[4]) = x \o es
  <2>1. h[4].value # Null /\ h[4].value[1] = d
    BY DEF Null
  <2>2. QED
    BY <1>1, <2>1, Zenon DEF controller_parser_callback, ResultPath
<1>4. << >> \o es = es
  BY <1>1, ConcatEmptySeq DEF IsSeq
<1>5. PICK f : f = [i \in 0 .. 4 |-> IF i < 4 THEN << >> ELSE es]
  OBVIOUS
<1>6. Answering(h, f)
  <2>1. ASSUME NEW i \in 0 .. 4 PROVE f[i] = IF i = 0 THEN << >> ELSE controller_parser_callback(f[i - 1], h[i])
    <3>1. CASE i = 0
      BY <1>5, <3>1
    <3>2. CASE i \in 1 .. 3
      <4>1. f[i] = << >> /\ f[i - 1] = << >> /\ i # 0
        BY <1>5, <3>2
      <4>2. QED
        BY <1>2, <3>2, <4>1
    <3>3. CASE i = 4
      <4>1. f[i] = es /\ f[i - 1] = << >> /\ i # 0
        BY <1>5, <3>3
      <4>2. QED
        BY <1>3, <1>4, <3>3, <4>1
    <3>4. QED
      BY <3>1, <3>2, <3>3
  <2>2. f = [i \in 0 .. 4 |-> IF i = 0 THEN << >> ELSE controller_parser_callback(f[i - 1], h[i])]
    <3>1. f = [i \in 0 .. 4 |-> f[i]]
      BY <1>5
    <3>2. QED
      BY <2>1, <3>1, Zenon
  <2>3. QED
    BY <2>2 DEF Answering
<1>7. PICK g : g = CHOOSE x : Answering(h, x)
  OBVIOUS
<1>8. Answering(h, g)
  BY <1>6, <1>7, Zenon
<1>9. g = [i \in 0 .. 4 |-> IF i = 0 THEN << >> ELSE controller_parser_callback(g[i - 1], h[i])]
  BY <1>8 DEF Answering
<1>10. g[0] = << >> /\ \A i \in 1 .. 4 : g[i] = controller_parser_callback(g[i - 1], h[i])
  BY <1>9
<1>11. g[1] = << >> /\ g[2] = << >> /\ g[3] = << >>
  <2>1. g[1] = << >>
    BY <1>2, <1>10
  <2>2. g[2] = << >>
    BY <1>2, <1>10, <2>1
  <2>3. g[3] = << >>
    BY <1>2, <1>10, <2>2
  <2>4. QED
    BY <2>1, <2>2, <2>3
<1>12. g[4] = es
  <2>1. g[4] = controller_parser_callback(g[3], h[4])
    BY <1>10
  <2>2. g[4] = g[3] \o es
    BY <1>3, <2>1, Zenon
  <2>3. QED
    BY <1>4, <1>11, <2>2
<1>13. QED
  BY <1>1, <1>7, <1>12 DEF AllAnswered

(* A document without an error parses.                                     *)
LEMMA WholeParses == ASSUME NEW d, Whole(d), NEW S, d \in Seq(S) PROVE Parses(d)
<1>1. DOMAIN d = 1 .. Len(d) /\ Len(d) \in Nat
  OBVIOUS
<1>2. ASSUME NEW i \in DOMAIN d, NEW j \in 1 .. i PROVE d[j].tag # "error"
  <2>1. j \in DOMAIN d
    BY <1>1
  <2>2. QED
    BY <2>1, Zenon DEF Whole
<1>3. QED
  BY <1>2, Zenon DEF Parses, Readable

(* An answer whose titles can be written is read back as the entries it    *)
(* lists.                                                                  *)
LEMMA ResponseRead ==
  ASSUME NEW records, \A e \in Range(records) : Speakable(e.title), IsSeq(upnpd_entry_from_result(upnpd_entry_to_result(records)))
  PROVE  /\ Parses(BrowseResponse(records))
         /\ EntriesOf(BrowseResponse(records)) = upnpd_entry_from_result(upnpd_entry_to_result(records))
<1>1. PICK d, v, X, A, l : /\ d = upnpd_entry_to_result(records) /\ v = << d >> /\ A = {Null} /\ X = {Null, Indent, v}
                           /\ l = Leaf("Result", v)
  OBVIOUS
<1>2. Vocabulary(A, X) /\ Null \in A /\ Null \in X /\ Indent \in X /\ v \in X
  BY <1>1 DEF Vocabulary
<1>3. "Result" \in Names /\ "u:BrowseResponse" \in Names /\ "s:Body" \in Names /\ "s:Envelope" \in Names
  BY DEF Names
<1>4. IsLeaf(A, X, "Result", Null, v) /\ l = LeafWith("Result", Null, v)
  BY <1>1, <1>2, <1>3, CallsOfLeaf DEF Leaf
<1>5. PICK p1, p2, p3, p4 : /\ p1 = << "Result" >> /\ p2 = << "u:BrowseResponse" >> \o p1 /\ p3 = << "s:Body" >> \o p2
                            /\ p4 = << "s:Envelope" >> \o p3
  OBVIOUS
<1>6. p1 \in Seq(Names) /\ p2 \in Seq(Names) /\ p3 \in Seq(Names) /\ p4 = ResultPath
  <2>1. p1 \in Seq(Names)
    BY <1>3, <1>5
  <2>2. p2 \in Seq(Names) /\ p2 = << "u:BrowseResponse", "Result" >>
    <3>1. p2 = << "u:BrowseResponse", "Result" >>
      BY <1>5, TuplesConcat
    <3>2. QED
      BY <1>3, <3>1
  <2>3. p3 \in Seq(Names) /\ p3 = << "s:Body", "u:BrowseResponse", "Result" >>
    <3>1. p3 = << "s:Body", "u:BrowseResponse", "Result" >>
      BY <1>5, <2>2, TuplesConcat
    <3>2. QED
      BY <1>3, <3>1
  <2>4. p4 = << "s:Envelope", "s:Body", "u:BrowseResponse", "Result" >>
    <3>1. p4 = << "s:Envelope" >> \o p3
      BY <1>5
    <3>2. PICK w : w = << "s:Envelope" >>
      OBVIOUS
    <3>3. PICK q : q = << "s:Envelope", "s:Body", "u:BrowseResponse", "Result" >>
      OBVIOUS
    <3>4. w \in Seq(Names) /\ Len(w) = 1 /\ w[1] = "s:Envelope"
      BY <1>3, <3>2
    <3>5. Len(p3) = 3 /\ p3[1] = "s:Body" /\ p3[2] = "u:BrowseResponse" /\ p3[3] = "Result"
      BY <2>3
    <3>6. q \in Seq(Names) /\ Len(q) = 4 /\ q[1] = "s:Envelope" /\ q[2] = "s:Body" /\ q[3] = "u:BrowseResponse" /\ q[4] = "Result"
      BY <1>3, <3>3
    <3>7. (\A i \in 1 .. 1 : i = 1) /\ (\A i \in 1 .. 3 : i = 1 \/ i = 2 \/ i = 3) /\ 1 + 1 = 2 /\ 1 + 2 = 3 /\ 1 + 3 = 4
      OBVIOUS
    <3>8. Joined(w, p3, q)
      BY <3>4, <3>5, <3>6, <3>7 DEF Joined
    <3>9. q = w \o p3
      BY <2>3, <3>4, <3>6, <3>8, IsConcat
    <3>10. QED
      BY <3>1, <3>2, <3>3, <3>9
  <2>5. QED
    BY <2>1, <2>2, <2>3, <2>4 DEF ResultPath
<1>7. Nested(A, X, l, 1, p1, v)
  <2>1. l \in Seq(Tags(A, X)) /\ Whole(l) /\ Callbacks(l) = << [path |-> << "Result" >>, attrs |-> Null, value |-> v] >>
    BY <1>4 DEF IsLeaf
  <2>2. PICK c : c = [path |-> << "Result" >>, attrs |-> Null, value |-> v]
    OBVIOUS
  <2>3. c \in CallbackSet(A, X) /\ c.path = p1 /\ c.value = v /\ Len(c.path) = 1
    BY <1>2, <1>3, <1>5, <2>2 DEF CallbackSet
  <2>4. Callbacks(l) = << c >>
    BY <2>1, <2>2
  <2>5. << c >> \in Seq(CallbackSet(A, X)) /\ Len(<< c >>) = 1 /\ << c >>[1] = c
    BY <2>3
  <2>6. QED
    BY <2>1, <2>3, <2>4, <2>5 DEF Nested
<1>8. PICK n1, n2, n3 : n1 = Node("u:BrowseResponse", << l >>) /\ n2 = Node("s:Body", << n1 >>) /\ n3 = Node("s:Envelope", << n2 >>)
  OBVIOUS
<1>9. Nested(A, X, n1, 1 + 1, p2, v)
  <2>1. 1 \in Nat \ {0}
    OBVIOUS
  <2>2. QED
    BY <1>2, <1>3, <1>5, <1>6, <1>7, <1>8, <2>1, NodeNested
<1>10. Nested(A, X, n2, 2 + 1, p3, v)
  <2>1. 1 + 1 = 2 /\ 2 \in Nat \ {0}
    OBVIOUS
  <2>2. QED
    BY <1>2, <1>3, <1>5, <1>6, <1>8, <1>9, <2>1, NodeNested
<1>11. Nested(A, X, n3, 3 + 1, p4, v)
  <2>1. 2 + 1 = 3 /\ 3 \in Nat \ {0}
    OBVIOUS
  <2>2. QED
    BY <1>2, <1>3, <1>5, <1>6, <1>8, <1>10, <2>1, NodeNested
<1>12. BrowseResponse(records) = n3
  BY <1>1, <1>8, Zenon DEF BrowseResponse
<1>13. PICK h : h = Callbacks(n3)
  OBVIOUS
<1>14. /\ n3 \in Seq(Tags(A, X)) /\ Whole(n3) /\ Len(h) = 4 /\ h[4].path = ResultPath /\ h[4].value = v
       /\ \A i \in 1 .. 3 : Len(h[i].path) = i
  <2>1. 3 + 1 = 4
    OBVIOUS
  <2>2. QED
    BY <1>6, <1>11, <1>13, <2>1 DEF Nested
<1>15. \A i \in 1 .. 3 : h[i].path # ResultPath
  <2>1. Len(ResultPath) = 4
    BY DEF ResultPath
  <2>2. ASSUME NEW i \in 1 .. 3, h[i].path = ResultPath PROVE FALSE
    <3>1. \A j \in 1 .. 3 : Len(h[j].path) = j
      BY <1>14, Zenon
    <3>2. Len(h[i].path) = i
      BY <3>1, Zenon
    <3>3. Len(h[i].path) = 4
      BY <2>1, <2>2, Zenon
    <3>4. i # 4
      OBVIOUS
    <3>5. QED
      BY <3>2, <3>3, <3>4, Zenon
  <2>3. QED
    BY <2>2
<1>16. AllAnswered(h) = upnpd_entry_from_result(d)
  BY <1>1, <1>14, <1>15, AnswerRead
<1>17. EntriesOf(n3) = AllAnswered(h)
  BY <1>13, Zenon DEF EntriesOf, AllAnswered, Answering
<1>18. Parses(n3)
  BY <1>14, WholeParses
<1>19. QED
  BY <1>1, <1>12, <1>16, <1>17, <1>18

-----------------------------------------------------------------------------

(* A concatenation has the elements of both.                               *)
LEMMA JoinedIs == \A S : \A s, t \in Seq(S) : s \o t \in Seq(S) /\ Joined(s, t, s \o t)
  BY DEF Joined

\* An error in an element is one in the elements around it.
Broken(A, X, d) == d \in Seq(Tags(A, X)) /\ \E i \in 1 .. Len(d) : d[i].tag = "error"

(* An error stays an error under an element.                               *)
LEMMA NodeBroken ==
  ASSUME NEW A, NEW X, Vocabulary(A, X), NEW d, Broken(A, X, d), NEW name \in Names
  PROVE  Broken(A, X, Node(name, << d >>))
<1>1. Null \in A /\ Null \in X /\ Indent \in X
  BY DEF Vocabulary
<1>2. PICK S, s, e, n, st, u, z : /\ S = Tags(A, X) /\ s = << d >> /\ e = Node(name, s) /\ n = Len(d) /\ st = Start(name, Null, Indent)
                                  /\ u = Under(name, d) /\ z = End(name)
  OBVIOUS
<1>3. d \in Seq(S) /\ n \in Nat /\ \E i \in 1 .. n : d[i].tag = "error"
  BY <1>2 DEF Broken
<1>4. FlattenSeq(s) = d
  <2>1. << >> \in Seq(Seq(S)) /\ d \in Seq(S)
    BY <1>3
  <2>2. PICK T : T = Seq(S)
    OBVIOUS
  <2>3. Append(<< >>, d) = s
    BY <1>2
  <2>4. FlattenSeq(Append(<< >>, d)) = FlattenSeq(<< >>) \o d /\ FlattenSeq(<< >>) = << >>
    BY <2>1, FlattenAppend
  <2>5. << >> \o d = d
    BY <1>3, ConcatEmptySeq
  <2>6. QED
    BY <2>3, <2>4, <2>5
<1>5. st \in Seq(S) /\ Len(st) = 1
  <2>1. PICK t : t = [tag |-> "start", path |-> << name >>, attrs |-> Null, text |-> Indent]
    OBVIOUS
  <2>2. t \in S
    BY <1>1, <1>2, <2>1 DEF Tags
  <2>3. st = << t >>
    BY <1>2, <2>1 DEF Start
  <2>4. QED
    BY <2>2, <2>3
<1>6. z \in Seq(S)
  BY <1>1, <1>2, CallsOfEnd
<1>7. ASSUME NEW t \in S PROVE [t EXCEPT !.path = << name >> \o t.path] \in S /\ [t EXCEPT !.path = << name >> \o t.path].tag = t.tag
  <2>1. << name >> \o t.path \in Seq(Names)
    BY <1>2 DEF Tags
  <2>2. QED
    BY <1>2, <2>1 DEF Tags
<1>8. u \in Seq(S) /\ Len(u) = n /\ \A i \in 1 .. n : u[i].tag = d[i].tag
  <2>1. u = [i \in 1 .. n |-> [d[i] EXCEPT !.path = << name >> \o d[i].path]]
    BY <1>2, <1>3 DEF Under
  <2>2. \A i \in 1 .. n : d[i] \in S
    BY <1>2, <1>3
  <2>3. \A i \in 1 .. n : u[i] \in S /\ u[i].tag = d[i].tag
    BY <1>7, <2>1, <2>2
  <2>4. u \in [1 .. n -> S]
    BY <2>1, <2>3
  <2>5. QED
    BY <1>3, <2>3, <2>4, FunctionIsSequence
<1>9. e = (st \o u) \o z
  BY <1>2, <1>4, Zenon DEF Node, NodeWith
<1>10. PICK w : w = st \o u
  OBVIOUS
<1>11. w \in Seq(S) /\ Len(w) = 1 + n /\ \A i \in 1 .. n : w[1 + i] = u[i]
  <2>1. w \in Seq(S) /\ Len(w) = Len(st) + Len(u) /\ \A i \in 1 .. Len(u) : w[Len(st) + i] = u[i]
    <3>1. w \in Seq(S) /\ Joined(st, u, w)
      BY <1>5, <1>8, <1>10, JoinedIs, Zenon
    <3>2. QED
      BY <3>1 DEF Joined
  <2>2. QED
    BY <1>5, <1>8, <2>1
<1>12. e \in Seq(S) /\ Len(e) = 1 + n + Len(z) /\ Len(z) \in Nat /\ \A i \in 1 .. 1 + n : e[i] = w[i]
  <2>1. e \in Seq(S) /\ Len(e) = Len(w) + Len(z) /\ \A i \in 1 .. Len(w) : e[i] = w[i]
    BY <1>6, <1>9, <1>10, <1>11, JoinedIs DEF Joined
  <2>2. QED
    BY <1>6, <1>11, <2>1
<1>13. PICK i \in 1 .. n : d[i].tag = "error"
  BY <1>3
<1>14. 1 + i \in 1 .. Len(e) /\ e[1 + i].tag = "error"
  <2>1. 1 + i \in 1 .. 1 + n /\ 1 + i \in 1 .. Len(e)
    BY <1>3, <1>12
  <2>2. e[1 + i] = w[1 + i] /\ w[1 + i] = u[i] /\ u[i].tag = d[i].tag
    BY <1>8, <1>11, <1>12, <2>1
  <2>3. QED
    BY <1>13, <2>1, <2>2
<1>15. QED
  BY <1>2, <1>12, <1>14 DEF Broken

(* A document with an error does not parse.                                *)
LEMMA BrokenParses == ASSUME NEW A, NEW X, NEW d, Broken(A, X, d) PROVE ~ Parses(d)
<1>1. PICK i \in 1 .. Len(d) : d[i].tag = "error"
  BY DEF Broken
<1>2. i \in DOMAIN d /\ i \in 1 .. i
  BY DEF Broken
<1>3. i \notin Readable(d)
  BY <1>1, <1>2, Zenon DEF Readable
<1>4. QED
  BY <1>2, <1>3 DEF Parses

(* An answer with a title that no XML can carry does not parse.            *)
LEMMA ResponseBroken ==
  ASSUME NEW records, ~ \A e \in Range(records) : Speakable(e.title)
  PROVE  ~ Parses(BrowseResponse(records))
<1>1. PICK A, X, t : A = {Null} /\ X = {Null, Indent} /\ t = Start("Result", Null, Null) \o Garbage
  OBVIOUS
<1>2. Vocabulary(A, X) /\ Null \in A /\ Null \in X
  BY <1>1 DEF Vocabulary
<1>3. "Result" \in Names /\ "u:BrowseResponse" \in Names /\ "s:Body" \in Names /\ "s:Envelope" \in Names
  BY DEF Names
<1>4. Broken(A, X, t)
  <2>1. PICK a, b, S : /\ a = [tag |-> "start", path |-> << "Result" >>, attrs |-> Null, text |-> Null]
                       /\ b = [tag |-> "error", path |-> << >>, attrs |-> Null, text |-> Null] /\ S = Tags(A, X)
    OBVIOUS
  <2>2. a \in S /\ b \in S /\ b.tag = "error"
    BY <1>2, <1>3, <2>1 DEF Tags
  <2>3. t = << a >> \o << b >>
    BY <1>1, <2>1, Zenon DEF Start, Garbage
  <2>4. t = << a, b >>
    BY <2>3, TuplesConcat
  <2>5. t \in Seq(S) /\ Len(t) = 2 /\ t[2] = b
    BY <2>2, <2>4
  <2>6. QED
    BY <2>1, <2>2, <2>5 DEF Broken
<1>5. PICK n1, n2, n3 : n1 = Node("u:BrowseResponse", << t >>) /\ n2 = Node("s:Body", << n1 >>) /\ n3 = Node("s:Envelope", << n2 >>)
  OBVIOUS
<1>6. Broken(A, X, n1)
  BY <1>2, <1>3, <1>4, <1>5, NodeBroken
<1>7. Broken(A, X, n2)
  BY <1>2, <1>3, <1>5, <1>6, NodeBroken
<1>8. Broken(A, X, n3)
  BY <1>2, <1>3, <1>5, <1>7, NodeBroken
<1>9. BrowseResponse(records) = n3
  BY <1>1, <1>5, Zenon DEF BrowseResponse
<1>10. QED
  BY <1>8, <1>9, BrokenParses

-----------------------------------------------------------------------------
\* The texts and the attributes of the entries of a directory.
Texts == {Null, Indent, Printed, << 0 >>, << "date" >>} \cup {<< "http://", e >> : e \in Entries} \cup {<< ClassOf[Type[e]] >> : e \in Entries}
         \cup {Title[e] : e \in Entries}
Attributes(parentid) ==
  {Null} \cup {ItemAttrs(e, parentid) : e \in Entries} \cup {FolderAttrs(e, parentid) : e \in Entries}
  \cup {ResAttrs(e, Type[e]) : e \in Entries}

(* All entries can be read.                                                *)
LEMMA AllRead ==
  ASSUME NEW parentid
  PROVE  /\ Vocabulary(Attributes(parentid), Texts)
         /\ \A e \in Entries : EntryReads(Attributes(parentid), Texts, e, parentid, Type[e], Title[e])
<1>1. Vocabulary(Attributes(parentid), Texts)
  BY DEF Vocabulary, Attributes, Texts
<1>2. ASSUME NEW e \in Entries PROVE EntryReads(Attributes(parentid), Texts, e, parentid, Type[e], Title[e])
  <2>1. Type[e] \in {"storageFolder", "musicTrack", "movie", "photo"} /\ Title[e] # Null
    BY BrowseAssumption DEF Null
  <2>2. ItemAttrs(e, parentid) \in Attributes(parentid) /\ FolderAttrs(e, parentid) \in Attributes(parentid)
        /\ ResAttrs(e, Type[e]) \in Attributes(parentid)
    BY DEF Attributes
  <2>3. Printed \in Texts /\ << 0 >> \in Texts /\ << "date" >> \in Texts /\ << "http://", e >> \in Texts /\ << ClassOf[Type[e]] >> \in Texts
        /\ Title[e] \in Texts
    BY DEF Texts
  <2>4. TextsOf(Attributes(parentid), Texts, e, parentid, Type[e], Title[e])
    BY <1>1, <2>1, <2>2, <2>3 DEF TextsOf
  <2>5. QED
    BY <2>1, <2>4, EntryIsRead
<1>3. QED
  BY <1>1, <1>2

\* An answer that lists entries is what the server has for them; it is none when
\* one of the titles cannot be written.
Told(p) == \A i \in DOMAIN p : Speakable(Title[p[i]])

(* What the control point gets of a page is the entries of the page, as    *)
(* the server has them, if no title keeps the answer from being XML; and   *)
(* no parsed answer otherwise.                                             *)
THEOREM AnswerRight ==
  ASSUME NEW flag, NEW o, NEW parentid, NEW p \in Seq(Entries)
  PROVE  LET a == AnswerTo(flag, o, parentid, p)
         IN /\ a.flag = flag /\ a.object = o /\ a.page = p
            /\ a.parses <=> Told(p)
            /\ Told(p) => ListedAs(a.entries, parentid, p, Len(p))
<1>1. PICK records, d, document : /\ records = [i \in DOMAIN p |-> DidlFromPath(p[i], parentid, Type[p[i]], Title[p[i]])]
                                  /\ d = upnpd_entry_to_result(records) /\ document = BrowseResponse(records)
  OBVIOUS
<1>2. AnswerTo(flag, o, parentid, p) = [flag |-> flag, object |-> o, page |-> p, parses |-> Parses(document), entries |-> EntriesOf(document)]
  BY <1>1, Zenon DEF AnswerTo
<1>3. (\A e \in Range(records) : Speakable(e.title)) <=> Told(p)
  <2>1. DOMAIN records = DOMAIN p /\ \A i \in DOMAIN p : records[i].title = Title[p[i]]
    BY <1>1 DEF DidlFromPath
  <2>2. QED
    BY <2>1 DEF Range, Told
<1>4. d = Node("DIDL-Lite", Kids(parentid, p))
  <2>1. DOMAIN records = DOMAIN p /\ \A i \in DOMAIN p : records[i] = DidlFromPath(p[i], parentid, Type[p[i]], Title[p[i]])
    BY <1>1
  <2>2. [i \in DOMAIN records |-> EntryText(records[i])] = Kids(parentid, p)
    BY <2>1 DEF Kids
  <2>3. QED
    BY <1>1, <2>2 DEF upnpd_entry_to_result
<1>5. ListedAs(upnpd_entry_from_result(d), parentid, p, Len(p))
  <2>1. ResultReads(Attributes(parentid), Texts, parentid, p)
    BY AllRead, ResultIsRead
  <2>2. QED
    BY <1>4, <2>1 DEF ResultReads
<1>6. CASE Told(p)
  <2>1. IsSeq(upnpd_entry_from_result(d))
    BY <1>5 DEF ListedAs
  <2>2. Parses(document) /\ EntriesOf(document) = upnpd_entry_from_result(d)
    BY <1>1, <1>3, <1>6, <2>1, ResponseRead
  <2>3. QED
    BY <1>2, <1>5, <1>6, <2>2
<1>7. CASE ~ Told(p)
  <2>1. ~ Parses(document)
    BY <1>1, <1>3, <1>7, ResponseBroken
  <2>2. QED
    <3>1. PICK a : a = AnswerTo(flag, o, parentid, p)
      OBVIOUS
    <3>2. a.flag = flag /\ a.object = o /\ a.page = p /\ a.parses = Parses(document)
      BY <1>2, <3>1
    <3>3. ~ a.parses
      BY <2>1, <3>2, Zenon
    <3>4. QED
      BY <1>7, <3>1, <3>2, <3>3, Zenon
<1>8. QED
  BY <1>6, <1>7

-----------------------------------------------------------------------------
\* Titles are in a strict total order, that of strcmp.
Agree(t, s, n) == n <= Len(s) /\ \A i \in 1 .. n : t[i] = s[i]
GreaterAt(t, s, n) == Agree(t, s, n) /\ (n = Len(s) \/ t[n + 1] > s[n + 1])

(* Greater, at a place.                                                    *)
LEMMA GreaterIs == \A t, s : Greater(t, s) <=> \E n \in 0 .. Len(t) - 1 : GreaterAt(t, s, n)
  BY DEF Greater, GreaterAt, Agree

(* No title is greater than itself.                                        *)
LEMMA GreaterStrict == ASSUME NEW t \in Seq(Nat) PROVE ~ Greater(t, t)
  BY DEF Greater

(* The order of titles is transitive.                                      *)
LEMMA GreaterTransitive ==
  ASSUME NEW a \in Seq(Nat), NEW b \in Seq(Nat), NEW c \in Seq(Nat), Greater(a, b), Greater(b, c)
  PROVE  Greater(a, c)
<1>1. PICK n \in 0 .. Len(a) - 1 : GreaterAt(a, b, n)
  BY GreaterIs
<1>2. PICK m \in 0 .. Len(b) - 1 : GreaterAt(b, c, m)
  BY GreaterIs
<1>3. /\ n \in Nat /\ n < Len(a) /\ n <= Len(b) /\ (\A i \in 1 .. n : a[i] = b[i]) /\ (n = Len(b) \/ a[n + 1] > b[n + 1])
      /\ m \in Nat /\ m < Len(b) /\ m <= Len(c) /\ (\A i \in 1 .. m : b[i] = c[i]) /\ (m = Len(c) \/ b[m + 1] > c[m + 1])
      /\ Len(a) \in Nat /\ Len(b) \in Nat /\ Len(c) \in Nat
  <2>1. Len(a) \in Nat /\ Len(b) \in Nat /\ Len(c) \in Nat
    OBVIOUS
  <2>2. n \in Nat /\ n < Len(a) /\ m \in Nat /\ m < Len(b)
    BY <2>1
  <2>3. n <= Len(b) /\ (\A i \in 1 .. n : a[i] = b[i]) /\ (n = Len(b) \/ a[n + 1] > b[n + 1])
    BY <1>1 DEF GreaterAt, Agree
  <2>4. m <= Len(c) /\ (\A i \in 1 .. m : b[i] = c[i]) /\ (m = Len(c) \/ b[m + 1] > c[m + 1])
    BY <1>2 DEF GreaterAt, Agree
  <2>5. QED
    BY <2>1, <2>2, <2>3, <2>4
<1>4. CASE n < m
  <2>1. n + 1 \in 1 .. m
    BY <1>3, <1>4
  <2>2. a[n + 1] > c[n + 1]
    BY <1>3, <1>4, <2>1
  <2>3. n <= Len(c) /\ \A i \in 1 .. n : a[i] = c[i]
    <3>1. \A i \in 1 .. n : i \in 1 .. m
      BY <1>3, <1>4
    <3>2. \A i \in 1 .. n : a[i] = c[i]
      BY <1>3, <3>1
    <3>3. QED
      BY <1>3, <1>4, <3>2
  <2>4. GreaterAt(a, c, n) /\ n \in 0 .. Len(a) - 1
    BY <1>3, <2>2, <2>3 DEF GreaterAt, Agree
  <2>5. QED
    BY <2>4, GreaterIs
<1>5. CASE n = m
  <2>1. a[n + 1] > b[n + 1]
    BY <1>3, <1>5
  <2>2. n = Len(c) \/ a[n + 1] > c[n + 1]
    <3>1. CASE n # Len(c)
      <4>1. n + 1 \in 1 .. Len(a) /\ n + 1 \in 1 .. Len(b) /\ n + 1 \in 1 .. Len(c)
        BY <1>3, <1>5, <3>1
      <4>2. a[n + 1] \in Nat /\ b[n + 1] \in Nat /\ c[n + 1] \in Nat
        <5>1. \A s \in Seq(Nat) : \A k \in 1 .. Len(s) : s[k] \in Nat
          OBVIOUS
        <5>2. QED
          BY <4>1, <5>1, Zenon
      <4>3. b[n + 1] > c[n + 1]
        BY <1>3, <1>5, <3>1
      <4>4. PICK p, q, r : p = a[n + 1] /\ q = b[n + 1] /\ r = c[n + 1]
        OBVIOUS
      <4>5. p \in Nat /\ q \in Nat /\ r \in Nat /\ p > q /\ q > r
        BY <2>1, <4>2, <4>3, <4>4
      <4>6. p > r
        BY <4>5
      <4>7. a[n + 1] > c[n + 1]
        BY <4>4, <4>6
      <4>8. QED
        BY <4>7
    <3>2. QED
      BY <3>1
  <2>3. n <= Len(c) /\ \A i \in 1 .. n : a[i] = c[i]
    BY <1>3, <1>5
  <2>4. GreaterAt(a, c, n) /\ n \in 0 .. Len(a) - 1
    BY <1>3, <2>2, <2>3 DEF GreaterAt, Agree
  <2>5. QED
    BY <2>4, GreaterIs
<1>6. CASE m < n
  <2>1. m + 1 \in 1 .. n
    BY <1>3, <1>6
  <2>2. m = Len(c) \/ a[m + 1] > c[m + 1]
    BY <1>3, <2>1
  <2>3. m <= Len(c) /\ \A i \in 1 .. m : a[i] = c[i]
    BY <1>3, <1>6
  <2>4. GreaterAt(a, c, m) /\ m \in 0 .. Len(a) - 1
    BY <1>3, <1>6, <2>2, <2>3 DEF GreaterAt, Agree
  <2>5. QED
    BY <2>4, GreaterIs
<1>7. QED
  BY <1>3, <1>4, <1>5, <1>6

(* Of two titles one is greater.                                           *)
LEMMA GreaterTotal ==
  ASSUME NEW t \in Seq(Nat), NEW s \in Seq(Nat), t # s
  PROVE  Greater(t, s) \/ Greater(s, t)
<1> DEFINE Differ == {i \in Nat : i >= Len(t) \/ i >= Len(s) \/ t[i + 1] # s[i + 1]}
<1>1. Len(t) \in Nat /\ Len(s) \in Nat /\ Len(t) \in Differ
  OBVIOUS
<1>2. PICK n \in Differ : \A y \in Differ : n <= y
  <2>1. Differ \in SUBSET Nat /\ Differ # {}
    BY <1>1
  <2>2. QED
    BY <2>1, LeastOfSome, Zenon
<1>3. n \in Nat /\ n <= Len(t) /\ (n >= Len(t) \/ n >= Len(s) \/ t[n + 1] # s[n + 1])
  BY <1>1, <1>2
<1>4. n <= Len(s)
  <2>1. Len(s) \in Differ
    BY <1>1
  <2>2. QED
    BY <1>2, <2>1
<1>5. \A i \in 1 .. n : t[i] = s[i]
  <2>1. ASSUME NEW i \in 1 .. n, t[i] # s[i] PROVE FALSE
    <3>1. i - 1 \in Nat /\ (i - 1) + 1 = i /\ ~ (n <= i - 1)
      BY <1>3, <2>1
    <3>2. i - 1 \in Differ
      BY <2>1, <3>1
    <3>3. QED
      BY <1>2, <3>1, <3>2
  <2>2. QED
    BY <2>1
<1>6. Agree(t, s, n) /\ Agree(s, t, n)
  BY <1>3, <1>4, <1>5 DEF Agree
<1>7. CASE n = Len(t)
  <2>1. n # Len(s)
    BY <1>3, <1>5, <1>7, SeqEqual
  <2>2. GreaterAt(s, t, n) /\ n \in 0 .. Len(s) - 1
    BY <1>1, <1>3, <1>4, <1>6, <1>7, <2>1 DEF GreaterAt
  <2>3. QED
    BY <2>2, GreaterIs
<1>8. CASE n = Len(s) /\ n # Len(t)
  <2>1. GreaterAt(t, s, n) /\ n \in 0 .. Len(t) - 1
    BY <1>1, <1>3, <1>4, <1>6, <1>8 DEF GreaterAt
  <2>2. QED
    BY <2>1, GreaterIs
<1>9. CASE n # Len(s) /\ n # Len(t)
  <2>1. n + 1 \in 1 .. Len(t) /\ n + 1 \in 1 .. Len(s) /\ t[n + 1] # s[n + 1]
    BY <1>1, <1>3, <1>4, <1>9
  <2>2. t[n + 1] \in Nat /\ s[n + 1] \in Nat
    BY <2>1
  <2>3. t[n + 1] > s[n + 1] \/ s[n + 1] > t[n + 1]
    BY <2>1, <2>2
  <2>4. n \in 0 .. Len(t) - 1 /\ n \in 0 .. Len(s) - 1 /\ (GreaterAt(t, s, n) \/ GreaterAt(s, t, n))
    BY <1>1, <1>3, <1>4, <1>6, <1>9, <2>3 DEF GreaterAt
  <2>5. QED
    BY <2>4, GreaterIs
<1>10. QED
  BY <1>7, <1>8, <1>9

(* Entries are in a strict total order, too: the folders before the        *)
(* others, each by title.                                                  *)
LEMMA EarlierOrder ==
  /\ \A e \in Entries : ~ Earlier(e, e)
  /\ \A d, e, f \in Entries : Earlier(d, e) /\ Earlier(e, f) => Earlier(d, f)
  /\ \A d, e \in Entries : d # e => Earlier(d, e) \/ Earlier(e, d)
<1>1. /\ \A e \in Entries : Title[e] \in Seq(Nat)
      /\ \A d, e \in Entries : d # e => Title[d] # Title[e]
  BY BrowseAssumption
<1>2. \A e \in Entries : ~ Greater(Title[e], Title[e])
  BY <1>1, GreaterStrict
<1>3. \A d, e, f \in Entries : Greater(Title[e], Title[d]) /\ Greater(Title[f], Title[e]) => Greater(Title[f], Title[d])
  BY <1>1, GreaterTransitive
<1>4. \A d, e \in Entries : d # e => Greater(Title[e], Title[d]) \/ Greater(Title[d], Title[e])
  BY <1>1, GreaterTotal
<1>5. \A e \in Entries : ~ Earlier(e, e)
  BY <1>2 DEF Earlier
<1>6. \A d, e, f \in Entries : Earlier(d, e) /\ Earlier(e, f) => Earlier(d, f)
  BY <1>3, Zenon DEF Earlier
<1>7. \A d, e \in Entries : d # e => Earlier(d, e) \/ Earlier(e, d)
  BY <1>4, Zenon DEF Earlier
<1>8. QED
  BY <1>5, <1>6, <1>7

-----------------------------------------------------------------------------

\* No element twice.
Distinct(s) == \A i, j \in 1 .. Len(s) : s[i] = s[j] => i = j

\* The order of a listing.
Ordered(s) == \A i, j \in 1 .. Len(s) : i < j => Earlier(s[i], s[j])

\* Files of one type, folders aside: the order is then that of Earlier.
OneKindOf(S) == \A d, e \in S : Type[d] # Folder /\ Type[e] # Folder => Type[d] = Type[e]

\* The sequence after an insertion.
Inserted(l, i, e, r) ==
  /\ Len(r) = Len(l) + 1 /\ r[i] = e
  /\ \A j \in 1 .. Len(l) : IF j < i THEN r[j] = l[j] ELSE r[j + 1] = l[j]

(* What a sequence is after an insertion.                                  *)
LEMMA InsertedAt ==
  ASSUME NEW S, NEW l \in Seq(S), NEW e \in S, NEW i \in 1 .. Len(l) + 1
  PROVE  InsertAt(l, i, e) \in Seq(S) /\ Inserted(l, i, e, InsertAt(l, i, e))
<1>1. PICK a, b, c, n : a = SubSeq(l, 1, i - 1) /\ b = << e >> /\ c = SubSeq(l, i, Len(l)) /\ n = Len(l)
  OBVIOUS
<1>2. n \in Nat /\ i \in Nat /\ 1 <= i /\ i <= n + 1
  BY <1>1
<1>3. a \in Seq(S) /\ Len(a) = i - 1 /\ \A j \in 1 .. i - 1 : a[j] = l[j]
  BY <1>1, <1>2
<1>4. c \in Seq(S) /\ Len(c) = n + 1 - i /\ \A j \in 1 .. n + 1 - i : c[j] = l[i + j - 1]
  BY <1>1, <1>2
<1>5. b \in Seq(S) /\ Len(b) = 1 /\ b[1] = e
  BY <1>1
<1>6. PICK w, r : w = a \o b /\ r = w \o c
  OBVIOUS
<1>7. w \in Seq(S) /\ Len(w) = i /\ w[i] = e /\ \A j \in 1 .. i - 1 : w[j] = l[j]
  <2>1. w \in Seq(S) /\ Joined(a, b, w)
    BY <1>3, <1>5, <1>6, JoinedIs, Zenon
  <2>2. Len(w) = (i - 1) + 1 /\ (\A j \in 1 .. i - 1 : w[j] = a[j]) /\ \A j \in 1 .. 1 : w[(i - 1) + j] = b[j]
    BY <1>3, <1>5, <2>1 DEF Joined
  <2>3. QED
    BY <1>2, <1>3, <1>5, <2>1, <2>2
<1>8. r \in Seq(S) /\ Len(r) = n + 1 /\ (\A j \in 1 .. i : r[j] = w[j]) /\ \A j \in 1 .. n + 1 - i : r[i + j] = c[j]
  <2>1. r \in Seq(S) /\ Joined(w, c, r)
    BY <1>4, <1>6, <1>7, JoinedIs, Zenon
  <2>2. Len(r) = i + (n + 1 - i) /\ (\A j \in 1 .. i : r[j] = w[j]) /\ \A j \in 1 .. n + 1 - i : r[i + j] = c[j]
    BY <1>4, <1>7, <2>1 DEF Joined
  <2>3. QED
    BY <1>2, <2>1, <2>2
<1>9. ASSUME NEW j \in 1 .. n PROVE IF j < i THEN r[j] = l[j] ELSE r[j + 1] = l[j]
  <2>1. CASE j < i
    BY <1>2, <1>7, <1>8, <2>1
  <2>2. CASE ~ (j < i)
    <3>1. PICK m : m = j + 1 - i
      OBVIOUS
    <3>2. m \in 1 .. n + 1 - i /\ i + m = j + 1 /\ i + m - 1 = j
      BY <1>2, <2>2, <3>1
    <3>3. r[i + m] = c[m] /\ c[m] = l[i + m - 1]
      BY <1>4, <1>8, <3>2
    <3>4. QED
      BY <2>2, <3>2, <3>3
  <2>3. QED
    BY <2>1, <2>2
<1>10. InsertAt(l, i, e) = r
  BY <1>1, <1>6, Zenon DEF InsertAt
<1>11. QED
  BY <1>1, <1>2, <1>7, <1>8, <1>9, <1>10 DEF Inserted

\* Where the elements of the longer list come from.
From(l, i, e, r) ==
  \A j \in 1 .. Len(r) : \/ j < i /\ j \in 1 .. Len(l) /\ r[j] = l[j]
                         \/ j = i /\ r[j] = e
                         \/ j > i /\ j - 1 \in 1 .. Len(l) /\ r[j] = l[j - 1]

(* Where the elements of the longer sequence come from.                    *)
LEMMA InsertedFrom ==
  ASSUME NEW S, NEW l \in Seq(S), NEW e \in S, NEW i \in 1 .. Len(l) + 1, NEW r \in Seq(S), Inserted(l, i, e, r)
  PROVE  /\ From(l, i, e, r)
         /\ Range(r) = Range(l) \cup {e}
         /\ Distinct(l) /\ e \notin Range(l) => Distinct(r)
<1>1. /\ Len(l) \in Nat /\ Len(r) = Len(l) + 1 /\ r[i] = e /\ DOMAIN l = 1 .. Len(l) /\ DOMAIN r = 1 .. Len(l) + 1
      /\ \A j \in 1 .. Len(l) : j < i => r[j] = l[j]
      /\ \A j \in 1 .. Len(l) : ~ (j < i) => r[j + 1] = l[j]
  BY DEF Inserted
<1>2. ASSUME NEW j \in 1 .. Len(r)
      PROVE  \/ j < i /\ j \in 1 .. Len(l) /\ r[j] = l[j]
             \/ j = i /\ r[j] = e
             \/ j > i /\ j - 1 \in 1 .. Len(l) /\ r[j] = l[j - 1]
  <2>1. CASE j < i
    BY <1>1, <2>1
  <2>2. CASE j = i
    BY <1>1, <2>2
  <2>3. CASE j > i
    <3>1. j - 1 \in 1 .. Len(l) /\ ~ (j - 1 < i) /\ (j - 1) + 1 = j
      BY <1>1, <2>3
    <3>2. QED
      BY <1>1, <2>3, <3>1
  <2>4. QED
    BY <2>1, <2>2, <2>3
<1>3. Range(r) = Range(l) \cup {e}
  <2>1. ASSUME NEW j \in DOMAIN r PROVE r[j] \in Range(l) \cup {e}
    BY <1>1, <1>2 DEF Range
  <2>2. ASSUME NEW j \in DOMAIN l PROVE \E m \in DOMAIN r : r[m] = l[j]
    <3>1. j \in DOMAIN r /\ j + 1 \in DOMAIN r
      BY <1>1
    <3>2. QED
      BY <1>1, <3>1
  <2>3. i \in DOMAIN r
    BY <1>1
  <2>4. QED
    BY <1>1, <2>1, <2>2, <2>3 DEF Range
<1>4. ASSUME Distinct(l), e \notin Range(l), NEW j \in 1 .. Len(r), NEW k \in 1 .. Len(r), r[j] = r[k], j < k PROVE FALSE
  <2>1. \A m \in 1 .. Len(l) : l[m] # e
    BY <1>1, <1>4 DEF Range
  <2>2. \A m, n \in 1 .. Len(l) : l[m] = l[n] => m = n
    BY <1>4 DEF Distinct
  <2>3. CASE j < i
    BY <1>1, <1>2, <1>4, <2>1, <2>2, <2>3
  <2>4. CASE j = i
    BY <1>1, <1>2, <1>4, <2>1, <2>4
  <2>5. CASE j > i
    BY <1>1, <1>2, <1>4, <2>2, <2>5
  <2>6. QED
    BY <1>4, <2>3, <2>4, <2>5
<1>5. QED
  <2>1. Distinct(l) /\ e \notin Range(l) => Distinct(r)
    BY <1>1, <1>4 DEF Distinct
  <2>2. From(l, i, e, r)
    BY <1>2 DEF From
  <2>3. QED
    BY <1>3, <2>1, <2>2

\* The sequence after a removal.
RemovedAt(l, i, r) ==
  /\ Len(r) = Len(l) - 1
  /\ \A j \in 1 .. Len(r) : IF j < i THEN r[j] = l[j] ELSE r[j] = l[j + 1]

(* What a sequence is after a removal.                                     *)
LEMMA RemovedIs ==
  ASSUME NEW S, NEW l \in Seq(S), NEW i \in 1 .. Len(l)
  PROVE  /\ RemoveAt(l, i) \in Seq(S) /\ RemovedAt(l, i, RemoveAt(l, i))
         /\ Distinct(l) => Distinct(RemoveAt(l, i)) /\ Range(RemoveAt(l, i)) = Range(l) \ {l[i]}
<1>1. PICK a, c, n, r : a = SubSeq(l, 1, i - 1) /\ c = SubSeq(l, i + 1, Len(l)) /\ n = Len(l) /\ r = a \o c
  OBVIOUS
<1>2. n \in Nat /\ i \in Nat /\ 1 <= i /\ i <= n /\ DOMAIN l = 1 .. n
  BY <1>1
<1>3. a \in Seq(S) /\ Len(a) = i - 1 /\ \A j \in 1 .. i - 1 : a[j] = l[j]
  BY <1>1, <1>2
<1>4. c \in Seq(S) /\ Len(c) = n - i /\ \A j \in 1 .. n - i : c[j] = l[i + j]
  <2>1. c \in Seq(S) /\ Len(c) = n - i
    BY <1>1, <1>2
  <2>2. ASSUME NEW j \in 1 .. n - i PROVE c[j] = l[i + j]
    <3>1. c[j] = l[(i + 1) + j - 1]
      BY <1>1, <1>2
    <3>2. (i + 1) + j - 1 = i + j
      BY <1>2
    <3>3. QED
      BY <3>1, <3>2
  <2>3. QED
    BY <2>1, <2>2
<1>5. r \in Seq(S) /\ Len(r) = n - 1 /\ (\A j \in 1 .. i - 1 : r[j] = l[j]) /\ \A j \in 1 .. n - i : r[(i - 1) + j] = l[i + j]
  <2>1. r \in Seq(S) /\ Joined(a, c, r)
    BY <1>1, <1>3, <1>4, JoinedIs, Zenon
  <2>2. Len(r) = (i - 1) + (n - i) /\ (\A j \in 1 .. i - 1 : r[j] = a[j]) /\ \A j \in 1 .. n - i : r[(i - 1) + j] = c[j]
    BY <1>3, <1>4, <2>1 DEF Joined
  <2>3. \A j \in 1 .. i - 1 : r[j] = l[j]
    BY <1>3, <2>2
  <2>4. \A j \in 1 .. n - i : r[(i - 1) + j] = l[i + j]
    BY <1>4, <2>2
  <2>5. (i - 1) + (n - i) = n - 1
    BY <1>2
  <2>6. QED
    BY <2>1, <2>2, <2>3, <2>4, <2>5
<1>6. ASSUME NEW j \in 1 .. n - 1 PROVE IF j < i THEN r[j] = l[j] ELSE r[j] = l[j + 1]
  <2>1. CASE j < i
    BY <1>2, <1>5, <2>1
  <2>2. CASE ~ (j < i)
    <3>1. PICK m : m = j + 1 - i
      OBVIOUS
    <3>2. m \in 1 .. n - i /\ (i - 1) + m = j /\ i + m = j + 1
      BY <1>2, <2>2, <3>1
    <3>3. r[(i - 1) + m] = l[i + m]
      BY <1>5, <3>2
    <3>4. QED
      BY <2>2, <3>2, <3>3
  <2>3. QED
    BY <2>1, <2>2
<1>7. \A j \in 1 .. n - 1 : /\ j < i => r[j] = l[j]
                            /\ ~ (j < i) => r[j] = l[j + 1]
  BY <1>6
<1>8. ASSUME Distinct(l) PROVE Distinct(r) /\ Range(r) = Range(l) \ {l[i]}
  <2>1. \A j, k \in 1 .. n : l[j] = l[k] => j = k
    BY <1>1, <1>8 DEF Distinct
  <2>2. ASSUME NEW j \in 1 .. n - 1, NEW k \in 1 .. n - 1, r[j] = r[k] PROVE j = k
    <3>1. j \in 1 .. n /\ k \in 1 .. n /\ j + 1 \in 1 .. n /\ k + 1 \in 1 .. n
      BY <1>2
    <3>2. QED
      BY <1>2, <1>7, <2>1, <2>2, <3>1
  <2>3. DOMAIN r = 1 .. n - 1
    BY <1>5
  <2>4. ASSUME NEW j \in 1 .. n - 1 PROVE \E k \in 1 .. n : k # i /\ r[j] = l[k]
    <3>1. j \in 1 .. n /\ j + 1 \in 1 .. n
      BY <1>2
    <3>2. CASE j < i
      BY <1>2, <1>7, <3>1, <3>2
    <3>3. CASE ~ (j < i)
      <4>1. j + 1 # i
        BY <1>2, <3>3
      <4>2. QED
        BY <1>7, <3>1, <3>3, <4>1
    <3>4. QED
      BY <3>2, <3>3
  <2>5. ASSUME NEW k \in 1 .. n, k # i PROVE \E j \in 1 .. n - 1 : r[j] = l[k]
    <3>1. CASE k < i
      <4>1. k \in 1 .. n - 1
        BY <1>2, <3>1
      <4>2. QED
        BY <1>7, <3>1, <4>1
    <3>2. CASE k > i
      <4>1. k - 1 \in 1 .. n - 1 /\ ~ (k - 1 < i) /\ (k - 1) + 1 = k
        BY <1>2, <3>2
      <4>2. r[k - 1] = l[k]
        BY <1>7, <4>1
      <4>3. QED
        BY <4>1, <4>2
    <3>3. QED
      BY <1>2, <2>5, <3>1, <3>2
  <2>6. \A k \in 1 .. n : k # i <=> l[k] # l[i]
    BY <1>2, <2>1
  <2>7. Range(r) = Range(l) \ {l[i]}
    <3>1. ASSUME NEW x \in Range(r) PROVE x \in Range(l) \ {l[i]}
      <4>1. PICK j \in 1 .. n - 1 : x = r[j]
        BY <2>3 DEF Range
      <4>2. PICK k \in 1 .. n : k # i /\ x = l[k]
        BY <2>4, <4>1
      <4>3. l[k] # l[i] /\ l[k] \in Range(l)
        BY <1>2, <2>6, <4>2 DEF Range
      <4>4. QED
        BY <4>2, <4>3
    <3>2. ASSUME NEW x \in Range(l) \ {l[i]} PROVE x \in Range(r)
      <4>1. PICK k \in 1 .. n : x = l[k]
        BY <1>2 DEF Range
      <4>2. k # i
        BY <4>1
      <4>3. PICK j \in 1 .. n - 1 : r[j] = l[k]
        BY <2>5, <4>2
      <4>4. QED
        BY <2>3, <4>1, <4>3 DEF Range
    <3>3. QED
      BY <3>1, <3>2
  <2>8. QED
    BY <1>5, <2>2, <2>7 DEF Distinct
<1>9. RemoveAt(l, i) = r
  BY <1>1, Zenon DEF RemoveAt
<1>10. RemovedAt(l, i, r)
  BY <1>1, <1>5, <1>6 DEF RemovedAt
<1>11. QED
  BY <1>5, <1>8, <1>9, <1>10

-----------------------------------------------------------------------------

(* A new entry goes before the first one that it must come before.         *)
LEMMA InsertIs ==
  ASSUME NEW l \in Seq(Entries), NEW new \in Entries
  PROVE  \E i \in 1 .. Len(l) + 1 :
           /\ Insert(l, new) = InsertAt(l, i, new)
           /\ \A j \in 1 .. Len(l) : j < i => ~ Before(new, l[j])
           /\ i <= Len(l) => Before(new, l[i])
<1>1. PICK n, later : n = Len(l) /\ later = {i \in 1 .. n : Before(new, l[i])}
  OBVIOUS
<1>2. n \in Nat
  BY <1>1
<1>3. CASE later = {}
  <2>1. Insert(l, new) = InsertAt(l, n + 1, new)
    BY <1>1, <1>3, Zenon DEF Insert
  <2>2. n + 1 \in 1 .. n + 1 /\ ~ (n + 1 <= n)
    BY <1>2
  <2>3. \A j \in 1 .. n : ~ Before(new, l[j])
    BY <1>1, <1>3
  <2>4. QED
    BY <1>1, <2>1, <2>2, <2>3
<1>4. CASE later # {}
  <2>1. PICK i \in later : \A j \in later : i <= j
    <3>1. later \in SUBSET Nat
      BY <1>1
    <3>2. QED
      BY <1>4, <3>1, LeastOfSome, Zenon
  <2>2. \A k \in later : (\A j \in later : k <= j) => k = i
    BY <1>1, <2>1
  <2>3. (CHOOSE k \in later : \A j \in later : k <= j) = i
    BY <2>1, <2>2
  <2>4. Insert(l, new) = InsertAt(l, i, new)
    BY <1>1, <1>4, <2>3, Zenon DEF Insert
  <2>5. i \in 1 .. n /\ i \in 1 .. n + 1 /\ Before(new, l[i])
    BY <1>1, <1>2, <2>1
  <2>6. \A j \in 1 .. n : j < i => ~ Before(new, l[j])
    BY <1>1, <2>1, <2>5
  <2>7. QED
    BY <1>1, <2>4, <2>5, <2>6
<1>5. QED
  BY <1>3, <1>4

(* For entries of one kind, folders aside, to be put before another one is *)
(* to be earlier.                                                          *)
LEMMA BeforeIs ==
  ASSUME NEW new \in Entries, NEW e \in Entries, new # e, OneKindOf({new, e})
  PROVE  IF Before(new, e) THEN Earlier(new, e) ELSE Earlier(e, new)
<1>1. Title[new] \in Seq(Nat) /\ Title[e] \in Seq(Nat) /\ Title[new] # Title[e]
  BY BrowseAssumption
<1>2. Greater(Title[e], Title[new]) \/ Greater(Title[new], Title[e])
  BY <1>1, GreaterTotal
<1>3. Type[new] # Folder /\ Type[e] # Folder => Type[new] = Type[e]
  BY DEF OneKindOf
<1>4. QED
  BY <1>2, <1>3, Zenon DEF Before, Earlier

(* A sorted list with a new entry is sorted.                               *)
LEMMA InsertSorts ==
  ASSUME NEW l \in Seq(Entries), Distinct(l), NEW new \in Entries, new \notin Range(l)
  PROVE  /\ Insert(l, new) \in Seq(Entries) /\ Distinct(Insert(l, new)) /\ Len(Insert(l, new)) = Len(l) + 1
         /\ Range(Insert(l, new)) = Range(l) \cup {new}
         /\ OneKindOf(Range(l) \cup {new}) /\ Ordered(l) => Ordered(Insert(l, new))
<1>1. PICK i \in 1 .. Len(l) + 1 :
        /\ Insert(l, new) = InsertAt(l, i, new)
        /\ \A j \in 1 .. Len(l) : j < i => ~ Before(new, l[j])
        /\ i <= Len(l) => Before(new, l[i])
  BY InsertIs
<1>2. PICK r, n : r = InsertAt(l, i, new) /\ n = Len(l)
  OBVIOUS
<1>3. r \in Seq(Entries) /\ Inserted(l, i, new, r)
  BY <1>2, InsertedAt
<1>4. /\ \A j \in 1 .. Len(r) : \/ j < i /\ j \in 1 .. Len(l) /\ r[j] = l[j]
                                \/ j = i /\ r[j] = new
                                \/ j > i /\ j - 1 \in 1 .. Len(l) /\ r[j] = l[j - 1]
      /\ Range(r) = Range(l) \cup {new} /\ Distinct(r)
  BY <1>3, InsertedFrom DEF From
<1>5. Len(r) = n + 1 /\ n \in Nat /\ i \in Nat /\ \A j \in 1 .. n : l[j] \in Entries
  BY <1>2, <1>3 DEF Inserted
<1>6. ASSUME OneKindOf(Range(l) \cup {new}), Ordered(l) PROVE Ordered(r)
  <2>1. \A j, k \in 1 .. n : j < k => Earlier(l[j], l[k])
    BY <1>2, <1>6 DEF Ordered
  <2>2. ASSUME NEW j \in 1 .. n PROVE IF Before(new, l[j]) THEN Earlier(new, l[j]) ELSE Earlier(l[j], new)
    <3>1. l[j] \in Entries /\ l[j] \in Range(l) /\ l[j] # new
      BY <1>2, <1>5 DEF Range
    <3>2. OneKindOf({new, l[j]})
      BY <1>6, <3>1 DEF OneKindOf
    <3>3. QED
      BY <3>1, <3>2, BeforeIs
  <2>3. \A j \in 1 .. n : j < i => Earlier(l[j], new)
    BY <1>1, <1>2, <2>2
  <2>4. \A j \in 1 .. n : j >= i => Earlier(new, l[j])
    <3>1. ASSUME NEW j \in 1 .. n, j >= i PROVE Earlier(new, l[j])
      <4>1. i \in 1 .. n /\ Earlier(new, l[i])
        BY <1>1, <1>2, <1>5, <2>2, <3>1
      <4>2. CASE j = i
        BY <4>1, <4>2
      <4>3. CASE j > i
        <5>1. Earlier(l[i], l[j]) /\ l[i] \in Entries /\ l[j] \in Entries
          BY <1>5, <2>1, <4>1, <4>3
        <5>2. QED
          BY <4>1, <5>1, EarlierOrder
      <4>4. QED
        BY <1>5, <3>1, <4>2, <4>3
    <3>2. QED
      BY <3>1
  <2>5. ASSUME NEW j \in 1 .. n + 1, NEW k \in 1 .. n + 1, j < k PROVE Earlier(r[j], r[k])
    <3>1. CASE k < i
      <4>1. r[j] = l[j] /\ r[k] = l[k] /\ j \in 1 .. n /\ k \in 1 .. n
        BY <1>2, <1>4, <1>5, <2>5, <3>1
      <4>2. QED
        BY <2>1, <2>5, <4>1
    <3>2. CASE k = i
      <4>1. r[j] = l[j] /\ r[k] = new /\ j \in 1 .. n /\ j < i
        BY <1>2, <1>4, <1>5, <2>5, <3>2
      <4>2. QED
        BY <2>3, <4>1
    <3>3. CASE k > i
      <4>1. r[k] = l[k - 1] /\ k - 1 \in 1 .. n /\ k - 1 >= i
        BY <1>2, <1>4, <1>5, <3>3
      <4>2. CASE j = i
        <5>1. r[j] = new
          BY <1>4, <1>5, <4>2
        <5>2. QED
          BY <2>4, <4>1, <5>1
      <4>3. CASE j < i
        <5>1. r[j] = l[j] /\ j \in 1 .. n /\ j < k - 1
          BY <1>2, <1>4, <1>5, <3>3, <4>3
        <5>2. QED
          BY <2>1, <4>1, <5>1
      <4>4. CASE j > i
        <5>1. r[j] = l[j - 1] /\ j - 1 \in 1 .. n /\ j - 1 < k - 1
          BY <1>2, <1>4, <1>5, <2>5, <4>4
        <5>2. QED
          BY <2>1, <4>1, <5>1
      <4>5. QED
        BY <1>5, <4>2, <4>3, <4>4
    <3>4. QED
      BY <1>5, <3>1, <3>2, <3>3
  <2>6. QED
    BY <1>5, <2>5 DEF Ordered
<1>7. QED
  BY <1>1, <1>2, <1>3, <1>4, <1>5, <1>6

\* A page of a list.
PageOf(l, n, p) ==
  /\ Len(p) \in Nat /\ Len(p) <= Requested
  /\ n >= Len(l) => p = << >> /\ Len(p) = 0
  /\ n < Len(l) => Len(p) > 0 /\ n + Len(p) <= Len(l) /\ (Len(p) = Requested \/ n + Len(p) = Len(l))
  /\ \A i \in 1 .. Len(p) : n + i \in 1 .. Len(l) /\ p[i] = l[n + i]

(* What a page is, for any list.                                           *)
LEMMA PageIs ==
  ASSUME NEW S, NEW l \in Seq(S), NEW n \in Nat
  PROVE  /\ Page(l, n) \in Seq(S) /\ PageOf(l, n, Page(l, n))
         /\ Distinct(l) => Distinct(Page(l, n))
         /\ Range(Page(l, n)) \subseteq Range(l)
<1>1. PICK p, m, k : p = Page(l, n) /\ k = Len(l) /\ m = IF n + Requested < Len(l) THEN n + Requested ELSE Len(l)
  OBVIOUS
<1>2. k \in Nat /\ m \in Nat /\ Requested \in Nat /\ Requested > 0 /\ m <= k /\ DOMAIN l = 1 .. k
  BY <1>1, BrowseAssumption
<1>3. p = SubSeq(l, n + 1, m)
  BY <1>1, Zenon DEF Page
<1>4. \A i \in n + 1 .. m : l[i] \in S
  BY <1>1, <1>2
<1>5. /\ p \in Seq(S) /\ Len(p) = (IF n + 1 <= m THEN m - n ELSE 0)
      /\ \A i \in 1 .. m - n : p[i] = l[n + i]
  <2>1. n + 1 \in Int /\ m \in Int /\ \A i \in Int : (n + 1) + i - 1 = n + i
    BY <1>2
  <2>2. m - (n + 1) + 1 = m - n
    BY <1>2
  <2>3. /\ SubSeq(l, n + 1, m) \in Seq(S)
        /\ Len(SubSeq(l, n + 1, m)) = IF n + 1 <= m THEN m - (n + 1) + 1 ELSE 0
        /\ \A i \in 1 .. m - (n + 1) + 1 : SubSeq(l, n + 1, m)[i] = l[(n + 1) + i - 1]
    BY <1>4, <2>1, SubSeqProperties
  <2>4. \A i \in 1 .. m - n : i \in Int
    OBVIOUS
  <2>5. QED
    BY <1>3, <2>1, <2>2, <2>3, <2>4
<1>6. DOMAIN p = 1 .. Len(p) /\ Len(p) \in Nat
  BY <1>5
<1>7. n >= k => p = << >> /\ Len(p) = 0
  BY <1>1, <1>2, <1>5
<1>8. n < k => Len(p) = m - n /\ m > n /\ (m = k \/ m = n + Requested)
  BY <1>1, <1>2, <1>5
<1>9. \A i \in 1 .. Len(p) : n + i \in 1 .. k /\ p[i] = l[n + i]
  BY <1>2, <1>5, <1>7, <1>8
<1>10. PageOf(l, n, p)
  <2>1. Len(p) <= Requested
    BY <1>1, <1>2, <1>7, <1>8
  <2>2. n < k => Len(p) > 0 /\ n + Len(p) <= k /\ (Len(p) = Requested \/ n + Len(p) = k)
    BY <1>2, <1>8
  <2>3. QED
    BY <1>1, <1>6, <1>7, <1>9, <2>1, <2>2 DEF PageOf
<1>11. ASSUME Distinct(l) PROVE Distinct(p)
  <2>1. \A i, j \in 1 .. k : l[i] = l[j] => i = j
    BY <1>1, <1>11 DEF Distinct
  <2>2. ASSUME NEW i \in 1 .. Len(p), NEW j \in 1 .. Len(p), p[i] = p[j] PROVE i = j
    <3>1. n + i = n + j
      BY <1>9, <2>1, <2>2
    <3>2. QED
      BY <1>6, <3>1
  <2>3. QED
    BY <2>2 DEF Distinct
<1>12. Range(p) \subseteq Range(l)
  <2>1. ASSUME NEW i \in 1 .. Len(p) PROVE p[i] \in Range(l)
    BY <1>2, <1>9 DEF Range
  <2>2. QED
    BY <1>6, <2>1 DEF Range
<1>13. QED
  BY <1>1, <1>5, <1>10, <1>11, <1>12

-----------------------------------------------------------------------------
\* How many entries of a directory come before one.
Rank(D, e) == Cardinality({d \in D : Earlier(d, e)})

(* The rank of an entry grows with the directory.                          *)
LEMMA RankIs ==
  /\ \A D, E \in SUBSET Entries : D \subseteq E => \A e : Rank(D, e) <= Rank(E, e)
  /\ \A D \in SUBSET Entries : \A e : Rank(D, e) \in Nat
<1>1. ASSUME NEW D \in SUBSET Entries, NEW e PROVE IsFiniteSet({d \in D : Earlier(d, e)}) /\ Rank(D, e) \in Nat
  <2>1. {d \in D : Earlier(d, e)} \in SUBSET Entries /\ IsFiniteSet(Entries)
    BY BrowseAssumption
  <2>2. IsFiniteSet({d \in D : Earlier(d, e)})
    BY <2>1, FS_Subset
  <2>3. QED
    BY <2>2, FS_CardinalityType DEF Rank
<1>2. ASSUME NEW D \in SUBSET Entries, NEW E \in SUBSET Entries, D \subseteq E, NEW e PROVE Rank(D, e) <= Rank(E, e)
  <2>1. {d \in D : Earlier(d, e)} \in SUBSET {d \in E : Earlier(d, e)}
    BY <1>2
  <2>2. IsFiniteSet({d \in E : Earlier(d, e)})
    BY <1>1
  <2>3. QED
    BY <2>1, <2>2, FS_Subset DEF Rank
<1>3. QED
  BY <1>1, <1>2

(* In the sorted list of a directory the rank of an entry is what its      *)
(* place tells.                                                            *)
LEMMA RankInList ==
  ASSUME NEW l \in Seq(Entries), Distinct(l), Ordered(l), NEW i \in 1 .. Len(l)
  PROVE  Rank(Range(l), l[i]) = i - 1
<1>1. PICK n, E : n = Len(l) /\ E = {d \in Range(l) : Earlier(d, l[i])}
  OBVIOUS
<1>2. n \in Nat /\ DOMAIN l = 1 .. n /\ (\A j \in 1 .. n : l[j] \in Entries) /\ i \in 1 .. n
  BY <1>1
<1>3. \A j, k \in 1 .. n : l[j] = l[k] => j = k
  BY <1>1 DEF Distinct
<1>4. \A j, k \in 1 .. n : j < k => Earlier(l[j], l[k])
  BY <1>1 DEF Ordered
<1>5. \A j \in 1 .. n : Earlier(l[j], l[i]) => j < i
  <2>1. ASSUME NEW j \in 1 .. n, Earlier(l[j], l[i]), ~ (j < i) PROVE FALSE
    <3>1. CASE j = i
      BY <1>2, <2>1, <3>1, EarlierOrder
    <3>2. CASE i < j
      <4>1. Earlier(l[i], l[j])
        BY <1>2, <1>4, <3>2
      <4>2. Earlier(l[i], l[i])
        BY <1>2, <2>1, <4>1, EarlierOrder
      <4>3. QED
        BY <1>2, <4>2, EarlierOrder
    <3>3. QED
      BY <1>2, <2>1, <3>1, <3>2
  <2>2. QED
    BY <2>1
<1>6. PICK f : f = [j \in 1 .. i - 1 |-> l[j]]
  OBVIOUS
<1>7. f \in Bijection(1 .. i - 1, E)
  <2>1. \A j \in 1 .. i - 1 : j \in 1 .. n /\ f[j] = l[j] /\ j < i
    BY <1>2, <1>6
  <2>2. \A j \in 1 .. i - 1 : l[j] \in E
    BY <1>1, <1>2, <1>4, <2>1 DEF Range
  <2>3. f \in [1 .. i - 1 -> E]
    BY <1>6, <2>1, <2>2
  <2>4. \A j, k \in 1 .. i - 1 : f[j] = f[k] => j = k
    BY <1>3, <2>1
  <2>5. ASSUME NEW d \in E PROVE \E j \in 1 .. i - 1 : f[j] = d
    <3>1. d \in Range(l) /\ Earlier(d, l[i])
      BY <1>1
    <3>2. PICK j \in 1 .. n : d = l[j]
      BY <1>2, <3>1 DEF Range
    <3>3. j < i
      BY <1>5, <3>1, <3>2
    <3>4. j \in 1 .. i - 1
      BY <1>2, <3>3
    <3>5. QED
      BY <2>1, <3>2, <3>4
  <2>6. f \in Injection(1 .. i - 1, E)
    BY <2>3, <2>4 DEF Injection, IsInjective
  <2>7. f \in Surjection(1 .. i - 1, E)
    BY <2>3, <2>5 DEF Surjection
  <2>8. QED
    BY <2>6, <2>7 DEF Bijection
<1>8. i - 1 \in Int /\ 1 \in Int /\ (IF 1 > i - 1 THEN 0 ELSE (i - 1) - 1 + 1) = i - 1
  BY <1>2
<1>9. IsFiniteSet(1 .. i - 1) /\ Cardinality(1 .. i - 1) = i - 1
  <2>1. IsFiniteSet(1 .. i - 1) /\ Cardinality(1 .. i - 1) = IF 1 > i - 1 THEN 0 ELSE (i - 1) - 1 + 1
    BY <1>8, FS_Interval
  <2>2. QED
    BY <1>8, <2>1
<1>10. ExistsBijection(1 .. i - 1, E)
  BY <1>7 DEF ExistsBijection
<1>11. Cardinality(E) = i - 1
  BY <1>9, <1>10, FS_Bijection
<1>12. QED
  BY <1>1, <1>11 DEF Rank

-----------------------------------------------------------------------------
\* What the paging rests on.  While entries are only added, those of S that are
\* not among the collected ones, C, come after the first n; while they are only
\* removed, the collected ones come before.
StillAhead(S, C, n, D) == \A e \in S \ C : n <= Rank(D, e)
AllBehind(C, n, D) == \A e \in C \cap D : Rank(D, e) < n

(* Entries added move what is still ahead further ahead; entries removed   *)
(* leave what is behind behind.                                            *)
LEMMA Shifts ==
  /\ \A S, C, n, D, E : n \in Nat /\ D \subseteq Entries /\ E \subseteq Entries /\ D \subseteq E /\ StillAhead(S, C, n, D) => StillAhead(S, C, n, E)
  /\ \A C, n, D, E : n \in Nat /\ D \subseteq Entries /\ E \subseteq Entries /\ E \subseteq D /\ AllBehind(C, n, D) => AllBehind(C, n, E)
<1>1. ASSUME NEW S, NEW C, NEW n \in Nat, NEW D \in SUBSET Entries, NEW E \in SUBSET Entries, D \subseteq E, StillAhead(S, C, n, D)
      PROVE  StillAhead(S, C, n, E)
  <2>1. ASSUME NEW e \in S \ C PROVE n <= Rank(E, e)
    <3>1. n <= Rank(D, e)
      BY <1>1 DEF StillAhead
    <3>2. Rank(D, e) <= Rank(E, e) /\ Rank(D, e) \in Nat /\ Rank(E, e) \in Nat
      BY <1>1, RankIs
    <3>3. QED
      BY <3>1, <3>2
  <2>2. QED
    BY <2>1 DEF StillAhead
<1>2. ASSUME NEW C, NEW n \in Nat, NEW D \in SUBSET Entries, NEW E \in SUBSET Entries, E \subseteq D, AllBehind(C, n, D)
      PROVE  AllBehind(C, n, E)
  <2>1. ASSUME NEW e \in C \cap E PROVE Rank(E, e) < n
    <3>1. Rank(D, e) < n
      BY <1>2 DEF AllBehind
    <3>2. Rank(E, e) <= Rank(D, e) /\ Rank(D, e) \in Nat /\ Rank(E, e) \in Nat
      BY <1>2, RankIs
    <3>3. QED
      BY <3>1, <3>2
  <2>2. QED
    BY <2>1 DEF AllBehind
<1>3. QED
  BY <1>1, <1>2

(* A page takes those next in turn: what is still ahead comes after the    *)
(* page, and when the list ends with it nothing is.                        *)
LEMMA PageAhead ==
  ASSUME NEW l \in Seq(Entries), Distinct(l), Ordered(l), NEW S, S \subseteq Range(l), NEW C, NEW n \in Nat, StillAhead(S, C, n, Range(l)),
         NEW p, PageOf(l, n, p), p \in Seq(Entries)
  PROVE  /\ StillAhead(S, C \cup Range(p), n + Len(p), Range(l))
         /\ Len(l) = 0 \/ Len(p) = 0 \/ n + Len(p) >= Len(l) => S \subseteq C \cup Range(p)
<1>1. Len(l) \in Nat /\ DOMAIN l = 1 .. Len(l) /\ DOMAIN p = 1 .. Len(p) /\ Len(p) \in Nat
  OBVIOUS
<1>2. ASSUME NEW e \in S \ (C \cup Range(p))
      PROVE  \E i \in 1 .. Len(l) : e = l[i] /\ Rank(Range(l), e) = i - 1 /\ n + Len(p) <= i - 1
  <2>1. PICK i \in 1 .. Len(l) : e = l[i]
    BY <1>1, <1>2 DEF Range
  <2>2. Rank(Range(l), e) = i - 1
    BY <2>1, RankInList
  <2>3. n <= i - 1
    BY <1>2, <2>2 DEF StillAhead
  <2>4. ~ (i - n <= Len(p))
    <3>1. SUFFICES ASSUME i - n <= Len(p) PROVE FALSE
      OBVIOUS
    <3>2. i - n \in 1 .. Len(p) /\ n + (i - n) = i
      BY <1>1, <2>3, <3>1
    <3>3. p[i - n] = e
      BY <2>1, <3>2 DEF PageOf
    <3>4. QED
      BY <1>1, <1>2, <3>2, <3>3 DEF Range
  <2>5. n + Len(p) <= i - 1
    BY <1>1, <2>3, <2>4
  <2>6. QED
    BY <2>1, <2>2, <2>5
<1>3. StillAhead(S, C \cup Range(p), n + Len(p), Range(l))
  BY <1>2 DEF StillAhead
<1>4. ASSUME Len(l) = 0 \/ Len(p) = 0 \/ n + Len(p) >= Len(l), NEW e \in S, e \notin C \cup Range(p) PROVE FALSE
  <2>1. PICK i \in 1 .. Len(l) : n + Len(p) <= i - 1
    BY <1>2, <1>4
  <2>2. n < Len(l) /\ n + Len(p) < Len(l) /\ Len(l) # 0
    BY <1>1, <2>1
  <2>3. Len(p) > 0
    BY <2>2 DEF PageOf
  <2>4. QED
    BY <1>1, <1>4, <2>2, <2>3
<1>5. QED
  BY <1>3, <1>4

(* A page takes nothing that was collected before, and what is collected   *)
(* then is behind its end.                                                 *)
LEMMA PageBehind ==
  ASSUME NEW l \in Seq(Entries), Distinct(l), Ordered(l), NEW C, NEW n \in Nat, AllBehind(C, n, Range(l)), NEW p, PageOf(l, n, p), p \in Seq(Entries)
  PROVE  /\ Range(p) \cap C = {}
         /\ AllBehind(C \cup Range(p), n + Len(p), Range(l))
<1>1. Len(l) \in Nat /\ DOMAIN l = 1 .. Len(l) /\ DOMAIN p = 1 .. Len(p) /\ Len(p) \in Nat
  OBVIOUS
<1>2. ASSUME NEW e \in Range(p) PROVE e \in Range(l) /\ n <= Rank(Range(l), e) /\ Rank(Range(l), e) < n + Len(p)
  <2>1. PICK j \in 1 .. Len(p) : e = p[j]
    BY <1>1 DEF Range
  <2>2. n + j \in 1 .. Len(l) /\ e = l[n + j]
    BY <2>1 DEF PageOf
  <2>3. Rank(Range(l), e) = (n + j) - 1
    BY <2>2, RankInList
  <2>4. QED
    BY <1>1, <2>2, <2>3 DEF Range
<1>3. Range(l) \subseteq Entries
  BY <1>1 DEF Range
<1>4. \A e : Rank(Range(l), e) \in Nat
  BY <1>3, RankIs
<1>5. ASSUME NEW e \in Range(p), e \in C PROVE FALSE
  <2>1. e \in C \cap Range(l) /\ n <= Rank(Range(l), e)
    BY <1>2, <1>5
  <2>2. Rank(Range(l), e) < n
    BY <2>1 DEF AllBehind
  <2>3. QED
    BY <1>4, <2>1, <2>2
<1>6. ASSUME NEW e \in (C \cup Range(p)) \cap Range(l) PROVE Rank(Range(l), e) < n + Len(p)
  <2>1. CASE e \in Range(p)
    BY <1>2, <2>1
  <2>2. CASE e \in C
    <3>1. Rank(Range(l), e) < n
      BY <1>6, <2>2 DEF AllBehind
    <3>2. QED
      BY <1>1, <1>4, <3>1
  <2>3. QED
    BY <1>6, <2>1, <2>2
<1>7. QED
  BY <1>5, <1>6 DEF AllBehind

\* The ids of the entries of a result.
CollectedOf(r) == {r[i].id : i \in 1 .. Len(r)}
DistinctIds(r) == \A i, j \in 1 .. Len(r) : r[i].id = r[j].id => i = j

\* An entry as the control point must have it, and as it may have been listed.
Held(o, entry) == EntryListed(entry, entry.id, ParentId(o), Type[entry.id], Title[entry.id])
Speaks(e) == Speakable(Title[e])

\* One page more.
Extended(r, p, o, u) ==
  /\ IsSeq(u) /\ Len(u) = Len(r) + Len(p) /\ Len(r) \in Nat
  /\ \A i \in 1 .. Len(r) : u[i] = r[i]
  /\ \A i \in 1 .. Len(p) : u[Len(r) + i].id = p[i] /\ Held(o, u[Len(r) + i])

(* The entries of a page are appended to the result.                       *)
LEMMA PageReceived ==
  ASSUME NEW r, IsSeq(r), NEW o, NEW p \in Seq(Entries), NEW es, ListedAs(es, ParentId(o), p, Len(p))
  PROVE  Extended(r, p, o, r \o es)
<1>1. PICK S, T, n : r \in Seq(S) /\ es \in Seq(T) /\ n = Len(p)
  BY DEF ListedAs, IsSeq
<1>2. PICK R, u : R = S \cup T /\ u = r \o es
  OBVIOUS
<1>3. r \in Seq(R) /\ es \in Seq(R) /\ Len(r) \in Nat /\ Len(es) = n /\ n \in Nat
  BY <1>1, <1>2 DEF ListedAs
<1>4. u \in Seq(R) /\ Joined(r, es, u)
  BY <1>2, <1>3, JoinedIs, Zenon
<1>5. /\ Len(u) = Len(r) + n /\ (\A i \in 1 .. Len(r) : u[i] = r[i])
      /\ \A i \in 1 .. n : u[Len(r) + i] = es[i]
  BY <1>3, <1>4 DEF Joined
<1>6. ASSUME NEW i \in 1 .. n PROVE es[i].id = p[i] /\ Held(o, es[i])
  <2>1. EntryListed(es[i], p[i], ParentId(o), Type[p[i]], Title[p[i]])
    BY <1>1, <1>6 DEF ListedAs
  <2>2. es[i].id = p[i]
    BY <2>1 DEF EntryListed, Begun
  <2>3. QED
    BY <2>1, <2>2 DEF Held
<1>7. IsSeq(u)
  BY <1>4 DEF IsSeq
<1>8. QED
  BY <1>1, <1>2, <1>3, <1>5, <1>6, <1>7 DEF Extended

(* The result after a page: what it collects, and that it collects nothing *)
(* twice if the page is new.                                               *)
LEMMA ExtendedBy ==
  ASSUME NEW r, NEW o, NEW p \in Seq(Entries), NEW u, Extended(r, p, o, u)
  PROVE  /\ \A i \in 1 .. Len(u) : (i \in 1 .. Len(r) /\ u[i] = r[i])
                                   \/ (i - Len(r) \in 1 .. Len(p) /\ u[i].id = p[i - Len(r)] /\ Held(o, u[i]))
         /\ CollectedOf(u) = CollectedOf(r) \cup Range(p)
         /\ DistinctIds(r) /\ Distinct(p) /\ Range(p) \cap CollectedOf(r) = {} => DistinctIds(u)
<1>1. /\ Len(u) = Len(r) + Len(p) /\ Len(r) \in Nat /\ Len(p) \in Nat /\ DOMAIN p = 1 .. Len(p)
      /\ \A i \in 1 .. Len(r) : u[i] = r[i]
      /\ \A i \in 1 .. Len(p) : u[Len(r) + i].id = p[i] /\ Held(o, u[Len(r) + i])
  BY DEF Extended
<1>2. ASSUME NEW i \in 1 .. Len(u), i \notin 1 .. Len(r) PROVE i - Len(r) \in 1 .. Len(p) /\ u[i].id = p[i - Len(r)] /\ Held(o, u[i])
  <2>1. PICK j : j = i - Len(r)
    OBVIOUS
  <2>2. j \in 1 .. Len(p) /\ i = Len(r) + j
    BY <1>1, <1>2, <2>1
  <2>3. QED
    BY <1>1, <2>1, <2>2
<1>3. \A i \in 1 .. Len(u) : (i \in 1 .. Len(r) /\ u[i] = r[i]) \/ (i - Len(r) \in 1 .. Len(p) /\ u[i].id = p[i - Len(r)] /\ Held(o, u[i]))
  BY <1>1, <1>2
<1>4. CollectedOf(u) = CollectedOf(r) \cup Range(p)
  <2>1. ASSUME NEW e \in CollectedOf(u) PROVE e \in CollectedOf(r) \cup Range(p)
    <3>1. PICK i \in 1 .. Len(u) : e = u[i].id
      BY DEF CollectedOf
    <3>2. CASE i \in 1 .. Len(r)
      BY <1>1, <3>1, <3>2 DEF CollectedOf
    <3>3. CASE i - Len(r) \in 1 .. Len(p) /\ u[i].id = p[i - Len(r)]
      BY <1>1, <3>1, <3>3 DEF Range
    <3>4. QED
      BY <1>3, <3>2, <3>3
  <2>2. ASSUME NEW e \in CollectedOf(r) PROVE e \in CollectedOf(u)
    <3>1. PICK i \in 1 .. Len(r) : e = r[i].id
      BY DEF CollectedOf
    <3>2. i \in 1 .. Len(u) /\ u[i] = r[i]
      BY <1>1
    <3>3. QED
      BY <3>1, <3>2 DEF CollectedOf
  <2>3. ASSUME NEW e \in Range(p) PROVE e \in CollectedOf(u)
    <3>1. PICK i \in 1 .. Len(p) : e = p[i]
      BY <1>1 DEF Range
    <3>2. Len(r) + i \in 1 .. Len(u) /\ u[Len(r) + i].id = p[i]
      BY <1>1
    <3>3. QED
      BY <3>1, <3>2 DEF CollectedOf
  <2>4. QED
    BY <2>1, <2>2, <2>3
<1>5. ASSUME DistinctIds(r), Distinct(p), Range(p) \cap CollectedOf(r) = {} PROVE DistinctIds(u)
  <2>1. \A i, j \in 1 .. Len(r) : r[i].id = r[j].id => i = j
    BY <1>5 DEF DistinctIds
  <2>2. \A i, j \in 1 .. Len(p) : p[i] = p[j] => i = j
    BY <1>5 DEF Distinct
  <2>3. \A i \in 1 .. Len(r), j \in 1 .. Len(p) : r[i].id # p[j]
    BY <1>1, <1>5 DEF Range, CollectedOf
  <2>4. ASSUME NEW i \in 1 .. Len(u), NEW j \in 1 .. Len(u), u[i].id = u[j].id PROVE i = j
    <3>1. CASE i \in 1 .. Len(r) /\ j \in 1 .. Len(r)
      BY <1>1, <2>1, <2>4, <3>1
    <3>2. CASE i \in 1 .. Len(r) /\ j \notin 1 .. Len(r)
      <4>1. j - Len(r) \in 1 .. Len(p) /\ u[j].id = p[j - Len(r)] /\ u[i].id = r[i].id
        BY <1>1, <1>3, <3>2
      <4>2. QED
        BY <2>3, <2>4, <3>2, <4>1
    <3>3. CASE i \notin 1 .. Len(r) /\ j \in 1 .. Len(r)
      <4>1. i - Len(r) \in 1 .. Len(p) /\ u[i].id = p[i - Len(r)] /\ u[j].id = r[j].id
        BY <1>1, <1>3, <3>3
      <4>2. QED
        BY <2>3, <2>4, <3>3, <4>1
    <3>4. CASE i \notin 1 .. Len(r) /\ j \notin 1 .. Len(r)
      <4>1. /\ i - Len(r) \in 1 .. Len(p) /\ u[i].id = p[i - Len(r)]
            /\ j - Len(r) \in 1 .. Len(p) /\ u[j].id = p[j - Len(r)]
        BY <1>2, <3>4
      <4>2. i - Len(r) = j - Len(r)
        BY <2>2, <2>4, <4>1
      <4>3. QED
        BY <1>1, <4>2
    <3>5. QED
      BY <3>1, <3>2, <3>3, <3>4
  <2>5. QED
    BY <2>4 DEF DistinctIds
<1>6. QED
  BY <1>3, <1>4, <1>5

(* A result without repetition collects as many entries as it is long.     *)
LEMMA DistinctCounted ==
  ASSUME NEW r, Len(r) \in Nat, DistinctIds(r)
  PROVE  Cardinality(CollectedOf(r)) = Len(r)
<1>1. PICK n, E, f : n = Len(r) /\ E = CollectedOf(r) /\ f = [i \in 1 .. n |-> r[i].id]
  OBVIOUS
<1>2. f \in [1 .. n -> E] /\ \A i \in 1 .. n : f[i] = r[i].id
  BY <1>1 DEF CollectedOf
<1>3. \A i, j \in 1 .. n : f[i] = f[j] => i = j
  BY <1>1, <1>2 DEF DistinctIds
<1>4. \A e \in E : \E i \in 1 .. n : f[i] = e
  BY <1>1, <1>2 DEF CollectedOf
<1>5. f \in Bijection(1 .. n, E)
  <2>1. f \in Injection(1 .. n, E)
    BY <1>2, <1>3 DEF Injection, IsInjective
  <2>2. f \in Surjection(1 .. n, E)
    BY <1>2, <1>4 DEF Surjection
  <2>3. QED
    BY <2>1, <2>2 DEF Bijection
<1>6. IsFiniteSet(1 .. n) /\ Cardinality(1 .. n) = n
  <2>1. n \in Int /\ 1 \in Int /\ (IF 1 > n THEN 0 ELSE n - 1 + 1) = n
    BY <1>1
  <2>2. IsFiniteSet(1 .. n) /\ Cardinality(1 .. n) = IF 1 > n THEN 0 ELSE n - 1 + 1
    BY <2>1, FS_Interval
  <2>3. QED
    BY <2>1, <2>2
<1>7. ExistsBijection(1 .. n, E)
  BY <1>5 DEF ExistsBijection
<1>8. Cardinality(E) = n
  BY <1>6, <1>7, FS_Bijection
<1>9. QED
  BY <1>1, <1>8

\* The list after each entry that readdir returns.
Listing(d) ==
  LET after[i \in 0 .. Len(d)] == IF i = 0 THEN << >> ELSE Insert(after[i - 1], d[i])
  IN after
Lists(d, f) == f = [i \in 0 .. Len(d) |-> IF i = 0 THEN << >> ELSE Insert(f[i - 1], d[i])]

(* There is a function as Listing defines it.                              *)
LEMMA ListingExists == ASSUME NEW S, NEW d \in Seq(S) PROVE Lists(d, Listing(d))
<1> DEFINE Starts(n, f) == f = [i \in 0 .. n |-> IF i = 0 THEN << >> ELSE Insert(f[i - 1], d[i])]
           Good == {n \in Nat : \E f : Starts(n, f)}
<1>1. 0 \in Good
  <2>1. Starts(0, [i \in 0 .. 0 |-> << >>])
    OBVIOUS
  <2>2. QED
    BY <2>1
<1>2. ASSUME NEW k \in Nat, k \in Good PROVE k + 1 \in Good
  <2>1. PICK f : Starts(k, f)
    BY <1>2
  <2> DEFINE g == [i \in 0 .. k + 1 |-> IF i = 0 THEN << >> ELSE Insert(f[i - 1], d[i])]
  <2>2. ASSUME NEW i \in 0 .. k + 1, i # 0 PROVE g[i - 1] = f[i - 1]
    <3>1. i - 1 \in 0 .. k /\ i - 1 \in 0 .. k + 1
      BY <2>2
    <3>2. f[i - 1] = IF i - 1 = 0 THEN << >> ELSE Insert(f[(i - 1) - 1], d[i - 1])
      BY <2>1, <3>1
    <3>3. QED
      BY <3>1, <3>2
  <2>3. Starts(k + 1, g)
    <3>1. g = [i \in 0 .. k + 1 |-> IF i = 0 THEN << >> ELSE Insert(g[i - 1], d[i])]
      BY <2>2
    <3>2. QED
      BY <3>1
  <2> HIDE DEF Starts, g
  <2>4. QED
    BY <2>3
<1>3. Len(d) \in Nat
  OBVIOUS
<1> HIDE DEF Good
<1>4. \A k \in 0 .. Len(d) : k \in Good
  BY <1>1, <1>2, <1>3, UpTo
<1>5. Len(d) \in Good
  BY <1>3, <1>4
<1>6. \E f : Lists(d, f)
  BY <1>5 DEF Good, Lists
<1>7. Lists(d, CHOOSE f : Lists(d, f))
  BY <1>6, Zenon
<1>8. Listing(d) = CHOOSE f : Lists(d, f)
  BY Zenon DEF Listing, Lists
<1>9. QED
  BY <1>7, <1>8

\* It is the sorted list of those read so far.
ListOf(d, l, k) ==
  /\ l \in Seq(Entries) /\ Distinct(l) /\ Len(l) = k
  /\ Range(l) = {d[i] : i \in 1 .. k}
  /\ OneKindOf(Range(d)) => Ordered(l)

(* The list after each entry that readdir returns is the sorted list of    *)
(* those returned so far.                                                  *)
LEMMA ListingIs ==
  ASSUME NEW d \in Seq(Entries), Distinct(d)
  PROVE  /\ Listing(d)[0] = << >>
         /\ \A k \in 0 .. Len(d) : ListOf(d, Listing(d)[k], k)
         /\ \A k \in 0 .. Len(d) - 1 : Listing(d)[k + 1] = Insert(Listing(d)[k], d[k + 1])
<1>1. PICK f, n : f = Listing(d) /\ n = Len(d)
  OBVIOUS
<1>2. f = [i \in 0 .. n |-> IF i = 0 THEN << >> ELSE Insert(f[i - 1], d[i])] /\ n \in Nat /\ DOMAIN d = 1 .. n
      /\ \A i \in 1 .. n : d[i] \in Entries
  BY <1>1, ListingExists DEF Lists
<1>3. \A i \in 0 .. n : f[i] = IF i = 0 THEN << >> ELSE Insert(f[i - 1], d[i])
  BY <1>2, Zenon
<1>4. f[0] = << >>
  BY <1>2, <1>3
<1>5. \A k \in 0 .. n - 1 : f[k + 1] = Insert(f[k], d[k + 1])
  <2>1. ASSUME NEW k \in 0 .. n - 1 PROVE f[k + 1] = Insert(f[k], d[k + 1])
    <3>1. k + 1 \in 0 .. n /\ k + 1 # 0 /\ (k + 1) - 1 = k
      BY <1>2
    <3>2. f[k + 1] = Insert(f[(k + 1) - 1], d[k + 1])
      BY <1>3, <3>1, Zenon
    <3>3. QED
      BY <3>1, <3>2
  <2>2. QED
    BY <2>1
<1> DEFINE Good == {k \in Nat : k <= n => ListOf(d, f[k], k)}
<1>6. 0 \in Good
  <2>1. ListOf(d, << >>, 0)
    BY DEF ListOf, Distinct, Ordered, Range
  <2>2. QED
    BY <1>4, <2>1
<1>7. ASSUME NEW k \in Nat, k < n, k \in Good PROVE k + 1 \in Good
  <2>1. PICK l, e, r : l = f[k] /\ e = d[k + 1] /\ r = f[k + 1]
    OBVIOUS
  <2>2. ListOf(d, l, k) /\ k \in 0 .. n - 1 /\ k + 1 \in 1 .. n /\ e \in Entries
    BY <1>2, <1>7, <2>1
  <2>3. r = Insert(l, e)
    BY <1>5, <2>1, <2>2
  <2>4. l \in Seq(Entries) /\ Distinct(l) /\ Len(l) = k /\ Range(l) = {d[i] : i \in 1 .. k} /\ (OneKindOf(Range(d)) => Ordered(l))
    BY <2>2 DEF ListOf
  <2>5. e \notin Range(l)
    <3>1. ASSUME NEW i \in 1 .. k, d[i] = d[k + 1] PROVE FALSE
      <4>1. i \in 1 .. n /\ i # k + 1
        BY <1>2, <1>7
      <4>2. QED
        BY <1>1, <2>2, <3>1, <4>1 DEF Distinct
    <3>2. QED
      BY <2>1, <2>4, <3>1
  <2>6. /\ r \in Seq(Entries) /\ Distinct(r) /\ Len(r) = k + 1 /\ Range(r) = Range(l) \cup {e}
        /\ OneKindOf(Range(l) \cup {e}) /\ Ordered(l) => Ordered(r)
    BY <2>2, <2>3, <2>4, <2>5, InsertSorts
  <2>7. Range(r) = {d[i] : i \in 1 .. k + 1}
    <3>1. \A i \in 1 .. k + 1 : i = k + 1 \/ i \in 1 .. k
      BY <1>7
    <3>2. \A i \in 1 .. k : i \in 1 .. k + 1
      BY <1>7
    <3>3. k + 1 \in 1 .. k + 1
      BY <1>7
    <3>4. QED
      BY <2>1, <2>4, <2>6, <3>1, <3>2, <3>3
  <2>8. OneKindOf(Range(d)) => OneKindOf(Range(l) \cup {e})
    <3>1. Range(r) \subseteq Range(d)
      <4>1. \A i \in 1 .. k + 1 : i \in 1 .. n
        BY <1>2, <1>7
      <4>2. QED
        BY <1>2, <2>7, <4>1 DEF Range
    <3>2. Range(l) \cup {e} \subseteq Range(d)
      BY <2>6, <3>1
    <3>3. QED
      BY <3>2 DEF OneKindOf
  <2>9. ListOf(d, r, k + 1)
    BY <2>4, <2>6, <2>7, <2>8 DEF ListOf
  <2>10. QED
    BY <2>1, <2>9
<1> HIDE DEF Good
<1>8. \A k \in 0 .. n : k \in Good
  BY <1>2, <1>6, <1>7, UpTo
<1>9. \A k \in 0 .. n : ListOf(d, f[k], k)
  BY <1>2, <1>8 DEF Good
<1>10. QED
  BY <1>1, <1>4, <1>5, <1>9

(* Of the entries yet to come, fewer than a page come before one of the    *)
(* next page.                                                              *)
LEMMA FewEarlier ==
  ASSUME NEW l \in Seq(Entries), Distinct(l), Ordered(l), NEW n \in Nat, NEW C, \A i \in 1 .. Len(l) : i <= n => l[i] \in C,
         NEW p \in Seq(Entries), PageOf(l, n, p), NEW e \in Range(p)
  PROVE  Cardinality({d \in Range(l) \ C : Earlier(d, e)}) < Requested
<1>1. /\ Len(l) \in Nat /\ DOMAIN l = 1 .. Len(l) /\ (\A i \in 1 .. Len(l) : l[i] \in Entries) /\ Range(l) \subseteq Entries
      /\ DOMAIN p = 1 .. Len(p) /\ Len(p) \in Nat /\ Requested \in Nat /\ IsFiniteSet(Entries)
  BY BrowseAssumption DEF Range
<1>2. PICK j \in 1 .. Len(p) : e = p[j]
  BY <1>1 DEF Range
<1>3. n + j \in 1 .. Len(l) /\ e = l[n + j] /\ Len(p) <= Requested
  BY <1>2 DEF PageOf
<1>4. \A i, k \in 1 .. Len(l) : i < k => Earlier(l[i], l[k])
  BY DEF Ordered
<1>5. PICK X, Y, f : /\ X = {d \in Range(l) \ C : Earlier(d, e)} /\ Y = {l[n + i] : i \in 1 .. j - 1}
                     /\ f = [i \in 1 .. j - 1 |-> l[n + i]]
  OBVIOUS
<1>6. X \subseteq Y
  <2>1. ASSUME NEW d \in X PROVE d \in Y
    <3>1. d \in Range(l) /\ d \notin C /\ Earlier(d, e)
      BY <1>5
    <3>2. PICK i \in 1 .. Len(l) : d = l[i]
      BY <1>1, <3>1 DEF Range
    <3>3. ~ (i <= n)
      BY <3>1, <3>2
    <3>4. ~ (i >= n + j)
      <4>1. ASSUME i >= n + j PROVE FALSE
        <5>1. e \in Entries /\ d \in Entries
          BY <1>1, <1>3, <3>2
        <5>2. CASE i = n + j
          BY <1>3, <3>1, <3>2, <5>1, <5>2, EarlierOrder
        <5>3. CASE i > n + j
          <6>1. Earlier(e, d)
            BY <1>3, <1>4, <3>2, <5>3
          <6>2. Earlier(e, e)
            BY <3>1, <5>1, <6>1, EarlierOrder
          <6>3. QED
            BY <5>1, <6>2, EarlierOrder
        <5>4. QED
          BY <1>1, <4>1, <5>2, <5>3
      <4>2. QED
        BY <4>1
    <3>5. i - n \in 1 .. j - 1 /\ n + (i - n) = i
      BY <1>1, <3>3, <3>4
    <3>6. QED
      BY <1>5, <3>2, <3>5
  <2>2. QED
    BY <2>1
<1>7. j - 1 \in Nat
  BY <1>1
<1>8. f \in Surjection(1 .. j - 1, Y)
  <2>1. f \in [1 .. j - 1 -> Y] /\ \A i \in 1 .. j - 1 : f[i] = l[n + i]
    BY <1>5
  <2>2. \A d \in Y : \E i \in 1 .. j - 1 : f[i] = d
    BY <1>5, <2>1
  <2>3. QED
    BY <2>1, <2>2 DEF Surjection
<1>9. Cardinality(Y) <= j - 1
  <2>1. ExistsSurjection(1 .. j - 1, Y)
    BY <1>8 DEF ExistsSurjection
  <2>2. QED
    BY <1>7, <2>1, FS_SurjCardinalityBound
<1>10. Y \subseteq Entries
  <2>1. \A i \in 1 .. j - 1 : n + i \in 1 .. Len(l)
    BY <1>1, <1>3
  <2>2. QED
    BY <1>1, <1>5, <2>1
<1>11. IsFiniteSet(Y)
  BY <1>1, <1>10, FS_Subset
<1>12. Cardinality(X) <= Cardinality(Y) /\ IsFiniteSet(X)
  BY <1>6, <1>11, FS_Subset
<1>13. Cardinality(X) \in Nat /\ Cardinality(Y) \in Nat
  BY <1>11, <1>12, FS_CardinalityType
<1>14. Cardinality(X) < Requested
  BY <1>1, <1>3, <1>7, <1>9, <1>12, <1>13
<1>15. QED
  BY <1>5, <1>14

(* The files are of one type, or the directory is mixed.                   *)
LEMMA MixedIs == ASSUME Range(start) \cup added \subseteq Entries, ~ OneKindOf(Range(start) \cup added) PROVE Mixed
<1>1. PICK d, e \in Range(start) \cup added : Type[d] # Folder /\ Type[e] # Folder /\ Type[d] # Type[e]
  BY DEF OneKindOf
<1>2. PICK T, S : T = {Type[x] : x \in Range(start) \cup added} \ {Folder} /\ S = {Type[d], Type[e]}
  OBVIOUS
<1>3. S \subseteq T
  BY <1>1, <1>2
<1>4. IsFiniteSet({Type[d]}) /\ Cardinality({Type[d]}) = 1
  BY FS_Singleton
<1>5. IsFiniteSet({Type[d]} \cup {Type[e]}) /\ Cardinality({Type[d]} \cup {Type[e]}) = 2
  <2>1. Type[e] \notin {Type[d]}
    BY <1>1
  <2>2. /\ IsFiniteSet({Type[d]} \cup {Type[e]})
        /\ Cardinality({Type[d]} \cup {Type[e]}) = IF Type[e] \in {Type[d]} THEN Cardinality({Type[d]}) ELSE Cardinality({Type[d]}) + 1
    BY <1>4, FS_AddElement
  <2>3. QED
    BY <1>4, <2>1, <2>2
<1>6. {Type[d]} \cup {Type[e]} = S
  BY <1>2
<1>7. IsFiniteSet(T)
  <2>1. PICK K : K = {"storageFolder", "musicTrack", "movie", "photo"}
    OBVIOUS
  <2>2. T \subseteq K
    BY <1>2, <2>1, BrowseAssumption
  <2>3. IsFiniteSet(K)
    <3>1. PICK a, b, c, f : a = {} \cup {"storageFolder"} /\ b = a \cup {"musicTrack"} /\ c = b \cup {"movie"} /\ f = c \cup {"photo"}
      OBVIOUS
    <3>2. IsFiniteSet(a)
      BY <3>1, FS_EmptySet, FS_AddElement
    <3>3. IsFiniteSet(b)
      BY <3>1, <3>2, FS_AddElement
    <3>4. IsFiniteSet(c)
      BY <3>1, <3>3, FS_AddElement
    <3>5. IsFiniteSet(f)
      BY <3>1, <3>4, FS_AddElement
    <3>6. f = K
      BY <2>1, <3>1
    <3>7. QED
      BY <3>5, <3>6
  <2>4. QED
    BY <2>2, <2>3, FS_Subset
<1>8. Cardinality(S) <= Cardinality(T) /\ Cardinality(S) = 2 /\ Cardinality(T) \in Nat
  BY <1>3, <1>5, <1>6, <1>7, FS_Subset, FS_CardinalityType
<1>9. Cardinality(T) > 1
  BY <1>8
<1>10. QED
  BY <1>2, <1>9 DEF Mixed

(* Division and remainder.                                                 *)
LEMMA Multiples ==
  /\ \A R \in Nat \ {0}, n \in Nat : n % R \in 0 .. R - 1 /\ n \div R \in Int /\ n = R * (n \div R) + (n % R)
  /\ \A R \in Nat \ {0}, n \in Int, m \in Nat : m < R /\ R * n = m => m = 0
<1>1. ASSUME NEW R \in Nat \ {0}, NEW n \in Nat PROVE n % R \in 0 .. R - 1 /\ n \div R \in Int /\ n = R * (n \div R) + (n % R)
  <2>1. n % R \in 0 .. R - 1 /\ n \div R \in Int
    OBVIOUS
  <2>2. n = R * (n \div R) + (n % R)
    OBVIOUS
  <2>3. QED
    BY <2>1, <2>2
<1>2. ASSUME NEW R \in Nat \ {0}, NEW n \in Int, NEW m \in Nat, m < R, R * n = m PROVE m = 0
  <2>1. CASE n = 0
    BY <1>2, <2>1
  <2>2. CASE n >= 1
    <3>1. R * n >= R * 1
      BY <2>2
    <3>2. QED
      BY <1>2, <3>1
  <2>3. CASE n <= -1
    <3>1. R * n <= R * (-1)
      BY <2>3
    <3>2. QED
      BY <1>2, <3>1
  <2>4. QED
    BY <2>1, <2>2, <2>3
<1>3. QED
  BY <1>1, <1>2

(* The places the loop asks from are multiples of a page.                  *)
LEMMA PagesAdd == ASSUME NEW R \in Nat \ {0}, NEW n \in Nat, n % R = 0 PROVE (n + R) % R = 0
<1>1. PICK q, u, m, k : q = n \div R /\ u = (n + R) \div R /\ m = (n + R) % R /\ k = n + R
  OBVIOUS
<1>2. q \in Int /\ n = R * q + (n % R)
  BY <1>1, Multiples
<1>3. k \in Nat /\ u \in Int /\ m \in 0 .. R - 1 /\ k = R * u + m
  <2>1. k \in Nat
    BY <1>1
  <2>2. k % R \in 0 .. R - 1 /\ k \div R \in Int /\ k = R * (k \div R) + (k % R)
    BY <2>1, Multiples
  <2>3. QED
    BY <1>1, <2>1, <2>2
<1>4. n = R * q
  BY <1>2
<1>5. R * ((q + 1) - u) = m
  <2>1. \A a, b \in Int : R * a - R * b = R * (a - b)
    OBVIOUS
  <2>2. R * (q + 1) = R * q + R
    BY <1>2
  <2>3. R * (q + 1) - R * u = R * ((q + 1) - u)
    BY <1>2, <1>3, <2>1
  <2>4. R * q \in Int /\ R * u \in Int
    BY <1>2, <1>3
  <2>5. QED
    BY <1>1, <1>3, <1>4, <2>2, <2>3, <2>4
<1>6. m = 0
  <2>1. (q + 1) - u \in Int /\ m \in Nat /\ m < R
    BY <1>2, <1>3
  <2>2. QED
    BY <1>5, <2>1, Multiples
<1>7. QED
  BY <1>1, <1>6

(* A directory at the start is a sequence of entries without repetition.   *)
LEMMA InitialDir ==
  ASSUME NEW d \in UNION {SetToSeqs(E) : E \in SUBSET Entries}
  PROVE  d \in Seq(Entries) /\ Distinct(d)
<1>1. PICK E \in SUBSET Entries : d \in SetToSeqs(E)
  OBVIOUS
<1>2. PICK n : n = Cardinality(E)
  OBVIOUS
<1>3. n \in Nat
  BY <1>2, BrowseAssumption, FS_Subset, FS_CardinalityType
<1>4. d \in [1 .. n -> E] /\ \A i, j \in 1 .. n : d[i] = d[j] => i = j
  <2>1. d \in {f \in [1 .. n -> E] : \A i, j \in 1 .. n : i # j => f[i] # f[j]}
    BY <1>1, <1>2, Zenon DEF SetToSeqs
  <2>2. QED
    BY <2>1
<1>5. d \in Seq(E) /\ Len(d) = n
  BY <1>3, <1>4, FunctionIsSequence
<1>6. d \in Seq(Entries)
  BY <1>5
<1>7. QED
  BY <1>4, <1>5, <1>6 DEF Distinct

(* What the loop, or upnpd_controller_browse_metadata, gets for an answer  *)
(* to its question.                                                        *)
LEMMA AnswerFor ==
  ASSUME NEW answer \in Answers, NEW o, answer.object = o
  PROVE  \E p \in Seq(Entries) :
           /\ answer.page = p
           /\ answer.flag = "BrowseDirectChildren" =>
                (answer.parses <=> Told(p)) /\ (Told(p) => ListedAs(answer.entries, ParentId(o), p, Len(p)))
           /\ answer.flag = "BrowseMetadata" => (Told(p) => ListedAs(answer.entries, ParentId(o), p, Len(p)))
<1>1. CASE answer \in {AnswerTo("BrowseDirectChildren", q, ParentId(q), p) : q \in {"root", "folder"}, p \in Pages}
  <2>1. PICK q \in {"root", "folder"}, p \in Pages : answer = AnswerTo("BrowseDirectChildren", q, ParentId(q), p)
    BY <1>1
  <2>2. p \in Seq(Entries)
    <3>1. PICK n \in 0 .. Requested : p \in [1 .. n -> Entries]
      BY DEF Pages
    <3>2. QED
      BY <3>1, BrowseAssumption, FunctionIsSequence
  <2>3. /\ answer.flag = "BrowseDirectChildren" /\ answer.object = q /\ answer.page = p
        /\ answer.parses <=> Told(p)
        /\ Told(p) => ListedAs(answer.entries, ParentId(q), p, Len(p))
    BY <2>1, <2>2, AnswerRight
  <2>4. QED
    BY <2>2, <2>3, Zenon
<1>2. CASE answer \in {AnswerTo("BrowseMetadata", q, MetadataParentId(q), << e >>) : q \in {"root", "folder"}, e \in Entries}
  <2>1. PICK q \in {"root", "folder"}, e \in Entries : answer = AnswerTo("BrowseMetadata", q, MetadataParentId(q), << e >>)
    BY <1>2
  <2>2. PICK p : p = << e >>
    OBVIOUS
  <2>3. p \in Seq(Entries)
    BY <2>2
  <2>4. MetadataParentId(q) = ParentId(q)
    BY DEF MetadataParentId, ParentId, PathParent
  <2>5. answer = AnswerTo("BrowseMetadata", q, ParentId(q), p)
    BY <2>1, <2>2, <2>4
  <2>6. /\ answer.flag = "BrowseMetadata" /\ answer.object = q /\ answer.page = p
        /\ answer.parses <=> Told(p)
        /\ Told(p) => ListedAs(answer.entries, ParentId(q), p, Len(p))
    BY <2>3, <2>5, AnswerRight
  <2>7. "BrowseMetadata" # "BrowseDirectChildren"
    OBVIOUS
  <2>8. QED
    BY <2>3, <2>6, <2>7, Zenon
<1>3. QED
  BY <1>1, <1>2 DEF Answers

-----------------------------------------------------------------------------

\* What was there at the start or came later.
All == Range(start) \cup added

\* What the server has seen of the directory.
Seen == Range(sorted) \cup Range(unread)

\* The list of the directory as it was at the start.
WholeList == Listing(start)[Len(start)]
Unchanged == added = {} /\ removed = {}

\* The ids collected are the first n of a list.
PrefixOf(r, l, n) == Len(r) = n /\ n \in Nat /\ n <= Len(l) /\ \A i \in 1 .. n : r[i].id = l[i]

\* What readdir has yet to return.
Rest(s, d, k) == Len(s) = Len(d) - k /\ \A i \in 1 .. Len(s) : s[i] = d[k + i]

\* The directory is what it was, but for what was removed and added.
DirInv ==
  /\ object \in {"root", "folder"}
  /\ start \in Seq(Entries) /\ Distinct(start) /\ dir \in Seq(Entries) /\ Distinct(dir)
  /\ added \subseteq Entries /\ added \cap Range(start) = {} /\ removed \subseteq Range(start)
  /\ Range(dir) = (Range(start) \ removed) \cup added

\* The server has sorted what it has read; nothing it has not seen was there all the time.
ScanInv ==
  pc = "scan" =>
    /\ sorted \in Seq(Entries) /\ Distinct(sorted) /\ unread \in Seq(Entries) /\ Distinct(unread)
    /\ Range(sorted) \cap Range(unread) = {}
    /\ Range(start) \ removed \subseteq Seen /\ Seen \subseteq All
    /\ OneKindOf(All) => Ordered(sorted)

\* What a page, and what the entries collected, are made of.
PageFrom(r, S) ==
  /\ r.entries \in Seq(Entries) /\ r.returned = Len(r.entries) /\ r.total \in Nat
  /\ Range(r.entries) \subseteq S
Known(r, o, S) == IsSeq(r) /\ \A i \in 1 .. Len(r) : r[i].id \in S /\ Speaks(r[i].id) /\ Held(o, r[i])

\* What is answered and collected is of the directory, and described as the server has it.
ResultInv ==
  /\ pc \in {"ask", "asked", "scan", "answered", "done", "failed", "known"}
  /\ count \in Nat
  /\ pc = "answered" /\ ~ response.fault => PageFrom(response, All)
  /\ Known(result, object, All)
  /\ pc = "known" =>
       IF response.fault THEN response.asked \in removed
       ELSE Collected = {response.asked} /\ Len(result) = 1 /\ AsHeld(result[1])

\* While nothing is removed, what is missing is still ahead.
UpInv ==
  removed = {} /\ OneKindOf(All) =>
    /\ pc \in {"ask", "asked"} => StillAhead(Range(start), CollectedOf(result), count, Range(dir))
    /\ pc = "scan" => StillAhead(Range(start), CollectedOf(result), count, Seen)
    /\ pc = "answered" /\ response.fault => Range(start) \subseteq CollectedOf(result)
    /\ pc = "answered" /\ ~ response.fault =>
         /\ StillAhead(Range(start), CollectedOf(result) \cup Range(response.entries), count + response.returned, Range(dir))
         /\ response.total = 0 \/ response.returned = 0 \/ count + response.returned >= response.total =>
              Range(start) \subseteq CollectedOf(result) \cup Range(response.entries)
    /\ pc = "done" /\ (\A e \in All : Speaks(e)) => Range(start) \subseteq CollectedOf(result)

\* While nothing is added, what is collected is behind.
DownInv ==
  added = {} /\ OneKindOf(All) =>
    /\ DistinctIds(result)
    /\ pc \in {"ask", "asked"} => AllBehind(CollectedOf(result), count, Range(dir))
    /\ pc = "scan" => AllBehind(CollectedOf(result), count, Seen)
    /\ pc = "answered" /\ ~ response.fault =>
         /\ Distinct(response.entries) /\ Range(response.entries) \cap CollectedOf(result) = {}
         /\ AllBehind(CollectedOf(result) \cup Range(response.entries), count + response.returned, Range(dir))

\* While nothing changes, what is collected are the first pages of one list.
SameInv ==
  Unchanged =>
    /\ dir = start
    /\ pc = "scan" => \E k \in 0 .. Len(start) : sorted = Listing(start)[k] /\ Rest(unread, start, k)
    /\ pc \in {"ask", "asked", "scan", "answered"} => PrefixOf(result, WholeList, count) /\ count % Requested = 0
    /\ pc = "answered" /\ response.fault => count = Len(WholeList)
    /\ pc = "answered" /\ ~ response.fault => response.entries = Page(WholeList, count) /\ response.total = Len(WholeList)
    /\ pc = "done" =>
         /\ PrefixOf(result, WholeList, Len(result))
         /\ \/ Len(result) = Len(WholeList)
            \/ Len(result) % Requested = 0 /\ ~ Told(Page(WholeList, Len(result)))

\* The inductive invariant.
ListingInv == DirInv /\ ScanInv /\ ResultInv /\ UpInv /\ DownInv /\ SameInv

(* The list of the whole directory.                                        *)
LEMMA WholeIs ==
  ASSUME NEW d \in Seq(Entries), Distinct(d), NEW w, w = Listing(d)[Len(d)]
  PROVE  /\ w \in Seq(Entries) /\ Distinct(w) /\ Len(w) = Len(d) /\ Len(w) \in Nat
         /\ Range(w) = Range(d)
         /\ OneKindOf(Range(d)) => Ordered(w)
<1>1. Len(d) \in Nat /\ DOMAIN d = 1 .. Len(d) /\ Len(d) \in 0 .. Len(d)
  OBVIOUS
<1>2. ListOf(d, w, Len(d))
  BY <1>1, ListingIs
<1>3. Range(d) = {d[i] : i \in 1 .. Len(d)}
  BY <1>1, Zenon DEF Range
<1>4. QED
  BY <1>1, <1>2, <1>3 DEF ListOf

(* Nothing is collected at first.                                          *)
LEMMA NothingYet ==
  /\ CollectedOf(<< >>) = {} /\ DistinctIds(<< >>) /\ IsSeq(<< >>) /\ Len(<< >>) = 0
  /\ \A R \in Nat \ {0} : 0 % R = 0
<1>1. PICK r : r = << >>
  OBVIOUS
<1>2. r \in Seq({}) /\ Len(r) = 0
  BY <1>1
<1>3. CollectedOf(r) = {} /\ DistinctIds(r) /\ IsSeq(r)
  BY <1>2 DEF CollectedOf, DistinctIds, IsSeq
<1>4. ASSUME NEW R \in Nat \ {0} PROVE 0 % R = 0
  <2>1. PICK q, m : q = 0 \div R /\ m = 0 % R
    OBVIOUS
  <2>2. 0 \in Nat /\ m \in 0 .. R - 1 /\ q \in Int /\ 0 = R * q + m
    BY <2>1, Multiples
  <2>3. R * (0 - q) = m
    <3>1. R * (0 - q) = 0 - R * q /\ R * q \in Int
      BY <2>2
    <3>2. QED
      BY <2>2, <3>1
  <2>4. m \in Nat /\ m < R /\ 0 - q \in Int
    BY <2>2
  <2>5. m = 0
    BY <2>3, <2>4, Multiples
  <2>6. QED
    BY <2>1, <2>5
<1>5. QED
  BY <1>1, <1>2, <1>3, <1>4

(* The invariant holds before the first request.                           *)
LEMMA ListingInit == BrowseInit => ListingInv
<1> SUFFICES ASSUME BrowseInit PROVE ListingInv
  OBVIOUS
<1>1. /\ object \in {"root", "folder"} /\ start = dir /\ added = {} /\ removed = {} /\ pc = "ask" /\ count = 0
      /\ result = << >> /\ dir \in Seq(Entries) /\ Distinct(dir) /\ Requested \in Nat \ {0}
  BY InitialDir, BrowseAssumption DEF BrowseInit
<1>2. CollectedOf(result) = {} /\ DistinctIds(result) /\ IsSeq(result) /\ Len(result) = 0 /\ 0 % Requested = 0
  BY <1>1, NothingYet
<1>3. Range(dir) \subseteq Entries
  BY <1>1 DEF Range
<1>4. DirInv
  BY <1>1 DEF DirInv
<1>5. ScanInv
  BY <1>1 DEF ScanInv
<1>6. ResultInv
  BY <1>1, <1>2 DEF ResultInv, Known
<1>7. UpInv
  <2>1. \A e : Rank(Range(dir), e) \in Nat
    BY <1>3, RankIs
  <2>2. StillAhead(Range(start), {}, 0, Range(dir))
    BY <2>1 DEF StillAhead
  <2>3. QED
    BY <1>1, <1>2, <2>2 DEF UpInv
<1>8. DownInv
  <2>1. AllBehind({}, 0, Range(dir))
    BY DEF AllBehind
  <2>2. QED
    BY <1>1, <1>2, <2>1 DEF DownInv
<1>9. SameInv
  <2>1. Len(WholeList) \in Nat
    BY <1>1, WholeIs DEF WholeList
  <2>2. PrefixOf(result, WholeList, count)
    BY <1>1, <1>2, <2>1 DEF PrefixOf
  <2>3. QED
    BY <1>1, <1>2, <2>2 DEF SameInv
<1>10. QED
  BY <1>4, <1>5, <1>6, <1>7, <1>8, <1>9 DEF ListingInv

-----------------------------------------------------------------------------

(* Fewer entries are of no more kinds.                                     *)
LEMMA MoreKinds == \A S, T : S \subseteq T /\ OneKindOf(T) => OneKindOf(S)
  BY DEF OneKindOf

(* What is known of some entries is known of more.                         *)
LEMMA KnownOfMore == \A r, o, S, T : S \subseteq T /\ Known(r, o, S) => Known(r, o, T)
  BY DEF Known

(* What the directory has, when entries are only added or only removed.    *)
LEMMA DirIs ==
  ASSUME DirInv
  PROVE  /\ Range(start) \subseteq Entries /\ Range(dir) \subseteq Entries /\ All \subseteq Entries
         /\ removed = {} => Range(start) \subseteq Range(dir) /\ Range(dir) = All
         /\ added = {} => Range(dir) \subseteq Range(start) /\ All = Range(start)
<1>1. Range(start) \subseteq Entries
  BY DEF DirInv, Range
<1>2. added \subseteq Entries /\ Range(dir) = (Range(start) \ removed) \cup added
  BY DEF DirInv
<1>3. QED
  BY <1>1, <1>2 DEF All

(* An entry more in the directory keeps the invariant: what is still ahead *)
(* moves further ahead.                                                    *)
LEMMA CreateKeeps == ASSUME ListingInv, NEW e \in Entries, Create(e) PROVE ListingInv'
<1>1. /\ DirInv /\ ScanInv /\ ResultInv /\ UpInv
  BY DEF ListingInv
<1>2. /\ pc \notin {"done", "failed", "known"} /\ e \notin Range(dir) /\ e \notin removed
      /\ added' = added \cup {e} /\ object' = object /\ start' = start /\ removed' = removed /\ pc' = pc
      /\ unread' = unread /\ sorted' = sorted /\ count' = count /\ response' = response /\ result' = result
  BY DEF Create, MayChange
<1>3. PICK i \in 1 .. Len(dir) + 1 : dir' = InsertAt(dir, i, e)
  BY DEF Create
<1>4. dir' \in Seq(Entries) /\ Distinct(dir') /\ Range(dir') = Range(dir) \cup {e}
  <2>1. dir \in Seq(Entries) /\ Distinct(dir)
    BY <1>1 DEF DirInv
  <2>2. dir' \in Seq(Entries) /\ Inserted(dir, i, e, dir')
    BY <1>3, <2>1, InsertedAt
  <2>3. QED
    BY <1>2, <2>1, <2>2, InsertedFrom
<1>5. e \notin Range(start)
  BY <1>1, <1>2 DEF DirInv
<1>6. All' = All \cup {e} /\ Range(start)' = Range(start)
  BY <1>2 DEF All
<1>7. DirInv'
  BY <1>1, <1>2, <1>4, <1>5 DEF DirInv
<1>8. OneKindOf(All') => OneKindOf(All)
  BY <1>6, MoreKinds
<1>9. ScanInv'
  BY <1>1, <1>2, <1>6, <1>8 DEF ScanInv, Seen
<1>10. ResultInv'
  <2>1. Known(result, object, All')
    BY <1>1, <1>6, KnownOfMore DEF ResultInv
  <2>2. pc = "answered" /\ ~ response.fault => PageFrom(response, All')
    BY <1>1, <1>6 DEF ResultInv, PageFrom
  <2>3. QED
    BY <1>1, <1>2, <2>1, <2>2 DEF ResultInv
<1>11. UpInv'
  <2> SUFFICES ASSUME removed = {}, OneKindOf(All') PROVE UpInv'
    BY <1>2 DEF UpInv
  <2>1. OneKindOf(All) /\ Range(dir) \subseteq Entries /\ Range(dir') \subseteq Entries /\ Range(dir) \subseteq Range(dir')
    BY <1>1, <1>4, <1>8, DirIs
  <2>2. \A S, C : \A n \in Nat : StillAhead(S, C, n, Range(dir)) => StillAhead(S, C, n, Range(dir'))
    BY <2>1, Shifts
  <2>3. count \in Nat
    BY <1>1 DEF ResultInv
  <2>4. CASE pc \in {"ask", "asked"}
    <3>1. StillAhead(Range(start), CollectedOf(result), count, Range(dir'))
      BY <1>1, <2>1, <2>2, <2>3, <2>4 DEF UpInv
    <3>2. QED
      BY <1>2, <2>4, <3>1 DEF UpInv
  <2>5. CASE pc = "scan"
    BY <1>1, <1>2, <2>1, <2>5 DEF UpInv, Seen
  <2>6. CASE pc = "answered"
    <3>1. ~ response.fault => count + response.returned \in Nat
      BY <1>1, <2>3, <2>6 DEF ResultInv, PageFrom
    <3>2. ~ response.fault => StillAhead(Range(start), CollectedOf(result) \cup Range(response.entries), count + response.returned, Range(dir'))
      BY <1>1, <2>1, <2>2, <2>6, <3>1 DEF UpInv
    <3>3. QED
      BY <1>1, <1>2, <2>1, <2>6, <3>2 DEF UpInv
  <2>7. QED
    BY <1>1, <1>2, <2>4, <2>5, <2>6 DEF ResultInv
<1>12. DownInv' /\ SameInv'
  <2>1. added' # {}
    BY <1>2
  <2>2. QED
    BY <2>1 DEF DownInv, SameInv, Unchanged
<1>13. QED
  BY <1>7, <1>9, <1>10, <1>11, <1>12 DEF ListingInv

(* An entry less keeps it: what is collected stays behind.                 *)
LEMMA UnlinkKeeps == ASSUME ListingInv, NEW e \in Entries, Unlink(e) PROVE ListingInv'
<1>1. /\ DirInv /\ ScanInv /\ ResultInv /\ DownInv
  BY DEF ListingInv
<1>2. /\ pc \notin {"done", "failed", "known"} /\ e \notin added
      /\ removed' = removed \cup {e} /\ object' = object /\ start' = start /\ added' = added /\ pc' = pc
      /\ unread' = unread /\ sorted' = sorted /\ count' = count /\ response' = response /\ result' = result
  BY DEF Unlink, MayChange
<1>3. PICK i \in 1 .. Len(dir) : dir[i] = e /\ dir' = RemoveAt(dir, i)
  BY DEF Unlink
<1>4. dir' \in Seq(Entries) /\ Distinct(dir') /\ Range(dir') = Range(dir) \ {e}
  <2>1. dir \in Seq(Entries) /\ Distinct(dir)
    BY <1>1 DEF DirInv
  <2>2. QED
    BY <1>3, <2>1, RemovedIs
<1>5. e \in Range(start) /\ e \notin removed
  <2>1. e \in Range(dir)
    BY <1>1, <1>3 DEF DirInv, Range
  <2>2. QED
    BY <1>1, <1>2, <2>1 DEF DirInv
<1>6. All' = All /\ Range(start)' = Range(start)
  BY <1>2 DEF All
<1>7. DirInv'
  BY <1>1, <1>2, <1>4, <1>5 DEF DirInv
<1>8. ScanInv'
  BY <1>1, <1>2, <1>6 DEF ScanInv, Seen
<1>9. ResultInv'
  BY <1>1, <1>2, <1>6 DEF ResultInv
<1>10. DownInv'
  <2> SUFFICES ASSUME added = {}, OneKindOf(All) PROVE DownInv'
    BY <1>2, <1>6 DEF DownInv
  <2>1. Range(dir) \subseteq Entries /\ Range(dir') \subseteq Range(dir) /\ Range(dir') \subseteq Entries
    BY <1>1, <1>4, DirIs
  <2>2. \A C : \A n \in Nat : AllBehind(C, n, Range(dir)) => AllBehind(C, n, Range(dir'))
    BY <2>1, Shifts
  <2>3. count \in Nat
    BY <1>1 DEF ResultInv
  <2>4. DistinctIds(result)
    BY <1>1 DEF DownInv
  <2>5. CASE pc \in {"ask", "asked"}
    <3>1. AllBehind(CollectedOf(result), count, Range(dir'))
      BY <1>1, <2>2, <2>3, <2>5 DEF DownInv
    <3>2. QED
      BY <1>2, <2>4, <2>5, <3>1 DEF DownInv
  <2>6. CASE pc = "scan"
    BY <1>1, <1>2, <2>6 DEF DownInv, Seen
  <2>7. CASE pc = "answered"
    <3>1. ~ response.fault => count + response.returned \in Nat
      BY <1>1, <2>3, <2>7 DEF ResultInv, PageFrom
    <3>2. ~ response.fault => AllBehind(CollectedOf(result) \cup Range(response.entries), count + response.returned, Range(dir'))
      BY <1>1, <2>2, <2>7, <3>1 DEF DownInv
    <3>3. QED
      BY <1>1, <1>2, <2>7, <3>2 DEF DownInv
  <2>8. QED
    BY <1>1, <1>2, <2>5, <2>6, <2>7 DEF ResultInv
<1>11. UpInv' /\ SameInv'
  <2>1. removed' # {}
    BY <1>2
  <2>2. QED
    BY <2>1 DEF UpInv, SameInv, Unchanged
<1>12. QED
  BY <1>7, <1>8, <1>9, <1>10, <1>11 DEF ListingInv

-----------------------------------------------------------------------------

(* A request keeps the invariant.                                          *)
LEMMA AskKeeps == ASSUME ListingInv, Ask PROVE ListingInv'
<1>1. /\ DirInv /\ ScanInv /\ ResultInv /\ UpInv /\ DownInv /\ SameInv
  BY DEF ListingInv
<1>2. /\ pc = "ask" /\ pc' = "asked"
      /\ object' = object /\ dir' = dir /\ start' = start /\ added' = added /\ removed' = removed /\ unread' = unread
      /\ sorted' = sorted /\ count' = count /\ response' = response /\ result' = result
  BY DEF Ask
<1>3. All' = All /\ Seen' = Seen /\ WholeList' = WholeList /\ Unchanged' = Unchanged
  BY <1>2 DEF All, Seen, WholeList, Unchanged
<1>4. DirInv' /\ ScanInv' /\ ResultInv'
  BY <1>1, <1>2, <1>3 DEF DirInv, ScanInv, ResultInv
<1>5. UpInv' /\ DownInv' /\ SameInv'
  BY <1>1, <1>2, <1>3 DEF UpInv, DownInv, SameInv
<1>6. QED
  BY <1>4, <1>5 DEF ListingInv

(* So does the loss of an answer.                                          *)
LEMMA LostKeeps == ASSUME ListingInv, Lost PROVE ListingInv'
<1>1. /\ DirInv /\ ScanInv /\ ResultInv /\ UpInv /\ DownInv /\ SameInv
  BY DEF ListingInv
<1>2. /\ pc' = "failed"
      /\ object' = object /\ dir' = dir /\ start' = start /\ added' = added /\ removed' = removed /\ unread' = unread
      /\ sorted' = sorted /\ count' = count /\ response' = response /\ result' = result
  BY DEF Lost
<1>3. All' = All /\ Seen' = Seen /\ WholeList' = WholeList /\ Unchanged' = Unchanged
  BY <1>2 DEF All, Seen, WholeList, Unchanged
<1>4. DirInv' /\ ScanInv' /\ ResultInv'
  BY <1>1, <1>2, <1>3 DEF DirInv, ScanInv, ResultInv
<1>5. UpInv' /\ DownInv' /\ SameInv'
  BY <1>1, <1>2, <1>3 DEF UpInv, DownInv, SameInv
<1>6. QED
  BY <1>4, <1>5 DEF ListingInv

(* The server opens the directory as it is now.                            *)
LEMMA OpenDirKeeps == ASSUME ListingInv, OpenDir PROVE ListingInv'
<1>1. /\ DirInv /\ ResultInv /\ UpInv /\ DownInv /\ SameInv
  BY DEF ListingInv
<1>2. /\ pc = "asked" /\ pc' = "scan" /\ unread' = dir /\ sorted' = << >>
      /\ object' = object /\ dir' = dir /\ start' = start /\ added' = added /\ removed' = removed
      /\ count' = count /\ response' = response /\ result' = result
  BY DEF OpenDir
<1>3. All' = All /\ WholeList' = WholeList /\ Unchanged' = Unchanged
  BY <1>2 DEF All, WholeList, Unchanged
<1>4. PICK s : s = << >>
  OBVIOUS
<1>5. s \in Seq(Entries) /\ Len(s) = 0 /\ Range(s) = {} /\ Distinct(s) /\ Ordered(s)
  <2>1. s \in Seq(Entries) /\ Len(s) = 0 /\ DOMAIN s = {}
    BY <1>4
  <2>2. QED
    BY <2>1 DEF Range, Distinct, Ordered
<1>6. sorted' = s /\ Seen' = Range(dir)
  BY <1>2, <1>4, <1>5 DEF Seen
<1>7. DirInv' /\ ResultInv'
  BY <1>1, <1>2, <1>3 DEF DirInv, ResultInv
<1>8. ScanInv'
  BY <1>1, <1>2, <1>3, <1>5, <1>6 DEF ScanInv, DirInv, All
<1>9. UpInv' /\ DownInv'
  BY <1>1, <1>2, <1>3, <1>6 DEF UpInv, DownInv
<1>10. SameInv'
  <2> SUFFICES ASSUME Unchanged PROVE SameInv'
    BY <1>3 DEF SameInv
  <2>1. dir = start
    BY <1>1 DEF SameInv
  <2>2. start \in Seq(Entries) /\ Distinct(start) /\ Len(start) \in Nat
    BY <1>1 DEF DirInv
  <2>3. Listing(start)[0] = s
    BY <1>4, <2>2, ListingIs
  <2>4. Rest(start, start, 0)
    BY <2>2 DEF Rest
  <2>5. 0 \in 0 .. Len(start)
    BY <2>2
  <2>6. \E k \in 0 .. Len(start)' : sorted' = Listing(start')[k] /\ Rest(unread', start', k)
    BY <1>2, <1>6, <2>1, <2>3, <2>4, <2>5
  <2>7. QED
    BY <1>1, <1>2, <1>3, <2>6 DEF SameInv
<1>11. QED
  BY <1>7, <1>8, <1>9, <1>10 DEF ListingInv

(* The first element of a sequence without repetition, and the others.     *)
LEMMA HeadAndTail ==
  ASSUME NEW S, NEW s \in Seq(S), s # << >>, Distinct(s)
  PROVE  /\ Head(s) \in S /\ Tail(s) \in Seq(S) /\ Distinct(Tail(s)) /\ Len(Tail(s)) = Len(s) - 1 /\ Len(s) \in Nat \ {0}
         /\ Head(s) = s[1] /\ \A i \in 1 .. Len(s) - 1 : Tail(s)[i] = s[i + 1]
         /\ Range(s) = {Head(s)} \cup Range(Tail(s)) /\ Head(s) \notin Range(Tail(s))
<1>1. PICK n, h, t : n = Len(s) /\ h = Head(s) /\ t = Tail(s)
  OBVIOUS
<1>2. /\ n \in Nat \ {0} /\ h = s[1] /\ h \in S /\ t \in Seq(S) /\ Len(t) = n - 1 /\ (\A i \in 1 .. n - 1 : t[i] = s[i + 1])
      /\ DOMAIN s = 1 .. n /\ DOMAIN t = 1 .. n - 1
  BY <1>1
<1>3. \A i, j \in 1 .. n : s[i] = s[j] => i = j
  BY <1>1 DEF Distinct
<1>4. Distinct(t)
  <2>1. ASSUME NEW i \in 1 .. n - 1, NEW j \in 1 .. n - 1, t[i] = t[j] PROVE i = j
    <3>1. i + 1 \in 1 .. n /\ j + 1 \in 1 .. n /\ s[i + 1] = s[j + 1]
      BY <1>2, <2>1
    <3>2. i + 1 = j + 1
      BY <1>3, <3>1
    <3>3. QED
      BY <1>2, <3>2
  <2>2. QED
    BY <1>2, <2>1 DEF Distinct
<1>5. Range(s) = {h} \cup Range(t)
  <2>1. \A i \in 1 .. n : i = 1 \/ (i - 1 \in 1 .. n - 1 /\ t[i - 1] = s[i])
    <3>1. ASSUME NEW i \in 1 .. n, i # 1 PROVE i - 1 \in 1 .. n - 1 /\ t[i - 1] = s[i]
      <4>1. i - 1 \in 1 .. n - 1 /\ (i - 1) + 1 = i
        BY <1>2, <3>1
      <4>2. QED
        BY <1>2, <4>1
    <3>2. QED
      BY <3>1
  <2>2. \A i \in 1 .. n - 1 : i + 1 \in 1 .. n
    BY <1>2
  <2>3. 1 \in 1 .. n
    BY <1>2
  <2>4. \A x : x \in Range(s) <=> \E i \in 1 .. n : x = s[i]
    BY <1>2 DEF Range
  <2>5. \A x : x \in Range(t) <=> \E i \in 1 .. n - 1 : x = t[i]
    BY <1>2 DEF Range
  <2>6. \A x : x \in Range(s) => x = h \/ x \in Range(t)
    BY <1>2, <2>1, <2>4, <2>5
  <2>7. \A x : x = h \/ x \in Range(t) => x \in Range(s)
    BY <1>2, <2>2, <2>3, <2>4, <2>5
  <2>8. QED
    BY <2>6, <2>7
<1>6. h \notin Range(t)
  <2>1. ASSUME NEW i \in 1 .. n - 1, t[i] = h PROVE FALSE
    <3>1. i + 1 \in 1 .. n /\ 1 \in 1 .. n /\ s[i + 1] = s[1] /\ i + 1 # 1
      BY <1>2, <2>1
    <3>2. QED
      BY <1>3, <3>1
  <2>2. QED
    BY <1>2, <2>1 DEF Range
<1>7. QED
  BY <1>1, <1>2, <1>4, <1>5, <1>6

(* An entry that readdir returns is sorted in.                             *)
LEMMA ReadDirKeeps == ASSUME ListingInv, ReadDir PROVE ListingInv'
<1>1. /\ DirInv /\ ScanInv /\ ResultInv /\ UpInv /\ DownInv /\ SameInv
  BY DEF ListingInv
<1>2. /\ pc = "scan" /\ pc' = "scan" /\ unread # << >> /\ unread' = Tail(unread) /\ sorted' = Insert(sorted, Head(unread))
      /\ object' = object /\ dir' = dir /\ start' = start /\ added' = added /\ removed' = removed
      /\ count' = count /\ response' = response /\ result' = result
  BY DEF ReadDir
<1>3. All' = All /\ WholeList' = WholeList /\ Unchanged' = Unchanged
  BY <1>2 DEF All, WholeList, Unchanged
<1>4. PICK h, t : h = Head(unread) /\ t = Tail(unread)
  OBVIOUS
<1>5. /\ sorted \in Seq(Entries) /\ Distinct(sorted) /\ unread \in Seq(Entries) /\ Distinct(unread)
      /\ Range(sorted) \cap Range(unread) = {} /\ Seen \subseteq All
      /\ OneKindOf(All) => Ordered(sorted)
  BY <1>1, <1>2 DEF ScanInv
<1>6. /\ h \in Entries /\ t \in Seq(Entries) /\ Distinct(t) /\ Len(t) = Len(unread) - 1 /\ Len(unread) \in Nat \ {0}
      /\ h = unread[1] /\ (\A i \in 1 .. Len(unread) - 1 : t[i] = unread[i + 1])
      /\ Range(unread) = {h} \cup Range(t) /\ h \notin Range(t)
  BY <1>2, <1>4, <1>5, HeadAndTail
<1>7. h \notin Range(sorted)
  BY <1>5, <1>6
<1>8. /\ sorted' = Insert(sorted, h) /\ sorted' \in Seq(Entries) /\ Distinct(sorted') /\ Range(sorted') = Range(sorted) \cup {h}
      /\ OneKindOf(Range(sorted) \cup {h}) /\ Ordered(sorted) => Ordered(sorted')
  BY <1>2, <1>4, <1>5, <1>6, <1>7, InsertSorts
<1>9. Seen' = Seen /\ unread' = t
  BY <1>2, <1>4, <1>6, <1>8 DEF Seen
<1>10. DirInv' /\ ResultInv'
  BY <1>1, <1>2, <1>3 DEF DirInv, ResultInv
<1>11. ScanInv'
  <2>1. Range(sorted') \cap Range(t) = {}
    BY <1>5, <1>6, <1>8
  <2>2. OneKindOf(All) => Ordered(sorted')
    <3>1. Range(sorted) \cup {h} \subseteq All
      BY <1>5, <1>6 DEF Seen
    <3>2. QED
      BY <1>5, <1>8, <3>1, MoreKinds
  <2>3. Range(start) \ removed \subseteq Seen
    BY <1>1, <1>2 DEF ScanInv
  <2>4. QED
    BY <1>2, <1>3, <1>5, <1>6, <1>8, <1>9, <2>1, <2>2, <2>3 DEF ScanInv
<1>12. UpInv' /\ DownInv'
  BY <1>1, <1>2, <1>3, <1>9 DEF UpInv, DownInv
<1>13. SameInv'
  <2> SUFFICES ASSUME Unchanged PROVE SameInv'
    BY <1>3 DEF SameInv
  <2>1. PICK k \in 0 .. Len(start) : sorted = Listing(start)[k] /\ Rest(unread, start, k)
    BY <1>1, <1>2 DEF SameInv
  <2>2. start \in Seq(Entries) /\ Distinct(start) /\ Len(start) \in Nat
    BY <1>1 DEF DirInv
  <2>3. Len(unread) = Len(start) - k /\ \A i \in 1 .. Len(unread) : unread[i] = start[k + i]
    BY <2>1 DEF Rest
  <2>4. k \in 0 .. Len(start) - 1 /\ k + 1 \in 0 .. Len(start) /\ h = start[k + 1]
    <3>1. k < Len(start) /\ 1 \in 1 .. Len(unread)
      BY <1>6, <2>2, <2>3
    <3>2. QED
      BY <1>6, <2>2, <2>3, <3>1
  <2>5. sorted' = Listing(start)[k + 1]
    BY <1>8, <2>1, <2>2, <2>4, ListingIs
  <2>6. Rest(t, start, k + 1)
    <3>1. Len(t) = Len(start) - (k + 1)
      BY <1>6, <2>2, <2>3
    <3>2. ASSUME NEW i \in 1 .. Len(t) PROVE t[i] = start[(k + 1) + i]
      <4>1. i \in 1 .. Len(unread) - 1 /\ i + 1 \in 1 .. Len(unread) /\ k + (i + 1) = (k + 1) + i
        BY <1>6
      <4>2. QED
        BY <1>6, <2>3, <4>1
    <3>3. QED
      BY <3>1, <3>2 DEF Rest
  <2>7. \E m \in 0 .. Len(start)' : sorted' = Listing(start')[m] /\ Rest(unread', start', m)
    BY <1>2, <1>9, <2>4, <2>5, <2>6
  <2>8. QED
    BY <1>1, <1>2, <1>3, <2>7 DEF SameInv
<1>14. QED
  BY <1>10, <1>11, <1>12, <1>13 DEF ListingInv

(* The list is cut to a page.                                              *)
LEMMA AnswerKeeps == ASSUME ListingInv, Answer PROVE ListingInv'
<1>1. /\ DirInv /\ ScanInv /\ ResultInv /\ UpInv /\ DownInv /\ SameInv
  BY DEF ListingInv
<1>2. /\ pc = "scan" /\ pc' = "answered" /\ unread = << >>
      /\ object' = object /\ dir' = dir /\ start' = start /\ added' = added /\ removed' = removed
      /\ count' = count /\ result' = result
  BY DEF Answer
<1>3. PICK p : p = Page(sorted, count)
  OBVIOUS
<1>4. PICK q, r : /\ q = [fault |-> FALSE, entries |-> p, returned |-> Len(p), total |-> Len(sorted)]
                  /\ r = Fault
  OBVIOUS
<1>5. (response' = r /\ p = << >>) \/ response' = q
  BY <1>3, <1>4, Zenon DEF Answer
<1>6. /\ r.fault = TRUE /\ q.fault = FALSE /\ q.entries = p /\ q.returned = Len(p) /\ q.total = Len(sorted)
  BY <1>4 DEF Fault
<1>7. (response'.fault /\ p = << >>)
      \/ (~ response'.fault /\ response'.entries = p /\ response'.returned = Len(p) /\ response'.total = Len(sorted))
  BY <1>5, <1>6, Zenon
<1>8. All' = All /\ WholeList' = WholeList /\ Unchanged' = Unchanged
  BY <1>2 DEF All, WholeList, Unchanged
<1>9. /\ sorted \in Seq(Entries) /\ Distinct(sorted) /\ Seen \subseteq All /\ Range(start) \ removed \subseteq Seen
      /\ OneKindOf(All) => Ordered(sorted)
  BY <1>1, <1>2 DEF ScanInv
<1>10. Seen = Range(sorted)
  <2>1. Range(unread) = {}
    BY <1>2 DEF Range
  <2>2. QED
    BY <2>1 DEF Seen
<1>11. count \in Nat /\ Len(sorted) \in Nat
  BY <1>1, <1>9 DEF ResultInv
<1>12. p \in Seq(Entries) /\ PageOf(sorted, count, p) /\ Distinct(p) /\ Range(p) \subseteq Range(sorted) /\ Len(p) \in Nat
  BY <1>3, <1>9, <1>11, PageIs DEF PageOf
<1>13. DirInv' /\ ScanInv'
  BY <1>1, <1>2 DEF DirInv, ScanInv
<1>14. p = << >> => Range(p) = {} /\ Len(p) = 0
  BY DEF Range
<1>15. ResultInv'
  <2>1. ~ response'.fault => PageFrom(response', All)
    BY <1>7, <1>9, <1>10, <1>11, <1>12 DEF PageFrom
  <2>2. QED
    BY <1>1, <1>2, <1>8, <2>1 DEF ResultInv
<1>16. UpInv'
  <2> SUFFICES ASSUME removed = {}, OneKindOf(All) PROVE UpInv'
    BY <1>2, <1>8 DEF UpInv
  <2>1. StillAhead(Range(start), CollectedOf(result), count, Range(sorted))
    BY <1>1, <1>2, <1>10 DEF UpInv
  <2>2. Ordered(sorted) /\ Range(start) \subseteq Range(sorted)
    BY <1>9, <1>10
  <2>3. /\ StillAhead(Range(start), CollectedOf(result) \cup Range(p), count + Len(p), Range(sorted))
        /\ Len(sorted) = 0 \/ Len(p) = 0 \/ count + Len(p) >= Len(sorted) => Range(start) \subseteq CollectedOf(result) \cup Range(p)
    BY <1>9, <1>11, <1>12, <2>1, <2>2, PageAhead
  <2>4. StillAhead(Range(start), CollectedOf(result) \cup Range(p), count + Len(p), Range(dir))
    <3>1. Range(sorted) \subseteq Range(dir) /\ Range(dir) \subseteq Entries /\ Range(sorted) \subseteq Entries
      BY <1>1, <1>9, <1>10, DirIs
    <3>2. count + Len(p) \in Nat
      BY <1>11, <1>12
    <3>3. QED
      BY <2>3, <3>1, <3>2, Shifts
  <2>5. CASE response'.fault
    <3>1. Range(start) \subseteq CollectedOf(result)
      BY <1>7, <1>14, <2>3, <2>5
    <3>2. QED
      BY <1>2, <2>5, <3>1 DEF UpInv
  <2>6. CASE ~ response'.fault
    <3>1. response'.entries = p /\ response'.returned = Len(p) /\ response'.total = Len(sorted)
      BY <1>7, <2>6, Zenon
    <3>2. QED
      BY <1>2, <2>3, <2>4, <2>6, <3>1 DEF UpInv
  <2>7. QED
    BY <2>5, <2>6
<1>17. DownInv'
  <2> SUFFICES ASSUME added = {}, OneKindOf(All) PROVE DownInv'
    BY <1>2, <1>8 DEF DownInv
  <2>1. AllBehind(CollectedOf(result), count, Range(sorted)) /\ DistinctIds(result)
    BY <1>1, <1>2, <1>10 DEF DownInv
  <2>2. Ordered(sorted)
    BY <1>9
  <2>3. /\ Range(p) \cap CollectedOf(result) = {}
        /\ AllBehind(CollectedOf(result) \cup Range(p), count + Len(p), Range(sorted))
    BY <1>9, <1>11, <1>12, <2>1, <2>2, PageBehind
  <2>4. AllBehind(CollectedOf(result) \cup Range(p), count + Len(p), Range(dir))
    <3>1. Range(dir) \subseteq Range(sorted) /\ Range(dir) \subseteq Entries /\ Range(sorted) \subseteq Entries
      <4>1. Range(dir) = Range(start) \ removed
        BY <1>1 DEF DirInv
      <4>2. QED
        BY <1>1, <1>9, <1>10, <4>1, DirIs
    <3>2. count + Len(p) \in Nat
      BY <1>11, <1>12
    <3>3. QED
      BY <2>3, <3>1, <3>2, Shifts
  <2>5. CASE response'.fault
    BY <1>2, <2>1, <2>5 DEF DownInv
  <2>6. CASE ~ response'.fault
    <3>1. response'.entries = p /\ response'.returned = Len(p)
      BY <1>7, <2>6, Zenon
    <3>2. QED
      BY <1>2, <1>12, <2>1, <2>3, <2>4, <2>6, <3>1 DEF DownInv
  <2>7. QED
    BY <2>5, <2>6
<1>18. SameInv'
  <2> SUFFICES ASSUME Unchanged PROVE SameInv'
    BY <1>8 DEF SameInv
  <2>1. PICK k \in 0 .. Len(start) : sorted = Listing(start)[k] /\ Rest(unread, start, k)
    BY <1>1, <1>2 DEF SameInv
  <2>2. start \in Seq(Entries) /\ Distinct(start) /\ Len(start) \in Nat
    BY <1>1 DEF DirInv
  <2>3. k = Len(start)
    <3>1. Len(unread) = Len(start) - k /\ Len(unread) = 0
      BY <1>2, <2>1 DEF Rest
    <3>2. QED
      BY <2>2, <3>1
  <2>4. sorted = WholeList
    BY <2>1, <2>3 DEF WholeList
  <2>5. dir = start /\ PrefixOf(result, WholeList, count) /\ count % Requested = 0
    BY <1>1, <1>2 DEF SameInv
  <2>6. CASE response'.fault
    <3>1. p = << >> /\ count <= Len(WholeList)
      BY <1>7, <2>5, <2>6 DEF PrefixOf
    <3>2. Len(p) = 0
      BY <1>14, <3>1
    <3>3. ~ (count < Len(sorted))
      BY <1>12, <3>2 DEF PageOf
    <3>4. count = Len(WholeList)
      BY <1>11, <2>4, <3>1, <3>3
    <3>5. QED
      BY <1>2, <1>8, <2>5, <2>6, <3>4 DEF SameInv
  <2>7. CASE ~ response'.fault
    <3>1. response'.entries = p /\ response'.total = Len(sorted)
      BY <1>7, <2>7, Zenon
    <3>2. p = Page(WholeList, count)
      BY <1>3, <2>4
    <3>3. QED
      BY <1>2, <1>8, <2>4, <2>5, <2>7, <3>1, <3>2 DEF SameInv
  <2>8. QED
    BY <2>6, <2>7
<1>19. QED
  BY <1>13, <1>15, <1>16, <1>17, <1>18 DEF ListingInv

(* An error ends the loop when there is no more to come.                   *)
LEMMA ReceiveFaultKeeps == ASSUME ListingInv, ReceiveFault PROVE ListingInv'
<1>1. /\ DirInv /\ ScanInv /\ ResultInv /\ UpInv /\ DownInv /\ SameInv
  BY DEF ListingInv
<1>2. /\ pc = "answered" /\ response.fault /\ pc' = "done"
      /\ object' = object /\ dir' = dir /\ start' = start /\ added' = added /\ removed' = removed
      /\ unread' = unread /\ sorted' = sorted /\ count' = count /\ result' = result
  BY DEF ReceiveFault
<1>3. All' = All /\ WholeList' = WholeList /\ Unchanged' = Unchanged
  BY <1>2 DEF All, WholeList, Unchanged
<1>4. DirInv' /\ ScanInv' /\ ResultInv'
  BY <1>1, <1>2, <1>3 DEF DirInv, ScanInv, ResultInv
<1>5. UpInv' /\ DownInv'
  BY <1>1, <1>2, <1>3 DEF UpInv, DownInv
<1>6. SameInv'
  <2> SUFFICES ASSUME Unchanged PROVE SameInv'
    BY <1>3 DEF SameInv
  <2>1. dir = start /\ PrefixOf(result, WholeList, count) /\ count = Len(WholeList)
    BY <1>1, <1>2 DEF SameInv
  <2>2. Len(result) = count
    BY <2>1 DEF PrefixOf
  <2>3. QED
    BY <1>2, <1>3, <2>1, <2>2 DEF SameInv
<1>7. QED
  BY <1>4, <1>5, <1>6 DEF ListingInv

(* A page that is received is what was still ahead, and all that is after  *)
(* it still is; a page that does not parse ends the loop.                  *)
LEMMA ReceiveKeeps == ASSUME ListingInv, Receive PROVE ListingInv'
<1>1. /\ DirInv /\ ScanInv /\ ResultInv /\ UpInv /\ DownInv /\ SameInv
  BY DEF ListingInv
<1>2. /\ pc = "answered" /\ ~ response.fault
      /\ object' = object /\ dir' = dir /\ start' = start /\ added' = added /\ removed' = removed
      /\ unread' = unread /\ sorted' = sorted
  BY DEF Receive
<1>3. PICK answer \in Answers :
        /\ answer.flag = "BrowseDirectChildren" /\ answer.object = object /\ answer.page = response.entries
        /\ IF answer.parses
             THEN /\ result' = result \o answer.entries
                  /\ count' = count + response.returned
                  /\ pc' = IF response.total = 0 \/ response.returned = 0 \/ count' >= response.total THEN "done" ELSE "ask"
             ELSE pc' = "done" /\ UNCHANGED << count, result >>
  BY Zenon DEF Receive
<1>4. PICK p \in Seq(Entries) :
        /\ p = response.entries
        /\ answer.parses <=> Told(p)
        /\ Told(p) => ListedAs(answer.entries, ParentId(object), p, Len(p))
  BY <1>3, AnswerFor
<1>5. All' = All /\ WholeList' = WholeList /\ Unchanged' = Unchanged
  BY <1>2 DEF All, WholeList, Unchanged
<1>6. /\ response.returned = Len(p) /\ response.total \in Nat /\ Range(p) \subseteq All /\ count \in Nat
      /\ Known(result, object, All) /\ Len(p) \in Nat /\ DOMAIN p = 1 .. Len(p)
  BY <1>1, <1>2, <1>4 DEF ResultInv, PageFrom
<1>7. DirInv' /\ (pc' \in {"done", "ask"} => ScanInv')
  BY <1>1, <1>2 DEF DirInv, ScanInv
<1>8. PICK R \in Nat \ {0} : R = Requested
  BY BrowseAssumption
<1>9. ASSUME Told(p) PROVE ListingInv'
  <2>1. /\ result' = result \o answer.entries /\ count' = count + Len(p)
        /\ pc' = IF response.total = 0 \/ Len(p) = 0 \/ count' >= response.total THEN "done" ELSE "ask"
    BY <1>3, <1>4, <1>6, <1>9
  <2>2. /\ count' \in Nat /\ pc' \in {"done", "ask"}
        /\ pc' = "done" => response.total = 0 \/ Len(p) = 0 \/ count + Len(p) >= response.total
        /\ pc' = "ask" => response.total # 0 /\ Len(p) # 0 /\ ~ (count + Len(p) >= response.total)
    BY <1>6, <2>1
  <2>3. Extended(result, p, object, result')
    <3>1. IsSeq(result) /\ ListedAs(answer.entries, ParentId(object), p, Len(p))
      BY <1>4, <1>6, <1>9 DEF Known
    <3>2. QED
      BY <2>1, <3>1, PageReceived
  <2>4. /\ \A i \in 1 .. Len(result') :
             \/ i \in 1 .. Len(result) /\ result'[i] = result[i]
             \/ i - Len(result) \in 1 .. Len(p) /\ result'[i].id = p[i - Len(result)] /\ Held(object, result'[i])
        /\ CollectedOf(result') = CollectedOf(result) \cup Range(p)
        /\ DistinctIds(result) /\ Distinct(p) /\ Range(p) \cap CollectedOf(result) = {} => DistinctIds(result')
    BY <2>3, ExtendedBy
  <2>5. ResultInv'
    <3>1. ASSUME NEW i \in 1 .. Len(result')
          PROVE  result'[i].id \in All /\ Speaks(result'[i].id) /\ Held(object, result'[i])
      <4>1. CASE i \in 1 .. Len(result) /\ result'[i] = result[i]
        BY <1>6, <4>1 DEF Known
      <4>2. CASE i - Len(result) \in 1 .. Len(p) /\ result'[i].id = p[i - Len(result)] /\ Held(object, result'[i])
        <5>1. p[i - Len(result)] \in Range(p)
          BY <1>6, <4>2 DEF Range
        <5>2. Speakable(Title[p[i - Len(result)]])
          BY <1>6, <1>9, <4>2 DEF Told
        <5>3. QED
          BY <1>6, <4>2, <5>1, <5>2 DEF Speaks
      <4>3. QED
        BY <2>4, <4>1, <4>2
    <3>2. IsSeq(result')
      BY <2>3 DEF Extended
    <3>3. Known(result', object, All)
      BY <3>1, <3>2 DEF Known
    <3>4. QED
      BY <1>2, <1>5, <2>2, <3>3 DEF ResultInv
  <2>6. UpInv'
    <3> SUFFICES ASSUME removed = {}, OneKindOf(All) PROVE UpInv'
      BY <1>2, <1>5 DEF UpInv
    <3>1. /\ StillAhead(Range(start), CollectedOf(result) \cup Range(p), count + Len(p), Range(dir))
          /\ response.total = 0 \/ Len(p) = 0 \/ count + Len(p) >= response.total => Range(start) \subseteq CollectedOf(result) \cup Range(p)
      BY <1>1, <1>2, <1>4, <1>6 DEF UpInv
    <3>2. QED
      BY <1>2, <2>1, <2>2, <2>4, <3>1 DEF UpInv
  <2>7. DownInv'
    <3> SUFFICES ASSUME added = {}, OneKindOf(All) PROVE DownInv'
      BY <1>2, <1>5 DEF DownInv
    <3>1. /\ DistinctIds(result) /\ Distinct(p) /\ Range(p) \cap CollectedOf(result) = {}
          /\ AllBehind(CollectedOf(result) \cup Range(p), count + Len(p), Range(dir))
      BY <1>1, <1>2, <1>4, <1>6 DEF DownInv
    <3>2. QED
      BY <1>2, <2>1, <2>2, <2>4, <3>1 DEF DownInv
  <2>8. SameInv'
    <3> SUFFICES ASSUME Unchanged PROVE SameInv'
      BY <1>5 DEF SameInv
    <3>1. PICK w : w = WholeList
      OBVIOUS
    <3>2. /\ dir = start /\ PrefixOf(result, w, count) /\ count % R = 0
          /\ p = Page(w, count) /\ response.total = Len(w)
      BY <1>1, <1>2, <1>4, <1>8, <3>1 DEF SameInv
    <3>3. w \in Seq(Entries) /\ Len(w) \in Nat
      BY <1>1, <3>1, WholeIs DEF DirInv, WholeList
    <3>4. PageOf(w, count, p)
      BY <1>6, <3>2, <3>3, PageIs
    <3>5. Len(result) = count /\ count <= Len(w) /\ \A i \in 1 .. count : result[i].id = w[i]
      BY <3>2 DEF PrefixOf
    <3>6. PrefixOf(result', w, count + Len(p))
      <4>1. Len(result') = count + Len(p)
        BY <2>3, <3>5 DEF Extended
      <4>2. count + Len(p) <= Len(w)
        BY <1>6, <3>3, <3>4, <3>5 DEF PageOf
      <4>3. ASSUME NEW i \in 1 .. count + Len(p) PROVE result'[i].id = w[i]
        <5>1. CASE i \in 1 .. Len(result) /\ result'[i] = result[i]
          BY <3>5, <5>1
        <5>2. CASE i - Len(result) \in 1 .. Len(p) /\ result'[i].id = p[i - Len(result)]
          <6>1. PICK j : j = i - Len(result)
            OBVIOUS
          <6>2. j \in 1 .. Len(p) /\ result'[i].id = p[j] /\ count + j = i
            BY <1>6, <3>5, <5>2, <6>1
          <6>3. p[j] = w[count + j]
            BY <3>4, <6>2 DEF PageOf
          <6>4. QED
            BY <6>2, <6>3
        <5>3. QED
          BY <2>4, <4>1, <5>1, <5>2
      <4>4. QED
        BY <1>6, <4>1, <4>2, <4>3 DEF PrefixOf
    <3>7. Len(result') = count + Len(p)
      BY <3>6 DEF PrefixOf
    <3>8. CASE pc' = "done"
      <4>1. count + Len(p) = Len(w)
        <5>1. count + Len(p) <= Len(w)
          BY <3>6 DEF PrefixOf
        <5>2. CASE Len(w) = 0
          BY <1>6, <3>5, <5>1, <5>2
        <5>3. CASE Len(p) = 0
          <6>1. ~ (count < Len(w))
            BY <3>4, <5>3 DEF PageOf
          <6>2. QED
            BY <1>6, <3>3, <3>5, <5>3, <6>1
        <5>4. CASE count + Len(p) >= Len(w)
          BY <1>6, <3>3, <5>1, <5>4
        <5>5. QED
          BY <2>2, <3>2, <3>8, <5>2, <5>3, <5>4
      <4>2. PrefixOf(result', w, Len(result')) /\ Len(result') = Len(w)
        BY <3>6, <3>7, <4>1
      <4>3. QED
        BY <1>2, <1>5, <3>1, <3>2, <3>8, <4>2 DEF SameInv
    <3>9. CASE pc' = "ask"
      <4>1. count < Len(w) /\ count + Len(p) # Len(w)
        BY <1>6, <2>2, <3>2, <3>3, <3>9
      <4>2. Len(p) = R
        BY <1>8, <3>4, <4>1 DEF PageOf
      <4>3. (count + Len(p)) % R = 0
        BY <1>6, <3>2, <4>2, PagesAdd
      <4>4. count' % Requested = 0 /\ PrefixOf(result', w, count')
        BY <1>8, <2>1, <3>6, <4>3
      <4>5. QED
        BY <1>2, <1>5, <3>1, <3>2, <3>9, <4>4 DEF SameInv
    <3>10. QED
      BY <2>2, <3>8, <3>9
  <2>9. QED
    BY <1>7, <2>2, <2>5, <2>6, <2>7, <2>8 DEF ListingInv
<1>10. ASSUME ~ Told(p) PROVE ListingInv'
  <2>1. pc' = "done" /\ count' = count /\ result' = result
    BY <1>3, <1>4, <1>10
  <2>2. ResultInv'
    BY <1>1, <1>2, <1>5, <2>1 DEF ResultInv
  <2>3. UpInv'
    <3>1. \E e \in All : ~ Speaks(e)
      <4>1. PICK i \in DOMAIN p : ~ Speakable(Title[p[i]])
        BY <1>10 DEF Told
      <4>2. p[i] \in Range(p)
        BY <4>1 DEF Range
      <4>3. QED
        BY <1>6, <4>1, <4>2 DEF Speaks
    <3>2. QED
      BY <1>2, <1>5, <2>1, <3>1 DEF UpInv
  <2>4. DownInv'
    BY <1>1, <1>2, <1>5, <2>1 DEF DownInv
  <2>5. SameInv'
    <3> SUFFICES ASSUME Unchanged PROVE SameInv'
      BY <1>5 DEF SameInv
    <3>1. dir = start /\ PrefixOf(result, WholeList, count) /\ count % Requested = 0 /\ p = Page(WholeList, count)
      BY <1>1, <1>2, <1>4 DEF SameInv
    <3>2. Len(result) = count
      BY <3>1 DEF PrefixOf
    <3>3. QED
      BY <1>2, <1>5, <1>10, <2>1, <3>1, <3>2 DEF SameInv
  <2>6. QED
    BY <1>7, <2>1, <2>2, <2>3, <2>4, <2>5 DEF ListingInv
<1>11. QED
  BY <1>9, <1>10

(* An entry is asked for by itself.                                        *)
LEMMA BrowseMetadataKeeps == ASSUME ListingInv, NEW e \in Entries, BrowseMetadata(e) PROVE ListingInv'
<1>1. /\ DirInv /\ ResultInv /\ SameInv
  BY DEF ListingInv
<1>2. /\ pc = "done" /\ pc' = "known" /\ (\E i \in DOMAIN result : result[i].id = e)
      /\ response' = [fault |-> e \notin Range(dir), asked |-> e]
      /\ object' = object /\ dir' = dir /\ start' = start /\ added' = added /\ removed' = removed
      /\ unread' = unread /\ sorted' = sorted /\ count' = count
  BY DEF BrowseMetadata
<1>3. All' = All
  BY <1>2 DEF All
<1>4. e \in All /\ Speaks(e)
  <2>1. Known(result, object, All)
    BY <1>1 DEF ResultInv
  <2>2. PICK S : result \in Seq(S)
    BY <2>1 DEF Known, IsSeq
  <2>3. DOMAIN result = 1 .. Len(result)
    BY <2>2
  <2>4. QED
    BY <1>2, <2>1, <2>3 DEF Known
<1>5. response'.asked = e /\ response'.fault = (e \notin Range(dir))
  BY <1>2
<1>6. /\ Known(result', object, All) /\ DistinctIds(result')
      /\ IF response'.fault THEN e \in removed
         ELSE CollectedOf(result') = {e} /\ Len(result') = 1 /\ Held(object, result'[1])
  <2>1. CASE response'.fault
    <3>1. e \notin Range(dir)
      BY <1>5, <2>1, Zenon
    <3>2. result' = << >>
      BY <2>1, Zenon DEF BrowseMetadata
    <3>3. e \in removed
      BY <1>1, <1>4, <3>1 DEF DirInv, All
    <3>4. IsSeq(result') /\ Len(result') = 0 /\ DistinctIds(result')
      BY <3>2, NothingYet
    <3>5. Known(result', object, All)
      BY <3>4 DEF Known
    <3>6. QED
      BY <2>1, <3>3, <3>4, <3>5, Zenon
  <2>2. CASE ~ response'.fault
    <3>1. PICK answer \in Answers :
            /\ answer.flag = "BrowseMetadata" /\ answer.object = object /\ answer.page = << e >>
            /\ result' = answer.entries
      BY <2>2, Zenon DEF BrowseMetadata
    <3>2. PICK p \in Seq(Entries) : p = << e >> /\ (Told(p) => ListedAs(answer.entries, ParentId(object), p, Len(p)))
      BY <3>1, AnswerFor
    <3>3. Len(p) = 1 /\ p[1] = e /\ DOMAIN p = {1}
      BY <3>2
    <3>4. Told(p)
      BY <1>4, <3>3 DEF Told, Speaks
    <3>5. ListedAs(result', ParentId(object), p, 1)
      BY <3>1, <3>2, <3>3, <3>4
    <3>6. IsSeq(result') /\ Len(result') = 1 /\ EntryListed(result'[1], e, ParentId(object), Type[e], Title[e])
      BY <3>3, <3>5 DEF ListedAs
    <3>7. result'[1].id = e
      BY <3>6 DEF EntryListed, Begun
    <3>8. Held(object, result'[1])
      BY <3>6, <3>7 DEF Held
    <3>9. \A i \in 1 .. Len(result') : i = 1
      BY <3>6
    <3>10. CollectedOf(result') = {e}
      BY <3>6, <3>7, <3>9 DEF CollectedOf
    <3>11. DistinctIds(result')
      BY <3>9 DEF DistinctIds
    <3>12. Known(result', object, All)
      BY <1>4, <3>6, <3>7, <3>8, <3>9 DEF Known
    <3>13. QED
      BY <2>2, <3>6, <3>8, <3>10, <3>11, <3>12, Zenon
  <2>3. QED
    BY <2>1, <2>2
<1>7. DirInv' /\ ScanInv'
  BY <1>1, <1>2 DEF DirInv, ScanInv
<1>8. ResultInv'
  <2>1. Held(object, result'[1]) => AsHeld(result[1])'
    BY <1>2 DEF Held, EntryListed, Begun, Titled, AsHeld
  <2>2. Collected' = CollectedOf(result')
    BY DEF Collected, CollectedOf
  <2>3. IF response'.fault THEN response'.asked \in removed'
        ELSE Collected' = {response'.asked} /\ Len(result') = 1 /\ AsHeld(result[1])'
    BY <1>2, <1>5, <1>6, <2>1, <2>2
  <2>4. QED
    BY <1>1, <1>2, <1>3, <1>6, <2>3 DEF ResultInv
<1>9. UpInv' /\ DownInv' /\ SameInv'
  BY <1>1, <1>2, <1>6 DEF UpInv, DownInv, SameInv, Unchanged
<1>10. QED
  BY <1>7, <1>8, <1>9 DEF ListingInv

(* The invariant is inductive, hence holds whatever happens to the         *)
(* directory between the pages.                                            *)
THEOREM ListingInvThm == BrowseSpec => []ListingInv
<1>1. BrowseInit => ListingInv
  BY ListingInit
<1>2. ListingInv /\ [BrowseNext]_browseVars => ListingInv'
  <2> SUFFICES ASSUME ListingInv, [BrowseNext]_browseVars PROVE ListingInv'
    OBVIOUS
  <2>1. CASE Ask
    BY <2>1, AskKeeps
  <2>2. CASE OpenDir
    BY <2>2, OpenDirKeeps
  <2>3. CASE ReadDir
    BY <2>3, ReadDirKeeps
  <2>4. CASE Answer
    BY <2>4, AnswerKeeps
  <2>5. CASE Lost
    BY <2>5, LostKeeps
  <2>6. CASE Receive
    BY <2>6, ReceiveKeeps
  <2>7. CASE ReceiveFault
    BY <2>7, ReceiveFaultKeeps
  <2>8. CASE \E e \in Entries : Create(e)
    BY <2>8, CreateKeeps
  <2>9. CASE \E e \in Entries : Unlink(e)
    BY <2>9, UnlinkKeeps
  <2>10. CASE \E e \in Entries : BrowseMetadata(e)
    BY <2>10, BrowseMetadataKeeps
  <2>11. CASE UNCHANGED browseVars
    <3>1. /\ object' = object /\ dir' = dir /\ start' = start /\ added' = added /\ removed' = removed /\ pc' = pc
          /\ unread' = unread /\ sorted' = sorted /\ count' = count /\ response' = response /\ result' = result
      BY <2>11 DEF browseVars
    <3>2. DirInv /\ ScanInv /\ ResultInv /\ UpInv /\ DownInv /\ SameInv
      BY DEF ListingInv
    <3>3. All' = All /\ Seen' = Seen /\ WholeList' = WholeList /\ Unchanged' = Unchanged
      BY <3>1 DEF All, Seen, WholeList, Unchanged
    <3>4. DirInv' /\ ScanInv'
      BY <3>1, <3>2, <3>3 DEF DirInv, ScanInv
    <3>5. Collected' = Collected /\ (AsHeld(result[1])' <=> AsHeld(result[1]))
      BY <3>1 DEF Collected, AsHeld
    <3>6. ResultInv'
      BY <3>1, <3>2, <3>3, <3>5 DEF ResultInv
    <3>7. UpInv' /\ DownInv' /\ SameInv'
      BY <3>1, <3>2, <3>3 DEF UpInv, DownInv, SameInv
    <3>8. QED
      BY <3>4, <3>6, <3>7 DEF ListingInv
  <2>12. QED
    BY <2>1, <2>2, <2>3, <2>4, <2>5, <2>6, <2>7, <2>8, <2>9, <2>10, <2>11 DEF BrowseNext, Terminated
<1>3. QED
  BY <1>1, <1>2, PTL DEF BrowseSpec

(* The invariant has what ExactIfUnchanged says.                           *)
LEMMA ListedExactly == ListingInv => ExactIfUnchanged
<1> SUFFICES ASSUME ListingInv PROVE ExactIfUnchanged
  OBVIOUS
<1>1. DirInv /\ ResultInv /\ SameInv
  BY DEF ListingInv
<1>2. ASSUME pc = "done", added = {}, removed = {}
      PROVE  /\ Cardinality(Collected) = Len(result)
             /\ \A i \in 1 .. Len(result) : AsHeld(result[i])
             /\ Mixed \/ \A i, j \in 1 .. Len(result) : i < j => Earlier(result[i].id, result[j].id)
             /\ \/ Collected = Range(start)
                \/ \E e \in Range(start) \ Collected :
                     /\ ~Speakable(Title[e])
                     /\ Len(result) % Requested = 0
                     /\ Mixed \/ Cardinality({d \in Range(start) \ Collected : Earlier(d, e)}) < Requested
  <2>1. PICK w, n, C : w = WholeList /\ n = Len(result) /\ C = Collected
    OBVIOUS
  <2>2. /\ PrefixOf(result, w, n)
        /\ n = Len(w) \/ (n % Requested = 0 /\ ~ Told(Page(w, n)))
    BY <1>1, <1>2, <2>1 DEF SameInv, Unchanged
  <2>3. /\ w \in Seq(Entries) /\ Distinct(w) /\ Len(w) \in Nat /\ Range(w) = Range(start) /\ DOMAIN w = 1 .. Len(w)
        /\ OneKindOf(Range(start)) => Ordered(w)
    BY <1>1, <2>1, WholeIs DEF DirInv, WholeList
  <2>4. n \in Nat /\ n <= Len(w) /\ \A i \in 1 .. n : result[i].id = w[i] /\ i \in 1 .. Len(w)
    <3>1. n \in Nat /\ n <= Len(w) /\ \A i \in 1 .. n : result[i].id = w[i]
      BY <2>2 DEF PrefixOf
    <3>2. \A i \in 1 .. n : i \in 1 .. Len(w)
      BY <2>3, <3>1
    <3>3. QED
      BY <3>1, <3>2
  <2>5. C = CollectedOf(result)
    BY <2>1 DEF Collected, CollectedOf
  <2>6. Cardinality(C) = n
    <3>1. DistinctIds(result)
      BY <2>1, <2>3, <2>4 DEF DistinctIds, Distinct
    <3>2. QED
      BY <2>1, <2>4, <2>5, <3>1, DistinctCounted
  <2>7. \A i \in 1 .. n : AsHeld(result[i])
    <3>1. \A i \in 1 .. n : Held(object, result[i])
      BY <1>1, <2>1 DEF ResultInv, Known
    <3>2. QED
      BY <3>1 DEF Held, EntryListed, Begun, Titled, AsHeld
  <2>8. All = Range(start) /\ All \subseteq Entries
    BY <1>1, <1>2, DirIs
  <2>9. Mixed \/ OneKindOf(Range(start))
    <3>1. Range(start) \cup added = Range(start)
      BY <1>2
    <3>2. QED
      BY <2>8, <3>1, MixedIs
  <2>10. Mixed \/ \A i, j \in 1 .. n : i < j => Earlier(result[i].id, result[j].id)
    BY <2>3, <2>4, <2>9 DEF Ordered
  <2>11. C = Range(start)
         \/ \E e \in Range(start) \ C :
              /\ ~Speakable(Title[e])
              /\ n % Requested = 0
              /\ Mixed \/ Cardinality({d \in Range(start) \ C : Earlier(d, e)}) < Requested
    <3>1. CASE n = Len(w)
      <4>1. \A x : x \in C <=> \E i \in 1 .. n : x = w[i]
        BY <2>1, <2>4, <2>5 DEF CollectedOf
      <4>2. \A x : x \in Range(w) <=> \E i \in 1 .. n : x = w[i]
        BY <2>3, <3>1 DEF Range
      <4>3. C = Range(w)
        BY <4>1, <4>2
      <4>4. QED
        BY <2>3, <4>3
    <3>2. CASE n % Requested = 0 /\ ~ Told(Page(w, n))
      <4>1. PICK p : p = Page(w, n)
        OBVIOUS
      <4>2. p \in Seq(Entries) /\ PageOf(w, n, p) /\ Range(p) \subseteq Range(w)
        BY <2>3, <2>4, <4>1, PageIs
      <4>3. PICK k \in DOMAIN p : ~ Speakable(Title[p[k]])
        BY <3>2, <4>1 DEF Told
      <4>4. k \in 1 .. Len(p) /\ p[k] \in Range(p) /\ Len(p) \in Nat
        BY <4>2, <4>3 DEF Range
      <4>5. PICK e : e = p[k]
        OBVIOUS
      <4>6. n + k \in 1 .. Len(w) /\ e = w[n + k]
        BY <4>2, <4>4, <4>5 DEF PageOf
      <4>7. e \notin C
        <5>1. ASSUME NEW i \in 1 .. n, result[i].id = e PROVE FALSE
          <6>1. i \in 1 .. Len(w) /\ w[i] = w[n + k] /\ i # n + k
            BY <2>4, <4>4, <4>6, <5>1
          <6>2. QED
            BY <2>3, <4>6, <6>1 DEF Distinct
        <5>2. QED
          BY <2>1, <2>5, <5>1 DEF CollectedOf
      <4>8. e \in Range(start) /\ ~ Speakable(Title[e])
        BY <2>3, <4>2, <4>3, <4>4, <4>5
      <4>9. Mixed \/ Cardinality({d \in Range(start) \ C : Earlier(d, e)}) < Requested
        <5>1. CASE Ordered(w)
          <6>1. \A i \in 1 .. Len(w) : i <= n => w[i] \in C
            <7>1. ASSUME NEW i \in 1 .. Len(w), i <= n PROVE w[i] \in C
              <8>1. i \in 1 .. n
                BY <2>4, <7>1
              <8>2. QED
                BY <2>1, <2>4, <2>5, <8>1 DEF CollectedOf
            <7>2. QED
              BY <7>1
          <6>2. e \in Range(p)
            BY <4>4, <4>5
          <6>3. Cardinality({d \in Range(w) \ C : Earlier(d, e)}) < Requested
            BY <2>3, <2>4, <4>2, <5>1, <6>1, <6>2, FewEarlier
          <6>4. QED
            BY <2>3, <6>3
        <5>2. QED
          BY <2>3, <2>9, <5>1
      <4>10. QED
        BY <3>2, <4>7, <4>8, <4>9
    <3>3. QED
      BY <2>2, <3>1, <3>2
  <2>12. QED
    BY <2>1, <2>6, <2>7, <2>10, <2>11
<1>3. pc = "known" =>
        IF response.fault THEN response.asked \in removed
        ELSE Collected = {response.asked} /\ Len(result) = 1 /\ AsHeld(result[1])
  BY <1>1 DEF ResultInv
<1>4. QED
  BY <1>2, <1>3 DEF ExactIfUnchanged

(* A directory that does not change is listed completely, once, in order   *)
(* and as the server has it, for any entries, titles and page size, but    *)
(* for the two truncations that ExactIfUnchanged names.                    *)
THEOREM ExactIfUnchangedThm == BrowseSpec => []ExactIfUnchanged
<1>1. QED
  BY ListingInvThm, ListedExactly, PTL

(* The invariant has what EachOnce says.                                   *)
LEMMA ListedOnce == ListingInv => EachOnce
<1> SUFFICES ASSUME ListingInv PROVE EachOnce
  OBVIOUS
<1>1. DirInv /\ ResultInv /\ UpInv /\ DownInv
  BY DEF ListingInv
<1>2. Collected = CollectedOf(result)
  BY DEF Collected, CollectedOf
<1>3. Mixed \/ OneKindOf(All)
  <2>1. All \subseteq Entries
    BY <1>1, DirIs
  <2>2. QED
    BY <2>1, MixedIs DEF All
<1>4. pc = "done" /\ removed = {} /\ ~Mixed /\ (\A e \in Range(start) \cup added : Speakable(Title[e])) => Range(start) \subseteq Collected
  <2>1. ASSUME pc = "done", removed = {}, ~Mixed, \A e \in Range(start) \cup added : Speakable(Title[e])
        PROVE  Range(start) \subseteq Collected
    <3>1. \A e \in All : Speaks(e)
      BY <2>1 DEF All, Speaks
    <3>2. QED
      BY <1>1, <1>2, <1>3, <2>1, <3>1 DEF UpInv
  <2>2. QED
    BY <2>1
<1>5. added = {} /\ ~Mixed => Cardinality(Collected) = Len(result)
  <2>1. ASSUME added = {}, ~Mixed PROVE Cardinality(Collected) = Len(result)
    <3>1. DistinctIds(result)
      BY <1>1, <1>3, <2>1 DEF DownInv
    <3>2. Len(result) \in Nat
      BY <1>1 DEF ResultInv, Known, IsSeq
    <3>3. QED
      BY <1>2, <3>1, <3>2, DistinctCounted
  <2>2. QED
    BY <2>1
<1>6. QED
  BY <1>4, <1>5 DEF EachOnce

(* While entries are only added none that was there is missed, and while   *)
(* they are only removed none is listed twice, for any directory and any   *)
(* number of changes.                                                      *)
THEOREM EachOnceThm == BrowseSpec => []EachOnce
<1>1. QED
  BY ListingInvThm, ListedOnce, PTL

-----------------------------------------------------------------------------
(* The calls of client_parser_callback.                                    *)

\* What client_parser_callback knows after each call.
ParseTrace(first, h, f) == f = [i \in 0 .. Len(h) |-> IF i = 0 THEN first ELSE client_parser_callback(f[i - 1], h[i])]

\* What is known after some calls.
ParseAfter(first, h) == (CHOOSE f : ParseTrace(first, h, f))[Len(h)]

(* There is a trace of what is known after each of the calls.              *)
LEMMA ParseTraceExists == ASSUME NEW S, NEW h \in Seq(S), NEW first PROVE \E f : ParseTrace(first, h, f)
<1> DEFINE Starts(n, f) == f = [i \in 0 .. n |-> IF i = 0 THEN first ELSE client_parser_callback(f[i - 1], h[i])]
           Good == {n \in Nat : \E f : Starts(n, f)}
<1>1. 0 \in Good
  <2>1. Starts(0, [i \in 0 .. 0 |-> first])
    OBVIOUS
  <2>2. QED
    BY <2>1
<1>2. ASSUME NEW k \in Nat, k \in Good PROVE k + 1 \in Good
  <2>1. PICK f : Starts(k, f)
    BY <1>2
  <2> DEFINE g == [i \in 0 .. k + 1 |-> IF i = 0 THEN first ELSE client_parser_callback(f[i - 1], h[i])]
  <2>2. ASSUME NEW i \in 0 .. k + 1, i # 0 PROVE g[i - 1] = f[i - 1]
    <3>1. i - 1 \in 0 .. k /\ i - 1 \in 0 .. k + 1
      BY <2>2
    <3>2. f[i - 1] = IF i - 1 = 0 THEN first ELSE client_parser_callback(f[(i - 1) - 1], h[i - 1])
      BY <2>1, <3>1
    <3>3. QED
      BY <3>1, <3>2
  <2>3. Starts(k + 1, g)
    <3>1. g = [i \in 0 .. k + 1 |-> IF i = 0 THEN first ELSE client_parser_callback(g[i - 1], h[i])]
      BY <2>2
    <3>2. QED
      BY <3>1
  <2> HIDE DEF Starts, g
  <2>4. QED
    BY <2>3
<1>3. Len(h) \in Nat
  OBVIOUS
<1> HIDE DEF Good
<1>4. \A k \in 0 .. Len(h) : k \in Good
  BY <1>1, <1>2, <1>3, UpTo
<1>5. Len(h) \in Good
  BY <1>3, <1>4
<1>6. QED
  BY <1>5 DEF Good, ParseTrace

(* Nothing changes without a call.                                         *)
LEMMA ParseAfterNone == ASSUME NEW first PROVE ParseAfter(first, << >>) = first
<1>1. PICK h : h = << >>
  OBVIOUS
<1>2. h \in Seq({}) /\ Len(h) = 0
  BY <1>1
<1>3. ParseTrace(first, h, CHOOSE f : ParseTrace(first, h, f))
  BY <1>2, ParseTraceExists
<1>4. PICK f : f = CHOOSE g : ParseTrace(first, h, g)
  OBVIOUS
<1>5. f[0] = first
  BY <1>2, <1>3, <1>4 DEF ParseTrace
<1>6. QED
  BY <1>1, <1>2, <1>4, <1>5 DEF ParseAfter

(* One call more is one step more.                                         *)
LEMMA ParseAfterMore ==
  ASSUME NEW S, NEW first, NEW h \in Seq(S), NEW c \in S
  PROVE  ParseAfter(first, Append(h, c)) = client_parser_callback(ParseAfter(first, h), c)
<1>1. PICK n, b : n = Len(h) /\ b = Append(h, c)
  OBVIOUS
<1>2. n \in Nat /\ b \in Seq(S) /\ Len(b) = n + 1 /\ b[n + 1] = c /\ \A i \in 1 .. n : b[i] = h[i]
  BY <1>1
<1>3. ParseTrace(first, h, CHOOSE f : ParseTrace(first, h, f)) /\ ParseTrace(first, b, CHOOSE f : ParseTrace(first, b, f))
  BY <1>2, ParseTraceExists
<1>4. PICK f, g : f = (CHOOSE x : ParseTrace(first, h, x)) /\ g = (CHOOSE x : ParseTrace(first, b, x))
  OBVIOUS
<1>5. /\ \A i \in 0 .. n : f[i] = IF i = 0 THEN first ELSE client_parser_callback(f[i - 1], h[i])
      /\ \A i \in 0 .. n + 1 : g[i] = IF i = 0 THEN first ELSE client_parser_callback(g[i - 1], b[i])
  <2>1. ParseTrace(first, h, f) /\ ParseTrace(first, b, g) /\ Len(h) = n /\ Len(b) = n + 1
    BY <1>1, <1>2, <1>3, <1>4
  <2>2. /\ f = [i \in 0 .. n |-> IF i = 0 THEN first ELSE client_parser_callback(f[i - 1], h[i])]
        /\ g = [i \in 0 .. n + 1 |-> IF i = 0 THEN first ELSE client_parser_callback(g[i - 1], b[i])]
    BY <2>1, Zenon DEF ParseTrace
  <2>3. QED
    BY <2>2, Zenon
<1> DEFINE Good == {i \in Nat : i <= n => f[i] = g[i]}
<1>6. 0 \in Good
  BY <1>2, <1>5
<1>7. ASSUME NEW k \in Nat, k < n, k \in Good PROVE k + 1 \in Good
  <2>1. f[k] = g[k] /\ k + 1 \in 1 .. n /\ k + 1 \in 0 .. n /\ k + 1 \in 0 .. n + 1 /\ k + 1 # 0 /\ (k + 1) - 1 = k
    BY <1>2, <1>7
  <2>2. f[k + 1] = client_parser_callback(f[k], h[k + 1]) /\ g[k + 1] = client_parser_callback(g[k], b[k + 1])
    BY <1>5, <2>1
  <2>3. b[k + 1] = h[k + 1]
    BY <1>2, <2>1
  <2>4. f[k + 1] = g[k + 1]
    BY <2>1, <2>2, <2>3
  <2>5. QED
    BY <2>4
<1> HIDE DEF Good
<1>8. \A k \in 0 .. n : k \in Good
  BY <1>2, <1>6, <1>7, UpTo
<1>9. f[n] = g[n]
  <2>1. n \in Good /\ n <= n
    BY <1>2, <1>8
  <2>2. QED
    BY <2>1 DEF Good
<1>10. g[n + 1] = client_parser_callback(g[n], c)
  <2>1. n + 1 \in 0 .. n + 1 /\ n + 1 # 0 /\ (n + 1) - 1 = n
    BY <1>2
  <2>2. g[n + 1] = client_parser_callback(g[(n + 1) - 1], b[n + 1])
    BY <1>5, <2>1, Zenon
  <2>3. QED
    BY <1>2, <2>1, <2>2
<1>11. ParseAfter(first, h) = f[n] /\ ParseAfter(first, b) = g[n + 1]
  BY <1>1, <1>2, <1>4, Zenon DEF ParseAfter
<1>12. QED
  BY <1>1, <1>9, <1>10, <1>11

(* The calls of a concatenation are made one after the other.              *)
LEMMA ParseAfterBoth ==
  ASSUME NEW S, NEW first, NEW h \in Seq(S), NEW g \in Seq(S)
  PROVE  ParseAfter(first, h \o g) = ParseAfter(ParseAfter(first, h), g)
<1> DEFINE Good == {k \in Nat : k <= Len(g) => ParseAfter(first, h \o SubSeq(g, 1, k)) = ParseAfter(ParseAfter(first, h), SubSeq(g, 1, k))}
<1>1. Len(g) \in Nat
  OBVIOUS
<1>2. 0 \in Good
  <2>1. SubSeq(g, 1, 0) = << >> /\ h \o << >> = h
    OBVIOUS
  <2>2. ParseAfter(ParseAfter(first, h), << >>) = ParseAfter(first, h)
    BY ParseAfterNone
  <2>3. QED
    BY <2>1, <2>2
<1>3. ASSUME NEW k \in Nat, k < Len(g), k \in Good PROVE k + 1 \in Good
  <2>1. PICK u, c, v : u = SubSeq(g, 1, k) /\ c = g[k + 1] /\ v = SubSeq(g, 1, k + 1)
    OBVIOUS
  <2>2. k + 1 \in 1 .. Len(g)
    BY <1>1, <1>3
  <2>3. u \in Seq(S) /\ c \in S /\ v = Append(u, c)
    BY <1>3, <2>1, <2>2
  <2>4. h \o v = Append(h \o u, c) /\ h \o u \in Seq(S)
    BY <2>3, Associative
  <2>5. ParseAfter(first, h \o u) = ParseAfter(ParseAfter(first, h), u)
    BY <1>1, <1>3, <2>1
  <2>8. ParseAfter(first, h \o v) = ParseAfter(ParseAfter(first, h), v)
    <3>1. ParseAfter(first, Append(h \o u, c)) = client_parser_callback(ParseAfter(first, h \o u), c)
      <4>1. PICK w : w = h \o u
        OBVIOUS
      <4>2. w \in Seq(S) /\ c \in S
        BY <2>3, <2>4, <4>1
      <4>3. ParseAfter(first, Append(w, c)) = client_parser_callback(ParseAfter(first, w), c)
        BY <4>2, ParseAfterMore
      <4>4. QED
        BY <4>1, <4>3
    <3>2. ParseAfter(ParseAfter(first, h), Append(u, c)) = client_parser_callback(ParseAfter(ParseAfter(first, h), u), c)
      BY <2>3, ParseAfterMore
    <3>3. QED
      BY <2>3, <2>4, <2>5, <3>1, <3>2
  <2>9. QED
    BY <2>1, <2>8
<1> HIDE DEF Good
<1>4. \A k \in 0 .. Len(g) : k \in Good
  BY <1>1, <1>2, <1>3, UpTo
<1>5. Len(g) \in Good /\ Len(g) <= Len(g) /\ SubSeq(g, 1, Len(g)) = g
  BY <1>1, <1>4
<1>6. QED
  BY <1>5 DEF Good

(* What is known after one call.                                           *)
LEMMA ParseAfterOne == ASSUME NEW first, NEW c PROVE ParseAfter(first, << c >>) = client_parser_callback(first, c)
<1>1. << >> \in Seq({c}) /\ c \in {c} /\ Append(<< >>, c) = << c >>
  OBVIOUS
<1>2. ParseAfter(first, Append(<< >>, c)) = client_parser_callback(ParseAfter(first, << >>), c)
  <2>1. PICK h, S : h = << >> /\ S = {c}
    OBVIOUS
  <2>2. h \in Seq(S) /\ c \in S
    BY <2>1
  <2>3. ParseAfter(first, Append(h, c)) = client_parser_callback(ParseAfter(first, h), c)
    BY <2>2, ParseAfterMore
  <2>4. QED
    BY <2>1, <2>3
<1>3. QED
  BY <1>1, <1>2, ParseAfterNone

-----------------------------------------------------------------------------
(* Callbacks of elements under a path.                                     *)

\* Callbacks of elements that are found under the elements of a path.
Prefixed(A, X, p) == [c \in CallbackSet(A, X) |-> [c EXCEPT !.path = p \o c.path]]
Placed(A, X, p, h) == Mapped(Prefixed(A, X, p), h)

PlacedApart(A, X, p, h, g) == Placed(A, X, p, h \o g) = Placed(A, X, p, h) \o Placed(A, X, p, g)

(* Such callbacks are callbacks, also of a concatenation.                  *)
LEMMA PlacedBoth ==
  ASSUME NEW A, NEW X, NEW p \in Seq(Names)
  PROVE  /\ \A h \in Seq(CallbackSet(A, X)) : Placed(A, X, p, h) \in Seq(CallbackSet(A, X)) /\ Len(Placed(A, X, p, h)) = Len(h)
         /\ \A h, g \in Seq(CallbackSet(A, X)) : PlacedApart(A, X, p, h, g)
<1>1. PICK F, C : F = Prefixed(A, X, p) /\ C = CallbackSet(A, X)
  OBVIOUS
<1>2. Maps(C, C, F)
  <2>1. ASSUME NEW c \in CallbackSet(A, X) PROVE [c EXCEPT !.path = p \o c.path] \in CallbackSet(A, X)
    <3>1. p \o c.path \in Seq(Names)
      BY DEF CallbackSet
    <3>2. QED
      BY <3>1 DEF CallbackSet
  <2>2. QED
    BY <1>1, <2>1 DEF Prefixed, Maps
<1>3. (\A h \in Seq(C) : Mapped(F, h) \in Seq(C) /\ Len(Mapped(F, h)) = Len(h)) /\ (\A h, g \in Seq(C) : MappedApart(F, h, g))
  BY <1>2, MappedBoth
<1>4. QED
  BY <1>1, <1>3, Zenon DEF Placed, PlacedApart, MappedApart

\* A callback, at its path under another one.
Moved(p, c) == [path |-> p \o c.path, attrs |-> c.attrs, value |-> c.value]

\* The path of an element under a path.
Below(p, name) == p \o << name >>

(* That is what Prefixed makes of it.                                      *)
LEMMA PrefixedIs ==
  ASSUME NEW A, NEW X, NEW p, NEW c \in CallbackSet(A, X)
  PROVE  Prefixed(A, X, p)[c] = Moved(p, c)
<1>1. PICK q : q = p \o c.path
  OBVIOUS
<1>2. [c EXCEPT !.path = q] = [path |-> q, attrs |-> c.attrs, value |-> c.value]
  BY DEF CallbackSet
<1>3. Prefixed(A, X, p)[c] = [c EXCEPT !.path = p \o c.path]
  BY Zenon DEF Prefixed
<1>4. Moved(p, c) = [path |-> q, attrs |-> c.attrs, value |-> c.value]
  BY <1>1, Zenon DEF Moved
<1>5. QED
  BY <1>1, <1>2, <1>3, <1>4, Zenon

AssociativeOn(s, t, u) == (s \o t) \o u = s \o (t \o u)

(* The same of three paths.                                                *)
LEMMA AssociativePaths == ASSUME NEW S, NEW s \in Seq(S), NEW t \in Seq(S), NEW u \in Seq(S) PROVE AssociativeOn(s, t, u)
BY Associative DEF AssociativeOn

\* One path before another one.
MovedTwice(p, r, q, c) == Moved(p, Moved(r, c)) = Moved(q, c)

(* A callback moved twice.                                                 *)
LEMMA MovedAgain ==
  ASSUME NEW A, NEW X, NEW p \in Seq(Names), NEW name \in Names, NEW c \in CallbackSet(A, X)
  PROVE  MovedTwice(p, << name >>, Below(p, name), c) /\ Moved(<< name >>, c) \in CallbackSet(A, X)
<1>1. PICK w, r, q : w = << name >> /\ r = c.path /\ q = p \o w
  OBVIOUS
<1>2. w \in Seq(Names) /\ r \in Seq(Names) /\ p \in Seq(Names) /\ q \in Seq(Names) /\ w \o r \in Seq(Names)
  BY <1>1 DEF CallbackSet
<1>3. PICK v, z : v = w \o r /\ z = q \o r
  OBVIOUS
<1>4. p \o v = z
  <2>1. AssociativeOn(p, w, r)
    BY <1>2, AssociativePaths
  <2>2. QED
    BY <1>1, <1>3, <2>1, Zenon DEF AssociativeOn
<1>5. PICK d : d = [path |-> v, attrs |-> c.attrs, value |-> c.value]
  OBVIOUS
<1>6. Moved(w, c) = d /\ q = Below(p, name)
  BY <1>1, <1>3, <1>5, Zenon DEF Moved, Below
<1>7. d.path = v /\ d.attrs = c.attrs /\ d.value = c.value /\ v \in Seq(Names)
  BY <1>2, <1>3, <1>5
<1>8. Moved(p, d) = [path |-> z, attrs |-> c.attrs, value |-> c.value]
  BY <1>4, <1>7, Zenon DEF Moved
<1>9. Moved(q, c) = [path |-> z, attrs |-> c.attrs, value |-> c.value]
  BY <1>1, <1>3, Zenon DEF Moved
<1>10. d \in CallbackSet(A, X)
  BY <1>5, <1>7 DEF CallbackSet
<1>11. QED
  BY <1>1, <1>6, <1>8, <1>9, <1>10, Zenon DEF MovedTwice

(* One element deeper, under the elements of a path, is under a longer     *)
(* path.                                                                   *)
LEMMA PlacedDeeper ==
  ASSUME NEW A, NEW X, NEW p \in Seq(Names), NEW name \in Names, NEW h \in Seq(CallbackSet(A, X))
  PROVE  Placed(A, X, p, Mapped(Deeper(A, X, name), h)) = Placed(A, X, Below(p, name), h)
<1>1. PICK F, G, H, C, q, w : /\ F = Prefixed(A, X, p) /\ G = Deeper(A, X, name) /\ H = Prefixed(A, X, q) /\ C = CallbackSet(A, X)
                              /\ q = Below(p, name) /\ w = << name >>
  OBVIOUS
<1>2. ASSUME NEW c \in C PROVE F[G[c]] = H[c] /\ G[c] \in C
  <2>1. G = Prefixed(A, X, w)
    BY <1>1, Zenon DEF Deeper, Prefixed
  <2>2. MovedTwice(p, w, q, c) /\ Moved(w, c) \in C
    <3>1. c \in CallbackSet(A, X)
      BY <1>1, Zenon
    <3>2. MovedTwice(p, << name >>, Below(p, name), c) /\ Moved(<< name >>, c) \in CallbackSet(A, X)
      BY <3>1, MovedAgain, Zenon
    <3>3. QED
      BY <1>1, <3>2, Zenon
  <2>3. G[c] = Moved(w, c)
    BY <1>1, <2>1, PrefixedIs
  <2>4. F[Moved(w, c)] = Moved(p, Moved(w, c)) /\ H[c] = Moved(q, c)
    BY <1>1, <2>2, PrefixedIs
  <2>5. QED
    BY <2>2, <2>3, <2>4, Zenon DEF MovedTwice
<1>3. PICK m : m = Mapped(G, h)
  OBVIOUS
<1>4. DOMAIN m = DOMAIN h /\ \A i \in DOMAIN h : m[i] = G[h[i]] /\ h[i] \in C
  BY <1>1, <1>3 DEF Mapped
<1>5. \A i \in DOMAIN h : F[m[i]] = H[h[i]]
  BY <1>2, <1>4
<1>6. Mapped(F, m) = Mapped(H, h)
  BY <1>4, <1>5 DEF Mapped
<1>7. QED
  BY <1>1, <1>3, <1>6, Zenon DEF Placed

\* One callback under a path.
IsPlacedOne(A, X, p, c) == Placed(A, X, p, << c >>) = << Moved(p, c) >>

(* One callback under a path.                                              *)
LEMMA PlacedOne ==
  ASSUME NEW A, NEW X, NEW p, NEW c \in CallbackSet(A, X)
  PROVE  IsPlacedOne(A, X, p, c)
<1>1. PICK w, F, e : w = << c >> /\ F = Prefixed(A, X, p) /\ e = Moved(p, c)
  OBVIOUS
<1>2. w \in Seq(CallbackSet(A, X)) /\ DOMAIN w = 1 .. 1 /\ w[1] = c
  BY <1>1
<1>3. F[c] = e
  BY <1>1, PrefixedIs, Zenon
<1>4. Mapped(F, w) = [j \in 1 .. 1 |-> e]
  <2>1. Mapped(F, w) = [j \in 1 .. 1 |-> F[w[j]]]
    BY <1>2, Zenon DEF Mapped
  <2>2. \A j \in 1 .. 1 : F[w[j]] = e
    BY <1>2, <1>3
  <2>3. QED
    BY <2>1, <2>2
<1>5. [j \in 1 .. 1 |-> e] = << e >>
  OBVIOUS
<1>6. QED
  BY <1>1, <1>4, <1>5, Zenon DEF Placed, IsPlacedOne

-----------------------------------------------------------------------------

\* What is known after reading these elements under a path.
ReadAt(A, X, p, data, s) == ParseAfter(data, Placed(A, X, p, Heard(s)))

\* The call of one element under a path.
CallAt(p, name, value) == [path |-> Below(p, name), attrs |-> Null, value |-> value]

ReadAtApart(A, X, p, data, s, t) == ReadAt(A, X, p, data, s \o t) = ReadAt(A, X, p, ReadAt(A, X, p, data, s), t)

(* Elements are read one after the other.                                  *)
LEMMA ReadAtBoth ==
  ASSUME NEW A, NEW X, Null \in X, NEW p \in Seq(Names), NEW data, NEW s, Documents(A, X, s), NEW t, Documents(A, X, t)
  PROVE  ReadAtApart(A, X, p, data, s, t)
<1>1. PICK h, g : h = Heard(s) /\ g = Heard(t)
  OBVIOUS
<1>2. h \in Seq(CallbackSet(A, X)) /\ g \in Seq(CallbackSet(A, X))
  BY <1>1, DocumentsWhole
<1>3. Heard(s \o t) = h \o g
  <2>1. HeardApart(s, t)
    BY HeardBoth
  <2>2. QED
    BY <1>1, <2>1 DEF HeardApart
<1>4. PICK a, b : a = Placed(A, X, p, h) /\ b = Placed(A, X, p, g)
  OBVIOUS
<1>5. a \in Seq(CallbackSet(A, X)) /\ b \in Seq(CallbackSet(A, X)) /\ Placed(A, X, p, h \o g) = a \o b
  <2>1. /\ \A x \in Seq(CallbackSet(A, X)) : Placed(A, X, p, x) \in Seq(CallbackSet(A, X))
        /\ \A x, y \in Seq(CallbackSet(A, X)) : PlacedApart(A, X, p, x, y)
    BY PlacedBoth
  <2>2. PlacedApart(A, X, p, h, g)
    BY <1>2, <2>1, Zenon
  <2>3. QED
    BY <1>2, <1>4, <2>1, <2>2 DEF PlacedApart
<1>6. ParseAfter(data, a \o b) = ParseAfter(ParseAfter(data, a), b)
  BY <1>5, ParseAfterBoth
<1>7. QED
  BY <1>1, <1>3, <1>4, <1>5, <1>6 DEF ReadAt, ReadAtApart

\* What is read of one leaf under a path.
ReadsLeaf(A, X, p, data, name, text) ==
  /\ Documents(A, X, << Leaf(name, text) >>)
  /\ ReadAt(A, X, p, data, << Leaf(name, text) >>) = client_parser_callback(data, CallAt(p, name, text))

(* An element without children is read as one call.                        *)
LEMMA LeafReadAt ==
  ASSUME NEW A, NEW X, Vocabulary(A, X), NEW p \in Seq(Names), NEW data, NEW name \in Names, NEW text \in X
  PROVE  ReadsLeaf(A, X, p, data, name, text)
<1>1. PICK c, e : c = [path |-> << name >>, attrs |-> Null, value |-> text] /\ e = CallAt(p, name, text)
  OBVIOUS
<1>2. c \in CallbackSet(A, X)
  BY <1>1 DEF CallbackSet, Vocabulary
<1>3. Documents(A, X, << LeafWith(name, Null, text) >>) /\ Heard(<< LeafWith(name, Null, text) >>) = << c >>
  <2>1. Null \in A /\ Null \in X /\ Indent \in X
    BY DEF Vocabulary
  <2>2. Heard(<< LeafWith(name, Null, text) >>) = << [path |-> << name >>, attrs |-> Null, value |-> text] >>
    BY <2>1, HeardOne
  <2>3. Documents(A, X, << LeafWith(name, Null, text) >>)
    BY <2>1, HeardOne
  <2>4. QED
    BY <1>1, <2>2, <2>3
<1>4. Moved(p, c) = e
  <2>1. c.path = << name >> /\ c.attrs = Null /\ c.value = text
    BY <1>1
  <2>2. QED
    BY <1>1, <2>1, Zenon DEF CallAt, Moved, Below
<1>5. Placed(A, X, p, << c >>) = << e >>
  <2>1. IsPlacedOne(A, X, p, c)
    BY <1>2, PlacedOne
  <2>2. QED
    BY <1>4, <2>1, Zenon DEF IsPlacedOne
<1>6. ParseAfter(data, << e >>) = client_parser_callback(data, e)
  BY ParseAfterOne
<1>7. QED
  BY <1>1, <1>3, <1>5, <1>6, Zenon DEF ReadsLeaf, ReadAt, Leaf

\* What is read of an element with others in it under a path.
ReadsNode(A, X, p, data, name, s) ==
  /\ Documents(A, X, << Node(name, s) >>)
  /\ \E v \in X : ReadAt(A, X, p, data, << Node(name, s) >>) = ReadAt(A, X, Below(p, name), client_parser_callback(data, CallAt(p, name, v)), s)

(* An element with others in it is read as one call, and then they are     *)
(* read under it.                                                          *)
LEMMA NodeReadAt ==
  ASSUME NEW A, NEW X, Vocabulary(A, X), NEW p \in Seq(Names), NEW data, NEW name \in Names, NEW s, Documents(A, X, s)
  PROVE  ReadsNode(A, X, p, data, name, s)
<1>1. Null \in A /\ Null \in X /\ Indent \in X
  BY DEF Vocabulary
<1>2. IsNode(A, X, name, Null, s)
  BY <1>1, CallsOfNode
<1>3. PICK d : d = NodeWith(name, Null, s)
  OBVIOUS
<1>4. d \in Seq(Tags(A, X)) /\ Whole(d)
  BY <1>2, <1>3 DEF IsNode
<1>5. Documents(A, X, << d >>) /\ FlattenSeq(<< d >>) = d
  BY <1>4, DocumentsOne
<1>6. PICK v \in X : Callbacks(d) = << [path |-> << name >>, attrs |-> Null, value |-> v] >> \o Mapped(Deeper(A, X, name), Heard(s))
  BY <1>2, <1>3 DEF IsNode
<1>7. PICK c, e, h, m, C : /\ c = [path |-> << name >>, attrs |-> Null, value |-> v] /\ e = CallAt(p, name, v) /\ h = Heard(s)
                           /\ m = Mapped(Deeper(A, X, name), h) /\ C = CallbackSet(A, X)
  OBVIOUS
<1>8. c \in C /\ h \in Seq(C)
  <2>1. c \in C
    BY <1>1, <1>7 DEF CallbackSet
  <2>2. QED
    BY <1>1, <1>7, <2>1, DocumentsWhole
<1>9. m \in Seq(C)
  <2>1. \A x \in Seq(C) : Mapped(Deeper(A, X, name), x) \in Seq(C)
    BY <1>7, MappedTypes
  <2>2. QED
    BY <1>7, <1>8, <2>1
<1>10. PICK w : w = << c >>
  OBVIOUS
<1>11. w \in Seq(C) /\ Callbacks(d) = w \o m
  BY <1>6, <1>7, <1>8, <1>10
<1>12. Placed(A, X, p, w) = << e >>
  <2>1. e = Moved(p, c)
    <3>1. c.path = << name >> /\ c.attrs = Null /\ c.value = v
      BY <1>7
    <3>2. QED
      BY <1>7, <3>1, Zenon DEF CallAt, Moved, Below
  <2>2. c \in CallbackSet(A, X)
    BY <1>7, <1>8
  <2>3. IsPlacedOne(A, X, p, c)
    BY <2>2, PlacedOne
  <2>4. QED
    BY <1>10, <2>1, <2>3, Zenon DEF IsPlacedOne
<1>13. Placed(A, X, p, m) = Placed(A, X, Below(p, name), h)
  <2>1. h \in Seq(CallbackSet(A, X))
    BY <1>7, <1>8
  <2>2. QED
    BY <1>7, <2>1, PlacedDeeper
<1>14. Placed(A, X, p, Callbacks(d)) = Placed(A, X, p, w) \o Placed(A, X, p, m)
  <2>1. \A x, y \in Seq(C) : PlacedApart(A, X, p, x, y)
    BY <1>7, PlacedBoth
  <2>2. PlacedApart(A, X, p, w, m)
    BY <1>9, <1>11, <2>1, Zenon
  <2>3. QED
    BY <1>11, <2>2, Zenon DEF PlacedApart
<1>15. PICK a, b : a = << e >> /\ b = Placed(A, X, Below(p, name), h)
  OBVIOUS
<1>16. a \in Seq(C) /\ b \in Seq(C) /\ Placed(A, X, p, Callbacks(d)) = a \o b
  <2>1. Placed(A, X, p, w) \in Seq(C) /\ Placed(A, X, p, m) \in Seq(C)
    BY <1>7, <1>9, <1>11, PlacedBoth
  <2>2. QED
    BY <1>12, <1>13, <1>14, <1>15, <2>1
<1>17. ParseAfter(data, a \o b) = ParseAfter(ParseAfter(data, a), b)
  BY <1>16, ParseAfterBoth
<1>18. ParseAfter(data, a) = client_parser_callback(data, e)
  BY <1>15, ParseAfterOne
<1>19. Heard(<< d >>) = Callbacks(d)
  BY <1>5, Zenon DEF Heard
<1>20. ReadAt(A, X, p, data, << d >>) = ReadAt(A, X, Below(p, name), client_parser_callback(data, e), s)
  BY <1>7, <1>15, <1>16, <1>17, <1>18, <1>19, Zenon DEF ReadAt
<1>21. Node(name, s) = d
  BY <1>3, Zenon DEF Node
<1>22. QED
  BY <1>5, <1>7, <1>20, <1>21, Zenon DEF ReadsNode

-----------------------------------------------------------------------------
(* The paths that are looked for.                                          *)

RootPath == << "root" >>
ListPath == << "root", "device", "serviceList" >>

\* What tells the paths of client_parser_callback apart.
PathsTold(p, name) ==
  /\ Below(p, name) \in Seq(Names) /\ Last(Below(p, name)) = name /\ Front(Below(p, name)) = p
  /\ Below(p, name) = << "root", "URLBase" >> <=> p = RootPath /\ name = "URLBase"
  /\ Below(p, name) = DevicePath <=> p = RootPath /\ name = "device"
  /\ Below(p, name) = ServicePath <=> p = ListPath /\ name = "service"

IsBoth(s, t, u) == u = s \o t

(* The elements of a concatenation.                                        *)
LEMMA BothElements ==
  ASSUME NEW S, NEW s \in Seq(S), NEW t \in Seq(S), NEW u, IsBoth(s, t, u)
  PROVE  u \in Seq(S) /\ Joined(s, t, u) /\ Len(s) \in Nat /\ Len(t) \in Nat /\ Len(u) = Len(s) + Len(t)
<1>1. s \o t \in Seq(S)
  BY ConcatProperties
<1>2. Len(s \o t) = Len(s) + Len(t)
  BY ConcatProperties
<1>3. /\ \A i \in 1 .. Len(s) : (s \o t)[i] = s[i]
      /\ \A i \in 1 .. Len(t) : (s \o t)[Len(s) + i] = t[i]
  <2>1. \A i \in 1 .. Len(s) + Len(t) : (s \o t)[i] = IF i <= Len(s) THEN s[i] ELSE t[i - Len(s)]
    BY ConcatProperties
  <2>2. QED
    BY <2>1
<1>4. QED
  BY <1>1, <1>2, <1>3 DEF IsBoth, Joined

(* The last element of a path, and the others.                             *)
LEMMA LastOfPath ==
  ASSUME NEW p \in Seq(Names), NEW name \in Names, NEW r, r = Below(p, name)
  PROVE  r \in Seq(Names) /\ Len(r) = Len(p) + 1 /\ r[Len(p) + 1] = name /\ Last(r) = name /\ Front(r) = p
<1>1. PICK w : w = << name >>
  OBVIOUS
<1>2. w \in Seq(Names) /\ Len(w) = 1 /\ w[1] = name
  BY <1>1
<1>3. r = p \o w
  BY <1>1, Zenon DEF Below
<1>4. /\ r \in Seq(Names) /\ Len(r) = Len(p) + 1 /\ r[Len(p) + 1] = name
      /\ Len(p) \in Nat /\ \A i \in 1 .. Len(p) : r[i] = p[i]
  <2>1. IsBoth(p, w, r)
    BY <1>3, Zenon DEF IsBoth
  <2>2. r \in Seq(Names) /\ Joined(p, w, r) /\ Len(p) \in Nat /\ Len(r) = Len(p) + Len(w)
    BY <1>2, <2>1, BothElements
  <2>3. QED
    BY <1>2, <2>2 DEF Joined
<1>5. PICK g : g = Front(r)
  OBVIOUS
<1>6. g = SubSeq(r, 1, Len(p))
  BY <1>4, <1>5 DEF Front
<1>7. g \in Seq(Names) /\ Len(g) = Len(p) /\ \A i \in 1 .. Len(p) : g[i] = p[i]
  BY <1>4, <1>6
<1>8. g = p
  BY <1>7, SeqEqual
<1>9. Last(r) = name
  BY <1>4 DEF Last
<1>10. QED
  BY <1>4, <1>5, <1>8, <1>9

(* The paths of client_parser_callback and the paths above them.           *)
LEMMA PathTold == ASSUME NEW p \in Seq(Names), NEW name \in Names PROVE PathsTold(p, name)
<1>1. PICK r : r = Below(p, name)
  OBVIOUS
<1>2. r \in Seq(Names) /\ Last(r) = name /\ Front(r) = p
  BY <1>1, LastOfPath
<1>3. ASSUME NEW q \in Seq(Names), NEW n \in Names, NEW x, x = Below(q, n) PROVE r = x <=> p = q /\ name = n
  <2>1. Last(x) = n /\ Front(x) = q
    BY <1>3, LastOfPath
  <2>2. QED
    BY <1>1, <1>2, <1>3, <2>1
<1>4. "root" \in Names /\ "URLBase" \in Names /\ "device" \in Names /\ "serviceList" \in Names /\ "service" \in Names
  BY DEF Names, DescriptionNames
<1>5. PICK u, v, l : u = << "root", "URLBase" >> /\ v = RootPath /\ l = ListPath
  OBVIOUS
<1>6. v \in Seq(Names) /\ l \in Seq(Names)
  BY <1>4, <1>5 DEF RootPath, ListPath
<1>7. u = Below(v, "URLBase")
  <2>1. << "root" >> \o << "URLBase" >> = << "root", "URLBase" >>
    BY TuplesConcat
  <2>2. QED
    BY <1>5, <2>1, Zenon DEF Below, RootPath
<1>8. DevicePath = Below(v, "device")
  <2>1. << "root" >> \o << "device" >> = << "root", "device" >>
    BY TuplesConcat
  <2>2. QED
    BY <1>5, <2>1, Zenon DEF Below, RootPath, DevicePath
<1>9. ServicePath = Below(l, "service")
  <2>1. PICK a, b, c, d : a = << "root", "device" >> /\ b = << "serviceList" >> /\ c = << "service" >> /\ d = << "serviceList", "service" >>
    OBVIOUS
  <2>2. a \in Seq(Names) /\ b \in Seq(Names) /\ c \in Seq(Names)
    BY <1>4, <2>1
  <2>3. d = b \o c
    BY <2>1, TuplesConcat
  <2>4. AssociativeOn(a, b, c)
    BY <2>2, AssociativePaths
  <2>5. a \o b = l
    <3>1. /\ l \in Seq(Names) /\ Len(a) = 2 /\ Len(b) = 1 /\ Len(l) = 3
          /\ a[1] = l[1] /\ a[2] = l[2] /\ b[1] = l[3]
      BY <1>4, <1>5, <2>1 DEF ListPath
    <3>2. Joined(a, b, l)
      BY <3>1 DEF Joined
    <3>3. QED
      BY <2>2, <3>1, <3>2, IsConcat
  <2>6. ServicePath = a \o d
    BY <2>1, Zenon DEF ServicePath, DevicePath
  <2>7. QED
    BY <2>1, <2>3, <2>4, <2>5, <2>6, Zenon DEF AssociativeOn, Below
<1>10. r = u <=> p = v /\ name = "URLBase"
  BY <1>3, <1>4, <1>6, <1>7
<1>11. r = DevicePath <=> p = v /\ name = "device"
  BY <1>3, <1>4, <1>6, <1>8
<1>12. r = ServicePath <=> p = l /\ name = "service"
  BY <1>3, <1>4, <1>6, <1>9
<1>13. QED
  BY <1>1, <1>2, <1>5, <1>10, <1>11, <1>12, Zenon DEF PathsTold

\* Four different paths.
PathsApart == /\ RootPath # DevicePath /\ RootPath # ListPath /\ RootPath # ServicePath
              /\ DevicePath # ListPath /\ DevicePath # ServicePath /\ ListPath # ServicePath
              /\ RootPath \in Seq(Names) /\ DevicePath \in Seq(Names) /\ ListPath \in Seq(Names) /\ ServicePath \in Seq(Names)

(* They are different.                                                     *)
LEMMA ApartPaths == PathsApart
<1>1. "root" \in Names /\ "device" \in Names /\ "serviceList" \in Names /\ "service" \in Names
  BY DEF Names, DescriptionNames
<1>2. PICK a, b : a = DevicePath /\ b = << "serviceList", "service" >>
  OBVIOUS
<1>3. a \in Seq(Names) /\ b \in Seq(Names) /\ Len(a) = 2 /\ Len(b) = 2
  BY <1>1, <1>2 DEF DevicePath
<1>4. PICK c : c = a \o b
  OBVIOUS
<1>5. c \in Seq(Names) /\ Len(c) = 4
  <2>1. IsBoth(a, b, c)
    BY <1>4, Zenon DEF IsBoth
  <2>2. ASSUME NEW S, a \in Seq(S), b \in Seq(S) PROVE c \in Seq(S) /\ Len(c) = Len(a) + Len(b)
    BY <2>1, <2>2, BothElements
  <2>3. QED
    BY <1>3, <2>2
<1>6. ServicePath = c
  BY <1>2, <1>4, Zenon DEF ServicePath
<1>7. PICK l, r : l = ListPath /\ r = RootPath
  OBVIOUS
<1>8. l \in Seq(Names) /\ Len(l) = 3 /\ r \in Seq(Names) /\ Len(r) = 1
  BY <1>1, <1>7 DEF ListPath, RootPath
<1>9. a # c /\ a # l /\ a # r /\ l # c /\ l # r /\ c # r
  <2>1. Len(a) = 2 /\ Len(c) = 4 /\ Len(l) = 3 /\ Len(r) = 1
    BY <1>3, <1>5, <1>8
  <2>2. QED
    BY <2>1
<1>10. QED
  BY <1>2, <1>3, <1>5, <1>6, <1>7, <1>8, <1>9, Zenon DEF PathsApart

-----------------------------------------------------------------------------

\* What is known of a description that has one device.
Parsed(base, devices) == [URLBase |-> base, devices |-> devices]
Described(type, udn, name, services) == [deviceType |-> type, UDN |-> udn, friendlyName |-> name, services |-> services]
OneDevice(base, device) == Parsed(base, << device >>)

\* A path that client_parser_callback does not look for.
Dismissed(p, name) ==
  /\ ~(p = RootPath /\ name \in {"URLBase", "device"})
  /\ ~(p = ListPath /\ name = "service")
  /\ ~(p = DevicePath /\ name \in {"deviceType", "UDN", "friendlyName"})
  /\ ~(p = ServicePath /\ name \in DOMAIN NewService)

(* A call with such a path changes nothing.                                *)
LEMMA DismissedCall ==
  ASSUME NEW p \in Seq(Names), NEW name \in Names, Dismissed(p, name), NEW data, NEW value
  PROVE  client_parser_callback(data, CallAt(p, name, value)) = data
<1>1. PICK c, r : c = CallAt(p, name, value) /\ r = Below(p, name)
  OBVIOUS
<1>2. c.path = r
  BY <1>1 DEF CallAt
<1>3. PathsTold(p, name)
  BY PathTold
<1>4. /\ r # << "root", "URLBase" >> /\ r # DevicePath /\ r # ServicePath
      /\ Last(r) = name /\ Front(r) = p
  BY <1>1, <1>3, Zenon DEF PathsTold, Dismissed
<1>5. /\ ~(Front(r) = DevicePath /\ Last(r) \in {"deviceType", "UDN", "friendlyName"})
      /\ ~(Front(r) = ServicePath /\ Last(r) \in DOMAIN NewService)
  BY <1>4, Zenon DEF Dismissed
<1>6. QED
  BY <1>1, <1>2, <1>4, <1>5, Zenon DEF client_parser_callback

(* The call of URLBase.                                                    *)
LEMMA CallOfBase ==
  ASSUME NEW base, NEW devices, NEW value
  PROVE  client_parser_callback(Parsed(base, devices), CallAt(RootPath, "URLBase", value)) = Parsed(value, devices)
<1>1. PICK c, r, d : c = CallAt(RootPath, "URLBase", value) /\ r = Below(RootPath, "URLBase") /\ d = Parsed(base, devices)
  OBVIOUS
<1>2. c.path = r /\ c.value = value
  BY <1>1 DEF CallAt
<1>3. RootPath \in Seq(Names) /\ "URLBase" \in Names
  <2>1. "URLBase" \in Names
    BY DEF Names, DescriptionNames
  <2>2. QED
    BY <2>1, ApartPaths DEF PathsApart
<1>4. PathsTold(RootPath, "URLBase")
  BY <1>3, PathTold
<1>5. r = << "root", "URLBase" >>
  BY <1>1, <1>4, Zenon DEF PathsTold
<1>6. r # DevicePath /\ r # ServicePath /\ Front(r) = RootPath
  <2>1. "URLBase" # "device"
    OBVIOUS
  <2>2. QED
    BY <1>1, <1>4, <2>1, ApartPaths, Zenon DEF PathsTold, PathsApart
<1>7. Front(r) # DevicePath /\ Front(r) # ServicePath
  BY <1>6, ApartPaths, Zenon DEF PathsApart
<1>8. client_parser_callback(d, c) = [d EXCEPT !.URLBase = c.value]
  BY <1>2, <1>5, <1>6, <1>7, Zenon DEF client_parser_callback
<1>9. [d EXCEPT !.URLBase = value] = Parsed(value, devices)
  BY <1>1 DEF Parsed
<1>10. QED
  BY <1>1, <1>2, <1>8, <1>9

\* What is known of a description whose device is known.
State(base, type, udn, name, services) == OneDevice(base, Described(type, udn, name, services))

(* The call of a device.                                                   *)
LEMMA CallOfDevice ==
  ASSUME NEW base, NEW value
  PROVE  client_parser_callback(Parsed(base, << >>), CallAt(RootPath, "device", value)) = State(base, Null, Null, Null, << >>)
<1>1. PICK c, r, d, e : /\ c = CallAt(RootPath, "device", value) /\ r = Below(RootPath, "device")
                        /\ e = << >> /\ d = Parsed(base, e)
  OBVIOUS
<1>2. c.path = r /\ c.value = value
  BY <1>1 DEF CallAt
<1>3. RootPath \in Seq(Names) /\ "device" \in Names
  <2>1. "device" \in Names
    BY DEF Names, DescriptionNames
  <2>2. QED
    BY <2>1, ApartPaths DEF PathsApart
<1>4. PathsTold(RootPath, "device")
  BY <1>3, PathTold
<1>5. r = DevicePath
  BY <1>1, <1>4, Zenon DEF PathsTold
<1>6. r # << "root", "URLBase" >>
  <2>1. "URLBase" # "device"
    OBVIOUS
  <2>2. QED
    BY <1>1, <1>4, <2>1, Zenon DEF PathsTold
<1>7. r # ServicePath /\ Front(r) # DevicePath /\ Front(r) # ServicePath
  BY <1>1, <1>4, <1>5, ApartPaths, Zenon DEF PathsTold, PathsApart
<1>8. client_parser_callback(d, c) = [d EXCEPT !.devices = Append(@, NewDevice)]
  BY <1>2, <1>5, <1>6, <1>7, Zenon DEF client_parser_callback
<1>9. PICK n, w : n = NewDevice /\ w = << n >>
  OBVIOUS
<1>10. Append(e, n) = w
  BY <1>1, <1>9
<1>11. d.devices = e /\ [d EXCEPT !.devices = w] = Parsed(base, w)
  BY <1>1 DEF Parsed
<1>12. [d EXCEPT !.devices = Append(@, NewDevice)] = Parsed(base, w)
  BY <1>9, <1>10, <1>11
<1>13. NewDevice = Described(Null, Null, Null, << >>)
  BY Zenon DEF NewDevice, Described
<1>14. QED
  BY <1>1, <1>8, <1>9, <1>12, <1>13, Zenon DEF State, OneDevice

\* What the text of an element of a device becomes.
TextNoted(base, device, field, value) ==
  client_parser_callback(OneDevice(base, device), CallAt(DevicePath, field, value)) = OneDevice(base, [device EXCEPT ![field] = value])

(* The call of a text of a device.                                         *)
LEMMA CallOfText ==
  ASSUME NEW base, NEW device, NEW field \in {"deviceType", "UDN", "friendlyName"}, NEW value
  PROVE  TextNoted(base, device, field, value)
<1>1. PICK c, r, w, d : /\ c = CallAt(DevicePath, field, value) /\ r = Below(DevicePath, field)
                        /\ w = << device >> /\ d = Parsed(base, w)
  OBVIOUS
<1>2. c.path = r /\ c.value = value
  BY <1>1 DEF CallAt
<1>3. DevicePath \in Seq(Names) /\ field \in Names
  <2>1. field \in Names
    BY DEF Names, DescriptionNames
  <2>2. QED
    BY <2>1, ApartPaths DEF PathsApart
<1>4. PathsTold(DevicePath, field)
  BY <1>3, PathTold
<1>5. r # << "root", "URLBase" >> /\ r # DevicePath /\ r # ServicePath /\ Front(r) = DevicePath /\ Last(r) = field
  BY <1>1, <1>4, ApartPaths, Zenon DEF PathsTold, PathsApart
<1>6. Len(d.devices) = 1 /\ d.devices = w /\ w[1] = device
  BY <1>1 DEF Parsed
<1>7. client_parser_callback(d, c) = [d EXCEPT !.devices[1][field] = value]
  <2>1. 1 > 0
    OBVIOUS
  <2>2. Front(r) # ServicePath
    BY <1>5, ApartPaths, Zenon DEF PathsApart
  <2>3. QED
    BY <1>2, <1>5, <1>6, <2>1, <2>2, Zenon DEF client_parser_callback
<1>8. PICK n : n = [device EXCEPT ![field] = value]
  OBVIOUS
<1>9. [d EXCEPT !.devices[1][field] = value] = [d EXCEPT !.devices = [w EXCEPT ![1] = n]]
  BY <1>6, <1>8
<1>10. [w EXCEPT ![1] = n] = << n >>
  BY <1>1
<1>11. [d EXCEPT !.devices = << n >>] = Parsed(base, << n >>)
  BY <1>1 DEF Parsed
<1>12. QED
  BY <1>1, <1>7, <1>8, <1>9, <1>10, <1>11, Zenon DEF TextNoted, OneDevice

\* What is known after the call of a service.
Longer(services, service) == Append(services, service)

(* The call of a service.                                                  *)
LEMMA CallOfService ==
  ASSUME NEW base, NEW type, NEW udn, NEW name, NEW services, NEW value
  PROVE  client_parser_callback(State(base, type, udn, name, services), CallAt(ListPath, "service", value))
           = State(base, type, udn, name, Longer(services, NewService))
<1>1. PICK c, r, device, w, d : /\ c = CallAt(ListPath, "service", value) /\ r = Below(ListPath, "service")
                                /\ device = Described(type, udn, name, services)
                                /\ w = << device >> /\ d = Parsed(base, w)
  OBVIOUS
<1>2. c.path = r /\ c.value = value
  BY <1>1 DEF CallAt
<1>3. ListPath \in Seq(Names) /\ "service" \in Names
  <2>1. "service" \in Names
    BY DEF Names, DescriptionNames
  <2>2. QED
    BY <2>1, ApartPaths DEF PathsApart
<1>4. PathsTold(ListPath, "service")
  BY <1>3, PathTold
<1>5. r # << "root", "URLBase" >> /\ r # DevicePath /\ r = ServicePath /\ Front(r) # DevicePath /\ Front(r) # ServicePath
  BY <1>1, <1>4, ApartPaths, Zenon DEF PathsTold, PathsApart
<1>6. Len(d.devices) = 1 /\ d.devices = w /\ w[1] = device
  BY <1>1 DEF Parsed
<1>7. client_parser_callback(d, c) = [d EXCEPT !.devices[1].services = Append(@, NewService)]
  <2>1. 1 > 0
    OBVIOUS
  <2>2. QED
    BY <1>2, <1>5, <1>6, <2>1, Zenon DEF client_parser_callback
<1>8. PICK s : s = Append(services, NewService)
  OBVIOUS
<1>9. device.services = services /\ [device EXCEPT !.services = s] = Described(type, udn, name, s)
  BY <1>1 DEF Described
<1>10. PICK n : n = Described(type, udn, name, s)
  OBVIOUS
<1>11. [d EXCEPT !.devices[1].services = Append(@, NewService)] = [d EXCEPT !.devices = [w EXCEPT ![1] = n]]
  BY <1>6, <1>8, <1>9, <1>10
<1>12. [w EXCEPT ![1] = n] = << n >>
  BY <1>1
<1>13. [d EXCEPT !.devices = << n >>] = Parsed(base, << n >>)
  BY <1>1 DEF Parsed
<1>14. QED
  BY <1>1, <1>7, <1>8, <1>10, <1>11, <1>12, <1>13, Zenon DEF State, OneDevice, Longer

FieldNoted(base, type, udn, name, services, service, field, value) ==
  client_parser_callback(State(base, type, udn, name, Longer(services, service)), CallAt(ServicePath, field, value))
    = State(base, type, udn, name, Longer(services, [service EXCEPT ![field] = value]))

(* The call of an element of a service.                                    *)
LEMMA CallOfField ==
  ASSUME NEW base, NEW type, NEW udn, NEW name, NEW services, IsSeq(services), NEW service,
         NEW field \in DOMAIN NewService, NEW value
  PROVE  FieldNoted(base, type, udn, name, services, service, field, value)
<1>1. PICK c, r, s, device, w, d : /\ c = CallAt(ServicePath, field, value) /\ r = Below(ServicePath, field)
                                   /\ s = Append(services, service)
                                   /\ device = Described(type, udn, name, s)
                                   /\ w = << device >> /\ d = Parsed(base, w)
  OBVIOUS
<1>2. c.path = r /\ c.value = value
  BY <1>1 DEF CallAt
<1>3. ServicePath \in Seq(Names) /\ field \in Names
  <2>1. field \in Names
    BY DEF Names, DescriptionNames, NewService
  <2>2. QED
    BY <2>1, ApartPaths DEF PathsApart
<1>4. PathsTold(ServicePath, field)
  BY <1>3, PathTold
<1>5. /\ r # << "root", "URLBase" >> /\ r # DevicePath /\ r # ServicePath
      /\ Front(r) = ServicePath /\ Front(r) # DevicePath /\ Last(r) = field
  BY <1>1, <1>4, ApartPaths, Zenon DEF PathsTold, PathsApart
<1>6. Len(d.devices) = 1 /\ d.devices = w /\ w[1] = device
  BY <1>1 DEF Parsed
<1>7. PICK k : k = Len(services) + 1
  OBVIOUS
<1>8. k \in Nat /\ k > 0 /\ Len(s) = k /\ s[k] = service /\ \A y : [s EXCEPT ![k] = y] = Append(services, y)
  BY <1>1, <1>7, AppendAny
<1>9. device.services = s
  BY <1>1 DEF Described
<1>10. client_parser_callback(d, c) = [d EXCEPT !.devices[1].services[k][field] = value]
  <2>1. 1 > 0 /\ 1 # 0
    OBVIOUS
  <2>2. Len(d.devices[1].services) = k
    BY <1>6, <1>8, <1>9
  <2>3. QED
    BY <1>2, <1>5, <1>6, <1>8, <2>1, <2>2, Zenon DEF client_parser_callback
<1>11. PICK n, z, m : n = [service EXCEPT ![field] = value] /\ z = Append(services, n) /\ m = Described(type, udn, name, z)
  OBVIOUS
<1>12. [s EXCEPT ![k] = n] = z
  BY <1>8, <1>11
<1>13. [s EXCEPT ![k][field] = value] = z
  BY <1>8, <1>11, <1>12
<1>14. [device EXCEPT !.services = z] = m
  <2>1. device = Described(type, udn, name, s) /\ m = Described(type, udn, name, z)
    BY <1>1, <1>11
  <2>2. QED
    BY <2>1 DEF Described
<1>15. [device EXCEPT !.services[k][field] = value] = m
  BY <1>9, <1>13, <1>14
<1>16. [d EXCEPT !.devices[1].services[k][field] = value] = [d EXCEPT !.devices = [w EXCEPT ![1] = m]]
  BY <1>6, <1>15
<1>17. [w EXCEPT ![1] = m] = << m >>
  BY <1>1
<1>18. [d EXCEPT !.devices = << m >>] = Parsed(base, << m >>)
  BY <1>1 DEF Parsed
<1>19. QED
  BY <1>1, <1>10, <1>11, <1>16, <1>17, <1>18, Zenon DEF FieldNoted, State, OneDevice, Longer

-----------------------------------------------------------------------------
(* What is read without effect.                                            *)

\* The paths under which nothing is looked for.
QuietPath(r) ==
  /\ r \in Seq(Names) /\ Len(r) >= 2
  /\ r[2] = "specVersion" \/ (r[2] = "device" /\ Len(r) >= 3 /\ r[3] \in {"iconList", "deviceList"})

(* A call with such a path changes nothing.                                *)
LEMMA QuietCall == ASSUME NEW data, NEW c, QuietPath(c.path) PROVE client_parser_callback(data, c) = data
<1>1. PICK r, u, v, l : /\ r = c.path /\ u = << "root", "URLBase" >> /\ v = DevicePath /\ l = ServicePath
  OBVIOUS
<1>2. r \in Seq(Names) /\ Len(r) \in Nat /\ Len(r) >= 2
  BY <1>1 DEF QuietPath
<1>3. \/ r[2] = "specVersion"
      \/ r[2] = "device" /\ Len(r) >= 3 /\ (r[3] = "iconList" \/ r[3] = "deviceList")
  BY <1>1 DEF QuietPath
<1>4. r # u
  <2>1. u[2] = "URLBase"
    BY <1>1
  <2>2. QED
    BY <1>3, <2>1
<1>5. v \in Seq(Names) /\ Len(v) = 2 /\ v[2] = "device"
  <2>1. Len(v) = 2 /\ v[2] = "device"
    BY <1>1 DEF DevicePath
  <2>2. QED
    BY <1>1, <2>1, ApartPaths DEF PathsApart
<1>6. l \in Seq(Names) /\ Len(l) = 4 /\ l[2] = "device" /\ l[3] = "serviceList"
  <2>1. PICK b : b = << "serviceList", "service" >>
    OBVIOUS
  <2>2. b \in Seq(Names) /\ Len(b) = 2 /\ b[1] = "serviceList"
    <3>1. "serviceList" \in Names /\ "service" \in Names
      BY DEF Names, DescriptionNames
    <3>2. QED
      BY <2>1, <3>1
  <2>3. IsBoth(v, b, l)
    BY <1>1, <2>1, Zenon DEF IsBoth, ServicePath
  <2>4. ASSUME NEW S, v \in Seq(S), b \in Seq(S) PROVE l \in Seq(S) /\ Joined(v, b, l) /\ Len(l) = Len(v) + Len(b)
    BY <2>3, <2>4, BothElements
  <2>5. QED
    BY <1>5, <2>2, <2>4 DEF Joined
<1>7. r # v /\ r # l
  BY <1>3, <1>5, <1>6
<1>8. PICK g : g = Front(r)
  OBVIOUS
<1>9. g = SubSeq(r, 1, Len(r) - 1)
  BY <1>8, Zenon DEF Front
<1>10. Len(g) = Len(r) - 1 /\ \A i \in 1 .. Len(r) - 1 : g[i] = r[i]
  BY <1>2, <1>9
<1>11. g # l
  <2>1. CASE Len(g) = 4
    BY <1>2, <1>3, <1>6, <1>10, <2>1
  <2>2. CASE Len(g) # 4
    BY <1>6, <2>2
  <2>3. QED
    BY <2>1, <2>2
<1>12. ~(g = v /\ Last(r) \in {"deviceType", "UDN", "friendlyName"})
  <2>1. CASE g = v
    <3>1. Len(r) = 3 /\ r[2] = "device"
      <4>1. Len(g) = 2 /\ g[2] = "device"
        BY <1>5, <2>1
      <4>2. Len(r) = 3
        <5>1. PICK m : m = Len(r)
          OBVIOUS
        <5>2. m \in Nat /\ 2 = m - 1
          BY <1>2, <1>10, <4>1, <5>1
        <5>3. m = 3
          BY <5>2
        <5>4. QED
          BY <5>1, <5>3, Zenon
      <4>3. QED
        BY <1>10, <4>1, <4>2
    <3>2. Last(r) = r[3]
      BY <3>1 DEF Last
    <3>3. QED
      BY <1>3, <3>1, <3>2
  <2>2. QED
    BY <2>1
<1>13. QED
  BY <1>1, <1>4, <1>7, <1>8, <1>11, <1>12, Zenon DEF client_parser_callback

(* Nor do several.                                                         *)
LEMMA QuietCalls ==
  ASSUME NEW S, NEW h \in Seq(S), \A i \in 1 .. Len(h) : QuietPath(h[i].path), NEW data
  PROVE  ParseAfter(data, h) = data
<1>1. PICK f : f = CHOOSE g : ParseTrace(data, h, g)
  OBVIOUS
<1>2. ParseTrace(data, h, f)
  BY <1>1, ParseTraceExists
<1>3. PICK n : n = Len(h)
  OBVIOUS
<1>4. n \in Nat /\ \A i \in 1 .. n : QuietPath(h[i].path)
  BY <1>3
<1>5. \A i \in 0 .. n : f[i] = IF i = 0 THEN data ELSE client_parser_callback(f[i - 1], h[i])
  <2>1. f = [i \in 0 .. n |-> IF i = 0 THEN data ELSE client_parser_callback(f[i - 1], h[i])]
    BY <1>2, <1>3, Zenon DEF ParseTrace
  <2>2. QED
    BY <2>1, Zenon
<1> DEFINE P == {k \in 0 .. n : f[k] = data}
<1>6. 0 \in P
  BY <1>4, <1>5
<1>7. ASSUME NEW k \in Nat, k < n, k \in P PROVE k + 1 \in P
  <2>1. k + 1 \in 1 .. n /\ k + 1 \in 0 .. n /\ k + 1 # 0 /\ (k + 1) - 1 = k /\ f[k] = data
    BY <1>4, <1>7
  <2>2. f[k + 1] = client_parser_callback(f[k], h[k + 1])
    BY <1>5, <2>1
  <2>3. QuietPath(h[k + 1].path)
    BY <1>4, <2>1
  <2>4. client_parser_callback(data, h[k + 1]) = data
    BY <2>3, QuietCall
  <2>5. QED
    BY <2>1, <2>2, <2>4
<1> HIDE DEF P
<1>8. n \in P
  <2>1. \A k \in 0 .. n : k \in P
    BY <1>4, <1>6, <1>7, UpTo
  <2>2. QED
    BY <1>4, <2>1
<1>9. QED
  BY <1>1, <1>3, <1>8 DEF P, ParseAfter

\* The attributes and the texts of a description.
Blank == {Null}
Words == STRING \cup {"icon", "indent", "http://"}
Wordings == Seq(Words) \cup Seq(Nat) \cup Seq(Devices)

\* What is known after reading elements under a path.
Reads(p, data, s, next) == Documents(Blank, Wordings, s) /\ ReadAt(Blank, Wordings, p, data, s) = next

(* The texts are those of a vocabulary.                                    *)
LEMMA TextsVocabulary == Vocabulary(Blank, Wordings) /\ Null \in Wordings /\ << 0 >> \in Wordings /\ << 1 >> \in Wordings /\ << "icon" >> \in Wordings
<1>1. Null \in Seq(Words) /\ << "icon" >> \in Seq(Words) /\ << "indent" >> \in Seq(Words)
  <2>1. PICK T : T = Words
    OBVIOUS
  <2>2. "icon" \in T /\ "indent" \in T
    BY <2>1 DEF Words
  <2>3. << >> \in Seq(T) /\ << "icon" >> \in Seq(T) /\ << "indent" >> \in Seq(T)
    BY <2>2
  <2>4. QED
    BY <2>1, <2>3, Zenon DEF Null
<1>2. << 0 >> \in Seq(Nat) /\ << 1 >> \in Seq(Nat)
  OBVIOUS
<1>3. QED
  BY <1>1, <1>2, Zenon DEF Vocabulary, Blank, Wordings, Indent

(* Elements under a quiet path are read without effect.                    *)
LEMMA QuietRead ==
  ASSUME NEW p, QuietPath(p), NEW s, Documents(Blank, Wordings, s), NEW data
  PROVE  Reads(p, data, s, data)
<1>1. PICK C, F, h, g : /\ C = CallbackSet(Blank, Wordings) /\ F = Prefixed(Blank, Wordings, p) /\ h = Heard(s)
                        /\ g = Placed(Blank, Wordings, p, h)
  OBVIOUS
<1>2. h \in Seq(C)
  BY <1>1, TextsVocabulary, DocumentsWhole
<1>3. p \in Seq(Names)
  BY DEF QuietPath
<1>4. g \in Seq(C) /\ Len(g) = Len(h)
  BY <1>1, <1>2, <1>3, PlacedBoth
<1>5. g = [i \in DOMAIN h |-> F[h[i]]]
  BY <1>1, Zenon DEF Placed, Mapped
<1>6. ASSUME NEW i \in 1 .. Len(g) PROVE QuietPath(g[i].path)
  <2>1. PICK c : c = h[i]
    OBVIOUS
  <2>2. c \in C /\ i \in DOMAIN h
    BY <1>2, <1>4, <2>1
  <2>3. g[i] = F[c]
    BY <1>5, <2>1, <2>2
  <2>4. F[c] = Moved(p, c)
    BY <1>1, <2>2, PrefixedIs
  <2>5. PICK q, r : q = c.path /\ r = p \o q
    OBVIOUS
  <2>6. q \in Seq(Names)
    BY <1>1, <2>2, <2>5 DEF CallbackSet
  <2>7. g[i].path = r
    BY <2>3, <2>4, <2>5 DEF Moved
  <2>8. IsBoth(p, q, r)
    BY <2>5, Zenon DEF IsBoth
  <2>9. r \in Seq(Names) /\ Joined(p, q, r) /\ Len(r) = Len(p) + Len(q) /\ Len(p) \in Nat /\ Len(q) \in Nat
    BY <1>3, <2>6, <2>8, BothElements
  <2>10. QuietPath(r)
    <3>1. \A j \in 1 .. Len(p) : r[j] = p[j]
      BY <2>9 DEF Joined
    <3>2. QED
      BY <2>9, <3>1 DEF QuietPath
  <2>11. QED
    BY <2>7, <2>10
<1>7. ParseAfter(data, g) = data
  BY <1>4, <1>6, QuietCalls
<1>8. QED
  BY <1>1, <1>7, Zenon DEF Reads, ReadAt

ReadsBoth(p, data, s, t, next) == Reads(p, data, s \o t, next)

(* Elements are read one after the other.                                  *)
LEMMA ReadsInTurn ==
  ASSUME NEW p \in Seq(Names), NEW data, NEW s, NEW middle, NEW t, NEW next, Reads(p, data, s, middle), Reads(p, middle, t, next)
  PROVE  ReadsBoth(p, data, s, t, next)
<1>1. Documents(Blank, Wordings, s) /\ Documents(Blank, Wordings, t)
  BY Zenon DEF Reads
<1>2. ReadAtApart(Blank, Wordings, p, data, s, t)
  BY <1>1, TextsVocabulary, ReadAtBoth
<1>3. Documents(Blank, Wordings, s \o t)
  BY <1>1, DocumentsBoth
<1>4. ReadAt(Blank, Wordings, p, data, s) = middle /\ ReadAt(Blank, Wordings, p, middle, t) = next
  BY Zenon DEF Reads
<1>5. ReadAt(Blank, Wordings, p, data, s \o t) = next
  BY <1>2, <1>4, Zenon DEF ReadAtApart
<1>6. QED
  BY <1>3, <1>5, Zenon DEF Reads, ReadsBoth

\* One element is read.
ReadsOneLeaf(p, data, name, text, next) == Reads(p, data, << Leaf(name, text) >>, next)
ReadsOneNode(p, data, name, s, next) == Reads(p, data, << Node(name, s) >>, next)

(* An element without children is read as one call.                        *)
LEMMA LeafIsRead ==
  ASSUME NEW p \in Seq(Names), NEW data, NEW name \in Names, NEW text \in Wordings, NEW next,
         next = client_parser_callback(data, CallAt(p, name, text))
  PROVE  ReadsOneLeaf(p, data, name, text, next)
<1>1. ReadsLeaf(Blank, Wordings, p, data, name, text)
  BY TextsVocabulary, LeafReadAt
<1>2. QED
  BY <1>1, Zenon DEF ReadsLeaf, ReadsOneLeaf, Reads

\* The call of an element, whatever its text.
Opens(p, data, name, next) == \A v \in Wordings : client_parser_callback(data, CallAt(p, name, v)) = next

(* An element with children is read as one call, whose value does not      *)
(* matter, and then they are.                                              *)
LEMMA ElementIsRead ==
  ASSUME NEW p \in Seq(Names), NEW data, NEW name \in Names, NEW middle, NEW s, NEW next,
         Opens(p, data, name, middle),
         Reads(Below(p, name), middle, s, next)
  PROVE  ReadsOneNode(p, data, name, s, next)
<1>1. Documents(Blank, Wordings, s)
  BY Zenon DEF Reads
<1>2. ReadsNode(Blank, Wordings, p, data, name, s)
  BY <1>1, TextsVocabulary, NodeReadAt
<1>3. ReadAt(Blank, Wordings, Below(p, name), middle, s) = next
  BY Zenon DEF Reads
<1>4. PICK v \in Wordings : ReadAt(Blank, Wordings, p, data, << Node(name, s) >>)
                           = ReadAt(Blank, Wordings, Below(p, name), client_parser_callback(data, CallAt(p, name, v)), s)
  BY <1>2, Zenon DEF ReadsNode
<1>5. client_parser_callback(data, CallAt(p, name, v)) = middle
  BY Zenon DEF Opens
<1>6. QED
  BY <1>2, <1>3, <1>4, <1>5, Zenon DEF ReadsNode, ReadsOneNode, Reads

(* An element under a quiet path, with all that is in it.                  *)
LEMMA QuietNode ==
  ASSUME NEW p \in Seq(Names), NEW data, NEW name \in Names, Dismissed(p, name), QuietPath(Below(p, name)),
         NEW s, Documents(Blank, Wordings, s)
  PROVE  ReadsOneNode(p, data, name, s, data)
<1>1. Reads(Below(p, name), data, s, data)
  BY QuietRead
<1>2. Opens(p, data, name, data)
  BY DismissedCall DEF Opens
<1>3. QED
  BY <1>1, <1>2, ElementIsRead

-----------------------------------------------------------------------------
(* Elements, one after the other.                                          *)

\* One element is read, and several.
ReadsElement(p, data, a, next) == Reads(p, data, << a >>, next)
ReadsTwo(p, data, a, b, next) == Reads(p, data, << a, b >>, next)
ReadsThree(p, data, a, b, c, next) == Reads(p, data, << a, b, c >>, next)
ReadsFour(p, data, a, b, c, d, next) == Reads(p, data, << a, b, c, d >>, next)
ReadsFive(p, data, a, b, c, d, e, next) == Reads(p, data, << a, b, c, d, e >>, next)
ReadsSix(p, data, a, b, c, d, e, f, next) == Reads(p, data, << a, b, c, d, e, f >>, next)

\* The first of several elements.
IsFirst(a, s, t) == t = << a >> \o s

Follows(a, s, t) == Len(t) = Len(s) + 1 /\ t[1] = a /\ \A i \in 1 .. Len(s) : t[1 + i] = s[i]

(* The sequence of an element and others.                                  *)
LEMMA FirstIs ==
  ASSUME NEW T, NEW a \in T, NEW s \in Seq(T), NEW t \in Seq(T), Follows(a, s, t)
  PROVE  IsFirst(a, s, t)
<1>1. PICK u : u = << a >>
  OBVIOUS
<1>2. u \in Seq(T) /\ Len(u) = 1 /\ u[1] = a /\ Len(s) \in Nat
  BY <1>1
<1>3. Joined(u, s, t)
  BY <1>2 DEF Joined, Follows
<1>4. t = u \o s
  BY <1>2, <1>3, IsConcat
<1>5. QED
  BY <1>1, <1>4, Zenon DEF IsFirst

(* The first element is read, and then the others.                         *)
LEMMA FirstIsRead ==
  ASSUME NEW p \in Seq(Names), NEW data, NEW a, NEW middle, ReadsElement(p, data, a, middle),
         NEW s, NEW next, Reads(p, middle, s, next), NEW t, IsFirst(a, s, t)
  PROVE  Reads(p, data, t, next)
<1>1. PICK u : u = << a >>
  OBVIOUS
<1>2. Reads(p, data, u, middle)
  BY <1>1, Zenon DEF ReadsElement
<1>3. ReadsBoth(p, data, u, s, next)
  BY <1>2, ReadsInTurn
<1>4. QED
  BY <1>1, <1>3, Zenon DEF ReadsBoth, IsFirst

(* Several elements are read in turn.                                      *)
LEMMA TwoAreRead ==
  ASSUME NEW p \in Seq(Names), NEW data, NEW a, NEW b, NEW middle, ReadsElement(p, data, a, middle), NEW next, ReadsElement(p, middle, b, next)
  PROVE  ReadsTwo(p, data, a, b, next)
<1>1. PICK T, s, t : T = {a, b} /\ s = << b >> /\ t = << a, b >>
  OBVIOUS
<1>2. a \in T /\ s \in Seq(T) /\ t \in Seq(T) /\ Len(s) = 1 /\ Len(t) = 2 /\ t[1] = a /\ t[2] = b /\ s[1] = b
  BY <1>1
<1>3. Follows(a, s, t)
  BY <1>2 DEF Follows
<1>4. IsFirst(a, s, t)
  BY <1>2, <1>3, FirstIs
<1>5. Reads(p, middle, s, next)
  BY <1>1, Zenon DEF ReadsElement
<1>6. Reads(p, data, t, next)
  BY <1>4, <1>5, FirstIsRead
<1>7. QED
  BY <1>1, <1>6, Zenon DEF ReadsTwo

(* The same of three.                                                        *)
LEMMA ThreeAreRead ==
  ASSUME NEW p \in Seq(Names), NEW data, NEW a, NEW b, NEW c, NEW middle, ReadsElement(p, data, a, middle),
         NEW next, ReadsTwo(p, middle, b, c, next)
  PROVE  ReadsThree(p, data, a, b, c, next)
<1>1. PICK T, s, t : T = {a, b, c} /\ s = << b, c >> /\ t = << a, b, c >>
  OBVIOUS
<1>2. /\ a \in T /\ s \in Seq(T) /\ t \in Seq(T) /\ Len(s) = 2 /\ Len(t) = 3
      /\ t[1] = a /\ t[2] = s[1] /\ t[3] = s[2]
  BY <1>1
<1>3. Follows(a, s, t)
  BY <1>2 DEF Follows
<1>4. IsFirst(a, s, t)
  BY <1>2, <1>3, FirstIs
<1>5. Reads(p, middle, s, next)
  BY <1>1, Zenon DEF ReadsTwo
<1>6. Reads(p, data, t, next)
  BY <1>4, <1>5, FirstIsRead
<1>7. QED
  BY <1>1, <1>6, Zenon DEF ReadsThree

(* The same of four.                                                         *)
LEMMA FourAreRead ==
  ASSUME NEW p \in Seq(Names), NEW data, NEW a, NEW b, NEW c, NEW d, NEW middle, ReadsElement(p, data, a, middle),
         NEW next, ReadsThree(p, middle, b, c, d, next)
  PROVE  ReadsFour(p, data, a, b, c, d, next)
<1>1. PICK T, s, t : T = {a, b, c, d} /\ s = << b, c, d >> /\ t = << a, b, c, d >>
  OBVIOUS
<1>2. /\ a \in T /\ s \in Seq(T) /\ t \in Seq(T) /\ Len(s) = 3 /\ Len(t) = 4
      /\ t[1] = a /\ t[2] = s[1] /\ t[3] = s[2] /\ t[4] = s[3]
  BY <1>1
<1>3. Follows(a, s, t)
  BY <1>2 DEF Follows
<1>4. IsFirst(a, s, t)
  BY <1>2, <1>3, FirstIs
<1>5. Reads(p, middle, s, next)
  BY <1>1, Zenon DEF ReadsThree
<1>6. Reads(p, data, t, next)
  BY <1>4, <1>5, FirstIsRead
<1>7. QED
  BY <1>1, <1>6, Zenon DEF ReadsFour

(* The same of five.                                                         *)
LEMMA FiveAreRead ==
  ASSUME NEW p \in Seq(Names), NEW data, NEW a, NEW b, NEW c, NEW d, NEW e, NEW middle, ReadsElement(p, data, a, middle),
         NEW next, ReadsFour(p, middle, b, c, d, e, next)
  PROVE  ReadsFive(p, data, a, b, c, d, e, next)
<1>1. PICK T, s, t : T = {a, b, c, d, e} /\ s = << b, c, d, e >> /\ t = << a, b, c, d, e >>
  OBVIOUS
<1>2. /\ a \in T /\ s \in Seq(T) /\ t \in Seq(T) /\ Len(s) = 4 /\ Len(t) = 5
      /\ t[1] = a /\ t[2] = s[1] /\ t[3] = s[2] /\ t[4] = s[3] /\ t[5] = s[4]
  BY <1>1
<1>3. Follows(a, s, t)
  BY <1>2 DEF Follows
<1>4. IsFirst(a, s, t)
  BY <1>2, <1>3, FirstIs
<1>5. Reads(p, middle, s, next)
  BY <1>1, Zenon DEF ReadsFour
<1>6. Reads(p, data, t, next)
  BY <1>4, <1>5, FirstIsRead
<1>7. QED
  BY <1>1, <1>6, Zenon DEF ReadsFive

(* The same of six.                                                          *)
LEMMA SixAreRead ==
  ASSUME NEW p \in Seq(Names), NEW data, NEW a, NEW b, NEW c, NEW d, NEW e, NEW f, NEW middle, ReadsElement(p, data, a, middle),
         NEW next, ReadsFive(p, middle, b, c, d, e, f, next)
  PROVE  ReadsSix(p, data, a, b, c, d, e, f, next)
<1>1. PICK T, s, t : T = {a, b, c, d, e, f} /\ s = << b, c, d, e, f >> /\ t = << a, b, c, d, e, f >>
  OBVIOUS
<1>2. /\ a \in T /\ s \in Seq(T) /\ t \in Seq(T) /\ Len(s) = 5 /\ Len(t) = 6
      /\ t[1] = a /\ t[2] = s[1] /\ t[3] = s[2] /\ t[4] = s[3] /\ t[5] = s[4] /\ t[6] = s[5]
  BY <1>1
<1>3. Follows(a, s, t)
  BY <1>2 DEF Follows
<1>4. IsFirst(a, s, t)
  BY <1>2, <1>3, FirstIs
<1>5. Reads(p, middle, s, next)
  BY <1>1, Zenon DEF ReadsFive
<1>6. Reads(p, data, t, next)
  BY <1>4, <1>5, FirstIsRead
<1>7. QED
  BY <1>1, <1>6, Zenon DEF ReadsSix

-----------------------------------------------------------------------------
(* A service.                                                              *)

(* Nothing is read of no elements.                                         *)
LEMMA NothingIsRead == ASSUME NEW p \in Seq(Names), NEW data PROVE Reads(p, data, << >>, data)
<1>1. PICK s, C, F : s = << >> /\ C = CallbackSet(Blank, Wordings) /\ F = Prefixed(Blank, Wordings, p)
  OBVIOUS
<1>2. s \in Seq(Seq(Tags(Blank, Wordings))) /\ DOMAIN s = {}
  BY <1>1
<1>3. Documents(Blank, Wordings, s)
  BY <1>2 DEF Documents, AllWhole
<1>4. FlattenSeq(s) = << >>
  BY <1>1, Zenon, EmptySeq DEF FlattenSeq
<1>5. Heard(s) = s
  BY <1>1, <1>4, NoneHeard, Zenon DEF Heard
<1>6. s \in Seq(C)
  BY <1>1
<1>7. PICK g : g = Placed(Blank, Wordings, p, s)
  OBVIOUS
<1>8. g \in Seq(C) /\ Len(g) = Len(s)
  BY <1>1, <1>6, <1>7, PlacedBoth
<1>9. \A i \in 1 .. Len(g) : QuietPath(g[i].path)
  BY <1>1, <1>8
<1>10. ParseAfter(data, g) = data
  BY <1>8, <1>9, QuietCalls
<1>11. QED
  BY <1>1, <1>3, <1>5, <1>7, <1>10, Zenon DEF Reads, ReadAt

\* What is read of a service.
Noting(id, type, scpd, control, event) ==
  [serviceId |-> id, serviceType |-> type, SCPDURL |-> scpd, controlURL |-> control, eventSubURL |-> event]
Taken(service) == Noting(service.id, service.type, service.scpd, service.control, service.event)

(* The texts of a service are texts of a description.                      *)
LEMMA ServiceTexts ==
  ASSUME NEW service \in ServiceData
  PROVE  /\ service.id \in Wordings /\ service.type \in Wordings /\ service.scpd \in Wordings
         /\ service.control \in Wordings /\ service.event \in Wordings
         /\ service.id # Null /\ service.type # Null /\ service.control # Null
<1>1. PICK W : W = Words
  OBVIOUS
<1>2. STRING \subseteq W
  BY <1>1 DEF Words
<1>3. ASSUME NEW s \in Seq(STRING) PROVE s \in Seq(W)
  <2>1. Len(s) \in Nat /\ s \in [1 .. Len(s) -> STRING]
    BY LenProperties
  <2>2. s \in [1 .. Len(s) -> W]
    BY <1>2, <2>1
  <2>3. QED
    BY <2>1, <2>2, FunctionIsSequence
<1>4. Seq(STRING) \subseteq Wordings
  BY <1>1, <1>3 DEF Wordings
<1>5. /\ service.id \in Text /\ service.type \in Text /\ service.scpd \in Seq(STRING)
      /\ service.control \in Text /\ service.event \in Seq(STRING)
  BY DEF ServiceData
<1>6. QED
  BY <1>4, <1>5 DEF Text

\* A leaf of a service is read.
FieldRead(base, type, udn, name, services, r, field, text, n) ==
  ReadsElement(ServicePath, State(base, type, udn, name, Longer(services, r)), Leaf(field, text),
               State(base, type, udn, name, Longer(services, n)))

(* An element of a service is read.                                        *)
LEMMA FieldIsRead ==
  ASSUME NEW base, NEW type, NEW udn, NEW name, NEW services, IsSeq(services), NEW r,
         NEW field \in DOMAIN NewService, NEW text \in Wordings, NEW n, n = [r EXCEPT ![field] = text]
  PROVE  FieldRead(base, type, udn, name, services, r, field, text, n)
<1>1. PICK k, m : k = State(base, type, udn, name, Longer(services, r)) /\ m = State(base, type, udn, name, Longer(services, n))
  OBVIOUS
<1>2. FieldNoted(base, type, udn, name, services, r, field, text)
  BY CallOfField
<1>3. m = client_parser_callback(k, CallAt(ServicePath, field, text))
  BY <1>1, <1>2, Zenon DEF FieldNoted
<1>4. ServicePath \in Seq(Names) /\ field \in Names
  <2>1. field \in Names
    BY DEF Names, DescriptionNames, NewService
  <2>2. QED
    BY <2>1, ApartPaths DEF PathsApart
<1>5. ReadsOneLeaf(ServicePath, k, field, text, m)
  BY <1>3, <1>4, LeafIsRead
<1>6. QED
  BY <1>1, <1>5, Zenon DEF FieldRead, ReadsOneLeaf, ReadsElement

ServiceRead(base, type, udn, name, services, service) ==
  ReadsElement(ListPath, State(base, type, udn, name, services), ServiceText(service),
               State(base, type, udn, name, Longer(services, Taken(service))))

(* A service is read.                                                      *)
LEMMA ServiceIsRead ==
  ASSUME NEW base, NEW type, NEW udn, NEW name, NEW services, IsSeq(services), NEW service \in ServiceData
  PROVE  ServiceRead(base, type, udn, name, services, service)
<1>1. PICK i, t, s, c, e : i = service.id /\ t = service.type /\ s = service.scpd /\ c = service.control /\ e = service.event
  OBVIOUS
<1>2. i \in Wordings /\ t \in Wordings /\ s \in Wordings /\ c \in Wordings /\ e \in Wordings
  BY <1>1, ServiceTexts
<1>3. PICK r0, r1, r2, r3, r4, r5 :
        /\ r0 = Noting(Null, Null, Null, Null, Null) /\ r1 = Noting(i, Null, Null, Null, Null)
        /\ r2 = Noting(i, t, Null, Null, Null) /\ r3 = Noting(i, t, s, Null, Null)
        /\ r4 = Noting(i, t, s, c, Null) /\ r5 = Noting(i, t, s, c, e)
  OBVIOUS
<1>4. /\ r1 = [r0 EXCEPT !["serviceId"] = i] /\ r2 = [r1 EXCEPT !["serviceType"] = t] /\ r3 = [r2 EXCEPT !["SCPDURL"] = s]
      /\ r4 = [r3 EXCEPT !["controlURL"] = c] /\ r5 = [r4 EXCEPT !["eventSubURL"] = e]
  <2>1. r1 = [r0 EXCEPT !["serviceId"] = i]
    BY <1>3 DEF Noting
  <2>2. r2 = [r1 EXCEPT !["serviceType"] = t]
    BY <1>3 DEF Noting
  <2>3. r3 = [r2 EXCEPT !["SCPDURL"] = s]
    BY <1>3 DEF Noting
  <2>4. r4 = [r3 EXCEPT !["controlURL"] = c]
    BY <1>3 DEF Noting
  <2>5. r5 = [r4 EXCEPT !["eventSubURL"] = e]
    BY <1>3 DEF Noting
  <2>6. QED
    BY <2>1, <2>2, <2>3, <2>4, <2>5
<1>5. /\ "serviceId" \in DOMAIN NewService /\ "serviceType" \in DOMAIN NewService /\ "SCPDURL" \in DOMAIN NewService
      /\ "controlURL" \in DOMAIN NewService /\ "eventSubURL" \in DOMAIN NewService
  BY DEF NewService
<1>6. PICK k, k0, k1, k2, k3, k4, k5 :
        /\ k = State(base, type, udn, name, services)
        /\ k0 = State(base, type, udn, name, Longer(services, r0)) /\ k1 = State(base, type, udn, name, Longer(services, r1))
        /\ k2 = State(base, type, udn, name, Longer(services, r2)) /\ k3 = State(base, type, udn, name, Longer(services, r3))
        /\ k4 = State(base, type, udn, name, Longer(services, r4)) /\ k5 = State(base, type, udn, name, Longer(services, r5))
  OBVIOUS
<1>7. PICK l1, l2, l3, l4, l5 : /\ l1 = Leaf("serviceId", i) /\ l2 = Leaf("serviceType", t) /\ l3 = Leaf("SCPDURL", s)
                                /\ l4 = Leaf("controlURL", c) /\ l5 = Leaf("eventSubURL", e)
  OBVIOUS
<1>8. ReadsElement(ServicePath, k0, l1, k1)
  <2>1. FieldRead(base, type, udn, name, services, r0, "serviceId", i, r1)
    BY <1>2, <1>4, <1>5, FieldIsRead
  <2>2. QED
    BY <1>6, <1>7, <2>1, Zenon DEF FieldRead
<1>9. ReadsElement(ServicePath, k1, l2, k2)
  <2>1. FieldRead(base, type, udn, name, services, r1, "serviceType", t, r2)
    BY <1>2, <1>4, <1>5, FieldIsRead
  <2>2. QED
    BY <1>6, <1>7, <2>1, Zenon DEF FieldRead
<1>10. ReadsElement(ServicePath, k2, l3, k3)
  <2>1. FieldRead(base, type, udn, name, services, r2, "SCPDURL", s, r3)
    BY <1>2, <1>4, <1>5, FieldIsRead
  <2>2. QED
    BY <1>6, <1>7, <2>1, Zenon DEF FieldRead
<1>11. ReadsElement(ServicePath, k3, l4, k4)
  <2>1. FieldRead(base, type, udn, name, services, r3, "controlURL", c, r4)
    BY <1>2, <1>4, <1>5, FieldIsRead
  <2>2. QED
    BY <1>6, <1>7, <2>1, Zenon DEF FieldRead
<1>12. ReadsElement(ServicePath, k4, l5, k5)
  <2>1. FieldRead(base, type, udn, name, services, r4, "eventSubURL", e, r5)
    BY <1>2, <1>4, <1>5, FieldIsRead
  <2>2. QED
    BY <1>6, <1>7, <2>1, Zenon DEF FieldRead
<1>13. ServicePath \in Seq(Names) /\ ListPath \in Seq(Names) /\ "service" \in Names
  <2>1. "service" \in Names
    BY DEF Names, DescriptionNames
  <2>2. QED
    BY <2>1, ApartPaths DEF PathsApart
<1>14. ReadsTwo(ServicePath, k3, l4, l5, k5)
  BY <1>11, <1>12, <1>13, TwoAreRead
<1>15. ReadsThree(ServicePath, k2, l3, l4, l5, k5)
  BY <1>10, <1>13, <1>14, ThreeAreRead
<1>16. ReadsFour(ServicePath, k1, l2, l3, l4, l5, k5)
  BY <1>9, <1>13, <1>15, FourAreRead
<1>17. ReadsFive(ServicePath, k0, l1, l2, l3, l4, l5, k5)
  BY <1>8, <1>13, <1>16, FiveAreRead
<1>18. PICK children : children = << l1, l2, l3, l4, l5 >>
  OBVIOUS
<1>19. Below(ListPath, "service") = ServicePath
  <2>1. PathsTold(ListPath, "service")
    BY <1>13, PathTold
  <2>2. QED
    BY <2>1, Zenon DEF PathsTold
<1>20. Reads(Below(ListPath, "service"), k0, children, k5)
  BY <1>17, <1>18, <1>19, Zenon DEF ReadsFive
<1>21. Opens(ListPath, k, "service", k0)
  <2>1. r0 = NewService
    BY <1>3, Zenon DEF Noting, NewService
  <2>2. \A v \in Wordings : client_parser_callback(k, CallAt(ListPath, "service", v)) = k0
    BY <1>6, <2>1, CallOfService
  <2>3. QED
    BY <2>2, Zenon DEF Opens
<1>22. ReadsOneNode(ListPath, k, "service", children, k5)
  BY <1>13, <1>20, <1>21, ElementIsRead
<1>23. ServiceText(service) = Node("service", children)
  BY <1>1, <1>7, <1>18, Zenon DEF ServiceText
<1>24. r5 = Taken(service)
  BY <1>1, <1>3, Zenon DEF Taken
<1>25. QED
  BY <1>6, <1>22, <1>23, <1>24, Zenon DEF ReadsOneNode, ReadsElement, ServiceRead

-----------------------------------------------------------------------------
(* Its services.                                                           *)

\* Elements of which each takes what is known one step further.
StepByStep(p, f, s) == \A i \in 1 .. Len(s) : ReadsElement(p, f[i - 1], s[i], f[i])

(* They are read in turn.                                                  *)
LEMMA AllAreRead ==
  ASSUME NEW p \in Seq(Names), NEW T, NEW s \in Seq(T), NEW f, StepByStep(p, f, s)
  PROVE  Reads(p, f[0], s, f[Len(s)])
<1>1. PICK n : n = Len(s)
  OBVIOUS
<1>2. n \in Nat /\ \A i \in 1 .. n : s[i] \in T
  BY <1>1
<1> DEFINE P == {k \in 0 .. n : Reads(p, f[0], SubSeq(s, 1, k), f[k])}
<1>3. 0 \in P
  <2>1. SubSeq(s, 1, 0) = << >>
    OBVIOUS
  <2>2. Reads(p, f[0], << >>, f[0])
    BY NothingIsRead
  <2>3. 0 \in 0 .. n
    BY <1>2
  <2>4. QED
    BY <2>1, <2>2, <2>3
<1>4. ASSUME NEW k \in Nat, k < n, k \in P PROVE k + 1 \in P
  <2>1. PICK u, x, v : u = SubSeq(s, 1, k) /\ x = s[k + 1] /\ v = SubSeq(s, 1, k + 1)
    OBVIOUS
  <2>2. k + 1 \in 1 .. n /\ k + 1 \in 0 .. n /\ (k + 1) - 1 = k
    BY <1>2, <1>4
  <2>3. u \in Seq(T) /\ x \in T /\ v = Append(u, x)
    BY <1>1, <1>2, <1>4, <2>1, <2>2
  <2>4. PICK w : w = << x >>
    OBVIOUS
  <2>5. w \in Seq(T) /\ u \o w = v
    <3>1. w \in Seq(T) /\ Len(w) = 1 /\ w[1] = x
      BY <2>3, <2>4
    <3>2. v \in Seq(T) /\ Len(u) \in Nat /\ Len(v) = Len(u) + 1 /\ v[Len(u) + 1] = x /\ \A i \in 1 .. Len(u) : v[i] = u[i]
      BY <2>3
    <3>3. Joined(u, w, v)
      BY <3>1, <3>2 DEF Joined
    <3>4. QED
      BY <2>3, <3>1, <3>2, <3>3, IsConcat
  <2>6. PICK a, b, c : a = f[0] /\ b = f[k] /\ c = f[k + 1]
    OBVIOUS
  <2>7. Reads(p, a, u, b)
    BY <1>4, <2>1, <2>6
  <2>8. Reads(p, b, w, c)
    <3>1. ReadsElement(p, b, x, c)
      BY <1>1, <2>1, <2>2, <2>6 DEF StepByStep
    <3>2. QED
      BY <2>4, <3>1, Zenon DEF ReadsElement
  <2>9. ReadsBoth(p, a, u, w, c)
    BY <2>7, <2>8, ReadsInTurn
  <2>10. Reads(p, a, v, c)
    BY <2>5, <2>9, Zenon DEF ReadsBoth
  <2>11. QED
    BY <2>1, <2>2, <2>6, <2>10
<1> HIDE DEF P
<1>5. n \in P
  <2>1. \A k \in 0 .. n : k \in P
    BY <1>2, <1>3, <1>4, UpTo
  <2>2. QED
    BY <1>2, <2>1
<1>6. SubSeq(s, 1, n) = s
  BY <1>1
<1>7. QED
  BY <1>1, <1>5, <1>6 DEF P

ServicesText(services) == [i \in DOMAIN services |-> ServiceText(services[i])]
AllTaken(services) == [i \in DOMAIN services |-> Taken(services[i])]

ServicesRead(base, type, udn, name, services) ==
  Reads(ListPath, State(base, type, udn, name, << >>), ServicesText(services), State(base, type, udn, name, AllTaken(services)))

(* The services of a device are read.                                      *)
LEMMA ServicesAreRead ==
  ASSUME NEW base, NEW type, NEW udn, NEW name, NEW services \in Seq(ServiceData)
  PROVE  ServicesRead(base, type, udn, name, services)
<1>1. PICK n, t, r, T, R : /\ n = Len(services) /\ t = ServicesText(services) /\ r = AllTaken(services)
                           /\ T = {ServiceText(services[i]) : i \in 1 .. Len(services)}
                           /\ R = {Taken(services[i]) : i \in 1 .. Len(services)}
  OBVIOUS
<1>2. n \in Nat /\ DOMAIN services = 1 .. n /\ \A i \in 1 .. n : services[i] \in ServiceData
  BY <1>1
<1>3. t \in Seq(T) /\ Len(t) = n /\ \A i \in 1 .. n : t[i] = ServiceText(services[i])
  <2>1. t = [i \in 1 .. n |-> ServiceText(services[i])]
    BY <1>1, <1>2, Zenon DEF ServicesText
  <2>2. t \in [1 .. n -> T]
    BY <1>1, <2>1
  <2>3. t \in Seq(T) /\ Len(t) = n
    BY <1>2, <2>2, FunctionIsSequence
  <2>4. QED
    BY <2>1, <2>3
<1>4. r \in Seq(R) /\ Len(r) = n /\ \A i \in 1 .. n : r[i] = Taken(services[i])
  <2>1. r = [i \in 1 .. n |-> Taken(services[i])]
    BY <1>1, <1>2, Zenon DEF AllTaken
  <2>2. r \in [1 .. n -> R]
    BY <1>1, <2>1
  <2>3. r \in Seq(R) /\ Len(r) = n
    BY <1>2, <2>2, FunctionIsSequence
  <2>4. QED
    BY <2>1, <2>3
<1>5. PICK f : f = [k \in 0 .. n |-> State(base, type, udn, name, SubSeq(r, 1, k))]
  OBVIOUS
<1>6. ASSUME NEW i \in 1 .. n PROVE ReadsElement(ListPath, f[i - 1], t[i], f[i])
  <2>1. i - 1 \in 0 .. n /\ i \in 0 .. n /\ i - 1 \in Nat /\ i - 1 < n /\ (i - 1) + 1 = i
    BY <1>2
  <2>2. PICK k, u, x, v : k = i - 1 /\ u = SubSeq(r, 1, k) /\ x = r[i] /\ v = SubSeq(r, 1, i)
    OBVIOUS
  <2>3. u \in Seq(R) /\ x \in R /\ v = Append(u, x)
    BY <1>2, <1>4, <2>1, <2>2
  <2>4. f[i - 1] = State(base, type, udn, name, u) /\ f[i] = State(base, type, udn, name, v)
    BY <1>5, <2>1, <2>2, Zenon
  <2>5. services[i] \in ServiceData /\ x = Taken(services[i]) /\ t[i] = ServiceText(services[i])
    BY <1>2, <1>3, <1>4, <2>2
  <2>6. IsSeq(u)
    BY <2>3 DEF IsSeq
  <2>7. ServiceRead(base, type, udn, name, u, services[i])
    BY <2>5, <2>6, ServiceIsRead
  <2>8. v = Longer(u, x)
    BY <2>3, Zenon DEF Longer
  <2>9. QED
    BY <2>4, <2>5, <2>7, <2>8, Zenon DEF ServiceRead
<1>7. StepByStep(ListPath, f, t)
  BY <1>3, <1>6 DEF StepByStep
<1>8. Reads(ListPath, f[0], t, f[n])
  <2>1. ListPath \in Seq(Names)
    BY ApartPaths DEF PathsApart
  <2>2. QED
    BY <1>3, <1>7, <2>1, AllAreRead
<1>9. f[0] = State(base, type, udn, name, << >>) /\ f[n] = State(base, type, udn, name, r)
  <2>1. SubSeq(r, 1, 0) = << >> /\ SubSeq(r, 1, n) = r
    BY <1>4
  <2>2. 0 \in 0 .. n /\ n \in 0 .. n
    BY <1>2
  <2>3. f[0] = State(base, type, udn, name, SubSeq(r, 1, 0)) /\ f[n] = State(base, type, udn, name, SubSeq(r, 1, n))
    BY <1>5, <2>2, Zenon
  <2>4. QED
    BY <2>1, <2>3, Zenon
<1>10. QED
  BY <1>1, <1>8, <1>9, Zenon DEF ServicesRead

-----------------------------------------------------------------------------

(* Some elements are looked for nowhere.                                   *)
LEMMA NeverSought ==
  ASSUME NEW name \in {"root", "specVersion", "major", "minor", "presentationURL", "iconList", "icon", "url", "serviceList", "deviceList"}
  PROVE  name \in Names /\ \A p : Dismissed(p, name)
<1>1. name \in Names
  BY DEF Names, DescriptionNames
<1>2. name \notin {"URLBase", "device"} /\ name # "service" /\ name \notin {"deviceType", "UDN", "friendlyName"}
  OBVIOUS
<1>3. name \notin DOMAIN NewService
  BY DEF NewService
<1>4. QED
  BY <1>1, <1>2, <1>3, Zenon DEF Dismissed

\* A path with one element more.
IsBelow(p, name, r) == /\ r \in Seq(Names) /\ Len(p) \in Nat /\ Len(r) = Len(p) + 1 /\ r[Len(p) + 1] = name
                       /\ \A i \in 1 .. Len(p) : r[i] = p[i]

(* Some paths are quiet.                                                   *)
LEMMA QuietPaths ==
  /\ QuietPath(Below(RootPath, "specVersion"))
  /\ QuietPath(Below(DevicePath, "iconList")) /\ QuietPath(Below(DevicePath, "deviceList"))
  /\ \A p : \A name \in Names : QuietPath(p) => QuietPath(Below(p, name))
<1>1. RootPath \in Seq(Names) /\ DevicePath \in Seq(Names)
  BY ApartPaths DEF PathsApart
<1>2. "specVersion" \in Names /\ "iconList" \in Names /\ "deviceList" \in Names
  BY DEF Names, DescriptionNames
<1>3. ASSUME NEW p \in Seq(Names), NEW name \in Names PROVE IsBelow(p, name, Below(p, name))
  <2>1. PICK w, r : w = << name >> /\ r = Below(p, name)
    OBVIOUS
  <2>2. IsBoth(p, w, r) /\ w \in Seq(Names) /\ Len(w) = 1 /\ w[1] = name
    <3>1. IsBoth(p, w, r)
      BY <1>3, <2>1, Zenon DEF IsBoth, Below
    <3>2. QED
      BY <2>1, <3>1
  <2>3. r \in Seq(Names) /\ Joined(p, w, r) /\ Len(p) \in Nat /\ Len(r) = Len(p) + Len(w)
    BY <2>2, BothElements
  <2>4. IsBelow(p, name, r)
    BY <2>2, <2>3 DEF Joined, IsBelow
  <2>5. QED
    BY <2>1, <2>4
<1>4. QuietPath(Below(RootPath, "specVersion"))
  <2>1. PICK p, r : p = RootPath /\ r = Below(p, "specVersion")
    OBVIOUS
  <2>2. Len(p) = 1 /\ p \in Seq(Names)
    BY <1>1, <2>1 DEF RootPath
  <2>3. r \in Seq(Names) /\ Len(r) = 2 /\ r[2] = "specVersion"
    <3>1. r \in Seq(Names) /\ Len(r) = Len(p) + 1 /\ r[Len(p) + 1] = "specVersion"
      BY <1>2, <1>3, <2>1, <2>2 DEF IsBelow
    <3>2. QED
      BY <2>2, <3>1
  <2>4. QuietPath(r)
    BY <2>3 DEF QuietPath
  <2>5. QED
    BY <2>1, <2>4
<1>5. ASSUME NEW name \in {"iconList", "deviceList"} PROVE QuietPath(Below(DevicePath, name))
  <2>1. PICK p, r : p = DevicePath /\ r = Below(p, name)
    OBVIOUS
  <2>2. Len(p) = 2 /\ p[2] = "device" /\ p \in Seq(Names)
    <3>1. Len(p) = 2 /\ p[2] = "device"
      BY <2>1 DEF DevicePath
    <3>2. QED
      BY <1>1, <2>1, <3>1
  <2>3. r \in Seq(Names) /\ Len(r) = 3 /\ r[3] = name /\ r[2] = "device"
    <3>1. name \in Names
      BY <1>2
    <3>2. IsBelow(p, name, r)
      BY <1>3, <2>1, <2>2, <3>1
    <3>3. QED
      BY <2>2, <3>2 DEF IsBelow
  <2>4. QuietPath(r)
    BY <2>3 DEF QuietPath
  <2>5. QED
    BY <2>1, <2>4
<1>6. ASSUME NEW p, NEW name \in Names, QuietPath(p) PROVE QuietPath(Below(p, name))
  <2>1. PICK r : r = Below(p, name)
    OBVIOUS
  <2>2. p \in Seq(Names)
    BY <1>6 DEF QuietPath
  <2>3. IsBelow(p, name, r)
    BY <1>3, <2>1, <2>2
  <2>4. QuietPath(r)
    BY <1>6, <2>3 DEF QuietPath, IsBelow
  <2>5. QED
    BY <2>1, <2>4
<1>7. QED
  BY <1>4, <1>5, <1>6

-----------------------------------------------------------------------------
(* A device.                                                               *)

(* An element whose text is not looked for is read without effect.         *)
LEMMA DismissedLeaf ==
  ASSUME NEW p \in Seq(Names), NEW data, NEW name \in Names, Dismissed(p, name), NEW text \in Wordings
  PROVE  ReadsOneLeaf(p, data, name, text, data)
<1>1. data = client_parser_callback(data, CallAt(p, name, text))
  BY DismissedCall
<1>2. QED
  BY <1>1, LeafIsRead

\* A text of a device is read.
TextRead(base, device, field, text, n) ==
  ReadsElement(DevicePath, OneDevice(base, device), Leaf(field, text), OneDevice(base, n))

(* An element of a device is read.                                         *)
LEMMA TextIsRead ==
  ASSUME NEW base, NEW device, NEW field \in {"deviceType", "UDN", "friendlyName"}, NEW text \in Wordings,
         NEW n, n = [device EXCEPT ![field] = text]
  PROVE  TextRead(base, device, field, text, n)
<1>1. PICK k, m : k = OneDevice(base, device) /\ m = OneDevice(base, n)
  OBVIOUS
<1>2. TextNoted(base, device, field, text)
  BY CallOfText
<1>3. m = client_parser_callback(k, CallAt(DevicePath, field, text))
  BY <1>1, <1>2, Zenon DEF TextNoted
<1>4. DevicePath \in Seq(Names) /\ field \in Names
  <2>1. field \in Names
    BY DEF Names, DescriptionNames
  <2>2. QED
    BY <2>1, ApartPaths DEF PathsApart
<1>5. ReadsOneLeaf(DevicePath, k, field, text, m)
  BY <1>3, <1>4, LeafIsRead
<1>6. QED
  BY <1>1, <1>5, Zenon DEF TextRead, ReadsOneLeaf, ReadsElement

(* The list of icons is read without effect.                               *)
LEMMA IconsAreRead ==
  ASSUME NEW data
  PROVE  ReadsElement(DevicePath, data, Node("iconList", << Node("icon", << Leaf("url", << "icon" >>) >>) >>), data)
<1>1. /\ "iconList" \in Names /\ "icon" \in Names /\ "url" \in Names
      /\ \A p : Dismissed(p, "iconList") /\ Dismissed(p, "icon") /\ Dismissed(p, "url")
  BY NeverSought
<1>2. PICK p, q : p = Below(DevicePath, "iconList") /\ q = Below(p, "icon")
  OBVIOUS
<1>3. QuietPath(p) /\ QuietPath(q)
  BY <1>1, <1>2, QuietPaths
<1>4. p \in Seq(Names) /\ q \in Seq(Names) /\ DevicePath \in Seq(Names)
  BY <1>3, ApartPaths DEF QuietPath, PathsApart
<1>5. PICK u, s, t : u = << Leaf("url", << "icon" >>) >> /\ s = << Node("icon", u) >> /\ t = << "icon" >>
  OBVIOUS
<1>6. Documents(Blank, Wordings, u)
  <2>1. t \in Wordings
    BY <1>5, TextsVocabulary
  <2>2. ReadsOneLeaf(q, data, "url", t, data)
    BY <1>1, <1>4, <2>1, DismissedLeaf
  <2>3. QED
    BY <1>5, <2>2, Zenon DEF ReadsOneLeaf, Reads
<1>7. Documents(Blank, Wordings, s)
  <2>1. QuietPath(Below(p, "icon"))
    BY <1>2, <1>3
  <2>2. ReadsOneNode(p, data, "icon", u, data)
    BY <1>1, <1>4, <1>6, <2>1, QuietNode
  <2>3. QED
    BY <1>5, <2>2, Zenon DEF ReadsOneNode, Reads
<1>8. ReadsOneNode(DevicePath, data, "iconList", s, data)
  <2>1. QuietPath(Below(DevicePath, "iconList"))
    BY QuietPaths
  <2>2. QED
    BY <1>1, <1>4, <1>7, <2>1, QuietNode
<1>9. QED
  BY <1>5, <1>8, Zenon DEF ReadsOneNode, ReadsElement

\* What is known of a description whose device is the one described.
DeviceTold(base, device) == State(base, device.type, device.udn, device.name, AllTaken(device.services))

\* A device is read, with elements after its own that have no effect.
DeviceRead(base, device, embedded) == ReadsElement(RootPath, Parsed(base, << >>), DeviceText(device, embedded), DeviceTold(base, device))

(* The texts of a device are texts of a description.                       *)
LEMMA DeviceTexts ==
  ASSUME NEW device \in DeviceData
  PROVE  /\ device.type \in Wordings /\ device.name \in Wordings /\ device.udn \in Wordings /\ device.services \in Seq(ServiceData)
         /\ device.type # Null /\ device.name # Null
<1>1. PICK W : W = Words
  OBVIOUS
<1>2. STRING \subseteq W
  BY <1>1 DEF Words
<1>3. ASSUME NEW s \in Seq(STRING) PROVE s \in Seq(W)
  <2>1. Len(s) \in Nat /\ s \in [1 .. Len(s) -> STRING]
    BY LenProperties
  <2>2. s \in [1 .. Len(s) -> W]
    BY <1>2, <2>1
  <2>3. QED
    BY <2>1, <2>2, FunctionIsSequence
<1>4. Seq(STRING) \subseteq Wordings
  BY <1>1, <1>3 DEF Wordings
<1>5. /\ device.type \in Text /\ device.name \in Seq(Nat) \ {Null} /\ device.udn \in Seq(Devices)
      /\ device.services \in Seq(ServiceData)
  BY DEF DeviceData
<1>6. Seq(Nat) \subseteq Wordings /\ Seq(Devices) \subseteq Wordings
  BY Zenon DEF Wordings
<1>7. QED
  BY <1>4, <1>5, <1>6 DEF Text

(* A device is read.                                                       *)
LEMMA DeviceIsRead ==
  ASSUME NEW base, NEW device \in DeviceData, NEW embedded, Reads(DevicePath, DeviceTold(base, device), embedded, DeviceTold(base, device))
  PROVE  DeviceRead(base, device, embedded)
<1>1. PICK t, u, n, s : t = device.type /\ u = device.udn /\ n = device.name /\ s = device.services
  OBVIOUS
<1>2. t \in Wordings /\ u \in Wordings /\ n \in Wordings /\ s \in Seq(ServiceData)
  BY <1>1, DeviceTexts
<1>3. PICK e, z, d0, d1, d2, d3 : /\ e = << >> /\ z = Null /\ d0 = Described(z, z, z, e) /\ d1 = Described(t, z, z, e)
                                  /\ d2 = Described(t, z, n, e) /\ d3 = Described(t, u, n, e)
  OBVIOUS
<1>4. /\ d1 = [d0 EXCEPT !["deviceType"] = t] /\ d2 = [d1 EXCEPT !["friendlyName"] = n]
      /\ d3 = [d2 EXCEPT !["UDN"] = u]
  <2>1. d1 = [d0 EXCEPT !["deviceType"] = t]
    BY <1>3 DEF Described
  <2>2. d2 = [d1 EXCEPT !["friendlyName"] = n]
    BY <1>3 DEF Described
  <2>3. d3 = [d2 EXCEPT !["UDN"] = u]
    BY <1>3 DEF Described
  <2>4. QED
    BY <2>1, <2>2, <2>3
<1>5. PICK k0, k1, k2, k3, k4 : /\ k0 = OneDevice(base, d0) /\ k1 = OneDevice(base, d1) /\ k2 = OneDevice(base, d2)
                                /\ k3 = OneDevice(base, d3) /\ k4 = DeviceTold(base, device)
  OBVIOUS
<1>6. PICK l1, l2, l3, l4, l5, l6 :
        /\ l1 = Leaf("deviceType", t) /\ l2 = Leaf("presentationURL", z) /\ l3 = Leaf("friendlyName", n) /\ l4 = Leaf("UDN", u)
        /\ l5 = Node("iconList", << Node("icon", << Leaf("url", << "icon" >>) >>) >>) /\ l6 = Node("serviceList", ServicesText(s))
  OBVIOUS
<1>7. ReadsElement(DevicePath, k0, l1, k1)
  <2>1. TextRead(base, d0, "deviceType", t, d1)
    BY <1>2, <1>4, TextIsRead
  <2>2. QED
    BY <1>5, <1>6, <2>1, Zenon DEF TextRead
<1>8. ReadsElement(DevicePath, k1, l3, k2)
  <2>1. TextRead(base, d1, "friendlyName", n, d2)
    BY <1>2, <1>4, TextIsRead
  <2>2. QED
    BY <1>5, <1>6, <2>1, Zenon DEF TextRead
<1>9. ReadsElement(DevicePath, k2, l4, k3)
  <2>1. TextRead(base, d2, "UDN", u, d3)
    BY <1>2, <1>4, TextIsRead
  <2>2. QED
    BY <1>5, <1>6, <2>1, Zenon DEF TextRead
<1>10. /\ DevicePath \in Seq(Names) /\ RootPath \in Seq(Names) /\ "device" \in Names
       /\ "presentationURL" \in Names /\ "serviceList" \in Names
       /\ Dismissed(DevicePath, "presentationURL") /\ Dismissed(DevicePath, "serviceList")
  <2>1. "device" \in Names
    BY DEF Names, DescriptionNames
  <2>2. DevicePath \in Seq(Names) /\ RootPath \in Seq(Names)
    BY ApartPaths DEF PathsApart
  <2>3. QED
    BY <2>1, <2>2, NeverSought
<1>11. ReadsElement(DevicePath, k1, l2, k1)
  <2>1. z \in Wordings
    BY <1>3, TextsVocabulary
  <2>2. ReadsOneLeaf(DevicePath, k1, "presentationURL", z, k1)
    BY <1>10, <2>1, DismissedLeaf
  <2>3. QED
    BY <1>6, <2>2, Zenon DEF ReadsOneLeaf, ReadsElement
<1>12. ReadsElement(DevicePath, k3, l5, k3)
  BY <1>6, IconsAreRead, Zenon
<1>13. ReadsElement(DevicePath, k3, l6, k4)
  <2>1. ServicesRead(base, t, u, n, s)
    BY <1>2, ServicesAreRead
  <2>2. k3 = State(base, t, u, n, << >>) /\ k4 = State(base, t, u, n, AllTaken(s))
    BY <1>1, <1>3, <1>5, Zenon DEF State, DeviceTold
  <2>3. Below(DevicePath, "serviceList") = ListPath
    <3>1. PICK p, l, w : p = DevicePath /\ l = ListPath /\ w = << "serviceList" >>
      OBVIOUS
    <3>2. p \in Seq(Names) /\ l \in Seq(Names) /\ w \in Seq(Names)
      BY <1>10, <3>1, ApartPaths DEF PathsApart
    <3>3. Len(p) = 2 /\ Len(w) = 1 /\ Len(l) = 3 /\ p[1] = l[1] /\ p[2] = l[2] /\ w[1] = l[3]
      BY <3>1 DEF DevicePath, ListPath
    <3>4. Joined(p, w, l)
      BY <3>3 DEF Joined
    <3>5. l = p \o w
      BY <3>2, <3>4, IsConcat
    <3>6. QED
      BY <3>1, <3>5, Zenon DEF Below
  <2>4. Reads(Below(DevicePath, "serviceList"), k3, ServicesText(s), k4)
    BY <2>1, <2>2, <2>3, Zenon DEF ServicesRead
  <2>5. Opens(DevicePath, k3, "serviceList", k3)
    BY <1>10, DismissedCall DEF Opens
  <2>6. ReadsOneNode(DevicePath, k3, "serviceList", ServicesText(s), k4)
    BY <1>10, <2>4, <2>5, ElementIsRead
  <2>7. QED
    BY <1>6, <2>6, Zenon DEF ReadsOneNode, ReadsElement
<1>14. ReadsTwo(DevicePath, k3, l5, l6, k4)
  BY <1>10, <1>12, <1>13, TwoAreRead
<1>15. ReadsThree(DevicePath, k2, l4, l5, l6, k4)
  BY <1>9, <1>10, <1>14, ThreeAreRead
<1>16. ReadsFour(DevicePath, k1, l3, l4, l5, l6, k4)
  BY <1>8, <1>10, <1>15, FourAreRead
<1>17. ReadsFive(DevicePath, k1, l2, l3, l4, l5, l6, k4)
  BY <1>10, <1>11, <1>16, FiveAreRead
<1>18. ReadsSix(DevicePath, k0, l1, l2, l3, l4, l5, l6, k4)
  BY <1>7, <1>10, <1>17, SixAreRead
<1>19. PICK own, all : own = << l1, l2, l3, l4, l5, l6 >> /\ all = own \o embedded
  OBVIOUS
<1>20. Reads(DevicePath, k0, own, k4)
  BY <1>18, <1>19, Zenon DEF ReadsSix
<1>21. Reads(DevicePath, k4, embedded, k4)
  BY <1>5, Zenon
<1>22. ReadsBoth(DevicePath, k0, own, embedded, k4)
  BY <1>10, <1>20, <1>21, ReadsInTurn
<1>23. Reads(DevicePath, k0, all, k4)
  BY <1>19, <1>22, Zenon DEF ReadsBoth
<1>24. PICK k : k = Parsed(base, << >>)
  OBVIOUS
<1>25. Opens(RootPath, k, "device", k0)
  <2>1. \A v \in Wordings : client_parser_callback(k, CallAt(RootPath, "device", v)) = State(base, Null, Null, Null, << >>)
    BY <1>24, CallOfDevice
  <2>2. k0 = State(base, Null, Null, Null, << >>)
    BY <1>3, <1>5, Zenon DEF State
  <2>3. QED
    BY <2>1, <2>2, Zenon DEF Opens
<1>26. Below(RootPath, "device") = DevicePath
  <2>1. PathsTold(RootPath, "device")
    BY <1>10, PathTold
  <2>2. QED
    BY <2>1, Zenon DEF PathsTold
<1>27. Reads(Below(RootPath, "device"), k0, all, k4)
  BY <1>23, <1>26, Zenon
<1>28. ReadsOneNode(RootPath, k, "device", all, k4)
  BY <1>10, <1>25, <1>27, ElementIsRead
<1>29. DeviceText(device, embedded) = Node("device", all)
  <2>1. ServicesText(s) = [i \in DOMAIN s |-> ServiceText(s[i])]
    BY Zenon DEF ServicesText
  <2>2. QED
    BY <1>1, <1>3, <1>6, <1>19, <2>1, Zenon DEF DeviceText
<1>30. QED
  BY <1>5, <1>24, <1>28, <1>29, Zenon DEF ReadsOneNode, ReadsElement, DeviceRead

-----------------------------------------------------------------------------
(* A description.                                                          *)

\* Embedded devices, each in its list, as a description has them.
EmbeddedText(embedded) == [i \in DOMAIN embedded |-> Node("deviceList", << DeviceText(embedded[i], << >>) >>)]

(* Embedded devices are read without effect.                               *)
LEMMA EmbeddedAreRead ==
  ASSUME NEW data, NEW embedded \in Seq(DeviceData)
  PROVE  Reads(DevicePath, data, EmbeddedText(embedded), data)
<1>1. PICK n, t, T : /\ n = Len(embedded) /\ t = EmbeddedText(embedded)
                     /\ T = {Node("deviceList", << DeviceText(embedded[i], << >>) >>) : i \in 1 .. Len(embedded)}
  OBVIOUS
<1>2. n \in Nat /\ DOMAIN embedded = 1 .. n /\ \A i \in 1 .. n : embedded[i] \in DeviceData
  BY <1>1
<1>3. t = [i \in 1 .. n |-> Node("deviceList", << DeviceText(embedded[i], << >>) >>)]
  BY <1>1, <1>2, Zenon DEF EmbeddedText
<1>4. t \in Seq(T) /\ Len(t) = n
  <2>1. t \in [1 .. n -> T]
    BY <1>1, <1>3
  <2>2. QED
    BY <1>2, <2>1, FunctionIsSequence
<1>5. PICK f : f = [k \in 0 .. n |-> data]
  OBVIOUS
<1>6. DevicePath \in Seq(Names) /\ "deviceList" \in Names /\ Dismissed(DevicePath, "deviceList")
  BY ApartPaths, NeverSought DEF PathsApart
<1>7. ASSUME NEW i \in 1 .. n PROVE ReadsElement(DevicePath, f[i - 1], t[i], f[i])
  <2>1. PICK d, e, u, k : /\ d = embedded[i] /\ e = << >> /\ u = << DeviceText(d, e) >> /\ k = DeviceTold(Null, d)
    OBVIOUS
  <2>2. d \in DeviceData
    BY <1>2, <2>1
  <2>3. Reads(DevicePath, k, e, k)
    BY <1>6, <2>1, NothingIsRead
  <2>4. DeviceRead(Null, d, e)
    BY <2>1, <2>2, <2>3, DeviceIsRead
  <2>5. Documents(Blank, Wordings, u)
    BY <2>1, <2>4, Zenon DEF DeviceRead, ReadsElement, Reads
  <2>6. ReadsOneNode(DevicePath, data, "deviceList", u, data)
    BY <1>6, <2>5, QuietPaths, QuietNode
  <2>7. t[i] = Node("deviceList", u)
    BY <1>3, <2>1, Zenon
  <2>8. f[i - 1] = data /\ f[i] = data
    BY <1>2, <1>5
  <2>9. QED
    BY <2>6, <2>7, <2>8, Zenon DEF ReadsOneNode, ReadsElement
<1>8. StepByStep(DevicePath, f, t)
  BY <1>4, <1>7 DEF StepByStep
<1>9. Reads(DevicePath, f[0], t, f[n])
  BY <1>4, <1>6, <1>8, AllAreRead
<1>10. f[0] = data /\ f[n] = data
  BY <1>2, <1>5
<1>11. QED
  BY <1>1, <1>9, <1>10

(* The version of the specification is read without effect.                *)
LEMMA VersionIsRead ==
  ASSUME NEW data
  PROVE  ReadsElement(RootPath, data, Node("specVersion", << Leaf("major", << 1 >>), Leaf("minor", << 0 >>) >>), data)
<1>1. /\ "specVersion" \in Names /\ "major" \in Names /\ "minor" \in Names
      /\ \A p : Dismissed(p, "specVersion") /\ Dismissed(p, "major") /\ Dismissed(p, "minor")
  BY NeverSought
<1>2. PICK q : q = Below(RootPath, "specVersion")
  OBVIOUS
<1>3. QuietPath(q)
  BY <1>2, QuietPaths
<1>4. q \in Seq(Names) /\ RootPath \in Seq(Names)
  BY <1>3, ApartPaths DEF QuietPath, PathsApart
<1>5. PICK v, w, l, m, s : v = << 1 >> /\ w = << 0 >> /\ l = Leaf("major", v) /\ m = Leaf("minor", w) /\ s = << l, m >>
  OBVIOUS
<1>6. v \in Wordings /\ w \in Wordings
  BY <1>5, TextsVocabulary
<1>7. ReadsOneLeaf(q, data, "major", v, data) /\ ReadsOneLeaf(q, data, "minor", w, data)
  BY <1>1, <1>4, <1>6, DismissedLeaf
<1>8. ReadsElement(q, data, l, data) /\ ReadsElement(q, data, m, data)
  BY <1>5, <1>7, Zenon DEF ReadsOneLeaf, ReadsElement
<1>9. ReadsTwo(q, data, l, m, data)
  BY <1>4, <1>8, TwoAreRead
<1>10. Documents(Blank, Wordings, s)
  BY <1>5, <1>9, Zenon DEF ReadsTwo, Reads
<1>11. QuietPath(Below(RootPath, "specVersion"))
  BY QuietPaths
<1>12. ReadsOneNode(RootPath, data, "specVersion", s, data)
  BY <1>1, <1>4, <1>10, <1>11, QuietNode
<1>13. QED
  BY <1>5, <1>12, Zenon DEF ReadsOneNode, ReadsElement

\* The base that a description names, if it names one.
BaseOf(urlbase, host) == IF urlbase THEN << "http://", host >> ELSE Null

(* It is read, if there is one.                                            *)
LEMMA BaseIsRead ==
  ASSUME NEW urlbase \in BOOLEAN, NEW host \in STRING
  PROVE  Reads(RootPath, Parsed(Null, << >>), IF urlbase THEN << Leaf("URLBase", << "http://", host >>) >> ELSE << >>,
               Parsed(BaseOf(urlbase, host), << >>))
<1>1. RootPath \in Seq(Names) /\ "URLBase" \in Names
  <2>1. "URLBase" \in Names
    BY DEF Names, DescriptionNames
  <2>2. QED
    BY <2>1, ApartPaths DEF PathsApart
<1>2. PICK e, b, k, m : e = << >> /\ b = << "http://", host >> /\ k = Parsed(Null, e) /\ m = Parsed(b, e)
  OBVIOUS
<1>3. CASE urlbase
  <2>1. b \in Wordings
    <3>1. PICK W : W = Words
      OBVIOUS
    <3>2. "http://" \in W /\ host \in W
      BY <3>1 DEF Words
    <3>3. b \in Seq(W)
      BY <1>2, <3>2
    <3>4. QED
      BY <3>1, <3>3, Zenon DEF Wordings
  <2>2. m = client_parser_callback(k, CallAt(RootPath, "URLBase", b))
    BY <1>2, CallOfBase
  <2>3. ReadsOneLeaf(RootPath, k, "URLBase", b, m)
    BY <1>1, <2>1, <2>2, LeafIsRead
  <2>4. BaseOf(urlbase, host) = b
    BY <1>2, <1>3, Zenon DEF BaseOf
  <2>5. QED
    BY <1>2, <1>3, <2>3, <2>4, Zenon DEF ReadsOneLeaf
<1>4. CASE ~urlbase
  <2>1. Reads(RootPath, k, e, k)
    BY <1>1, <1>2, NothingIsRead
  <2>2. BaseOf(urlbase, host) = Null
    BY <1>4, Zenon DEF BaseOf
  <2>3. QED
    BY <1>2, <1>4, <2>1, <2>2, Zenon
<1>5. QED
  BY <1>3, <1>4

(* Callbacks under no path are those of the document.                      *)
LEMMA PlacedNowhere ==
  ASSUME NEW A, NEW X, NEW h \in Seq(CallbackSet(A, X))
  PROVE  Placed(A, X, << >>, h) = h
<1>1. PICK e, F, C : e = << >> /\ F = Prefixed(A, X, e) /\ C = CallbackSet(A, X)
  OBVIOUS
<1>2. ASSUME NEW c \in C PROVE F[c] = c
  <2>1. F[c] = Moved(e, c)
    BY <1>1, PrefixedIs
  <2>2. PICK q : q = c.path
    OBVIOUS
  <2>3. q \in Seq(Names) /\ e \in Seq(Names)
    BY <1>1, <2>2 DEF CallbackSet
  <2>4. PICK r : r = e \o q
    OBVIOUS
  <2>5. IsBoth(e, q, r)
    BY <2>4, Zenon DEF IsBoth
  <2>6. r \in Seq(Names) /\ Joined(e, q, r) /\ Len(q) \in Nat
    BY <2>3, <2>5, BothElements
  <2>7. r = q
    <3>1. Len(e) = 0
      BY <1>1
    <3>2. Len(r) = Len(q) /\ \A i \in 1 .. Len(q) : r[i] = q[i]
      BY <2>6, <3>1 DEF Joined
    <3>3. QED
      BY <2>3, <2>6, <3>2, SeqEqual
  <2>8. c = [path |-> q, attrs |-> c.attrs, value |-> c.value]
    BY <1>1, <2>2 DEF CallbackSet
  <2>9. QED
    BY <2>1, <2>2, <2>4, <2>7, <2>8, Zenon DEF Moved
<1>3. DOMAIN h = 1 .. Len(h) /\ \A i \in DOMAIN h : h[i] \in C
  BY <1>1
<1>4. \A i \in DOMAIN h : F[h[i]] = h[i]
  BY <1>2, <1>3
<1>5. h = [i \in DOMAIN h |-> h[i]]
  OBVIOUS
<1>6. Mapped(F, h) = h
  BY <1>4, <1>5 DEF Mapped
<1>7. QED
  BY <1>1, <1>6, Zenon DEF Placed

(* What is parsed of a description is what it tells of its device, and its *)
(* base: icons and embedded devices change nothing.                        *)
THEOREM DescriptionIsParsed ==
  ASSUME NEW doc \in [urlbase : BOOLEAN, device : DeviceData, embedded : Seq(DeviceData)], NEW host \in STRING
  PROVE  ParsedDescription(DescriptionText(doc, host)) = DeviceTold(BaseOf(doc.urlbase, host), doc.device)
<1>1. PICK b, device, embedded : b = BaseOf(doc.urlbase, host) /\ device = doc.device /\ embedded = doc.embedded
  OBVIOUS
<1>2. device \in DeviceData /\ embedded \in Seq(DeviceData) /\ doc.urlbase \in BOOLEAN
  BY <1>1
<1>3. PICK v, u, d, e : /\ v = Node("specVersion", << Leaf("major", << 1 >>), Leaf("minor", << 0 >>) >>)
                        /\ u = IF doc.urlbase THEN << Leaf("URLBase", << "http://", host >>) >> ELSE << >>
                        /\ d = DeviceText(device, EmbeddedText(embedded)) /\ e = << >>
  OBVIOUS
<1>4. PICK k, m, n : k = Parsed(Null, e) /\ m = Parsed(b, e) /\ n = DeviceTold(b, device)
  OBVIOUS
<1>5. RootPath \in Seq(Names) /\ e \in Seq(Names) /\ "root" \in Names /\ \A p : Dismissed(p, "root")
  BY <1>3, ApartPaths, NeverSought DEF PathsApart
<1>6. PICK s1, s3 : s1 = << v >> /\ s3 = << d >>
  OBVIOUS
<1>7. Reads(RootPath, k, s1, k)
  BY <1>3, <1>6, VersionIsRead, Zenon DEF ReadsElement
<1>8. Reads(RootPath, k, u, m)
  <2>1. Reads(RootPath, Parsed(Null, << >>), IF doc.urlbase THEN << Leaf("URLBase", << "http://", host >>) >> ELSE << >>,
               Parsed(BaseOf(doc.urlbase, host), << >>))
    BY <1>2, BaseIsRead, Zenon
  <2>2. QED
    BY <1>1, <1>3, <1>4, <2>1, Zenon
<1>9. Reads(RootPath, m, s3, n)
  <2>1. Reads(DevicePath, n, EmbeddedText(embedded), n)
    BY <1>2, EmbeddedAreRead
  <2>2. DeviceRead(b, device, EmbeddedText(embedded))
    BY <1>2, <1>4, <2>1, DeviceIsRead
  <2>3. QED
    BY <1>3, <1>4, <1>6, <2>2, Zenon DEF DeviceRead, ReadsElement
<1>10. PICK s, t : s = s1 \o u /\ t = s \o s3
  OBVIOUS
<1>11. Reads(RootPath, k, s, m)
  <2>1. ReadsBoth(RootPath, k, s1, u, m)
    BY <1>5, <1>7, <1>8, ReadsInTurn
  <2>2. QED
    BY <1>10, <2>1, Zenon DEF ReadsBoth
<1>12. Reads(RootPath, k, t, n)
  <2>1. ReadsBoth(RootPath, k, s, s3, n)
    BY <1>5, <1>9, <1>11, ReadsInTurn
  <2>2. QED
    BY <1>10, <2>1, Zenon DEF ReadsBoth
<1>13. Below(e, "root") = RootPath
  <2>1. PICK w, r : w = << "root" >> /\ r = RootPath
    OBVIOUS
  <2>2. w \in Seq(Names) /\ r \in Seq(Names) /\ Len(w) = 1 /\ Len(r) = 1 /\ r[1] = w[1] /\ Len(e) = 0
    BY <1>3, <1>5, <2>1 DEF RootPath
  <2>3. Joined(e, w, r)
    BY <2>2 DEF Joined
  <2>4. r = e \o w
    BY <1>5, <2>2, <2>3, IsConcat
  <2>5. QED
    BY <2>1, <2>4, Zenon DEF Below
<1>14. Reads(Below(e, "root"), k, t, n)
  BY <1>12, <1>13, Zenon
<1>15. Opens(e, k, "root", k)
  BY <1>5, DismissedCall DEF Opens
<1>16. ReadsOneNode(e, k, "root", t, n)
  BY <1>5, <1>14, <1>15, ElementIsRead
<1>17. PICK x, y : x = Node("root", t) /\ y = << x >>
  OBVIOUS
<1>18. Documents(Blank, Wordings, y) /\ ReadAt(Blank, Wordings, e, k, y) = n
  BY <1>16, <1>17, Zenon DEF ReadsOneNode, Reads
<1>19. x = DescriptionText(doc, host)
  <2>1. EmbeddedText(doc.embedded) = [i \in DOMAIN doc.embedded |-> Node("deviceList", << DeviceText(doc.embedded[i], << >>) >>)]
    BY Zenon DEF EmbeddedText
  <2>2. t = (<< v >> \o u) \o << DeviceText(doc.device, EmbeddedText(doc.embedded)) >>
    BY <1>1, <1>3, <1>6, <1>10, Zenon
  <2>3. QED
    BY <1>3, <1>17, <2>1, <2>2, Zenon DEF DescriptionText
<1>20. PICK h : h = Heard(y)
  OBVIOUS
<1>21. h \in Seq(CallbackSet(Blank, Wordings))
  BY <1>18, <1>20, TextsVocabulary, DocumentsWhole
<1>22. Placed(Blank, Wordings, << >>, h) = h
  BY <1>21, PlacedNowhere
<1>23. ParseAfter(k, h) = n
  BY <1>3, <1>18, <1>20, <1>22, Zenon DEF ReadAt
<1>24. h = Callbacks(x)
  <2>1. x \in Seq(Tags(Blank, Wordings)) /\ Whole(x)
    <3>1. y \in Seq(Seq(Tags(Blank, Wordings))) /\ AllWhole(y)
      BY <1>18, Zenon DEF Documents
    <3>2. 1 \in DOMAIN y /\ y[1] = x
      BY <1>17
    <3>3. x \in Seq(Tags(Blank, Wordings))
      BY <3>1, <3>2
    <3>4. QED
      BY <3>1, <3>2, <3>3 DEF AllWhole
  <2>2. FlattenSeq(<< x >>) = x
    BY <2>1, DocumentsOne
  <2>3. QED
    BY <1>17, <1>20, <2>2, Zenon DEF Heard
<1>25. k = [URLBase |-> Null, devices |-> << >>]
  BY <1>3, <1>4, Zenon DEF Parsed
<1>26. ParsedDescription(x) = ParseAfter(k, Callbacks(x))
  BY <1>25, Zenon DEF ParsedDescription, ParseAfter, ParseTrace
<1>27. QED
  BY <1>1, <1>4, <1>19, <1>23, <1>24, <1>26, Zenon

-----------------------------------------------------------------------------
(* Urls.                                                                   *)

\* The least number of a set, or 0 if there is none.
FirstOf(S) == IF S # {} THEN Min(S) ELSE 0

(* It is the least.                                                        *)
LEMMA FirstOfIs ==
  ASSUME NEW S \in SUBSET (Nat \ {0})
  PROVE  /\ FirstOf(S) = 0 <=> S = {}
         /\ S # {} => FirstOf(S) \in S /\ \A y \in S : FirstOf(S) <= y
<1>1. CASE S = {}
  BY <1>1 DEF FirstOf
<1>2. CASE S # {}
  <2>1. S \in SUBSET Nat
    OBVIOUS
  <2>2. \E x \in S : \A y \in S : x <= y
    BY <1>2, <2>1, LeastOfSome
  <2>3. PICK m : m = Min(S)
    OBVIOUS
  <2>4. m \in S /\ \A y \in S : m <= y
    BY <2>2, <2>3 DEF Min
  <2>5. FirstOf(S) = m
    BY <1>2, <2>3, Zenon DEF FirstOf
  <2>6. QED
    BY <1>2, <2>4, <2>5
<1>3. QED
  BY <1>1, <1>2

\* A url with a host, and what may follow it.
OnHost(url, host) == HostOf(url) = << host >>

(* The host of a url that is a host, or a host and a path.                 *)
LEMMA HostIs ==
  ASSUME NEW host, host # "/"
  PROVE  OnHost(<< "http://", host >>, host) /\ OnHost(<< "http://", host, "/", "description.xml" >>, host)
<1>1. OnHost(<< "http://", host >>, host)
  <2>1. PICK u, r, S : u = << "http://", host >> /\ r = << host >> /\ S = {i \in 1 .. Len(r) : r[i] = "/"}
    OBVIOUS
  <2>2. Head(u) = "http://" /\ Tail(u) = r
    BY <2>1
  <2>3. S = {}
    BY <2>1
  <2>4. FirstOf(S) = 0
    BY <2>3, Zenon DEF FirstOf
  <2>5. HostOf(u) = IF FirstOf(S) = 0 THEN r ELSE SubSeq(r, 1, FirstOf(S) - 1)
    BY <2>1, <2>2, Zenon DEF HostOf, SelectInSeq, FirstOf
  <2>6. QED
    BY <2>1, <2>4, <2>5, Zenon DEF OnHost
<1>2. OnHost(<< "http://", host, "/", "description.xml" >>, host)
  <2>1. PICK u, r, S : /\ u = << "http://", host, "/", "description.xml" >> /\ r = << host, "/", "description.xml" >>
                       /\ S = {i \in 1 .. Len(r) : r[i] = "/"}
    OBVIOUS
  <2>2. Head(u) = "http://" /\ Tail(u) = r
    <3>1. Head(u) = "http://"
      BY <2>1
    <3>2. PICK T : T = {host, "/", "description.xml", "http://"}
      OBVIOUS
    <3>3. u \in Seq(T) /\ r \in Seq(T) /\ Len(u) = 4 /\ Len(r) = 3 /\ r[1] = u[2] /\ r[2] = u[3] /\ r[3] = u[4]
      BY <2>1, <3>2
    <3>4. PICK t : t = Tail(u)
      OBVIOUS
    <3>5. t \in Seq(T) /\ Len(t) = 3 /\ t[1] = u[2] /\ t[2] = u[3] /\ t[3] = u[4]
      <4>1. u # << >>
        BY <3>3
      <4>2. t \in Seq(T) /\ Len(t) = Len(u) - 1 /\ \A i \in 1 .. Len(t) : t[i] = u[i + 1]
        BY <3>3, <3>4, <4>1, HeadTailProperties
      <4>3. Len(t) = 3
        BY <3>3, <4>2
      <4>4. \A i \in 1 .. 3 : t[i] = u[i + 1]
        BY <4>2, <4>3, Zenon
      <4>5. t[1] = u[2] /\ t[2] = u[3] /\ t[3] = u[4]
        BY <4>4
      <4>6. t \in Seq(T)
        BY <4>2, Zenon
      <4>7. QED
        BY <4>3, <4>5, <4>6, Zenon
    <3>6. \A i \in 1 .. 3 : t[i] = r[i]
      BY <3>3, <3>5
    <3>7. t = r
      BY <3>3, <3>5, <3>6, SeqEqual
    <3>8. QED
      BY <3>1, <3>4, <3>7
  <2>3. 2 \in S /\ S \in SUBSET (Nat \ {0}) /\ 1 \notin S
    <3>1. Len(r) = 3 /\ r[2] = "/" /\ r[1] = host
      BY <2>1
    <3>2. QED
      BY <2>1, <3>1
  <2>4. FirstOf(S) = 2
    <3>1. FirstOf(S) \in S /\ FirstOf(S) <= 2
      BY <2>3, FirstOfIs
    <3>2. PICK m : m = FirstOf(S)
      OBVIOUS
    <3>3. m \in Nat /\ m # 0 /\ m <= 2 /\ m # 1
      BY <2>3, <3>1, <3>2
    <3>4. m = 2
      BY <3>3
    <3>5. QED
      BY <3>2, <3>4
  <2>5. HostOf(u) = IF FirstOf(S) = 0 THEN r ELSE SubSeq(r, 1, FirstOf(S) - 1)
    BY <2>1, <2>2, Zenon DEF HostOf, SelectInSeq, FirstOf
  <2>6. SubSeq(r, 1, 2 - 1) = << host >>
    <3>1. 2 - 1 = 1
      OBVIOUS
    <3>2. PICK T, x, y : T = {host, "/", "description.xml"} /\ x = SubSeq(r, 1, 1) /\ y = << host >>
      OBVIOUS
    <3>3. r \in Seq(T) /\ Len(r) = 3 /\ r[1] = host /\ y \in Seq(T) /\ Len(y) = 1 /\ y[1] = host
      BY <2>1, <3>2
    <3>4. x \in Seq(T) /\ Len(x) = 1 /\ x[1] = host
      BY <3>2, <3>3
    <3>5. \A i \in 1 .. 1 : x[i] = y[i]
      BY <3>3, <3>4
    <3>6. x = y
      BY <3>3, <3>4, <3>5, SeqEqual
    <3>7. QED
      BY <3>1, <3>2, <3>6, Zenon
  <2>7. HostOf(u) = << host >>
    <3>1. 2 # 0
      OBVIOUS
    <3>2. QED
      BY <2>4, <2>5, <2>6, <3>1, Zenon
  <2>8. QED
    BY <2>1, <2>7, Zenon DEF OnHost
<1>3. QED
  BY <1>1, <1>2

(* A path is resolved to a url on the host of the base.                    *)
LEMMA ResolvedIsUrl ==
  ASSUME NEW base, NEW host, OnHost(base, host), NEW path \in Seq(STRING)
  PROVE  IsUrl(Resolve(base, path), host, path)
<1>1. PICK S, n, f : S = {i \in 1 .. Len(path) : path[i] # "/"} /\ n = Len(path) /\ f = FirstOf(S)
  OBVIOUS
<1>2. n \in Nat /\ S \in SUBSET (Nat \ {0}) /\ \A i \in 1 .. n : i \in S <=> path[i] # "/"
  BY <1>1
<1>3. /\ f = 0 <=> S = {}
      /\ S # {} => f \in S /\ \A y \in S : f <= y
  BY <1>1, <1>2, FirstOfIs
<1>4. PICK h, p : h = << host, "/" >> /\ p = IF f = 0 THEN << >> ELSE SubSeq(path, f, Len(path))
  OBVIOUS
<1>5. Resolve(base, path) = h \o p
  <2>1. Resolve(base, path) = HostOf(base) \o << "/" >> \o p
    BY <1>1, <1>4, Zenon DEF Resolve, SelectInSeq, FirstOf
  <2>2. << host >> \o << "/" >> = << host, "/" >>
    BY TuplesConcat
  <2>3. QED
    BY <1>4, <2>1, <2>2, Zenon DEF OnHost
<1>6. PICK k : k = IF f = 0 THEN n ELSE f - 1
  OBVIOUS
<1>7. /\ k \in 0 .. n /\ \A i \in 1 .. k : path[i] = "/"
      /\ k < n => path[k + 1] # "/"
  <2>1. CASE f = 0
    BY <1>2, <1>3, <1>6, <2>1
  <2>2. CASE f # 0
    <3>1. S # {} /\ f \in S
      BY <1>3, <2>2
    <3>2. f \in 1 .. n /\ path[f] # "/" /\ k = f - 1
      BY <1>1, <1>6, <2>2, <3>1
    <3>3. k \in 0 .. n /\ k + 1 = f
      BY <1>2, <3>2
    <3>4. ASSUME NEW i \in 1 .. k PROVE path[i] = "/"
      <4>1. i \in 1 .. n /\ ~(f <= i)
        BY <1>2, <3>2, <3>3
      <4>2. i \notin S
        BY <1>3, <3>1, <4>1
      <4>3. QED
        BY <1>2, <4>1, <4>2
    <3>5. QED
      BY <3>2, <3>3, <3>4
  <2>3. QED
    BY <2>1, <2>2
<1>8. p = SubSeq(path, k + 1, Len(path))
  <2>1. CASE f = 0
    <3>1. k + 1 = n + 1 /\ p = << >>
      BY <1>4, <1>6, <2>1
    <3>2. SubSeq(path, n + 1, n) = << >>
      BY <1>1, <1>2
    <3>3. QED
      BY <1>1, <3>1, <3>2
  <2>2. CASE f # 0
    <3>1. k + 1 = f
      <4>1. f \in Nat
        BY <1>2, <1>3, <2>2
      <4>2. QED
        BY <1>6, <2>2, <4>1
    <3>2. QED
      BY <1>4, <2>2, <3>1, Zenon
  <2>3. QED
    BY <2>1, <2>2
<1>9. QED
  BY <1>1, <1>4, <1>5, <1>7, <1>8, Zenon DEF IsUrl

-----------------------------------------------------------------------------
(* The services that are looked for.                                       *)

\* What is made of a service of a type.
MadeOf(service, type, base) ==
  [type |-> type, id |-> service.id, controlurl |-> Resolve(base, service.control), eventurl |-> Resolve(base, service.event)]

\* The first service of a type.
OfType(services, type) == {i \in 1 .. Len(services) : services[i].type = type}
FirstService(services, type) == FirstOf(OfType(services, type))

\* There is none, or it has no url for its events.
NotTaken(services, type) == FirstService(services, type) = 0 \/ services[FirstService(services, type)].event = Null

InitTaken(services, type, base) ==
  IF NotTaken(services, type) THEN << >> ELSE << MadeOf(services[FirstService(services, type)], type, base) >>

(* A service is looked for among those that were described.                *)
LEMMA InitIs ==
  ASSUME NEW services \in Seq(ServiceData), NEW device, device.services = AllTaken(services), NEW base, NEW type
  PROVE  client_upnpd_service_init(device, base, type) = InitTaken(services, type, base)
<1>1. PICK r, n, S, R, f : /\ r = AllTaken(services) /\ n = Len(services) /\ S = OfType(services, type)
                           /\ R = {i \in 1 .. Len(device.services) : device.services[i].serviceType = type} /\ f = FirstOf(S)
  OBVIOUS
<1>2. n \in Nat /\ DOMAIN services = 1 .. n
  BY <1>1
<1>3. Len(r) = n /\ \A i \in 1 .. n : r[i] = Taken(services[i])
  <2>1. r = [i \in 1 .. n |-> Taken(services[i])]
    BY <1>1, <1>2, Zenon DEF AllTaken
  <2>2. PICK T : T = {Taken(services[i]) : i \in 1 .. n}
    OBVIOUS
  <2>3. r \in [1 .. n -> T]
    BY <2>1, <2>2
  <2>4. Len(r) = n
    BY <1>2, <2>3, FunctionIsSequence
  <2>5. QED
    BY <2>1, <2>4
<1>4. \A i \in 1 .. n : /\ r[i].serviceType = services[i].type /\ r[i].serviceId = services[i].id
                        /\ r[i].controlURL = services[i].control /\ r[i].eventSubURL = services[i].event
  BY <1>3 DEF Taken, Noting
<1>5. R = S
  <2>1. device.services = r /\ Len(r) = Len(services)
    BY <1>1, <1>3
  <2>2. R = {i \in 1 .. n : r[i].serviceType = type} /\ S = {i \in 1 .. n : services[i].type = type}
    BY <1>1, <2>1 DEF OfType
  <2>3. QED
    BY <1>4, <2>2
<1>6. S \in SUBSET (Nat \ {0}) /\ \A i \in S : i \in 1 .. n
  BY <1>1, <1>2 DEF OfType
<1>7. f # 0 => f \in 1 .. n
  BY <1>1, <1>6, FirstOfIs
<1>8. f = FirstService(services, type)
  BY <1>1, Zenon DEF FirstService
<1>9. client_upnpd_service_init(device, base, type)
        = IF f = 0 \/ r[f].eventSubURL = Null THEN << >>
          ELSE << [type |-> type, id |-> r[f].serviceId, controlurl |-> Resolve(base, r[f].controlURL),
                   eventurl |-> Resolve(base, r[f].eventSubURL)] >>
  <2>1. client_upnpd_service_init(device, base, type)
          = IF FirstOf(R) = 0 \/ device.services[FirstOf(R)].eventSubURL = Null THEN << >>
            ELSE << [type |-> type, id |-> device.services[FirstOf(R)].serviceId,
                     controlurl |-> Resolve(base, device.services[FirstOf(R)].controlURL),
                     eventurl |-> Resolve(base, device.services[FirstOf(R)].eventSubURL)] >>
    BY <1>1, Zenon DEF client_upnpd_service_init, SelectInSeq, FirstOf
  <2>2. device.services = r /\ FirstOf(R) = f
    BY <1>1, <1>5, Zenon
  <2>3. QED
    BY <2>1, <2>2, Zenon
<1>10. CASE f = 0
  BY <1>8, <1>9, <1>10, Zenon DEF InitTaken, NotTaken
<1>11. CASE f # 0
  <2>1. /\ r[f].serviceId = services[f].id /\ r[f].controlURL = services[f].control /\ r[f].eventSubURL = services[f].event
    BY <1>4, <1>7, <1>11
  <2>2. QED
    BY <1>8, <1>9, <1>11, <2>1, Zenon DEF InitTaken, NotTaken, MadeOf
<1>12. QED
  BY <1>10, <1>11

\* The services that are offered of the first types.
Offered(services, types, k) ==
  {i \in 1 .. Len(services) : /\ \A j \in 1 .. i - 1 : services[j].type # services[i].type
                              /\ services[i].event # Null
                              /\ \E m \in 1 .. k : services[i].type = types[m]}

TypesApart(types, n) == \A i, j \in 1 .. n : i # j => types[i] # types[j]

(* Of one type more there is one more, or none.                            *)
LEMMA OfferedMore ==
  ASSUME NEW services \in Seq(ServiceData), NEW types, NEW n \in Nat, TypesApart(types, n), NEW k \in Nat, k < n, NEW f,
         f = FirstService(services, types[k + 1])
  PROVE  /\ NotTaken(services, types[k + 1]) => Offered(services, types, k + 1) = Offered(services, types, k)
         /\ ~NotTaken(services, types[k + 1]) =>
              /\ Offered(services, types, k + 1) = Offered(services, types, k) \cup {f}
              /\ f \notin Offered(services, types, k) /\ f \in 1 .. Len(services) /\ services[f].type = types[k + 1]
<1>1. PICK t, S, l : t = types[k + 1] /\ S = OfType(services, t) /\ l = Len(services)
  OBVIOUS
<1>2. l \in Nat
  BY <1>1
<1>3. S \in SUBSET (Nat \ {0}) /\ \A i : i \in S <=> i \in 1 .. l /\ services[i].type = t
  BY <1>1, <1>2 DEF OfType
<1>4. f = FirstOf(S)
  BY <1>1, Zenon DEF FirstService
<1>5. /\ f = 0 <=> S = {}
      /\ S # {} => f \in S /\ \A y \in S : f <= y
  BY <1>3, <1>4, FirstOfIs
<1>6. NotTaken(services, t) <=> f = 0 \/ services[f].event = Null
  BY <1>1, Zenon DEF NotTaken
<1>7. PICK O, Q : O = Offered(services, types, k) /\ Q = Offered(services, types, k + 1)
  OBVIOUS
<1>8. \A i : i \in O <=> /\ i \in 1 .. l /\ \A j \in 1 .. i - 1 : services[j].type # services[i].type
                         /\ services[i].event # Null /\ \E m \in 1 .. k : services[i].type = types[m]
  BY <1>1, <1>7, Zenon DEF Offered
<1>9. \A i : i \in Q <=> /\ i \in 1 .. l /\ \A j \in 1 .. i - 1 : services[j].type # services[i].type
                         /\ services[i].event # Null /\ \E m \in 1 .. k + 1 : services[i].type = types[m]
  BY <1>1, <1>7, Zenon DEF Offered
<1>10. \A i : (\E m \in 1 .. k + 1 : services[i].type = types[m]) <=> (\E m \in 1 .. k : services[i].type = types[m]) \/ services[i].type = t
  BY <1>1
<1>11. ASSUME NEW i \in Q, i \notin O PROVE i = f
  <2>1. services[i].type = t /\ i \in 1 .. l /\ \A j \in 1 .. i - 1 : services[j].type # services[i].type
    BY <1>8, <1>9, <1>10, <1>11, Zenon
  <2>2. i \in S
    BY <1>3, <2>1
  <2>3. f \in S /\ f <= i
    BY <1>5, <2>2
  <2>4. services[f].type = t /\ f \in 1 .. l
    BY <1>3, <2>3
  <2>5. ~(f \in 1 .. i - 1)
    BY <2>1, <2>4
  <2>6. QED
    BY <1>2, <2>1, <2>3, <2>4, <2>5
<1>12. O \subseteq Q
  BY <1>8, <1>9, <1>10, Zenon
<1>13. CASE NotTaken(services, t)
  <2>1. ASSUME NEW i \in Q, i \notin O PROVE FALSE
    <3>1. i = f /\ services[i].event # Null /\ services[i].type = t /\ i \in 1 .. l
      BY <1>8, <1>9, <1>10, <1>11, <2>1, Zenon
    <3>2. i # 0
      BY <3>1
    <3>3. QED
      BY <1>6, <1>13, <3>1, <3>2
  <2>2. Q = O
    BY <1>12, <2>1
  <2>3. QED
    BY <1>1, <1>7, <1>13, <2>2
<1>14. CASE ~NotTaken(services, t)
  <2>1. f # 0 /\ services[f].event # Null
    BY <1>6, <1>14
  <2>2. f \in S /\ \A y \in S : f <= y
    BY <1>5, <2>1
  <2>3. f \in 1 .. l /\ services[f].type = t
    BY <1>3, <2>2
  <2>4. ASSUME NEW j \in 1 .. f - 1 PROVE services[j].type # services[f].type
    <3>1. j \in 1 .. l /\ ~(f <= j)
      BY <1>2, <2>3
    <3>2. j \notin S
      BY <2>2, <3>1
    <3>3. QED
      BY <1>3, <2>3, <3>1, <3>2
  <2>5. f \in Q
    BY <1>9, <1>10, <2>1, <2>3, <2>4, Zenon
  <2>6. f \notin O
    <3>1. ASSUME NEW m \in 1 .. k PROVE services[f].type # types[m]
      <4>1. m \in 1 .. n /\ k + 1 \in 1 .. n /\ m # k + 1
        OBVIOUS
      <4>2. types[m] # types[k + 1]
        BY <4>1 DEF TypesApart
      <4>3. QED
        BY <1>1, <2>3, <4>2
    <3>2. QED
      BY <1>8, <3>1, Zenon
  <2>7. Q = O \cup {f}
    BY <1>11, <1>12, <2>5
  <2>8. QED
    BY <1>1, <1>7, <1>14, <2>3, <2>6, <2>7
<1>15. QED
  BY <1>1, <1>13, <1>14

\* What is made of the services that are offered of the first types.
Given(made, services, types, base, k) ==
  /\ IsFiniteSet(Offered(services, types, k))
  /\ Len(made) = Cardinality(Offered(services, types, k))
  /\ \A i \in Offered(services, types, k) : \E j \in 1 .. Len(made) : made[j] = MadeOf(services[i], services[i].type, base)

(* One type more.                                                          *)
LEMMA GivenMore ==
  ASSUME NEW services \in Seq(ServiceData), NEW types, NEW n \in Nat, TypesApart(types, n), NEW k \in Nat, k < n, NEW base,
         NEW M, NEW made \in Seq(M), Given(made, services, types, base, k),
         NEW one, one = InitTaken(services, types[k + 1], base), one \in Seq(M), NEW more, IsBoth(made, one, more)
  PROVE  Given(more, services, types, base, k + 1)
<1>1. PICK O, Q, t, f : /\ O = Offered(services, types, k) /\ Q = Offered(services, types, k + 1) /\ t = types[k + 1]
                        /\ f = FirstService(services, types[k + 1])
  OBVIOUS
<1>2. /\ IsFiniteSet(O) /\ Len(made) = Cardinality(O)
      /\ \A i \in O : \E j \in 1 .. Len(made) : made[j] = MadeOf(services[i], services[i].type, base)
  BY <1>1, Zenon DEF Given
<1>3. /\ NotTaken(services, t) => Q = O
      /\ ~NotTaken(services, t) => /\ Q = O \cup {f} /\ f \notin O /\ services[f].type = t
  BY <1>1, OfferedMore
<1>4. more \in Seq(M) /\ Joined(made, one, more) /\ Len(made) \in Nat /\ Len(one) \in Nat /\ Len(more) = Len(made) + Len(one)
  BY BothElements
<1>5. \A j \in 1 .. Len(made) : more[j] = made[j] /\ j \in 1 .. Len(more)
  BY <1>4 DEF Joined
<1>6. \A i \in O : \E j \in 1 .. Len(more) : more[j] = MadeOf(services[i], services[i].type, base)
  BY <1>2, <1>5, Zenon
<1>7. CASE NotTaken(services, t)
  <2>1. one = << >>
    BY <1>1, <1>7, Zenon DEF InitTaken
  <2>2. Len(one) = 0
    BY <2>1
  <2>3. Len(more) = Len(made)
    BY <1>4, <2>2
  <2>4. QED
    BY <1>1, <1>2, <1>3, <1>6, <1>7, <2>3, Zenon DEF Given
<1>8. CASE ~NotTaken(services, t)
  <2>1. PICK m : m = MadeOf(services[f], t, base)
    OBVIOUS
  <2>2. one = << m >>
    BY <1>1, <1>8, <2>1, Zenon DEF InitTaken
  <2>3. Len(one) = 1 /\ one[1] = m
    BY <2>2
  <2>4. Len(more) = Len(made) + 1 /\ more[Len(made) + 1] = m /\ Len(made) + 1 \in 1 .. Len(more)
    BY <1>4, <2>3 DEF Joined
  <2>5. IsFiniteSet(Q) /\ Cardinality(Q) = Cardinality(O) + 1
    BY <1>2, <1>3, <1>8, FS_AddElement
  <2>6. Len(more) = Cardinality(Q)
    BY <1>2, <2>4, <2>5
  <2>7. \A i \in Q : \E j \in 1 .. Len(more) : more[j] = MadeOf(services[i], services[i].type, base)
    <3>1. more[Len(made) + 1] = MadeOf(services[f], services[f].type, base)
      BY <1>3, <1>8, <2>1, <2>4
    <3>2. \A i \in Q : i \in O \/ i = f
      BY <1>3, <1>8
    <3>3. QED
      BY <1>6, <2>4, <3>1, <3>2, Zenon
  <2>8. QED
    BY <1>1, <2>5, <2>6, <2>7, Zenon DEF Given
<1>9. QED
  BY <1>7, <1>8

-----------------------------------------------------------------------------
(* The services found.                                                     *)

\* What a device has of the services it described.
IsMade(made, services, types, base, n) ==
  /\ Len(made) = Cardinality(Offered(services, types, n))
  /\ \A i \in Offered(services, types, n) : MadeOf(services[i], services[i].type, base) \in Range(made)

(* A reversed sequence has the same elements.                              *)
LEMMA ReversedHas ==
  ASSUME NEW S, NEW s \in Seq(S), NEW r, r = Reverse(s)
  PROVE  Len(r) = Len(s) /\ \A j \in 1 .. Len(s) : s[j] \in Range(r)
<1>1. PICK n : n = Len(s)
  OBVIOUS
<1>2. n \in Nat /\ \A j \in 1 .. n : s[j] \in S
  BY <1>1
<1>3. r = [i \in 1 .. n |-> s[(n - i) + 1]]
  BY <1>1, Zenon DEF Reverse
<1>4. \A i \in 1 .. n : (n - i) + 1 \in 1 .. n
  BY <1>2
<1>5. r \in [1 .. n -> S]
  BY <1>2, <1>3, <1>4
<1>6. Len(r) = n
  BY <1>2, <1>5, FunctionIsSequence
<1>7. ASSUME NEW j \in 1 .. n PROVE s[j] \in Range(r)
  <2>1. PICK i : i = (n - j) + 1
    OBVIOUS
  <2>2. i \in 1 .. n /\ (n - i) + 1 = j
    BY <1>2, <2>1
  <2>3. i \in DOMAIN r /\ r[i] = s[j]
    BY <1>3, <2>2
  <2>4. QED
    BY <2>3 DEF Range
<1>8. QED
  BY <1>1, <1>6, <1>7

(* The services found are those that are offered.                          *)
LEMMA ServicesMade ==
  ASSUME NEW services \in Seq(ServiceData), NEW device, device.services = AllTaken(services), NEW base,
         NEW types, NEW n \in Nat, DOMAIN types = 1 .. n, TypesApart(types, n)
  PROVE  IsMade(ServicesInit(device, base, types), services, types, base, n)
<1>1. PICK parts, M : /\ parts = [t \in DOMAIN types |-> client_upnpd_service_init(device, base, types[t])]
                      /\ M = UNION {Range(InitTaken(services, types[t], base)) : t \in 1 .. n}
  OBVIOUS
<1>2. parts = [t \in 1 .. n |-> InitTaken(services, types[t], base)]
  <2>1. \A t : client_upnpd_service_init(device, base, types[t]) = InitTaken(services, types[t], base)
    BY InitIs
  <2>2. QED
    BY <1>1, <2>1, Zenon
<1>3. ASSUME NEW t \in 1 .. n PROVE InitTaken(services, types[t], base) \in Seq(M)
  <2>1. PICK x, y : x = InitTaken(services, types[t], base) /\ y = MadeOf(services[FirstService(services, types[t])], types[t], base)
    OBVIOUS
  <2>2. x = << >> \/ x = << y >>
    BY <2>1, Zenon DEF InitTaken
  <2>3. Range(x) \subseteq M
    BY <1>1, <2>1
  <2>4. CASE x = << >>
    <3>1. << >> \in Seq(M)
      OBVIOUS
    <3>2. QED
      BY <2>1, <2>4, <3>1
  <2>5. CASE x = << y >>
    <3>1. 1 \in DOMAIN x /\ x[1] = y
      BY <2>5
    <3>2. y \in M
      BY <2>3, <3>1 DEF Range
    <3>3. << y >> \in Seq(M)
      BY <3>2
    <3>4. QED
      BY <2>1, <2>5, <3>3
  <2>6. QED
    BY <2>2, <2>4, <2>5
<1>4. parts \in Seq(Seq(M)) /\ Len(parts) = n
  <2>1. parts \in [1 .. n -> Seq(M)]
    BY <1>2, <1>3
  <2>2. QED
    BY <2>1, FunctionIsSequence
<1> DEFINE P == {k \in 0 .. n : Given(FlattenSeq(SubSeq(parts, 1, k)), services, types, base, k)}
<1>5. 0 \in P
  <2>1. PICK e, O : e = << >> /\ O = Offered(services, types, 0)
    OBVIOUS
  <2>2. FlattenSeq(SubSeq(parts, 1, 0)) = e
    BY <1>4, <2>1, FlattenPrefix
  <2>3. O = {}
    <3>1. 1 .. 0 = {}
      OBVIOUS
    <3>2. QED
      BY <2>1, <3>1, Zenon DEF Offered
  <2>4. Len(e) = 0
    BY <2>1
  <2>5. IsFiniteSet(O) /\ Cardinality(O) = 0
    BY <2>3, FS_EmptySet
  <2>6. Given(e, services, types, base, 0)
    BY <2>1, <2>3, <2>4, <2>5, Zenon DEF Given
  <2>7. 0 \in 0 .. n
    OBVIOUS
  <2>8. QED
    BY <2>2, <2>6, <2>7
<1>6. ASSUME NEW k \in Nat, k < n, k \in P PROVE k + 1 \in P
  <2>1. PICK made, one, more : /\ made = FlattenSeq(SubSeq(parts, 1, k)) /\ one = parts[k + 1]
                               /\ more = FlattenSeq(SubSeq(parts, 1, k + 1))
    OBVIOUS
  <2>2. k + 1 \in 1 .. n /\ k + 1 \in 0 .. n /\ k <= n
    BY <1>6
  <2>3. made \in Seq(M) /\ one \in Seq(M) /\ IsBoth(made, one, more)
    <3>1. /\ \A i \in Nat : i <= Len(parts) => FlattenSeq(SubSeq(parts, 1, i)) \in Seq(M)
          /\ \A i \in Nat : i < Len(parts) => /\ parts[i + 1] \in Seq(M)
                                              /\ FlattenSeq(SubSeq(parts, 1, i + 1)) = FlattenSeq(SubSeq(parts, 1, i)) \o parts[i + 1]
      BY <1>4, FlattenPrefix, Zenon
    <3>2. k <= Len(parts) /\ k < Len(parts)
      BY <1>4, <1>6, <2>2
    <3>3. /\ FlattenSeq(SubSeq(parts, 1, k)) \in Seq(M) /\ parts[k + 1] \in Seq(M)
          /\ FlattenSeq(SubSeq(parts, 1, k + 1)) = FlattenSeq(SubSeq(parts, 1, k)) \o parts[k + 1]
      BY <1>6, <3>1, <3>2, Zenon
    <3>4. QED
      BY <2>1, <3>3, Zenon DEF IsBoth
  <2>4. one = InitTaken(services, types[k + 1], base)
    BY <1>2, <2>1, <2>2, Zenon
  <2>5. Given(made, services, types, base, k)
    BY <1>6, <2>1
  <2>6. Given(more, services, types, base, k + 1)
    BY <1>6, <2>3, <2>4, <2>5, GivenMore
  <2>7. QED
    BY <2>1, <2>2, <2>6
<1> HIDE DEF P
<1>7. n \in P
  <2>1. \A k \in 0 .. n : k \in P
    BY <1>5, <1>6, UpTo
  <2>2. QED
    BY <2>1
<1>8. PICK s, r : s = FlattenSeq(parts) /\ r = Reverse(s)
  OBVIOUS
<1>9. SubSeq(parts, 1, n) = parts
  BY <1>4, FlattenPrefix
<1>10. Given(s, services, types, base, n)
  BY <1>7, <1>8, <1>9 DEF P
<1>11. s \in Seq(M)
  BY <1>4, <1>8, FlattenAppend
<1>12. Len(r) = Len(s) /\ \A j \in 1 .. Len(s) : s[j] \in Range(r)
  BY <1>8, <1>11, ReversedHas
<1>13. ServicesInit(device, base, types) = r
  BY <1>1, <1>8, Zenon DEF ServicesInit
<1>14. IsMade(r, services, types, base, n)
  BY <1>10, <1>12, Zenon DEF Given, IsMade
<1>15. QED
  BY <1>13, <1>14

-----------------------------------------------------------------------------
(* What is made of an advertisement.                                       *)

\* Three types of services, no two of them the same.
ThreeTypes(types) == DOMAIN types = 1 .. 3 /\ TypesApart(types, 3)

(* The tables of the services looked for.                                  *)
LEMMA TablesApart == ThreeTypes(mediaserver_services) /\ ThreeTypes(mediarenderer_services)
<1>1. /\ << "ContentDirectory" >> # << "ConnectionManager" >> /\ << "ContentDirectory" >> # << "AVTransport" >>
      /\ << "ConnectionManager" >> # << "AVTransport" >> /\ << "ConnectionManager" >> # << "RenderingControl" >>
      /\ << "AVTransport" >> # << "RenderingControl" >>
  OBVIOUS
<1>2. PICK a, b, c, d : /\ a = << "ContentDirectory" >> /\ b = << "ConnectionManager" >>
                        /\ c = << "AVTransport" >> /\ d = << "RenderingControl" >>
  OBVIOUS
<1>3. mediaserver_services = << a, b, c >> /\ mediarenderer_services = << b, c, d >>
  BY <1>2, Zenon DEF mediaserver_services, mediarenderer_services
<1>4. a # b /\ a # c /\ b # c /\ b # d /\ c # d
  BY <1>1, <1>2, Zenon
<1>5. ASSUME NEW x, NEW y, NEW z, x # y, x # z, y # z PROVE ThreeTypes(<< x, y, z >>)
  <2>1. PICK t : t = << x, y, z >>
    OBVIOUS
  <2>2. DOMAIN t = 1 .. 3 /\ t[1] = x /\ t[2] = y /\ t[3] = z
    BY <2>1
  <2>3. TypesApart(t, 3)
    BY <1>5, <2>2 DEF TypesApart
  <2>4. QED
    BY <2>1, <2>2, <2>3, Zenon DEF ThreeTypes
<1>6. ThreeTypes(<< a, b, c >>) /\ ThreeTypes(<< b, c, d >>)
  BY <1>4, <1>5
<1>7. QED
  BY <1>3, <1>6, Zenon

(* For every type looked for there is an entry in the table.               *)
LEMMA ServicesLookedFor ==
  ASSUME NEW type \in Sought
  PROVE  ThreeTypes(ServicesFor(type))
<1>1. PICK t, S, f : /\ t = controller_devices /\ S = {i \in 1 .. Len(t) : t[i].device = type} /\ f = FirstOf(S)
  OBVIOUS
<1>2. /\ Len(t) = 4 /\ DOMAIN t = 1 .. 4
      /\ \A i \in 1 .. 4 : t[i].services \in {mediaserver_services, mediarenderer_services}
  BY <1>1 DEF controller_devices
<1>3. \E i \in DOMAIN t : t[i].device = type
  BY <1>1 DEF Sought
<1>4. S # {} /\ S \in SUBSET (Nat \ {0})
  BY <1>1, <1>2, <1>3
<1>5. f \in S
  BY <1>1, <1>4, FirstOfIs
<1>6. f \in 1 .. 4
  BY <1>1, <1>2, <1>5
<1>7. ServicesFor(type) = t[f].services
  BY <1>1, Zenon DEF ServicesFor, SelectInSeq, FirstOf
<1>8. ServicesFor(type) = mediaserver_services \/ ServicesFor(type) = mediarenderer_services
  BY <1>2, <1>6, <1>7
<1>9. QED
  BY <1>8, TablesApart, Zenon

(* The device of a description, the only one, is the last with the texts.  *)
LEMMA LastDevice ==
  ASSUME NEW data, NEW told, data.devices = << told >>, Null \notin {told.UDN, told.deviceType, told.friendlyName}
  PROVE  data.devices[SelectLastInSeq(data.devices, LAMBDA d : Null \notin {d.UDN, d.deviceType, d.friendlyName})] = told
<1>1. PICK t, S : /\ t = data.devices
                  /\ S = {i \in 1 .. Len(t) : Null \notin {t[i].UDN, t[i].deviceType, t[i].friendlyName}}
  OBVIOUS
<1>2. Len(t) = 1 /\ t[1] = told
  BY <1>1
<1>3. 1 .. 1 = {1} /\ 1 >= 1
  OBVIOUS
<1>4. S = {1}
  <2>1. Null \notin {t[1].UDN, t[1].deviceType, t[1].friendlyName}
    BY <1>2, Zenon
  <2>2. S = {i \in {1} : Null \notin {t[i].UDN, t[i].deviceType, t[i].friendlyName}}
    BY <1>1, <1>2, <1>3, Zenon
  <2>3. QED
    BY <2>1, <2>2, Zenon
<1>5. Max(S) = 1
  BY <1>3, <1>4, Zenon DEF Max
<1>6. S # {}
  BY <1>4
<1>7. SelectLastInSeq(data.devices, LAMBDA d : Null \notin {d.UDN, d.deviceType, d.friendlyName}) = 1
  BY <1>1, <1>5, <1>6, Zenon DEF SelectLastInSeq
<1>8. QED
  BY <1>1, <1>2, <1>7, Zenon

\* What is made of a description that has one device.
DeviceIs(made, told, location, types, base) ==
  /\ made.name = told.friendlyName /\ made.uuid = told.UDN /\ made.location = location
  /\ made.services = ServicesInit(told, base, types)

(* It is made of its texts and of the services looked for, whose urls are  *)
(* relative to its base or else to its location.                           *)
LEMMA MadeOfOne ==
  ASSUME NEW data, NEW told, data.devices = << told >>, Null \notin {told.UDN, told.deviceType, told.friendlyName},
         NEW location, NEW types
  PROVE  DeviceIs(DeviceFrom(data, location, types), told, location, types, IF data.URLBase # Null THEN data.URLBase ELSE location)
<1>1. data.devices[SelectLastInSeq(data.devices, LAMBDA d : Null \notin {d.UDN, d.deviceType, d.friendlyName})] = told
  BY LastDevice
<1>2. PICK base : base = IF data.URLBase # Null THEN data.URLBase ELSE location
  OBVIOUS
<1>3. DeviceFrom(data, location, types) = [name |-> told.friendlyName, uuid |-> told.UDN, location |-> location,
                                            services |-> ServicesInit(told, base, types)]
  BY <1>1, <1>2, Zenon DEF DeviceFrom
<1>4. DeviceIs(DeviceFrom(data, location, types), told, location, types, base)
  <2>1. PICK made, n, u, s : /\ made = DeviceFrom(data, location, types) /\ n = told.friendlyName /\ u = told.UDN
                             /\ s = ServicesInit(told, base, types)
    OBVIOUS
  <2>2. made = [name |-> n, uuid |-> u, location |-> location, services |-> s]
    BY <1>3, <2>1, Zenon
  <2>3. made.name = n /\ made.uuid = u /\ made.location = location /\ made.services = s
    BY <2>2
  <2>4. QED
    BY <2>1, <2>3, Zenon DEF DeviceIs
<1>5. QED
  BY <1>2, <1>4, Zenon

(* An advertisement is of a device, at one of its hosts.                   *)
LEMMA AdvertisedFrom ==
  ASSUME NEW a \in Advertisements
  PROVE  a.uuid \in Devices /\ \E n \in DOMAIN Hosts[a.uuid] : a.location = Location(a.uuid, n)
<1>1. PICK d \in Devices : a \in [uuid : {d}, device : {Document[d].device.type[1], "upnp:rootdevice"},
                                  location : {Location(d, n) : n \in DOMAIN Hosts[d]}]
  BY DEF Advertisements
<1>2. a.uuid = d /\ a.location \in {Location(d, n) : n \in DOMAIN Hosts[d]}
  BY <1>1
<1>3. QED
  BY <1>2

(* What is said of a device and the types that are looked for: the same    *)
(* services are offered.                                                   *)
LEMMA OfferedIs ==
  ASSUME NEW d, NEW types, ThreeTypes(types)
  PROVE  {i \in 1 .. Len(Document[d].device.services) :
            /\ FirstOfType(d, i) /\ Document[d].device.services[i].event # Null
            /\ Document[d].device.services[i].type \in Range(types)}
           = Offered(Document[d].device.services, types, 3)
<1>1. PICK s, l, R : s = Document[d].device.services /\ l = 1 .. Len(s) /\ R = Range(types)
  OBVIOUS
<1>2. \A x : x \in R <=> \E m \in 1 .. 3 : x = types[m]
  BY <1>1 DEF Range, ThreeTypes
<1>3. \A i : FirstOfType(d, i) <=> \A j \in 1 .. i - 1 : s[j].type # s[i].type
  BY <1>1, Zenon DEF FirstOfType
<1>4. PICK P : P = {i \in l : FirstOfType(d, i) /\ s[i].event # Null /\ s[i].type \in R}
  OBVIOUS
<1>5. PICK Q : Q = Offered(s, types, 3)
  OBVIOUS
<1>6. \A i : i \in Q <=> /\ i \in l /\ \A j \in 1 .. i - 1 : s[j].type # s[i].type
                         /\ s[i].event # Null /\ \E m \in 1 .. 3 : s[i].type = types[m]
  BY <1>1, <1>5, Zenon DEF Offered
<1>7. \A i : i \in P <=> i \in l /\ FirstOfType(d, i) /\ s[i].event # Null /\ s[i].type \in R
  BY <1>4, Zenon
<1>8. \A i : i \in P <=> i \in Q
  BY <1>2, <1>3, <1>6, <1>7, Zenon
<1>9. P = Q
  BY <1>8
<1>10. QED
  BY <1>1, <1>4, <1>5, <1>9, Zenon

(* The services made are at the host of the base.                          *)
LEMMA MadeOnHost ==
  ASSUME NEW service \in ServiceData, NEW base, NEW host, OnHost(base, host)
  PROVE  LET s == MadeOf(service, service.type, base)
         IN /\ s.type = service.type /\ s.id = service.id
            /\ IsUrl(s.controlurl, host, service.control) /\ IsUrl(s.eventurl, host, service.event)
<1>1. PICK s, t, i, c, e : /\ s = MadeOf(service, service.type, base) /\ t = service.type /\ i = service.id
                           /\ c = Resolve(base, service.control) /\ e = Resolve(base, service.event)
  OBVIOUS
<1>2. s = [type |-> t, id |-> i, controlurl |-> c, eventurl |-> e]
  BY <1>1, Zenon DEF MadeOf
<1>3. s.type = t /\ s.id = i /\ s.controlurl = c /\ s.eventurl = e
  BY <1>2
<1>4. service.control \in Seq(STRING) /\ service.event \in Seq(STRING)
  BY DEF ServiceData, Text
<1>5. IsUrl(c, host, service.control) /\ IsUrl(e, host, service.event)
  BY <1>1, <1>4, ResolvedIsUrl
<1>6. QED
  BY <1>1, <1>3, <1>5, Zenon

\* A device is at a host where it is described.
HasHost(location, host) == location = << "http://", host, "/", "description.xml" >>

(* The base of the urls is on the host, whether the description has it or  *)
(* not.                                                                    *)
LEMMA BaseOnHost ==
  ASSUME NEW urlbase \in BOOLEAN, NEW host, host # "/", NEW location, HasHost(location, host)
  PROVE  OnHost(IF BaseOf(urlbase, host) # Null THEN BaseOf(urlbase, host) ELSE location, host)
<1>1. PICK b : b = << "http://", host >>
  OBVIOUS
<1>2. b # Null
  BY <1>1 DEF Null
<1>3. OnHost(b, host) /\ OnHost(location, host)
  <2>1. OnHost(<< "http://", host >>, host) /\ OnHost(<< "http://", host, "/", "description.xml" >>, host)
    BY HostIs
  <2>2. QED
    BY <1>1, <2>1, Zenon DEF HasHost
<1>4. CASE urlbase
  <2>1. BaseOf(urlbase, host) = b
    BY <1>1, <1>4, Zenon DEF BaseOf
  <2>2. QED
    BY <1>2, <1>3, <2>1, Zenon
<1>5. CASE ~urlbase
  <2>1. BaseOf(urlbase, host) = Null
    BY <1>5, Zenon DEF BaseOf
  <2>2. QED
    BY <1>3, <2>1, Zenon
<1>6. QED
  BY <1>4, <1>5

(* What is made of an advertisement is what the description says.          *)
LEMMA OutcomeIs ==
  ASSUME NEW o \in Outcomes
  PROVE  /\ AsDescribed(o.device, o.advertisement.uuid, o.advertisement.device)
         /\ o.device.location = o.advertisement.location
<1>1. PICK a \in Advertisements :
        /\ a.device \in Sought
        /\ o = [advertisement |-> a,
                device |-> DeviceFrom(ParsedDescription(DescriptionText(Document[a.uuid], a.location[2])), a.location, ServicesFor(a.device))]
  BY Zenon DEF Outcomes
<1>2. PICK d, types, doc, told, made, location :
        /\ d = a.uuid /\ types = ServicesFor(a.device) /\ doc = Document[d] /\ told = doc.device /\ made = o.device /\ location = a.location
  OBVIOUS
<1>3. o.advertisement = a /\ made = DeviceFrom(ParsedDescription(DescriptionText(doc, location[2])), location, types)
  <2>1. PICK x : x = DeviceFrom(ParsedDescription(DescriptionText(Document[a.uuid], a.location[2])), a.location, ServicesFor(a.device))
    OBVIOUS
  <2>2. o = [advertisement |-> a, device |-> x]
    BY <1>1, <2>1, Zenon
  <2>3. o.advertisement = a /\ o.device = x
    BY <2>2
  <2>4. QED
    BY <1>2, <2>1, <2>3, Zenon
<1>4. d \in Devices /\ \E n \in DOMAIN Hosts[d] : location = Location(d, n)
  BY <1>2, AdvertisedFrom, Zenon
<1>5. PICK n \in DOMAIN Hosts[d] : location = Location(d, n)
  BY <1>4
<1>6. /\ Hosts[d] \in Seq(STRING \ {"/"}) /\ told.udn = << d >>
      /\ doc \in [urlbase : BOOLEAN, device : DeviceData, embedded : Seq(DeviceData)]
  BY <1>2, <1>4, ClientAssumption, Zenon
<1>7. PICK host : host = Hosts[d][n]
  OBVIOUS
<1>8. host \in STRING /\ host # "/"
  BY <1>6, <1>7
<1>9. HasHost(location, host) /\ location[2] = host
  <2>1. location = << "http://", host, "/", "description.xml" >>
    BY <1>5, <1>7, Zenon DEF Location
  <2>2. location[2] = host
    BY <2>1
  <2>3. QED
    BY <2>1, <2>2, Zenon DEF HasHost
<1>10. told \in DeviceData /\ doc.urlbase \in BOOLEAN
  BY <1>2, <1>6
<1>11. PICK data, first, base, own : /\ data = ParsedDescription(DescriptionText(doc, host)) /\ first = BaseOf(doc.urlbase, host)
                                     /\ base = IF first # Null THEN first ELSE location
                                     /\ own = Described(told.type, told.udn, told.name, AllTaken(told.services))
  OBVIOUS
<1>12. data = DeviceTold(first, told)
  BY <1>2, <1>6, <1>8, <1>11, DescriptionIsParsed
<1>13. data.URLBase = first /\ data.devices = << own >>
  <2>1. PICK w : w = << own >>
    OBVIOUS
  <2>2. data = [URLBase |-> first, devices |-> w]
    BY <1>11, <1>12, <2>1, Zenon DEF DeviceTold, State, OneDevice, Parsed
  <2>3. data.URLBase = first /\ data.devices = w
    BY <2>2
  <2>4. QED
    BY <2>1, <2>3, Zenon
<1>14. /\ own.UDN = told.udn /\ own.deviceType = told.type /\ own.friendlyName = told.name
       /\ own.services = AllTaken(told.services)
  <2>1. PICK t, u, m, s : t = told.type /\ u = told.udn /\ m = told.name /\ s = AllTaken(told.services)
    OBVIOUS
  <2>2. own = [deviceType |-> t, UDN |-> u, friendlyName |-> m, services |-> s]
    BY <1>11, <2>1, Zenon DEF Described
  <2>3. own.deviceType = t /\ own.UDN = u /\ own.friendlyName = m /\ own.services = s
    BY <2>2
  <2>4. QED
    BY <2>1, <2>3, Zenon
<1>15. told.type # Null /\ told.name # Null /\ told.udn # Null /\ told.services \in Seq(ServiceData)
  <2>1. told.type # Null /\ told.name # Null /\ told.services \in Seq(ServiceData)
    BY <1>10, DeviceTexts
  <2>2. << d >> # Null
    BY DEF Null
  <2>3. QED
    BY <1>6, <2>1, <2>2, Zenon
<1>16. Null \notin {own.UDN, own.deviceType, own.friendlyName}
  BY <1>14, <1>15, Zenon
<1>17. DeviceIs(made, own, location, types, base)
  <2>1. made = DeviceFrom(data, location, types)
    BY <1>3, <1>9, <1>11, Zenon
  <2>2. DeviceIs(DeviceFrom(data, location, types), own, location, types, IF data.URLBase # Null THEN data.URLBase ELSE location)
    BY <1>13, <1>16, MadeOfOne
  <2>3. base = IF data.URLBase # Null THEN data.URLBase ELSE location
    BY <1>11, <1>13, Zenon
  <2>4. QED
    BY <2>1, <2>2, <2>3, Zenon
<1>18. OnHost(base, host)
  <2>1. OnHost(IF BaseOf(doc.urlbase, host) # Null THEN BaseOf(doc.urlbase, host) ELSE location, host)
    BY <1>8, <1>9, <1>10, BaseOnHost
  <2>2. QED
    BY <1>11, <2>1, Zenon
<1>19. ThreeTypes(types)
  BY <1>1, <1>2, ServicesLookedFor, Zenon
<1>20. PICK services, offered, list3 : services = told.services /\ offered = Offered(services, types, 3) /\ list3 = made.services
  OBVIOUS
<1>21. IsMade(list3, services, types, base, 3)
  <2>1. list3 = ServicesInit(own, base, types)
    BY <1>17, <1>20, Zenon DEF DeviceIs
  <2>2. services \in Seq(ServiceData) /\ own.services = AllTaken(services)
    BY <1>14, <1>15, <1>20, Zenon
  <2>3. 3 \in Nat /\ DOMAIN types = 1 .. 3 /\ TypesApart(types, 3)
    BY <1>19, SMT DEF ThreeTypes
  <2>4. IsMade(ServicesInit(own, base, types), services, types, base, 3)
    BY <2>2, <2>3, ServicesMade
  <2>5. QED
    BY <2>1, <2>4, Zenon
<1>22. /\ Len(list3) = Cardinality(offered)
       /\ \A i \in offered : MadeOf(services[i], services[i].type, base) \in Range(list3)
  BY <1>20, <1>21, Zenon DEF IsMade
<1>23. ASSUME NEW i \in offered
       PROVE  \E s \in Range(list3) : /\ s.type = services[i].type /\ s.id = services[i].id
                                      /\ IsUrl(s.controlurl, host, services[i].control)
                                      /\ IsUrl(s.eventurl, host, services[i].event)
  <2>1. PICK service : service = services[i]
    OBVIOUS
  <2>2. service \in ServiceData
    <3>1. i \in 1 .. Len(services)
      BY <1>20, <1>23, Zenon DEF Offered
    <3>2. services \in Seq(ServiceData)
      BY <1>15, <1>20
    <3>3. QED
      BY <2>1, <3>1, <3>2
  <2>3. LET s == MadeOf(service, service.type, base)
        IN /\ s.type = service.type /\ s.id = service.id
           /\ IsUrl(s.controlurl, host, service.control) /\ IsUrl(s.eventurl, host, service.event)
    BY <1>18, <2>2, MadeOnHost
  <2>4. QED
    BY <1>22, <1>23, <2>1, <2>3, Zenon
<1>24. offered = {i \in 1 .. Len(Document[d].device.services) :
                    /\ FirstOfType(d, i) /\ Document[d].device.services[i].event # Null
                    /\ Document[d].device.services[i].type \in Range(ServicesFor(a.device))}
  BY <1>2, <1>19, <1>20, OfferedIs, Zenon
<1>25. made.uuid = << d >> /\ made.name = Document[d].device.name /\ made.location = location
  BY <1>2, <1>6, <1>14, <1>17, Zenon DEF DeviceIs
<1>26. AsDescribed(made, d, a.device)
  BY <1>2, <1>9, <1>20, <1>22, <1>23, <1>24, <1>25, Zenon DEF AsDescribed
<1>27. QED
  BY <1>2, <1>3, <1>25, <1>26, Zenon

-----------------------------------------------------------------------------
(* A list in the order of names.                                           *)

\* A list without repetition, in the order of the names.
InNameOrder(l, N) == \A i, j \in 1 .. Len(l) : i < j => l[i] # l[j] /\ ~Greater(N[l[i]], N[l[j]])

\* A place for a name in such a list.
PlaceFor(l, N, p, name) ==
  /\ \A i \in 1 .. Len(l) : i < p => ~Greater(N[l[i]], name)
  /\ p <= Len(l) => Greater(N[l[p]], name)

(* An insertion at the place of its name keeps the order.                  *)
LEMMA InsertedInNameOrder ==
  ASSUME NEW S, NEW l \in Seq(S), NEW e \in S, e \notin Range(l), NEW N, \A x \in Range(l) \cup {e} : N[x] \in Seq(Nat),
         InNameOrder(l, N), NEW p \in 1 .. Len(l) + 1, PlaceFor(l, N, p, N[e]), NEW r \in Seq(S), Inserted(l, p, e, r)
  PROVE  InNameOrder(r, N)
<1>1. From(l, p, e, r)
  BY InsertedFrom
<1>2. Len(l) \in Nat /\ \A k \in 1 .. Len(l) : l[k] \in Range(l) /\ l[k] # e
  BY DEF Range
<1>3. \A k \in 1 .. Len(l) : N[l[k]] \in Seq(Nat)
  BY <1>2
<1>4. N[e] \in Seq(Nat)
  OBVIOUS
<1>5. ASSUME NEW k \in 1 .. Len(l), k >= p PROVE ~Greater(N[e], N[l[k]])
  <2>1. p \in 1 .. Len(l) /\ Greater(N[l[p]], N[e])
    BY <1>2, <1>5 DEF PlaceFor
  <2>2. SUFFICES ASSUME Greater(N[e], N[l[k]]) PROVE FALSE
    OBVIOUS
  <2>3. Greater(N[l[p]], N[l[k]])
    BY <1>3, <1>4, <2>1, <2>2, GreaterTransitive
  <2>4. CASE k = p
    BY <1>3, <2>3, <2>4, GreaterStrict
  <2>5. CASE k # p
    <3>1. p < k
      BY <1>5, <2>5
    <3>2. ~Greater(N[l[p]], N[l[k]])
      BY <2>1, <3>1 DEF InNameOrder
    <3>3. QED
      BY <2>3, <3>2
  <2>6. QED
    BY <2>4, <2>5
<1>6. \A k \in 1 .. Len(l) : k < p => ~Greater(N[l[k]], N[e])
  BY DEF PlaceFor
<1>7. ASSUME NEW i \in 1 .. Len(r), NEW j \in 1 .. Len(r), i < j
      PROVE  r[i] # r[j] /\ ~Greater(N[r[i]], N[r[j]])
  <2>1. PICK x, y : x = r[i] /\ y = r[j]
    OBVIOUS
  <2>2. /\ \/ i < p /\ i \in 1 .. Len(l) /\ x = l[i]
           \/ i = p /\ x = e
           \/ i > p /\ i - 1 \in 1 .. Len(l) /\ x = l[i - 1]
        /\ \/ j < p /\ j \in 1 .. Len(l) /\ y = l[j]
           \/ j = p /\ y = e
           \/ j > p /\ j - 1 \in 1 .. Len(l) /\ y = l[j - 1]
    BY <1>1, <2>1 DEF From
  <2>3. ASSUME NEW k \in 1 .. Len(l), NEW m \in 1 .. Len(l), k < m, x = l[k], y = l[m] PROVE x # y /\ ~Greater(N[x], N[y])
    BY <2>3 DEF InNameOrder
  <2>4. CASE x = e
    <3>1. i = p
      BY <1>2, <2>2, <2>4
    <3>2. j > p /\ j - 1 \in 1 .. Len(l) /\ y = l[j - 1]
      BY <1>7, <2>2, <3>1
    <3>3. PICK k : k = j - 1
      OBVIOUS
    <3>4. k \in 1 .. Len(l) /\ k >= p /\ y = l[k]
      BY <3>2, <3>3
    <3>5. y # e /\ ~Greater(N[e], N[y])
      BY <1>2, <1>5, <3>4
    <3>6. QED
      BY <2>1, <2>4, <3>5
  <2>5. CASE y = e
    <3>1. j = p
      BY <1>2, <2>2, <2>5
    <3>2. i < p /\ i \in 1 .. Len(l) /\ x = l[i]
      BY <1>7, <2>2, <3>1
    <3>3. x # e /\ ~Greater(N[x], N[e])
      BY <1>2, <1>6, <3>2
    <3>4. QED
      BY <2>1, <2>5, <3>3
  <2>6. CASE x # e /\ y # e
    <3>1. PICK k : k = IF i < p THEN i ELSE i - 1
      OBVIOUS
    <3>2. PICK m : m = IF j < p THEN j ELSE j - 1
      OBVIOUS
    <3>3. k \in 1 .. Len(l) /\ m \in 1 .. Len(l) /\ k < m /\ x = l[k] /\ y = l[m]
      BY <1>7, <2>2, <2>6, <3>1, <3>2
    <3>4. QED
      BY <2>1, <2>3, <3>3
  <2>7. QED
    BY <2>4, <2>5, <2>6
<1>8. QED
  BY <1>7, Zenon DEF InNameOrder

-----------------------------------------------------------------------------
(* The list of devices.                                                    *)

\* The names of what is listed.
NameOf == [d \in Devices |-> known[d].name]

\* The parts of the invariant.
InOrderInv == \A i, j \in 1 .. Len(list) : i < j => list[i] # list[j] /\ ~Greater(known[list[i]].name, known[list[j]].name)
ToldInv(d) == AsDescribed(known[d], d, heard[d]) /\ \E n \in 1 .. at[d] : known[d].location = Location(d, n)

(* The invariant, in its parts.                                            *)
LEMMA ListInvIs == ListInv <=> HandledInv /\ InOrderInv /\ \A d \in Listed : ToldInv(d)
  BY Zenon DEF ListInv, ListedAsDescribed, InOrderInv, ToldInv

(* The list is empty at first.                                             *)
LEMMA InitListInv == Init => ListInv
<1> SUFFICES ASSUME Init PROVE ListInv
  OBVIOUS
<1>1. list = << >> /\ ssdp = "none" /\ at = [d \in Devices |-> 1]
  BY DEF Init
<1>2. DOMAIN known = Devices /\ DOMAIN heard = Devices
  BY DEF Init
<1>3. Listed = {} /\ 1 .. Len(list) = {}
  BY <1>1 DEF Listed
<1>4. HandledInv
  BY <1>1, <1>2 DEF HandledInv
<1>5. InOrderInv
  BY <1>3, Zenon DEF InOrderInv
<1>6. QED
  BY <1>3, <1>4, <1>5, ListInvIs, Zenon

(* What is left of the list is as it was.                                  *)
LEMMA WithoutAsDescribed ==
  ASSUME DevicesInv, ListInv, NEW gone, Without(gone), at' = at
  PROVE  InOrderInv' /\ (\A d \in Listed' : ToldInv(d)') /\ Listed' \subseteq Listed
         /\ DOMAIN known' = Devices /\ DOMAIN heard' = Devices
<1>1. HandledInv /\ InOrderInv /\ \A d \in Listed : ToldInv(d)
  BY ListInvIs, Zenon
<1>2. /\ known' = [d \in Devices |-> IF d \in gone THEN NoDevice ELSE known[d]]
      /\ heard' = [d \in Devices |-> IF d \in gone THEN "" ELSE heard[d]]
  BY Zenon DEF Without
<1>3. Listed \subseteq Devices
  BY DEF DevicesInv, Listed
<1>4. \A d \in Listed \ gone : known'[d] = known[d] /\ heard'[d] = heard[d]
  BY <1>2, <1>3
<1>5. /\ list' \in Seq(Listed \ gone)
      /\ \A i, j \in 1 .. Len(list') : i < j => \E k, m \in 1 .. Len(list) : k < m /\ list[k] = list'[i] /\ list[m] = list'[j]
  BY WithoutIs
<1>6. \A i \in 1 .. Len(list') : list'[i] \in Listed \ gone
  BY <1>5
<1>7. Listed' \subseteq Listed \ gone
  BY <1>6 DEF Listed
<1>8. InOrderInv'
  <2>1. ASSUME NEW i \in 1 .. Len(list'), NEW j \in 1 .. Len(list'), i < j
        PROVE  list'[i] # list'[j] /\ ~Greater(known'[list'[i]].name, known'[list'[j]].name)
    <3>1. PICK k \in 1 .. Len(list), m \in 1 .. Len(list) : k < m /\ list[k] = list'[i] /\ list[m] = list'[j]
      BY <1>5, <2>1, Zenon
    <3>2. known'[list'[i]] = known[list[k]] /\ known'[list'[j]] = known[list[m]]
      BY <1>4, <1>6, <2>1, <3>1
    <3>3. list[k] # list[m] /\ ~Greater(known[list[k]].name, known[list[m]].name)
      BY <1>1, <3>1, Zenon DEF InOrderInv
    <3>4. QED
      BY <3>1, <3>2, <3>3, Zenon
  <2>2. QED
    BY <2>1, Zenon DEF InOrderInv
<1>9. ASSUME NEW d \in Listed' PROVE ToldInv(d)'
  <2>1. d \in Listed /\ known'[d] = known[d] /\ heard'[d] = heard[d]
    BY <1>4, <1>7
  <2>2. AsDescribed(known[d], d, heard[d]) /\ \E n \in 1 .. at[d] : known[d].location = Location(d, n)
    BY <1>1, <2>1, Zenon DEF ToldInv
  <2>3. AsDescribed(known'[d], d, heard'[d]) /\ \E n \in 1 .. at'[d] : known'[d].location = Location(d, n)
    BY <2>1, <2>2, Zenon
  <2>4. QED
    BY <2>3, Zenon DEF ToldInv
<1>10. DOMAIN known' = Devices /\ DOMAIN heard' = Devices
  BY <1>2
<1>11. QED
  BY <1>7, <1>8, <1>9, <1>10, Zenon

(* A device that is downloaded goes where its name belongs, and is known   *)
(* as it is described.                                                     *)
LEMMA InsertedAsDescribed ==
  ASSUME DevicesInv, ListInv, NEW d \in Devices, d \notin Listed, NEW o \in Outcomes, o.advertisement.uuid = d,
         o.advertisement.location = Location(d, at[d]), list' = InsertAt(list, Place(o.device.name), d),
         known' = [known EXCEPT ![d] = o.device], heard' = [heard EXCEPT ![d] = o.advertisement.device], at' = at
  PROVE  InOrderInv' /\ (\A e \in Listed' : ToldInv(e)') /\ DOMAIN known' = Devices /\ DOMAIN heard' = Devices
<1>1. HandledInv /\ InOrderInv /\ \A e \in Listed : ToldInv(e)
  BY ListInvIs, Zenon
<1>2. PICK device, type, p : device = o.device /\ type = o.advertisement.device /\ p = Place(o.device.name)
  OBVIOUS
<1>3. AsDescribed(device, d, type) /\ device.location = Location(d, at[d])
  BY <1>2, OutcomeIs, Zenon
<1>4. list \in Seq(Devices) /\ Listed \subseteq Devices
  BY DEF DevicesInv, Listed
<1>5. DOMAIN known = Devices /\ DOMAIN heard = Devices
  BY <1>1 DEF HandledInv
<1>6. known' = [known EXCEPT ![d] = device] /\ heard' = [heard EXCEPT ![d] = type]
  BY <1>2, Zenon
<1>7. /\ known'[d] = device /\ heard'[d] = type /\ DOMAIN known' = Devices /\ DOMAIN heard' = Devices
      /\ \A e \in Listed : known'[e] = known[e] /\ heard'[e] = heard[e]
  BY <1>4, <1>5, <1>6
<1>8. \A e \in Devices : \A b, t : AsDescribed(b, e, t) => b.name \in Seq(Nat)
  <2>1. \A e \in Devices : \A b, t : AsDescribed(b, e, t) => b.name = Document[e].device.name
    BY Zenon DEF AsDescribed
  <2>2. \A e \in Devices : Document[e].device \in DeviceData
    <3>1. \A e \in Devices : Document[e] \in [urlbase : BOOLEAN, device : DeviceData, embedded : Seq(DeviceData)]
      BY ClientAssumption, Zenon
    <3>2. QED
      BY <3>1
  <2>3. \A x \in DeviceData : x.name \in Seq(Nat)
    BY DEF DeviceData
  <2>4. QED
    BY <2>1, <2>2, <2>3, Zenon
<1>9. PICK N, r : N = NameOf' /\ r = list'
  OBVIOUS
<1>10. N[d] = device.name /\ \A e \in Listed : N[e] = known[e].name
  <2>1. N = [e \in Devices |-> known'[e].name]
    BY <1>9, Zenon DEF NameOf
  <2>2. QED
    BY <1>4, <1>7, <2>1
<1>11. Range(list) = Listed
  BY <1>4 DEF Range, Listed
<1>12. \A x \in Range(list) \cup {d} : N[x] \in Seq(Nat)
  <2>1. N[d] \in Seq(Nat)
    BY <1>3, <1>8, <1>10, Zenon
  <2>2. ASSUME NEW e \in Listed PROVE N[e] \in Seq(Nat)
    <3>1. AsDescribed(known[e], e, heard[e])
      BY <1>1, <2>2, Zenon DEF ToldInv
    <3>2. QED
      BY <1>4, <1>8, <1>10, <2>2, <3>1
  <2>3. QED
    BY <1>11, <2>1, <2>2
<1>13. \A i \in 1 .. Len(list) : N[list[i]] = known[list[i]].name
  BY <1>10 DEF Listed
<1>14. InNameOrder(list, N)
  BY <1>1, <1>13, Zenon DEF InNameOrder, InOrderInv
<1>15. p \in 1 .. Len(list) + 1 /\ PlaceFor(list, N, p, N[d])
  <2>1. PICK name : name = device.name
    OBVIOUS
  <2>2. p = Place(name) /\ N[d] = name
    BY <1>2, <1>10, <2>1, Zenon
  <2>3. /\ Place(name) \in 1 .. Len(list) + 1
        /\ \A i \in 1 .. Len(list) : i < Place(name) => ~Greater(known[list[i]].name, name)
        /\ Place(name) <= Len(list) => Greater(known[list[Place(name)]].name, name)
    BY <1>4, PlaceIs
  <2>4. /\ p \in 1 .. Len(list) + 1
        /\ \A i \in 1 .. Len(list) : i < p => ~Greater(known[list[i]].name, N[d])
        /\ p <= Len(list) => Greater(known[list[p]].name, N[d])
    BY <2>2, <2>3, Zenon
  <2>5. p <= Len(list) => p \in 1 .. Len(list)
    BY <1>4, <2>4
  <2>6. QED
    BY <1>13, <2>4, <2>5, Zenon DEF PlaceFor
<1>16. r \in Seq(Devices) /\ Inserted(list, p, d, r)
  <2>1. r = InsertAt(list, p, d)
    BY <1>2, <1>9, Zenon
  <2>2. InsertAt(list, p, d) \in Seq(Devices) /\ Inserted(list, p, d, InsertAt(list, p, d))
    BY <1>4, <1>15, InsertedAt
  <2>3. QED
    BY <2>1, <2>2, Zenon
<1>17. InNameOrder(r, N)
  <2>1. d \notin Range(list)
    BY <1>11
  <2>2. QED
    BY <1>4, <1>12, <1>14, <1>15, <1>16, <2>1, InsertedInNameOrder
<1>18. Listed' = Listed \cup {d}
  <2>1. Range(r) = Range(list) \cup {d}
    BY <1>4, <1>15, <1>16, InsertedFrom
  <2>2. Listed' = Range(r)
    BY <1>9, <1>16 DEF Listed, Range
  <2>3. QED
    BY <1>11, <2>1, <2>2
<1>19. InOrderInv'
  <2>1. \A i \in 1 .. Len(r) : r[i] \in Listed'
    BY <1>9 DEF Listed
  <2>2. \A e \in Listed' : N[e] = known'[e].name
    BY <1>7, <1>10, <1>18
  <2>3. \A i, j \in 1 .. Len(r) : i < j => r[i] # r[j] /\ ~Greater(N[r[i]], N[r[j]])
    BY <1>17, Zenon DEF InNameOrder
  <2>4. \A i, j \in 1 .. Len(r) : i < j => r[i] # r[j] /\ ~Greater(known'[r[i]].name, known'[r[j]].name)
    BY <2>1, <2>2, <2>3, Zenon
  <2>5. r = list'
    BY <1>9
  <2>6. QED
    BY <2>4, <2>5 DEF InOrderInv
<1>20. ASSUME NEW e \in Listed' PROVE ToldInv(e)'
  <2>1. CASE e = d
    <3>1. at'[d] = at[d] /\ at[d] \in 1 .. at[d]
      BY <1>1 DEF HandledInv
    <3>2. AsDescribed(known'[d], d, heard'[d]) /\ known'[d].location = Location(d, at[d])
      BY <1>3, <1>7, Zenon
    <3>3. AsDescribed(known'[d], d, heard'[d]) /\ \E n \in 1 .. at'[d] : known'[d].location = Location(d, n)
      BY <3>1, <3>2, Zenon
    <3>4. QED
      BY <2>1, <3>3, Zenon DEF ToldInv
  <2>2. CASE e # d
    <3>1. e \in Listed /\ known'[e] = known[e] /\ heard'[e] = heard[e]
      BY <1>7, <1>18, <2>2
    <3>2. AsDescribed(known[e], e, heard[e]) /\ \E n \in 1 .. at[e] : known[e].location = Location(e, n)
      BY <1>1, <3>1, Zenon DEF ToldInv
    <3>3. AsDescribed(known'[e], e, heard'[e]) /\ \E n \in 1 .. at'[e] : known'[e].location = Location(e, n)
      BY <3>1, <3>2, Zenon
    <3>4. QED
      BY <3>3, Zenon DEF ToldInv
  <2>3. QED
    BY <2>1, <2>2
<1>21. QED
  BY <1>7, <1>19, <1>20, Zenon

\* A step that hands the ssdp thread nothing new.
NothingHeard == at' = at /\ (ssdp' \in {"none", "idle"} \/ (ssdp' = ssdp /\ adv' = adv))

(* Such a step keeps the invariant if it leaves the list alone, or takes   *)
(* devices off it.                                                         *)
LEMMA ListKept ==
  ASSUME DevicesInv, ListInv, NothingHeard, UNCHANGED objects \/ \E gone : Without(gone)
  PROVE  ListInv'
<1>1. HandledInv /\ InOrderInv /\ \A d \in Listed : ToldInv(d)
  BY ListInvIs, Zenon
<1>2. /\ InOrderInv' /\ (\A d \in Listed' : ToldInv(d)') /\ Listed' \subseteq Listed
      /\ DOMAIN known' = Devices /\ DOMAIN heard' = Devices
  <2>1. CASE UNCHANGED objects
    <3>1. list' = list /\ known' = known /\ heard' = heard /\ at' = at
      BY <2>1 DEF objects, NothingHeard
    <3>2. InOrderInv'
      BY <1>1, <3>1 DEF InOrderInv
    <3>3. Listed' = Listed
      BY <3>1 DEF Listed
    <3>4. ASSUME NEW d \in Listed' PROVE ToldInv(d)'
      <4>1. AsDescribed(known[d], d, heard[d]) /\ \E n \in 1 .. at[d] : known[d].location = Location(d, n)
        BY <1>1, <3>3, Zenon DEF ToldInv
      <4>2. AsDescribed(known'[d], d, heard'[d]) /\ \E n \in 1 .. at'[d] : known'[d].location = Location(d, n)
        BY <3>1, <4>1, Zenon
      <4>3. QED
        BY <4>2, Zenon DEF ToldInv
    <3>5. DOMAIN known' = Devices /\ DOMAIN heard' = Devices
      BY <1>1, <3>1 DEF HandledInv
    <3>6. QED
      BY <3>2, <3>3, <3>4, <3>5, Zenon
  <2>2. CASE \E gone : Without(gone)
    <3>1. PICK gone : Without(gone)
      BY <2>2
    <3>2. at' = at
      BY DEF NothingHeard
    <3>3. QED
      BY <3>1, <3>2, WithoutAsDescribed
  <2>3. QED
    BY <2>1, <2>2
<1>3. HandledInv'
  <2>1. at' \in [Devices -> Nat \ {0}]
    BY <1>1 DEF HandledInv, NothingHeard
  <2>2. ssdp' \in {"alive", "download", "byebye"} => adv' \in Advertisements
    BY <1>1 DEF HandledInv, NothingHeard
  <2>3. ssdp' = "download" => adv'.device \in Sought /\ adv'.uuid \notin Listed'
    BY <1>1, <1>2 DEF HandledInv, NothingHeard
  <2>4. QED
    BY <1>2, <2>1, <2>2, <2>3, Zenon DEF HandledInv
<1>4. QED
  BY <1>2, <1>3, Zenon DEF ListInv, ListedAsDescribed, InOrderInv, ToldInv

(* A step of the ssdp thread that leaves the list alone.                   *)
LEMMA ListHeard ==
  ASSUME ListInv, UNCHANGED << objects, at >>,
         ssdp' \in {"alive", "download", "byebye"} => adv' \in Advertisements,
         ssdp' = "download" => adv'.device \in Sought /\ adv'.uuid \notin Listed
  PROVE  ListInv'
<1>1. list' = list /\ known' = known /\ heard' = heard /\ at' = at
  BY DEF objects
<1>2. HandledInv /\ InOrderInv /\ \A d \in Listed : ToldInv(d)
  BY ListInvIs, Zenon
<1>3. Listed' = Listed
  BY <1>1 DEF Listed
<1>4. InOrderInv'
  BY <1>1, <1>2 DEF InOrderInv
<1>5. \A d \in Listed' : ToldInv(d)'
  <2>1. \A d \in Listed : AsDescribed(known[d], d, heard[d]) /\ \E n \in 1 .. at[d] : known[d].location = Location(d, n)
    BY <1>2, Zenon DEF ToldInv
  <2>2. \A d \in Listed' : AsDescribed(known'[d], d, heard'[d]) /\ \E n \in 1 .. at'[d] : known'[d].location = Location(d, n)
    BY <1>1, <1>3, <2>1, Zenon
  <2>3. QED
    BY <2>2, Zenon DEF ToldInv
<1>6. HandledInv'
  <2>1. at' \in [Devices -> Nat \ {0}] /\ DOMAIN known' = Devices /\ DOMAIN heard' = Devices
    BY <1>1, <1>2 DEF HandledInv
  <2>2. ssdp' = "download" => adv'.device \in Sought /\ adv'.uuid \notin Listed'
    BY <1>3
  <2>3. QED
    BY <2>1, <2>2, Zenon DEF HandledInv
<1>7. QED
  BY <1>4, <1>5, <1>6, Zenon DEF ListInv, ListedAsDescribed, InOrderInv, ToldInv

(* A device moves on; where it was is where its location may still be.     *)
LEMMA ListMoved ==
  ASSUME ListInv, NEW d \in Devices, Restart(d)
  PROVE  ListInv'
<1>1. /\ list' = list /\ known' = known /\ heard' = heard /\ ssdp' = ssdp /\ adv' = adv
      /\ at' = [at EXCEPT ![d] = @ + 1]
  BY DEF Restart, objects
<1>2. HandledInv /\ InOrderInv /\ \A e \in Listed : ToldInv(e)
  BY ListInvIs, Zenon
<1>3. Listed' = Listed
  BY <1>1 DEF Listed
<1>4. InOrderInv'
  BY <1>1, <1>2 DEF InOrderInv
<1>5. at \in [Devices -> Nat \ {0}]
  BY <1>2 DEF HandledInv
<1>6. /\ at' \in [Devices -> Nat \ {0}]
      /\ \A e : 1 .. at[e] \subseteq 1 .. at'[e]
  <2>1. at[d] \in Nat /\ at[d] + 1 \in Nat \ {0}
    BY <1>5
  <2>2. at' \in [Devices -> Nat \ {0}] /\ at'[d] = at[d] + 1 /\ \A e : e # d => at'[e] = at[e]
    BY <1>1, <1>5, <2>1
  <2>3. 1 .. at[d] \subseteq 1 .. at'[d]
    BY <2>1, <2>2
  <2>4. QED
    BY <2>2, <2>3
<1>7. ASSUME NEW e \in Listed' PROVE ToldInv(e)'
  <2>1. AsDescribed(known[e], e, heard[e]) /\ \E n \in 1 .. at[e] : known[e].location = Location(e, n)
    BY <1>2, <1>3, Zenon DEF ToldInv
  <2>2. \E n \in 1 .. at'[e] : known[e].location = Location(e, n)
    BY <1>6, <2>1
  <2>3. AsDescribed(known'[e], e, heard'[e]) /\ \E n \in 1 .. at'[e] : known'[e].location = Location(e, n)
    BY <1>1, <2>1, <2>2, Zenon
  <2>4. QED
    BY <2>3, Zenon DEF ToldInv
<1>8. HandledInv'
  BY <1>1, <1>2, <1>3, <1>6 DEF HandledInv
<1>9. QED
  BY <1>4, <1>7, <1>8, Zenon DEF ListInv, ListedAsDescribed, InOrderInv, ToldInv

(* The owner and the timer only take devices off the list.                 *)
LEMMA OthersKeepList == ASSUME DevicesInv, ListInv, Main \/ Timer PROVE ListInv'
<1>1. CASE InitStack \/ AwaitTimer \/ RefreshAgain \/ Action \/ Answered \/ Uninit \/ UninitStack \/ StopTimer \/ AwaitStopped
  BY <1>1, ListKept DEF InitStack, AwaitTimer, RefreshAgain, Action, Answered, Uninit, UninitStack, StopTimer, AwaitStopped, NothingHeard
<1>2. CASE Refresh
  BY <1>2, ListKept DEF Refresh, NothingHeard
<1>3. CASE Join
  BY <1>3, ListKept DEF Join, NothingHeard
<1>4. CASE TimerStart \/ TimerSleep \/ TimerTimeout \/ TimerReturn
  BY <1>4, ListKept DEF TimerStart, TimerSleep, TimerTimeout, TimerReturn, NothingHeard
<1>5. CASE TimerTurn
  BY <1>5, ListKept DEF TimerTurn, NothingHeard
<1>6. QED
  BY <1>1, <1>2, <1>3, <1>4, <1>5 DEF Main, Timer

(* Every step keeps the invariant.                                         *)
LEMMA ListInvKeeps == ASSUME DevicesInv, ListInv, Next PROVE ListInv'
<1>1. HandledInv /\ InOrderInv /\ \A d \in Listed : ToldInv(d)
  BY ListInvIs, Zenon
<1>2. CASE Main \/ Timer
  BY <1>2, OthersKeepList
<1>3. CASE Advertised
  <2>1. adv' \in Advertisements /\ ssdp' # "download" /\ UNCHANGED << objects, at >>
    BY <1>3 DEF Advertised
  <2>2. QED
    BY <2>1, ListHeard
<1>4. CASE Alive
  <2>1. CASE ssdp' = "idle"
    BY <1>4, <2>1, ListKept DEF Alive, NothingHeard
  <2>2. CASE ssdp' # "idle"
    <3>1. /\ ssdp = "alive" /\ ssdp' = "download" /\ UNCHANGED << adv, objects, at >>
          /\ ~(adv.device \notin Sought \/ \E d \in Listed : known[d].uuid = << adv.uuid >>)
      BY <1>4, <2>2, Zenon DEF Alive
    <3>2. adv \in Advertisements
      BY <1>1, <3>1 DEF HandledInv
    <3>3. adv.uuid \notin Listed
      <4>1. \A d \in Listed : known[d].uuid = << d >>
        BY <1>1, Zenon DEF ToldInv, AsDescribed
      <4>2. QED
        BY <3>1, <4>1, Zenon
    <3>4. QED
      BY <3>1, <3>2, <3>3, ListHeard
  <2>3. QED
    BY <2>1, <2>2
<1>5. CASE Downloaded
  <2>1. ssdp = "download" /\ ssdp' = "idle" /\ at' = at
    BY <1>5 DEF Downloaded
  <2>2. CASE UNCHANGED objects
    BY <2>1, <2>2, ListKept DEF NothingHeard
  <2>3. CASE ~ UNCHANGED objects
    <3>1. PICK o \in Outcomes :
            /\ adv.location = Location(adv.uuid, at[adv.uuid]) /\ o.advertisement = adv
            /\ list' = InsertAt(list, Place(o.device.name), adv.uuid)
            /\ known' = [known EXCEPT ![adv.uuid] = o.device]
            /\ heard' = [heard EXCEPT ![adv.uuid] = adv.device]
      BY <1>5, <2>3, Zenon DEF Downloaded
    <3>2. PICK d : d = adv.uuid
      OBVIOUS
    <3>3. d \in Devices /\ d \notin Listed
      BY <1>1, <2>1, <3>2 DEF HandledInv, DevicesInv
    <3>4. /\ o.advertisement.uuid = d /\ o.advertisement.location = Location(d, at[d])
          /\ list' = InsertAt(list, Place(o.device.name), d) /\ known' = [known EXCEPT ![d] = o.device]
          /\ heard' = [heard EXCEPT ![d] = o.advertisement.device]
      BY <3>1, <3>2, Zenon
    <3>5. InOrderInv' /\ (\A e \in Listed' : ToldInv(e)') /\ DOMAIN known' = Devices /\ DOMAIN heard' = Devices
      BY <2>1, <3>3, <3>4, InsertedAsDescribed
    <3>6. HandledInv'
      BY <1>1, <2>1, <3>5 DEF HandledInv
    <3>7. QED
      BY <3>5, <3>6, Zenon DEF ListInv, ListedAsDescribed, InOrderInv, ToldInv
  <2>4. QED
    BY <2>2, <2>3
<1>6. CASE Byebye
  BY <1>6, ListKept DEF Byebye, NothingHeard
<1>7. CASE \E d \in Devices : Restart(d)
  BY <1>7, ListMoved
<1>8. QED
  BY <1>2, <1>3, <1>4, <1>5, <1>6, <1>7 DEF Next, Ssdp

(* What the list knows of a device is what its description said, once and  *)
(* in the order of the names.                                              *)
THEOREM ListedAsDescribedThm == Spec => []ListedAsDescribed
<1>1. IInv /\ ListInv /\ [Next]_vars => ListInv'
  <2> SUFFICES ASSUME IInv, ListInv, [Next]_vars PROVE ListInv'
    OBVIOUS
  <2>1. DevicesInv
    BY DEF IInv
  <2>2. CASE Next
    BY <2>1, <2>2, ListInvKeeps
  <2>3. CASE UNCHANGED vars
    BY <2>1, <2>3, ListKept DEF vars, NothingHeard
  <2>4. QED
    BY <2>2, <2>3
<1>2. ListInv => ListedAsDescribed
  BY Zenon DEF ListInv
<1>3. QED
  BY <1>1, <1>2, InitListInv, Invariance, PTL DEF Spec
=============================================================================
