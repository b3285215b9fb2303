---------------------------- MODULE DeviceProofs ----------------------------
(***************************************************************************)
(* Theorems about Device for any number of requests of each kind.          *)
(***************************************************************************)
EXTENDS Device, TLAPS

(* The invariant holds before any request.                                 *)
LEMMA InitIInv == Init => IInv
  BY RequestsAssumption DEF Init, IInv, TypeOK, LockInv, SubscriptionInv, TargetInv, Requests,
     Points, UpnpPoints, InsidePoints, DevicePoints, FilePoints, ServicePoints

(* Whoever is sent its SID is a request, and whether it was is a Boolean.  *)
LEMMA AnswerType ==
  ASSUME answered \in [Subscribers -> BOOLEAN], NEW r \in Requests, Answer(r)
  PROVE  answered' \in [Subscribers -> BOOLEAN]
  BY DEF Answer

(* A step of a request keeps the types.                                     *)
LEMMA StepType == ASSUME IInv, NEW r \in Requests, Arrive(r) \/ Step(r) PROVE TypeOK'
<1> USE RequestsAssumption DEF IInv, TypeOK, LockInv, SubscriptionInv, Goto, Reply, Held, Requests, Inside, Known, Points, UpnpPoints, InsidePoints, DevicePoints, FilePoints, ServicePoints, locks, subscriptions
<1>1. CASE Arrive(r)
  BY <1>1 DEF Arrive
<1>2. CASE LockUpnp(r)
  BY <1>2 DEF LockUpnp
<1>3. CASE Subscribe(r)
  BY <1>3 DEF Subscribe
<1>4. CASE Answer(r)
  <2>0. answered \in [Subscribers -> BOOLEAN]
    OBVIOUS
  <2>1. answered' \in [Subscribers -> BOOLEAN]
    <3> HIDE DEF IInv, TypeOK, LockInv, SubscriptionInv
    <3> QED
      BY <1>4, <2>0, AnswerType
  <2>2. pc' \in [Requests -> Points]
    BY <1>4 DEF Answer
  <2>3. UNCHANGED << main, services, dmutex, smutex, umutex, subs, heap, events, target >>
    BY <1>4 DEF Answer
  <2>4. QED
    BY <2>1, <2>2, <2>3
<1>5. CASE LookUp(r)
  BY <1>5 DEF LookUp
<1>6. CASE LockDevice(r)
  BY <1>6 DEF LockDevice
<1>7. CASE LockService(r)
  BY <1>7 DEF LockService
<1>8. CASE Perform(r)
  BY <1>8 DEF Perform
<1>9. CASE Open(r)
  BY <1>9 DEF Open
<1>10. CASE Close(r)
  BY <1>10 DEF Close
<1>11. CASE Find(r)
  BY <1>11 DEF Find
<1>12. CASE Compose(r)
  BY <1>12 DEF Compose
<1>13. CASE Connect(r)
  BY <1>13 DEF Connect
<1>14. CASE Notify(r)
  <2>1. events' \in [Subscribers -> 0 .. 1]
    <3>1. \A s \in Subscribers : s = r => events'[s] = 1
      BY <1>14 DEF Notify
    <3>2. \A s \in Subscribers : s # r => events'[s] = events[s]
      BY <1>14 DEF Notify
    <3>3. events' = [s \in Subscribers |-> events'[s]]
      BY <1>14 DEF Notify
    <3>4. QED
      BY <3>1, <3>2, <3>3
  <2>2. pc' \in [Requests -> Points]
    BY <1>14 DEF Notify
  <2>3. QED
    BY <2>1, <2>2, <1>14 DEF Notify
<1>15. CASE Await(r)
  BY <1>15 DEF Await
<1>16. CASE Release(r)
  BY <1>16 DEF Release
<1>17. CASE Return(r)
  BY <1>17 DEF Return
<1>18. CASE Drop(r)
  BY <1>18 DEF Drop
<1>19. CASE Describe(r)
  BY <1>19 DEF Describe
<1>20. CASE Info(r)
  BY <1>20 DEF Info
<1>21. CASE Renew(r)
  BY <1>21 DEF Renew
<1>22. QED
  BY <1>1, <1>2, <1>3, <1>4, <1>5, <1>6, <1>7, <1>8, <1>9, <1>10, <1>11, <1>12, <1>13, <1>14, <1>15, <1>16, <1>17, <1>18,
     <1>19, <1>20, <1>21 DEF Step

(* It keeps who holds which mutex.                                          *)
LEMMA StepLock == ASSUME IInv, NEW r \in Requests, Arrive(r) \/ Step(r) PROVE LockInv'
<1> USE RequestsAssumption DEF IInv, TypeOK, LockInv, Goto, Reply, Held, Requests, Inside, Points, UpnpPoints, InsidePoints, DevicePoints, FilePoints, ServicePoints, locks, subscriptions
<1>1. CASE Arrive(r)
  BY <1>1 DEF Arrive
<1>2. CASE LockUpnp(r)
  BY <1>2 DEF LockUpnp
<1>3. CASE Subscribe(r)
  BY <1>3 DEF Subscribe
<1>4. CASE Answer(r)
  BY <1>4 DEF Answer
<1>5. CASE LookUp(r)
  BY <1>5 DEF LookUp
<1>6. CASE LockDevice(r)
  BY <1>6 DEF LockDevice
<1>7. CASE LockService(r)
  BY <1>7 DEF LockService
<1>8. CASE Perform(r)
  BY <1>8 DEF Perform
<1>9. CASE Open(r)
  BY <1>9 DEF Open
<1>10. CASE Close(r)
  BY <1>10 DEF Close
<1>11. CASE Find(r)
  BY <1>11 DEF Find
<1>12. CASE Compose(r)
  BY <1>12 DEF Compose
<1>13. CASE Connect(r)
  BY <1>13 DEF Connect
<1>14. CASE Notify(r)
  BY <1>14 DEF Notify
<1>15. CASE Await(r)
  BY <1>15 DEF Await
<1>16. CASE Release(r)
  BY <1>16 DEF Release
<1>17. CASE Return(r)
  BY <1>17 DEF Return
<1>18. CASE Drop(r)
  BY <1>18 DEF Drop
<1>19. CASE Describe(r)
  BY <1>19 DEF Describe
<1>20. CASE Info(r)
  BY <1>20 DEF Info
<1>21. CASE Renew(r)
  BY <1>21 DEF Renew
<1>22. QED
  BY <1>1, <1>2, <1>3, <1>4, <1>5, <1>6, <1>7, <1>8, <1>9, <1>10, <1>11, <1>12, <1>13, <1>14, <1>15, <1>16, <1>17, <1>18,
     <1>19, <1>20, <1>21 DEF Step

(* It keeps the life of the subscriptions.                                  *)
LEMMA StepSubscription == ASSUME IInv, NEW r \in Requests, Arrive(r) \/ Step(r) PROVE SubscriptionInv'
<1> USE RequestsAssumption DEF IInv, TypeOK, LockInv, SubscriptionInv, TargetInv, Known, Goto, Reply, Held, Requests, Inside, Points, UpnpPoints, InsidePoints, DevicePoints, FilePoints, ServicePoints, locks, subscriptions
<1>1. CASE Arrive(r)
  BY <1>1 DEF Arrive
<1>2. CASE LockUpnp(r)
  BY <1>2 DEF LockUpnp
<1>3. CASE Subscribe(r)
  BY <1>3 DEF Subscribe
<1>4. CASE Answer(r)
  BY <1>4 DEF Answer
<1>5. CASE LookUp(r)
  BY <1>5 DEF LookUp
<1>6. CASE LockDevice(r)
  BY <1>6 DEF LockDevice
<1>7. CASE LockService(r)
  BY <1>7 DEF LockService
<1>8. CASE Perform(r)
  BY <1>8 DEF Perform
<1>9. CASE Open(r)
  BY <1>9 DEF Open
<1>10. CASE Close(r)
  BY <1>10 DEF Close
<1>11. CASE Find(r)
  BY <1>11 DEF Find
<1>12. CASE Compose(r)
  BY <1>12 DEF Compose
<1>13. CASE Connect(r)
  BY <1>13 DEF Connect
<1>14. CASE Notify(r)
  BY <1>14 DEF Notify
<1>15. CASE Await(r)
  BY <1>15 DEF Await
<1>16. CASE Release(r)
  BY <1>16 DEF Release
<1>17. CASE Return(r)
  BY <1>17 DEF Return
<1>18. CASE Drop(r)
  BY <1>18 DEF Drop
<1>19. CASE Describe(r)
  BY <1>19 DEF Describe
<1>20. CASE Info(r)
  BY <1>20 DEF Info
<1>21. CASE Renew(r)
  BY <1>21 DEF Renew
<1>22. QED
  BY <1>1, <1>2, <1>3, <1>4, <1>5, <1>6, <1>7, <1>8, <1>9, <1>10, <1>11, <1>12, <1>13, <1>14, <1>15, <1>16, <1>17, <1>18,
     <1>19, <1>20, <1>21 DEF Step

(* It keeps what an UNSUBSCRIBE may name.                                   *)
LEMMA StepTarget == ASSUME IInv, NEW r \in Requests, Arrive(r) \/ Step(r) PROVE TargetInv'
<1> USE RequestsAssumption DEF IInv, TypeOK, SubscriptionInv, TargetInv, Known, Goto, Reply, Held, Requests, locks, subscriptions
<1>1. CASE Arrive(r)
  BY <1>1 DEF Arrive
<1>2. CASE LockUpnp(r)
  BY <1>2 DEF LockUpnp
<1>3. CASE Subscribe(r)
  BY <1>3 DEF Subscribe
<1>4. CASE Answer(r)
  BY <1>4 DEF Answer
<1>5. CASE LookUp(r)
  BY <1>5 DEF LookUp
<1>6. CASE LockDevice(r)
  BY <1>6 DEF LockDevice
<1>7. CASE LockService(r)
  BY <1>7 DEF LockService
<1>8. CASE Perform(r)
  BY <1>8 DEF Perform
<1>9. CASE Open(r)
  BY <1>9 DEF Open
<1>10. CASE Close(r)
  BY <1>10 DEF Close
<1>11. CASE Find(r)
  BY <1>11 DEF Find
<1>12. CASE Compose(r)
  BY <1>12 DEF Compose
<1>13. CASE Connect(r)
  BY <1>13 DEF Connect
<1>14. CASE Notify(r)
  BY <1>14 DEF Notify
<1>15. CASE Await(r)
  BY <1>15 DEF Await
<1>16. CASE Release(r)
  BY <1>16 DEF Release
<1>17. CASE Return(r)
  BY <1>17 DEF Return
<1>18. CASE Drop(r)
  BY <1>18 DEF Drop
<1>19. CASE Describe(r)
  BY <1>19 DEF Describe
<1>20. CASE Info(r)
  BY <1>20 DEF Info
<1>21. CASE Renew(r)
  BY <1>21 DEF Renew
<1>22. QED
  BY <1>1, <1>2, <1>3, <1>4, <1>5, <1>6, <1>7, <1>8, <1>9, <1>10, <1>11, <1>12, <1>13, <1>14, <1>15, <1>16, <1>17, <1>18,
     <1>19, <1>20, <1>21 DEF Step

(* A step of upnpd_device_uninit keeps the invariant.                      *)
LEMMA UninitKeeps == ASSUME IInv, Uninit PROVE IInv'
<1> USE RequestsAssumption DEF IInv, TypeOK, LockInv, SubscriptionInv, TargetInv, Known, Requests, Points, UpnpPoints, InsidePoints, DevicePoints, FilePoints, ServicePoints, locks, subscriptions
<1>1. CASE UninitServices
  <2>1. TypeOK'
    BY <1>1 DEF UninitServices
  <2>2. LockInv'
    BY <1>1 DEF UninitServices
  <2>3. SubscriptionInv'
    BY <1>1 DEF UninitServices
  <2>4. TargetInv'
    BY <1>1 DEF UninitServices
  <2>5. QED
    BY <2>1, <2>2, <2>3, <2>4
<1>2. CASE StopGena
  BY <1>2 DEF StopGena
<1>3. CASE UninitUpnp
  BY <1>3 DEF UninitUpnp
<1>4. QED
  BY <1>1, <1>2, <1>3 DEF Uninit

(* IInv is inductive, hence holds in every reachable state.                *)
THEOREM Invariance == Spec => []IInv
<1>1. IInv /\ [Next]_vars => IInv'
  <2> SUFFICES ASSUME IInv, [Next]_vars PROVE IInv'
    OBVIOUS
  <2>1. CASE Uninit
    BY <2>1, UninitKeeps
  <2>2. CASE \E r \in Requests : Arrive(r) \/ Step(r)
    BY <2>2, StepType, StepLock, StepSubscription, StepTarget DEF IInv
  <2>3. CASE UNCHANGED vars
    BY <2>3 DEF vars, IInv, TypeOK, LockInv, SubscriptionInv, TargetInv, Known
  <2>4. QED
    BY <2>1, <2>2, <2>3 DEF Next
<1>2. QED
  BY InitIInv, <1>1, PTL DEF Spec

(* Every subscriber is sent at most its initial event, and the variables   *)
(* keep their types.                                                       *)
THEOREM TypeCorrect == Spec => []TypeOK
<1>1. IInv => TypeOK
  BY DEF IInv
<1>2. QED
  BY <1>1, Invariance, PTL

(* upnpd_upnp_accept_subscription never uses a freed subscriber of a       *)
(* control point that waits for its initial event.                         *)
THEOREM NoUseAfterFreeThm == Spec => []NoUseAfterFree
<1>1. IInv => NoUseAfterFree
  BY DEF IInv, SubscriptionInv, NoUseAfterFree
<1>2. QED
  BY <1>1, Invariance, PTL

(* No service is freed under a request that holds its mutex, and no file   *)
(* is read when upnpd_device_uninit has returned.                          *)
THEOREM ServiceOutlivesUseThm == Spec => []ServiceOutlivesUse
<1>1. IInv => ServiceOutlivesUse
  BY RequestsAssumption DEF IInv, TypeOK, LockInv, ServiceOutlivesUse, Requests, ServicePoints, FilePoints
<1>2. QED
  BY <1>1, Invariance, PTL

(* No subscriber is sent an event before its SID.                          *)
THEOREM AnswerBeforeEventThm == Spec => []AnswerBeforeEvent
<1>1. IInv => AnswerBeforeEvent
  BY DEF IInv, SubscriptionInv, AnswerBeforeEvent
<1>2. QED
  BY <1>1, Invariance, PTL
=============================================================================
