------------------------------ MODULE Presence ------------------------------
(***************************************************************************)
(* How a control point keeps track of a device: the advertising loop of    *)
(* upnpd/common/upnp/ssdp.c on the device's side, the device list and the  *)
(* timer of upnpd/common/client.c on the other, and datagrams that may be  *)
(* lost or overtake each other between them.  Time is counted in units of  *)
(* any length; what the code writes for each constant is given in seconds. *)
(*                                                                         *)
(* A message stands for a burst: ssdp.c sends every datagram twice, one    *)
(* per ssdp_device_t, and the client heeds the one whose NT is a device    *)
(* type it looks for.  It is lost when the client gets none of its copies. *)
(***************************************************************************)
EXTENDS Integers

CONSTANTS
  Age,     \* ssdp_device_t.age: 100
  Expires, \* upnp_event_advertisement_t.expires, whatever max-age was sent: 100
  Stamp,   \* stamp of client_timer: 30
  Round,   \* the longest iteration of ssdp_thread_loop: 2 s of poll, and answers
  Busy,    \* the time between two alives that the loop spends sending, uncounted
  Lag,     \* the longest a message is under way, or waits to be answered
  Late,    \* how late client_timer may be, while others hold client->mutex
  MaxLost, \* how many messages in a row may be lost
  Horizon  \* the bound of the clock of a device that is down

HalfAge == Age \div 2 \* the interval at which an alive is due

\* The device expires at the fourth turn of the timer and is searched for at
\* the third; an alive comes at least every other turn.
ASSUME TimesAssumption ==
  /\ Age \in Nat /\ Expires \in Nat /\ Stamp \in Nat
  /\ Round \in Nat \ {0} /\ Busy \in Nat /\ Lag \in Nat /\ Late \in Nat
  /\ 3 * Stamp <= Expires /\ Expires < 4 * Stamp
  /\ (Age - HalfAge) + Round + Busy < 2 * Stamp
  /\ Lag < Stamp
  /\ MaxLost \in {0, 1}
  /\ Horizon \in Nat

VARIABLES
  server,     \* the device: up, leaving (upnpd_upnp_ssdp_uninit has begun) or down
  interval,   \* ssdp_device_t.interval
  counted,    \* the time since times[0] of ssdp_thread_loop
  spent,      \* the time since the last alive that no times[] difference counts
  net,        \* the messages under way
  lag,        \* for how long the network has not been idle
  lost,       \* how many messages in a row were lost
  present,    \* the device is in client->devices
  expiretime, \* its client_device_t.expiretime
  timer,      \* the time since client_timer began to wait
  met,        \* the client has heard of the device since it last came up
  downtime    \* for how long the device has been down, up to Horizon

loopvars == << server, interval, counted, spent >>
clientvars == << present, expiretime, timer >>
presence == << server, interval, counted, spent, net, lag, lost, present, expiretime, timer,
               met, downtime >>

Messages == {"alive", "byebye", "search", "answer"}

PresenceInit ==
  /\ server = "down"
  /\ interval = Age /\ counted = 0 /\ spent = 0
  /\ net = {} /\ lag = 0 /\ lost = 0
  /\ present = FALSE /\ expiretime = 0 /\ timer = 0
  /\ met = FALSE /\ downtime = 0

-----------------------------------------------------------------------------
(* The device.                                                             *)

\* upnpd_device_init: ssdp_thread_loop starts, the device is registered with a
\* full interval and advertised.
Start ==
  /\ server = "down"
  /\ server' = "up"
  /\ interval' = Age /\ counted' = 0 /\ spent' = 0
  /\ net' = net \cup {"alive"}
  /\ met' = FALSE
  /\ downtime' = 0
  /\ UNCHANGED << lag, lost, present, expiretime, timer >>

\* The top of ssdp_thread_loop: the elapsed time is taken off the interval,
\* and the device advertised when half of its age is over.  The loop does so
\* once more when it has been asked to stop.
Iterate ==
  /\ server # "down"
  /\ counted > 0
  /\ counted' = 0
  /\ IF interval - counted < HalfAge \/ interval - counted > Age
       THEN interval' = Age /\ spent' = 0 /\ net' = net \cup {"alive"}
       ELSE interval' = interval - counted /\ UNCHANGED << spent, net >>
  /\ UNCHANGED << server, lag, lost, present, expiretime, timer, met, downtime >>

\* ssdp_request_handler: a search for upnp:rootdevice is answered with every
\* entry, among them the one with the device type.  Nobody answers for a
\* device that is down.
AnswerSearch ==
  /\ "search" \in net
  /\ net' = IF server = "down" THEN net \ {"search"} ELSE (net \ {"search"}) \cup {"answer"}
  /\ UNCHANGED << server, interval, counted, spent, lag, lost, present, expiretime, timer,
                  met, downtime >>

\* upnpd_upnp_ssdp_uninit: the byebyes, sent while the loop still runs.
Leave ==
  /\ server = "up"
  /\ server' = "leaving"
  /\ net' = net \cup {"byebye"}
  /\ UNCHANGED << interval, counted, spent, lag, lost, present, expiretime, timer, met, downtime >>

\* The loop has stopped, and so has the web server.
StopLoop ==
  /\ server = "leaving"
  /\ server' = "down"
  /\ downtime' = 0
  /\ UNCHANGED << interval, counted, spent, net, lag, lost, present, expiretime, timer, met >>

-----------------------------------------------------------------------------
(* The network.                                                            *)

\* At most MaxLost messages in a row are lost; a byebye may always be.
Lose(m) ==
  /\ m \in net
  /\ m # "byebye" => lost < MaxLost
  /\ lost' = IF m = "byebye" THEN lost ELSE lost + 1
  /\ net' = net \ {m}
  /\ UNCHANGED << server, interval, counted, spent, lag, present, expiretime, timer, met, downtime >>

-----------------------------------------------------------------------------
(* The control point.                                                      *)

\* client_event_advertisement_alive: a known device is refreshed, an unknown
\* one added, if its description can be downloaded.
HearAlive(m) ==
  /\ m \in {"alive", "answer"} \cap net
  /\ net' = net \ {m}
  /\ lost' = 0
  /\ met' = TRUE
  /\ \/ /\ present \/ server # "down"
        /\ present' = TRUE /\ expiretime' = Expires
     \/ ~present /\ UNCHANGED << present, expiretime >>
  /\ UNCHANGED << server, interval, counted, spent, lag, timer, downtime >>

\* client_event_advertisement_byebye.
HearByebye ==
  /\ "byebye" \in net
  /\ net' = net \ {"byebye"}
  /\ present' = FALSE
  /\ UNCHANGED << server, interval, counted, spent, lag, lost, expiretime, timer, met, downtime >>

\* MUTANT: a device that is about to expire is not searched for.
TimerFires_NoSearch ==
  /\ timer >= Stamp
  /\ timer' = 0
  /\ expiretime' = IF present THEN expiretime - Stamp ELSE expiretime
  /\ present' = (present /\ expiretime - Stamp >= 0)
  /\ UNCHANGED << server, interval, counted, spent, net, lag, lost, met, downtime >>

\* MUTANT: a device is never removed by the timer.
TimerFires_NoRemoval ==
  /\ timer >= Stamp
  /\ timer' = 0
  /\ expiretime' = IF present /\ expiretime >= Stamp THEN expiretime - Stamp ELSE expiretime
  /\ net' = IF present /\ expiretime - Stamp < Stamp THEN net \cup {"search"} ELSE net
  /\ UNCHANGED << server, interval, counted, spent, lag, lost, present, met, downtime >>

\* client_timer: a device that has expired is removed, and one that will have
\* at the next turn but one is searched for.  Left out: the wait may end before
\* its time, by a spurious wakeup, and the turn counts 30 s all the same.
TimerFires ==
  /\ timer >= Stamp
  /\ timer' = 0
  /\ expiretime' = IF present THEN expiretime - Stamp ELSE expiretime
  /\ present' = (present /\ expiretime - Stamp >= 0)
  /\ net' = IF present /\ expiretime - Stamp \in 0 .. Stamp - 1 THEN net \cup {"search"} ELSE net
  /\ UNCHANGED << server, interval, counted, spent, lag, lost, met, downtime >>

-----------------------------------------------------------------------------
(* Time.                                                                   *)

\* A second passes.  It cannot while an iteration of the loop, a message or
\* the timer is overdue.  The loop counts it, or spends it sending, between
\* times[1] and times[0].
Tick ==
  /\ net # {} => lag < Lag
  /\ lag' = IF net = {} THEN 0 ELSE lag + 1
  /\ timer < Stamp + Late
  /\ timer' = timer + 1
  /\ IF server = "down"
       THEN /\ downtime' = IF downtime < Horizon THEN downtime + 1 ELSE downtime
            /\ UNCHANGED << counted, spent >>
       ELSE /\ \/ counted < Round /\ counted' = counted + 1 /\ UNCHANGED spent
               \/ spent < Busy /\ spent' = spent + 1 /\ UNCHANGED counted
            /\ UNCHANGED downtime
  /\ UNCHANGED << server, interval, net, lost, present, expiretime, met >>

PresenceNext ==
  \/ Start \/ Iterate \/ AnswerSearch \/ Leave \/ StopLoop
  \/ (\E m \in Messages : Lose(m) \/ HearAlive(m))
  \/ HearByebye \/ TimerFires \/ Tick

PresenceSpec == PresenceInit /\ [][PresenceNext]_presence

-----------------------------------------------------------------------------
(* Properties.                                                             *)

\* What is left of the expire time after up to three turns of the timer.
Turns == {Expires, Expires - Stamp, Expires - 2 * Stamp, Expires - 3 * Stamp}

PresenceTypeOK ==
  /\ server \in {"up", "leaving", "down"}
  /\ interval \in HalfAge .. Age
  /\ counted \in 0 .. Round
  /\ spent \in 0 .. Busy
  /\ net \in SUBSET Messages
  /\ lag \in 0 .. Lag
  /\ lost \in 0 .. MaxLost
  /\ present \in BOOLEAN
  /\ expiretime \in {0} \cup Turns \cup {Expires - 4 * Stamp}
  /\ timer \in 0 .. Stamp + Late
  /\ met \in BOOLEAN
  /\ downtime \in 0 .. Horizon

(* A device that is up is never dropped for its silence, although one      *)
(* message in a row may be lost: the alives, every half age and a little, and  *)
(* the search before expiry leave no gap.  Only a byebye removes it.       *)
NeverForgotten ==
  [][server = "up" /\ met /\ present /\ ~present' => "byebye" \in net]_presence

(* A device that is down is forgotten after four turns of the timer, even  *)
(* if its byebye was lost or overtaken by an alive of the same loop.       *)
ForgottenInTime == downtime > 4 * (Stamp + Late) + Lag => ~present

-----------------------------------------------------------------------------
(* The inductive invariant behind them.                                    *)

\* The time since the last alive of a device that is not down.
SinceAlive == (Age - interval) + counted + spent

\* A device that is down: how long ago, at most, it sent what is still under
\* way, and was last heard.
DownInv ==
  server = "down" =>
    /\ net \cap {"alive", "answer"} # {} => downtime <= lag
    /\ present =>
         /\ expiretime = Expires => downtime <= Lag + timer
         /\ expiretime = Expires - Stamp => downtime <= Lag + (Stamp + Late) + timer
         /\ expiretime = Expires - 2 * Stamp => downtime <= Lag + 2 * (Stamp + Late) + timer
         /\ expiretime = Expires - 3 * Stamp => downtime <= Lag + 3 * (Stamp + Late) + timer

\* A device that is up and was heard: with nothing lost, the last alive is
\* older than the last refresh, unless it is still under way; at the last
\* turn before expiry enough messages are under way for one to get through.
UpInv ==
  server = "up" /\ met /\ present =>
    /\ lost = 0 /\ "alive" \notin net =>
         /\ expiretime = Expires - Stamp => SinceAlive >= timer
         /\ expiretime = Expires - 2 * Stamp => SinceAlive >= Stamp + timer
    /\ expiretime = Expires - 3 * Stamp =>
         /\ timer <= lag
         /\ \/ lost = 1 /\ net \cap {"alive", "search", "answer"} # {}
            \/ "alive" \in net /\ net \cap {"search", "answer"} # {}

TurnsInv ==
  /\ present => expiretime \in Turns
  /\ server # "down" => downtime = 0

PresenceInv == PresenceTypeOK /\ TurnsInv /\ DownInv /\ UpInv
=============================================================================
