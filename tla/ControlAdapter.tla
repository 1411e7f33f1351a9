---------------------------- MODULE ControlAdapter ----------------------------
(* The MIDI adapter (controllers/adapter.c): it keeps a private ingress subscribed *)
(* to the X-Touch Mini and the full surface, finds them anew on every pass of its  *)
(* loop, and forwards the Mini's turns once it has been armed.                     *)
(*                                                                                 *)
(* The sequencer is external: a device that goes takes its subscription with it;   *)
(* the ingress then hears that it was unsubscribed and, a little later, that the   *)
(* client is gone; the next device may get the same address.                       *)
EXTENDS Naturals, Sequences

CONSTANTS Addresses,  \* sequencer addresses, reused
          PoolSize,   \* events the input pool holds
          Burst,      \* BURST_LIMIT
          Hotplugs,   \* bound: devices that come or go
          Events      \* bound: events the devices send

ASSUME AdapterAssumption == {PoolSize, Burst, Hotplugs, Events} \subseteq Nat

VARIABLES bus,        \* the device at each address
          leaving,    \* addresses whose client is being removed
          links,      \* addresses subscribed to the ingress
          queue,      \* its input
          overrun,    \* an event found the pool full
          main, after,  \* where the adapter is, and where a refresh returns to
          found,      \* what that refresh has resolved
          mini, full,  \* the addresses it believes in
          armed, request, burst,
          asked,      \* history: it has been told to arm
          session,    \* history: subscriptions made so far
          cut,        \* history: a loss ended the draining and changed nothing
          sent,       \* history: the last event forwarded
          hotplugs, events

adapterVars == <<bus, leaving, links, queue, overrun, main, after, found, mini, full,
                 armed, request, burst, asked, session, cut, sent, hotplugs, events>>
device == <<bus, leaving, links, queue, overrun, hotplugs, events>>
adapter == <<main, after, found, mini, full, armed, request, burst, asked, session, cut, sent>>

Absent == 0
Kinds == {"none", "mini", "full"}

-------------------------------------------------------------------------------
(* The devices and the sequencer. *)

NoEvent == [kind |-> "none", from |-> Absent, session |-> 0, asked |-> FALSE]

\* Appends what the pool has room for; the rest is lost and remembered as an overrun.
Delivered(kind, a) ==
    IF Len(queue) = PoolSize THEN overrun' = TRUE /\ UNCHANGED queue
    ELSE /\ queue' = Append(queue, [kind |-> kind, from |-> a, session |-> session,
                                    asked |-> asked])
         /\ UNCHANGED overrun

PlugIn(a) ==
    /\ hotplugs < Hotplugs /\ hotplugs' = hotplugs + 1
    /\ bus[a] = "none" /\ a \notin leaving
    /\ \E kind \in {"mini", "full"} : bus' = [bus EXCEPT ![a] = kind]
    /\ UNCHANGED <<leaving, links, queue, overrun, events, adapter>>

Unplug(a) ==
    /\ hotplugs < Hotplugs /\ hotplugs' = hotplugs + 1
    /\ bus[a] # "none" /\ bus' = [bus EXCEPT ![a] = "none"]
    /\ leaving' = leaving \cup {a} /\ links' = links \ {a}
    /\ IF a \in links THEN Delivered("unsubscribed", a) ELSE UNCHANGED <<queue, overrun>>
    /\ UNCHANGED <<events, adapter>>

Gone(a) ==
    /\ a \in leaving /\ leaving' = leaving \ {a}
    /\ Delivered("exit", a)
    /\ UNCHANGED <<bus, links, hotplugs, events, adapter>>

\* A turn of the Mini, or anything else a subscribed device sends.
Send(a) ==
    /\ events < Events /\ events' = events + 1
    /\ a \in links
    /\ \E kind \in {"turn", "key"} : Delivered(kind, a)
    /\ UNCHANGED <<bus, leaving, links, hotplugs, adapter>>

-------------------------------------------------------------------------------
(* The adapter. *)

present(a) == a # Absent
Attached(kind) == {a \in Addresses : bus[a] = kind}

\* Exact names; two devices of one name are ambiguous.
resolve(kind) == IF Attached(kind) = {} THEN Absent ELSE CHOOSE a \in Attached(kind) : TRUE
Ambiguous == \E kind \in {"mini", "full"} : \E a, b \in Attached(kind) : a # b

\* Only the Mini's turns are forwarded; the full surface belongs to the bridge.
translate(e) == present(mini) /\ e.from = mini /\ e.kind = "turn"

source_lost(e) == e.kind \in {"unsubscribed", "exit"} /\ present(e.from) /\ e.from \in {mini, full}

GiveUp ==
    /\ main' = "off" /\ after' = "off"
    /\ UNCHANGED <<asked, device, found, mini, full, armed, request, burst, session, cut, sent>>

RefreshSources(next) == main' = "resolve" /\ after' = next

Resolve ==
    /\ main = "resolve"
    /\ IF Ambiguous THEN GiveUp
       ELSE /\ found' = [mini |-> resolve("mini"), full |-> resolve("full")]
            /\ main' = IF found' = [mini |-> mini, full |-> full] THEN after ELSE "change"
            /\ UNCHANGED <<asked, device, after, mini, full, armed, request, burst, session, cut, sent>>

Resubscribe ==
    /\ main = "change"
    /\ links' = links \ {mini, full}
    /\ queue' = <<>> /\ overrun' = FALSE
    /\ mini' = found.mini /\ full' = found.full
    /\ main' = "connect" /\ cut' = FALSE
    /\ UNCHANGED <<asked, bus, leaving, hotplugs, events, after, found, armed, request, burst, session, sent>>

\* Fails when a device found by now has gone.
Connect ==
    /\ main = "connect"
    /\ IF \E a \in {mini, full} : present(a) /\ bus[a] = "none" THEN GiveUp
       ELSE /\ links' = links \cup {a \in {mini, full} : present(a)}
            /\ session' = session + 1 /\ main' = after
            /\ UNCHANGED <<asked, bus, leaving, queue, overrun, hotplugs, events,
                           after, found, mini, full, armed, request, burst, cut, sent>>

\* The head of the loop: refresh first, then a pending request to arm.
Loop ==
    /\ main = "loop" /\ RefreshSources("armed?")
    /\ UNCHANGED <<asked, device, found, mini, full, armed, request, burst, session, cut, sent>>

ArmRequested ==
    /\ main = "armed?" /\ request' = FALSE /\ burst' = 0
    /\ main' = IF request /\ ~armed THEN "drain" ELSE "poll"
    /\ UNCHANGED <<asked, device, after, found, mini, full, armed, session, cut, sent>>

\* Fault: a loss is drained like the rest.
DrainThrough ==
    /\ main = "drain"
    /\ \/ overrun /\ GiveUp
       \/ ~overrun /\ queue = <<>> /\ RefreshSources("arm")
          /\ UNCHANGED <<asked, device, found, mini, full, armed, request, burst, session, cut, sent>>
       \/ /\ ~overrun /\ queue # <<>> /\ queue' = Tail(queue)
          /\ UNCHANGED <<asked, main, after, burst, cut, bus, leaving, links, overrun, hotplugs, events,
                         found, mini, full, armed, request, session, sent>>

\* What came before is read and dropped.  A loss found there ends the draining and
\* has the sources resolved again; nothing is dropped when they are where they were.
Drain ==
    /\ main = "drain"
    /\ \/ (overrun \/ burst = Burst) /\ GiveUp
       \/ /\ ~overrun /\ burst < Burst /\ queue = <<>> /\ RefreshSources("arm")
          /\ UNCHANGED <<asked, device, found, mini, full, armed, request, burst, session, cut, sent>>
       \/ /\ ~overrun /\ burst < Burst /\ queue # <<>>
          /\ queue' = Tail(queue)
          /\ IF source_lost(Head(queue))
             THEN RefreshSources("settle") /\ cut' = TRUE /\ UNCHANGED burst
             ELSE burst' = burst + 1 /\ UNCHANGED <<main, after, cut>>
          /\ UNCHANGED <<asked, bus, leaving, links, overrun, hotplugs, events,
                         found, mini, full, armed, request, session, sent>>

\* The sources are resolved once more before it is armed.
SettleSources ==
    /\ main = "settle" /\ RefreshSources("arm")
    /\ UNCHANGED <<asked, device, found, mini, full, armed, request, burst, session, cut, sent>>

Arm ==
    /\ main = "arm" /\ armed' = TRUE /\ main' = "poll"
    /\ UNCHANGED <<asked, device, after, found, mini, full, request, burst, session, cut, sent>>

Poll ==
    /\ main = "poll" /\ burst' = 0
    /\ main' = IF queue = <<>> /\ ~overrun THEN "loop" ELSE "read"
    /\ UNCHANGED <<asked, device, after, found, mini, full, armed, request, session, cut, sent>>

\* Up to a burst of events, unless a request to arm waits.
ReadEvent ==
    /\ main = "read" /\ burst < Burst /\ ~request /\ ~overrun /\ queue # <<>>
    /\ queue' = Tail(queue) /\ burst' = burst + 1
    /\ LET e == Head(queue) IN
       /\ main' = IF source_lost(e) THEN "lost" ELSE "read"
       /\ sent' = IF ~source_lost(e) /\ armed /\ translate(e)
                  THEN [event |-> e, session |-> session, cut |-> cut] ELSE sent
    /\ UNCHANGED <<asked, bus, leaving, links, overrun, hotplugs, events,
                   after, found, mini, full, armed, request, session, cut>>

ReadDone ==
    /\ main = "read"
    /\ \/ burst = Burst /\ (overrun \/ queue # <<>>) /\ GiveUp
       \/ burst < Burst /\ overrun /\ ~request /\ GiveUp
       \/ /\ \/ ~overrun /\ queue = <<>>
             \/ burst < Burst /\ request
          /\ main' = "loop"
          /\ UNCHANGED <<asked, device, after, found, mini, full, armed, request, burst, session, cut, sent>>

\* The queue goes first, then the subscriptions.
Lost ==
    /\ main = "lost" /\ queue' = <<>> /\ overrun' = FALSE /\ main' = "forget"
    /\ UNCHANGED <<asked, bus, leaving, links, hotplugs, events,
                   after, found, mini, full, armed, request, burst, session, cut, sent>>

Forget ==
    /\ main = "forget" /\ main' = "loop"
    /\ links' = links \ {mini, full} /\ mini' = Absent /\ full' = Absent
    /\ UNCHANGED <<asked, bus, leaving, queue, overrun, hotplugs, events,
                   after, found, armed, request, burst, session, cut, sent>>

Signal ==
    /\ main # "off" /\ ~asked /\ asked' = TRUE /\ request' = TRUE
    /\ UNCHANGED <<device, main, after, found, mini, full, armed, burst, session, cut, sent>>

-------------------------------------------------------------------------------
AdapterInit ==
    /\ bus \in [Addresses -> Kinds] /\ ~Ambiguous
    /\ leaving = {} /\ queue = <<>> /\ overrun = FALSE /\ links = {}
    /\ main = "resolve" /\ after = "loop" /\ found = [mini |-> Absent, full |-> Absent]
    /\ mini = Absent /\ full = Absent
    /\ armed = FALSE /\ request = FALSE /\ asked = FALSE /\ burst = 0
    /\ session = 0 /\ cut = FALSE
    /\ sent = [event |-> NoEvent, session |-> 0, cut |-> FALSE]
    /\ hotplugs = 0 /\ events = 0

Adapter == Resolve \/ Resubscribe \/ Connect \/ Loop \/ ArmRequested \/ Drain \/ SettleSources \/ Arm
               \/ Poll \/ ReadEvent \/ ReadDone \/ Lost \/ Forget \/ Signal
AdapterNext == Adapter \/ \E a \in Addresses : PlugIn(a) \/ Unplug(a) \/ Gone(a) \/ Send(a)

AdapterSpec == AdapterInit /\ [][AdapterNext]_adapterVars

-------------------------------------------------------------------------------
AdapterTypeOK ==
    /\ bus \in [Addresses -> Kinds] /\ leaving \subseteq Addresses /\ links \subseteq Addresses
    /\ Len(queue) <= PoolSize /\ burst \in 0..Burst
    /\ {mini, full, found.mini, found.full} \subseteq Addresses \cup {Absent}
    /\ armed \in BOOLEAN /\ request \in BOOLEAN
    /\ hotplugs \in 0..Hotplugs /\ events \in 0..Events

\* adapter.c:190 "do not forward queued events from an old source address or replay
\* them after reconnect": what is forwarded came in over the subscription that stands,
\* and after the order to arm, unless a loss cut the draining short while its address was
\* already in use again.
NothingIsReplayed ==
    sent.event.kind = "turn" =>
        /\ sent.event.session = sent.session
        /\ sent.event.asked \/ sent.cut

\* adapter.c:163 "a disconnect notification must still fail closed when USB addresses
\* get reused": when the adapter waits with nothing left to read, it is subscribed to
\* the device it believes in, whichever device has the address by now.
NeverDeaf ==
    main = "poll" /\ queue = <<>> /\ ~overrun /\ leaving = {} =>
          \A a \in {mini, full} : present(a) => a \in links
===============================================================================
