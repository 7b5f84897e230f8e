---------------------------- MODULE WifiStaProofs ----------------------------
(***************************************************************************)
(* What is proved about WifiSta: on a chip with one core, the station      *)
(* stays off after sta_disconnect and sta_connect reports an outcome of    *)
(* its own call.                                                           *)
(***************************************************************************)
EXTENDS WifiSta, SequenceTheorems, TLAPS

(***************************************************************************)
(* The driver's queue.                                                     *)
(***************************************************************************)
HasDown(q)      == \E i \in 1 .. Len(q) : q[i] # "GOT_IP"
HasAddress(q)   == \E i \in 1 .. Len(q) : q[i] = "GOT_IP"
DownOnlyLast(q) == \A i \in 1 .. Len(q) : q[i] # "GOT_IP" => i = Len(q)

(* Nothing has happened in a queue without events.                         *)
LEMMA EmptyQueue == ~HasDown(<<>>) /\ ~HasAddress(<<>>) /\ DownOnlyLast(<<>>)
BY DEF HasDown, HasAddress, DownOnlyLast

(* An event joins the queue: what is in it is what was in it, and that.    *)
LEMMA QueuedEvent ==
    ASSUME NEW q \in Seq(Events), NEW e \in Events
    PROVE  /\ Append(q, e) \in Seq(Events) /\ Len(Append(q, e)) = Len(q) + 1
           /\ HasDown(Append(q, e)) <=> (HasDown(q) \/ e # "GOT_IP")
           /\ HasAddress(Append(q, e)) <=> (HasAddress(q) \/ e = "GOT_IP")
           /\ ~HasDown(q) => DownOnlyLast(Append(q, e))
<1> DEFINE p == Append(q, e)
<1>1. /\ p \in Seq(Events) /\ Len(p) = Len(q) + 1 /\ Len(q) \in Nat
      /\ \A i \in 1 .. Len(q) : p[i] = q[i]
      /\ p[Len(q) + 1] = e
  BY AppendProperties
<1> HIDE DEF p
<1>2. \A i \in 1 .. Len(p) : i \in 1 .. Len(q) \/ i = Len(q) + 1
  BY <1>1
<1>3. Len(q) + 1 \in 1 .. Len(p) /\ 1 .. Len(q) \subseteq 1 .. Len(p)
  BY <1>1
<1>4. HasDown(p) <=> (HasDown(q) \/ e # "GOT_IP")
  BY <1>1, <1>2, <1>3 DEF HasDown
<1>5. HasAddress(p) <=> (HasAddress(q) \/ e = "GOT_IP")
  BY <1>1, <1>2, <1>3 DEF HasAddress
<1>6. ~HasDown(q) => DownOnlyLast(p)
  BY <1>1, <1>2 DEF HasDown, DownOnlyLast
<1>. QED  BY <1>1, <1>4, <1>5, <1>6 DEF p

(* The event task takes the first event; if that one says the link went    *)
(* down and only the last may say so, the queue is empty now.              *)
LEMMA TakenEvent ==
    ASSUME NEW q \in Seq(Events), q # <<>>
    PROVE  /\ Head(q) \in Events /\ Tail(q) \in Seq(Events)
           /\ Len(Tail(q)) <= Len(q)
           /\ HasDown(Tail(q)) => HasDown(q)
           /\ HasAddress(Tail(q)) => HasAddress(q)
           /\ DownOnlyLast(q) => DownOnlyLast(Tail(q))
           /\ Head(q) # "GOT_IP" => HasDown(q)
           /\ Head(q) # "GOT_IP" /\ DownOnlyLast(q) => Tail(q) = <<>>
<1> DEFINE p == Tail(q)
<1>1. /\ Head(q) \in Events /\ p \in Seq(Events)
      /\ Len(q) \in Nat \ {0} /\ Len(p) = Len(q) - 1
      /\ \A i \in 1 .. Len(p) : p[i] = q[i + 1]
      /\ Head(q) = q[1]
  BY HeadTailProperties, EmptySeq, LenProperties
<1> HIDE DEF p
<1>2. \A i \in 1 .. Len(p) : i + 1 \in 1 .. Len(q)
  BY <1>1
<1>3. HasDown(p) => HasDown(q)
  BY <1>1, <1>2 DEF HasDown
<1>4. HasAddress(p) => HasAddress(q)
  BY <1>1, <1>2 DEF HasAddress
<1>5. DownOnlyLast(q) => DownOnlyLast(p)
  BY <1>1, <1>2 DEF DownOnlyLast
<1>6. Head(q) # "GOT_IP" => HasDown(q)
  BY <1>1 DEF HasDown
<1>7. Head(q) # "GOT_IP" /\ DownOnlyLast(q) => p = <<>>
  <2> SUFFICES ASSUME Head(q) # "GOT_IP", DownOnlyLast(q) PROVE p = <<>>
    OBVIOUS
  <2>1. Len(q) = 1
    BY <1>1 DEF DownOnlyLast
  <2>. QED  BY <2>1, <1>1, EmptySeq
<1>. QED  BY <1>1, <1>3, <1>4, <1>5, <1>6, <1>7 DEF p
-----------------------------------------------------------------------------
(***************************************************************************)
(* Types.                                                                  *)
(***************************************************************************)
(* What Append and Tail leave of the driver's queue has its type.          *)
LEMMA QueueTyped ==
    ASSUME NEW q \in Seq(Events), Len(q) <= QueueMax
    PROVE  /\ \A e \in Events : Len(q) < QueueMax =>
                 Append(q, e) \in Seq(Events) /\ Len(Append(q, e)) <= QueueMax
           /\ q # <<>> => /\ Head(q) \in Events /\ Tail(q) \in Seq(Events)
                          /\ Len(Tail(q)) <= QueueMax
<1>1. QueueMax \in Nat
  BY StationAssumption
<1>2. Len(q) \in Nat
  OBVIOUS
<1>3. ASSUME NEW e \in Events, Len(q) < QueueMax
      PROVE  Append(q, e) \in Seq(Events) /\ Len(Append(q, e)) <= QueueMax
  BY <1>1, <1>2, <1>3, QueuedEvent
<1>4. ASSUME q # <<>>
      PROVE  /\ Head(q) \in Events /\ Tail(q) \in Seq(Events)
             /\ Len(Tail(q)) <= QueueMax
  <2>1. Tail(q) \in Seq(Events) /\ Len(Tail(q)) <= Len(q) /\ Head(q) \in Events
    BY <1>4, TakenEvent
  <2>2. Len(Tail(q)) \in Nat
    BY <2>1
  <2>. QED  BY <2>1, <2>2, <1>1, <1>2
<1>. QED  BY <1>3, <1>4

(* The event task's record when it waits for an event.                     *)
HandlerType == [at : {"idle", "decide", "act"}, voluntary : BOOLEAN,
                reason : Reasons, doReconnect : BOOLEAN]

(* It is of its type, and reconnects nothing.                              *)
LEMMA IdleTyped == /\ Idle \in HandlerType /\ Idle.at = "idle"
                   /\ ~Idle.doReconnect /\ ~Idle.voluntary
BY DEF Idle, HandlerType, Reasons

(* The variables have their types; a decision to reconnect is made only by *)
(* an event that was not asked for.                                        *)
LEMMA TypeInv == Spec => []TypeOK
<1>1. Init => TypeOK
  <2>1. <<>> \in Seq(Events) /\ Len(<<>>) <= QueueMax
    BY StationAssumption
  <2>2. 0 \in 0 .. 2 /\ {} \in SUBSET Bits /\ "leave" \in Reasons
    BY DEF Reasons
  <2>3. ASSUME Init PROVE dual \in BOOLEAN
    BY <2>3, StationAssumption DEF Init
  <2>4. ASSUME Init PROVE handler \in HandlerType /\ ~handler.doReconnect
    BY <2>4, IdleTyped DEF Init
  <2>. QED
    BY <2>1, <2>2, <2>3, <2>4, Zenon DEF Init, TypeOK, HandlerType
<1>2. TypeOK /\ [Next]_vars => TypeOK'
  <2> SUFFICES ASSUME TypeOK, [Next]_vars PROVE TypeOK'
    OBVIOUS
  <2>1. CASE Application
    <3>1. CASE StaInit
      BY <3>1 DEF StaInit, TypeOK, flags, driver, seen
    <3>2. CASE StaConnect
      <4>1. 0 \in 0 .. 2
        OBVIOUS
      <4>. QED  BY <3>2, <4>1, Zenon DEF StaConnect, TypeOK, driver
    <3>3. CASE ClearBits
      BY <3>3 DEF ClearBits, TypeOK, flags, driver, seen
    <3>4. CASE Connect
      BY <3>4 DEF Connect, WifiConnect, TypeOK, flags, driver, seen
    <3>5. CASE WaitEnds
      BY <3>5 DEF WaitEnds, TypeOK, flags, driver, seen
    <3>6. CASE WaitTimesOut
      BY <3>6 DEF WaitTimesOut, TypeOK, flags, driver, seen
    <3>7. CASE GiveUp
      BY <3>7, QueueTyped, SMTT(60)
      DEF GiveUp, WifiDisconnect, LinkDown, RoomForEvent, TypeOK, flags, driver,
          seen, Events, Reasons
    <3>8. CASE StaDisconnect
      BY <3>8 DEF StaDisconnect, TypeOK, driver, seen
    <3>9. CASE Leave
      BY <3>9, QueueTyped
      DEF Leave, WifiDisconnect, LinkDown, RoomForEvent, TypeOK, flags, driver,
          seen, Events, Reasons
    <3>. QED
      BY <2>1, <3>1, <3>2, <3>3, <3>4, <3>5, <3>6, <3>7, <3>8, <3>9
      DEF Application
  <2>2. CASE EventTask
    <3>1. CASE GotIp
      BY <3>1, QueueTyped DEF GotIp, TypeOK, flags, seen, Bits
    <3>2. CASE Disconnected
      <4>1. Head(events) \in Reasons
        BY <3>2, QueueTyped DEF Disconnected, TypeOK, Events
      <4>. QED
        BY <3>2, <4>1, QueueTyped
        DEF Disconnected, TypeOK, flags, seen, Idle
    <3>3. CASE Decide
      <4>1. Reconnects \in BOOLEAN /\ (Reconnects => ~handler.voluntary)
        BY DEF Reconnects
      <4>. QED
        BY <3>3, <4>1 DEF Decide, TypeOK, driver, seen
    <3>4. CASE Act
      <4>1. handler' \in HandlerType /\ ~handler'.doReconnect
        BY <3>4, IdleTyped DEF Act
      <4>2. bits' \in SUBSET Bits
        BY <3>4 DEF Act, TypeOK, Bits
      <4>3. /\ link' \in {"down", "trying", "up"}
            /\ UNCHANGED <<events, lastReason>>
        BY <3>4 DEF Act, WifiConnect, TypeOK, driver
      <4>. QED
        BY <3>4, <4>1, <4>2, <4>3, Zenon
        DEF Act, TypeOK, HandlerType, flags, seen
    <3>. QED  BY <2>2, <3>1, <3>2, <3>3, <3>4 DEF EventTask
  <2>3. CASE Driver
    <3>1. CASE GetsAddress
      BY <3>1, QueueTyped
      DEF GetsAddress, RoomForEvent, TypeOK, flags, Events
    <3>2. ASSUME NEW r \in {"transient", "permanent"}, LosesLink(r)
          PROVE  TypeOK'
      <4>1. losses' \in 0 .. 2
        BY <3>2 DEF LosesLink, Lost, TypeOK
      <4>. QED
        BY <3>2, <4>1, QueueTyped
        DEF LosesLink, LinkDown, RoomForEvent, TypeOK, flags, Events, Reasons
    <3>. QED  BY <2>3, <3>1, <3>2 DEF Driver
  <2>4. CASE UNCHANGED vars
    BY <2>4 DEF vars, TypeOK, flags, driver, seen
  <2>. QED  BY <2>1, <2>2, <2>3, <2>4 DEF Next
<1>. QED  BY <1>1, <1>2, PTL DEF Spec
-----------------------------------------------------------------------------
(***************************************************************************)
(* One core.  The application only runs when the event task has nothing to *)
(* do, so what it finds is the result of all that happened.                *)
(***************************************************************************)
(* The driver's events end with the one that says the link went down, and  *)
(* nothing follows until the event task has acted on it.                   *)
DownIsLast ==
    /\ DownOnlyLast(events)
    /\ HasDown(events) => link = "down"
    /\ handler.at # "idle" => link = "down" /\ events = <<>>

(* From the flag sta_disconnect sets to the end: whatever disconnection is *)
(* reported now is taken for the one that was asked for.                   *)
StayingOff ==
    /\ intent = "left" => pc = "idle" /\ link = "down"
    /\ (pc = "leave" \/ intent = "left") =>
          /\ handler.at = "act" => ~handler.doReconnect
          /\ handler.at = "decide" => handler.voluntary
          /\ (link # "down" \/ HasDown(events)) => s_voluntary_disconnect

(* The link went down and nothing was decided about it yet.                *)
Pending == handler.at = "decide" \/ HasDown(events)

(* While sta_connect runs: a bit that is set, or that the event task is    *)
(* about to set, was earned, and the first lost attempt is retried.        *)
Earned ==
    pc \in {"clear", "connect", "waiting"} =>
        /\ ~s_voluntary_disconnect /\ ~handler.voluntary
        /\ HasAddress(events) => gotIp
        /\ (Pending \/ ~s_first_connect) => losses # 0
        /\ (Pending /\ ~s_first_connect) => losses = 2
        /\ (handler.at = "act" /\ ~handler.doReconnect) => losses = 2
        /\ pc # "clear" => /\ "CONNECTED_BIT" \in bits => gotIp
                           /\ "FAIL_BIT" \in bits => losses = 2

OneCore == ~dual => DownIsLast /\ StayingOff /\ Earned

(* Nothing of it is disturbed by a step of the application, which finds no *)
(* event and the event task idle.                                          *)
LEMMA ApplicationKeeps ==
    ASSUME TypeOK, ~dual, DownIsLast, StayingOff, Earned, Application
    PROVE  DownIsLast' /\ StayingOff' /\ Earned'
<1> DEFINE Quiet == /\ events = <<>> /\ handler.at = "idle"
                    /\ ~handler.voluntary /\ ~handler.doReconnect
                    /\ ~HasDown(events) /\ ~HasAddress(events)
<1>1. ~HasDown(<<>>) /\ ~HasAddress(<<>>) /\ DownOnlyLast(<<>>)
  BY EmptyQueue
<1>2. AppMayRun => Quiet
  BY <1>1, IdleTyped DEF AppMayRun
<1> HIDE DEF Quiet
<1>3. CASE StaInit
  BY <1>3, Zenon
  DEF StaInit, DownIsLast, StayingOff, Earned, Pending, flags, driver, seen
<1>4. CASE StaConnect
  <2>1. /\ Quiet /\ UNCHANGED <<events, handler, link>>
        /\ s_first_connect' /\ ~s_voluntary_disconnect'
        /\ pc' = "clear" /\ intent' = "none"
    BY <1>4, <1>2 DEF StaConnect, driver
  <2>. QED
    BY <2>1 DEF DownIsLast, StayingOff, Earned, Pending, Quiet
<1>5. CASE ClearBits
  <2>1. /\ UNCHANGED <<events, handler, link, intent, s_first_connect,
                       s_voluntary_disconnect, gotIp, losses>>
        /\ pc = "clear" /\ pc' = "connect" /\ bits' = bits \ Bits
    BY <1>5 DEF ClearBits, StaleBits, driver, flags, seen
  <2>. QED
    BY <2>1 DEF DownIsLast, StayingOff, Earned, Pending, Bits
<1>6. CASE Connect
  <2>1. /\ Quiet
        /\ UNCHANGED <<events, handler, intent, s_first_connect,
                       s_voluntary_disconnect, gotIp, losses, bits>>
        /\ pc = "connect" /\ pc' \in {"waiting", "idle"}
    BY <1>6, <1>2 DEF Connect, WifiConnect, driver, flags, seen
  <2>. QED
    BY <2>1 DEF DownIsLast, StayingOff, Earned, Pending, Quiet
<1>7. CASE WaitEnds
  <2>1. /\ UNCHANGED <<events, handler, link, s_first_connect,
                       s_voluntary_disconnect, gotIp, losses>>
        /\ pc = "waiting" /\ pc' \in {"idle", "giveUp"}
        /\ intent' = intent \/ intent' = "connected"
    BY <1>7 DEF WaitEnds, driver, flags, seen
  <2>. QED
    BY <2>1 DEF DownIsLast, StayingOff, Earned, Pending
<1>8. CASE WaitTimesOut
  BY <1>8
  DEF WaitTimesOut, DownIsLast, StayingOff, Earned, Pending, flags, driver, seen
<1>9. CASE GiveUp
  <2>1. /\ Quiet
        /\ UNCHANGED <<handler, intent>>
        /\ pc = "giveUp" /\ pc' = "idle"
    BY <1>9, <1>2 DEF GiveUp
  <2>2. /\ link' = "down"
        /\ DownOnlyLast(events')
    <3>1. CASE link = "down"
      BY <3>1, <1>9 DEF GiveUp, WifiDisconnect, driver, DownIsLast
    <3>2. CASE link # "down"
      <4>1. link' = "down" /\ events' = Append(events, "leave")
        BY <3>2, <1>9 DEF GiveUp, WifiDisconnect, LinkDown
      <4>2. events \in Seq(Events) /\ "leave" \in Events /\ ~HasDown(events)
        BY <2>1 DEF TypeOK, Events, Reasons, Quiet
      <4>3. DownOnlyLast(events')
        BY <4>1, <4>2, QueuedEvent
      <4>. QED  BY <4>1, <4>3
    <3>. QED  BY <3>1, <3>2
  <2>. QED
    BY <2>1, <2>2 DEF DownIsLast, StayingOff, Earned, Pending, Quiet
<1>10. CASE StaDisconnect
  <2>1. /\ Quiet /\ UNCHANGED <<events, handler, link>>
        /\ s_voluntary_disconnect' /\ pc' = "leave" /\ intent' = "none"
    BY <1>10, <1>2 DEF StaDisconnect, driver
  <2>. QED
    BY <2>1 DEF DownIsLast, StayingOff, Earned, Pending, Quiet
<1>11. CASE Leave
  <2>1. /\ Quiet /\ UNCHANGED <<handler, s_voluntary_disconnect>>
        /\ pc = "leave" /\ pc' = "idle" /\ intent' = "left"
    BY <1>11, <1>2 DEF Leave, flags
  <2>2. /\ link' = "down" /\ DownOnlyLast(events')
        /\ HasDown(events') => s_voluntary_disconnect
    <3>1. CASE link = "down"
      BY <3>1, <1>11, <2>1 DEF Leave, WifiDisconnect, driver, DownIsLast, Quiet
    <3>2. CASE link # "down"
      <4>1. link' = "down" /\ events' = Append(events, "leave")
        BY <3>2, <1>11 DEF Leave, WifiDisconnect, LinkDown
      <4>2. events \in Seq(Events) /\ "leave" \in Events /\ ~HasDown(events)
        BY <2>1 DEF TypeOK, Events, Reasons, Quiet
      <4>3. DownOnlyLast(events') /\ s_voluntary_disconnect
        BY <3>2, <2>1, <4>1, <4>2, QueuedEvent DEF StayingOff
      <4>. QED  BY <4>1, <4>3
    <3>. QED  BY <3>1, <3>2
  <2>. QED
    BY <2>1, <2>2 DEF DownIsLast, StayingOff, Earned, Pending, Quiet
<1>. QED
  BY <1>3, <1>4, <1>5, <1>6, <1>7, <1>8, <1>9, <1>10, <1>11 DEF Application

(* Nor by a step of the event task: the link is down when it decides.      *)
LEMMA EventTaskKeeps ==
    ASSUME TypeOK, ~dual, DownIsLast, StayingOff, Earned, EventTask
    PROVE  DownIsLast' /\ StayingOff' /\ Earned'
<1>1. CASE GotIp
  <2>1. /\ HasAddress(events) /\ DownOnlyLast(events')
        /\ HasDown(events') => HasDown(events)
        /\ HasAddress(events') => HasAddress(events)
    <3>1. events \in Seq(Events) /\ events # <<>> /\ events' = Tail(events)
      BY <1>1 DEF GotIp, TypeOK
    <3>2. HasAddress(events)
      <4>1. 1 \in 1 .. Len(events) /\ events[1] = "GOT_IP"
        BY <3>1, <1>1, EmptySeq, HeadTailProperties DEF GotIp
      <4>. QED  BY <4>1 DEF HasAddress
    <3>. QED  BY <3>1, <3>2, TakenEvent DEF DownIsLast
  <2>2. /\ UNCHANGED <<handler, link, s_first_connect, s_voluntary_disconnect,
                       gotIp, losses, pc, intent>>
        /\ handler.at = "idle" /\ bits' = bits \cup {"CONNECTED_BIT"}
    BY <1>1, IdleTyped DEF GotIp, flags, seen
  <2>. QED
    BY <2>1, <2>2 DEF DownIsLast, StayingOff, Earned, Pending
<1>2. CASE Disconnected
  <2>1. events' = <<>> /\ HasDown(events)
    BY <1>2, TakenEvent DEF Disconnected, TypeOK, DownIsLast
  <2>2. ~HasDown(events') /\ ~HasAddress(events') /\ DownOnlyLast(events')
    BY <2>1, EmptyQueue
  <2>3. /\ UNCHANGED <<link, s_first_connect, s_voluntary_disconnect,
                       gotIp, losses, pc, intent, bits>>
        /\ handler'.at = "decide" /\ handler'.voluntary = s_voluntary_disconnect
    BY <1>2 DEF Disconnected, flags, seen, Idle
  <2>. QED
    BY <2>1, <2>2, <2>3 DEF DownIsLast, StayingOff, Earned, Pending
<1>3. CASE Decide
  <2>1. /\ UNCHANGED <<link, events, gotIp, losses, pc, intent, bits>>
        /\ handler.at = "decide" /\ handler'.at = "act"
        /\ handler'.voluntary = handler.voluntary
        /\ handler'.doReconnect = Reconnects
    BY <1>3 DEF Decide, driver, seen, TypeOK
  <2>2. ~HasDown(events)
    BY <2>1, EmptyQueue DEF DownIsLast
  <2>3. DownIsLast'
    BY <2>1 DEF DownIsLast
  <2>4. StayingOff'
    BY <2>1, <2>2 DEF StayingOff, DownIsLast, Reconnects
  <2>5. Earned'
    <3>1. CASE handler.voluntary
      BY <3>1, <2>1 DEF Earned
    <3>2. CASE ~handler.voluntary
      BY <3>2, <2>1, <2>2, <1>3 DEF Earned, Pending, Decide, Reconnects
    <3>. QED  BY <3>1, <3>2
  <2>. QED  BY <2>3, <2>4, <2>5
<1>4. CASE Act
  <2>1. /\ UNCHANGED <<events, gotIp, losses, pc, intent, s_first_connect,
                       s_voluntary_disconnect>>
        /\ handler.at = "act" /\ handler'.at = "idle" /\ ~handler'.voluntary
    BY <1>4, IdleTyped DEF Act, WifiConnect, driver, flags, seen
  <2>2. ~HasDown(events) /\ events = <<>> /\ link = "down"
    BY <2>1, EmptyQueue DEF DownIsLast
  <2>3. IF handler.doReconnect THEN UNCHANGED bits
        ELSE bits' = bits \cup {"FAIL_BIT"} /\ link' = "down"
    BY <1>4, <2>2 DEF Act, driver
  <2>4. DownIsLast'
    BY <2>1, <2>2 DEF DownIsLast
  <2>5. StayingOff'
    BY <2>1, <2>2, <2>3 DEF StayingOff
  <2>6. Earned'
    BY <2>1, <2>2, <2>3 DEF Earned, Pending
  <2>. QED  BY <2>4, <2>5, <2>6
<1>. QED  BY <1>1, <1>2, <1>3, <1>4 DEF EventTask

(* Nor by the driver: it reports one loss of the link at a time.           *)
LEMMA DriverKeeps ==
    ASSUME TypeOK, ~dual, DownIsLast, StayingOff, Earned, Driver
    PROVE  DownIsLast' /\ StayingOff' /\ Earned'
<1>1. CASE GetsAddress
  <2>1. /\ UNCHANGED <<handler, s_first_connect, s_voluntary_disconnect,
                       losses, pc, intent, bits>>
        /\ link = "trying" /\ link' = "up" /\ gotIp'
        /\ events' = Append(events, "GOT_IP")
    BY <1>1 DEF GetsAddress, flags
  <2>2. ~HasDown(events) /\ handler.at = "idle"
    BY <2>1 DEF DownIsLast, TypeOK
  <2>3. ~HasDown(events') /\ DownOnlyLast(events')
    BY <2>1, <2>2, QueuedEvent DEF TypeOK, Events
  <2>. QED
    BY <2>1, <2>2, <2>3 DEF DownIsLast, StayingOff, Earned, Pending
<1>2. ASSUME NEW r \in {"transient", "permanent"}, LosesLink(r)
      PROVE  DownIsLast' /\ StayingOff' /\ Earned'
  <2>1. /\ UNCHANGED <<handler, s_first_connect, s_voluntary_disconnect,
                       gotIp, pc, intent, bits>>
        /\ link # "down" /\ link' = "down"
        /\ events' = Append(events, r)
        /\ losses' = IF losses < 2 THEN losses + 1 ELSE losses
    BY <1>2 DEF LosesLink, LinkDown, Lost, flags
  <2>2. ~HasDown(events) /\ handler.at = "idle"
    BY <2>1 DEF DownIsLast, TypeOK
  <2>3. /\ HasDown(events') /\ DownOnlyLast(events')
        /\ HasAddress(events') => HasAddress(events)
    BY <2>1, <2>2, QueuedEvent DEF TypeOK, Events, Reasons
  <2>4. losses' # 0 /\ (losses # 0 => losses' = 2)
    BY <2>1 DEF TypeOK
  <2>. QED
    BY <2>1, <2>2, <2>3, <2>4 DEF DownIsLast, StayingOff, Earned, Pending
<1>. QED  BY <1>1, <1>2 DEF Driver

(* The invariant of a chip with one core.                                  *)
LEMMA OneCoreInv == Spec => []OneCore
<1>1. Init => OneCore
  BY EmptyQueue, IdleTyped
  DEF Init, OneCore, DownIsLast, StayingOff, Earned
<1>2. TypeOK /\ OneCore /\ [Next]_vars => OneCore'
  <2> SUFFICES ASSUME TypeOK, OneCore, [Next]_vars, ~dual' PROVE OneCore'
    BY DEF OneCore
  <2>1. ~dual
    BY DEF Next, Application, EventTask, Driver, StaInit, StaConnect, ClearBits,
       Connect, WaitEnds, WaitTimesOut, GiveUp, StaDisconnect, Leave, GotIp,
       Disconnected, Decide, Act, GetsAddress, LosesLink, vars
  <2>2. CASE UNCHANGED vars
    BY <2>2
    DEF vars, OneCore, DownIsLast, StayingOff, Earned, Pending, flags, driver,
        seen
  <2>. QED
    BY <2>1, <2>2, ApplicationKeeps, EventTaskKeeps, DriverKeeps
    DEF OneCore, Next
<1>. QED  BY <1>1, <1>2, TypeInv, PTL DEF Spec

(* After sta_disconnect the station stays off until sta_connect is called  *)
(* again, whatever the driver was doing and however often the link was     *)
(* lost; on one core.                                                      *)
THEOREM StaysOff == Spec => []DisconnectHonoured
<1>1. OneCore => DisconnectHonoured
  BY DEF OneCore, StayingOff, DisconnectHonoured
<1>. QED  BY <1>1, OneCoreInv, PTL

(* What sta_connect returns is the outcome of its own attempt: the bit it  *)
(* is woken by was set by an address, or by the loss of the retry, since   *)
(* it was called; on one core.                                             *)
THEOREM OutcomesAreEarned == Spec => OutcomeEarned
<1> DEFINE Outcome == (~dual /\ pc = "waiting" /\ bits # {}) =>
                         /\ pc' = "idle" => gotIp
                         /\ pc' = "giveUp" => losses = 2
<1>1. TypeOK /\ OneCore /\ [Next]_vars => [Outcome]_vars
  <2> SUFFICES ASSUME TypeOK, OneCore, Next, ~dual, pc = "waiting", bits # {}
               PROVE  /\ pc' = "idle" => gotIp
                      /\ pc' = "giveUp" => losses = 2
    OBVIOUS
  <2>1. /\ "CONNECTED_BIT" \in bits => gotIp
        /\ "FAIL_BIT" \in bits => losses = 2
    BY DEF OneCore, Earned
  <2>2. "CONNECTED_BIT" \in bits \/ "FAIL_BIT" \in bits
    BY DEF TypeOK, Bits
  <2>3. CASE WaitEnds
    BY <2>1, <2>2, <2>3 DEF WaitEnds
  <2>4. CASE pc' = pc
    BY <2>4
  <2>. QED
    BY <2>3, <2>4
    DEF Next, Application, EventTask, Driver, StaInit, StaConnect, ClearBits,
        Connect, WaitTimesOut, GiveUp, StaDisconnect, Leave, GotIp,
        Disconnected, Decide, Act, GetsAddress, LosesLink
<1>. QED  BY <1>1, TypeInv, OneCoreInv, PTL DEF Spec, OutcomeEarned
=============================================================================
