----------------------- MODULE ConnectionManagerProofs -----------------------
(***************************************************************************)
(* Theorems of ConnectionManager, for every configuration, every width of  *)
(* the clock and of the probe counter, every lag of the main task and both *)
(* kinds of receive callback.  The invariants are proved in two layers:    *)
(* types, with how far the argument of a loop call can lag the clock, and  *)
(* on top of them what the flags say while a loop call is interrupted.     *)
(***************************************************************************)
EXTENDS ConnectionManager, TLAPS

-----------------------------------------------------------------------------
(***************************************************************************)
(* What Minus and Plus do on a clock of any width.                         *)
(***************************************************************************)

(* Readings and their differences are uint32_t values.                     *)
LEMMA MinusInTime == \A a, b \in Time : Minus(a, b) \in Time
  BY ClockModAssumption, SMT DEF Time, Minus

(* A deadline is a uint32_t value.                                         *)
LEMMA PlusInTime == \A a, b \in Time : Plus(a, b) \in Time
  BY ClockModAssumption, SMT DEF Time, Plus

(* The next millisecond is a reading, even on a clock of one value.        *)
LEMMA NextInTime == \A a \in Time : Plus(a, 1) \in Time
  BY ClockModAssumption, SMT DEF Time, Plus

(* Readings are numbers, and 0, the timers' first value, is one.           *)
LEMMA TimeIsNat == Time \subseteq Nat /\ 0 \in Time
  BY ClockModAssumption, SMT DEF Time

(* No time has passed since now.                                           *)
LEMMA MinusSelf == \A a \in Time : Minus(a, a) = 0
  BY ClockModAssumption, SMT DEF Time, Minus

(* One more millisecond makes an interval at most one longer: it wraps to  *)
(* 0 when the clock comes round to the reading.                            *)
LEMMA MinusNext ==
    \A a, b \in Time : Minus(Plus(a, 1), b) <= Minus(a, b) + 1
  BY ClockModAssumption, SMT DEF Time, Minus, Plus

(* Circular order: a reading b from which c lies nearer than a was taken   *)
(* on the way from a to c.                                                 *)
LEMMA MinusBetween ==
    \A a, b, c \in Time :
        Minus(c, b) < Minus(a, b) => Minus(b, a) <= Minus(c, a)
  BY ClockModAssumption, SMT DEF Time, Minus

(* Two spans of time are together no shorter than the difference from the  *)
(* first reading to the last, which may have wrapped.                      *)
LEMMA SpansAdd ==
    \A a, b, c \in Time : Minus(c, a) <= Minus(b, a) + Minus(c, b)
  BY ClockModAssumption, SMT DEF Time, Minus

(* Two readings the clock has left behind by no more than a lag are within *)
(* a lag of each other, whichever was taken first.                         *)
LEMMA BothRecentNear ==
    \A a, b, c \in Time :
        Minus(c, a) <= MaxLag /\ Minus(c, b) <= MaxLag => Near(a, b)
  <1>1. MaxLag \in Nat
    BY ConfigAssumption
  <1> QED BY <1>1, ClockModAssumption, SMT DEF Time, Minus, Near

(* One more millisecond, when the interval does not fill the clock.        *)
LEMMA MinusNextExact ==
    \A a, b \in Time :
        Minus(a, b) + 1 < ClockMod => Minus(Plus(a, 1), b) = Minus(a, b) + 1
  BY ClockModAssumption, SMT DEF Time, Minus, Plus

-----------------------------------------------------------------------------
(***************************************************************************)
(* Types.                                                                  *)
(***************************************************************************)
FlagsTyped ==
    /\ connected \in BOOLEAN /\ began \in BOOLEAN
    /\ paired \in BOOLEAN /\ reacquiring \in BOOLEAN /\ reacqDone \in BOOLEAN
    /\ ackPending \in BOOLEAN

ControlTyped == state \in States /\ pc \in Positions /\ policy \in Policies

TimersTyped ==
    /\ clock \in Time /\ nowMs \in Time
    /\ lastHeardMs \in Time /\ stateEnteredMs \in Time /\ nextProbeMs \in Time
    /\ probeCount \in 0 .. ByteMod - 1
    /\ heardAge \in 0 .. HeardAgeMax
    /\ probeAge \in 0 .. ProbeAgeMax
    /\ setupAge \in 0 .. SetupMax

(* The argument of a loop call is a clock reading at most MaxLag old, and  *)
(* only a manager that began is inside loop().  Without this the age of a  *)
(* message stamped with that argument would have no bound.                 *)
LagBounded  == began => Minus(clock, nowMs) <= MaxLag
LoopRunning == pc # "idle" => began

ClockInv == TimersTyped /\ LagBounded /\ LoopRunning

(* A message past its test carries a clock reading at most MaxLag old, and *)
(* no older than the power-up.                                             *)
HandlingRecent ==
    /\ handling = {} \/ \E t \in Time : handling = {t}
    /\ \A t \in handling : /\ Minus(clock, t) <= MaxLag
                           /\ ~began => Minus(clock, t) <= setupAge

TypeInv == FlagsTyped /\ ControlTyped /\ ClockInv /\ HandlingRecent

(* What the configuration's assumption says of its numbers.                *)
LEMMA ConfigTyped ==
    /\ heartbeatTimeoutMs \in Nat /\ staticProbeIntervalMs \in Time
    /\ dynamicProbeIntervalMs \in Time /\ bootGracePeriodMs \in Time
    /\ HeardAgeMax \in Nat /\ ProbeAgeMax \in Nat /\ SetupMax \in Nat
    /\ MaxLag \in Nat /\ MaxLag <= HeardAgeMax
    /\ HeardAgeMax = heartbeatTimeoutMs + MaxLag + 1
    /\ ByteMod \in Nat \ {0}
  <1>1. /\ heartbeatTimeoutMs \in Time /\ staticProbeIntervalMs \in Time
        /\ dynamicProbeIntervalMs \in Time /\ bootGracePeriodMs \in Time
        /\ MaxLag \in Nat /\ SetupMax \in Nat /\ ByteMod \in Nat \ {0}
    BY ConfigAssumption DEF DurationSet
  <1> QED BY <1>1, TimeIsNat DEF HeardAgeMax, ProbeAgeMax

(* A message stamped with the argument of the running loop call is as old  *)
(* as that call at most.                                                   *)
LEMMA HearingInRange ==
    ClockInv /\ pc # "idle" => Minus(clock, nowMs) \in 0 .. HeardAgeMax
  <1> SUFFICES ASSUME ClockInv, pc # "idle"
               PROVE  Minus(clock, nowMs) \in 0 .. HeardAgeMax
    OBVIOUS
  <1>1. Minus(clock, nowMs) \in Nat
    BY TimeIsNat, MinusInTime DEF ClockInv, TimersTyped
  <1>2. Minus(clock, nowMs) <= MaxLag
    BY DEF ClockInv, LagBounded, LoopRunning
  <1> QED BY <1>1, <1>2, ConfigTyped

(* Every step keeps the flags Boolean.                                     *)
LEMMA FlagsTypedKept == FlagsTyped /\ [Next]_vars => FlagsTyped'
  <1> SUFFICES ASSUME FlagsTyped, [Next]_vars PROVE FlagsTyped'
    OBVIOUS
  <1> USE DEF FlagsTyped, manager, timers, provider, callback, ages
  <1>1. CASE Begin
    BY <1>1, Zenon DEF Begin, TransitionTo
  <1>2. CASE LoopCall
    BY <1>2, Zenon DEF LoopCall
  <1>3. CASE HandleUnpairedDiscovery
    BY <1>3, Zenon DEF HandleUnpairedDiscovery, TransitionTo, HeardAt
  <1>4. CASE HandlePairedConnected
    BY <1>4, Zenon DEF HandlePairedConnected
  <1>5. CASE Degrade
    BY <1>5, Zenon DEF Degrade
  <1>6. CASE Demote
    BY <1>6, Zenon DEF Demote, TransitionTo
  <1>7. CASE Recover
    BY <1>7, Zenon DEF Recover, TransitionTo
  <1>8. CASE HandlePairedDegraded
    BY <1>8, Zenon DEF HandlePairedDegraded
  <1>9. CASE Reacquire
    BY <1>9, Zenon DEF Reacquire, TransitionTo, Probed
  <1>10. CASE HandleReacquiringStatic
    BY <1>10, Zenon DEF HandleReacquiringStatic, StaticOutcome
  <1>11. CASE StaticProbe
    BY <1>11, Zenon DEF StaticProbe, ProbeCountPlusOne, Probed
  <1>12. CASE Escalate
    BY <1>12, Zenon DEF Escalate, TransitionTo
  <1>13. CASE ArmReacquisition
    BY <1>13, Zenon DEF ArmReacquisition, StartReacquisition
  <1>14. CASE HandleReacquiringDynamic
    BY <1>14, Zenon DEF HandleReacquiringDynamic, Probed
  <1>15. CASE PollReacquisition
    BY <1>15, Zenon DEF PollReacquisition, Rejoin, ResetReacquisition,
       TransitionTo, HeardAt
  <1>16. CASE OnMessageReceived
    BY <1>16, Zenon DEF OnMessageReceived
  <1>17. CASE HandleMessage
    BY <1>17, Zenon DEF HandleMessage, Rejoin, ResetReacquisition,
       TransitionTo, HeardAt
  <1>18. CASE OnReconnectAck
    BY <1>18, Zenon DEF OnReconnectAck
  <1>19. CASE OnReacquisitionSuccess
    BY <1>19, Zenon DEF OnReacquisitionSuccess, Rejoin, ResetReacquisition,
       TransitionTo, HeardAt
  <1>20. CASE PairingCompletes
    BY <1>20, Zenon DEF PairingCompletes
  <1>21. CASE ClearPairing
    BY <1>21, Zenon DEF ClearPairing
  <1>22. CASE Tick
    BY <1>22, Zenon DEF Tick, Saturate
  <1>23. CASE UNCHANGED vars
    BY <1>23 DEF vars
  <1> QED
    BY <1>1, <1>2, <1>3, <1>4, <1>5, <1>6, <1>7, <1>8, <1>9, <1>10, <1>11,
      <1>12, <1>13, <1>14, <1>15, <1>16, <1>17, <1>18, <1>19, <1>20, <1>21,
      <1>22, <1>23
    DEF Next, MainTask, Callback

(* Every step moves between states and positions that exist.               *)
LEMMA ControlTypedKept == ControlTyped /\ [Next]_vars => ControlTyped'
  <1> SUFFICES ASSUME ControlTyped, [Next]_vars PROVE ControlTyped'
    OBVIOUS
  <1> USE DEF ControlTyped, States, Positions, manager, timers, provider,
          callback, ages
  <1>1. CASE Begin
    BY <1>1 DEF Begin, TransitionTo
  <1>2. CASE LoopCall
    BY <1>2 DEF LoopCall
  <1>3. CASE HandleUnpairedDiscovery
    BY <1>3 DEF HandleUnpairedDiscovery, TransitionTo, HeardAt
  <1>4. CASE HandlePairedConnected
    BY <1>4 DEF HandlePairedConnected
  <1>5. CASE Degrade
    BY <1>5 DEF Degrade
  <1>6. CASE Demote
    BY <1>6 DEF Demote, TransitionTo
  <1>7. CASE Recover
    BY <1>7 DEF Recover, TransitionTo
  <1>8. CASE HandlePairedDegraded
    BY <1>8 DEF HandlePairedDegraded
  <1>9. CASE Reacquire
    BY <1>9 DEF Reacquire, TransitionTo, Probed
  <1>10. CASE HandleReacquiringStatic
    BY <1>10 DEF HandleReacquiringStatic, StaticOutcome
  <1>11. CASE StaticProbe
    BY <1>11 DEF StaticProbe, ProbeCountPlusOne, Probed
  <1>12. CASE Escalate
    BY <1>12 DEF Escalate, TransitionTo
  <1>13. CASE ArmReacquisition
    BY <1>13 DEF ArmReacquisition, StartReacquisition
  <1>14. CASE HandleReacquiringDynamic
    BY <1>14 DEF HandleReacquiringDynamic, Probed
  <1>15. CASE PollReacquisition
    BY <1>15 DEF PollReacquisition, Rejoin, ResetReacquisition, TransitionTo,
       HeardAt
  <1>16. CASE OnMessageReceived
    BY <1>16 DEF OnMessageReceived
  <1>17. CASE HandleMessage
    BY <1>17 DEF HandleMessage, Rejoin, ResetReacquisition, TransitionTo,
       HeardAt
  <1>18. CASE OnReconnectAck
    BY <1>18 DEF OnReconnectAck
  <1>19. CASE OnReacquisitionSuccess
    BY <1>19 DEF OnReacquisitionSuccess, Rejoin, ResetReacquisition,
       TransitionTo, HeardAt
  <1>20. CASE PairingCompletes
    BY <1>20 DEF PairingCompletes
  <1>21. CASE ClearPairing
    BY <1>21 DEF ClearPairing
  <1>22. CASE Tick
    BY <1>22 DEF Tick, Saturate
  <1>23. CASE UNCHANGED vars
    BY <1>23 DEF vars
  <1> QED
    BY <1>1, <1>2, <1>3, <1>4, <1>5, <1>6, <1>7, <1>8, <1>9, <1>10, <1>11,
      <1>12, <1>13, <1>14, <1>15, <1>16, <1>17, <1>18, <1>19, <1>20, <1>21,
      <1>22, <1>23
    DEF Next, MainTask, Callback

(* Every step keeps timers and counters in range and the lag bounded.      *)
LEMMA ClockInvKept ==
    FlagsTyped /\ ClockInv /\ HandlingRecent /\ [Next]_vars => ClockInv'
  <1> SUFFICES ASSUME FlagsTyped, ClockInv, HandlingRecent, [Next]_vars
               PROVE  ClockInv'
    OBVIOUS
  <1> USE ConfigTyped, TimeIsNat
  <1> USE DEF FlagsTyped, ClockInv, TimersTyped, LagBounded, LoopRunning,
          manager, timers, provider, callback, ages
  <1>1. CASE Begin
    BY <1>1, PlusInTime, MinusSelf DEF Begin, TransitionTo
  <1>2. CASE LoopCall
    BY <1>2, MinusSelf DEF LoopCall
  <1>3. CASE HandleUnpairedDiscovery
    <2>1. Minus(clock, nowMs) \in 0 .. HeardAgeMax
      BY <1>3, HearingInRange DEF HandleUnpairedDiscovery
    <2>2. heardAge' \in 0 .. HeardAgeMax
      BY <1>3, <2>1 DEF HandleUnpairedDiscovery, HeardAt
    <2>3. probeCount' \in 0 .. ByteMod - 1
      BY <1>3 DEF HandleUnpairedDiscovery, TransitionTo
    <2> QED
      BY <1>3, <2>2, <2>3 DEF HandleUnpairedDiscovery, TransitionTo
  <1>4. CASE HandlePairedConnected
    BY <1>4 DEF HandlePairedConnected
  <1>5. CASE Degrade
    BY <1>5 DEF Degrade
  <1>6. CASE Demote
    BY <1>6 DEF Demote, TransitionTo
  <1>7. CASE Recover
    BY <1>7 DEF Recover, TransitionTo
  <1>8. CASE HandlePairedDegraded
    BY <1>8 DEF HandlePairedDegraded
  <1>9. CASE Reacquire
    BY <1>9 DEF Reacquire, TransitionTo, Probed
  <1>10. CASE HandleReacquiringStatic
    BY <1>10 DEF HandleReacquiringStatic, StaticOutcome
  <1>11. CASE StaticProbe
    BY <1>11, PlusInTime DEF StaticProbe, ProbeCountPlusOne, Probed
  <1>12. CASE Escalate
    BY <1>12 DEF Escalate, TransitionTo
  <1>13. CASE ArmReacquisition
    BY <1>13 DEF ArmReacquisition, StartReacquisition
  <1>14. CASE HandleReacquiringDynamic
    BY <1>14, PlusInTime DEF HandleReacquiringDynamic, Probed
  <1>15. CASE PollReacquisition
    <2>1. Minus(clock, nowMs) \in 0 .. HeardAgeMax
      BY <1>15, HearingInRange DEF PollReacquisition
    <2>2. heardAge' \in 0 .. HeardAgeMax
      BY <1>15, <2>1 DEF PollReacquisition, HeardAt
    <2>3. probeCount' \in 0 .. ByteMod - 1
      BY <1>15 DEF PollReacquisition, Rejoin, TransitionTo
    <2> QED
      BY <1>15, <2>2, <2>3 DEF PollReacquisition, Rejoin, TransitionTo
  <1>16. CASE OnMessageReceived
    BY <1>16, MinusSelf DEF OnMessageReceived
  <1>17. CASE HandleMessage
    <2>1. PICK t \in handling : /\ lastHeardMs' = t /\ HeardAt(t)
                               /\ probeCount' \in {0, probeCount}
                               /\ stateEnteredMs' \in {t, stateEnteredMs}
      BY <1>17 DEF HandleMessage, Rejoin, TransitionTo
    <2>2. t \in Time /\ Minus(clock, t) <= MaxLag
      BY <2>1 DEF HandlingRecent
    <2>3. Minus(clock, t) \in 0 .. HeardAgeMax
      <3>1. Minus(clock, t) \in Nat
        BY <2>2, MinusInTime
      <3> QED BY <2>2, <3>1
    <2> QED BY <1>17, <2>1, <2>2, <2>3 DEF HandleMessage, HeardAt
  <1>18. CASE OnReconnectAck
    BY <1>18 DEF OnReconnectAck
  <1>19. CASE OnReacquisitionSuccess
    BY <1>19, MinusSelf DEF OnReacquisitionSuccess, Rejoin, ResetReacquisition,
       TransitionTo, HeardAt
  <1>20. CASE PairingCompletes
    BY <1>20 DEF PairingCompletes
  <1>21. CASE ClearPairing
    BY <1>21 DEF ClearPairing
  <1>22. CASE Tick
    <2>1. clock' = Plus(clock, 1) /\ clock' \in Time
      BY <1>22, NextInTime DEF Tick
    <2>2. LagBounded'
      <3> SUFFICES ASSUME began PROVE Minus(clock', nowMs) <= MaxLag
        BY <1>22 DEF Tick
      <3>1. Minus(clock, nowMs) < MaxLag
        BY <1>22 DEF Tick
      <3>2. Minus(clock', nowMs) <= Minus(clock, nowMs) + 1
        BY <2>1, MinusNext
      <3>3. Minus(clock, nowMs) \in Nat /\ Minus(clock', nowMs) \in Nat
        BY <2>1, MinusInTime
      <3> QED BY <3>1, <3>2, <3>3
    <2>3. /\ heardAge' \in 0 .. HeardAgeMax
          /\ probeAge' \in 0 .. ProbeAgeMax
          /\ setupAge' \in 0 .. SetupMax
      BY <1>22 DEF Tick, Saturate
    <2> QED
      BY <1>22, <2>1, <2>2, <2>3 DEF Tick
  <1>23. CASE UNCHANGED vars
    BY <1>23 DEF vars
  <1> QED
    BY <1>1, <1>2, <1>3, <1>4, <1>5, <1>6, <1>7, <1>8, <1>9, <1>10, <1>11,
      <1>12, <1>13, <1>14, <1>15, <1>16, <1>17, <1>18, <1>19, <1>20, <1>21,
      <1>22, <1>23
    DEF Next, MainTask, Callback

(* Every step keeps the message under way recent.                          *)
LEMMA HandlingRecentKept ==
    FlagsTyped /\ ClockInv /\ HandlingRecent /\ [Next]_vars => HandlingRecent'
  <1> SUFFICES ASSUME FlagsTyped, ClockInv, HandlingRecent, [Next]_vars
               PROVE  HandlingRecent'
    OBVIOUS
  <1> USE ConfigTyped, TimeIsNat DEF ClockInv, TimersTyped, HandlingRecent,
          manager, timers, provider, callback, ages
  <1>1. CASE OnMessageReceived
    BY <1>1, MinusSelf DEF OnMessageReceived
  <1>2. CASE HandleMessage
    BY <1>2 DEF HandleMessage
  <1>3. CASE Tick
    <2> SUFFICES ASSUME NEW t \in handling
                 PROVE  /\ Minus(clock', t) <= MaxLag
                        /\ ~began' => Minus(clock', t) <= setupAge'
      BY <1>3 DEF Tick
    <2>1. t \in Time /\ clock' = Plus(clock, 1) /\ clock' \in Time
      BY <1>3, NextInTime DEF Tick
    <2>2. Minus(clock', t) <= Minus(clock, t) + 1
      BY <2>1, MinusNext
    <2>3. Minus(clock, t) \in Nat /\ Minus(clock', t) \in Nat
      BY <2>1, MinusInTime
    <2>4. Minus(clock, t) < MaxLag
      BY <1>3 DEF Tick
    <2>5. Minus(clock', t) <= MaxLag
      BY <2>2, <2>3, <2>4
    <2>6. ~began' => Minus(clock', t) <= setupAge'
      BY <1>3, <2>2, <2>3 DEF Tick
    <2> QED BY <2>5, <2>6
  <1>4. CASE Begin
    BY <1>4 DEF Begin
  <1>5. CASE UNCHANGED <<handling, clock, began, setupAge>>
    BY <1>5
  <1> QED
    BY <1>1, <1>2, <1>3, <1>4, <1>5, Zenon
    DEF Next, MainTask, Callback, LoopCall, HandleUnpairedDiscovery,
        HandlePairedConnected, Degrade, Demote, Recover, HandlePairedDegraded,
        Reacquire, HandleReacquiringStatic, StaticProbe, Escalate,
        ArmReacquisition, HandleReacquiringDynamic, PollReacquisition,
        OnReconnectAck, OnReacquisitionSuccess, PairingCompletes,
        ClearPairing, vars

(* The layer as a whole.                                                   *)
LEMMA TypeInvariant == Spec => []TypeInv
  <1>1. Init => TypeInv
    <2> SUFFICES ASSUME Init PROVE TypeInv
      OBVIOUS
    <2>1. FlagsTyped
      BY Zenon DEF Init, FlagsTyped
    <2>2. ControlTyped
      BY DEF Init, ControlTyped, States, Positions
    <2>3. ClockInv
      BY ConfigTyped, TimeIsNat
      DEF Init, ClockInv, TimersTyped, LagBounded, LoopRunning
    <2>4. HandlingRecent
      BY DEF Init, HandlingRecent
    <2> QED BY <2>1, <2>2, <2>3, <2>4 DEF TypeInv
  <1>2. TypeInv /\ [Next]_vars => TypeInv'
    BY FlagsTypedKept, ControlTypedKept, ClockInvKept, HandlingRecentKept
    DEF TypeInv
  <1> QED BY <1>1, <1>2, PTL DEF Spec

(* Every reachable state is well typed: the probe counter wraps within its *)
(* byte and every time stamp stays a reading of the clock.                 *)
THEOREM TypeCorrect == Spec => []TypeOK
  <1>1. TypeInv => TypeOK
    BY DEF TypeInv, FlagsTyped, ControlTyped, ClockInv, TimersTyped,
           HandlingRecent, TypeOK
  <1> QED BY <1>1, TypeInvariant, PTL
-----------------------------------------------------------------------------
(***************************************************************************)
(* The connection flag and the armed provider.                             *)
(***************************************************************************)

(* Neither property is inductive alone.  A handler that saw connected_ set *)
(* moves the state later, so the flag must still be set then; and the      *)
(* handlers of discovery and of a connected node set and clear the flag    *)
(* without a look at the state, so the state must not have become          *)
(* REACQUIRING_DYNAMIC under them.                                         *)
RecoverConnected == pc = "recover" => connected

DiscoveryHandled ==
    pc = "UNPAIRED_DISCOVERY" =>
        state \in {"UNPAIRED_DISCOVERY", "PAIRED_CONNECTED"}

ConnectedHandled ==
    pc \in {"PAIRED_CONNECTED", "degrade"} => state = "PAIRED_CONNECTED"

SessionInv ==
    /\ ConnectedFlag /\ ReacquiringArmed
    /\ RecoverConnected /\ DiscoveryHandled /\ ConnectedHandled
    /\ LoopRunning /\ ControlTyped

(* No step of the main task or of the callback breaks the four of them.    *)
LEMMA SessionInvKept == SessionInv /\ [Next]_vars => SessionInv'
  <1> SUFFICES ASSUME SessionInv, [Next]_vars PROVE SessionInv'
    OBVIOUS
  <1> USE DEF SessionInv, ConnectedFlag, ReacquiringArmed,
          RecoverConnected, DiscoveryHandled, ConnectedHandled, LoopRunning,
          ControlTyped, States, Positions, manager, timers, provider,
          callback, ages
  <1>1. CASE Begin
    BY <1>1 DEF Begin, TransitionTo
  <1>2. CASE LoopCall
    BY <1>2 DEF LoopCall
  <1>3. CASE HandleUnpairedDiscovery
    BY <1>3 DEF HandleUnpairedDiscovery, TransitionTo, HeardAt
  <1>4. CASE HandlePairedConnected
    BY <1>4 DEF HandlePairedConnected
  <1>5. CASE Degrade
    BY <1>5 DEF Degrade
  <1>6. CASE Demote
    BY <1>6 DEF Demote, TransitionTo
  <1>7. CASE Recover
    BY <1>7 DEF Recover, TransitionTo
  <1>8. CASE HandlePairedDegraded
    BY <1>8 DEF HandlePairedDegraded
  <1>9. CASE Reacquire
    BY <1>9 DEF Reacquire, TransitionTo, Probed
  <1>10. CASE HandleReacquiringStatic
    BY <1>10 DEF HandleReacquiringStatic, StaticOutcome
  <1>11. CASE StaticProbe
    BY <1>11 DEF StaticProbe, ProbeCountPlusOne, Probed
  <1>12. CASE Escalate
    BY <1>12 DEF Escalate, TransitionTo
  <1>13. CASE ArmReacquisition
    BY <1>13 DEF ArmReacquisition, StartReacquisition
  <1>14. CASE HandleReacquiringDynamic
    BY <1>14 DEF HandleReacquiringDynamic, Probed
  <1>15. CASE PollReacquisition
    BY <1>15 DEF PollReacquisition, Rejoin, ResetReacquisition, TransitionTo,
       HeardAt
  <1>16. CASE OnMessageReceived
    BY <1>16 DEF OnMessageReceived
  <1>17. CASE HandleMessage
    BY <1>17 DEF HandleMessage, Rejoin, ResetReacquisition, TransitionTo,
       HeardAt
  <1>18. CASE OnReconnectAck
    BY <1>18 DEF OnReconnectAck
  <1>19. CASE OnReacquisitionSuccess
    BY <1>19 DEF OnReacquisitionSuccess, Rejoin, ResetReacquisition,
       TransitionTo, HeardAt
  <1>20. CASE PairingCompletes
    BY <1>20 DEF PairingCompletes
  <1>21. CASE ClearPairing
    BY <1>21 DEF ClearPairing
  <1>22. CASE Tick
    BY <1>22 DEF Tick, Saturate
  <1>23. CASE UNCHANGED vars
    BY <1>23 DEF vars
  <1> QED
    BY <1>1, <1>2, <1>3, <1>4, <1>5, <1>6, <1>7, <1>8, <1>9, <1>10, <1>11,
      <1>12, <1>13, <1>14, <1>15, <1>16, <1>17, <1>18, <1>19, <1>20, <1>21,
      <1>22, <1>23
    DEF Next, MainTask, Callback

(* Of every behaviour, whatever is fair.                                  *)
LEMMA SessionInvariant == Spec => []SessionInv
  <1>1. Init => SessionInv
    BY DEF Init, SessionInv, ConnectedFlag, ReacquiringArmed,
           RecoverConnected, DiscoveryHandled, ConnectedHandled, LoopRunning,
           ControlTyped, States, Positions
  <1> QED BY <1>1, SessionInvKept, PTL DEF Spec

(* Whoever sees PAIRED_CONNECTED outside a degradation may rely on         *)
(* connected_, however the callback interleaves with loop().               *)
THEOREM ConnectedFlagHolds == Spec => []ConnectedFlag
  BY SessionInvariant, PTL DEF SessionInv

(* While broad reacquisition is the only way back, the provider accepts    *)
(* the coordinator's ack.                                                  *)
THEOREM ReacquiringArmedHolds == Spec => []ReacquiringArmed
  BY SessionInvariant, PTL DEF SessionInv

(* A message under way is met by the main task only where callbacks run    *)
(* beside loop(), and in broad reacquisition only if it was let through    *)
(* about when the state moved.                                             *)
Overtaken ==
    /\ ~RecvPreempts => handling = {} \/ pc = "idle"
    /\ state = "REACQUIRING_DYNAMIC"
           => \A t \in handling : RecvPreempts /\ Near(t, stateEnteredMs)

(* Only the escalation brings a message there.                             *)
LEMMA OvertakenKept ==
    TypeInv /\ Overtaken /\ [Next]_vars => Overtaken'
  <1> SUFFICES ASSUME TypeInv, Overtaken, [Next]_vars PROVE Overtaken'
    OBVIOUS
  <1> USE DEF Overtaken, manager, timers, provider, callback, ages
  <1>1. CASE Escalate
    <2> SUFFICES ASSUME NEW t \in handling
                 PROVE  RecvPreempts /\ Near(t, nowMs)
      BY <1>1 DEF Escalate, TransitionTo
    <2>1. /\ t \in Time /\ clock \in Time /\ nowMs \in Time
          /\ Minus(clock, t) <= MaxLag /\ Minus(clock, nowMs) <= MaxLag
      BY <1>1 DEF Escalate, TypeInv, ClockInv, TimersTyped, LagBounded,
                  LoopRunning, HandlingRecent
    <2>2. RecvPreempts
      BY <1>1, ConfigAssumption DEF Escalate
    <2> QED BY <2>1, <2>2, BothRecentNear
  <1>2. CASE OnMessageReceived
    BY <1>2 DEF OnMessageReceived, CallbackMayRun, MessageCounts
  <1>3. CASE HandleMessage
    BY <1>3 DEF HandleMessage
  <1>4. CASE LoopCall
    BY <1>4 DEF LoopCall, MainMayRun, Near
  <1>5. CASE /\ UNCHANGED handling
             /\ pc' \in {"idle", pc} \/ pc # "idle"
             /\ \/ UNCHANGED <<state, stateEnteredMs>>
                \/ state' # "REACQUIRING_DYNAMIC"
    BY <1>5 DEF Near
  <1> QED
    BY <1>1, <1>2, <1>3, <1>4, <1>5
    DEF Next, MainTask, Callback, Begin, HandleUnpairedDiscovery,
        HandlePairedConnected, Degrade, Demote, Recover, HandlePairedDegraded,
        Reacquire, HandleReacquiringStatic, StaticProbe, ArmReacquisition,
        HandleReacquiringDynamic, PollReacquisition, OnReconnectAck,
        OnReacquisitionSuccess, PairingCompletes, ClearPairing, Tick, Rejoin,
        TransitionTo, vars

(* Of every behaviour.                                                     *)
LEMMA OvertakenInvariant == Spec => []Overtaken
  <1>1. Init => Overtaken
    BY DEF Init, Overtaken
  <1> QED BY <1>1, OvertakenKept, TypeInvariant, PTL DEF Spec

(* Broad reacquisition ends by the coordinator's answer to a reconnect     *)
(* probe, or by the one message that was past its test when the state      *)
(* moved; where callbacks do not run beside loop() there is no such        *)
(* message.                                                                *)
THEOREM AckEndsReacquisition == Spec => OnlyAckEndsReacquisition
  <1> DEFINE Ended ==
        (state = "REACQUIRING_DYNAMIC" /\ ~connected /\ connected')
          => \/ reacqDone \/ ackPending
             \/ RecvPreempts /\ \E t \in handling : Near(t, stateEnteredMs)
  <1>1. SessionInv /\ Overtaken /\ [Next]_vars => [Ended]_vars
    <2> SUFFICES ASSUME SessionInv, Overtaken, Next PROVE Ended
      OBVIOUS
    <2>1. CASE HandleUnpairedDiscovery
      BY <2>1 DEF HandleUnpairedDiscovery, SessionInv, DiscoveryHandled
    <2>2. CASE HandleMessage
      BY <2>2 DEF HandleMessage, Overtaken
    <2>3. CASE OnReacquisitionSuccess
      BY <2>3 DEF OnReacquisitionSuccess
    <2>4. CASE PollReacquisition
      BY <2>4 DEF PollReacquisition
    <2>5. CASE Degrade
      BY <2>5 DEF Degrade
    <2>6. CASE UNCHANGED connected
      BY <2>6
    <2> QED
      BY <2>1, <2>2, <2>3, <2>4, <2>5, <2>6
      DEF Next, MainTask, Callback, Begin, LoopCall, HandlePairedConnected,
          Demote, Recover, HandlePairedDegraded, Reacquire,
          HandleReacquiringStatic, StaticProbe, Escalate, ArmReacquisition,
          HandleReacquiringDynamic, OnMessageReceived, OnReconnectAck,
          PairingCompletes, ClearPairing, Tick, manager
  <1> QED
    BY <1>1, SessionInvariant, OvertakenInvariant, PTL
    DEF Spec, OnlyAckEndsReacquisition
-----------------------------------------------------------------------------
(***************************************************************************)
(* What a degradation rests on, on a clock that wraps.                     *)
(***************************************************************************)

(* The true age of the last message is never less than the difference the  *)
(* code computes from its stamp: that difference starts again at 0 each    *)
(* time the clock comes round, the age does not.                           *)
AgeCoversStamp ==
    heardAge < HeardAgeMax => Minus(clock, lastHeardMs) <= heardAge

(* Between the test and the assignments of a degradation either the        *)
(* silence lasts, or a message came in about when the loop call began.     *)
DegradeGrounds ==
    pc \in {"degrade", "demote"}
        => heardAge > heartbeatTimeoutMs \/ Near(lastHeardMs, nowMs)

HearingInv == TypeInv /\ AgeCoversStamp /\ DegradeGrounds

(* Every step keeps both.                                                  *)
LEMMA HearingInvKept ==
    TypeInv /\ TypeInv' /\ AgeCoversStamp /\ DegradeGrounds /\ [Next]_vars
        => AgeCoversStamp' /\ DegradeGrounds'
  <1> SUFFICES ASSUME TypeInv, TypeInv', AgeCoversStamp, DegradeGrounds,
                      [Next]_vars
               PROVE  AgeCoversStamp' /\ DegradeGrounds'
    OBVIOUS
  <1> USE ConfigTyped, TimeIsNat
  <1> USE DEF AgeCoversStamp, DegradeGrounds
  <1>1. /\ clock \in Time /\ nowMs \in Time /\ lastHeardMs \in Time
        /\ heardAge \in Nat /\ heardAge <= HeardAgeMax
        /\ MaxLag \in Nat /\ HeardAgeMax \in Nat /\ heartbeatTimeoutMs \in Nat
        /\ pc # "idle" => began /\ Minus(clock, nowMs) <= MaxLag
    BY DEF TypeInv, ClockInv, TimersTyped, LagBounded, LoopRunning
  <1>2. /\ Minus(clock, nowMs) \in Nat /\ Minus(clock, lastHeardMs) \in Nat
        /\ Minus(nowMs, lastHeardMs) \in Nat
    BY <1>1, MinusInTime
  <1>3. CASE HandlePairedConnected
    <2>1. ASSUME HeartbeatTimedOut
          PROVE  heardAge > heartbeatTimeoutMs \/ Near(lastHeardMs, nowMs)
      <3>1. Minus(nowMs, lastHeardMs) > heartbeatTimeoutMs
        BY <2>1 DEF HeartbeatTimedOut
      <3>2. CASE Minus(clock, lastHeardMs) >= Minus(nowMs, lastHeardMs)
        BY <1>1, <1>2, <3>1, <3>2
      <3>3. CASE Minus(clock, lastHeardMs) < Minus(nowMs, lastHeardMs)
        <4>1. Minus(lastHeardMs, nowMs) <= Minus(clock, nowMs)
          BY <1>1, <3>3, MinusBetween
        <4>2. Minus(lastHeardMs, nowMs) \in Nat /\ Minus(clock, nowMs) <= MaxLag
          BY <1>1, <1>3, MinusInTime DEF HandlePairedConnected
        <4> QED BY <1>1, <1>2, <4>1, <4>2 DEF Near
      <3> QED BY <1>2, <3>2, <3>3
    <2> QED BY <1>3, <2>1 DEF HandlePairedConnected, manager, timers, ages
  <1>4. CASE Tick
    <2>1. AgeCoversStamp'
      <3> SUFFICES ASSUME heardAge' < HeardAgeMax
                   PROVE  Minus(clock', lastHeardMs) <= heardAge'
        BY <1>4 DEF Tick, manager, timers
      <3>1. heardAge < HeardAgeMax /\ heardAge' = heardAge + 1
        BY <1>1, <1>4 DEF Tick, Saturate
      <3>2. Minus(clock', lastHeardMs) <= Minus(clock, lastHeardMs) + 1
        BY <1>1, <1>4, MinusNext DEF Tick
      <3>3. Minus(clock', lastHeardMs) \in Nat
        BY <1>1, <1>4, NextInTime, MinusInTime DEF Tick
      <3> QED BY <1>1, <1>2, <3>1, <3>2, <3>3
    <2>2. DegradeGrounds'
      BY <1>1, <1>4 DEF Tick, Saturate, manager, timers
    <2> QED BY <2>1, <2>2
  <1>5. CASE HandleMessage
    <2>1. PICK t \in handling : lastHeardMs' = t /\ HeardAt(t)
      BY <1>5 DEF HandleMessage
    <2>2. t \in Time /\ Minus(clock, t) <= MaxLag
      BY <2>1 DEF TypeInv, HandlingRecent
    <2>3. pc # "idle" => Near(t, nowMs)
      BY <1>1, <2>2, BothRecentNear
    <2>4. Minus(clock, t) \in Nat
      BY <1>1, <2>2, MinusInTime
    <2>5. UNCHANGED <<clock, nowMs, pc>>
      BY <1>5 DEF HandleMessage
    <2>6. AgeCoversStamp'
      BY <2>1, <2>4, <2>5 DEF HeardAt
    <2>7. DegradeGrounds'
      BY <2>1, <2>3, <2>5 DEF Near
    <2> QED BY <2>6, <2>7
  <1>6. CASE OnReacquisitionSuccess
    <2>1. Near(clock, nowMs) \/ pc = "idle"
      BY <1>1 DEF Near
    <2> QED
      BY <1>1, <1>6, <2>1, MinusSelf DEF OnReacquisitionSuccess, HeardAt, Near
  <1>7. CASE HandleUnpairedDiscovery
    BY <1>1, <1>2, <1>7 DEF HandleUnpairedDiscovery, HeardAt
  <1>8. CASE PollReacquisition
    BY <1>1, <1>2, <1>8 DEF PollReacquisition, HeardAt
  <1>9. CASE Begin
    BY <1>1, <1>9 DEF Begin
  <1>10. CASE LoopCall
    BY <1>10 DEF LoopCall, manager, timers, ages, TypeInv, ControlTyped, States
  <1>11. CASE /\ UNCHANGED <<clock, lastHeardMs, heardAge, nowMs>>
              /\ pc' \in {"degrade", "demote"}
                     => pc = "degrade" \/ UNCHANGED pc
    BY <1>11 DEF Near
  <1> QED
    BY <1>3, <1>4, <1>5, <1>6, <1>7, <1>8, <1>9, <1>10, <1>11
    DEF Next, MainTask, Callback, Degrade, Demote, Recover,
        HandlePairedDegraded, Reacquire, HandleReacquiringStatic,
        StaticOutcome, StaticProbe, Escalate, ArmReacquisition,
        HandleReacquiringDynamic, OnMessageReceived, OnReconnectAck,
        PairingCompletes, ClearPairing, manager, timers, ages, vars

(* The ages and stamps agree throughout.                                   *)
LEMMA HearingInvariant == Spec => []HearingInv
  <1>1. Init => AgeCoversStamp /\ DegradeGrounds
    BY ConfigTyped DEF Init, AgeCoversStamp, DegradeGrounds
  <1> QED
    BY <1>1, HearingInvKept, TypeInvariant, PTL DEF Spec, HearingInv

(* No spurious degradation beyond the one race the code has: whatever the  *)
(* width of the clock, a connected node degrades only after a real silence *)
(* longer than the timeout, or about when a message was stamped.           *)
THEOREM DegradationJustified == Spec => DegradeJustified
  <1>1. /\ HearingInv /\ [Next]_vars
        => [(began /\ state = "PAIRED_CONNECTED" /\ state' = "PAIRED_DEGRADED")
              => \/ heardAge > heartbeatTimeoutMs
                 \/ Near(lastHeardMs, nowMs)]_vars
    BY DEF HearingInv, DegradeGrounds, Next, MainTask, Callback, Begin,
           LoopCall, HandleUnpairedDiscovery, HandlePairedConnected, Degrade,
           Demote, Recover, HandlePairedDegraded, Reacquire,
           HandleReacquiringStatic, StaticProbe, Escalate, ArmReacquisition,
           HandleReacquiringDynamic, PollReacquisition, OnMessageReceived,
           HandleMessage, OnReconnectAck, OnReacquisitionSuccess,
           PairingCompletes, ClearPairing, Tick, Rejoin, TransitionTo, manager
  <1> QED BY <1>1, HearingInvariant, PTL DEF Spec, DegradeJustified
-----------------------------------------------------------------------------
(***************************************************************************)
(* Silence is noticed.  The clock must not come round within a timeout and *)
(* the lags of the calls that supervise it: 2^32 ms are 49 days.           *)
(***************************************************************************)
ClockOutlastsSilence ==
    /\ heartbeatTimeoutMs + MaxLag + MaxLag < ClockMod
    /\ SetupMax + MaxLag + MaxLag + MaxLag + MaxLag < ClockMod

(* A message is handled within a timeout of its stamp.                     *)
LoopOutpacesTimeout == MaxLag <= heartbeatTimeoutMs

(* Time since the coordinator was heard, measured from the running call.   *)
HeardWithin(ms) == Minus(clock, lastHeardMs) <= ms + Minus(clock, nowMs)

(* A node is not connected before it was paired.                           *)
ConnectionEarned ==
    /\ state = "UNPAIRED_DISCOVERY" => ~connected
    /\ ~began /\ ~paired => ~connected /\ state = "UNPAIRED_DISCOVERY"
    /\ ~began => ~reacquiring /\ ~ackPending
    /\ ~began /\ ~paired => handling = {}

(* How long ago the coordinator of a connected node was heard, at every    *)
(* position of the main task.  A message that interrupts a call can be as  *)
(* old as the call, or older by what it waited for its assignments; the    *)
(* state it moved is repaired by the next call ("recover"), one lag later; *)
(* a message can be older than begin(); and only the test of               *)
(* HandlePairedConnected brings the bound back to the timeout.             *)
HeardSince ==
    /\ ~began => Minus(clock, lastHeardMs) <= setupAge
    /\ (began /\ pc = "idle" /\ state # "PAIRED_CONNECTED")
           => HeardWithin(SetupMax + MaxLag)
    /\ (began /\ pc = "idle" /\ state = "PAIRED_CONNECTED")
           => \/ HeardWithin(heartbeatTimeoutMs)
              \/ /\ stateEnteredMs = nowMs
                 /\ HeardWithin(SetupMax + MaxLag + MaxLag)
    /\ pc \in {"PAIRED_CONNECTED", "degrade"}
           => \/ HeardWithin(heartbeatTimeoutMs + MaxLag)
              \/ HeardWithin(SetupMax + MaxLag + MaxLag + MaxLag)
    /\ pc \in {"PAIRED_DEGRADED", "REACQUIRING_STATIC", "REACQUIRING_DYNAMIC",
               "recover"}
           => HeardWithin(SetupMax + MaxLag + MaxLag)
    /\ pc \in {"UNPAIRED_DISCOVERY", "demote", "reacquire", "probe",
               "escalate", "arm", "poll"}
           => HeardWithin(MaxLag)

(* ... and the stamp does not make it younger than it is.                  *)
StampCoversAge == heardAge <= Minus(clock, lastHeardMs)

Supervised ==
    /\ ConnectionEarned
    /\ connected /\ lastHeardMs > 0 => HeardSince /\ StampCoversAge

(* ConnectionEarned is kept by every step.                                 *)
LEMMA ConnectionEarnedKept ==
    SessionInv /\ ConnectionEarned /\ [Next]_vars => ConnectionEarned'
  <1> SUFFICES ASSUME SessionInv, ConnectionEarned, [Next]_vars
               PROVE  ConnectionEarned'
    OBVIOUS
  <1> USE DEF ConnectionEarned, SessionInv, LoopRunning, ControlTyped, States,
          DiscoveryHandled, manager, timers, provider, callback, ages
  <1>1. CASE Begin
    BY <1>1 DEF Begin, TransitionTo
  <1>2. CASE LoopCall
    BY <1>2 DEF LoopCall
  <1>3. CASE HandleUnpairedDiscovery
    BY <1>3 DEF HandleUnpairedDiscovery, TransitionTo
  <1>4. CASE HandlePairedConnected
    BY <1>4 DEF HandlePairedConnected
  <1>5. CASE Degrade
    BY <1>5 DEF Degrade
  <1>6. CASE Demote
    BY <1>6 DEF Demote, TransitionTo
  <1>7. CASE Recover
    BY <1>7 DEF Recover, TransitionTo
  <1>8. CASE HandlePairedDegraded
    BY <1>8 DEF HandlePairedDegraded
  <1>9. CASE Reacquire
    BY <1>9 DEF Reacquire, TransitionTo
  <1>10. CASE HandleReacquiringStatic
    BY <1>10 DEF HandleReacquiringStatic, StaticOutcome
  <1>11. CASE StaticProbe
    BY <1>11 DEF StaticProbe
  <1>12. CASE Escalate
    BY <1>12 DEF Escalate, TransitionTo
  <1>13. CASE ArmReacquisition
    BY <1>13 DEF ArmReacquisition
  <1>14. CASE HandleReacquiringDynamic
    BY <1>14 DEF HandleReacquiringDynamic
  <1>15. CASE PollReacquisition
    BY <1>15 DEF PollReacquisition, Rejoin, TransitionTo
  <1>16. CASE OnMessageReceived
    BY <1>16 DEF OnMessageReceived, MessageCounts
  <1>17. CASE HandleMessage
    BY <1>17 DEF HandleMessage, Rejoin, ResetReacquisition,
       TransitionTo
  <1>18. CASE OnReconnectAck
    BY <1>18 DEF OnReconnectAck
  <1>19. CASE OnReacquisitionSuccess
    BY <1>19 DEF OnReacquisitionSuccess, Rejoin, ResetReacquisition,
       TransitionTo
  <1>20. CASE PairingCompletes
    BY <1>20 DEF PairingCompletes
  <1>21. CASE ClearPairing
    BY <1>21 DEF ClearPairing
  <1>22. CASE Tick
    BY <1>22 DEF Tick
  <1>23. CASE UNCHANGED vars
    BY <1>23 DEF vars
  <1> QED
    BY <1>1, <1>2, <1>3, <1>4, <1>5, <1>6, <1>7, <1>8, <1>9, <1>10, <1>11,
      <1>12, <1>13, <1>14, <1>15, <1>16, <1>17, <1>18, <1>19, <1>20, <1>21,
      <1>22, <1>23
    DEF Next, MainTask, Callback

(* A message no older than a lag, or than the running call, is young       *)
(* enough everywhere.                                                      *)
LEMMA StampedIsYoung ==
    ASSUME TypeInv', LoopOutpacesTimeout,
           Minus(clock', lastHeardMs') <= MaxLag + Minus(clock', nowMs'),
           ~began' => Minus(clock', lastHeardMs') <= setupAge',
           heardAge' = Minus(clock', lastHeardMs')
    PROVE  (HeardSince /\ StampCoversAge)'
  <1>1. /\ clock' \in Time /\ nowMs' \in Time /\ lastHeardMs' \in Time
        /\ setupAge' \in Nat
    BY ConfigTyped DEF TypeInv, ClockInv, TimersTyped
  <1>2. Minus(clock', lastHeardMs') \in Nat /\ Minus(clock', nowMs') \in Nat
    BY <1>1, MinusInTime, TimeIsNat
  <1>3. \A ms \in Nat : ms >= MaxLag =>
            Minus(clock', lastHeardMs') <= ms + Minus(clock', nowMs')
    BY <1>2, ConfigTyped
  <1> QED
    BY <1>1, <1>2, <1>3, ConfigTyped
    DEF HeardSince, HeardWithin, StampCoversAge, LoopOutpacesTimeout

(* A step that moves neither clock nor stamps.                             *)
LEMMA StampsUnmoved ==
    ASSUME UNCHANGED <<clock, nowMs, lastHeardMs, heardAge, setupAge, began>>
    PROVE  /\ StampCoversAge' <=> StampCoversAge
           /\ \A ms : (HeardWithin(ms))' <=> HeardWithin(ms)
           /\ Minus(clock, lastHeardMs)' = Minus(clock, lastHeardMs)
  BY DEF StampCoversAge, HeardWithin

(* Every step keeps Supervised, while the silence is shorter than a wrap.  *)
LEMMA SupervisedKept ==
    ASSUME ClockOutlastsSilence, LoopOutpacesTimeout, SessionInv, TypeInv,
           TypeInv', Supervised, [Next]_vars
    PROVE  Supervised'
  <1>1. /\ clock \in Time /\ nowMs \in Time /\ lastHeardMs \in Time
        /\ clock' \in Time /\ nowMs' \in Time /\ lastHeardMs' \in Time
        /\ heardAge \in Nat /\ setupAge \in Nat /\ setupAge <= SetupMax
        /\ MaxLag \in Nat /\ SetupMax \in Nat /\ heartbeatTimeoutMs \in Nat
        /\ began => Minus(clock, nowMs) <= MaxLag
        /\ pc # "idle" => began
        /\ pc \in Positions /\ state \in States
    BY ConfigTyped, TimeIsNat
    DEF TypeInv, ClockInv, TimersTyped, LagBounded, LoopRunning, ControlTyped
  <1>2. /\ Minus(clock, nowMs) \in Nat /\ Minus(clock, lastHeardMs) \in Nat
        /\ Minus(nowMs, lastHeardMs) \in Nat
        /\ Minus(clock, clock) = 0
    BY <1>1, MinusInTime, TimeIsNat, MinusSelf
  <1>3. ConnectionEarned'
    BY ConnectionEarnedKept DEF Supervised
  <1> SUFFICES ASSUME connected', lastHeardMs' > 0
               PROVE  (HeardSince /\ StampCoversAge)'
    BY <1>3 DEF Supervised
  <1>4. ASSUME connected, lastHeardMs > 0 PROVE HeardSince /\ StampCoversAge
    BY <1>4 DEF Supervised
  <1>5. ConnectionEarned /\ ConnectedFlag /\ ConnectedHandled
    BY DEF Supervised, SessionInv
  <1> USE DEF manager, timers, provider, callback, ages
  <1>9. CASE HandleMessage
    <2>1. PICK t \in handling : lastHeardMs' = t /\ HeardAt(t)
      BY <1>9 DEF HandleMessage
    <2>2. UNCHANGED <<clock, nowMs, setupAge, began>>
      BY <1>9 DEF HandleMessage
    <2>3. /\ Minus(clock, t) <= MaxLag
          /\ ~began => Minus(clock, t) <= setupAge
      BY <2>1 DEF TypeInv, HandlingRecent
    <2>4. Minus(clock, t) \in Nat
      BY <1>1, <2>1, MinusInTime, TimeIsNat
    <2>5. Minus(clock', lastHeardMs') <= MaxLag + Minus(clock', nowMs')
      BY <1>1, <1>2, <2>1, <2>2, <2>3, <2>4
    <2> QED BY <2>1, <2>2, <2>3, <2>5, StampedIsYoung DEF HeardAt
  <1>10. CASE OnReacquisitionSuccess
    <2>1. /\ clock' = clock /\ lastHeardMs' = clock /\ nowMs' = nowMs
          /\ setupAge' = setupAge /\ heardAge' = Minus(clock, clock)
      BY <1>10 DEF OnReacquisitionSuccess, HeardAt
    <2>2. /\ Minus(clock', lastHeardMs') = 0
          /\ 0 <= MaxLag + Minus(clock', nowMs') /\ 0 <= setupAge'
      BY <1>1, <1>2, <2>1
    <2> QED BY <1>2, <2>1, <2>2, StampedIsYoung
  <1>11. CASE (HandleUnpairedDiscovery /\ paired) \/ (PollReacquisition /\ reacqDone)
    <2>1. /\ clock' = clock /\ lastHeardMs' = nowMs /\ nowMs' = nowMs
          /\ heardAge' = Minus(clock, nowMs) /\ began' = began /\ pc # "idle"
      BY <1>11 DEF HandleUnpairedDiscovery, PollReacquisition, HeardAt
    <2>2. Minus(clock', lastHeardMs') <= MaxLag + Minus(clock', nowMs')
      BY <1>1, <1>2, <2>1
    <2> QED BY <1>1, <2>1, <2>2, StampedIsYoung
  <1>12. CASE Tick
    <2>1. connected /\ lastHeardMs > 0 /\ HeardSince /\ StampCoversAge
      BY <1>4, <1>12 DEF Tick
    <2>2. Minus(clock, lastHeardMs) + 1 < ClockMod
      <3>1. CASE ~began
        BY <1>1, <1>2, <1>12, <2>1, <3>1, ClockModAssumption
        DEF HeardSince, Tick, ClockOutlastsSilence
      <3>2. CASE began
        <4>1. Minus(clock, nowMs) < MaxLag
          BY <1>12, <3>2 DEF Tick
        <4> QED
          BY <1>1, <1>2, <2>1, <3>2, <4>1, ClockModAssumption
          DEF HeardSince, HeardWithin, ClockOutlastsSilence, Positions, States
      <3> QED BY <3>1, <3>2
    <2>3. Minus(clock', lastHeardMs') = Minus(clock, lastHeardMs) + 1
      BY <1>1, <1>12, <2>2, MinusNextExact DEF Tick
    <2>4. began => Minus(clock', nowMs') = Minus(clock, nowMs) + 1
      <3> SUFFICES ASSUME began PROVE Minus(clock', nowMs') = Minus(clock, nowMs) + 1
        OBVIOUS
      <3>1. Minus(clock, nowMs) < MaxLag
        BY <1>12 DEF Tick
      <3>2. Minus(clock, nowMs) + 1 < ClockMod
        BY <1>1, <1>2, <3>1, ClockModAssumption DEF ClockOutlastsSilence
      <3> QED BY <1>1, <1>12, <3>2, MinusNextExact DEF Tick
    <2>5. StampCoversAge'
      BY <1>1, <1>2, <1>12, <2>1, <2>3 DEF Tick, Saturate, StampCoversAge, HeardAgeMax
    <2>6. began => \A ms \in Nat : HeardWithin(ms) => (HeardWithin(ms))'
      BY <1>2, <2>3, <2>4 DEF HeardWithin
    <2>7. ~began => Minus(clock', lastHeardMs') <= setupAge'
      BY <1>1, <1>2, <1>12, <2>1, <2>3 DEF Tick, HeardSince
    <2>8. UNCHANGED <<pc, state, began, stateEnteredMs, nowMs>>
      BY <1>12 DEF Tick
    <2>9. HeardSince'
      BY <1>1, <2>1, <2>6, <2>7, <2>8 DEF HeardSince
    <2> QED BY <2>5, <2>9
  <1>13. CASE LoopCall
    <2>1. connected /\ lastHeardMs > 0 /\ HeardSince /\ StampCoversAge
      BY <1>4, <1>13 DEF LoopCall
    <2>2. /\ Minus(clock', nowMs') = 0 /\ began /\ pc = "idle" /\ pc' = state
          /\ UNCHANGED <<state, began>>
          /\ Minus(clock', lastHeardMs') = Minus(clock, lastHeardMs)
      BY <1>2, <1>13 DEF LoopCall
    <2>3. HeardSince'
      BY <1>1, <1>2, <1>5, <2>1, <2>2
      DEF HeardSince, HeardWithin, States, ConnectionEarned
    <2>4. StampCoversAge'
      BY <1>13, <2>1, <2>2 DEF LoopCall, StampCoversAge
    <2> QED BY <2>3, <2>4
  <1>14. CASE Begin
    <2>1. connected /\ lastHeardMs > 0 /\ HeardSince /\ StampCoversAge
      BY <1>4, <1>14 DEF Begin
    <2>2. /\ Minus(clock', nowMs') = 0 /\ ~began /\ began' /\ pc' = "idle"
          /\ state' # "PAIRED_CONNECTED"
          /\ Minus(clock', lastHeardMs') = Minus(clock, lastHeardMs)
      BY <1>1, <1>2, <1>14 DEF Begin, TransitionTo
    <2>3. HeardSince'
      BY <1>1, <1>2, <2>1, <2>2 DEF HeardSince, HeardWithin
    <2>4. StampCoversAge'
      BY <1>14, <2>1, <2>2 DEF Begin, StampCoversAge
    <2> QED BY <2>3, <2>4
  <1>15. CASE HandlePairedConnected
    <2>1. connected /\ lastHeardMs > 0 /\ HeardSince /\ StampCoversAge
      BY <1>4, <1>15 DEF HandlePairedConnected
    <2>2. UNCHANGED <<clock, nowMs, lastHeardMs, heardAge, setupAge, began, state>>
      BY <1>15 DEF HandlePairedConnected
    <2>3. state = "PAIRED_CONNECTED" /\ pc = "PAIRED_CONNECTED" /\ began
      BY <1>1, <1>5, <1>15 DEF HandlePairedConnected, ConnectedHandled
    <2>4. pc' = "idle" => HeardWithin(heartbeatTimeoutMs)
      <3> SUFFICES ASSUME pc' = "idle" PROVE HeardWithin(heartbeatTimeoutMs)
        OBVIOUS
      <3>1. Minus(nowMs, lastHeardMs) <= heartbeatTimeoutMs
        BY <1>1, <1>2, <1>15, <2>1 DEF HandlePairedConnected, HeartbeatTimedOut
      <3>2. Minus(clock, lastHeardMs) <= Minus(nowMs, lastHeardMs) + Minus(clock, nowMs)
        BY <1>1, SpansAdd
      <3> QED BY <1>1, <1>2, <3>1, <3>2 DEF HeardWithin
    <2>5. pc' \in {"idle", "degrade"}
      BY <1>15 DEF HandlePairedConnected
    <2> QED BY <2>1, <2>2, <2>3, <2>4, <2>5, StampsUnmoved DEF HeardSince
  <1>16. CASE Degrade
    BY <1>16 DEF Degrade
  <1>17. CASE Recover
    <2>1. connected /\ lastHeardMs > 0 /\ HeardSince /\ StampCoversAge
      BY <1>4, <1>17 DEF Recover
    <2>2. /\ UNCHANGED <<clock, nowMs, lastHeardMs, heardAge, setupAge, began>>
          /\ pc = "recover" /\ pc' = "idle" /\ state' = "PAIRED_CONNECTED"
          /\ stateEnteredMs' = nowMs'
      BY <1>17 DEF Recover, TransitionTo
    <2> QED BY <1>1, <2>1, <2>2, StampsUnmoved DEF HeardSince
  <1>18. CASE \/ HandlePairedDegraded \/ HandleReacquiringStatic
              \/ HandleReacquiringDynamic
    <2>1. connected /\ lastHeardMs > 0 /\ HeardSince /\ StampCoversAge
      BY <1>4, <1>18
      DEF HandlePairedDegraded, HandleReacquiringStatic, HandleReacquiringDynamic
    <2>2. /\ UNCHANGED <<clock, nowMs, lastHeardMs, heardAge, setupAge, began>>
          /\ pc \in {"PAIRED_DEGRADED", "REACQUIRING_STATIC", "REACQUIRING_DYNAMIC"}
          /\ pc' = "recover"
      BY <1>18, <2>1
      DEF HandlePairedDegraded, HandleReacquiringStatic, StaticOutcome,
          HandleReacquiringDynamic
    <2> QED BY <1>1, <2>1, <2>2, StampsUnmoved DEF HeardSince
  <1>19. CASE \/ Demote \/ Reacquire \/ StaticProbe \/ Escalate
              \/ ArmReacquisition
              \/ HandleUnpairedDiscovery /\ ~paired
              \/ PollReacquisition /\ ~reacqDone
    <2> USE DEF Demote, Reacquire, StaticProbe, Escalate, ArmReacquisition,
                HandleUnpairedDiscovery, PollReacquisition
    <2>1. connected /\ lastHeardMs > 0 /\ HeardSince /\ StampCoversAge
      BY <1>4, <1>19
    <2>2. /\ UNCHANGED <<clock, nowMs, lastHeardMs, heardAge, setupAge, began>>
          /\ pc' \in {"idle", "escalate", "arm"}
      BY <1>19
    <2>3. HeardWithin(MaxLag) /\ began
      BY <1>1, <1>19, <2>1 DEF HeardSince
    <2>4. \A ms \in Nat : ms >= MaxLag => HeardWithin(ms)
      BY <1>1, <1>2, <2>3 DEF HeardWithin
    <2>5. /\ HeardWithin(SetupMax + MaxLag) /\ HeardWithin(heartbeatTimeoutMs)
          /\ HeardWithin(MaxLag)
      BY <1>1, <2>4 DEF LoopOutpacesTimeout
    <2> QED BY <1>1, <2>1, <2>2, <2>3, <2>5, StampsUnmoved DEF HeardSince
  <1>20. CASE \/ OnMessageReceived \/ OnReconnectAck \/ PairingCompletes
              \/ ClearPairing \/ UNCHANGED vars
    <2>1. connected /\ lastHeardMs > 0 /\ HeardSince /\ StampCoversAge
      BY <1>4, <1>20
      DEF OnMessageReceived, OnReconnectAck, PairingCompletes, ClearPairing,
          vars
    <2>2. UNCHANGED <<clock, nowMs, lastHeardMs, heardAge, setupAge, began, pc,
                      state, stateEnteredMs>>
      BY <1>20
      DEF OnMessageReceived, OnReconnectAck, PairingCompletes, ClearPairing,
          vars
    <2> QED BY <2>1, <2>2, StampsUnmoved DEF HeardSince
  <1> QED
    BY <1>9, <1>10, <1>11, <1>12, <1>13, <1>14, <1>15, <1>16, <1>17, <1>18,
       <1>19, <1>20
    DEF Next, MainTask, Callback

(* A node that stays connected has heard its coordinator within the        *)
(* timeout and one lag of the loop, on a clock of any width that outlasts  *)
(* the silence, however the callback interleaves with loop().              *)
THEOREM SilenceIsBounded ==
    ASSUME ClockOutlastsSilence, LoopOutpacesTimeout
    PROVE  Spec => []SilenceBounded
  <1>1. Init => Supervised
    BY DEF Init, Supervised, ConnectionEarned
  <1>2. TypeInv /\ TypeInv' /\ SessionInv /\ Supervised /\ [Next]_vars
            => Supervised'
    BY SupervisedKept
  <1>3. TypeInv /\ SessionInv /\ Supervised => SilenceBounded
    <2> SUFFICES ASSUME TypeInv, SessionInv, Supervised, began, pc = "idle",
                        state = "PAIRED_CONNECTED", lastHeardMs > 0,
                        stateEnteredMs # nowMs
                 PROVE  heardAge <= heartbeatTimeoutMs + MaxLag
      BY DEF SilenceBounded
    <2>1. connected
      BY DEF SessionInv, ConnectedFlag
    <2>2. HeardWithin(heartbeatTimeoutMs) /\ StampCoversAge
      BY <2>1 DEF Supervised, HeardSince
    <2>3. /\ heardAge \in Nat /\ heartbeatTimeoutMs \in Nat /\ MaxLag \in Nat
          /\ clock \in Time /\ nowMs \in Time /\ lastHeardMs \in Time
          /\ Minus(clock, nowMs) <= MaxLag
      BY ConfigTyped DEF TypeInv, ClockInv, TimersTyped, LagBounded
    <2>4. Minus(clock, nowMs) \in Nat /\ Minus(clock, lastHeardMs) \in Nat
      BY <2>3, MinusInTime, TimeIsNat
    <2> QED BY <2>2, <2>3, <2>4 DEF HeardWithin, StampCoversAge
  <1> QED BY <1>1, <1>2, <1>3, TypeInvariant, SessionInvariant, PTL DEF Spec
-----------------------------------------------------------------------------
(***************************************************************************)
(* Probes are an interval apart.                                           *)
(***************************************************************************)

(* Where a probe counts, and that its deadline was reached when tested.    *)
ProbeDue ==
    /\ pc = "probe" => nowMs >= nextProbeMs
    /\ state = "REACQUIRING_DYNAMIC" => probeCount = 0
    /\ pc \in {"REACQUIRING_DYNAMIC", "arm"} => probeCount = 0
    /\ pc \in {"REACQUIRING_STATIC", "probe"}
           => state \in {"REACQUIRING_STATIC", "PAIRED_CONNECTED"}

(* The time since the call that sent the last probe of this outage, which  *)
(* its deadline tells while neither has wrapped.                           *)
ElapsedBounded ==
    (/\ probeCount > 0 /\ nextProbeMs >= staticProbeIntervalMs
     /\ probeAge < staticProbeIntervalMs)
        => Minus(nowMs, nextProbeMs - staticProbeIntervalMs)
               + Minus(clock, nowMs) <= probeAge + MaxLag

ProbingInv == ProbeDue /\ ElapsedBounded

(* Every step keeps ProbeDue: a probe counts only once its deadline is met. *)
LEMMA ProbeDueKept ==
    TypeInv /\ ProbeDue /\ [Next]_vars => ProbeDue'
  <1> SUFFICES ASSUME TypeInv, ProbeDue, [Next]_vars PROVE ProbeDue'
    OBVIOUS
  <1> USE DEF ProbeDue, TypeInv, ClockInv, LoopRunning, ControlTyped, States,
          manager, timers, provider, callback, ages
  <1>1. CASE Begin
    BY <1>1 DEF Begin, TransitionTo
  <1>2. CASE LoopCall
    BY <1>2 DEF LoopCall
  <1>3. CASE HandleUnpairedDiscovery
    BY <1>3 DEF HandleUnpairedDiscovery, TransitionTo
  <1>4. CASE HandlePairedConnected
    BY <1>4 DEF HandlePairedConnected
  <1>5. CASE Degrade
    BY <1>5 DEF Degrade
  <1>6. CASE Demote
    BY <1>6 DEF Demote, TransitionTo
  <1>7. CASE Recover
    BY <1>7 DEF Recover, TransitionTo
  <1>8. CASE HandlePairedDegraded
    BY <1>8 DEF HandlePairedDegraded
  <1>9. CASE Reacquire
    BY <1>9 DEF Reacquire, TransitionTo
  <1>10. CASE HandleReacquiringStatic
    <2>1. nowMs \in Nat /\ nextProbeMs \in Nat
      BY TimeIsNat DEF TimersTyped
    <2> QED BY <1>10, <2>1 DEF HandleReacquiringStatic, StaticOutcome
  <1>11. CASE StaticProbe
    BY <1>11 DEF StaticProbe
  <1>12. CASE Escalate
    BY <1>12 DEF Escalate, TransitionTo
  <1>13. CASE ArmReacquisition
    BY <1>13 DEF ArmReacquisition
  <1>14. CASE HandleReacquiringDynamic
    BY <1>14 DEF HandleReacquiringDynamic
  <1>15. CASE PollReacquisition
    BY <1>15 DEF PollReacquisition, Rejoin, TransitionTo
  <1>16. CASE OnMessageReceived
    BY <1>16 DEF OnMessageReceived
  <1>17. CASE HandleMessage
    <2>1. handling # {} /\ state' \in {"PAIRED_CONNECTED", state}
      BY <1>17 DEF HandleMessage, Rejoin, TransitionTo
    <2> QED
      BY <1>17, <2>1
      DEF HandleMessage, Rejoin, ResetReacquisition, TransitionTo
  <1>18. CASE OnReconnectAck
    BY <1>18 DEF OnReconnectAck
  <1>19. CASE OnReacquisitionSuccess
    BY <1>19 DEF OnReacquisitionSuccess, Rejoin, TransitionTo
  <1>20. CASE PairingCompletes
    BY <1>20 DEF PairingCompletes
  <1>21. CASE ClearPairing
    BY <1>21 DEF ClearPairing
  <1>22. CASE Tick
    BY <1>22 DEF Tick
  <1>23. CASE UNCHANGED vars
    BY <1>23 DEF vars
  <1> QED
    BY <1>1, <1>2, <1>3, <1>4, <1>5, <1>6, <1>7, <1>8, <1>9, <1>10, <1>11,
      <1>12, <1>13, <1>14, <1>15, <1>16, <1>17, <1>18, <1>19, <1>20, <1>21,
      <1>22, <1>23
    DEF Next, MainTask, Callback

(* Every step keeps ElapsedBounded, given where a probe counts.            *)
LEMMA ElapsedBoundedKept ==
    ASSUME TypeInv, TypeInv', ProbeDue, ElapsedBounded, [Next]_vars
    PROVE  ElapsedBounded'
  <1>1. /\ clock \in Time /\ nowMs \in Time /\ nextProbeMs \in Time
        /\ clock' \in Time /\ nowMs' \in Time /\ nextProbeMs' \in Time
        /\ staticProbeIntervalMs \in Time /\ MaxLag \in Nat
        /\ probeAge \in Nat /\ probeCount \in Nat
        /\ pc # "idle" => Minus(clock, nowMs) <= MaxLag
    BY ConfigTyped, TimeIsNat
    DEF TypeInv, ClockInv, TimersTyped, LagBounded, LoopRunning
  <1> DEFINE sent == nextProbeMs - staticProbeIntervalMs
  <1> SUFFICES ASSUME probeCount' > 0, nextProbeMs' >= staticProbeIntervalMs,
                      probeAge' < staticProbeIntervalMs
               PROVE  Minus(nowMs', sent') + Minus(clock', nowMs')
                          <= probeAge' + MaxLag
    BY DEF ElapsedBounded
  <1>2. sent' \in Time
    <2>1. \A x, y \in Time : x >= y => x - y \in Time
      BY ClockModAssumption, SMT DEF Time
    <2> QED BY <1>1, <2>1
  <1>3. ASSUME sent \in Time
        PROVE  Minus(nowMs, sent) \in Nat /\ Minus(clock, nowMs) \in Nat
    BY <1>1, <1>3, MinusInTime, TimeIsNat
  <1> USE DEF manager, timers, provider, callback, ages
  <1>4. CASE StaticProbe
    <2>1. /\ nextProbeMs' = Plus(nowMs, staticProbeIntervalMs) /\ nowMs' = nowMs
          /\ clock' = clock /\ probeAge' = 0 /\ Minus(clock, nowMs) <= MaxLag
      BY <1>1, <1>4 DEF StaticProbe, Probed
    <2>2. sent' = nowMs
      BY <1>1, <2>1, ClockModAssumption, SMT DEF Plus, Time
    <2>3. Minus(nowMs', sent') = 0
      BY <1>1, <2>1, <2>2, MinusSelf
    <2>4. Minus(clock', nowMs') \in Nat
      BY <1>1, MinusInTime, TimeIsNat
    <2> QED BY <1>1, <2>1, <2>3, <2>4
  <1>5. CASE Tick
    <2>1. /\ UNCHANGED <<nowMs, nextProbeMs, probeCount>>
          /\ clock' = Plus(clock, 1) /\ sent' = sent
          /\ probeAge' = Saturate(probeAge, staticProbeIntervalMs)
      BY <1>5 DEF Tick, ProbeAgeMax
    <2>2. probeAge < staticProbeIntervalMs /\ probeAge' = probeAge + 1
      BY <1>1, <2>1, TimeIsNat DEF Saturate
    <2>3. Minus(nowMs, sent) + Minus(clock, nowMs) <= probeAge + MaxLag
      BY <2>1, <2>2 DEF ElapsedBounded
    <2>4. Minus(clock', nowMs) <= Minus(clock, nowMs) + 1
      BY <1>1, <2>1, MinusNext
    <2>5. /\ Minus(nowMs, sent) \in Nat /\ Minus(clock, nowMs) \in Nat
          /\ Minus(clock', nowMs) \in Nat
      BY <1>1, <1>2, <1>3, <2>1, MinusInTime, TimeIsNat
    <2> HIDE DEF sent
    <2> QED BY <1>1, <2>1, <2>2, <2>3, <2>4, <2>5
  <1>6. CASE LoopCall
    <2>1. /\ UNCHANGED <<clock, nextProbeMs, probeCount, probeAge>>
          /\ nowMs' = clock /\ sent' = sent
      BY <1>6 DEF LoopCall
    <2>2. Minus(nowMs, sent) + Minus(clock, nowMs) <= probeAge + MaxLag
      BY <2>1 DEF ElapsedBounded
    <2>3. Minus(clock, sent) <= Minus(nowMs, sent) + Minus(clock, nowMs)
      BY <1>1, <1>2, <2>1, SpansAdd
    <2>4. Minus(clock, clock) = 0 /\ Minus(clock, sent) \in Nat
      BY <1>1, <1>2, <2>1, MinusSelf, MinusInTime, TimeIsNat
    <2>5. /\ Minus(nowMs, sent) \in Nat /\ Minus(clock, nowMs) \in Nat
      BY <1>2, <1>3, <2>1
    <2> HIDE DEF sent
    <2> QED BY <1>1, <2>1, <2>2, <2>3, <2>4, <2>5
  <1>7. CASE HandleReacquiringDynamic \/ ArmReacquisition
    BY <1>1, <1>7 DEF HandleReacquiringDynamic, ArmReacquisition, ProbeDue
  <1>8. CASE Begin \/ Reacquire
    BY <1>1, <1>8 DEF Begin, Reacquire, TransitionTo
  <1>9. CASE /\ UNCHANGED <<clock, nowMs, nextProbeMs, probeAge>>
             /\ probeCount' \in {0, probeCount}
    BY <1>9 DEF ElapsedBounded
  <1> QED
    BY <1>4, <1>5, <1>6, <1>7, <1>8, <1>9, Zenon
    DEF Next, MainTask, Callback, HandleUnpairedDiscovery,
        HandlePairedConnected, Degrade, Demote, Recover, HandlePairedDegraded,
        HandleReacquiringStatic, Escalate, PollReacquisition,
        OnMessageReceived, HandleMessage, OnReconnectAck,
        OnReacquisitionSuccess, PairingCompletes, ClearPairing, Rejoin,
        TransitionTo, vars

(* Two probes of one outage are an interval apart up to the loop's lag, on *)
(* a clock and counters of any width, except while the deadline has        *)
(* wrapped and the clock has not (connection_manager.cpp:138).             *)
THEOREM ProbesAreSpaced == Spec => ProbesSpaced
  <1>1. Init => ProbeDue /\ ElapsedBounded
    BY DEF Init, ProbeDue, ElapsedBounded
  <1>2. TypeInv /\ TypeInv' /\ ProbeDue /\ ElapsedBounded /\ [Next]_vars
            => ProbeDue' /\ ElapsedBounded'
    BY ProbeDueKept, ElapsedBoundedKept
  <1>3. TypeInv /\ ProbeDue /\ ElapsedBounded /\ [Next]_vars
            => [(StaticProbe /\ probeCount > 0)
                  => \/ probeAge + MaxLag >= staticProbeIntervalMs
                     \/ nextProbeMs < staticProbeIntervalMs]_vars
    <2> SUFFICES ASSUME TypeInv, ProbeDue, ElapsedBounded, StaticProbe,
                        probeCount > 0,
                        ~(nextProbeMs < staticProbeIntervalMs),
                        ~(probeAge + MaxLag >= staticProbeIntervalMs)
                 PROVE  FALSE
      OBVIOUS
    <2>1. /\ clock \in Time /\ nowMs \in Time /\ nextProbeMs \in Time
          /\ staticProbeIntervalMs \in Time /\ MaxLag \in Nat
          /\ probeAge \in Nat
      BY ConfigTyped DEF TypeInv, ClockInv, TimersTyped
    <2> DEFINE sent == nextProbeMs - staticProbeIntervalMs
    <2>2. sent \in Time /\ nowMs >= nextProbeMs
      BY <2>1, ClockModAssumption, SMT DEF ProbeDue, StaticProbe, Time
    <2>3. Minus(nowMs, sent) >= staticProbeIntervalMs
      BY <2>1, <2>2, SMT DEF Minus, Time
    <2>4. Minus(nowMs, sent) + Minus(clock, nowMs) <= probeAge + MaxLag
      BY <2>1, TimeIsNat DEF ElapsedBounded
    <2>5. Minus(nowMs, sent) \in Nat /\ Minus(clock, nowMs) \in Nat
      BY <2>1, <2>2, MinusInTime, TimeIsNat
    <2> HIDE DEF sent
    <2> QED BY <2>1, <2>3, <2>4, <2>5, TimeIsNat
  <1> QED BY <1>1, <1>2, <1>3, TypeInvariant, PTL DEF Spec, ProbesSpaced
=============================================================================
