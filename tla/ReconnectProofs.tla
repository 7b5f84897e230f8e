--------------------------- MODULE ReconnectProofs ---------------------------
(***************************************************************************)
(* Theorems of Reconnect, for all channels, clocks, queues and numbers of  *)
(* moves: a node that searches for its coordinator.                        *)
(***************************************************************************)
EXTENDS Reconnect, TLAPS

-----------------------------------------------------------------------------
(***************************************************************************)
(* Where a loop call is and what the search has armed.  All of it is for a *)
(* node whose main task also handles the frames, so that no frame is       *)
(* handled inside a loop call.                                             *)
(***************************************************************************)
Searching == {"REACQUIRING_STATIC", "REACQUIRING_DYNAMIC"}

(* What each position of a loop call implies.                              *)
CallInv ==
    /\ state \in Node!States
    /\ pc \in Node!States => pc = state
    /\ pc \in {"degrade", "demote"} => state = "PAIRED_CONNECTED"
    /\ pc = "recover" => connected
    /\ pc = "reacquire" => state = "PAIRED_DEGRADED" /\ ~connected
    /\ pc \in {"probe", "escalate"} => state = "REACQUIRING_STATIC"
    /\ pc \in {"arm", "poll"} => state = "REACQUIRING_DYNAMIC"
    /\ pc = "demote" => ~connected
    /\ pc # "idle" => began /\ cup /\ ~ackPending
    /\ handling # {} => pc = "idle" /\ cup /\ state # "REACQUIRING_DYNAMIC"

(* The flag is down during a search, and the provider takes acks in broad  *)
(* reacquisition only.                                                     *)
SearchInv ==
    /\ state \in Searching => began /\ ~connected
    /\ reacquiring => state = "REACQUIRING_DYNAMIC"
    /\ ~cup => state = "UNPAIRED_DISCOVERY" /\ ~ackPending

NodeInv == CallInv /\ SearchInv

(* The node's actions that leave its manager alone.                        *)
LEMMA ManagerIdle ==
    ASSUME NodeInv, UNCHANGED managerVars, cup => cup' PROVE NodeInv'
  BY DEF NodeInv, CallInv, SearchInv, managerVars

(* A way back to PAIRED_CONNECTED between two loop calls.                  *)
LEMMA Rejoined ==
    ASSUME NodeInv, NEW t, Node!Rejoin(t), pc' = "idle", cup', UNCHANGED began,
           handling' = {}
    PROVE  NodeInv'
  BY DEF NodeInv, CallInv, SearchInv, Searching, Node!States, Node!Rejoin,
     Node!TransitionTo, Node!ResetReacquisition

(* One step of a loop call.                                                *)
LEMMA LoopKept ==
    ASSUME ~RecvPreempts, NodeInv, NodeLoop PROVE NodeInv'
  <1>
    USE DEF NodeInv, CallInv, SearchInv, Searching, Node!States,
        Node!manager, Node!timers, Node!provider, Node!callback,
        Node!TransitionTo
  <1>1. cup /\ ~ackPending /\ handling = {}
    BY DEF NodeLoop, MainMayRun
  <1>2. CASE Search
    <2>1. UNCHANGED cup
      BY <1>2 DEF Search, pairing
    <2> QED BY <1>1, <1>2, <2>1 DEF Search, Node!HandleReacquiringDynamic
  <1>3. CASE ElsewhereInLoop
    <2>1. cup'
      BY <1>1, <1>3 DEF ElsewhereInLoop, Elsewhere, pairing
    <2>2. CASE Node!Begin
      BY <1>1, <2>1, <2>2 DEF Node!Begin
    <2>3. CASE Node!LoopCall
      BY <1>1, <2>1, <2>3 DEF Node!LoopCall
    <2>4. CASE Node!HandlePairedConnected
      BY <1>1, <2>1, <2>4 DEF Node!HandlePairedConnected
    <2>5. CASE Node!Degrade
      BY <1>1, <2>1, <2>5 DEF Node!Degrade
    <2>14. CASE Node!Demote
      BY <1>1, <2>1, <2>14 DEF Node!Demote
    <2>6. CASE Node!Recover
      BY <1>1, <2>1, <2>6 DEF Node!Recover
    <2>7. CASE Node!HandlePairedDegraded
      BY <1>1, <2>1, <2>7 DEF Node!HandlePairedDegraded
    <2>8. CASE Node!Reacquire
      BY <1>1, <2>1, <2>8 DEF Node!Reacquire
    <2>9. CASE Node!HandleReacquiringStatic
      BY <1>1, <2>1, <2>9
      DEF Node!HandleReacquiringStatic, Node!StaticOutcome
    <2>10. CASE Node!StaticProbe
      BY <1>1, <2>1, <2>10 DEF Node!StaticProbe
    <2>11. CASE Node!Escalate
      BY <1>1, <2>1, <2>11 DEF Node!Escalate
    <2>15. CASE Node!ArmReacquisition
      BY <1>1, <2>1, <2>15 DEF Node!ArmReacquisition, Node!StartReacquisition
    <2>12. CASE Node!PollReacquisition /\ reacqDone
      BY <1>1, <2>1, <2>12, Rejoined DEF Node!PollReacquisition
    <2>13. CASE Node!PollReacquisition /\ ~reacqDone
      BY <1>1, <2>1, <2>13 DEF Node!PollReacquisition
    <2> QED
      BY <1>3, <2>2, <2>3, <2>4, <2>5, <2>6, <2>7, <2>8, <2>9, <2>10, <2>11,
         <2>12, <2>13, <2>14, <2>15 DEF ElsewhereInLoop
  <1> QED BY <1>2, <1>3 DEF NodeLoop

(* Every step keeps the account of loop calls and of the search.           *)
LEMMA NodeKept ==
    ASSUME ~RecvPreempts, NodeInv, [Next]_vars PROVE NodeInv'
  <1> USE DEF Elsewhere, pairing
  <1>1. CASE HeartbeatArrives
    BY <1>1
    DEF HeartbeatArrives, InRange, Node!OnMessageReceived,
        Node!CallbackMayRun, Node!MessageCounts, Node!manager, Node!provider,
        NodeInv, CallInv, SearchInv, Node!States
  <1>9. CASE HeartbeatHandled
    <2>1. PICK t \in handling : Node!HandleMessage!(t)
      BY <1>9 DEF HeartbeatHandled, Node!HandleMessage
    <2>2. pc = "idle" /\ cup' /\ handling' = {} /\ UNCHANGED <<pc, began>>
      BY <1>9, <2>1 DEF HeartbeatHandled, NodeInv, CallInv
    <2>3. CASE connected
      BY <1>9, <2>1, <2>2, <2>3
      DEF HeartbeatHandled, NodeInv, CallInv, SearchInv
    <2>4. CASE ~connected
      BY <2>1, <2>2, <2>4, Rejoined
    <2> QED BY <2>3, <2>4
  <1>2. CASE AckArrives
    <2>1. cup /\ UNCHANGED cup
      BY <1>2 DEF AckArrives, Client!SetPairedChannel
    <2>2. CASE UNCHANGED managerVars
      BY <2>1, <2>2, ManagerIdle
    <2>3. CASE Node!OnReconnectAck
      BY <2>1, <2>3
      DEF Node!OnReconnectAck, Node!CallbackMayRun, Node!manager, NodeInv,
          CallInv, SearchInv, Node!States
    <2> QED BY <1>2, <2>2, <2>3 DEF AckArrives
  <1>3. CASE AckTold
    BY <1>3, Rejoined
    DEF AckTold, Node!OnReacquisitionSuccess, Node!CallbackMayRun, NodeInv,
        SearchInv
  <1>4. CASE NodeFails
    BY <1>4
    DEF NodeFails, NewManager, Client!PowerLoss, Client!VolatileReset,
        NodeInv, CallInv, SearchInv, Searching, Node!States
  <1>5. CASE NodeBoots
    BY <1>5, ManagerIdle DEF NodeBoots, Client!Boot
  <1>6. CASE CoordinatorAnswers \/ CoordinatorMoves \/ LoseProbe
    BY <1>6, ManagerIdle
    DEF CoordinatorAnswers, CoordinatorMoves, LoseProbe, nodeVars
  <1>7. CASE Tick
    BY <1>7
    DEF Tick, Node!Tick, Node!manager, Node!provider, Node!callback, NodeInv,
        CallInv, SearchInv
  <1>8. CASE UNCHANGED vars
    BY <1>8, ManagerIdle DEF vars, nodeVars
  <1> QED
    BY <1>1, <1>2, <1>3, <1>4, <1>5, <1>6, <1>7, <1>8, <1>9, LoopKept
    DEF Next

(* A node that is switched off searches for nobody.                        *)
LEMMA NodeInvInit == Init => NodeInv
  BY DEF Init, Node!Init, NodeInv, CallInv, SearchInv, Searching, Node!States

(* In every behaviour.                                                     *)
LEMMA NodeInvariant == ASSUME ~RecvPreempts PROVE Spec => []NodeInv
  BY NodeInvInit, NodeKept, PTL DEF Spec

(* espnow_session_provider.cpp: the stored channel moves in a search that  *)
(* is not over, whatever acks of earlier probes still wait in the node's   *)
(* queue, and whether the manager is told of them or polls.                *)
THEOREM ChannelMovesWithSearch ==
    ASSUME ~RecvPreempts PROVE Spec => ChannelMovesInSearch
<1> DEFINE Moved == pairedChannel' # pairedChannel
                      => \/ state = "REACQUIRING_DYNAMIC" /\ ~connected
                         \/ ~cup \/ ~cup'
<1>1. NodeInv /\ [Next]_vars => [Moved]_vars
  <2> SUFFICES ASSUME NodeInv, Next PROVE Moved
    OBVIOUS
  <2>1. CASE NodeLoop
    BY <2>1 DEF NodeLoop, Search, ElsewhereInLoop, Elsewhere, tuning
  <2>2. CASE HeartbeatArrives \/ HeartbeatHandled \/ AckTold \/ Tick
    BY <2>2
    DEF HeartbeatArrives, HeartbeatHandled, AckTold, Tick, Elsewhere, tuning
  <2>3. CASE AckArrives
    BY <2>3
    DEF AckArrives, Node!OnReconnectAck, NodeInv, SearchInv, Searching,
        tuning
  <2>4. CASE NodeFails
    BY <2>4 DEF NodeFails, Client!PowerLoss, Client!VolatileReset
  <2>5. CASE NodeBoots
    BY <2>5 DEF NodeBoots, Client!Boot
  <2>6. CASE CoordinatorAnswers \/ CoordinatorMoves \/ LoseProbe
    BY <2>6
    DEF CoordinatorAnswers, CoordinatorMoves, LoseProbe, nodeVars, tuning
  <2> QED BY <2>1, <2>2, <2>3, <2>4, <2>5, <2>6 DEF Next
<1>2. Spec => []NodeInv
  BY NodeInvariant
<1> QED BY <1>1, <1>2, PTL DEF Spec, ChannelMovesInSearch

-----------------------------------------------------------------------------
(***************************************************************************)
(* What channel the radio is on.                                           *)
(***************************************************************************)

(* Acks on their way name channels the coordinator was on.                 *)
Acks == {Ack(ch) : ch \in OwnChannels}

AckInv == ownChannel \in OwnChannels /\ toNode \in Seq(Acks)

(* The radio leaves the paired channel in broad reacquisition only, and an *)
(* ack brings it to the channel that the pairing is moved to.              *)
TunedInv ==
    /\ prefFlag /\ prefMac # ZeroMac
    /\ cup /\ state # "REACQUIRING_DYNAMIC" => radio = pairedChannel
    /\ ackPending => radio = pairedChannel
    /\ reacqDone => ackPending

(* An ack's channel is one that the radio can be tuned to.                 *)
LEMMA AckTunes ==
    ASSUME AckInv, toNode # <<>>
    PROVE  /\ AckChannel(Head(toNode)) \in Client!Channels
           /\ Tail(toNode) \in Seq(Acks)
  <1>1. Head(toNode) \in Acks /\ Tail(toNode) \in Seq(Acks)
    BY DEF AckInv
  <1>2. \A ch \in OwnChannels : AckChannel(Ack(ch)) = ch
    BY DEF Ack, AckChannel, Bytes
  <1> QED
    BY <1>1, <1>2, ReconnectAssumption DEF Acks, Client!Channels

(* Nothing else than a coordinator's ack comes into the node's queue.      *)
LEMMA AckKept == AckInv /\ [Next]_vars => AckInv'
  <1> SUFFICES ASSUME AckInv, [Next]_vars PROVE AckInv'
    OBVIOUS
  <1> USE DEF AckInv, Elsewhere, coordVars
  <1>1. CASE NodeLoop
    BY <1>1 DEF NodeLoop, Search, ElsewhereInLoop
  <1>2. CASE \/ HeartbeatArrives \/ HeartbeatHandled \/ AckTold \/ Tick
             \/ LoseProbe
    BY <1>2 DEF HeartbeatArrives, HeartbeatHandled, AckTold, Tick, LoseProbe
  <1>3. CASE AckArrives
    BY <1>3, AckTunes DEF AckArrives
  <1>4. CASE NodeFails \/ NodeBoots
    <2>1. <<>> \in Seq(Acks)
      OBVIOUS
    <2> QED BY <1>4, <2>1 DEF NodeFails, NodeBoots
  <1>5. CASE CoordinatorAnswers
    <2>1. UNCHANGED ownChannel
      BY <1>5
      DEF CoordinatorAnswers, Coordinator!HandleReceived,
          Coordinator!HandleReconnectProbe, Coordinator!HandlePairingRequest
    <2>2. Ack(ownChannel) \in Acks
      BY DEF Acks
    <2>3. Append(toNode, Ack(ownChannel)) \in Seq(Acks)
      BY <2>2
    <2> QED BY <1>5, <2>1, <2>3 DEF CoordinatorAnswers, Carry
  <1>6. CASE CoordinatorMoves
    BY <1>6 DEF CoordinatorMoves
  <1>7. CASE UNCHANGED vars
    BY <1>7 DEF vars
  <1> QED BY <1>1, <1>2, <1>3, <1>4, <1>5, <1>6, <1>7 DEF Next

(* A restart tunes to the channel that it restores.                        *)
LEMMA BootTunes ==
    ASSUME Client!Boot, prefFlag, prefMac # ZeroMac
    PROVE  radio' = pairedChannel'
  <1>1. Client!FirstChannel \in Client!Channels
    BY ReconnectAssumption
    DEF Client!FirstChannel, Client!Channels, Client!Listed, Byte
  <1>2. Client!RestoredChannel \in Client!Channels
    BY <1>1 DEF Client!RestoredChannel, Client!UsableChannel
  <1> QED BY <1>2 DEF Client!Boot, Client!SetChannel, NoCoord

(* Every step keeps the radio tuned: no loop call goes on with an ack that *)
(* was not told to the manager.                                            *)
LEMMA TunedKept ==
    ASSUME ~RecvPreempts, Told, NodeInv, AckInv, TunedInv, [Next]_vars
    PROVE  TunedInv'
  <1> USE DEF TunedInv, Elsewhere, tuning, pairing
  <1>1. CASE NodeLoop
    <2>1. ~ackPending /\ ~reacqDone /\ cup
      BY <1>1 DEF NodeLoop, MainMayRun
    <2>2. CASE Search
      BY <2>1, <2>2
      DEF Search, Node!HandleReacquiringDynamic, Node!provider,
          Node!callback, NodeInv, CallInv, SearchInv, Searching, Node!States
    <2>3. CASE ElsewhereInLoop
      <3>1. UNCHANGED <<radio, pairedChannel, prefFlag, prefMac, cup>>
        BY <2>3 DEF ElsewhereInLoop
      <3>2. UNCHANGED ackPending /\ ~reacqDone'
        BY <2>1, <2>3
        DEF ElsewhereInLoop, Node!Begin, Node!LoopCall,
            Node!HandlePairedConnected, Node!Degrade, Node!Demote,
            Node!Recover, Node!HandlePairedDegraded, Node!Reacquire,
            Node!HandleReacquiringStatic, Node!StaticProbe, Node!Escalate,
            Node!ArmReacquisition, Node!StartReacquisition,
            Node!PollReacquisition, Node!provider, Node!callback
      <3>3. state = "REACQUIRING_DYNAMIC" => state' = state
        BY <2>1, <2>3
        DEF ElsewhereInLoop, Node!Begin, Node!LoopCall,
            Node!HandlePairedConnected, Node!Degrade, Node!Demote,
            Node!Recover, Node!HandlePairedDegraded, Node!Reacquire,
            Node!HandleReacquiringStatic, Node!StaticProbe, Node!Escalate,
            Node!ArmReacquisition, Node!PollReacquisition, Node!manager,
            NodeInv, CallInv, SearchInv, Searching
      <3> QED BY <2>1, <3>1, <3>2, <3>3
    <2> QED BY <1>1, <2>2, <2>3 DEF NodeLoop
  <1>2. CASE HeartbeatArrives
    BY <1>2
    DEF HeartbeatArrives, Node!OnMessageReceived, Node!manager, Node!provider
  <1>10. CASE HeartbeatHandled
    BY <1>10
    DEF HeartbeatHandled, Node!HandleMessage, Node!Rejoin,
        Node!ResetReacquisition, Node!TransitionTo, NodeInv, CallInv
  <1>3. CASE AckArrives
    <2>1. AckChannel(Head(toNode)) \in Client!Channels
      BY <1>3, AckTunes DEF AckArrives
    <2>2. CASE UNCHANGED <<clock, managerVars, pairing, tuning>>
      BY <2>2 DEF managerVars
    <2>3. CASE /\ TuneTo(AckChannel(Head(toNode)))
               /\ Client!SetPairedChannel(AckChannel(Head(toNode)))
               /\ Node!OnReconnectAck
               /\ ackPending' = Told
      BY <2>1, <2>3
      DEF TuneTo, Client!SetChannel, Client!SetPairedChannel,
          Node!OnReconnectAck, Node!manager
    <2> QED BY <1>3, <2>2, <2>3 DEF AckArrives
  <1>4. CASE AckTold
    BY <1>4
    DEF AckTold, Node!OnReacquisitionSuccess, Node!Rejoin,
        Node!ResetReacquisition, Node!TransitionTo
  <1>5. CASE NodeFails
    BY <1>5
    DEF NodeFails, NewManager, Client!PowerLoss, Client!VolatileReset,
        Client!prefs
  <1>6. CASE NodeBoots
    <2>1. radio' = pairedChannel'
      BY <1>6, BootTunes DEF NodeBoots
    <2> QED
      BY <1>6, <2>1 DEF NodeBoots, managerVars, Client!Boot, Client!prefs
  <1>7. CASE CoordinatorAnswers \/ CoordinatorMoves \/ LoseProbe
    <2>1. UNCHANGED <<managerVars, pairing, tuning>>
      BY <1>7 DEF CoordinatorAnswers, CoordinatorMoves, LoseProbe, nodeVars
    <2> QED BY <2>1 DEF managerVars
  <1>8. CASE Tick
    BY <1>8 DEF Tick, Node!Tick, Node!manager, Node!provider, Node!callback
  <1>9. CASE UNCHANGED vars
    BY <1>9 DEF vars, nodeVars, managerVars
  <1> QED
    BY <1>1, <1>2, <1>3, <1>4, <1>5, <1>6, <1>7, <1>8, <1>9, <1>10 DEF Next

(* espnow_session_provider.cpp:77: a node that takes itself for connected  *)
(* listens on the channel its pairing names, if the receive handler tells  *)
(* the manager of the ack and runs in the main task.                       *)
THEOREM ConnectedIsTuned ==
    ASSUME ~RecvPreempts, Told PROVE Spec => []TunedWhenConnected
<1>1. Init => AckInv /\ TunedInv
  BY ReconnectAssumption DEF Init, AckInv, TunedInv, Node!Init
<1>2. NodeInv /\ TunedInv => TunedWhenConnected
  BY DEF NodeInv, SearchInv, TunedInv, TunedWhenConnected
<1>3. Spec => []NodeInv
  BY NodeInvariant
<1> QED BY <1>1, <1>2, <1>3, AckKept, TunedKept, PTL DEF Spec
=============================================================================
