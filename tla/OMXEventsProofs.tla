--------------------------- MODULE OMXEventsProofs ---------------------------
(***************************************************************************)
(* Theorems about OMXEvents, for every set of failing exchanges and every  *)
(* bound: the variables keep their types, and the component's handle never *)
(* outlives the adapter.                                                   *)
(***************************************************************************)
EXTENDS OMXEvents, TLAPS, FiniteSetTheorems, WellFoundedInduction

-----------------------------------------------------------------------------
(* Types                                                                   *)

LEMMA ExchangeNames ==
  Exchanges = {"init", "useIdle", "useEnable", "start", "stop", "useImage", "stopImage",
               "toIdle", "toLoaded", "toEnable"}
  BY DEF Exchanges, Exchange

(* What an exchange registers, and the command it sends.                   *)
LEMMA ExchangeTyped ==
  ASSUME NEW x \in Exchanges
  PROVE  /\ Exchange[x] \in Entries
         /\ Exchange[x].sem \in Sems
         /\ <<Exchange[x].arg1, Exchange[x].arg2>> \in Commands
<1>1. Exchange[x] \in Entries
  BY DEF Entries
<1>2. Exchange[x].sem \in Sems
  BY ExchangeNames DEF Exchange, Entry, Sems
<1>3. \/ Exchange[x].arg1 = StateSet /\ Exchange[x].arg2 \in {Loaded, StateIdle, Executing}
      \/ Exchange[x].arg1 \in {PortDisable, PortEnable} /\ Exchange[x].arg2 \in Ports
  BY ExchangeNames DEF Exchange, Entry, Ports
<1> QED BY <1>1, <1>2, <1>3 DEF Commands

LEMMA EntryTyped == ASSUME NEW e \in Entries PROVE e.sem \in Sems
  BY ExchangeTyped DEF Entries

(* Taking one registration out of the queue leaves a queue.                *)
LEMMA RemoveAtTyped ==
  ASSUME NEW q \in Seq(Entries), NEW i \in 1..Len(q)
  PROVE  RemoveAt(q, i) \in Seq(Entries)
  BY DEF RemoveAt

(* A set of numbers that is not empty has a least element.                 *)
LEMMA LeastNumber ==
  ASSUME NEW S \in SUBSET Nat, S # {}
  PROVE  \E m \in S : \A n \in S : m <= n
<1>1. PICK m \in S : \A n \in S : <<n, m>> \notin OpToRel(<, Nat)
  BY NatLessThanWellFounded, WFMin
<1>2. ASSUME NEW n \in S, n < m PROVE FALSE
  <2>1. <<n, m>> \in OpToRel(<, Nat)
    <3>1. <<n, m>> \in Nat \X Nat /\ <<n, m>>[1] = n /\ <<n, m>>[2] = m
      OBVIOUS
    <3>2. <<n, m>>[1] < <<n, m>>[2]
      BY <1>2, <3>1
    <3> QED BY <3>1, <3>2, Zenon DEF OpToRel
  <2> QED BY <1>1, <2>1, Zenon
<1> QED BY <1>2

LEMMA FirstMatchTyped ==
  ASSUME mEventSignalQ \in Seq(Entries), NEW nData1, NEW nData2
  PROVE  FirstMatch(nData1, nData2) \in 0..Len(mEventSignalQ)
<1> DEFINE hits == {i \in 1..Len(mEventSignalQ) : Matches(mEventSignalQ[i], nData1, nData2)}
<1>1. CASE hits = {}
  BY <1>1 DEF FirstMatch
<1>2. CASE hits # {}
  <2>1. hits \in SUBSET Nat
    OBVIOUS
  <2>2. \E m \in hits : \A n \in hits : m <= n
    BY <1>2, <2>1, LeastNumber
  <2>3. FirstMatch(nData1, nData2) \in hits
    BY <1>2, <2>2 DEF FirstMatch
  <2> QED BY <2>3
<1> QED BY <1>1, <1>2

(* SignalEvent and RemoveEvent, whatever event they are given.             *)
LEMMA SignalEventTyped ==
  ASSUME mEventSignalQ \in Seq(Entries), sem \in [Sems -> Nat], NEW nData1, NEW nData2,
         SignalEvent(nData1, nData2)
  PROVE  mEventSignalQ' \in Seq(Entries) /\ sem' \in [Sems -> Nat]
<1> DEFINE i == FirstMatch(nData1, nData2)
<1>1. CASE i = 0
  BY <1>1 DEF SignalEvent
<1>2. CASE i # 0
  <2>1. i \in 1..Len(mEventSignalQ)
    BY <1>2, FirstMatchTyped
  <2>2. /\ mEventSignalQ' = RemoveAt(mEventSignalQ, i)
        /\ sem' = [sem EXCEPT ![mEventSignalQ[i].sem] = @ + 1]
    BY <1>2, Zenon DEF SignalEvent
  <2>3. mEventSignalQ[i].sem \in Sems
    <3>1. mEventSignalQ[i] \in Entries
      BY <2>1
    <3> QED BY <3>1, EntryTyped
  <2> HIDE DEF i
  <2>4. sem' \in [Sems -> Nat]
    BY <2>2, <2>3
  <2> QED BY <2>1, <2>2, <2>4, RemoveAtTyped
<1> QED BY <1>1, <1>2

LEMMA RemoveEventTyped ==
  ASSUME mEventSignalQ \in Seq(Entries), NEW nData1, NEW nData2, RemoveEvent(nData1, nData2)
  PROVE  mEventSignalQ' \in Seq(Entries) /\ sem' = sem
<1> DEFINE i == FirstMatch(nData1, nData2)
<1>1. i \in 0..Len(mEventSignalQ)
  BY FirstMatchTyped
<1>2. /\ mEventSignalQ' = IF i = 0 THEN mEventSignalQ ELSE RemoveAt(mEventSignalQ, i)
      /\ sem' = sem
  BY Zenon DEF RemoveEvent
<1> HIDE DEF i
<1> QED BY <1>1, <1>2, RemoveAtTyped

Sessions == {"closed", "initialized", "loaded", "preview"}

LEMMA IdleCallTyped == IdleCall \in Calls
  BY ExchangeNames DEF IdleCall, Calls

LEMMA ReturnTyped ==
  ASSUME call \in Calls, session \in Sessions, NEW ok \in BOOLEAN, Return(ok)
  PROVE  call' \in Calls /\ session' \in Sessions
<1>1. NextSession(call.op, ok) \in Sessions
  BY DEF NextSession, Sessions
<1> QED BY <1>1, IdleCallTyped DEF Return, Calls

LEMMA GoTyped ==
  ASSUME call \in Calls, NEW x \in Exchanges, Go(x)
  PROVE  call' \in Calls
  BY DEF Go, Calls

LEMMA BeginTyped ==
  ASSUME NEW op \in Operations, NEW x \in Exchanges, Begin(op, x)
  PROVE  call' \in Calls
  BY DEF Begin, Calls

LEMMA CleanupTyped ==
  ASSUME comp \in Components, performCleanupAfterError
  PROVE  /\ mHandleComp' \in BOOLEAN
         /\ mComponentState' \in {Invalid, Loaded, StateIdle, Executing}
         /\ comp' \in Components
         /\ cmds' \in Seq(Commands)
<1>1. mHandleComp' \in BOOLEAN
  BY Zenon DEF performCleanupAfterError
<1> QED BY <1>1 DEF performCleanupAfterError

LEMMA InitTypeOK == Init => TypeOK
<1> SUFFICES ASSUME Init PROVE TypeOK
  OBVIOUS
<1>1. /\ mHandleComp \in BOOLEAN /\ mStateSwitchLock \in BOOLEAN
      /\ mCaptureConfigured \in BOOLEAN /\ fatal \in BOOLEAN
  BY Zenon DEF Init
<1>2. comp \in Components
  BY DEF Init, NoComponent, Components
<1> QED BY <1>1, <1>2, IdleCallTyped DEF Init, TypeOK

LEMMA NextTypeOK == TypeOK /\ [Next]_vars => TypeOK'
<1> SUFFICES ASSUME TypeOK, [Next]_vars PROVE TypeOK'
  OBVIOUS
<1> USE DEF TypeOK, adapterVars, Sessions
<1>1. CASE initialize
  <2>1. call' \in Calls
    BY <1>1, BeginTyped, ExchangeNames DEF initialize, Operations
  <2>2. mHandleComp' \in BOOLEAN
    BY <1>1, Zenon DEF initialize
  <2>3. comp' \in Components
    BY <1>1 DEF initialize, NoComponent, Components
  <2>4. cmds' \in Seq(Commands)
    <3>1. <<PortDisable, Prev>> \in Commands /\ <<PortDisable, Image>> \in Commands
      BY DEF Commands, Ports
    <3> QED BY <1>1, <3>1 DEF initialize
  <2> QED BY <1>1, <2>1, <2>2, <2>3, <2>4 DEF initialize
<1>2. CASE UseBuffersPreview
  BY <1>2, ExchangeNames DEF UseBuffersPreview, Calls, Operations
<1>3. CASE startPreview
  <2>1. call' \in Calls
    BY <1>3, ExchangeNames DEF startPreview, Calls, Operations
  <2> QED BY <1>3, <2>1 DEF startPreview
<1>4. CASE stopLoadedPreview
  <2>1. mStateSwitchLock' \in BOOLEAN
    BY <1>4, Zenon DEF stopLoadedPreview
  <2> QED BY <1>4, <2>1 DEF stopLoadedPreview
<1>5. CASE stopPreview
  BY <1>5, BeginTyped, ExchangeNames DEF stopPreview, Operations
<1>6. CASE getPictureBufferSize
  <2>1. mCaptureConfigured' \in BOOLEAN
    BY <1>6, Zenon DEF getPictureBufferSize
  <2>2. call' \in Calls
    BY <1>6, BeginTyped, ExchangeNames DEF getPictureBufferSize, Operations
  <2> QED BY <1>6, <2>1, <2>2 DEF getPictureBufferSize
<1>7. CASE UseBuffersCapture
  BY <1>7, BeginTyped, ExchangeNames DEF UseBuffersCapture, Operations
<1>8. CASE destructor
  BY <1>8, ExchangeNames DEF destructor, Calls, Operations
<1>9. CASE LockStateSwitch
  <2>1. mStateSwitchLock' \in BOOLEAN
    BY <1>9, Zenon DEF LockStateSwitch
  <2>2. call' \in Calls
    BY <1>9, GoTyped, ExchangeNames DEF LockStateSwitch
  <2> QED BY <1>9, <2>1, <2>2 DEF LockStateSwitch
<1>10. CASE RegisterForEvent
  <2>1. Exchange[call.x] \in Entries
    BY ExchangeTyped DEF Calls
  <2>2. call' \in Calls
    BY <1>10 DEF RegisterForEvent, Calls
  <2> QED BY <1>10, <2>1, <2>2 DEF RegisterForEvent
<1>11. ASSUME NEW sent \in BOOLEAN, NEW ok \in BOOLEAN, SendCommand(sent, ok) PROVE TypeOK'
  <2>1. <<Exchange[call.x].arg1, Exchange[call.x].arg2>> \in Commands
    BY ExchangeTyped DEF Calls
  <2>2. cmds' \in Seq(Commands)
    BY <1>11, <2>1 DEF SendCommand
  <2>3. call' \in Calls
    BY <1>11 DEF SendCommand, Calls
  <2>4. metadata' \subseteq Ports
    BY <1>11 DEF SendCommand, Ports
  <2> QED BY <1>11, <2>2, <2>3, <2>4 DEF SendCommand
<1>12. CASE WaitSignalled
  <2>1. Exchange[call.x].sem \in Sems
    BY ExchangeTyped DEF Calls
  <2>2. sem' \in [Sems -> Nat]
    BY <1>12, <2>1 DEF WaitSignalled
  <2>3. call' \in Calls
    BY <1>12 DEF WaitSignalled, Calls
  <2> QED BY <1>12, <2>2, <2>3 DEF WaitSignalled
<1>13. CASE WaitTimesOut
  <2>1. call' \in Calls
    BY <1>13 DEF WaitTimesOut, Calls
  <2> QED BY <1>13, <2>1 DEF WaitTimesOut
<1>14. CASE ResetSemaphore
  <2>1. call' \in Calls
    BY <1>14 DEF ResetSemaphore, Calls
  <2> QED BY <1>14, <2>1 DEF ResetSemaphore
<1>15. CASE CheckWait
  <2>1. call' \in Calls
    <3>1. (call.ok \/ call.x \in EErrorOnly) \in BOOLEAN
      BY Zenon
    <3> QED BY <1>15, <3>1 DEF CheckWait, Calls
  <2>2. metadata' \subseteq Ports
    BY <1>15 DEF CheckWait
  <2> QED BY <1>15, <2>1, <2>2 DEF CheckWait
<1>16. CASE Deregister
  <2>1. (call.x \in EErrorOnly) \in BOOLEAN
    OBVIOUS
  <2>2. call' \in Calls
    BY <1>16, <2>1 DEF Deregister, Calls
  <2>3. mEventSignalQ' \in Seq(Entries) /\ sem' \in [Sems -> Nat]
    BY <1>16, SignalEventTyped, RemoveEventTyped DEF Deregister
  <2> QED BY <1>16, <2>2, <2>3 DEF Deregister
<1>17. CASE ExchangeFails
  <2>1. mStateSwitchLock' \in BOOLEAN
    BY <1>17, Zenon DEF ExchangeFails
  <2>2. /\ mHandleComp' \in BOOLEAN
        /\ mComponentState' \in {Invalid, Loaded, StateIdle, Executing}
        /\ comp' \in Components
        /\ cmds' \in Seq(Commands)
    BY <1>17, CleanupTyped DEF ExchangeFails
  <2>3. call' \in Calls /\ session' \in Sessions
    <3> DEFINE ok == call.ok \/ call.x \in Ignored
    <3>1. ok \in BOOLEAN
      BY Zenon
    <3>2. \/ call' = [call EXCEPT !.at = "switch"] /\ session' = session
          \/ Return(ok)
      BY <1>17 DEF ExchangeFails
    <3> HIDE DEF ok
    <3> QED BY <3>1, <3>2, ReturnTyped DEF Calls
  <2> QED BY <1>17, <2>1, <2>2, <2>3 DEF ExchangeFails
<1>18. ASSUME NEW ok \in BOOLEAN, InitializeFails(ok) PROVE TypeOK'
  <2>1. call' \in Calls
    BY <1>18 DEF InitializeFails, Calls
  <2> QED BY <1>18, <2>1 DEF InitializeFails
<1>19. CASE ExchangeDone
  <2>1. mCaptureConfigured' \in BOOLEAN
    BY <1>19, Zenon DEF ExchangeDone
  <2>2. mComponentState' \in {Invalid, Loaded, StateIdle, Executing}
    BY <1>19 DEF ExchangeDone
  <2>3. mEventSignalQ' \in Seq(Entries)
    BY <1>19 DEF ExchangeDone
  <2>4. \/ call' = [call EXCEPT !.at = "queue"] /\ session' = session
        \/ call' = [call EXCEPT !.at = "switch"] /\ session' = session
        \/ (Go("stopImage") \/ Go("toLoaded") \/ Go("toEnable")) /\ session' = session
        \/ Return(TRUE)
    BY <1>19 DEF ExchangeDone
  <2>5. call' \in Calls /\ session' \in Sessions
    BY <2>4, ReturnTyped, GoTyped, ExchangeNames DEF Calls
  <2> QED BY <1>19, <2>1, <2>2, <2>3, <2>5 DEF ExchangeDone
<1>20. ASSUME NEW ok \in BOOLEAN, QueueBuffers(ok) PROVE TypeOK'
  <2>1. mStateSwitchLock' \in BOOLEAN
    BY <1>20, Zenon DEF QueueBuffers
  <2>2. /\ mHandleComp' \in BOOLEAN
        /\ mComponentState' \in {Invalid, Loaded, StateIdle, Executing}
        /\ comp' \in Components
        /\ cmds' \in Seq(Commands)
    BY <1>20, CleanupTyped DEF QueueBuffers
  <2>3. call' \in Calls /\ session' \in Sessions
    BY <1>20, ReturnTyped DEF QueueBuffers
  <2> QED BY <1>20, <2>1, <2>2, <2>3 DEF QueueBuffers
<1>21. CASE SwitchToLoaded
  <2>1. /\ mHandleComp' \in BOOLEAN
        /\ mComponentState' \in {Invalid, Loaded, StateIdle, Executing}
        /\ comp' \in Components
        /\ cmds' \in Seq(Commands)
    BY <1>21, CleanupTyped DEF SwitchToLoaded, switchToLoaded
  <2>2. Return(TRUE) \/ ((Go("toIdle") \/ Go("toLoaded")) /\ session' = session)
    BY <1>21 DEF SwitchToLoaded, switchToLoaded
  <2>3. call' \in Calls /\ session' \in Sessions
    BY <2>2, ReturnTyped, GoTyped, ExchangeNames
  <2> QED BY <1>21, <2>1, <2>3 DEF SwitchToLoaded
<1>22. CASE Destroy
  <2>1. /\ mHandleComp' \in BOOLEAN /\ mStateSwitchLock' \in BOOLEAN
        /\ mCaptureConfigured' \in BOOLEAN
    BY <1>22, Zenon DEF Destroy
  <2>2. comp' \in Components
    BY <1>22 DEF Destroy, NoComponent, Components
  <2> QED BY <1>22, <2>1, <2>2, IdleCallTyped DEF Destroy
<1>23. CASE CompleteCommand
  <2>1. /\ Head(cmds) \in Commands
        /\ cmds' \in Seq(Commands)
    BY <1>23 DEF CompleteCommand, Answering
  <2>2. mEventSignalQ' \in Seq(Entries) /\ sem' \in [Sems -> Nat]
    BY <1>23, SignalEventTyped DEF CompleteCommand
  <2>3. CASE Head(cmds)[1] = StateSet
    <3>1. Head(cmds)[2] \in {Loaded, StateIdle, Executing}
      BY <2>1, <2>3 DEF Commands, StateSet, PortDisable, PortEnable
    <3>2. comp' = [comp EXCEPT !.state = Head(cmds)[2]]
      BY <1>23, <2>3 DEF CompleteCommand, StateSet, PortDisable, PortEnable
    <3>3. comp' \in Components
      BY <3>1, <3>2 DEF Components
    <3> QED BY <1>23, <2>1, <2>2, <3>3 DEF CompleteCommand
  <2>4. CASE Head(cmds)[1] # StateSet
    <3>1. Head(cmds)[1] \in {PortDisable, PortEnable} /\ Head(cmds)[2] \in Ports
      BY <2>1, <2>4 DEF Commands
    <3>2. \/ comp' = [comp EXCEPT !.enabled = @ \cup {Head(cmds)[2]}]
          \/ comp' = [comp EXCEPT !.enabled = @ \ {Head(cmds)[2]}]
      BY <1>23, <3>1, <2>4 DEF CompleteCommand, StateSet, PortDisable, PortEnable
    <3>3. comp' \in Components
      BY <3>1, <3>2 DEF Components
    <3> QED BY <1>23, <2>1, <2>2, <3>3 DEF CompleteCommand
  <2> QED BY <2>3, <2>4
<1>24. CASE RejectCommand
  <2>1. cmds' \in Seq(Commands)
    BY <1>24 DEF RejectCommand, Answering
  <2> QED BY <1>24, <2>1 DEF RejectCommand
<1>25. CASE HardwareError
  <2>1. fatal' \in BOOLEAN
    BY <1>25, Zenon DEF HardwareError
  <2>2. comp' \in Components
    BY <1>25 DEF HardwareError, Components
  <2> QED BY <1>25, <2>1, <2>2 DEF HardwareError
<1>26. CASE SignalAll
  <2>1. fatal' \in BOOLEAN
    BY <1>26, Zenon DEF SignalAll
  <2>2. sem' \in [Sems -> Nat]
    <3> DEFINE Of(s) == {i \in 1..Len(mEventSignalQ) : mEventSignalQ[i].sem = s}
    <3>1. ASSUME NEW s \in Sems PROVE Cardinality(Of(s)) \in Nat
      <4>1. Of(s) \in SUBSET (1..Len(mEventSignalQ)) /\ Len(mEventSignalQ) \in Int /\ 1 \in Int
        OBVIOUS
      <4>2. IsFiniteSet(1..Len(mEventSignalQ))
        BY <4>1, FS_Interval
      <4> HIDE DEF Of
      <4>3. IsFiniteSet(Of(s))
        BY <4>1, <4>2, FS_Subset
      <4> QED BY <4>3, FS_CardinalityType
    <3>2. sem' = [s \in Sems |-> sem[s] + Cardinality(Of(s))]
      BY <1>26, Zenon DEF SignalAll
    <3> HIDE DEF Of
    <3> QED BY <3>1, <3>2
  <2> QED BY <1>26, <2>1, <2>2 DEF SignalAll
<1>27. CASE UNCHANGED vars
  BY <1>27 DEF vars
<1> QED
  BY <1>1, <1>2, <1>3, <1>4, <1>5, <1>6, <1>7, <1>8, <1>9, <1>10, <1>11, <1>12, <1>13, <1>14,
     <1>15, <1>16, <1>17, <1>18, <1>19, <1>20, <1>21, <1>22, <1>23, <1>24, <1>25, <1>26, <1>27
     DEF Next, Operation, HalStep, Component

(* Every variable keeps its type, whichever commands fail, time out or are *)
(* answered late; no wait takes a semaphore below zero.                    *)
THEOREM TypeCorrect == Spec => []TypeOK
<1>1. TypeOK /\ [Next]_vars => TypeOK'
  BY NextTypeOK
<1> QED BY <1>1, InitTypeOK, PTL DEF Spec

-----------------------------------------------------------------------------
(* The handle.  HandleFreed speaks of closed sessions only; the invariant  *)
(* adds what the destructor and a failing initialize know on their way     *)
(* there: which exchanges they make, and that switchToLoaded has left      *)
(* mComponentState Loaded or Invalid when it is over.                      *)
HandleInv ==
  /\ HandleFreed
  /\ call.op \notin {NONE, "initialize"} => session # "closed"
  /\ call.op = "initialize" => call.x = "init" /\ call.at # "switch"
  /\ call.op = "destructor" => call.x \in {"toIdle", "toLoaded", "toEnable"} /\ call.at # "queue"
  /\ call.op = "destructor" /\ (call.x = "toEnable" \/ call.at = "destroy") =>
       mComponentState \in {Loaded, Invalid}
  /\ call.op # NONE /\ call.at = "destroy" => call.op = "destructor"
  /\ call.op # NONE /\ call.at = "lock" => call.op = "UseBuffersPreview"

(* Steps inside an exchange.                                               *)
LEMMA InsideHandleInv ==
  ASSUME TypeOK, HandleInv, call.op # NONE, NEW at, at \notin {"lock", "queue", "destroy"},
         at = "switch" => call.op # "initialize",
         call'.op = call.op, call'.x = call.x, call'.at = at,
         mComponentState' = mComponentState \/ call.op # "destructor",
         UNCHANGED <<mHandleComp, session>>
  PROVE  HandleInv'
  BY DEF TypeOK, HandleInv, HandleFreed, Quiet, NONE

(* An operation returns: one that has failed to initialize without a       *)
(* handle, the destructor with the component in Loaded or Invalid.         *)
LEMMA ReturnHandleInv ==
  ASSUME TypeOK, HandleInv, call.op # NONE, NEW ok \in BOOLEAN, Return(ok),
         call.op = "initialize" /\ ~ok => ~mHandleComp',
         call.op = "destructor" => mComponentState' \in {Loaded, Invalid}
  PROVE  HandleInv'
<1>1. CASE call.op = "destructor"
  <2>1. /\ call'.op = call.op /\ call'.x = call.x /\ call'.at = "destroy"
        /\ session' = session
    BY <1>1 DEF Return, TypeOK, Calls
  <2> QED BY <1>1, <2>1 DEF HandleInv, HandleFreed, Quiet, NONE
<1>2. CASE call.op # "destructor"
  <2>1. call'.op = NONE /\ session' = NextSession(call.op, ok)
    BY <1>2 DEF Return, IdleCall
  <2>2. session' = "closed" => call.op = "initialize" /\ ~ok
    BY <1>2, <2>1 DEF NextSession, HandleInv, NONE
  <2> QED BY <2>1, <2>2 DEF HandleInv, HandleFreed, Quiet, NONE
<1> QED BY <1>1, <1>2

(* A next exchange of the operation.                                       *)
LEMMA GoHandleInv ==
  ASSUME TypeOK, HandleInv, NEW x, Go(x), call.op \notin {NONE, "initialize"},
         call.op = "destructor" => x \in {"toIdle", "toLoaded", "toEnable"},
         call.op = "destructor" /\ x = "toEnable" => mComponentState' \in {Loaded, Invalid},
         UNCHANGED <<mHandleComp, session>>
  PROVE  HandleInv'
<1>1. call'.op = call.op /\ call'.x = x /\ call'.at = "register"
  BY DEF Go, TypeOK, Calls
<1> QED BY <1>1 DEF HandleInv, HandleFreed, Quiet, NONE

LEMMA NextHandleInv == TypeOK /\ HandleInv /\ [Next]_vars => HandleInv'
<1> SUFFICES ASSUME TypeOK, HandleInv, [Next]_vars PROVE HandleInv'
  OBVIOUS
<1>1. CASE Operation
  <2>1. CASE initialize
    BY <2>1 DEF initialize, Begin, HandleInv, HandleFreed, Quiet, NONE
  <2>2. CASE UseBuffersPreview \/ startPreview
    BY <2>2 DEF UseBuffersPreview, startPreview, adapterVars, HandleInv, HandleFreed, Quiet, NONE
  <2>3. CASE stopLoadedPreview
    BY <2>3 DEF stopLoadedPreview, HandleInv, HandleFreed, Quiet, NONE
  <2>4. CASE stopPreview \/ getPictureBufferSize \/ UseBuffersCapture
    BY <2>4 DEF stopPreview, getPictureBufferSize, UseBuffersCapture, adapterVars, Begin,
       HandleInv, HandleFreed, Quiet, NONE
  <2>5. CASE destructor
    BY <2>5 DEF destructor, adapterVars, HandleInv, HandleFreed, Quiet, NONE
  <2> QED BY <1>1, <2>1, <2>2, <2>3, <2>4, <2>5 DEF Operation
<1>2. CASE LockStateSwitch
  <2>1. call.op = "UseBuffersPreview" /\ (Go("useIdle") \/ Go("useEnable"))
    BY <1>2 DEF LockStateSwitch, At, HandleInv
  <2> QED BY <1>2, <2>1, GoHandleInv DEF LockStateSwitch, NONE
<1>3. CASE RegisterForEvent \/ WaitSignalled \/ WaitTimesOut \/ ResetSemaphore \/ Deregister
  <2>1. PICK at : at \notin {"lock", "queue", "switch", "destroy"} /\ call'.at = at
    BY <1>3 DEF RegisterForEvent, WaitSignalled, WaitTimesOut, ResetSemaphore, Deregister,
       TypeOK, Calls
  <2>2. /\ call'.op = call.op /\ call'.x = call.x /\ call.op # NONE
        /\ UNCHANGED <<mComponentState, mHandleComp, session>>
    BY <1>3 DEF RegisterForEvent, WaitSignalled, WaitTimesOut, ResetSemaphore, Deregister,
       TypeOK, Calls, At, adapterVars
  <2> QED BY <2>1, <2>2, InsideHandleInv
<1>4. ASSUME NEW sent \in BOOLEAN, NEW ok \in BOOLEAN, SendCommand(sent, ok) PROVE HandleInv'
  <2>1. /\ call'.op = call.op /\ call'.x = call.x /\ call.op # NONE
        /\ call'.at = (IF ok THEN "wait" ELSE "fail")
        /\ mComponentState' = mComponentState \/ call.x = "useIdle"
        /\ UNCHANGED <<mHandleComp, session>>
    BY <1>4 DEF SendCommand, At, TypeOK, Calls
  <2>2. mComponentState' = mComponentState \/ call.op # "destructor"
    BY <2>1 DEF HandleInv
  <2> QED BY <2>1, <2>2, InsideHandleInv
<1>5. CASE CheckWait
  <2>1. /\ call'.op = call.op /\ call'.x = call.x /\ call.op # NONE
        /\ call'.at \in {"fail", "done", "remove"}
        /\ UNCHANGED <<mComponentState, mHandleComp, session>>
    BY <1>5 DEF CheckWait, At, TypeOK, Calls
  <2> QED BY <2>1, InsideHandleInv
<1>6. CASE ExchangeFails
  <2>1. call.op # NONE
    BY <1>6 DEF ExchangeFails, At
  <2>2. CASE call.x = "stopImage" /\ call.op = "stopPreview" /\ call.ok
    <3>1. /\ call'.op = call.op /\ call'.x = call.x /\ call'.at = "switch"
          /\ UNCHANGED <<mComponentState, mHandleComp, session>>
      BY <1>6, <2>2 DEF ExchangeFails, TypeOK, Calls
    <3> QED BY <2>1, <2>2, <3>1, InsideHandleInv
  <2>3. CASE ~(call.x = "stopImage" /\ call.op = "stopPreview" /\ call.ok)
    <3> DEFINE ok == call.ok \/ call.x \in Ignored
    <3>1. Return(ok) /\ ok \in BOOLEAN
      BY <1>6, <2>3, Zenon DEF ExchangeFails
    <3>2. call.x \notin {"stop", "stopImage"} => ~mHandleComp' /\ mComponentState' = Invalid
      BY <1>6 DEF ExchangeFails, performCleanupAfterError
    <3>3. /\ call.op = "initialize" => ~mHandleComp'
          /\ call.op = "destructor" => mComponentState' = Invalid
      BY <3>2 DEF HandleInv
    <3> HIDE DEF ok
    <3> QED BY <2>1, <3>1, <3>3, ReturnHandleInv
  <2> QED BY <2>2, <2>3
<1>7. ASSUME NEW ok \in BOOLEAN, InitializeFails(ok) PROVE HandleInv'
  <2>1. /\ call'.op = call.op /\ call'.x = call.x /\ call.op # NONE /\ call'.at = "fail"
        /\ UNCHANGED <<mComponentState, mHandleComp, session>>
    BY <1>7 DEF InitializeFails, At, TypeOK, Calls, adapterVars
  <2> QED BY <2>1, InsideHandleInv
<1>8. CASE ExchangeDone
  <2>1. call.op # NONE /\ mHandleComp' = mHandleComp
    BY <1>8 DEF ExchangeDone, At
  <2>2. CASE call.x = "start"
    <3>1. /\ call'.op = call.op /\ call'.x = call.x /\ call'.at = "queue"
          /\ session' = session
      BY <1>8, <2>2 DEF ExchangeDone, TypeOK, Calls
    <3> QED BY <2>1, <2>2, <3>1 DEF HandleInv, HandleFreed, Quiet, NONE
  <2>3. CASE call.x = "stop" /\ mCaptureConfigured
    <3>1. Go("stopImage") /\ session' = session /\ call.op \notin {"initialize", "destructor"}
      BY <1>8, <2>3 DEF ExchangeDone, HandleInv
    <3> QED BY <2>1, <3>1, GoHandleInv
  <2>4. CASE \/ call.x = "stop" /\ ~mCaptureConfigured
             \/ call.x = "stopImage" /\ call.op = "stopPreview"
    <3>1. /\ call'.op = call.op /\ call'.x = call.x /\ call'.at = "switch"
          /\ session' = session
      BY <1>8, <2>4 DEF ExchangeDone, TypeOK, Calls
    <3>2. call.op \notin {"initialize", "destructor"}
      BY <2>4 DEF HandleInv
    <3> QED BY <2>1, <3>1, <3>2, InsideHandleInv
  <2>5. CASE call.x = "toIdle"
    <3>1. Go("toLoaded") /\ session' = session /\ call.op # "initialize"
      BY <1>8, <2>5 DEF ExchangeDone, HandleInv
    <3> QED BY <2>1, <3>1, GoHandleInv
  <2>6. CASE call.x = "toLoaded"
    <3>1. /\ Go("toEnable") /\ session' = session /\ call.op # "initialize"
          /\ mComponentState' = Loaded
      BY <1>8, <2>6 DEF ExchangeDone, HandleInv
    <3> QED BY <2>1, <3>1, GoHandleInv
  <2>7. CASE \/ call.x \in {"init", "useIdle", "useEnable", "useImage", "toEnable"}
             \/ call.x = "stopImage" /\ call.op # "stopPreview"
    <3>1. Return(TRUE)
      BY <1>8, <2>7 DEF ExchangeDone
    <3>2. call.op = "destructor" => mComponentState' \in {Loaded, Invalid}
      BY <1>8, <2>7 DEF ExchangeDone, HandleInv
    <3> QED BY <2>1, <3>1, <3>2, ReturnHandleInv
  <2>8. call.x \in Exchanges
    BY DEF TypeOK, Calls
  <2> QED BY <2>2, <2>3, <2>4, <2>5, <2>6, <2>7, <2>8, ExchangeNames
<1>9. ASSUME NEW ok \in BOOLEAN, QueueBuffers(ok) PROVE HandleInv'
  <2>1. /\ call.op \notin {NONE, "destructor"}
        /\ Return(ok)
        /\ ~ok => ~mHandleComp'
    BY <1>9 DEF QueueBuffers, At, HandleInv, performCleanupAfterError
  <2> QED BY <2>1, ReturnHandleInv
<1>10. CASE SwitchToLoaded
  <2>1. call.op # NONE
    BY <1>10 DEF SwitchToLoaded, At
  <2>2. CASE mComponentState \in {Loaded, Invalid} \/ sem["mSwitchToLoadedSem"] # 0
    <3>1. Return(TRUE) /\ mComponentState' \in {Loaded, Invalid}
      BY <1>10, <2>2 DEF SwitchToLoaded, switchToLoaded, performCleanupAfterError
    <3> QED BY <2>1, <3>1, ReturnHandleInv
  <2>3. CASE ~(mComponentState \in {Loaded, Invalid} \/ sem["mSwitchToLoadedSem"] # 0)
    <3>1. /\ Go("toIdle") \/ Go("toLoaded")
          /\ UNCHANGED <<mComponentState, mHandleComp, session>>
      BY <1>10, <2>3 DEF SwitchToLoaded, switchToLoaded
    <3>2. CASE call.op # "initialize"
      BY <2>1, <3>1, <3>2, GoHandleInv
    <3>3. CASE call.op = "initialize"
      BY <1>10, <3>3 DEF SwitchToLoaded, At, HandleInv
    <3> QED BY <3>2, <3>3
  <2> QED BY <2>2, <2>3
<1>11. CASE Destroy
  <2>1. ~mHandleComp' /\ call' = IdleCall
    BY <1>11 DEF Destroy, At, HandleInv
  <2> QED BY <2>1 DEF IdleCall, HandleInv, HandleFreed, Quiet, NONE
<1>12. CASE CompleteCommand \/ RejectCommand \/ SignalAll \/ UNCHANGED vars
  <2>1. UNCHANGED <<mComponentState, mHandleComp, session, call>>
    BY <1>12 DEF CompleteCommand, RejectCommand, SignalAll, vars, adapterVars
  <2> QED BY <2>1 DEF HandleInv, HandleFreed, Quiet
<1>13. CASE HardwareError
  <2>1. mComponentState' = Invalid /\ UNCHANGED <<mHandleComp, session, call>>
    BY <1>13 DEF HardwareError
  <2> QED BY <2>1 DEF HandleInv, HandleFreed, Quiet
<1> QED
  BY <1>1, <1>2, <1>3, <1>4, <1>5, <1>6, <1>7, <1>8, <1>9, <1>10, <1>11, <1>12, <1>13
     DEF Next, HalStep, Component

(* The destructor, or an initialize that fails, always frees the handle:   *)
(* whatever commands failed, timed out or were overtaken by a hardware     *)
(* error, the component does not outlive the adapter it calls back.        *)
THEOREM HandleCorrect == Spec => []HandleFreed
<1>1. Init => HandleInv
  BY DEF Init, IdleCall, HandleInv, HandleFreed, Quiet, NONE
<1>2. TypeOK /\ HandleInv /\ [Next]_vars => HandleInv'
  BY NextHandleInv
<1>3. HandleInv => HandleFreed
  BY DEF HandleInv
<1> QED BY <1>1, <1>2, <1>3, TypeCorrect, PTL DEF Spec
==============================================================================
