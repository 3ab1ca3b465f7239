------------------------------ MODULE OMXEvents ------------------------------
(***************************************************************************)
(* The conversation between OMXCameraAdapter and the OMX camera component. *)
(* Each operation of the adapter is a chain of exchanges: register a       *)
(* semaphore for the event that will answer a command (RegisterForEvent),  *)
(* send the command (OMX_SendCommand), and wait for the semaphore with a   *)
(* timeout.  The component answers when it likes, or never; its callback   *)
(* thread runs OMXCameraAdapterEventHandler, which looks the event up in   *)
(* mEventSignalQ (SignalEvent).  A wait that times out takes its entry out *)
(* of the queue again (RemoveEvent) and, for most exchanges, gives up the  *)
(* component's handle (performCleanupAfterError).                          *)
(*                                                                         *)
(* The operations run one at a time: sendCommand holds the adapter's mLock *)
(* from setState to commitState, and initialize and the destructor have    *)
(* the adapter to themselves.  What OMX does with a NULL handle is not in  *)
(* the repository: no operation that would use one is started here.        *)
(***************************************************************************)
EXTENDS Integers, Sequences, FiniteSets, SequencesExt

CONSTANTS
  Failures,   \* exchanges whose OMX calls may return an error
  MaxStale    \* bound: registrations and signals left over from earlier operations

(* OMX_COMMANDTYPE, OMX_STATETYPE and the port indexes.  Their values      *)
(* matter: SignalEvent takes a 0 in a registration for "any value".        *)
StateSet    == 0
PortDisable == 2
PortEnable  == 3

Invalid   == 0
Loaded    == 1
StateIdle == 2
Executing == 3

Prev  == 0    \* OMX_CAMERA_PORT_VIDEO_OUT_PREVIEW
Image == 1    \* OMX_CAMERA_PORT_IMAGE_OUT_IMAGE
Ports == {Prev, Image}

NONE == "none"

Sems == {"mInitSem", "mUsePreviewSem", "mStartPreviewSem", "mStopPreviewSem",
         "mUseCaptureSem", "mStopCaptureSem", "mSwitchToLoadedSem"}

Entry(command, data, semaphore) ==
  [arg1 |-> command, arg2 |-> data, sem |-> semaphore]

(* The exchanges, by name: what each registers and sends.                  *)
Exchange == [
  init      |-> Entry(PortEnable, Prev, "mInitSem"),
  useIdle   |-> Entry(StateSet, StateIdle, "mUsePreviewSem"),
  useEnable |-> Entry(PortEnable, Prev, "mUsePreviewSem"),
  start     |-> Entry(StateSet, Executing, "mStartPreviewSem"),
  stop      |-> Entry(PortDisable, Prev, "mStopPreviewSem"),
  useImage  |-> Entry(PortEnable, Image, "mUseCaptureSem"),
  stopImage |-> Entry(PortDisable, Image, "mStopCaptureSem"),
  toIdle    |-> Entry(StateSet, StateIdle, "mSwitchToLoadedSem"),
  toLoaded  |-> Entry(StateSet, Loaded, "mSwitchToLoadedSem"),
  toEnable  |-> Entry(PortEnable, Prev, "mSwitchToLoadedSem")]

Exchanges == DOMAIN Exchange
Entries   == {Exchange[x] : x \in Exchanges}

ASSUME FailuresAssumption == Failures \subseteq Exchanges
ASSUME MaxStaleAssumption == MaxStale \in Nat

Operations == {"initialize", "UseBuffersPreview", "startPreview", "stopPreview",
               "getPictureBufferSize", "UseBuffersCapture", "destructor"}

VARIABLES
  \* OMXCameraAdapter
  mComponentState,    \* the adapter's idea of the component's state
  mHandleComp,        \* the handle is not NULL
  mEventSignalQ,      \* registrations, oldest first
  sem,                \* [Sems -> Nat], the counts
  mStateSwitchLock,   \* locked from UseBuffersPreview to startPreview
  mCaptureConfigured,
  metadata,           \* ports whose mMetadataBufs are allocated
  session,            \* the adapter's state as far as it selects operations
  call,               \* the operation in progress
  \* the component
  comp,               \* its state, enabled ports, and no hardware error yet
  cmds,               \* commands sent and not carried out
  fatal               \* OMX_EventError has set Invalid, not yet signalled

adapterVars == <<mComponentState, mHandleComp, mStateSwitchLock,
                 mCaptureConfigured, metadata, session>>
vars == <<adapterVars, mEventSignalQ, sem, call, comp, cmds, fatal>>

IdleCall == [op |-> NONE, x |-> "init", at |-> NONE, ok |-> TRUE]
NoComponent == [state |-> Loaded, enabled |-> {}, ok |-> TRUE]

Init ==
  /\ mComponentState = Loaded
  /\ mHandleComp = FALSE
  /\ mEventSignalQ = <<>>
  /\ sem = [s \in Sems |-> 0]
  /\ mStateSwitchLock = FALSE
  /\ mCaptureConfigured = FALSE
  /\ metadata = {}
  /\ session = "closed"
  /\ call = IdleCall
  /\ comp = NoComponent
  /\ cmds = <<>>
  /\ fatal = FALSE

Quiet == call.op = NONE

(* The adapter's caller may begin an operation.                            *)
Ready == Quiet /\ Len(mEventSignalQ) + sem["mStopCaptureSem"] <= MaxStale

-----------------------------------------------------------------------------
(* The event queue                                                         *)

(* Mutant of Matches: the event's second datum is not compared.            *)
MatchesCommand(entry, nData1, nData2) == entry.arg1 = 0 \/ entry.arg1 = nData1

(* SignalEvent's test of one registration against the event's data.        *)
(* Every registration is for OMX_EventCmdComplete, which is 0 and is the   *)
(* only event the first part of the test lets through.                     *)
Matches(entry, nData1, nData2) ==
  /\ entry.arg1 = 0 \/ entry.arg1 = nData1
  /\ entry.arg2 = 0 \/ entry.arg2 = nData2

FirstMatch(nData1, nData2) ==
  LET hits == {i \in 1..Len(mEventSignalQ) : Matches(mEventSignalQ[i], nData1, nData2)}
  IN IF hits = {} THEN 0 ELSE CHOOSE i \in hits : \A j \in hits : i <= j

SignalEvent(nData1, nData2) ==
  LET i == FirstMatch(nData1, nData2)
  IN IF i = 0
     THEN UNCHANGED <<mEventSignalQ, sem>>
     ELSE /\ mEventSignalQ' = RemoveAt(mEventSignalQ, i)
          /\ sem' = [sem EXCEPT ![mEventSignalQ[i].sem] = @ + 1]

RemoveEvent(nData1, nData2) ==
  LET i == FirstMatch(nData1, nData2)
  IN /\ mEventSignalQ' = IF i = 0 THEN mEventSignalQ ELSE RemoveAt(mEventSignalQ, i)
     /\ UNCHANGED sem

-----------------------------------------------------------------------------
(* The end of an operation                                                 *)

(* sendCommand commits the command's next state or stays where it was.     *)
NextSession(op, ok) ==
  CASE op = "initialize"        -> IF ok THEN "initialized" ELSE "closed"
    [] op = "UseBuffersPreview" -> IF ok THEN "loaded" ELSE "initialized"
    [] op = "startPreview"      -> IF ok THEN "preview" ELSE "loaded"
    [] op = "stopPreview"       -> IF ok THEN "initialized" ELSE "preview"
    [] OTHER                    -> session

Return(ok) ==
  IF call.op = "destructor"
  THEN call' = [call EXCEPT !.at = "destroy"] /\ UNCHANGED session
  ELSE call' = IdleCall /\ session' = NextSession(call.op, ok)

(* OMX_FreeHandle stops the component: nothing it was sent is answered.    *)
performCleanupAfterError ==
  /\ ~fatal
  /\ mHandleComp' = FALSE
  /\ mComponentState' = Invalid
  /\ cmds' = <<>>
  /\ UNCHANGED comp

Go(x) == call' = [call EXCEPT !.x = x, !.at = "register", !.ok = TRUE]

(* stopPreview and the destructor go through switchToLoaded.  Its Autolock *)
(* keeps mStateSwitchLock from nobody: no other thread takes it.           *)
switchToLoaded ==
  /\ ~mStateSwitchLock
  /\ IF mComponentState \in {Loaded, Invalid}
     THEN /\ Return(TRUE)
          /\ UNCHANGED <<mComponentState, mHandleComp, comp, cmds>>
     ELSE IF sem["mSwitchToLoadedSem"] # 0
     THEN Return(TRUE) /\ performCleanupAfterError
     ELSE /\ Go(IF mComponentState = Executing THEN "toIdle" ELSE "toLoaded")
          /\ UNCHANGED <<mComponentState, mHandleComp, comp, cmds, session>>

-----------------------------------------------------------------------------
(* Operations, up to their first exchange                                  *)

Begin(op, x) == call' = [op |-> op, x |-> x, at |-> "register", ok |-> TRUE]

(* A new adapter gets a component and disables all its ports.              *)
initialize ==
  /\ Quiet /\ session = "closed" /\ ~mHandleComp
  /\ Begin("initialize", "init")
  /\ mComponentState' = Loaded
  /\ mHandleComp' = TRUE
  /\ mEventSignalQ' = <<>>
  /\ sem' = [s \in Sems |-> 0]
  /\ comp' = [NoComponent EXCEPT !.enabled = Ports]
  /\ cmds' = << <<PortDisable, Prev>>, <<PortDisable, Image>> >>
  /\ UNCHANGED <<mStateSwitchLock, mCaptureConfigured, metadata, session, fatal>>

UseBuffersPreview ==
  /\ Ready /\ session = "initialized" /\ mHandleComp
  /\ sem["mUsePreviewSem"] = 0
  /\ call' = [op |-> "UseBuffersPreview", x |-> "useIdle", at |-> "lock", ok |-> TRUE]
  /\ UNCHANGED <<adapterVars, mEventSignalQ, sem, comp, cmds, fatal>>

(* A component that is executing already only gets its buffers.            *)
startPreview ==
  /\ Ready /\ session = "loaded" /\ mHandleComp
  /\ call' = [op |-> "startPreview", x |-> "start", ok |-> sem["mStartPreviewSem"] = 0,
              at |-> IF sem["mStartPreviewSem"] # 0 THEN "fail"
                     ELSE IF mComponentState = StateIdle THEN "register" ELSE "queue"]
  /\ UNCHANGED <<adapterVars, mEventSignalQ, sem, comp, cmds, fatal>>

(* Mutant of stopLoadedPreview: mStateSwitchLock stays locked.             *)
stopLoadedPreviewKeepsLock ==
  /\ Quiet /\ session = "loaded"
  /\ session' = "initialized"
  /\ UNCHANGED <<mComponentState, mHandleComp, mStateSwitchLock, mCaptureConfigured,
                 metadata, mEventSignalQ, sem, call, comp, cmds, fatal>>

(* Something failed between UseBuffersPreview and startPreview.            *)
stopLoadedPreview ==
  /\ Quiet /\ session = "loaded"
  /\ session' = "initialized"
  /\ mStateSwitchLock' = FALSE
  /\ UNCHANGED <<mComponentState, mHandleComp, mCaptureConfigured, metadata,
                 mEventSignalQ, sem, call, comp, cmds, fatal>>

(* Otherwise, or when the semaphore is not clear, it returns NO_INIT.      *)
stopPreview ==
  /\ Ready /\ session = "preview"
  /\ mComponentState = Executing
  /\ sem["mStopPreviewSem"] = 0
  /\ Begin("stopPreview", "stop")
  /\ UNCHANGED <<adapterVars, mEventSignalQ, sem, comp, cmds, fatal>>

(* The image size has changed, or the picture comes from the preview: the  *)
(* image port, if it is in use, is disabled.                               *)
getPictureBufferSize ==
  /\ Ready /\ session = "preview" /\ mHandleComp
  /\ mCaptureConfigured
  /\ Begin("getPictureBufferSize", "stopImage")
  /\ mCaptureConfigured' = FALSE
  /\ UNCHANGED <<mComponentState, mHandleComp, mStateSwitchLock, metadata, session,
                 mEventSignalQ, sem, comp, cmds, fatal>>

UseBuffersCapture ==
  /\ Ready /\ session = "preview" /\ mHandleComp
  /\ sem["mUseCaptureSem"] = 0
  /\ ~mCaptureConfigured
  /\ Begin("UseBuffersCapture", "useImage")
  /\ UNCHANGED <<adapterVars, mEventSignalQ, sem, comp, cmds, fatal>>

(* ~OMXCameraAdapter                                                       *)
destructor ==
  /\ Quiet /\ session \in {"initialized", "preview"}
  /\ call' = [op |-> "destructor", x |-> "toIdle", at |-> "switch", ok |-> TRUE]
  /\ UNCHANGED <<adapterVars, mEventSignalQ, sem, comp, cmds, fatal>>

-----------------------------------------------------------------------------
(* An exchange                                                             *)

At(pc) == call.op # NONE /\ call.at = pc

(* UseBuffersPreview locks mStateSwitchLock and does not unlock it.        *)
LockStateSwitch ==
  /\ At("lock")
  /\ ~mStateSwitchLock
  /\ mStateSwitchLock' = TRUE
  /\ Go(IF mComponentState = Loaded THEN "useIdle" ELSE "useEnable")
  /\ UNCHANGED <<mComponentState, mHandleComp, mCaptureConfigured, metadata, session,
                 mEventSignalQ, sem, comp, cmds, fatal>>

RegisterForEvent ==
  /\ At("register")
  /\ mEventSignalQ' = Append(mEventSignalQ, Exchange[call.x])
  /\ call' = [call EXCEPT !.at = "send"]
  /\ UNCHANGED <<adapterVars, sem, comp, cmds, fatal>>

(* Exchanges whose OMX_SendCommand result is not looked at, and those that *)
(* make further OMX calls (SetParameter, UseBuffer, FreeBuffer) afterwards *)
(* which are.                                                              *)
Unchecked  == {"useEnable", "start", "stop", "stopImage"}
LaterCalls == {"useIdle", "useEnable", "useImage", "stop", "stopImage"}

(* OMX_SendCommand takes the command if "sent"; "ok" is the result of the  *)
(* calls that are looked at.  UseBuffersPreview counts the component as    *)
(* idle as soon as the command is sent.  UseBuffersPreview and             *)
(* UseBuffersCapture give the port new metadata buffers.                   *)
SendCommand(sent, ok) ==
  /\ At("send")
  /\ (sent /\ ok) \/ call.x \in Failures
  /\ ~sent /\ ok => call.x \in Unchecked
  /\ sent /\ ~ok => call.x \in LaterCalls
  /\ ~sent /\ ~ok => call.x # "start"
  /\ cmds' = IF sent THEN Append(cmds, <<Exchange[call.x].arg1, Exchange[call.x].arg2>>)
                     ELSE cmds
  /\ mComponentState' = IF call.x = "useIdle" /\ sent THEN StateIdle ELSE mComponentState
  /\ metadata' = IF ~ok THEN metadata
                 ELSE CASE call.x \in {"useIdle", "useEnable"} -> metadata \cup {Prev}
                        [] call.x = "useImage"                 -> metadata \cup {Image}
                        [] OTHER                               -> metadata
  /\ call' = [call EXCEPT !.at = IF ok THEN "wait" ELSE "fail", !.ok = ok]
  /\ UNCHANGED <<mHandleComp, mStateSwitchLock, mCaptureConfigured, session,
                 mEventSignalQ, sem, comp, fatal>>

(* Mutant of WaitSignalled: the count is not looked at.                    *)
WaitSignalledAtOnce ==
  /\ At("wait")
  /\ sem' = [sem EXCEPT ![Exchange[call.x].sem] = @ - 1]
  /\ call' = [call EXCEPT !.at = "check", !.ok = TRUE]
  /\ UNCHANGED <<adapterVars, mEventSignalQ, comp, cmds, fatal>>

(* Semaphore::WaitTimeout returns because of a signal ...                  *)
WaitSignalled ==
  /\ At("wait")
  /\ sem[Exchange[call.x].sem] > 0
  /\ sem' = [sem EXCEPT ![Exchange[call.x].sem] = @ - 1]
  /\ call' = [call EXCEPT !.at = "check", !.ok = TRUE]
  /\ UNCHANGED <<adapterVars, mEventSignalQ, comp, cmds, fatal>>

(* ... or because OMX_CMD_TIMEOUT is over, and then creates the semaphore  *)
(* anew with count 0: a signal in between is forgotten, one afterwards is  *)
(* not.                                                                    *)
WaitTimesOut ==
  /\ At("wait")
  /\ sem[Exchange[call.x].sem] = 0
  /\ call' = [call EXCEPT !.at = "reset"]
  /\ UNCHANGED <<adapterVars, mEventSignalQ, sem, comp, cmds, fatal>>

ResetSemaphore ==
  /\ At("reset")
  /\ sem' = [sem EXCEPT ![Exchange[call.x].sem] = 0]
  /\ call' = [call EXCEPT !.at = "check", !.ok = FALSE]
  /\ UNCHANGED <<adapterVars, mEventSignalQ, comp, cmds, fatal>>

(* The EXIT of initialize returns eError, which a timeout leaves at        *)
(* OMX_ErrorNone.                                                          *)
EErrorOnly == {"init"}

(* After the wait.  clearMetadataBufs comes before the result is looked    *)
(* at; initialize does not check for Invalid.                              *)
CheckWait ==
  /\ At("check")
  /\ metadata' = CASE call.x = "stop"      -> metadata \ {Prev}
                   [] call.x = "stopImage" -> metadata \ {Image}
                   [] OTHER                -> metadata
  /\ call' = IF mComponentState = Invalid /\ call.x # "init"
             THEN [call EXCEPT !.at = "fail"]
             ELSE [call EXCEPT !.at = IF call.ok THEN "done" ELSE "remove"]
  /\ UNCHANGED <<mComponentState, mHandleComp, mStateSwitchLock, mCaptureConfigured,
                 session, mEventSignalQ, sem, comp, cmds, fatal>>

(* UseBuffersPreview removes its registration only if mComponentState is   *)
(* still Loaded, otherwise it signals a port event.                        *)
Deregister ==
  /\ At("remove")
  /\ IF call.x \in {"useIdle", "useEnable"} /\ mComponentState # Loaded
     THEN SignalEvent(PortEnable, Prev)
     ELSE RemoveEvent(Exchange[call.x].arg1, Exchange[call.x].arg2)
  /\ call' = [call EXCEPT !.at = "fail", !.ok = call.x \in EErrorOnly]
  /\ UNCHANGED <<adapterVars, comp, cmds, fatal>>

(* switchToLoaded's result is not looked at.                               *)
Ignored == {"toIdle", "toLoaded", "toEnable"}

(* Mutant of ExchangeFails: switchToLoaded keeps the handle.               *)
ExchangeFailsKeepsHandle ==
  /\ At("fail")
  /\ IF (call.x = "stopImage" /\ (call.op # "stopPreview" \/ call.ok)) \/ call.x \in Ignored
     THEN UNCHANGED <<mComponentState, mHandleComp, comp, cmds>>
     ELSE performCleanupAfterError
  /\ mStateSwitchLock' = (mStateSwitchLock /\ call.x \notin {"useIdle", "useEnable", "start"})
  /\ IF call.x = "stopImage" /\ call.op = "stopPreview" /\ call.ok
     THEN call' = [call EXCEPT !.at = "switch"] /\ UNCHANGED session
     ELSE Return(call.ok \/ call.x \in Ignored)
  /\ UNCHANGED <<mCaptureConfigured, metadata, mEventSignalQ, sem, fatal>>

(* EXIT.  disableImagePort has no cleanup of its own; stopPreview does it  *)
(* when disableImagePort reports an error, and goes on otherwise.          *)
ExchangeFails ==
  /\ At("fail")
  /\ IF call.x = "stopImage" /\ (call.op # "stopPreview" \/ call.ok)
     THEN UNCHANGED <<mComponentState, mHandleComp, comp, cmds>>
     ELSE performCleanupAfterError
  /\ mStateSwitchLock' = (mStateSwitchLock /\ call.x \notin {"useIdle", "useEnable", "start"})
  /\ IF call.x = "stopImage" /\ call.op = "stopPreview" /\ call.ok
     THEN call' = [call EXCEPT !.at = "switch"] /\ UNCHANGED session
     ELSE Return(call.ok \/ call.x \in Ignored)
  /\ UNCHANGED <<mCaptureConfigured, metadata, mEventSignalQ, sem, fatal>>

(* Sensor selection and what else initialize does after the exchange.      *)
InitializeFails(ok) ==
  /\ At("done") /\ call.x = "init"
  /\ "init" \in Failures
  /\ call' = [call EXCEPT !.at = "fail", !.ok = ok]
  /\ UNCHANGED <<adapterVars, mEventSignalQ, sem, comp, cmds, fatal>>

ExchangeDone ==
  /\ At("done")
  /\ mComponentState' = CASE call.x \in {"init", "toLoaded"} -> Loaded
                          [] call.x = "start"                -> Executing
                          [] OTHER                           -> mComponentState
  /\ mCaptureConfigured' = CASE call.x = "useImage"         -> TRUE
                             [] call.x \in {"init", "stop"} -> FALSE
                             [] OTHER                       -> mCaptureConfigured
  /\ mEventSignalQ' = IF call.x = "init" THEN <<>> ELSE mEventSignalQ
  /\ CASE call.x = "start" -> call' = [call EXCEPT !.at = "queue"] /\ UNCHANGED session
       [] call.x = "stop" /\ mCaptureConfigured -> Go("stopImage") /\ UNCHANGED session
       [] \/ call.x = "stop" /\ ~mCaptureConfigured
          \/ call.x = "stopImage" /\ call.op = "stopPreview" ->
            call' = [call EXCEPT !.at = "switch"] /\ UNCHANGED session
       [] call.x = "toIdle"   -> Go("toLoaded") /\ UNCHANGED session
       [] call.x = "toLoaded" -> Go("toEnable") /\ UNCHANGED session
       [] OTHER               -> Return(TRUE)
  /\ UNCHANGED <<mHandleComp, mStateSwitchLock, metadata, sem, comp, cmds, fatal>>

(* The rest of startPreview queues the buffers, which may fail.            *)
QueueBuffers(ok) ==
  /\ At("queue")
  /\ ok \/ "start" \in Failures
  /\ mStateSwitchLock' = FALSE
  /\ IF ok THEN UNCHANGED <<mComponentState, mHandleComp, comp, cmds>>
           ELSE performCleanupAfterError
  /\ Return(ok)
  /\ UNCHANGED <<mCaptureConfigured, metadata, mEventSignalQ, sem, fatal>>

SwitchToLoaded ==
  /\ At("switch")
  /\ switchToLoaded
  /\ UNCHANGED <<mStateSwitchLock, mCaptureConfigured, metadata, mEventSignalQ, sem, fatal>>

(* The end of the destructor: the handle is freed only in these states.    *)
Destroy ==
  /\ At("destroy") /\ ~fatal
  /\ mHandleComp' = (mHandleComp /\ mComponentState \notin {Loaded, Invalid})
  /\ mComponentState' = Loaded
  /\ mEventSignalQ' = <<>>
  /\ sem' = [s \in Sems |-> 0]
  /\ mStateSwitchLock' = FALSE
  /\ mCaptureConfigured' = FALSE
  /\ metadata' = {}
  /\ session' = "closed"
  /\ call' = IdleCall
  /\ comp' = NoComponent
  /\ cmds' = <<>>
  /\ UNCHANGED fatal

HalStep ==
  \/ LockStateSwitch
  \/ RegisterForEvent \/ \E sent, ok \in BOOLEAN : SendCommand(sent, ok)
  \/ WaitSignalled \/ WaitTimesOut \/ ResetSemaphore \/ CheckWait \/ Deregister
  \/ ExchangeFails \/ ExchangeDone \/ SwitchToLoaded \/ Destroy
  \/ \E ok \in BOOLEAN : InitializeFails(ok) \/ QueueBuffers(ok)

-----------------------------------------------------------------------------
(* The component (external): commands are carried out in the order they    *)
(* were sent, each at any time.                                            *)

Answering == mHandleComp /\ comp.ok /\ cmds # <<>>

(* It carries out a command and posts OMX_EventCmdComplete.                *)
CompleteCommand ==
  /\ Answering
  /\ LET nData1 == Head(cmds)[1]
         nData2 == Head(cmds)[2]
     IN /\ comp' = CASE nData1 = StateSet    -> [comp EXCEPT !.state = nData2]
                     [] nData1 = PortEnable  -> [comp EXCEPT !.enabled = @ \cup {nData2}]
                     [] nData1 = PortDisable -> [comp EXCEPT !.enabled = @ \ {nData2}]
        /\ SignalEvent(nData1, nData2)
  /\ cmds' = Tail(cmds)
  /\ UNCHANGED <<adapterVars, call, fatal>>

(* It rejects a command: an OMX_EventError that matches no registration.   *)
RejectCommand ==
  /\ Answering
  /\ cmds' = Tail(cmds)
  /\ UNCHANGED <<adapterVars, mEventSignalQ, sem, call, comp, fatal>>

(* OMX_EventError with OMX_ErrorHardware, once CameraHal has set           *)
(* mErrorNotifier: Invalid first, without a lock ...                       *)
HardwareError ==
  /\ mHandleComp /\ comp.ok /\ session # "closed"
  /\ mComponentState # Invalid
  /\ mComponentState' = Invalid
  /\ comp' = [comp EXCEPT !.ok = FALSE]
  /\ fatal' = TRUE
  /\ UNCHANGED <<mHandleComp, mStateSwitchLock, mCaptureConfigured, metadata, session,
                 mEventSignalQ, sem, call, cmds>>

(* ... then every waiter is woken and the registrations are dropped.       *)
SignalAll ==
  /\ fatal
  /\ sem' = [s \in Sems |->
              sem[s] + Cardinality({i \in 1..Len(mEventSignalQ) : mEventSignalQ[i].sem = s})]
  /\ mEventSignalQ' = <<>>
  /\ fatal' = FALSE
  /\ UNCHANGED <<adapterVars, call, comp, cmds>>

Component == CompleteCommand \/ RejectCommand \/ HardwareError

Operation ==
  \/ initialize \/ UseBuffersPreview \/ startPreview \/ stopLoadedPreview \/ stopPreview
  \/ getPictureBufferSize \/ UseBuffersCapture \/ destructor

Next == Operation \/ HalStep \/ Component \/ SignalAll

Spec == Init /\ [][Next]_vars

(* The HAL's thread and the rest of the event handler run; the component   *)
(* need not answer, and nobody need call the adapter.                      *)
FairSpec == Spec /\ WF_vars(HalStep) /\ WF_vars(SignalAll)

-----------------------------------------------------------------------------
(* Properties                                                              *)

Calls ==
  [op : Operations \cup {NONE}, x : Exchanges, ok : BOOLEAN,
   at : {NONE, "lock", "register", "send", "wait", "reset", "check", "remove", "done",
         "fail", "queue", "switch", "destroy"}]

Components ==
  [state : {Loaded, StateIdle, Executing}, enabled : SUBSET Ports, ok : BOOLEAN]

Commands ==
  ({StateSet} \X {Loaded, StateIdle, Executing}) \cup ({PortDisable, PortEnable} \X Ports)

(* The variables stay in their types; the semaphores' counts do not fall   *)
(* below zero.                                                             *)
TypeOK ==
  /\ mComponentState \in {Invalid, Loaded, StateIdle, Executing}
  /\ mHandleComp \in BOOLEAN
  /\ mEventSignalQ \in Seq(Entries)
  /\ sem \in [Sems -> Nat]
  /\ mStateSwitchLock \in BOOLEAN
  /\ mCaptureConfigured \in BOOLEAN
  /\ metadata \subseteq Ports
  /\ session \in {"closed", "initialized", "loaded", "preview"}
  /\ call \in Calls
  /\ comp \in Components
  /\ cmds \in Seq(Commands)
  /\ fatal \in BOOLEAN

Healthy == Quiet /\ mHandleComp /\ comp.ok

(* A wait that was signalled means that the component has carried out the  *)
(* command the wait is for, although registrations match with wildcards    *)
(* (a StateSet, and port 0), earlier waits have timed out and their events *)
(* may come late.  The two port disables are excepted: a late event for    *)
(* the image port answers the wait for the preview port.                   *)
AnsweredMeansDone ==
  At("done") /\ comp.ok /\ call.x \notin {"stop", "stopImage"} =>
    LET e == Exchange[call.x]
    IN IF e.arg1 = StateSet THEN comp.state = e.arg2 ELSE e.arg2 \in comp.enabled

(* Between operations mComponentState is the component's state, although   *)
(* UseBuffersPreview assigns it before the component answers and           *)
(* switchToLoaded skips states: every failed state change has given up the *)
(* handle.                                                                 *)
StateAgrees == Healthy => mComponentState = comp.state

(* Back in Loaded, which stopPreview reaches through switchToLoaded, no    *)
(* command of an earlier session is still to be answered, whatever timed   *)
(* out before: the next session cannot be confused by a late event.        *)
LoadedIsQuiet == Healthy /\ mComponentState = Loaded => cmds = <<>>

(* The Count() checks of initialize, UseBuffersPreview, startPreview,      *)
(* stopPreview, UseBuffersCapture and switchToLoaded never refuse an       *)
(* operation because of a signal left over by an earlier one.              *)
SemaphoresClear ==
  Healthy => \A s \in Sems \ {"mStopCaptureSem"} : sem[s] = 0

(* The component never outlives the adapter whose callbacks it holds:      *)
(* however the session went, the destructor finds mComponentState Loaded   *)
(* or Invalid and frees the handle.                                        *)
HandleFreed == session = "closed" /\ Quiet => ~mHandleComp

(* Every operation returns, even if the component never answers again, and *)
(* mStateSwitchLock, which outlives UseBuffersPreview, blocks nobody.      *)
OperationsEnd == ~Quiet ~> Quiet

(* What the comment at clearMetadataBufs asks for: the preview's metadata  *)
(* buffers are not freed while the component still uses the preview port.  *)
MetadataOutlivesPort ==
  mHandleComp /\ comp.ok /\ comp.state = Executing /\ Prev \in comp.enabled =>
    Prev \in metadata
=============================================================================
