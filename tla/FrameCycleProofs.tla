--------------------------- MODULE FrameCycleProofs ---------------------------
(***************************************************************************)
(* The cycle of the preview buffers, for any buffers, subscribers and      *)
(* consumer threads: no reference is without an owner, and no buffer drops *)
(* out of the cycle while the preview runs.                                *)
(***************************************************************************)
EXTENDS CameraStreamHubProofs, FiniteSetTheorems

(* What the second result rests on.  The display subscribes before         *)
(* START_PREVIEW and stays until forceStopPreview (enableDisplay,          *)
(* disableDisplay), and the component delivers nothing before the state is *)
(* committed.                                                              *)
DisplayStays == <<DisplayCookie, PREVIEW>> \notin Toggled

Clearing == {"read", "clear", "check", "fill"}

(* clearRefCount holds the stream lock over all buffers, sendFrame at each *)
(* increment.                                                              *)
LockInv ==
  /\ hal.pc \in Clearing => mLock = "hal"
  /\ omx.pc = "inc" => mLock = "omx"

(* The OMX callback thread calls returnFrame only within a callback.       *)
CallInv == ret["omx"].pc # "idle" => omx.pc = "relock"

(* The flags of the adapter and the registered buffers follow the session. *)
SessionInv ==
  /\ hal.pc # "idle" => hal.session = "preview"
  /\ previewActive <=> hal.session \in {"preview", "stopping", "disabled"}
  /\ mPortEnable <=> hal.session \in {"queued", "preview", "stopping"}
  /\ hal.session \notin {"init", "stopped"} => mStreamBuffers = Buffers
  /\ DisplayCookie \in mSubscribers[PREVIEW]

(* Before START_PREVIEW is committed no frame moves: the display has no    *)
(* message that would make it give back a buffer.                          *)
Starting == {"init", "loaded", "starting", "queued"}

StartInv ==
  hal.session \in Starting =>
    /\ omx.pc = "idle"
    /\ \A th \in Threads : ret[th].pc = "idle"
    /\ mDisplayQ = 0
    /\ \A l \in Links, b \in Buffers : l[1] # DisplayCookie => held[<<l, b>>] = 0
    /\ hal.session # "init" => \A b \in Buffers \ Queueable : mRefCountSum[b] > 0
    /\ hal.session = "queued" => Queueable \subseteq withOMX

(* The sum clearRefCount has read without the buffer's lock is stale only  *)
(* by references returned since.                                           *)
ClearInv ==
  hal.pc = "clear" =>
    \A b \in Buffers : Least(b, hal.todo) => mRefCountSum[b] <= hal.oldSum

Settled(b) == b \in withOMX \cup dropped \/ mRefCountSum[b] > 0 \/ AboutToFill(b)

(* The buffer is dispatched and the display has not got it yet.            *)
Unsent(b) ==
  /\ omx.pc # "idle" /\ omx.buf = b
  /\ PREVIEW \in omx.types
  /\ omx.pc \in {"inc", "relock"} => DisplayCookie \in omx.todo

Cycle ==
  hal.session \in {"preview", "stopping"} /\ mHandleComp =>
    \A b \in Buffers : Settled(b) \/ Unsent(b)

CycleInv == LockInv /\ CallInv /\ SessionInv /\ StartInv /\ ClearInv /\ Cycle

-----------------------------------------------------------------------------
(* Which thread changes what                                               *)

HalStep == HalSession \/ HalClear \/ HalCall
OmxStep == (\E b \in Buffers : FillBufferDone(b)) \/ Dispatch
ReturnStep ==
  \/ \E th \in Threads, l \in Links, b \in Buffers : BeginReturn(th, l, b)
  \/ \E th \in Threads : Return(th)

LEMMA Threefold == [Next]_vars => HalStep \/ OmxStep \/ ReturnStep \/ UNCHANGED vars
  BY DEF Next, HalStep, OmxStep, ReturnStep, Finished

LEMMA DispatchBusy == Dispatch => omx.pc # "idle"
<1>1. SendDone => omx.pc # "idle"
  BY DEF SendDone
<1>2. ASSUME NEW t \in FrameTypes, SendLockType(t) \/ SendLockStream(t) \/ SendRelock(t)
      PROVE  omx.pc # "idle"
  BY <1>2 DEF SendLockType, SendLockStream, SendRelock
<1>3. ASSUME NEW c \in Cookies, NEW t \in FrameTypes, SendToSubscriber(c, t) PROVE omx.pc # "idle"
  BY <1>3 DEF SendToSubscriber
<1> QED BY <1>1, <1>2, <1>3 DEF Dispatch

LEMMA DispatchFrame ==
  Dispatch => UNCHANGED <<hal, mStreamBuffers, mSubscribers, mReturnFrameLock, adapterVars, omxVars>>
<1> DEFINE F == UNCHANGED <<hal, mStreamBuffers, mSubscribers, mReturnFrameLock, adapterVars, omxVars>>
<1>1. SendDone => F
  BY DEF SendDone
<1>2. ASSUME NEW t \in FrameTypes, SendLockType(t) PROVE F
  BY <1>2 DEF SendLockType
<1>3. ASSUME NEW t \in FrameTypes, SendLockStream(t) PROVE F
  BY <1>3 DEF SendLockStream
<1>4. ASSUME NEW t \in FrameTypes, SendRelock(t) PROVE F
  BY <1>4 DEF SendRelock
<1>5. ASSUME NEW c \in Cookies, NEW t \in FrameTypes, SendToSubscriber(c, t) PROVE F
  BY <1>5 DEF SendToSubscriber
<1> QED BY <1>1, <1>2, <1>3, <1>4, <1>5 DEF Dispatch

LEMMA ClearFrame ==
  HalClear => UNCHANGED <<mStreamBuffers, mSubscribers, adapterVars, omx, ret, mReturnFrameLock, mDisplayQ>>
<1> DEFINE F == UNCHANGED <<mStreamBuffers, mSubscribers, adapterVars, omx, ret, mReturnFrameLock, mDisplayQ>>
<1> USE DEF heldVars
<1>1. startRecording => F
  BY DEF startRecording
<1>2. ClearLockStream => F
  BY DEF ClearLockStream
<1>3. ClearDone => F
  BY DEF ClearDone
<1>4. ASSUME NEW b \in Buffers, ClearReadOldSum(b) PROVE F
  BY <1>4 DEF ClearReadOldSum
<1>5. ASSUME NEW b \in Buffers, ClearCounts(b) PROVE F
  BY <1>5 DEF ClearCounts
<1>6. ASSUME NEW b \in Buffers, ClearCheck(b) PROVE F
  BY <1>6 DEF ClearCheck
<1>7. ASSUME NEW b \in Buffers, ClearFill(b) PROVE F
  BY <1>7 DEF ClearFill
<1> QED BY <1>1, <1>2, <1>3, <1>4, <1>5, <1>6, <1>7 DEF HalClear

CallFrame ==
  UNCHANGED <<mStreamBuffers, refVars, mLock, mReturnFrameLock, previewActive, nextPreviewActive,
              mPortEnable, omxVars, held, mDisplayQ, omx, ret>>

LEMMA HalCallFrame == HalCall => CallFrame
<1> USE DEF heldVars, adapterVars, CallFrame
<1>1. ASSUME NEW t \in FrameTypes, startVideoCapture(t) PROVE CallFrame
  BY <1>1 DEF startVideoCapture
<1>2. ASSUME NEW t \in FrameTypes, stopVideoCapture(t) PROVE CallFrame
  BY <1>2 DEF stopVideoCapture
<1>3. ASSUME NEW c \in Cookies, NEW t \in FrameTypes, subscribe(c, t) PROVE CallFrame
  BY <1>3 DEF subscribe
<1>4. ASSUME NEW c \in Cookies, NEW t \in FrameTypes, unsubscribe(c, t) PROVE CallFrame
  BY <1>4 DEF unsubscribe
<1> HIDE DEF CallFrame
<1> QED BY <1>1, <1>2, <1>3, <1>4 DEF HalCall

LEMMA HalCallHandle == HalCall => mHandleComp' = mHandleComp
<1>1. HalCall => UNCHANGED omxVars
  BY HalCallFrame DEF CallFrame
<1>2. UNCHANGED omxVars => mHandleComp' = mHandleComp
  BY DEF omxVars
<1> QED BY <1>1, <1>2

LEMMA HalCallSession ==
  ASSUME TypeOK, HalCall
  PROVE  /\ hal'.session = hal.session /\ hal.session = "preview"
         /\ hal.pc = "idle" /\ hal'.pc \notin Clearing
<1>1. hal \in HalThread
  BY DEF TypeOK
<1> DEFINE P == /\ hal'.session = hal.session /\ hal.session = "preview"
                /\ hal.pc = "idle" /\ hal'.pc \notin Clearing
<1>2. ASSUME NEW t \in FrameTypes, startVideoCapture(t) \/ stopVideoCapture(t) PROVE P
  BY <1>2 DEF startVideoCapture, stopVideoCapture, HalIdle, Clearing
<1>3. ASSUME NEW c \in Cookies, NEW t \in FrameTypes, subscribe(c, t) PROVE P
  <2>1. HalIdle("preview") /\ (hal' = hal \/ hal' = [hal EXCEPT !.pc = "flush"])
    BY <1>3 DEF subscribe
  <2> QED BY <1>1, <2>1 DEF HalIdle, HalThread, Clearing
<1>4. ASSUME NEW c \in Cookies, NEW t \in FrameTypes, unsubscribe(c, t) PROVE P
  <2>1. HalIdle("preview") /\ (hal' = hal \/ hal' = [hal EXCEPT !.pc = "stream", !.type = t])
    BY <1>4 DEF unsubscribe
  <2> QED BY <1>1, <2>1 DEF HalIdle, HalThread, Clearing
<1> QED BY <1>2, <1>3, <1>4 DEF HalCall

LEMMA OmxFrame ==
  OmxStep => UNCHANGED <<hal, mStreamBuffers, mSubscribers, mReturnFrameLock, adapterVars>>
<1> USE DEF refVars, heldVars, adapterVars, omxVars
<1>1. ASSUME NEW b \in Buffers, FillBufferDone(b)
      PROVE  UNCHANGED <<hal, mStreamBuffers, mSubscribers, mReturnFrameLock, adapterVars>>
  BY <1>1 DEF FillBufferDone
<1>2. ASSUME Dispatch
      PROVE  UNCHANGED <<hal, mStreamBuffers, mSubscribers, mReturnFrameLock, adapterVars>>
  BY <1>2, DispatchFrame
<1> QED BY <1>1, <1>2 DEF OmxStep

LEMMA ReturnFrame ==
  ReturnStep => UNCHANGED <<hal, omx, mStreamBuffers, mSubscribers, mLock, mLocks, adapterVars>>
<1> USE DEF refVars, heldVars, adapterVars, omxVars
<1>1. ASSUME NEW th \in Threads, NEW l \in Links, NEW b \in Buffers, BeginReturn(th, l, b)
      PROVE  UNCHANGED <<hal, omx, mStreamBuffers, mSubscribers, mLock, mLocks, adapterVars>>
  BY <1>1 DEF BeginReturn
<1>2. ASSUME NEW th \in Threads, Return(th)
      PROVE  UNCHANGED <<hal, omx, mStreamBuffers, mSubscribers, mLock, mLocks, adapterVars>>
  BY <1>2 DEF Return, ReturnLock, getStreamBuffer, ReturnDec, ReturnFill
<1> QED BY <1>1, <1>2 DEF ReturnStep

LEMMA HalFrame == HalStep => UNCHANGED <<omx, ret, mReturnFrameLock, mDisplayQ>>
<1> USE DEF refVars, heldVars, adapterVars, omxVars
<1>1. HalSession => UNCHANGED <<omx, ret, mReturnFrameLock, mDisplayQ>>
  BY DEF HalSession, UseBuffersPreview, StartPreviewSetState, startPreview, StartPreviewCommit,
         StopPreviewSetState, stopPreview, StopPreviewRefused, StopPreviewCommit
<1>2. HalClear => UNCHANGED <<omx, ret, mReturnFrameLock, mDisplayQ>>
  BY ClearFrame
<1>3. HalCall => UNCHANGED <<omx, ret, mReturnFrameLock, mDisplayQ>>
  BY HalCallFrame DEF CallFrame
<1> QED BY <1>1, <1>2, <1>3 DEF HalStep

LEMMA ClearKeepsSession ==
  ASSUME TypeOK, HalClear
  PROVE  hal'.session = hal.session /\ hal.pc # "idle"
<1>1. hal \in HalThread
  BY DEF TypeOK
<1>2. CASE startRecording \/ ClearLockStream \/ ClearDone
  <2>1. ClearLockStream => hal'.session = hal.session
    BY <1>1 DEF ClearLockStream, HalThread
  <2>2. ClearDone => hal'.session = hal.session
    BY <1>1 DEF ClearDone, IdleHal
  <2>4. startRecording => hal'.session = hal.session
    BY <1>1 DEF startRecording, HalThread
  <2>3. hal.pc # "idle"
    BY <1>2 DEF startRecording, ClearLockStream, ClearDone
  <2> QED BY <1>2, <2>1, <2>2, <2>3, <2>4
<1>3. ASSUME NEW b \in Buffers, ClearReadOldSum(b) \/ ClearCounts(b) \/ ClearFill(b)
      PROVE  hal'.session = hal.session /\ hal.pc # "idle"
  BY <1>1, <1>3 DEF ClearReadOldSum, ClearCounts, ClearFill, HalThread
<1>4. ASSUME NEW b \in Buffers, ClearCheck(b)
      PROVE  hal'.session = hal.session /\ hal.pc # "idle"
  <2>1. \/ hal' = [hal EXCEPT !.pc = "fill", !.oldSum = 0]
        \/ hal' = [hal EXCEPT !.pc = "read", !.todo = @ \ {b}, !.oldSum = 0]
    BY <1>4 DEF ClearCheck
  <2> QED BY <1>1, <1>4, <2>1 DEF ClearCheck, HalThread
<1> QED BY <1>2, <1>3, <1>4 DEF HalClear

-----------------------------------------------------------------------------
(* The session and the locks                                               *)

LEMMA NextSession ==
  ASSUME DisplayStays, TypeOK, SessionInv, [Next]_vars
  PROVE  SessionInv'
<1> USE DEF refVars, heldVars, adapterVars, omxVars
<1>1. hal \in HalThread /\ mSubscribers \in [FrameTypes -> SUBSET Cookies] /\ PREVIEW \in FrameTypes
  BY DEF TypeOK, PREVIEW, FrameTypes
<1>2. CASE HalSession
  <2>1. mSubscribers' = mSubscribers
    BY <1>2 DEF HalSession, UseBuffersPreview, StartPreviewSetState, startPreview,
                StartPreviewCommit, StopPreviewSetState, stopPreview, StopPreviewRefused, StopPreviewCommit
  <2>2. CASE UseBuffersPreview
    BY <1>1, <2>1, <2>2 DEF UseBuffersPreview, HalIdle, SessionInv, HalThread
  <2>3. CASE StartPreviewSetState
    BY <1>1, <2>1, <2>3 DEF StartPreviewSetState, HalIdle, SessionInv, HalThread
  <2>4. CASE startPreview
    BY <1>1, <2>1, <2>4 DEF startPreview, HalIdle, SessionInv, HalThread
  <2>5. CASE StartPreviewCommit
    BY <1>1, <2>1, <2>5 DEF StartPreviewCommit, HalIdle, SessionInv, HalThread
  <2>6. CASE StopPreviewSetState
    BY <1>1, <2>1, <2>6 DEF StopPreviewSetState, HalIdle, SessionInv, HalThread
  <2>7. CASE stopPreview
    BY <1>1, <2>1, <2>7 DEF stopPreview, HalIdle, SessionInv, HalThread
  <2>8. CASE StopPreviewCommit
    BY <1>1, <2>1, <2>8 DEF StopPreviewCommit, HalIdle, SessionInv, HalThread
  <2>9. CASE StopPreviewRefused
    BY <1>1, <2>1, <2>9 DEF StopPreviewRefused, HalIdle, SessionInv, HalThread
  <2> QED BY <1>2, <2>2, <2>3, <2>4, <2>5, <2>6, <2>7, <2>8, <2>9 DEF HalSession
<1>3. CASE HalClear
  <2>1. UNCHANGED <<adapterVars, mStreamBuffers, mSubscribers>>
    BY <1>3, ClearFrame
  <2>2. hal'.session = hal.session /\ hal.pc # "idle"
    BY <1>3, ClearKeepsSession
  <2> QED BY <2>1, <2>2 DEF SessionInv
<1>4. CASE HalCall
  <2>1. UNCHANGED <<previewActive, mPortEnable, mStreamBuffers>>
    BY <1>4, HalCallFrame DEF CallFrame
  <2>2. hal'.session = hal.session /\ hal.session = "preview"
    BY <1>4, HalCallSession
  <2>3. DisplayCookie \in mSubscribers'[PREVIEW]
    <3>1. ASSUME NEW t \in FrameTypes, startVideoCapture(t) \/ stopVideoCapture(t)
          PROVE  mSubscribers' = mSubscribers
      BY <3>1 DEF startVideoCapture, stopVideoCapture
    <3>2. ASSUME NEW c \in Cookies, NEW t \in FrameTypes, subscribe(c, t)
          PROVE  mSubscribers[PREVIEW] \subseteq mSubscribers'[PREVIEW]
      BY <1>1, <3>2 DEF subscribe
    <3>3. ASSUME NEW c \in Cookies, NEW t \in FrameTypes, unsubscribe(c, t)
          PROVE  DisplayCookie \in mSubscribers'[PREVIEW]
      BY <1>1, <3>3 DEF unsubscribe, SessionInv, DisplayStays
    <3> QED BY <1>4, <3>1, <3>2, <3>3 DEF HalCall, SessionInv
  <2> QED BY <2>1, <2>2, <2>3 DEF SessionInv
<1>5. CASE OmxStep \/ ReturnStep \/ UNCHANGED vars
  <2>1. UNCHANGED <<hal, adapterVars, mStreamBuffers, mSubscribers>>
    BY <1>5, OmxFrame, ReturnFrame DEF vars
  <2> QED BY <2>1 DEF SessionInv
<1> QED BY <1>2, <1>3, <1>4, <1>5, Threefold DEF HalStep

LEMMA NextLock ==
  ASSUME TypeOK, LockInv, SessionInv, [Next]_vars
  PROVE  LockInv'
<1> USE DEF refVars, heldVars, adapterVars, omxVars
<1>1. hal \in HalThread /\ omx \in OMXThread
  BY DEF TypeOK
<1>2. CASE HalSession \/ HalCall
  <2>1. hal'.pc \notin Clearing /\ UNCHANGED <<mLock, omx>>
    <3>1. HalCall => hal'.pc \notin Clearing /\ UNCHANGED <<mLock, omx>>
      BY HalCallSession, HalCallFrame DEF CallFrame
    <3>2. HalSession => hal'.pc \notin Clearing /\ UNCHANGED <<mLock, omx>>
      BY <1>1 DEF HalSession, UseBuffersPreview, StartPreviewSetState, startPreview,
                  StartPreviewCommit, StopPreviewSetState, stopPreview, StopPreviewRefused,
                  StopPreviewCommit, HalIdle, HalThread, Clearing
    <3> QED BY <1>2, <3>1, <3>2
  <2> QED BY <2>1 DEF LockInv
<1>3. CASE HalClear
  <2>1. omx' = omx
    BY <1>3, HalFrame DEF HalStep
  <2>2. CASE ClearLockStream
    BY <1>1, <2>1, <2>2 DEF ClearLockStream, LockInv, HalThread, NONE
  <2>3. CASE startRecording \/ ClearDone
    BY <1>1, <2>1, <2>3 DEF startRecording, ClearDone, LockInv, HalThread, IdleHal, Clearing
  <2>4. CASE \E b \in Buffers : \/ ClearReadOldSum(b) \/ ClearCounts(b)
                                \/ ClearCheck(b) \/ ClearFill(b)
    <3>1. hal.pc \in Clearing /\ mLock' = mLock
      BY <2>4 DEF ClearReadOldSum, ClearCounts, ClearCheck, ClearFill, Clearing
    <3> QED BY <2>1, <3>1 DEF LockInv
  <2> QED BY <1>3, <2>2, <2>3, <2>4 DEF HalClear
<1>4. CASE OmxStep
  <2>1. hal' = hal
    BY <1>4, OmxFrame
  <2>2. ASSUME NEW b \in Buffers, FillBufferDone(b) PROVE LockInv'
    <3>1. omx'.pc \in {"idle", "type"} /\ mLock' = mLock
      BY <1>1, <2>2 DEF FillBufferDone, StartDispatch, DropIncomplete, OMXThread
    <3> QED BY <2>1, <3>1 DEF LockInv
  <2>3. CASE SendDone
    BY <1>1, <2>1, <2>3 DEF SendDone, IdleOMX, LockInv
  <2>4. ASSUME NEW t \in FrameTypes, SendLockType(t) PROVE LockInv'
    <3>1. omx'.pc \in {"type", "stream"} /\ mLock' = mLock
      BY <1>1, <2>4 DEF SendLockType, OMXThread
    <3> QED BY <2>1, <3>1 DEF LockInv
  <2>5. ASSUME NEW t \in FrameTypes, SendLockStream(t) \/ SendRelock(t) PROVE LockInv'
    <3>1. hal.pc \notin Clearing
      BY <2>5 DEF SendLockStream, SendRelock, LockInv, NONE
    <3>2. omx'.pc = "inc" => mLock' = "omx"
      BY <1>1, <2>5 DEF SendLockStream, SendRelock, OMXThread
    <3> QED BY <2>1, <3>1, <3>2 DEF LockInv
  <2>6. ASSUME NEW c \in Cookies, NEW t \in FrameTypes, SendToSubscriber(c, t) PROVE LockInv'
    <3>1. omx.pc = "inc" /\ omx'.pc = "relock"
      BY <1>1, <2>6 DEF SendToSubscriber, OMXThread
    <3> QED BY <2>1, <3>1 DEF LockInv
  <2> QED BY <1>4, <2>2, <2>3, <2>4, <2>5, <2>6 DEF OmxStep, Dispatch
<1>5. CASE ReturnStep \/ UNCHANGED vars
  BY <1>5, ReturnFrame DEF vars, LockInv
<1> QED BY <1>2, <1>3, <1>4, <1>5, Threefold DEF HalStep

LEMMA NextCall ==
  ASSUME TypeOK, CallInv, [Next]_vars
  PROVE  CallInv'
<1> USE DEF refVars, heldVars, adapterVars, omxVars
<1>1. omx \in OMXThread /\ ret \in [Threads -> ReturnCall] /\ "omx" \in Threads
  BY DEF TypeOK, Threads
<1>2. CASE HalStep \/ UNCHANGED vars
  BY <1>2, HalFrame DEF CallInv, vars
<1>3. CASE OmxStep
  <2>1. ASSUME omx.pc # "relock", ret' = ret PROVE CallInv'
    BY <2>1 DEF CallInv
  <2>2. ASSUME NEW b \in Buffers, FillBufferDone(b) PROVE CallInv'
    BY <2>1, <2>2 DEF FillBufferDone
  <2>3. CASE SendDone
    BY <2>1, <2>3 DEF SendDone
  <2>4. ASSUME NEW t \in FrameTypes, SendLockType(t) \/ SendLockStream(t) PROVE CallInv'
    BY <2>1, <2>4 DEF SendLockType, SendLockStream
  <2>5. ASSUME NEW t \in FrameTypes, SendRelock(t) PROVE CallInv'
    BY <2>5 DEF SendRelock, CallInv
  <2>6. ASSUME NEW c \in Cookies, NEW t \in FrameTypes, SendToSubscriber(c, t) PROVE CallInv'
    BY <1>1, <2>6 DEF SendToSubscriber, OMXThread, CallInv
  <2> QED BY <1>3, <2>2, <2>3, <2>4, <2>5, <2>6 DEF OmxStep, Dispatch
<1>4. CASE ReturnStep
  <2>1. omx' = omx
    BY <1>4, ReturnFrame
  <2>2. ret'["omx"].pc # "idle" => ret["omx"].pc # "idle"
    <3>1. ASSUME NEW th \in Threads, NEW l \in Links, NEW b \in Buffers, BeginReturn(th, l, b)
          PROVE  ret'["omx"] = ret["omx"]
      BY <1>1, <3>1, HubAssumption DEF BeginReturn
    <3>2. ASSUME NEW th \in Threads, Return(th)
          PROVE  ret[th].pc # "idle" /\ (th # "omx" => ret'["omx"] = ret["omx"])
      BY <1>1, <3>2 DEF Return, ReturnLock, getStreamBuffer, ReturnDec, ReturnFill, EndReturn
    <3> QED BY <1>4, <3>1, <3>2 DEF ReturnStep
  <2> QED BY <2>1, <2>2 DEF CallInv
<1> QED BY <1>2, <1>3, <1>4, Threefold

LEMMA NextStart ==
  ASSUME ~EarlyFrames, TypeOK, SessionInv, StartInv, [Next]_vars
  PROVE  StartInv'
<1> USE DEF refVars, heldVars, adapterVars, omxVars
<1>1. hal \in HalThread /\ held \in [Links \X Buffers -> Nat]
  BY DEF TypeOK
<1>2. CASE HalSession
  <2>1. UNCHANGED <<omx, ret, mDisplayQ>>
    BY <1>2, HalFrame DEF HalStep
  <2>2. CASE UseBuffersPreview
    <3>1. hal.session = "init" /\ hal'.session = "loaded"
      BY <1>1, <2>2 DEF UseBuffersPreview, HalIdle, HalThread
    <3>2. \A b \in Buffers \ Queueable : mRefCountSum'[b] = 1
      BY <2>2 DEF UseBuffersPreview
    <3>3. ASSUME NEW l \in Links, NEW b \in Buffers, l[1] # DisplayCookie
          PROVE  held'[<<l, b>>] = 0
      <4>1. <<l, b>> \in Links \X Buffers /\ <<l, b>>[1] # <<DisplayCookie, PREVIEW>>
        BY <3>3
      <4>2. held'[<<l, b>>] = held[<<l, b>>]
        BY <2>2, <4>1 DEF UseBuffersPreview
      <4> QED BY <3>1, <3>3, <4>2 DEF StartInv, Starting
    <3> QED BY <2>1, <3>1, <3>2, <3>3 DEF StartInv, Starting
  <2>3. CASE StartPreviewSetState
    BY <1>1, <2>1, <2>3 DEF StartPreviewSetState, HalIdle, HalThread, StartInv, Starting
  <2>4. CASE startPreview
    BY <1>1, <2>1, <2>4 DEF startPreview, HalIdle, HalThread, StartInv, Starting
  <2>5. CASE StartPreviewCommit \/ StopPreviewSetState \/ stopPreview
             \/ StopPreviewRefused \/ StopPreviewCommit
    <3>1. hal'.session \in {"preview", "stopping", "disabled", "stopped"}
      BY <1>1, <2>5 DEF StartPreviewCommit, StopPreviewSetState, stopPreview, StopPreviewRefused, StopPreviewCommit,
                        HalIdle, HalThread
    <3> QED BY <3>1 DEF StartInv, Starting
  <2> QED BY <1>2, <2>2, <2>3, <2>4, <2>5 DEF HalSession
<1>3. CASE HalClear \/ HalCall
  <2>1. hal.session = "preview" /\ hal'.session = hal.session
    <3>1. CASE HalClear
      BY <3>1, ClearKeepsSession DEF SessionInv
    <3>2. CASE HalCall
      BY <3>2, HalCallSession
    <3> QED BY <1>3, <3>1, <3>2
  <2> QED BY <2>1 DEF StartInv, Starting
<1>4. CASE OmxStep
  <2>1. hal' = hal
    BY <1>4, OmxFrame
  <2>2. hal.session \notin Starting
    <3>1. ASSUME NEW b \in Buffers, FillBufferDone(b) PROVE hal.session \notin Starting
      BY <3>1 DEF FillBufferDone, SessionInv, Starting
    <3>2. ASSUME Dispatch PROVE omx.pc # "idle"
      BY <3>2, DispatchBusy
    <3> QED BY <1>4, <3>1, <3>2 DEF OmxStep, StartInv
  <2> QED BY <2>1, <2>2 DEF StartInv
<1>5. CASE ReturnStep
  <2>1. hal' = hal
    BY <1>5, ReturnFrame
  <2>2. hal.session \notin Starting
    <3>1. ASSUME NEW th \in Threads, NEW l \in Links, NEW b \in Buffers, BeginReturn(th, l, b)
          PROVE  hal.session \notin Starting
      BY <3>1 DEF BeginReturn, StartInv
    <3>2. ASSUME NEW th \in Threads, Return(th) PROVE ret[th].pc # "idle"
      BY <3>2 DEF Return, ReturnLock, getStreamBuffer, ReturnDec, ReturnFill
    <3> QED BY <1>5, <3>1, <3>2 DEF ReturnStep, StartInv
  <2> QED BY <2>1, <2>2 DEF StartInv
<1>6. CASE UNCHANGED vars
  BY <1>6 DEF vars, StartInv
<1> QED BY <1>2, <1>3, <1>4, <1>5, <1>6, Threefold DEF HalStep

-----------------------------------------------------------------------------
(* The buffers                                                             *)

LEMMA LeastUnique ==
  ASSUME NEW S \in SUBSET Int, NEW x, NEW y, Least(x, S), Least(y, S)
  PROVE  x = y
  BY DEF Least

(* A return lowers the sum by at most one, and calls fillThisBuffer next   *)
(* when it was the last reference.                                         *)
LEMMA ReturnDecSum ==
  ASSUME RefInv, NEW th \in Threads, ReturnDec(th), NEW b \in Buffers
  PROVE  /\ mRefCountSum'[b] \in Nat
         /\ mRefCountSum'[b] <= mRefCountSum[b]
         /\ mRefCountSum[b] > 0 =>
              mRefCountSum'[b] > 0 \/ (ret'[th].pc = "fill" /\ ret'[th].buf = b)
<1>1. /\ mRefCount \in [Buffers -> [FrameTypes -> Nat]] /\ mRefCountSum \in [Buffers -> Nat]
      /\ ret \in [Threads -> ReturnCall]
  BY DEF RefInv, TypeOK
<1>2. PICK x \in Buffers, t \in FrameTypes : x = ret[th].buf /\ t = ret[th].type
  BY <1>1 DEF ReturnCall
<1>3. CASE ~(mRefCount[x][t] > 0)
  BY <1>1, <1>2, <1>3 DEF ReturnDec, decRefCount, refVars
<1>4. CASE mRefCount[x][t] > 0
  <2>1. mRefCountSum' = [mRefCountSum EXCEPT ![x] = @ - 1]
    BY <1>2, <1>4 DEF ReturnDec, decRefCount
  <2>2. mRefCount[x][t] <= mRefCountSum[x] /\ mRefCount[x][t] \in Nat /\ mRefCountSum[x] \in Nat
    BY <1>1, TotalOfNaturals DEF RefInv, SumIsTotal
  <2>3. CASE b # x
    BY <1>1, <2>1, <2>3
  <2>4. CASE b = x /\ mRefCountSum[x] # 1
    <3>1. mRefCountSum'[b] = mRefCountSum[b] - 1
      BY <1>1, <2>1, <2>4
    <3>2. mRefCountSum[b] \in Nat /\ mRefCountSum[b] > 1
      BY <1>4, <2>2, <2>4
    <3> QED BY <3>1, <3>2
  <2>5. CASE b = x /\ mRefCountSum[x] = 1
    <3>1. ret' = [ret EXCEPT ![th].pc = "fill"]
      BY <1>2, <1>4, <2>5 DEF ReturnDec, LastRef
    <3>2. ret'[th].pc = "fill" /\ ret'[th].buf = b
      BY <1>1, <1>2, <2>5, <3>1 DEF ReturnCall
    <3>3. mRefCountSum'[b] = 0
      BY <1>1, <2>1, <2>5
    <3> QED BY <2>5, <3>2, <3>3
  <2> QED BY <2>3, <2>4, <2>5
<1> QED BY <1>3, <1>4

LEMMA ReturnSum ==
  ASSUME RefInv, ReturnStep, NEW b \in Buffers
  PROVE  mRefCountSum'[b] <= mRefCountSum[b]
<1> USE DEF refVars, heldVars, adapterVars, omxVars
<1>1. mRefCountSum[b] \in Nat
  BY DEF RefInv, TypeOK
<1>2. ASSUME NEW th \in Threads, ReturnDec(th) PROVE mRefCountSum'[b] <= mRefCountSum[b]
  BY <1>2, ReturnDecSum
<1>3. ASSUME mRefCountSum' = mRefCountSum PROVE mRefCountSum'[b] <= mRefCountSum[b]
  BY <1>1, <1>3
<1>4. ASSUME NEW th \in Threads, NEW l \in Links, NEW x \in Buffers, BeginReturn(th, l, x)
      PROVE  mRefCountSum' = mRefCountSum
  BY <1>4 DEF BeginReturn
<1>5. ASSUME NEW th \in Threads, ReturnLock(th) \/ getStreamBuffer(th) \/ ReturnFill(th)
      PROVE  mRefCountSum' = mRefCountSum
  BY <1>5 DEF ReturnLock, getStreamBuffer, ReturnFill
<1> QED BY <1>2, <1>3, <1>4, <1>5 DEF ReturnStep, Return

(* While clearRefCount is between its read and the buffer's lock, nobody   *)
(* adds a reference: that needs the stream lock.                           *)
LEMMA NextClear ==
  ASSUME RefInv, LockInv, SessionInv, ClearInv, [Next]_vars
  PROVE  ClearInv'
<1> USE DEF refVars, heldVars, adapterVars, omxVars
<1>1. /\ hal \in HalThread /\ omx \in OMXThread /\ mRefCountSum \in [Buffers -> Nat]
      /\ Buffers \subseteq Int
  BY HubAssumption DEF RefInv, TypeOK
<1>2. CASE HalSession \/ HalCall
  <2>1. hal'.pc # "clear"
    <3>1. HalSession => hal'.pc # "clear"
      BY <1>1 DEF HalSession, UseBuffersPreview, StartPreviewSetState, startPreview,
                  StartPreviewCommit, StopPreviewSetState, stopPreview, StopPreviewRefused,
                  StopPreviewCommit, HalIdle, HalThread
    <3>2. HalCall => hal'.pc # "clear"
      BY HalCallSession DEF RefInv, Clearing
    <3> QED BY <1>2, <3>1, <3>2
  <2> QED BY <2>1 DEF ClearInv
<1>3. CASE HalClear
  <2>1. CASE ClearLockStream
    BY <1>1, <2>1 DEF ClearLockStream, HalThread, ClearInv
  <2>2. CASE startRecording \/ ClearDone
    BY <1>1, <2>2 DEF startRecording, ClearDone, HalThread, IdleHal, ClearInv
  <2>3. ASSUME NEW b \in Buffers, ClearReadOldSum(b) PROVE ClearInv'
    <3>1. hal'.todo = hal.todo /\ hal'.oldSum = mRefCountSum[b] /\ mRefCountSum' = mRefCountSum
      BY <1>1, <2>3 DEF ClearReadOldSum, HalThread
    <3>2. hal.todo \in SUBSET Int /\ Least(b, hal.todo)
      BY <1>1, <2>3 DEF HalThread, ClearReadOldSum
    <3>3. ASSUME NEW x \in Buffers, Least(x, hal.todo) PROVE mRefCountSum[x] <= mRefCountSum[b]
      BY <1>1, <3>2, <3>3, LeastUnique
    <3> QED BY <3>1, <3>3 DEF ClearInv
  <2>4. ASSUME NEW b \in Buffers, ClearCounts(b) \/ ClearFill(b) PROVE hal'.pc # "clear"
    BY <1>1, <2>4 DEF ClearCounts, ClearFill, HalThread
  <2>5. ASSUME NEW b \in Buffers, ClearCheck(b) PROVE hal'.pc # "clear"
    <3>1. \/ hal' = [hal EXCEPT !.pc = "fill", !.oldSum = 0]
          \/ hal' = [hal EXCEPT !.pc = "read", !.todo = @ \ {b}, !.oldSum = 0]
      BY <2>5 DEF ClearCheck
    <3> QED BY <1>1, <3>1 DEF HalThread
  <2> QED BY <1>3, <2>1, <2>2, <2>3, <2>4, <2>5 DEF HalClear, ClearInv
<1>4. CASE OmxStep
  <2>1. hal' = hal
    BY <1>4, OmxFrame
  <2>2. ASSUME NEW c \in Cookies, NEW t \in FrameTypes, SendToSubscriber(c, t)
        PROVE  hal.pc # "clear"
    BY <2>2 DEF SendToSubscriber, LockInv, Clearing
  <2>3. CASE mRefCountSum' = mRefCountSum
    BY <2>1, <2>3 DEF ClearInv
  <2>4. ASSUME NEW t \in FrameTypes, SendLockType(t) \/ SendLockStream(t) \/ SendRelock(t)
        PROVE  mRefCountSum' = mRefCountSum
    BY <2>4 DEF SendLockType, SendLockStream, SendRelock
  <2>5. ASSUME NEW b \in Buffers, FillBufferDone(b) PROVE mRefCountSum' = mRefCountSum
    BY <2>5 DEF FillBufferDone
  <2>6. SendDone => mRefCountSum' = mRefCountSum
    BY DEF SendDone
  <2> QED BY <1>4, <2>1, <2>2, <2>3, <2>4, <2>5, <2>6 DEF OmxStep, Dispatch, ClearInv
<1>5. CASE ReturnStep
  <2>1. hal' = hal
    BY <1>5, ReturnFrame
  <2>2. ASSUME hal.pc = "clear", NEW b \in Buffers, Least(b, hal.todo)
        PROVE  mRefCountSum'[b] <= hal.oldSum
    <3>1. mRefCountSum'[b] \in Nat
      BY NextRefInv DEF RefInv, TypeOK
    <3>2. mRefCountSum[b] \in Nat /\ hal.oldSum \in Nat
      BY <1>1 DEF HalThread
    <3>3. mRefCountSum'[b] <= mRefCountSum[b] /\ mRefCountSum[b] <= hal.oldSum
      BY <1>5, <2>2, ReturnSum DEF ClearInv
    <3> QED BY <3>1, <3>2, <3>3
  <2> QED BY <2>1, <2>2 DEF ClearInv
<1>6. CASE UNCHANGED vars
  BY <1>6 DEF vars, ClearInv
<1> QED BY <1>2, <1>3, <1>4, <1>5, <1>6, Threefold DEF HalStep

LEMMA FillWorks ==
  ASSUME SessionInv, hal.session \in {"preview", "stopping"}, NEW b \in Buffers, fillThisBuffer(b),
         mHandleComp'
  PROVE  withOMX' = withOMX \cup {b}
  BY DEF SessionInv, fillThisBuffer, performCleanupAfterError

(* Nobody gets the component back after a cleanup.                         *)
LEMMA CleanupIsFinal ==
  ASSUME HalStep \/ OmxStep \/ ReturnStep, mHandleComp'
  PROVE  mHandleComp
<1> USE DEF refVars, heldVars, adapterVars, omxVars
<1>1. ASSUME NEW b \in Buffers, fillThisBuffer(b) PROVE mHandleComp
  BY <1>1 DEF fillThisBuffer, performCleanupAfterError
<1>2. CASE HalSession \/ HalCall
  <2>1. HalSession => mHandleComp' = mHandleComp
    BY DEF HalSession, UseBuffersPreview, StartPreviewSetState, startPreview, StartPreviewCommit,
           StopPreviewSetState, stopPreview, StopPreviewRefused, StopPreviewCommit
  <2> QED BY <1>2, <2>1, HalCallHandle, Zenon
<1>3. CASE HalClear
  <2>1. startRecording \/ ClearLockStream \/ ClearDone => mHandleComp' = mHandleComp
    BY DEF startRecording, ClearLockStream, ClearDone
  <2>2. ASSUME NEW b \in Buffers, ClearReadOldSum(b) \/ ClearCounts(b) \/ ClearCheck(b)
        PROVE  mHandleComp' = mHandleComp
    BY <2>2 DEF ClearReadOldSum, ClearCounts, ClearCheck
  <2>3. ASSUME NEW b \in Buffers, ClearFill(b) PROVE mHandleComp
    BY <1>1, <2>3 DEF ClearFill
  <2> QED BY <1>3, <2>1, <2>2, <2>3 DEF HalClear
<1>4. CASE OmxStep
  <2>1. ASSUME NEW b \in Buffers, FillBufferDone(b) PROVE mHandleComp' = mHandleComp
    BY <2>1 DEF FillBufferDone
  <2> QED BY <1>4, <2>1, DispatchFrame DEF OmxStep
<1>5. ASSUME NEW th \in Threads, NEW l \in Links, NEW b \in Buffers, BeginReturn(th, l, b)
      PROVE  mHandleComp
  BY <1>5 DEF BeginReturn
<1>6. ASSUME NEW th \in Threads, Return(th) PROVE mHandleComp
  BY <1>6 DEF Return, ReturnLock, getStreamBuffer, ReturnDec, ReturnFill, fillThisBuffer,
              performCleanupAfterError
<1> QED BY <1>2, <1>3, <1>4, <1>5, <1>6 DEF HalStep, ReturnStep

(* Subscribing and clearing: a buffer whose references are cleared was     *)
(* read with a sum above zero, and is queued when nothing is left of it.   *)
LEMMA HalCycle ==
  ASSUME RefInv, CycleInv, HalStep
  PROVE  Cycle'
<1> USE DEF refVars, heldVars, adapterVars, omxVars
<1> SUFFICES ASSUME mHandleComp' PROVE Cycle'
  BY DEF Cycle
<1>0. mHandleComp
  BY CleanupIsFinal
<1>1. /\ hal \in HalThread /\ mRefCountSum \in [Buffers -> Nat] /\ Buffers \subseteq Int
      /\ hal.todo \in SUBSET Int
  BY HubAssumption DEF RefInv, TypeOK, HalThread
<1>2. UNCHANGED <<omx, ret>>
  BY HalFrame
<1>3. \A b \in Buffers : Unsent(b)' = Unsent(b)
  BY <1>2 DEF Unsent
<1>4. ASSUME hal.session \in {"preview", "stopping"},
             \A b \in Buffers : Settled(b) => Settled(b)'
      PROVE  Cycle'
  BY <1>0, <1>3, <1>4 DEF Cycle, CycleInv
<1>5. ASSUME UNCHANGED <<withOMX, dropped, mRefCountSum>>, hal.pc \notin {"check", "fill"}
      PROVE  \A b \in Buffers : Settled(b) => Settled(b)'
  BY <1>2, <1>5 DEF Settled, AboutToFill
<1>6. CASE HalSession
  <2>1. CASE UseBuffersPreview \/ StartPreviewSetState \/ startPreview \/ stopPreview
             \/ StopPreviewCommit
    <3>1. hal'.session \notin {"preview", "stopping"}
      BY <1>1, <2>1 DEF UseBuffersPreview, StartPreviewSetState, startPreview, stopPreview,
                        StopPreviewCommit, HalIdle, HalThread
    <3> QED BY <3>1 DEF Cycle
  <2>2. CASE StartPreviewCommit
    <3>1. hal.session = "queued" /\ UNCHANGED <<withOMX, dropped, mRefCountSum>>
      BY <2>2 DEF StartPreviewCommit, HalIdle
    <3>2. \A b \in Buffers : b \in withOMX \/ mRefCountSum[b] > 0
      BY <3>1 DEF CycleInv, StartInv, Starting
    <3> QED BY <3>1, <3>2 DEF Cycle, Settled
  <2>3. CASE StopPreviewSetState
    BY <1>4, <1>5, <2>3 DEF StopPreviewSetState, HalIdle
  <2>4. CASE StopPreviewRefused
    BY <1>0, <2>4 DEF StopPreviewRefused
  <2> QED BY <1>6, <2>1, <2>2, <2>3, <2>4 DEF HalSession
<1>7. CASE HalCall
  <2>1. hal.session = "preview" /\ hal.pc = "idle" /\ UNCHANGED <<withOMX, dropped, mRefCountSum>>
    BY <1>7, HalCallSession, HalCallFrame DEF CallFrame, RefInv
  <2> QED BY <1>4, <1>5, <2>1
<1>8. CASE HalClear
  <2>1. hal.session \in {"preview", "stopping"}
    BY <1>8, ClearKeepsSession DEF RefInv, CycleInv, SessionInv
  <2>2. CASE startRecording \/ ClearLockStream \/ ClearDone
    BY <1>4, <1>5, <2>1, <2>2 DEF startRecording, ClearLockStream, ClearDone
  <2>3. ASSUME NEW b \in Buffers, ClearReadOldSum(b) PROVE Cycle'
    BY <1>4, <1>5, <2>1, <2>3 DEF ClearReadOldSum
  <2>4. ASSUME NEW b \in Buffers, ClearCounts(b) PROVE Cycle'
    <3>1. /\ hal.pc = "clear" /\ Least(b, hal.todo) /\ UNCHANGED <<withOMX, dropped>>
          /\ hal' = [hal EXCEPT !.pc = "check"]
      BY <2>4 DEF ClearCounts
    <3>2. \A x \in Buffers : x # b => mRefCountSum'[x] = mRefCountSum[x]
      BY <1>1, <2>4 DEF ClearCounts, clearRefCount
    <3>3. hal'.pc = "check" /\ hal'.todo = hal.todo /\ hal'.oldSum = hal.oldSum
      BY <1>1, <3>1 DEF HalThread
    <3>4. mRefCountSum[b] <= hal.oldSum /\ mRefCountSum[b] \in Nat /\ hal.oldSum \in Nat
      BY <1>1, <3>1 DEF CycleInv, ClearInv, HalThread
    <3>5. ASSUME mRefCountSum[b] > 0 PROVE AboutToFill(b)'
      <4>1. hal.oldSum > 0
        BY <3>4, <3>5
      <4> QED BY <3>1, <3>3, <4>1 DEF AboutToFill
    <3>6. \A x \in Buffers : AboutToFill(x) => AboutToFill(x)'
      BY <1>2, <3>1 DEF AboutToFill
    <3> QED BY <1>4, <2>1, <3>1, <3>2, <3>5, <3>6 DEF Settled
  <2>5. ASSUME NEW b \in Buffers, ClearCheck(b) PROVE Cycle'
    <3>1. hal.pc = "check" /\ Least(b, hal.todo) /\ UNCHANGED <<withOMX, dropped, mRefCountSum>>
      BY <2>5 DEF ClearCheck
    <3>2. ASSUME NEW x \in Buffers, Settled(x) PROVE Settled(x)'
      <4>1. CASE x \in withOMX \cup dropped \/ mRefCountSum[x] > 0
                 \/ \E th \in Threads : ret[th].pc = "fill" /\ ret[th].buf = x
        BY <1>2, <3>1, <4>1 DEF Settled, AboutToFill
      <4>2. CASE Least(x, hal.todo) /\ hal.oldSum > 0
        <5>1. x = b
          BY <1>1, <3>1, <4>2, LeastUnique
        <5>2. CASE ClearReturns(b)
          <6>1. hal' = [hal EXCEPT !.pc = "fill", !.oldSum = 0]
            BY <2>5, <5>2 DEF ClearCheck
          <6>2. hal'.pc = "fill" /\ hal'.todo = hal.todo
            BY <1>1, <6>1 DEF HalThread
          <6> QED BY <4>2, <6>2 DEF Settled, AboutToFill
        <5>3. CASE ~ClearReturns(b)
          <6>1. mRefCountSum[b] # 0 /\ mRefCountSum[b] \in Nat
            BY <1>1, <4>2, <5>3 DEF ClearReturns
          <6>2. mRefCountSum[b] > 0
            BY <6>1
          <6> QED BY <3>1, <5>1, <6>2 DEF Settled
        <5> QED BY <5>2, <5>3
      <4> QED BY <3>1, <3>2, <4>1, <4>2 DEF Settled, AboutToFill
    <3> QED BY <1>4, <2>1, <3>2
  <2>6. ASSUME NEW b \in Buffers, ClearFill(b) PROVE Cycle'
    <3>1. hal.pc = "fill" /\ Least(b, hal.todo) /\ UNCHANGED <<mRefCountSum, dropped>>
      BY <2>6 DEF ClearFill
    <3>2. withOMX' = withOMX \cup {b}
      BY <2>1, <2>6, FillWorks DEF ClearFill, CycleInv
    <3>3. ASSUME NEW x \in Buffers, Settled(x) PROVE Settled(x)'
      <4>1. Least(x, hal.todo) => x = b
        BY <1>1, <3>1, LeastUnique
      <4> QED BY <1>2, <3>1, <3>2, <3>3, <4>1 DEF Settled, AboutToFill
    <3> QED BY <1>4, <2>1, <3>3
  <2> QED BY <1>8, <2>2, <2>3, <2>4, <2>5, <2>6 DEF HalClear
<1> QED BY <1>6, <1>7, <1>8 DEF HalStep

(* The dispatch: the display is a subscriber of the first type sent, so a  *)
(* buffer has a reference, or had one that was returned, when it is over.  *)
LEMMA OmxCycle ==
  ASSUME RefInv, CycleInv, OmxStep
  PROVE  Cycle'
<1> USE DEF refVars, heldVars, adapterVars, omxVars
<1>1. /\ hal \in HalThread /\ mRefCountSum \in [Buffers -> Nat] /\ omx \in OMXThread
      /\ ret \in [Threads -> ReturnCall] /\ "omx" \in Threads
  BY DEF RefInv, TypeOK, Threads
<1>2. hal' = hal
  BY OmxFrame
<1>3. SUFFICES ASSUME hal.session \in {"preview", "stopping"}, mHandleComp', NEW x \in Buffers
               PROVE  Settled(x)' \/ Unsent(x)'
  BY <1>2 DEF Cycle
<1>4. Settled(x) \/ Unsent(x)
  BY <1>3, CleanupIsFinal DEF CycleInv, Cycle
<1>5. /\ mStreamBuffers = Buffers /\ previewActive /\ mPortEnable
      /\ DisplayCookie \in mSubscribers[PREVIEW]
  BY <1>3 DEF CycleInv, SessionInv
<1>6. ASSUME UNCHANGED <<withOMX, dropped, mRefCountSum, ret>>, Settled(x) PROVE Settled(x)'
  BY <1>2, <1>6 DEF Settled, AboutToFill
<1>7. ASSUME NEW t, Least(t, omx.types), PREVIEW \in omx.types PROVE t = PREVIEW
  BY <1>1, <1>7 DEF Least, OMXThread, FrameTypes, PREVIEW
<1>8. ASSUME NEW b \in Buffers, FillBufferDone(b) PROVE Settled(x)' \/ Unsent(x)'
  <2>1. omx.pc = "idle" /\ withOMX' = withOMX \ {b} /\ UNCHANGED <<mRefCountSum, ret>>
    BY <1>8 DEF FillBufferDone
  <2>2. \/ dropped' = dropped \cup {b}
        \/ /\ dropped' = dropped
           /\ omx' = [omx EXCEPT !.pc = "type", !.buf = b, !.types = {PREVIEW} \cup extraTypes]
    BY <1>5, <1>8 DEF FillBufferDone, StartDispatch, DropIncomplete
  <2>3. \/ b \in dropped'
        \/ omx'.pc = "type" /\ omx'.buf = b /\ PREVIEW \in omx'.types
    BY <1>1, <2>2 DEF OMXThread
  <2>4. CASE x = b
    BY <2>3, <2>4 DEF Settled, Unsent
  <2>5. CASE x # b
    <3>1. Settled(x) /\ dropped \subseteq dropped'
      BY <1>4, <2>1, <2>2 DEF Unsent
    <3> QED BY <1>2, <2>1, <2>5, <3>1 DEF Settled, AboutToFill
  <2> QED BY <2>4, <2>5
<1>9. CASE SendDone
  <2>1. omx.types = {} /\ UNCHANGED <<withOMX, dropped, mRefCountSum, ret>>
    BY <1>9 DEF SendDone
  <2> QED BY <1>4, <1>6, <2>1 DEF Unsent
<1>10. ASSUME NEW t \in FrameTypes, SendLockType(t) PROVE Settled(x)' \/ Unsent(x)'
  <2>1. UNCHANGED <<withOMX, dropped, mRefCountSum, ret>> /\ Least(t, omx.types) /\ omx.pc = "type"
    BY <1>10 DEF SendLockType
  <2>2. ASSUME Unsent(x) PROVE Unsent(x)'
    <3>1. t = PREVIEW
      BY <1>7, <2>1, <2>2 DEF Unsent
    <3>2. omx' = [omx EXCEPT !.pc = "stream"]
      BY <1>5, <1>10, <3>1 DEF SendLockType
    <3>3. omx'.pc = "stream" /\ omx'.buf = omx.buf /\ omx'.types = omx.types
      BY <1>1, <3>2 DEF OMXThread
    <3> QED BY <2>2, <3>3 DEF Unsent
  <2> QED BY <1>4, <1>6, <2>1, <2>2
<1>11. ASSUME NEW t \in FrameTypes, SendLockStream(t) PROVE Settled(x)' \/ Unsent(x)'
  <2>1. UNCHANGED <<withOMX, dropped, mRefCountSum, ret>> /\ Least(t, omx.types) /\ omx.pc = "stream"
    BY <1>11 DEF SendLockStream
  <2>2. ASSUME Unsent(x) PROVE Unsent(x)'
    <3>1. t = PREVIEW
      BY <1>7, <2>1, <2>2 DEF Unsent
    <3>2. omx' = [omx EXCEPT !.pc = "inc", !.todo = mSubscribers[t]]
      BY <1>5, <1>11, <2>2 DEF SendLockStream, Unsent
    <3>3. /\ omx'.pc = "inc" /\ omx'.buf = omx.buf /\ omx'.types = omx.types
          /\ omx'.todo = mSubscribers[PREVIEW]
      BY <1>1, <3>1, <3>2 DEF OMXThread
    <3> QED BY <1>5, <2>2, <3>3 DEF Unsent
  <2> QED BY <1>4, <1>6, <2>1, <2>2
<1>12. ASSUME NEW t \in FrameTypes, SendRelock(t) PROVE Settled(x)' \/ Unsent(x)'
  <2>1. UNCHANGED <<withOMX, dropped, mRefCountSum, ret>> /\ Least(t, omx.types) /\ omx.pc = "relock"
    BY <1>12 DEF SendRelock
  <2>2. ASSUME Unsent(x) PROVE Unsent(x)'
    <3>1. omx.todo # {}
      BY <2>1, <2>2 DEF Unsent
    <3>2. omx' = [omx EXCEPT !.pc = "inc"]
      BY <1>12, <3>1 DEF SendRelock
    <3>3. /\ omx'.pc = "inc" /\ omx'.buf = omx.buf /\ omx'.types = omx.types
          /\ omx'.todo = omx.todo
      BY <1>1, <3>2 DEF OMXThread
    <3> QED BY <2>1, <2>2, <3>3 DEF Unsent
  <2> QED BY <1>4, <1>6, <2>1, <2>2
<1>13. ASSUME NEW c \in Cookies, NEW t \in FrameTypes, SendToSubscriber(c, t)
       PROVE  Settled(x)' \/ Unsent(x)'
  <2>1. omx.pc = "inc" /\ Least(c, omx.todo) /\ UNCHANGED <<withOMX, dropped>>
        /\ mRefCountSum' = [mRefCountSum EXCEPT ![omx.buf] = @ + 1]
    BY <1>13 DEF SendToSubscriber, incRefCount
  <2>2. omx.buf \in Buffers /\ mRefCountSum[omx.buf] \in Nat
    BY <1>1 DEF OMXThread
  <2>3. CASE omx.buf = x
    <3>1. mRefCountSum'[x] = mRefCountSum[x] + 1
      BY <1>1, <2>1, <2>2, <2>3
    <3>2. mRefCountSum'[x] > 0
      BY <2>2, <2>3, <3>1
    <3> QED BY <3>2 DEF Settled
  <2>4. CASE omx.buf # x
    <3>1. mRefCountSum'[x] = mRefCountSum[x] /\ Settled(x)
      BY <1>1, <1>4, <2>1, <2>4 DEF Unsent
    <3>2. \A th \in Threads : ret[th].pc = "fill" => ret'[th] = ret[th]
      <4>1. ret["omx"].pc = "idle"
        BY <2>1 DEF CycleInv, CallInv
      <4>2. ret' = ret \/ \E r : ret' = [ret EXCEPT !["omx"] = r]
        BY <1>13 DEF SendToSubscriber, CallbackKeeps, CallbackForgetsVideo, CallbackReturns
      <4> QED BY <1>1, <4>1, <4>2
    <3> QED BY <1>2, <2>1, <3>1, <3>2 DEF Settled, AboutToFill
  <2> QED BY <2>3, <2>4
<1> QED BY <1>8, <1>9, <1>10, <1>11, <1>12, <1>13 DEF OmxStep, Dispatch

(* Returns: the last one queues the buffer.                                *)
LEMMA ReturnCycle ==
  ASSUME RefInv, CycleInv, ReturnStep
  PROVE  Cycle'
<1> USE DEF refVars, heldVars, adapterVars, omxVars
<1>1. ret \in [Threads -> ReturnCall]
  BY DEF RefInv, TypeOK
<1>2. UNCHANGED <<hal, omx>>
  BY ReturnFrame
<1>3. SUFFICES ASSUME hal.session \in {"preview", "stopping"}, mHandleComp', NEW x \in Buffers,
                      Settled(x)
               PROVE  Settled(x)'
  BY <1>2, CleanupIsFinal DEF Cycle, CycleInv, Unsent
<1>4. ASSUME NEW th \in Threads, ret[th].pc # "fill",
             UNCHANGED <<withOMX, dropped, mRefCountSum>>, \E r : ret' = [ret EXCEPT ![th] = r]
      PROVE  Settled(x)'
  <2>1. \A u \in Threads : ret[u].pc = "fill" => ret'[u] = ret[u]
    BY <1>1, <1>4
  <2> QED BY <1>2, <1>3, <1>4, <2>1 DEF Settled, AboutToFill
<1>5. ASSUME NEW th \in Threads, NEW l \in Links, NEW b \in Buffers, BeginReturn(th, l, b)
      PROVE  Settled(x)'
  <2>1. ret[th].pc = "idle" /\ UNCHANGED <<withOMX, dropped, mRefCountSum>>
        /\ ret' = [ret EXCEPT ![th] = [pc |-> "lock", buf |-> b, type |-> l[2]]]
    BY <1>5 DEF BeginReturn
  <2> QED BY <1>4, <2>1
<1>6. ASSUME NEW th \in Threads, ReturnLock(th) PROVE Settled(x)'
  <2>1. ret[th].pc = "lock" /\ UNCHANGED <<withOMX, dropped, mRefCountSum>>
        /\ ret' = [ret EXCEPT ![th] = [ret[th] EXCEPT !.pc = "get"]]
    BY <1>6 DEF ReturnLock
  <2> QED BY <1>4, <2>1
<1>7. ASSUME NEW th \in Threads, getStreamBuffer(th) PROVE Settled(x)'
  <2>1. ret[th].pc = "get" /\ UNCHANGED <<withOMX, dropped, mRefCountSum>>
        /\ \/ ret' = [ret EXCEPT ![th] = [ret[th] EXCEPT !.pc = "dec"]]
           \/ ret' = [ret EXCEPT ![th] = IdleRet]
    BY <1>7 DEF getStreamBuffer, EndReturn
  <2> QED BY <1>4, <2>1
<1>8. ASSUME NEW th \in Threads, ReturnDec(th) PROVE Settled(x)'
  <2>1. ret[th].pc = "dec" /\ UNCHANGED <<withOMX, dropped>>
        /\ \/ ret' = [ret EXCEPT ![th] = [ret[th] EXCEPT !.pc = "fill"]]
           \/ ret' = [ret EXCEPT ![th] = IdleRet]
    BY <1>8 DEF ReturnDec, EndReturn
  <2>2. \A u \in Threads : ret[u].pc = "fill" => ret'[u] = ret[u]
    BY <1>1, <2>1
  <2>3. mRefCountSum[x] > 0 => mRefCountSum'[x] > 0 \/ (ret'[th].pc = "fill" /\ ret'[th].buf = x)
    BY <1>8, ReturnDecSum
  <2> QED BY <1>2, <1>3, <2>1, <2>2, <2>3 DEF Settled, AboutToFill
<1>9. ASSUME NEW th \in Threads, ReturnFill(th) PROVE Settled(x)'
  <2>1. ret[th].buf \in Buffers /\ UNCHANGED <<mRefCountSum, dropped>> /\ ret' = [ret EXCEPT ![th] = IdleRet]
    BY <1>1, <1>9 DEF ReturnFill, EndReturn, ReturnCall
  <2>2. withOMX' = withOMX \cup {ret[th].buf}
    BY <1>3, <1>9, <2>1, FillWorks DEF ReturnFill, CycleInv
  <2>3. \A u \in Threads : u # th => ret'[u] = ret[u]
    BY <1>1, <2>1
  <2> QED BY <1>2, <1>3, <2>1, <2>2, <2>3 DEF Settled, AboutToFill
<1> QED BY <1>5, <1>6, <1>7, <1>8, <1>9 DEF ReturnStep, Return

-----------------------------------------------------------------------------
LEMMA InitCycleInv == Init => CycleInv
<1> SUFFICES ASSUME Init PROVE CycleInv
  OBVIOUS
<1>1. hal.pc = "idle" /\ hal.session = "init" /\ omx.pc = "idle" /\ ret["omx"].pc = "idle"
      /\ \A th \in Threads : ret[th].pc = "idle"
  BY DEF Init, IdleHal, IdleOMX, IdleRet, Threads
<1>2. LockInv /\ CallInv /\ ClearInv /\ Cycle
  BY <1>1 DEF LockInv, Clearing, CallInv, ClearInv, Cycle
<1>3. StartInv
  BY <1>1 DEF StartInv, Init
<1>4. DisplayCookie \in mSubscribers[PREVIEW]
  BY HubAssumption DEF Init, FrameTypes, PREVIEW
<1>5. SessionInv
  BY <1>1, <1>4 DEF SessionInv, Init
<1> QED BY <1>2, <1>3, <1>5 DEF CycleInv

LEMMA NextCycleInv ==
  ASSUME ~EarlyFrames, DisplayStays, RefInv, CycleInv, [Next]_vars
  PROVE  CycleInv'
<1>1. TypeOK
  BY DEF RefInv
<1>2. LockInv' /\ CallInv' /\ SessionInv' /\ StartInv' /\ ClearInv'
  BY <1>1, NextLock, NextCall, NextSession, NextStart, NextClear DEF CycleInv
<1>3. ASSUME UNCHANGED vars PROVE Cycle'
  BY <1>3 DEF vars, omxVars, refVars, CycleInv, Cycle, Settled, AboutToFill, Unsent
<1>4. Cycle'
  BY <1>3, HalCycle, OmxCycle, ReturnCycle, Threefold
<1> QED BY <1>2, <1>4 DEF CycleInv

LEMMA CycleKeepsBuffers == RefInv /\ CycleInv => NoBufferLost
<1> SUFFICES ASSUME RefInv, CycleInv, previewActive, mPortEnable, mHandleComp,
                    NEW b \in mStreamBuffers \ dropped
             PROVE  \/ b \in withOMX
                    \/ omx.pc # "idle" /\ omx.buf = b
                    \/ mRefCountSum[b] > 0
                    \/ AboutToFill(b)
  BY DEF NoBufferLost
<1>1. b \in Buffers
  BY DEF RefInv, TypeOK
<1>2. hal.session \in {"preview", "stopping"}
  BY DEF CycleInv, SessionInv
<1> QED BY <1>1, <1>2 DEF CycleInv, Cycle, Settled, Unsent

(* While the display is subscribed, and if the component delivers no frame *)
(* before START_PREVIEW is committed, a buffer leaves the preview cycle in *)
(* two ways only, whatever dispatches, returns, synchronous returns in     *)
(* callbacks and clears of unsubscribe interleave: FillBufferDone throws   *)
(* it away because its frame is not complete, or an OMX_FillThisBuffer     *)
(* fails and the adapter frees the component.                              *)
THEOREM BuffersStay ==
  ASSUME ~EarlyFrames, DisplayStays
  PROVE  Spec => []NoBufferLost
<1>1. RefInv /\ CycleInv /\ [Next]_vars => RefInv' /\ CycleInv'
  BY NextRefInv, NextCycleInv
<1> QED BY <1>1, InitRefInv, InitCycleInv, CycleKeepsBuffers, PTL DEF Spec

-----------------------------------------------------------------------------
(* Owners of the references.  A subscriber is always one of Links, so that *)
(* what it is given is counted in held.                                    *)

LinkInv ==
  /\ \A t \in FrameTypes : \A c \in mSubscribers[t] : <<c, t>> \in Links
  /\ omx.pc \in {"inc", "relock"} =>
       \A t \in FrameTypes : Least(t, omx.types) => \A c \in omx.todo : <<c, t>> \in Links
  /\ hal.session = "init" => /\ hal.pc = "idle" /\ omx.pc = "idle" /\ withOMX = {}
                             /\ \A th \in Threads : ret[th].pc = "idle"
                             /\ \A l \in Links, b \in Buffers : held[<<l, b>>] = 0

FiniteOwners ==
  \A b \in Buffers, t \in FrameTypes :
    IsFiniteSet(HeldFrames(b, t)) /\ IsFiniteSet(Returns(b, t))

OwedInv == CallInv /\ LinkInv /\ FiniteOwners /\ EveryRefOwed

Copies(h, b, t) == UNION {{l} \X (1..h[<<l, b>>]) : l \in {k \in Links : k[2] = t}}

LEMMA HeldIsCopies ==
  /\ \A b, t : HeldFrames(b, t) = Copies(held, b, t)
  /\ \A b, t : HeldFrames(b, t)' = Copies(held', b, t)
<1>1. ASSUME NEW b, NEW t
      PROVE  HeldFrames(b, t) = Copies(held, b, t) /\ HeldFrames(b, t)' = Copies(held', b, t)
  BY Zenon DEF HeldFrames, Copies
<1> QED BY <1>1

IsCopy(x, h, b, t) == \E l \in Links : l[2] = t /\ \E k \in 1..h[<<l, b>>] : x = <<l, k>>

LEMMA InCopies ==
  ASSUME NEW h, NEW b, NEW t, NEW x
  PROVE  x \in Copies(h, b, t) <=> IsCopy(x, h, b, t)
<1> DEFINE C(l) == {l} \X (1..h[<<l, b>>])
<1>1. \A l : x \in C(l) <=> \E k \in 1..h[<<l, b>>] : x = <<l, k>>
  OBVIOUS
<1>2. Copies(h, b, t) = UNION {C(l) : l \in {k \in Links : k[2] = t}}
  BY Zenon DEF Copies
<1> HIDE DEF C
<1>3. x \in UNION {C(l) : l \in {k \in Links : k[2] = t}} <=>
        \E l \in Links : l[2] = t /\ x \in C(l)
  OBVIOUS
<1> QED BY <1>1, <1>2, <1>3 DEF IsCopy

LEMMA CopiesSame ==
  ASSUME NEW h, NEW g, NEW b, NEW t,
         \A l \in Links : l[2] = t => h[<<l, b>>] = g[<<l, b>>]
  PROVE  Copies(g, b, t) = Copies(h, b, t)
<1>1. \A x : IsCopy(x, g, b, t) <=> IsCopy(x, h, b, t)
  BY DEF IsCopy
<1>2. \A x : x \in Copies(g, b, t) <=> x \in Copies(h, b, t)
  BY <1>1, InCopies
<1> QED BY <1>2

(* One copy more, or one less, for one link and buffer.                    *)
Moves(h, g, l, b, n) ==
  /\ h \in [Links \X Buffers -> Nat] /\ l \in Links /\ b \in Buffers /\ n \in Nat
  /\ n = h[<<l, b>>] + 1 \/ h[<<l, b>>] = n + 1
  /\ g = [h EXCEPT ![<<l, b>>] = n]

CopiesMove(h, g, l, b, n, x, t) ==
  /\ IsFiniteSet(Copies(g, x, t))
  /\ Cardinality(Copies(g, x, t)) =
       IF x = b /\ t = l[2] THEN Cardinality(Copies(h, x, t)) + n - h[<<l, b>>]
       ELSE Cardinality(Copies(h, x, t))

LEMMA OneCopy ==
  ASSUME NEW h, NEW g, NEW l, NEW b, NEW n, Moves(h, g, l, b, n),
         NEW x \in Buffers, NEW t \in FrameTypes,
         IsFiniteSet(Copies(h, x, t))
  PROVE  CopiesMove(h, g, l, b, n, x, t)
<1> USE DEF CopiesMove
<1>a. /\ h \in [Links \X Buffers -> Nat] /\ l \in Links /\ b \in Buffers /\ n \in Nat
      /\ n = h[<<l, b>>] + 1 \/ h[<<l, b>>] = n + 1
      /\ g = [h EXCEPT ![<<l, b>>] = n]
  BY DEF Moves
<1> USE <1>a
<1>1. g[<<l, b>>] = n /\ \A k \in Links \X Buffers : k # <<l, b>> => g[k] = h[k]
  OBVIOUS
<1> HIDE <1>a
<1>b. /\ h \in [Links \X Buffers -> Nat] /\ l \in Links /\ b \in Buffers /\ n \in Nat
      /\ n = h[<<l, b>>] + 1 \/ h[<<l, b>>] = n + 1
  BY <1>a
<1> USE <1>b
<1>2. Cardinality(Copies(h, x, t)) \in Nat
  BY FS_CardinalityType
<1>3. CASE ~(x = b /\ t = l[2])
  <2>1. \A k \in Links : k[2] = t => h[<<k, x>>] = g[<<k, x>>]
    BY <1>1, <1>3
  <2>2. Copies(g, x, t) = Copies(h, x, t)
    BY <2>1, CopiesSame
  <2> QED BY <1>2, <1>3, <2>2
<1>4. CASE x = b /\ t = l[2] /\ n = h[<<l, b>>] + 1
  <2>1. \A k \in Links : k # l => g[<<k, b>>] = h[<<k, b>>]
    BY <1>1
  <2>2. h[<<l, b>>] \in Nat /\ 1..n = (1..h[<<l, b>>]) \cup {n} /\ n \notin 1..h[<<l, b>>]
    BY <1>4
  <2>3. ASSUME NEW y PROVE y \in Copies(g, b, t) <=> y \in Copies(h, b, t) \cup {<<l, n>>}
    <3>1. ASSUME NEW k \in Links, k[2] = t
          PROVE  (\E i \in 1..g[<<k, b>>] : y = <<k, i>>) <=>
                   (\E i \in 1..h[<<k, b>>] : y = <<k, i>>) \/ (k = l /\ y = <<l, n>>)
      <4>1. CASE k = l
        BY <1>1, <2>2, <4>1
      <4>2. CASE k # l
        BY <2>1, <4>2
      <4> QED BY <4>1, <4>2
    <3>2. IsCopy(y, g, b, t) <=> IsCopy(y, h, b, t) \/ y = <<l, n>>
      BY <1>4, <3>1 DEF IsCopy
    <3> QED BY <3>2, InCopies
  <2>4. <<l, n>> \notin Copies(h, b, t)
    <3>1. ~IsCopy(<<l, n>>, h, b, t)
      BY <2>2 DEF IsCopy
    <3> QED BY <3>1, InCopies
  <2>5. Copies(g, b, t) = Copies(h, b, t) \cup {<<l, n>>}
    BY <2>3
  <2>6. /\ IsFiniteSet(Copies(g, x, t))
        /\ Cardinality(Copies(g, x, t)) = Cardinality(Copies(h, x, t)) + 1
    <3> DEFINE S == Copies(h, b, t)
               e == <<l, n>>
    <3>1. IsFiniteSet(S) /\ e \notin S /\ Copies(g, b, t) = S \cup {e}
      BY <1>4, <2>4, <2>5
    <3> HIDE DEF S, e
    <3>2. IsFiniteSet(S \cup {e}) /\ Cardinality(S \cup {e}) = Cardinality(S) + 1
      BY <3>1, FS_AddElement
    <3> QED BY <1>4, <3>1, <3>2 DEF S
  <2> QED BY <1>2, <1>4, <2>2, <2>6
<1>5. CASE x = b /\ t = l[2] /\ h[<<l, b>>] = n + 1
  <2> DEFINE m == h[<<l, b>>]
  <2>1. \A k \in Links : k # l => g[<<k, b>>] = h[<<k, b>>]
    BY <1>1
  <2>2. m \in Nat /\ m \in 1..m /\ 1..n = (1..m) \ {m}
    BY <1>5
  <2>3. ASSUME NEW y PROVE y \in Copies(g, b, t) <=> y \in Copies(h, b, t) \ {<<l, m>>}
    <3>1. ASSUME NEW k \in Links, k[2] = t
          PROVE  (\E i \in 1..g[<<k, b>>] : y = <<k, i>>) <=>
                   (\E i \in 1..h[<<k, b>>] : y = <<k, i>>) /\ y # <<l, m>>
      <4>1. CASE k = l
        BY <1>1, <2>2, <4>1
      <4>2. CASE k # l
        BY <2>1, <4>2
      <4> QED BY <4>1, <4>2
    <3>2. IsCopy(y, g, b, t) <=> IsCopy(y, h, b, t) /\ y # <<l, m>>
      BY <1>5, <3>1 DEF IsCopy
    <3> QED BY <3>2, InCopies
  <2>4. <<l, m>> \in Copies(h, b, t)
    <3>1. IsCopy(<<l, m>>, h, b, t)
      BY <1>5, <2>2 DEF IsCopy
    <3> QED BY <3>1, InCopies
  <2>5. Copies(g, b, t) = Copies(h, b, t) \ {<<l, m>>}
    BY <2>3
  <2>6. /\ IsFiniteSet(Copies(g, x, t))
        /\ Cardinality(Copies(g, x, t)) = Cardinality(Copies(h, x, t)) - 1
    <3> DEFINE S == Copies(h, b, t)
               e == <<l, m>>
    <3>1. IsFiniteSet(S) /\ e \in S /\ Copies(g, b, t) = S \ {e}
      BY <1>5, <2>4, <2>5
    <3> HIDE DEF S, e
    <3>2. IsFiniteSet(S \ {e}) /\ Cardinality(S \ {e}) = Cardinality(S) - 1
      BY <3>1, FS_RemoveElement
    <3> QED BY <1>5, <3>1, <3>2 DEF S
  <2> QED BY <1>2, <1>5, <2>2, <2>6
<1> QED BY <1>3, <1>4, <1>5

(* The call of one thread begins, goes on or ends.                         *)
LEMMA OneReturn ==
  ASSUME NEW th \in Threads, \A u \in Threads : u # th => ret'[u] = ret[u],
         NEW b, NEW t, IsFiniteSet(Returns(b, t))
  PROVE  /\ IsFiniteSet(Returns(b, t))'
         /\ Cardinality(Returns(b, t)) \in Nat /\ Cardinality(Returns(b, t))' \in Nat
         /\ Returning(th, b, t)' /\ ~Returning(th, b, t) =>
              Cardinality(Returns(b, t))' = Cardinality(Returns(b, t)) + 1
         /\ Returning(th, b, t)' <=> Returning(th, b, t) =>
              Cardinality(Returns(b, t))' = Cardinality(Returns(b, t))
         /\ Cardinality(Returns(b, t))' >= Cardinality(Returns(b, t)) - 1
<1>1. Cardinality(Returns(b, t)) \in Nat
  BY FS_CardinalityType
<1>2. \A u \in Threads : u # th => (Returning(u, b, t)' <=> Returning(u, b, t))
  BY DEF Returning
<1>3. CASE Returning(th, b, t)' /\ ~Returning(th, b, t)
  <2>1. Returns(b, t)' = Returns(b, t) \cup {th} /\ th \notin Returns(b, t)
    BY <1>2, <1>3 DEF Returns
  <2> QED BY <1>1, <1>3, <2>1, FS_AddElement
<1>4. CASE Returning(th, b, t)' <=> Returning(th, b, t)
  <2>1. Returns(b, t)' = Returns(b, t)
    BY <1>2, <1>4 DEF Returns
  <2> QED BY <1>1, <1>4, <2>1
<1>5. CASE ~Returning(th, b, t)' /\ Returning(th, b, t)
  <2>1. Returns(b, t)' = Returns(b, t) \ {th} /\ th \in Returns(b, t)
    BY <1>2, <1>5 DEF Returns
  <2>2. IsFiniteSet(Returns(b, t))' /\ Cardinality(Returns(b, t))' = Cardinality(Returns(b, t)) - 1
    BY <2>1, FS_RemoveElement
  <2>3. Cardinality(Returns(b, t))' \in Nat
    BY <2>2, FS_CardinalityType
  <2> QED BY <1>1, <1>5, <2>2, <2>3
<1> QED BY <1>3, <1>4, <1>5

LEMMA NextLink ==
  ASSUME TypeOK, LinkInv, [Next]_vars
  PROVE  LinkInv'
<1> USE DEF refVars, heldVars, adapterVars, omxVars
<1>1. /\ hal \in HalThread /\ omx \in OMXThread
      /\ mSubscribers \in [FrameTypes -> SUBSET Cookies]
  BY DEF TypeOK
<1>2. CASE HalStep
  <2>1. omx' = omx
    BY <1>2, HalFrame
  <2>2. \A t \in FrameTypes : \A c \in mSubscribers'[t] : <<c, t>> \in Links
    <3>1. CASE HalSession \/ HalClear
      <4>1. mSubscribers' = mSubscribers
        <5>1. HalSession => mSubscribers' = mSubscribers
          BY DEF HalSession, UseBuffersPreview, StartPreviewSetState, startPreview,
                 StartPreviewCommit, StopPreviewSetState, stopPreview, StopPreviewRefused,
                 StopPreviewCommit
        <5> QED BY <3>1, <5>1, ClearFrame
      <4> QED BY <4>1 DEF LinkInv
    <3>2. CASE HalCall
      <4>1. \A t \in FrameTypes : \A c \in mSubscribers'[t] : c \in mSubscribers[t] \/ <<c, t>> \in Toggled
        <5>1. ASSUME NEW t \in FrameTypes, startVideoCapture(t) \/ stopVideoCapture(t)
              PROVE  mSubscribers' = mSubscribers
          BY <5>1 DEF startVideoCapture, stopVideoCapture
        <5>2. ASSUME NEW c \in Cookies, NEW t \in FrameTypes, subscribe(c, t)
              PROVE  \A u \in FrameTypes : \A d \in mSubscribers'[u] :
                       d \in mSubscribers[u] \/ (<<d, u>> = <<c, t>> /\ <<c, t>> \in Toggled)
          BY <1>1, <5>2 DEF subscribe
        <5>3. ASSUME NEW c \in Cookies, NEW t \in FrameTypes, unsubscribe(c, t)
              PROVE  \A u \in FrameTypes : mSubscribers'[u] \subseteq mSubscribers[u]
          BY <1>1, <5>3 DEF unsubscribe
        <5> QED BY <3>2, <5>1, <5>2, <5>3 DEF HalCall
      <4> QED BY <4>1 DEF LinkInv, Links
    <3> QED BY <1>2, <3>1, <3>2 DEF HalStep
  <2>3. hal'.session # "init"
    <3>1. CASE HalSession
      BY <1>1, <3>1 DEF HalSession, UseBuffersPreview, StartPreviewSetState, startPreview,
              StartPreviewCommit, StopPreviewSetState, stopPreview, StopPreviewRefused, StopPreviewCommit, HalIdle,
              HalThread
    <3>2. CASE HalCall
      BY <3>2, HalCallSession
    <3>3. CASE HalClear
      BY <3>3, ClearKeepsSession DEF LinkInv
    <3> QED BY <1>2, <3>1, <3>2, <3>3 DEF HalStep
  <2> QED BY <2>1, <2>2, <2>3 DEF LinkInv
<1>3. CASE OmxStep
  <2>1. UNCHANGED <<hal, mSubscribers>>
    BY <1>3, OmxFrame
  <2>2. hal.session # "init"
    <3>1. ASSUME NEW b \in Buffers, FillBufferDone(b) PROVE withOMX # {}
      BY <3>1 DEF FillBufferDone
    <3>2. ASSUME Dispatch PROVE omx.pc # "idle"
      BY <3>2, DispatchBusy
    <3> QED BY <1>3, <3>1, <3>2 DEF OmxStep, LinkInv
  <2>3. ASSUME omx'.pc \in {"inc", "relock"}
        PROVE  \/ omx.pc \in {"inc", "relock"} /\ omx'.types = omx.types /\ omx'.todo \subseteq omx.todo
               \/ \E t \in FrameTypes : /\ Least(t, omx.types) /\ omx'.types = omx.types
                                        /\ omx'.todo = mSubscribers[t]
    <3>1. ASSUME NEW b \in Buffers, FillBufferDone(b) PROVE omx'.pc \in {"idle", "type"}
      BY <1>1, <3>1 DEF FillBufferDone, StartDispatch, DropIncomplete, OMXThread
    <3>2. SendDone => omx'.pc = "idle"
      BY DEF SendDone, IdleOMX
    <3>3. ASSUME NEW t \in FrameTypes, SendLockType(t) PROVE omx'.pc \in {"type", "stream"}
      BY <1>1, <3>3 DEF SendLockType, OMXThread
    <3>4. ASSUME NEW t \in FrameTypes, SendLockStream(t)
          PROVE  Least(t, omx.types) /\ omx'.types = omx.types /\ omx'.todo = mSubscribers[t]
      <4>1. omx' = [omx EXCEPT !.pc = "inc", !.todo = mSubscribers[t]]
        BY <1>1, <2>3, <3>4 DEF SendLockStream, OMXThread
      <4> QED BY <1>1, <3>4, <4>1 DEF SendLockStream, OMXThread
    <3>5. ASSUME NEW t \in FrameTypes, SendRelock(t)
          PROVE  omx.pc = "relock" /\ omx'.types = omx.types /\ omx'.todo = omx.todo
      <4>1. omx' = [omx EXCEPT !.pc = "inc"]
        BY <1>1, <2>3, <3>5 DEF SendRelock, OMXThread
      <4> QED BY <1>1, <3>5, <4>1 DEF SendRelock, OMXThread
    <3>6. ASSUME NEW c \in Cookies, NEW t \in FrameTypes, SendToSubscriber(c, t)
          PROVE  omx.pc = "inc" /\ omx'.types = omx.types /\ omx'.todo \subseteq omx.todo
      BY <1>1, <3>6 DEF SendToSubscriber, OMXThread
    <3> QED BY <1>3, <2>3, <3>1, <3>2, <3>3, <3>4, <3>5, <3>6 DEF OmxStep, Dispatch
  <2>4. ASSUME omx'.pc \in {"inc", "relock"}, NEW t \in FrameTypes, Least(t, omx'.types),
               NEW c \in omx'.todo
        PROVE  <<c, t>> \in Links
    <3>1. CASE omx.pc \in {"inc", "relock"} /\ omx'.types = omx.types /\ omx'.todo \subseteq omx.todo
      BY <2>4, <3>1 DEF LinkInv
    <3>2. ASSUME NEW u \in FrameTypes, Least(u, omx.types), omx'.types = omx.types,
                 omx'.todo = mSubscribers[u]
          PROVE  <<c, t>> \in Links
      <4>1. t = u
        BY <1>1, <2>4, <3>2 DEF Least, OMXThread, FrameTypes
      <4> QED BY <2>4, <3>2, <4>1 DEF LinkInv
    <3> QED BY <2>3, <2>4, <3>1, <3>2
  <2> QED BY <2>1, <2>2, <2>4 DEF LinkInv
<1>4. CASE ReturnStep
  <2>1. UNCHANGED <<hal, omx, mSubscribers>>
    BY <1>4, ReturnFrame
  <2>2. hal.session # "init"
    <3>1. ASSUME NEW th \in Threads, NEW l \in Links, NEW b \in Buffers, BeginReturn(th, l, b)
          PROVE  hal.session # "init"
      BY <3>1 DEF BeginReturn, LinkInv
    <3>2. ASSUME NEW th \in Threads, Return(th) PROVE ret[th].pc # "idle"
      BY <3>2 DEF Return, ReturnLock, getStreamBuffer, ReturnDec, ReturnFill
    <3> QED BY <1>4, <3>1, <3>2 DEF ReturnStep, LinkInv
  <2> QED BY <2>1, <2>2 DEF LinkInv
<1>5. CASE UNCHANGED vars
  BY <1>5 DEF vars, LinkInv
<1> QED BY <1>2, <1>3, <1>4, <1>5, Threefold

(* A step adds no reference and takes no owner, and clears what it takes   *)
(* off the forgotten.                                                      *)
LEMMA OwnersKept ==
  ASSUME FiniteOwners, EveryRefOwed, UNCHANGED <<held, ret>>,
         mStreamBuffers' \subseteq mStreamBuffers,
         \A b \in forgotten : b \in forgotten' \/ mRefCount'[b][VIDEO] = 0,
         \A b \in Buffers, t \in FrameTypes : mRefCount'[b][t] <= mRefCount[b][t],
         mRefCount \in [Buffers -> [FrameTypes -> Nat]],
         mRefCount' \in [Buffers -> [FrameTypes -> Nat]], mStreamBuffers \subseteq Buffers
  PROVE  FiniteOwners' /\ EveryRefOwed'
<1>1. \A b, t : HeldFrames(b, t)' = HeldFrames(b, t)
  BY HeldIsCopies
<1>2. \A b, t : Returns(b, t)' = Returns(b, t)
  BY DEF Returns, Returning
<1>3. FiniteOwners'
  BY <1>1, <1>2 DEF FiniteOwners
<1>4. ASSUME NEW b \in mStreamBuffers', NEW t \in FrameTypes
      PROVE  \/ mRefCount'[b][t] <= Cardinality(HeldFrames(b, t))' + Cardinality(Returns(b, t))'
             \/ t = VIDEO /\ b \in forgotten'
  <2>1. b \in mStreamBuffers /\ b \in Buffers
    OBVIOUS
  <2>2. /\ Cardinality(HeldFrames(b, t)) \in Nat /\ Cardinality(Returns(b, t)) \in Nat
    BY <2>1, FS_CardinalityType DEF FiniteOwners
  <2>3. \/ mRefCount[b][t] <= Cardinality(HeldFrames(b, t)) + Cardinality(Returns(b, t))
        \/ t = VIDEO /\ b \in forgotten
    BY <2>1 DEF EveryRefOwed
  <2>4. mRefCount'[b][t] <= mRefCount[b][t] /\ mRefCount[b][t] \in Nat /\ mRefCount'[b][t] \in Nat
    BY <2>1
  <2>5. /\ Cardinality(HeldFrames(b, t))' = Cardinality(HeldFrames(b, t))
        /\ Cardinality(Returns(b, t))' = Cardinality(Returns(b, t))
    BY <1>1, <1>2
  <2>6. CASE t = VIDEO /\ b \in forgotten
    BY <2>2, <2>4, <2>5, <2>6
  <2>7. CASE ~(t = VIDEO /\ b \in forgotten)
    BY <2>2, <2>3, <2>4, <2>5, <2>7
  <2> QED BY <2>6, <2>7
<1> QED BY <1>3, <1>4 DEF EveryRefOwed

LEMMA HalOwners ==
  ASSUME RefInv, OwedInv, HalStep, RefInv'
  PROVE  FiniteOwners' /\ EveryRefOwed'
<1> USE DEF refVars, heldVars, adapterVars, omxVars
<1>1. /\ mRefCount \in [Buffers -> [FrameTypes -> Nat]] /\ mStreamBuffers \subseteq Buffers
      /\ mRefCount' \in [Buffers -> [FrameTypes -> Nat]]
      /\ held \in [Links \X Buffers -> Nat] /\ hal \in HalThread
  BY DEF RefInv, TypeOK
<1>2. ret' = ret
  BY HalFrame
<1>3. FiniteOwners /\ EveryRefOwed
  BY DEF OwedInv
<1>4. ASSUME UNCHANGED <<held, mRefCount, forgotten>>, mStreamBuffers' \subseteq mStreamBuffers
      PROVE  FiniteOwners' /\ EveryRefOwed'
  <2>1. \A b \in Buffers, t \in FrameTypes : mRefCount'[b][t] <= mRefCount[b][t]
    BY <1>1, <1>4
  <2> QED BY <1>1, <1>2, <1>3, <1>4, <2>1, OwnersKept
<1>5. CASE UseBuffersPreview
  <2>1. hal.session = "init"
    BY <1>5 DEF UseBuffersPreview, HalIdle
  <2>2. /\ \A th \in Threads : ret[th].pc = "idle"
        /\ \A l \in Links, b \in Buffers : held[<<l, b>>] = 0
    BY <2>1 DEF OwedInv, LinkInv
  <2> DEFINE d == <<DisplayCookie, PREVIEW>>
  <2>3. \A l \in Links, b \in Buffers :
          held'[<<l, b>>] = IF l = d /\ b \notin Queueable THEN 1 ELSE 0
    <3> SUFFICES ASSUME NEW l \in Links, NEW b \in Buffers
                 PROVE  held'[<<l, b>>] = IF l = d /\ b \notin Queueable THEN 1 ELSE 0
      OBVIOUS
    <3>1. <<l, b>> \in Links \X Buffers /\ <<l, b>>[1] = l /\ <<l, b>>[2] = b
      OBVIOUS
    <3>2. held'[<<l, b>>] = IF <<l, b>>[1] = d /\ <<l, b>>[2] \notin Queueable THEN 1
                            ELSE held[<<l, b>>]
      BY <1>5, <3>1 DEF UseBuffersPreview
    <3> QED BY <2>2, <3>1, <3>2
  <2>4. d \in Links /\ d[2] = PREVIEW
    BY HubAssumption DEF Links
  <2>5. ASSUME NEW b \in Buffers, NEW t \in FrameTypes, NEW x
        PROVE  IsCopy(x, held', b, t) <=> t = PREVIEW /\ b \notin Queueable /\ x = <<d, 1>>
    <3> HIDE DEF d
    <3>1. ASSUME NEW l \in Links, l # d \/ b \in Queueable
          PROVE  ~\E k \in 1..held'[<<l, b>>] : x = <<l, k>>
      BY <2>3, <3>1
    <3>2. ASSUME b \notin Queueable PROVE (\E k \in 1..held'[<<d, b>>] : x = <<d, k>>) <=> x = <<d, 1>>
      BY <2>3, <2>4, <3>2
    <3> QED BY <2>4, <3>1, <3>2 DEF IsCopy
  <2>6. ASSUME NEW b \in Buffers, NEW t \in FrameTypes
        PROVE  HeldFrames(b, t)' = IF t = PREVIEW /\ b \notin Queueable THEN {<<d, 1>>} ELSE {}
    <3> HIDE DEF d
    <3>1. \A x : x \in Copies(held', b, t) <=> t = PREVIEW /\ b \notin Queueable /\ x = <<d, 1>>
      BY <2>5, InCopies
    <3>2. Copies(held', b, t) = IF t = PREVIEW /\ b \notin Queueable THEN {<<d, 1>>} ELSE {}
      BY <3>1
    <3> QED BY <3>2, HeldIsCopies
  <2>7. ASSUME NEW b \in Buffers, NEW t \in FrameTypes PROVE Returns(b, t)' = {}
    BY <1>2, <2>2 DEF Returns, Returning
  <2>8. ASSUME NEW b \in Buffers, NEW t \in FrameTypes
        PROVE  mRefCount'[b][t] = IF t = PREVIEW /\ b \notin Queueable THEN 1 ELSE 0
    BY <1>5 DEF UseBuffersPreview, NoRefs, FrameTypes
  <2> HIDE DEF d
  <2>9. ASSUME NEW b \in Buffers, NEW t \in FrameTypes
        PROVE  /\ IsFiniteSet(HeldFrames(b, t))' /\ IsFiniteSet(Returns(b, t))'
               /\ mRefCount'[b][t] <= Cardinality(HeldFrames(b, t))' + Cardinality(Returns(b, t))'
    <3>1. IsFiniteSet(Returns(b, t))' /\ Cardinality(Returns(b, t))' = 0
      BY <2>7, FS_EmptySet
    <3>2. CASE t = PREVIEW /\ b \notin Queueable
      <4>1. HeldFrames(b, t)' = {<<d, 1>>}
        BY <2>6, <3>2
      <4>2. IsFiniteSet(HeldFrames(b, t))' /\ Cardinality(HeldFrames(b, t))' = 1
        BY <4>1, FS_Singleton
      <4> QED BY <2>8, <3>1, <3>2, <4>2
    <3>3. CASE ~(t = PREVIEW /\ b \notin Queueable)
      <4>1. HeldFrames(b, t)' = {}
        BY <2>6, <3>3
      <4>2. IsFiniteSet(HeldFrames(b, t))' /\ Cardinality(HeldFrames(b, t))' = 0
        BY <4>1, FS_EmptySet
      <4> QED BY <2>8, <3>1, <3>3, <4>2
    <3> QED BY <3>2, <3>3
  <2>10. mStreamBuffers' = Buffers
    BY <1>5 DEF UseBuffersPreview
  <2> QED BY <2>9, <2>10 DEF FiniteOwners, EveryRefOwed
<1>6. CASE StartPreviewSetState \/ startPreview \/ StartPreviewCommit \/ StopPreviewSetState
           \/ stopPreview
             \/ StopPreviewRefused \/ StopPreviewCommit
  BY <1>4, <1>6 DEF StartPreviewSetState, startPreview, StartPreviewCommit, StopPreviewSetState,
                    stopPreview, StopPreviewRefused, StopPreviewCommit
<1>7. CASE HalCall
  <2>1. UNCHANGED <<held, mRefCount, mStreamBuffers>>
    BY <1>7, HalCallFrame DEF CallFrame
  <2>2. forgotten' = forgotten
    BY <1>7 DEF HalCall, startVideoCapture, stopVideoCapture, subscribe, unsubscribe
  <2> QED BY <1>4, <2>1, <2>2
<1>8. CASE startRecording \/ ClearLockStream \/ ClearDone
           \/ \E b \in Buffers : ClearReadOldSum(b) \/ ClearCheck(b) \/ ClearFill(b)
  BY <1>4, <1>8 DEF startRecording, ClearLockStream, ClearDone, ClearReadOldSum, ClearCheck, ClearFill
<1>9. ASSUME NEW x \in Buffers, ClearCounts(x) PROVE FiniteOwners' /\ EveryRefOwed'
  <2>1. UNCHANGED <<held, mStreamBuffers>>
    BY <1>9 DEF ClearCounts
  <2>2. hal.type \in FrameTypes
    BY <1>1 DEF HalThread
  <2>3. \A b \in Buffers, t \in FrameTypes : mRefCount'[b][t] \in {0, mRefCount[b][t]}
    BY <1>1, <1>9, <2>2 DEF ClearCounts, clearRefCount
  <2>5. \A b \in forgotten : b \in forgotten' \/ mRefCount'[b][VIDEO] = 0
    <3> TAKE b \in forgotten
    <3>1. CASE b = x /\ hal.type = VIDEO
      BY <1>1, <1>9, <2>2, <3>1 DEF ClearCounts, clearRefCount
    <3>2. CASE ~(b = x /\ hal.type = VIDEO)
      BY <1>9, <3>2 DEF ClearCounts
    <3> QED BY <3>1, <3>2
  <2>4. \A b \in Buffers, t \in FrameTypes : mRefCount'[b][t] <= mRefCount[b][t]
    <3> TAKE b \in Buffers, t \in FrameTypes
    <3>1. mRefCount[b][t] \in Nat /\ mRefCount'[b][t] \in {0, mRefCount[b][t]}
      BY <1>1, <2>3
    <3> QED BY <3>1
  <2> QED BY <1>1, <1>2, <1>3, <2>1, <2>4, <2>5, OwnersKept
<1> QED BY <1>5, <1>6, <1>7, <1>8, <1>9 DEF HalStep, HalSession, HalClear

LEMMA OmxOwners ==
  ASSUME RefInv, OwedInv, OmxStep, RefInv'
  PROVE  FiniteOwners' /\ EveryRefOwed'
<1> USE DEF refVars, heldVars, adapterVars, omxVars
<1>1. /\ mRefCount \in [Buffers -> [FrameTypes -> Nat]] /\ mStreamBuffers \subseteq Buffers
      /\ mRefCount' \in [Buffers -> [FrameTypes -> Nat]]
      /\ held \in [Links \X Buffers -> Nat] /\ omx \in OMXThread
      /\ ret \in [Threads -> ReturnCall]
  BY DEF RefInv, TypeOK
<1>2. FiniteOwners /\ EveryRefOwed /\ LinkInv /\ CallInv
  BY DEF OwedInv
<1>3. ASSUME UNCHANGED <<held, ret, mRefCount, mStreamBuffers, forgotten>>
      PROVE  FiniteOwners' /\ EveryRefOwed'
  <2>1. \A b \in Buffers, t \in FrameTypes : mRefCount'[b][t] <= mRefCount[b][t]
    BY <1>1, <1>3
  <2> QED BY <1>1, <1>2, <1>3, <2>1, OwnersKept
<1>4. ASSUME NEW b \in Buffers, FillBufferDone(b) PROVE FiniteOwners' /\ EveryRefOwed'
  BY <1>3, <1>4 DEF FillBufferDone
<1>5. CASE SendDone
  BY <1>3, <1>5 DEF SendDone
<1>6. ASSUME NEW t \in FrameTypes, SendLockType(t) \/ SendLockStream(t) \/ SendRelock(t)
      PROVE  FiniteOwners' /\ EveryRefOwed'
  BY <1>3, <1>6 DEF SendLockType, SendLockStream, SendRelock
<1>7. ASSUME NEW c \in Cookies, NEW t \in FrameTypes, SendToSubscriber(c, t)
      PROVE  FiniteOwners' /\ EveryRefOwed'
  <2> DEFINE l == <<c, t>>
             b == omx.buf
  <2>1. /\ b \in Buffers /\ omx.pc = "inc" /\ Least(t, omx.types) /\ c \in omx.todo
        /\ mStreamBuffers' = mStreamBuffers
        /\ CallbackKeeps(c, t) \/ CallbackForgetsVideo(t) \/ CallbackReturns(c, t)
        /\ mRefCount' = [mRefCount EXCEPT ![b][t] = @ + 1]
    BY <1>1, <1>7 DEF SendToSubscriber, Least, OMXThread, incRefCount
  <2>2. l \in Links /\ l[2] = t
    BY <1>2, <2>1 DEF LinkInv
  <2>3. ret["omx"].pc = "idle" /\ "omx" \in Threads
    BY <1>2, <2>1 DEF CallInv, Threads
  <2>4. \A x \in Buffers, u \in FrameTypes :
          mRefCount'[x][u] = IF x = b /\ u = t THEN mRefCount[x][u] + 1 ELSE mRefCount[x][u]
    BY <1>1, <2>1
  <2> SUFFICES ASSUME NEW x \in Buffers, NEW u \in FrameTypes
               PROVE  /\ IsFiniteSet(HeldFrames(x, u))' /\ IsFiniteSet(Returns(x, u))'
                      /\ x \in mStreamBuffers =>
                           \/ mRefCount'[x][u] <= Cardinality(HeldFrames(x, u))'
                                                  + Cardinality(Returns(x, u))'
                           \/ u = VIDEO /\ x \in forgotten'
    BY <1>1, <2>1 DEF FiniteOwners, EveryRefOwed
  <2>5. /\ IsFiniteSet(HeldFrames(x, u)) /\ IsFiniteSet(Returns(x, u))
        /\ Cardinality(HeldFrames(x, u)) \in Nat /\ Cardinality(Returns(x, u)) \in Nat
    BY <1>2, FS_CardinalityType DEF FiniteOwners
  <2>6. /\ mRefCount[x][u] \in Nat
        /\ x \in mStreamBuffers =>
             \/ mRefCount[x][u] <= Cardinality(HeldFrames(x, u)) + Cardinality(Returns(x, u))
             \/ u = VIDEO /\ x \in forgotten
    BY <1>1, <1>2 DEF EveryRefOwed
  <2>7. CASE CallbackKeeps(c, t)
    <3>1. UNCHANGED <<ret, forgotten>> /\ held' = [held EXCEPT ![<<l, b>>] = held[<<l, b>>] + 1]
      BY <2>7 DEF CallbackKeeps
    <3>2. Returns(x, u)' = Returns(x, u)
      BY <3>1 DEF Returns, Returning
    <3> HIDE DEF l, b
    <3> DEFINE n == held[<<l, b>>] + 1
    <3>3. n \in Nat /\ n = held[<<l, b>>] + 1 /\ held[<<l, b>>] \in Nat
      BY <1>1, <2>1, <2>2
    <3>4. held' = [held EXCEPT ![<<l, b>>] = n]
      BY <3>1
    <3> HIDE DEF n
    <3>5. IsFiniteSet(Copies(held, x, u)) /\ Copies(held, x, u) = HeldFrames(x, u)
      BY <2>5, HeldIsCopies
    <3>6. /\ IsFiniteSet(Copies(held', x, u))
          /\ Cardinality(Copies(held', x, u)) =
               IF x = b /\ u = l[2] THEN Cardinality(Copies(held, x, u)) + n - held[<<l, b>>]
               ELSE Cardinality(Copies(held, x, u))
      <4>1. Moves(held, held', l, b, n)
        BY <1>1, <2>1, <2>2, <3>3, <3>4 DEF Moves
      <4>2. CopiesMove(held, held', l, b, n, x, u)
        BY <3>5, <4>1, OneCopy, Zenon
      <4> QED BY <4>2 DEF CopiesMove
    <3>7. /\ IsFiniteSet(HeldFrames(x, u))'
          /\ Cardinality(HeldFrames(x, u))' =
               IF x = b /\ u = t THEN Cardinality(HeldFrames(x, u)) + 1
               ELSE Cardinality(HeldFrames(x, u))
      BY <2>2, <2>5, <3>3, <3>5, <3>6, HeldIsCopies
    <3>8. Cardinality(Returns(x, u))' = Cardinality(Returns(x, u)) /\ IsFiniteSet(Returns(x, u))'
      BY <2>5, <3>2
    <3>9. CASE x = b /\ u = t
      BY <2>4, <2>5, <2>6, <3>1, <3>7, <3>8, <3>9
    <3>10. CASE ~(x = b /\ u = t)
      BY <2>4, <2>5, <2>6, <3>1, <3>7, <3>8, <3>10
    <3> QED BY <3>9, <3>10
  <2>8. CASE CallbackReturns(c, t)
    <3>1. /\ UNCHANGED <<held, forgotten>>
          /\ ret' = [ret EXCEPT !["omx"] = [pc |-> "lock", buf |-> b, type |-> t]]
      BY <2>8 DEF CallbackReturns
    <3>2. HeldFrames(x, u)' = HeldFrames(x, u)
      BY <3>1, HeldIsCopies
    <3>3. /\ \A th \in Threads : th # "omx" => ret'[th] = ret[th]
          /\ ret'["omx"] = [pc |-> "lock", buf |-> b, type |-> t]
      BY <1>1, <2>3, <3>1
    <3>4. ~Returning("omx", x, u) /\ (Returning("omx", x, u)' <=> x = b /\ u = t)
      BY <2>3, <3>3 DEF Returning
    <3> HIDE DEF b
    <3>5. /\ IsFiniteSet(Returns(x, u))'
          /\ Cardinality(Returns(x, u))' =
               IF x = b /\ u = t THEN Cardinality(Returns(x, u)) + 1
               ELSE Cardinality(Returns(x, u))
      BY <2>3, <2>5, <3>3, <3>4, OneReturn
    <3>6. CASE x = b /\ u = t
      BY <2>4, <2>5, <2>6, <3>1, <3>2, <3>5, <3>6
    <3>7. CASE ~(x = b /\ u = t)
      BY <2>4, <2>5, <2>6, <3>1, <3>2, <3>5, <3>7
    <3> QED BY <3>6, <3>7
  <2>9. CASE CallbackForgetsVideo(t)
    <3>1. UNCHANGED <<held, ret>> /\ t = VIDEO /\ forgotten' = forgotten \cup {b}
      BY <2>9 DEF CallbackForgetsVideo
    <3>2. HeldFrames(x, u)' = HeldFrames(x, u) /\ Returns(x, u)' = Returns(x, u)
      BY <3>1, HeldIsCopies DEF Returns, Returning
    <3> HIDE DEF b
    <3>3. CASE x = b /\ u = t
      BY <2>5, <3>1, <3>2, <3>3
    <3>4. CASE ~(x = b /\ u = t)
      BY <2>4, <2>5, <2>6, <3>1, <3>2, <3>4
    <3> QED BY <3>3, <3>4
  <2> QED BY <2>1, <2>7, <2>8, <2>9
<1> QED BY <1>4, <1>5, <1>6, <1>7 DEF OmxStep, Dispatch

LEMMA ReturnOwners ==
  ASSUME RefInv, OwedInv, ReturnStep, RefInv'
  PROVE  FiniteOwners' /\ EveryRefOwed'
<1> USE DEF refVars, heldVars, adapterVars, omxVars
<1>1. /\ mRefCount \in [Buffers -> [FrameTypes -> Nat]] /\ mStreamBuffers \subseteq Buffers
      /\ mRefCount' \in [Buffers -> [FrameTypes -> Nat]]
      /\ held \in [Links \X Buffers -> Nat]
      /\ ret \in [Threads -> ReturnCall]
  BY DEF RefInv, TypeOK
<1>2. FiniteOwners /\ EveryRefOwed
  BY DEF OwedInv
<1>3. mStreamBuffers' = mStreamBuffers /\ forgotten' = forgotten
  <2>1. ASSUME NEW th \in Threads, NEW l \in Links, NEW b \in Buffers, BeginReturn(th, l, b)
        PROVE  forgotten' = forgotten
    BY <2>1 DEF BeginReturn
  <2>2. ASSUME NEW th \in Threads, Return(th) PROVE forgotten' = forgotten
    BY <2>2 DEF Return, ReturnLock, getStreamBuffer, ReturnDec, ReturnFill
  <2> QED BY <2>1, <2>2, ReturnFrame DEF ReturnStep
<1> SUFFICES ASSUME NEW x \in Buffers, NEW u \in FrameTypes
             PROVE  /\ IsFiniteSet(HeldFrames(x, u))' /\ IsFiniteSet(Returns(x, u))'
                    /\ x \in mStreamBuffers =>
                         \/ mRefCount'[x][u] <= Cardinality(HeldFrames(x, u))'
                                                + Cardinality(Returns(x, u))'
                         \/ u = VIDEO /\ x \in forgotten
  BY <1>1, <1>3 DEF FiniteOwners, EveryRefOwed
<1>4. /\ IsFiniteSet(HeldFrames(x, u)) /\ IsFiniteSet(Returns(x, u))
      /\ Cardinality(HeldFrames(x, u)) \in Nat /\ Cardinality(Returns(x, u)) \in Nat
  BY <1>2, FS_CardinalityType DEF FiniteOwners
<1>5. /\ mRefCount[x][u] \in Nat /\ mRefCount'[x][u] \in Nat
      /\ x \in mStreamBuffers =>
           \/ mRefCount[x][u] <= Cardinality(HeldFrames(x, u)) + Cardinality(Returns(x, u))
           \/ u = VIDEO /\ x \in forgotten
  BY <1>1, <1>2 DEF EveryRefOwed
(* The frame moves from the consumer's hand to its call.                   *)
<1>6. ASSUME NEW th \in Threads, NEW l \in Links, NEW b \in Buffers, BeginReturn(th, l, b)
      PROVE  /\ IsFiniteSet(HeldFrames(x, u))' /\ IsFiniteSet(Returns(x, u))'
             /\ mRefCount'[x][u] = mRefCount[x][u]
             /\ Cardinality(HeldFrames(x, u))' + Cardinality(Returns(x, u))' =
                  Cardinality(HeldFrames(x, u)) + Cardinality(Returns(x, u))
  <2> DEFINE n == held[<<l, b>>] - 1
  <2>1. n \in Nat /\ held[<<l, b>>] = n + 1
    BY <1>1, <1>6 DEF BeginReturn
  <2>2. held' = [held EXCEPT ![<<l, b>>] = n]
    BY <1>6 DEF BeginReturn
  <2> HIDE DEF n
  <2>3. Moves(held, held', l, b, n)
    BY <1>1, <2>1, <2>2 DEF Moves
  <2>4. IsFiniteSet(Copies(held, x, u)) /\ Copies(held, x, u) = HeldFrames(x, u)
    BY <1>4, HeldIsCopies
  <2>5. CopiesMove(held, held', l, b, n, x, u)
    BY <2>3, <2>4, OneCopy, Zenon
  <2>6. /\ IsFiniteSet(HeldFrames(x, u))'
        /\ Cardinality(HeldFrames(x, u))' =
             IF x = b /\ u = l[2] THEN Cardinality(HeldFrames(x, u)) - 1
             ELSE Cardinality(HeldFrames(x, u))
    BY <1>4, <2>1, <2>4, <2>5, HeldIsCopies DEF CopiesMove
  <2>7. /\ \A v \in Threads : v # th => ret'[v] = ret[v]
        /\ ret'[th] = [pc |-> "lock", buf |-> b, type |-> l[2]]
        /\ ret[th].pc = "idle" /\ mRefCount' = mRefCount
    BY <1>1, <1>6 DEF BeginReturn
  <2>8. ~Returning(th, x, u) /\ (Returning(th, x, u)' <=> x = b /\ u = l[2])
    BY <2>7 DEF Returning
  <2>9. /\ IsFiniteSet(Returns(x, u))'
        /\ Cardinality(Returns(x, u))' =
             IF x = b /\ u = l[2] THEN Cardinality(Returns(x, u)) + 1
             ELSE Cardinality(Returns(x, u))
    BY <1>4, <2>7, <2>8, OneReturn
  <2>10. CASE x = b /\ u = l[2]
    BY <1>4, <2>6, <2>7, <2>9, <2>10
  <2>11. CASE ~(x = b /\ u = l[2])
    BY <1>4, <2>6, <2>7, <2>9, <2>11
  <2> QED BY <2>10, <2>11
<1>7. ASSUME NEW th \in Threads, Return(th)
      PROVE  /\ HeldFrames(x, u)' = HeldFrames(x, u)
             /\ IsFiniteSet(Returns(x, u))'
             /\ x \in mStreamBuffers =>
                  \/ /\ mRefCount'[x][u] = mRefCount[x][u]
                     /\ Cardinality(Returns(x, u))' = Cardinality(Returns(x, u))
                  \/ /\ mRefCount[x][u] > 0 => mRefCount'[x][u] = mRefCount[x][u] - 1
                     /\ mRefCount[x][u] = 0 => mRefCount'[x][u] = 0
                     /\ Cardinality(Returns(x, u))' >= Cardinality(Returns(x, u)) - 1
                     /\ Cardinality(Returns(x, u))' \in Nat
  <2>1. held' = held /\ \A v \in Threads : v # th => ret'[v] = ret[v]
    BY <1>1, <1>7 DEF Return, ReturnLock, getStreamBuffer, ReturnDec, ReturnFill, EndReturn
  <2>2. HeldFrames(x, u)' = HeldFrames(x, u)
    BY <2>1, HeldIsCopies
  <2>3. /\ IsFiniteSet(Returns(x, u))' /\ Cardinality(Returns(x, u))' \in Nat
        /\ Returning(th, x, u)' <=> Returning(th, x, u) =>
             Cardinality(Returns(x, u))' = Cardinality(Returns(x, u))
        /\ Cardinality(Returns(x, u))' >= Cardinality(Returns(x, u)) - 1
    BY <1>4, <2>1, OneReturn
  <2>4. CASE ReturnLock(th)
    <3>1. /\ mRefCount' = mRefCount /\ ret[th].pc = "lock"
          /\ ret'[th] = [ret[th] EXCEPT !.pc = "get"]
      BY <1>1, <2>4 DEF ReturnLock
    <3>2. Returning(th, x, u)' <=> Returning(th, x, u)
      BY <1>1, <3>1 DEF Returning, ReturnCall
    <3> QED BY <2>2, <2>3, <3>1, <3>2
  <2>5. CASE getStreamBuffer(th) /\ ret[th].buf \in mStreamBuffers
    <3>1. /\ mRefCount' = mRefCount /\ ret[th].pc = "get"
          /\ ret'[th] = [ret[th] EXCEPT !.pc = "dec"]
      BY <1>1, <2>5 DEF getStreamBuffer
    <3>2. Returning(th, x, u)' <=> Returning(th, x, u)
      BY <1>1, <3>1 DEF Returning, ReturnCall
    <3> QED BY <2>2, <2>3, <3>1, <3>2
  <2>6. CASE getStreamBuffer(th) /\ ret[th].buf \notin mStreamBuffers
    <3>1. /\ mRefCount' = mRefCount /\ ret'[th] = IdleRet
      BY <1>1, <2>6 DEF getStreamBuffer, EndReturn
    <3>2. x \in mStreamBuffers => ~Returning(th, x, u)
      BY <2>6 DEF Returning
    <3>3. ~Returning(th, x, u)'
      BY <3>1 DEF Returning, IdleRet
    <3> QED BY <2>2, <2>3, <3>1, <3>2, <3>3
  <2>7. CASE ReturnDec(th)
    <3> DEFINE b == ret[th].buf
               t == ret[th].type
    <3>1. b \in Buffers /\ t \in FrameTypes /\ ret[th].pc = "dec" /\ decRefCount(b, t)
      BY <1>1, <2>7 DEF ReturnDec, ReturnCall
    <3>2. Returning(th, x, u) <=> x = b /\ u = t
      BY <3>1 DEF Returning
    <3>3. ~Returning(th, x, u)'
      <4>1. ret'[th].pc \in {"fill", "idle"}
        BY <1>1, <2>7 DEF ReturnDec, EndReturn, IdleRet, ReturnCall
      <4> QED BY <4>1 DEF Returning
    <3> HIDE DEF b, t
    <3>4. CASE x = b /\ u = t
      <4>1. CASE mRefCount[b][t] > 0
        <5>1. mRefCount' = [mRefCount EXCEPT ![b][t] = @ - 1]
          BY <3>1, <4>1 DEF decRefCount
        <5>2. mRefCount'[x][u] = mRefCount[x][u] - 1
          BY <1>1, <3>4, <5>1
        <5> QED BY <2>2, <2>3, <3>4, <4>1, <5>2
      <4>2. CASE ~(mRefCount[b][t] > 0)
        <5>1. mRefCount' = mRefCount
          BY <3>1, <4>2 DEF decRefCount
        <5> QED BY <1>5, <2>2, <2>3, <3>4, <4>2, <5>1
      <4> QED BY <4>1, <4>2
    <3>5. CASE ~(x = b /\ u = t)
      <4>1. mRefCount'[x][u] = mRefCount[x][u]
        BY <1>1, <3>1, <3>5 DEF decRefCount
      <4> QED BY <2>2, <2>3, <3>2, <3>3, <3>5, <4>1
    <3> QED BY <3>4, <3>5
  <2>8. CASE ReturnFill(th)
    <3>1. mRefCount' = mRefCount /\ ret[th].pc = "fill" /\ ret'[th] = IdleRet
      BY <1>1, <2>8 DEF ReturnFill, EndReturn
    <3>2. ~Returning(th, x, u) /\ ~Returning(th, x, u)'
      BY <3>1 DEF Returning, IdleRet
    <3> QED BY <2>2, <2>3, <3>1, <3>2
  <2> QED BY <1>7, <2>4, <2>5, <2>6, <2>7, <2>8 DEF Return
<1>8. CASE \E th \in Threads, l \in Links, b \in Buffers : BeginReturn(th, l, b)
  BY <1>4, <1>5, <1>6, <1>8
<1>9. CASE \E th \in Threads : Return(th)
  <2>1. IsFiniteSet(HeldFrames(x, u))' /\ Cardinality(HeldFrames(x, u))' = Cardinality(HeldFrames(x, u))
    BY <1>4, <1>7, <1>9
  <2> QED BY <1>4, <1>5, <1>7, <1>9, <2>1
<1> QED BY <1>8, <1>9 DEF ReturnStep

LEMMA InitOwedInv == Init => OwedInv
<1> SUFFICES ASSUME Init PROVE OwedInv
  OBVIOUS
<1>1. CallInv /\ LinkInv
  BY DEF Init, CallInv, LinkInv, IdleRet, IdleOMX, IdleHal, Links, Threads
<1>2. EveryRefOwed
  BY DEF Init, EveryRefOwed
<1>3. ASSUME NEW b \in Buffers, NEW t \in FrameTypes
      PROVE  HeldFrames(b, t) = {} /\ Returns(b, t) = {}
  <2>1. \A l \in Links : held[<<l, b>>] = 0
    <3> TAKE l \in Links
    <3>1. <<l, b>> \in Links \X Buffers
      OBVIOUS
    <3> QED BY <3>1 DEF Init
  <2>2. \A x : ~IsCopy(x, held, b, t)
    <3> SUFFICES ASSUME NEW x, NEW l \in Links, NEW k \in 1..held[<<l, b>>] PROVE FALSE
      BY DEF IsCopy
    <3>1. held[<<l, b>>] = 0
      BY <2>1
    <3> QED BY <3>1
  <2>3. Copies(held, b, t) = {}
    BY <2>2, InCopies
  <2>4. Returns(b, t) = {}
    <3>1. \A th \in Threads : ret[th].pc = "idle"
      BY DEF Init, IdleRet
    <3> QED BY <3>1 DEF Returns, Returning
  <2> QED BY <2>3, <2>4, HeldIsCopies
<1>4. FiniteOwners
  BY <1>3, FS_EmptySet DEF FiniteOwners
<1> QED BY <1>1, <1>2, <1>4 DEF OwedInv

LEMMA NextOwedInv == RefInv /\ OwedInv /\ [Next]_vars => OwedInv'
<1> SUFFICES ASSUME RefInv, OwedInv, [Next]_vars PROVE OwedInv'
  OBVIOUS
<1>1. RefInv' /\ TypeOK
  BY NextRefInv DEF RefInv
<1>2. CallInv' /\ LinkInv'
  BY <1>1, NextCall, NextLink DEF OwedInv
<1>3. FiniteOwners' /\ EveryRefOwed'
  <2>1. CASE UNCHANGED vars
    <3>1. UNCHANGED <<held, ret, mRefCount, mStreamBuffers, forgotten>>
      BY <2>1 DEF vars, refVars, heldVars
    <3>2. \A b, t : HeldFrames(b, t)' = HeldFrames(b, t)
      BY <3>1, HeldIsCopies
    <3>3. \A b, t : Returns(b, t)' = Returns(b, t)
      BY <3>1 DEF Returns, Returning
    <3> QED BY <3>1, <3>2, <3>3 DEF OwedInv, FiniteOwners, EveryRefOwed
  <2> QED BY <1>1, <2>1, HalOwners, OmxOwners, ReturnOwners, Threefold
<1> QED BY <1>2, <1>3 DEF OwedInv

(* Every reference a buffer has is owed by a consumer that holds the frame *)
(* or by a returnFrame call on its way to decRefCount, whatever is         *)
(* subscribed or cleared meanwhile.  The only reference nobody will drop   *)
(* is that of a VIDEO frame frameCallback got while mRecording was not     *)
(* set; it goes when VIDEO is unsubscribed.                                *)
THEOREM RefsOwed == Spec => []EveryRefOwed
<1>1. RefInv /\ OwedInv /\ [Next]_vars => RefInv' /\ OwedInv'
  BY NextRefInv, NextOwedInv
<1>2. OwedInv => EveryRefOwed
  BY DEF OwedInv
<1> QED BY <1>1, <1>2, InitRefInv, InitOwedInv, PTL DEF Spec
==============================================================================
