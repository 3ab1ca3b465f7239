--------------------------- MODULE CameraStreamHub ---------------------------
(***************************************************************************)
(* The preview-frame cycle of the camera HAL.  The OMX component fills a   *)
(* buffer, OMXCameraAdapter::OMXCameraAdapterFillBufferDone hands it to    *)
(* CameraStreamHub::sendFrame, each subscriber of each frame type gets a   *)
(* reference, and when the last reference is dropped fillThisBuffer queues *)
(* the buffer with the component again.                                    *)
(*                                                                         *)
(* Four kinds of threads take steps between lock operations:               *)
(*   - the OMXCallbackHandler thread ("omx"), which dispatches one frame;  *)
(*   - the consumer threads (Returners): display thread, resize and JPEG   *)
(*     threads, binder threads in releaseRecordingFrame;                   *)
(*   - the CameraHal thread ("hal"), which starts and stops the preview    *)
(*     and subscribes and unsubscribes consumers.                          *)
(* The hub has one CameraStream per stream type; the module follows the    *)
(* preview stream.  A buffer's own mutex is held only inside one method,   *)
(* so each such critical section is one step.                              *)
(***************************************************************************)
EXTENDS Integers, FiniteSets

CONSTANTS
  Buffers,      \* preview buffers; integers, KeyedVector orders by address
  Queueable,    \* the first mMaxQueueable of them
  Cookies,      \* subscriber objects; integers, KeyedVector orders by address
  DisplayCookie,\* the ANativeWindowDisplayAdapter among them
  Returners,    \* consumer threads
  Subscribed,   \* <<cookie, type>> pairs subscribed before START_PREVIEW
  Toggled,      \* pairs the HAL subscribes and unsubscribes during preview
  MaxHeld,      \* bound: copies of one buffer a consumer may have in hand
  Incomplete,   \* may OMX deliver a buffer without the end of its frame?
  EarlyFrames   \* may OMX deliver a frame before START_PREVIEW is committed?

(* CameraFrame::FrameType as the index toFrameTypeIndex gives it.          *)
PREVIEW == 0
VIDEO   == 1
FD      == 2
RAW     == 3
IMAGE   == 4
FrameTypes == 0..4

NONE == "none"
Threads == {"omx"} \cup Returners
Links == Subscribed \cup Toggled

ASSUME HubAssumption ==
  /\ Buffers \subseteq Int /\ Buffers # {}
  /\ Queueable \subseteq Buffers
  /\ Cookies \subseteq Int
  /\ DisplayCookie \in Cookies
  /\ Returners \cap {NONE, "omx", "hal"} = {}
  /\ Subscribed \subseteq Cookies \X FrameTypes
  /\ Toggled \subseteq Cookies \X FrameTypes
  /\ <<DisplayCookie, PREVIEW>> \in Subscribed
  /\ MaxHeld \in Nat \ {0}
  /\ Incomplete \in BOOLEAN
  /\ EarlyFrames \in BOOLEAN

VARIABLES
  \* CameraStream and its CameraStreamBuffers
  mStreamBuffers,     \* buffers registered with the stream
  mRefCount,          \* [Buffers -> [FrameTypes -> Nat]]
  mRefCountSum,       \* [Buffers -> Nat]
  mLock,              \* owner of CameraStream::mLock
  \* CameraStreamHub
  mSubscribers,       \* [FrameTypes -> SUBSET Cookies]
  mLocks,             \* [FrameTypes -> owner]
  \* BaseCameraAdapter / OMXCameraAdapter
  mReturnFrameLock,   \* its owner
  previewActive,      \* PREVIEW_ACTIVE is set in mAdapterState
  nextPreviewActive,  \* PREVIEW_ACTIVE is set in mNextState
  mPortEnable,        \* the preview port's flag
  extraTypes,         \* types FillBufferDone sends besides PREVIEW
  withOMX,            \* buffers queued with the OMX component
  mHandleComp,        \* the component's handle is not NULL
  dropped,            \* history: buffers FillBufferDone has thrown away
  \* frames delivered to a consumer and not given back yet
  held,               \* [Links \X Buffers -> Nat]
  mDisplayQ,          \* PostFrame messages the display thread has not served
  mRecording,         \* AppCallbackNotifier's flag
  forgotten,          \* history: buffers whose VIDEO frame nobody will return
  \* the threads
  omx,                \* the dispatch in progress
  ret,                \* [Threads -> the returnFrame call in progress]
  hal                 \* the preview session and the unsubscribe in progress

refVars     == <<mRefCount, mRefCountSum>>
heldVars    == <<held, mDisplayQ, mRecording, forgotten>>
adapterVars == <<previewActive, nextPreviewActive, mPortEnable, extraTypes>>
omxVars     == <<withOMX, mHandleComp, dropped>>
vars == <<mStreamBuffers, mRefCount, mRefCountSum, mLock, mSubscribers, mLocks,
          mReturnFrameLock, adapterVars, omxVars, heldVars, omx, ret, hal>>

Least(x, S) == x \in S /\ \A y \in S : x <= y

NoRefs   == [t \in FrameTypes |-> 0]
NoBuffer == CHOOSE b \in Buffers : TRUE

(* A thread outside its call; the fields of a call are dead then.          *)
IdleOMX == [pc |-> "idle", buf |-> NoBuffer, types |-> {}, todo |-> {}]
IdleRet == [pc |-> "idle", buf |-> NoBuffer, type |-> PREVIEW]
IdleHal(session) ==
  [session |-> session, pc |-> "idle", type |-> PREVIEW, todo |-> {}, oldSum |-> 0]

Total(counts) == counts[0] + counts[1] + counts[2] + counts[3] + counts[4]

Init ==
  /\ mStreamBuffers = {}
  /\ mRefCount = [b \in Buffers |-> NoRefs]
  /\ mRefCountSum = [b \in Buffers |-> 0]
  /\ mLock = NONE
  /\ mSubscribers = [t \in FrameTypes |-> {c \in Cookies : <<c, t>> \in Subscribed}]
  /\ mLocks = [t \in FrameTypes |-> NONE]
  /\ mReturnFrameLock = NONE
  /\ previewActive = FALSE
  /\ nextPreviewActive = FALSE
  /\ mPortEnable = FALSE
  /\ extraTypes = {}
  /\ withOMX = {}
  /\ mHandleComp = TRUE
  /\ dropped = {}
  /\ held = [l \in Links \X Buffers |-> 0]
  /\ mDisplayQ = 0
  /\ mRecording = FALSE
  /\ forgotten = {}
  /\ omx = IdleOMX
  /\ ret = [th \in Threads |-> IdleRet]
  /\ hal = IdleHal("init")

-----------------------------------------------------------------------------
(* CameraStreamBuffer: each operator gives the new reference counts.       *)

incRefCount(b, t) ==
  /\ mRefCountSum' = [mRefCountSum EXCEPT ![b] = @ + 1]
  /\ mRefCount' = [mRefCount EXCEPT ![b][t] = @ + 1]

(* Mutant of decRefCount: without the guard.                               *)
decRefCountUnguarded(b, t) ==
  /\ mRefCountSum' = [mRefCountSum EXCEPT ![b] = @ - 1]
  /\ mRefCount' = [mRefCount EXCEPT ![b][t] = @ - 1]

(* The guard in decRefCount makes a return nobody is owed a no-op.         *)
decRefCount(b, t) ==
  IF mRefCount[b][t] > 0
  THEN /\ mRefCountSum' = [mRefCountSum EXCEPT ![b] = @ - 1]
       /\ mRefCount' = [mRefCount EXCEPT ![b][t] = @ - 1]
  ELSE UNCHANGED refVars

(* Mutant of LastRef: the sum compared as if it were already decremented.  *)
LastRefOffByOne(b, t) == mRefCount[b][t] > 0 /\ mRefCountSum[b] = 0

LastRef(b, t) == mRefCount[b][t] > 0 /\ mRefCountSum[b] = 1

(* Mutant of clearRefCount: the sum is forgotten.                          *)
clearRefCountOnly(b, t) ==
  /\ mRefCount' = [mRefCount EXCEPT ![b][t] = 0]
  /\ UNCHANGED mRefCountSum

(* The locked part of clearRefCount.                                       *)
clearRefCount(b, t) ==
  /\ mRefCountSum' = [mRefCountSum EXCEPT ![b] = @ - mRefCount[b][t]]
  /\ mRefCount' = [mRefCount EXCEPT ![b][t] = 0]

(* performCleanupAfterError frees the component, and its buffers with it.  *)
performCleanupAfterError == mHandleComp' = FALSE /\ withOMX' = {}

(* OMXCameraAdapter::fillThisBuffer: without PREVIEW_ACTIVE in the         *)
(* committed state (NO_INIT) or with a disabled port the buffer is not     *)
(* queued, and nobody tries again.  OMX_FillThisBuffer may fail.  With the *)
(* handle gone it dereferences NULL and the process dies: the caller takes *)
(* no further step.                                                        *)
fillThisBuffer(b) ==
  \/ ~(previewActive /\ mPortEnable) /\ UNCHANGED <<withOMX, mHandleComp>>
  \/ /\ previewActive /\ mPortEnable /\ mHandleComp
     /\ \/ withOMX' = withOMX \cup {b} /\ UNCHANGED mHandleComp
        \/ performCleanupAfterError

-----------------------------------------------------------------------------
(* CameraHal thread: one preview session through sendCommand.              *)

HalIdle(session) == hal.session = session /\ hal.pc = "idle"

(* CAMERA_USE_BUFFERS_PREVIEW: buffers past mMaxQueueable stay with the    *)
(* display, so they start with one PREVIEW reference.                      *)
UseBuffersPreview ==
  /\ HalIdle("init")
  /\ mLock = NONE
  /\ mStreamBuffers' = Buffers
  /\ mRefCount' = [b \in Buffers |->
       IF b \in Queueable THEN NoRefs ELSE [NoRefs EXCEPT ![PREVIEW] = 1]]
  /\ mRefCountSum' = [b \in Buffers |-> IF b \in Queueable THEN 0 ELSE 1]
  /\ held' = [l \in Links \X Buffers |->
       IF l[1] = <<DisplayCookie, PREVIEW>> /\ l[2] \notin Queueable
       THEN 1 ELSE held[l]]
  /\ UNCHANGED <<mDisplayQ, mRecording, forgotten>>
  /\ hal' = [hal EXCEPT !.session = "loaded"]
  /\ UNCHANGED <<mLock, mSubscribers, mLocks, mReturnFrameLock, adapterVars,
                 omxVars, omx, ret>>

(* CAMERA_START_PREVIEW: setState(), startPreview(), commitState().        *)
StartPreviewSetState ==
  /\ HalIdle("loaded")
  /\ nextPreviewActive' = TRUE
  /\ hal' = [hal EXCEPT !.session = "starting"]
  /\ UNCHANGED <<mStreamBuffers, refVars, mLock, mSubscribers, mLocks,
                 mReturnFrameLock, previewActive, mPortEnable, extraTypes,
                 omxVars, heldVars, omx, ret>>

startPreview ==
  /\ HalIdle("starting")
  /\ mPortEnable' = TRUE
  /\ withOMX' = withOMX \cup Queueable
  /\ hal' = [hal EXCEPT !.session = "queued"]
  /\ UNCHANGED <<mStreamBuffers, refVars, mLock, mSubscribers, mLocks,
                 mReturnFrameLock, previewActive, nextPreviewActive, extraTypes,
                 mHandleComp, dropped, heldVars, omx, ret>>

StartPreviewCommit ==
  /\ HalIdle("queued")
  /\ previewActive' = TRUE
  /\ hal' = [hal EXCEPT !.session = "preview"]
  /\ UNCHANGED <<mStreamBuffers, refVars, mLock, mSubscribers, mLocks,
                 mReturnFrameLock, nextPreviewActive, mPortEnable, extraTypes,
                 omxVars, heldVars, omx, ret>>

(* CAMERA_STOP_PREVIEW: setState(), stopPreview() disables the port and    *)
(* frees the OMX buffers, removeAllFrameBuffer(), commitState().           *)
StopPreviewSetState ==
  /\ HalIdle("preview")
  /\ nextPreviewActive' = FALSE
  /\ hal' = [hal EXCEPT !.session = "stopping"]
  /\ UNCHANGED <<mStreamBuffers, refVars, mLock, mSubscribers, mLocks,
                 mReturnFrameLock, previewActive, mPortEnable, extraTypes,
                 omxVars, heldVars, omx, ret>>

stopPreview ==
  /\ HalIdle("stopping")
  /\ mHandleComp
  /\ mPortEnable' = FALSE
  /\ withOMX' = {}
  /\ hal' = [hal EXCEPT !.session = "disabled"]
  /\ UNCHANGED <<mStreamBuffers, refVars, mLock, mSubscribers, mLocks,
                 mReturnFrameLock, previewActive, nextPreviewActive, extraTypes,
                 mHandleComp, dropped, heldVars, omx, ret>>

(* After a cleanup mComponentState is not Executing: stopPreview() returns *)
(* NO_INIT and sendCommand rolls the state back.                           *)
StopPreviewRefused ==
  /\ HalIdle("stopping")
  /\ ~mHandleComp
  /\ nextPreviewActive' = TRUE
  /\ hal' = [hal EXCEPT !.session = "preview"]
  /\ UNCHANGED <<mStreamBuffers, refVars, mLock, mSubscribers, mLocks,
                 mReturnFrameLock, previewActive, mPortEnable, extraTypes,
                 omxVars, heldVars, omx, ret>>

StopPreviewCommit ==
  /\ HalIdle("disabled")
  /\ mLock = NONE
  /\ mStreamBuffers' = {}
  /\ previewActive' = FALSE
  /\ hal' = [hal EXCEPT !.session = "stopped"]
  /\ UNCHANGED <<refVars, mLock, mSubscribers, mLocks, mReturnFrameLock,
                 nextPreviewActive, mPortEnable, extraTypes, omxVars, heldVars,
                 omx, ret>>

(* startVideoCapture sets mRecording after the notifier has subscribed,    *)
(* startFaceDetection and a snapshot capture add their types the same way. *)
startVideoCapture(t) ==
  /\ HalIdle("preview")
  /\ t \notin extraTypes \cup {PREVIEW}
  /\ mSubscribers[t] # {}
  /\ extraTypes' = extraTypes \cup {t}
  /\ UNCHANGED <<mStreamBuffers, refVars, mLock, mSubscribers, mLocks,
                 mReturnFrameLock, previewActive, nextPreviewActive,
                 mPortEnable, omxVars, heldVars, omx, ret, hal>>

stopVideoCapture(t) ==
  /\ HalIdle("preview")
  /\ t \in extraTypes
  /\ extraTypes' = extraTypes \ {t}
  /\ UNCHANGED <<mStreamBuffers, refVars, mLock, mSubscribers, mLocks,
                 mReturnFrameLock, previewActive, nextPreviewActive,
                 mPortEnable, omxVars, heldVars, omx, ret, hal>>

-----------------------------------------------------------------------------
(* CameraStreamHub::subscribe and ::unsubscribe, on the CameraHal thread.  *)

(* VIDEO frames are subscribed to in AppCallbackNotifier::startRecording,  *)
(* which goes on to flush its threads before it sets mRecording.           *)
subscribe(c, t) ==
  /\ HalIdle("preview")
  /\ <<c, t>> \in Toggled
  /\ c \notin mSubscribers[t]
  /\ mLocks[t] = NONE
  /\ mSubscribers' = [mSubscribers EXCEPT ![t] = @ \cup {c}]
  /\ hal' = IF t = VIDEO THEN [hal EXCEPT !.pc = "flush"] ELSE hal
  /\ UNCHANGED <<mStreamBuffers, refVars, mLock, mLocks, mReturnFrameLock,
                 adapterVars, omxVars, heldVars, omx, ret>>

startRecording ==
  /\ hal.pc = "flush"
  /\ mRecording' = TRUE
  /\ hal' = [hal EXCEPT !.pc = "idle"]
  /\ UNCHANGED <<mStreamBuffers, refVars, mLock, mSubscribers, mLocks,
                 mReturnFrameLock, adapterVars, omxVars, held, mDisplayQ,
                 forgotten, omx, ret>>

(* stopRecording clears the flag once VIDEO is unsubscribed.               *)
stopRecording(t) == mRecording' = (mRecording /\ t # VIDEO)

(* The references of the type are cleared only when its last subscriber    *)
(* goes; mLocks[t] is then held until every buffer has been visited.       *)
unsubscribe(c, t) ==
  /\ HalIdle("preview")
  /\ <<c, t>> \in Toggled
  /\ c \in mSubscribers[t]
  /\ mLocks[t] = NONE
  /\ mSubscribers' = [mSubscribers EXCEPT ![t] = @ \ {c}]
  /\ IF mSubscribers[t] = {c}
     THEN /\ mLocks' = [mLocks EXCEPT ![t] = "hal"]
          /\ hal' = [hal EXCEPT !.pc = "stream", !.type = t]
          /\ UNCHANGED mRecording
     ELSE stopRecording(t) /\ UNCHANGED <<mLocks, hal>>
  /\ UNCHANGED <<mStreamBuffers, refVars, mLock, mReturnFrameLock, adapterVars,
                 omxVars, held, mDisplayQ, forgotten, omx, ret>>

(* CameraStream::clearRefCount holds the stream lock over all buffers.     *)
ClearLockStream ==
  /\ hal.pc = "stream"
  /\ mLock = NONE
  /\ mLock' = "hal"
  /\ hal' = [hal EXCEPT !.pc = "read", !.todo = mStreamBuffers]
  /\ UNCHANGED <<mStreamBuffers, refVars, mSubscribers, mLocks,
                 mReturnFrameLock, adapterVars, omxVars, heldVars, omx, ret>>

(* oldSum = mRefCountSum, read before the buffer lock is taken.            *)
ClearReadOldSum(b) ==
  /\ hal.pc = "read"
  /\ Least(b, hal.todo)
  /\ hal' = [hal EXCEPT !.pc = "clear", !.oldSum = mRefCountSum[b]]
  /\ UNCHANGED <<mStreamBuffers, refVars, mLock, mSubscribers, mLocks,
                 mReturnFrameLock, adapterVars, omxVars, heldVars, omx, ret>>

ClearCounts(b) ==
  /\ hal.pc = "clear"
  /\ Least(b, hal.todo)
  /\ clearRefCount(b, hal.type)
  /\ forgotten' = IF hal.type = VIDEO THEN forgotten \ {b} ELSE forgotten
  /\ hal' = [hal EXCEPT !.pc = "check"]
  /\ UNCHANGED <<mStreamBuffers, mLock, mSubscribers, mLocks, mReturnFrameLock,
                 adapterVars, omxVars, held, mDisplayQ, mRecording, omx, ret>>

(* Mutant of ClearReturns: a buffer with one reference is not returned.    *)
ClearReturnsOffByOne(b) == mRefCountSum[b] = 0 /\ hal.oldSum > 1

(* mRefCountSum==0 && oldSum > 0, evaluated after the lock is released.    *)
ClearReturns(b) == mRefCountSum[b] = 0 /\ hal.oldSum > 0

(* Mutant of ClearCheck: the loop over the buffers does not advance.       *)
ClearCheckStuck(b) ==
  /\ hal.pc = "check"
  /\ Least(b, hal.todo)
  /\ hal' = [hal EXCEPT !.pc = IF ClearReturns(b) THEN "fill" ELSE "read", !.oldSum = 0]
  /\ UNCHANGED <<mStreamBuffers, refVars, mLock, mSubscribers, mLocks,
                 mReturnFrameLock, adapterVars, omxVars, heldVars, omx, ret>>

ClearCheck(b) ==
  /\ hal.pc = "check"
  /\ Least(b, hal.todo)
  /\ hal' = IF ClearReturns(b) THEN [hal EXCEPT !.pc = "fill", !.oldSum = 0]
            ELSE [hal EXCEPT !.pc = "read", !.todo = @ \ {b}, !.oldSum = 0]
  /\ UNCHANGED <<mStreamBuffers, refVars, mLock, mSubscribers, mLocks,
                 mReturnFrameLock, adapterVars, omxVars, heldVars, omx, ret>>

ClearFill(b) ==
  /\ hal.pc = "fill"
  /\ Least(b, hal.todo)
  /\ fillThisBuffer(b)
  /\ hal' = [hal EXCEPT !.pc = "read", !.todo = @ \ {b}]
  /\ UNCHANGED <<mStreamBuffers, refVars, mLock, mSubscribers, mLocks,
                 mReturnFrameLock, adapterVars, dropped, heldVars, omx, ret>>

ClearDone ==
  /\ hal.pc = "read"
  /\ hal.todo = {}
  /\ mLock' = NONE
  /\ mLocks' = [mLocks EXCEPT ![hal.type] = NONE]
  /\ hal' = IdleHal(hal.session)
  /\ stopRecording(hal.type)
  /\ UNCHANGED <<mStreamBuffers, refVars, mSubscribers, mReturnFrameLock,
                 adapterVars, omxVars, held, mDisplayQ, forgotten, omx, ret>>

-----------------------------------------------------------------------------
(* OMXCallbackHandler thread: FillBufferDone and CameraStreamHub::sendFrame *)

(* A buffer without data, or without the end of its frame, is thrown away. *)
DropIncomplete(b) ==
  /\ Incomplete
  /\ mPortEnable
  /\ dropped' = dropped \cup {b}
  /\ UNCHANGED omx

StartDispatch(b) ==
  /\ omx' = IF mPortEnable /\ (previewActive \/ nextPreviewActive)
            THEN [omx EXCEPT !.pc = "type", !.buf = b,
                             !.types = {PREVIEW} \cup extraTypes]
            ELSE omx
  /\ UNCHANGED dropped

FillBufferDone(b) ==
  /\ omx.pc = "idle"
  /\ b \in withOMX
  /\ EarlyFrames \/ previewActive
  /\ \A l \in Links : held[<<l, b>>] < MaxHeld
  /\ withOMX' = withOMX \ {b}
  /\ StartDispatch(b) \/ DropIncomplete(b)
  /\ UNCHANGED <<mStreamBuffers, refVars, mLock, mSubscribers, mLocks,
                 mReturnFrameLock, adapterVars, mHandleComp, heldVars, ret, hal>>

(* sendFrameToSubscribers takes mLocks[t] for the whole loop.              *)
SendLockType(t) ==
  /\ omx.pc = "type"
  /\ Least(t, omx.types)
  /\ mLocks[t] = NONE
  /\ IF mSubscribers[t] = {}
     THEN /\ omx' = [omx EXCEPT !.types = @ \ {t}]
          /\ UNCHANGED mLocks
     ELSE /\ omx' = [omx EXCEPT !.pc = "stream"]
          /\ mLocks' = [mLocks EXCEPT ![t] = "omx"]
  /\ UNCHANGED <<mStreamBuffers, refVars, mLock, mSubscribers, mReturnFrameLock,
                 adapterVars, omxVars, heldVars, ret, hal>>

(* CameraStream::sendFrame: a buffer that is not registered is BAD_VALUE.  *)
SendLockStream(t) ==
  /\ omx.pc = "stream"
  /\ Least(t, omx.types)
  /\ mLock = NONE
  /\ IF omx.buf \in mStreamBuffers
     THEN /\ omx' = [omx EXCEPT !.pc = "inc", !.todo = mSubscribers[t]]
          /\ mLock' = "omx"
          /\ UNCHANGED mLocks
     ELSE /\ omx' = [omx EXCEPT !.pc = "type", !.types = @ \ {t}]
          /\ mLocks' = [mLocks EXCEPT ![t] = NONE]
          /\ UNCHANGED mLock
  /\ UNCHANGED <<mStreamBuffers, refVars, mSubscribers, mReturnFrameLock,
                 adapterVars, omxVars, heldVars, ret, hal>>

(* The callback keeps the frame for a consumer thread to return; the       *)
(* display's PostFrame gives it to the window and leaves a message in      *)
(* mDisplayQ.  AppCallbackNotifier::frameCallback may instead return the   *)
(* frame before it returns itself.  Its VIDEO branch does neither while    *)
(* mRecording is not set.                                                  *)
CallbackKeeps(c, t) ==
  /\ t = VIDEO => mRecording
  /\ held' = [held EXCEPT ![<< <<c, t>>, omx.buf >>] = @ + 1]
  /\ mDisplayQ' = IF c = DisplayCookie THEN mDisplayQ + 1 ELSE mDisplayQ
  /\ UNCHANGED <<ret, mRecording, forgotten>>

CallbackForgetsVideo(t) ==
  /\ t = VIDEO
  /\ ~mRecording
  /\ forgotten' = forgotten \cup {omx.buf}
  /\ UNCHANGED <<ret, held, mDisplayQ, mRecording>>

(* Mutant of CallbackReturns: an early return that forgets returnFrame.    *)
CallbackForgets(c, t) ==
  /\ c # DisplayCookie
  /\ UNCHANGED <<ret, heldVars>>

CallbackReturns(c, t) ==
  /\ c # DisplayCookie
  /\ ret' = [ret EXCEPT !["omx"] = [pc |-> "lock", buf |-> omx.buf, type |-> t]]
  /\ UNCHANGED heldVars

(* One turn of the subscriber loop: incRefCount, mLock.unlock, callback.   *)
SendToSubscriber(c, t) ==
  /\ omx.pc = "inc"
  /\ Least(t, omx.types)
  /\ Least(c, omx.todo)
  /\ incRefCount(omx.buf, t)
  /\ mLock' = NONE
  /\ omx' = [omx EXCEPT !.pc = "relock", !.todo = @ \ {c}]
  /\ CallbackKeeps(c, t) \/ CallbackForgetsVideo(t) \/ CallbackReturns(c, t)
  /\ UNCHANGED <<mStreamBuffers, mSubscribers, mLocks, mReturnFrameLock,
                 adapterVars, omxVars, hal>>

(* The callback is over: mLock.lock(), then the next subscriber or the end *)
(* of the loop, where both Autolocks are released.                         *)
SendRelock(t) ==
  /\ omx.pc = "relock"
  /\ ret["omx"].pc = "idle"
  /\ Least(t, omx.types)
  /\ mLock = NONE
  /\ IF omx.todo # {}
     THEN /\ omx' = [omx EXCEPT !.pc = "inc"]
          /\ mLock' = "omx"
          /\ UNCHANGED mLocks
     ELSE /\ omx' = [omx EXCEPT !.pc = "type", !.types = @ \ {t}]
          /\ mLocks' = [mLocks EXCEPT ![t] = NONE]
          /\ UNCHANGED mLock
  /\ UNCHANGED <<mStreamBuffers, refVars, mSubscribers, mReturnFrameLock,
                 adapterVars, omxVars, heldVars, ret, hal>>

SendDone ==
  /\ omx.pc = "type"
  /\ omx.types = {}
  /\ omx' = IdleOMX
  /\ UNCHANGED <<mStreamBuffers, refVars, mLock, mSubscribers, mLocks,
                 mReturnFrameLock, adapterVars, omxVars, heldVars, ret, hal>>

-----------------------------------------------------------------------------
(* BaseCameraAdapter::returnFrame, on a consumer thread or inside a        *)
(* callback on the OMXCallbackHandler thread.                              *)

(* The display thread dequeues one buffer from the window, whichever the   *)
(* window gives, per message in mDisplayQ; the others return what they     *)
(* were given.                                                             *)
BeginReturn(th, l, b) ==
  /\ th \in Returners
  /\ ret[th].pc = "idle"
  /\ held[<<l, b>>] > 0
  /\ IF l[1] = DisplayCookie
     THEN mDisplayQ > 0 /\ mDisplayQ' = mDisplayQ - 1
     ELSE UNCHANGED mDisplayQ
  /\ held' = [held EXCEPT ![<<l, b>>] = @ - 1]
  /\ ret' = [ret EXCEPT ![th] = [pc |-> "lock", buf |-> b, type |-> l[2]]]
  /\ UNCHANGED <<mStreamBuffers, refVars, mLock, mSubscribers, mLocks,
                 mReturnFrameLock, adapterVars, omxVars, mRecording, forgotten,
                 omx, hal>>

ReturnLock(th) ==
  /\ ret[th].pc = "lock"
  /\ mReturnFrameLock = NONE
  /\ mReturnFrameLock' = th
  /\ ret' = [ret EXCEPT ![th].pc = "get"]
  /\ UNCHANGED <<mStreamBuffers, refVars, mLock, mSubscribers, mLocks,
                 adapterVars, omxVars, heldVars, omx, hal>>

EndReturn(th) ==
  /\ mReturnFrameLock' = NONE
  /\ ret' = [ret EXCEPT ![th] = IdleRet]

(* getStreamBuffer takes the stream lock for the lookup.                   *)
getStreamBuffer(th) ==
  /\ ret[th].pc = "get"
  /\ mLock = NONE
  /\ IF ret[th].buf \in mStreamBuffers
     THEN /\ ret' = [ret EXCEPT ![th].pc = "dec"]
          /\ UNCHANGED mReturnFrameLock
     ELSE EndReturn(th)
  /\ UNCHANGED <<mStreamBuffers, refVars, mLock, mSubscribers, mLocks,
                 adapterVars, omxVars, heldVars, omx, hal>>

ReturnDec(th) ==
  /\ ret[th].pc = "dec"
  /\ decRefCount(ret[th].buf, ret[th].type)
  /\ IF LastRef(ret[th].buf, ret[th].type)
     THEN /\ ret' = [ret EXCEPT ![th].pc = "fill"]
          /\ UNCHANGED mReturnFrameLock
     ELSE EndReturn(th)
  /\ UNCHANGED <<mStreamBuffers, mLock, mSubscribers, mLocks, adapterVars,
                 omxVars, heldVars, omx, hal>>

ReturnFill(th) ==
  /\ ret[th].pc = "fill"
  /\ fillThisBuffer(ret[th].buf)
  /\ EndReturn(th)
  /\ UNCHANGED <<mStreamBuffers, refVars, mLock, mSubscribers, mLocks,
                 adapterVars, dropped, heldVars, omx, hal>>

-----------------------------------------------------------------------------
(* The session is over and every thread is at rest, or the component is    *)
(* gone and with it, at the next use of its handle, the process.           *)
Finished ==
  /\ \/ /\ hal.session = "stopped"
        /\ omx.pc = "idle"
        /\ \A th \in Threads : ret[th].pc = "idle"
     \/ ~mHandleComp
  /\ UNCHANGED vars

HalSession ==
  \/ UseBuffersPreview \/ StartPreviewSetState \/ startPreview
  \/ StartPreviewCommit \/ StopPreviewSetState \/ stopPreview
  \/ StopPreviewRefused \/ StopPreviewCommit

HalClear ==
  \/ startRecording \/ ClearLockStream \/ ClearDone
  \/ \E b \in Buffers : \/ ClearReadOldSum(b) \/ ClearCounts(b)
                        \/ ClearCheck(b) \/ ClearFill(b)

HalCall ==
  \/ \E t \in FrameTypes : startVideoCapture(t) \/ stopVideoCapture(t)
  \/ \E c \in Cookies, t \in FrameTypes : subscribe(c, t) \/ unsubscribe(c, t)

Dispatch ==
  \/ SendDone
  \/ \E t \in FrameTypes : SendLockType(t) \/ SendLockStream(t) \/ SendRelock(t)
  \/ \E c \in Cookies, t \in FrameTypes : SendToSubscriber(c, t)

Return(th) == ReturnLock(th) \/ getStreamBuffer(th) \/ ReturnDec(th) \/ ReturnFill(th)

Next ==
  \/ HalSession \/ HalClear \/ HalCall
  \/ \E b \in Buffers : FillBufferDone(b)
  \/ Dispatch
  \/ \E th \in Threads, l \in Links, b \in Buffers : BeginReturn(th, l, b)
  \/ \E th \in Threads : Return(th)
  \/ Finished

Spec == Init /\ [][Next]_vars

(***************************************************************************)
(* Fairness.  The component fills the buffers it has and the threads keep  *)
(* running: a thread inside a call finishes it, and is not passed over for *)
(* ever at a mutex that is free again and again (SF).  Consumers give back *)
(* every frame they hold.  The application owes nothing: it need not stop, *)
(* subscribe or record.                                                    *)
(***************************************************************************)
Fairness ==
  /\ WF_vars(UseBuffersPreview \/ StartPreviewSetState \/ startPreview \/ StartPreviewCommit)
  /\ SF_vars(HalClear)
  /\ SF_vars(Dispatch)
  /\ \A th \in Threads : SF_vars(Return(th))
  /\ \A b \in Buffers : WF_vars(FillBufferDone(b))
  /\ \A l \in Links, b \in Buffers :
       SF_vars(\E th \in Threads : BeginReturn(th, l, b))

FairSpec == Spec /\ Fairness

-----------------------------------------------------------------------------
(***************************************************************************)
(* Properties                                                              *)
(***************************************************************************)

OMXThread == [pc : {"idle", "type", "stream", "inc", "relock"}, buf : Buffers,
              types : SUBSET FrameTypes, todo : SUBSET Cookies]
ReturnCall == [pc : {"idle", "lock", "get", "dec", "fill"}, buf : Buffers, type : FrameTypes]
HalThread == [session : {"init", "loaded", "starting", "queued", "preview",
                         "stopping", "disabled", "stopped"},
              pc : {"idle", "flush", "stream", "read", "clear", "check", "fill"},
              type : FrameTypes, todo : SUBSET Buffers, oldSum : Nat]

(* The state of every thread, lock and counter stays in its type; the      *)
(* unsigned counters never go below zero.                                  *)
TypeOK ==
  /\ mStreamBuffers \subseteq Buffers
  /\ mRefCount \in [Buffers -> [FrameTypes -> Nat]]
  /\ mRefCountSum \in [Buffers -> Nat]
  /\ mLock \in {NONE, "omx", "hal"}
  /\ mSubscribers \in [FrameTypes -> SUBSET Cookies]
  /\ mLocks \in [FrameTypes -> {NONE, "omx", "hal"}]
  /\ mReturnFrameLock \in Threads \cup {NONE}
  /\ previewActive \in BOOLEAN
  /\ nextPreviewActive \in BOOLEAN
  /\ mPortEnable \in BOOLEAN
  /\ extraTypes \subseteq FrameTypes
  /\ withOMX \subseteq Buffers
  /\ mHandleComp \in BOOLEAN
  /\ dropped \subseteq Buffers
  /\ held \in [Links \X Buffers -> Nat]
  /\ mDisplayQ \in Nat
  /\ mRecording \in BOOLEAN
  /\ forgotten \subseteq Buffers
  /\ omx \in OMXThread
  /\ ret \in [Threads -> ReturnCall]
  /\ hal \in HalThread

(* mRefCountSum, which decides when a buffer is queued again, is the sum   *)
(* of the per-type counts whatever inc, dec, init and clear interleave;    *)
(* in particular the unsigned counter never wraps below zero.              *)
SumIsTotal == \A b \in Buffers : mRefCountSum[b] = Total(mRefCount[b])

(* A return is on its way to decRefCount.                                  *)
Returning(th, b, t) ==
  ret[th].pc \in {"lock", "get", "dec"} /\ ret[th].buf = b /\ ret[th].type = t

(* The frames of a type that consumers hold for a buffer, each copy apart. *)
HeldFrames(b, t) ==
  UNION {{l} \X (1..held[<<l, b>>]) : l \in {k \in Links : k[2] = t}}

Returns(b, t) == {th \in Threads : Returning(th, b, t)}

(* Every reference is owed by somebody: for each type, a buffer has no     *)
(* more references than frames held by consumers plus returns under way.   *)
(* A reference nobody owes would keep the buffer from the camera for good. *)
(* The VIDEO references frameCallback forgets are the one exception, until *)
(* VIDEO is unsubscribed and they are cleared.                             *)
EveryRefOwed ==
  \A b \in mStreamBuffers, t \in FrameTypes :
    \/ mRefCount[b][t] <= Cardinality(HeldFrames(b, t)) + Cardinality(Returns(b, t))
    \/ t = VIDEO /\ b \in forgotten

(* fillThisBuffer is about to be called for the buffer.                    *)
AboutToFill(b) ==
  \/ \E th \in Threads : ret[th].pc = "fill" /\ ret[th].buf = b
  \/ hal.pc = "check" /\ Least(b, hal.todo) /\ hal.oldSum > 0
  \/ hal.pc = "fill" /\ Least(b, hal.todo)

(* During preview no buffer drops out of the cycle unnoticed: each one is  *)
(* with the component, being dispatched, referenced, or about to be        *)
(* queued, or FillBufferDone threw it away because its frame was not       *)
(* complete.  A failing OMX_FillThisBuffer takes the component with it.    *)
NoBufferLost ==
  previewActive /\ mPortEnable /\ mHandleComp =>
    \A b \in mStreamBuffers \ dropped :
      \/ b \in withOMX
      \/ omx.pc # "idle" /\ omx.buf = b
      \/ mRefCountSum[b] > 0
      \/ AboutToFill(b)

(* A buffer the component may be writing is in no consumer's hands: SYNC   *)
(* frames are filled again only after they have been returned.             *)
FilledOnlyAfterReturn ==
  \A b \in withOMX : \A l \in Links : held[<<l, b>>] = 0

(* The preview keeps running: a buffer that left the component is queued   *)
(* with it again unless the preview is stopped or the component fails.     *)
(* Two buffers are lost to it: one thrown away as incomplete, for good,    *)
(* and one whose VIDEO frame was forgotten, until VIDEO is unsubscribed.   *)
BufferComesBack ==
  \A b \in Buffers :
    (hal.session = "preview" /\ b \notin withOMX)
      ~> \/ hal.session # "preview" \/ ~mHandleComp
         \/ b \in withOMX \cup dropped \cup forgotten

(* No lock of the hub is held for ever: a dispatch, with the callbacks it  *)
(* makes under mLocks, and an unsubscribe both come to an end while the    *)
(* component is there.                                                     *)
CallsComplete ==
  /\ omx.pc # "idle" ~> omx.pc = "idle" \/ ~mHandleComp
  /\ hal.pc # "idle" ~> hal.pc = "idle" \/ ~mHandleComp
=============================================================================
