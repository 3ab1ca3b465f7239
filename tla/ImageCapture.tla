----------------------------- MODULE ImageCapture -----------------------------
(***************************************************************************)
(* Taking a picture.  CameraHal::takePicture readies the adapter and the   *)
(* notifier and posts a message to the adapter's CommandHandler thread,    *)
(* which starts the capture: with the image port of the OMX component, or  *)
(* (a "snapshot") by using the next preview frame.  FillBufferDone sends   *)
(* the frame out twice, as RAW and as IMAGE frame; the notifier's resize   *)
(* and JPEG threads work on it, its notification thread gives it to the    *)
(* application and returns it, and the return of the last reference posts  *)
(* END_IMAGE_CALLBACK to the CommandHandler thread, which stops the        *)
(* capture.  cancelPicture may stop it at any other time.                  *)
(*                                                                         *)
(* Steps are taken by the application's thread, the CommandHandler thread, *)
(* the OMXCallbackHandler thread ("omx"), the two workers of the notifier  *)
(* and its notification thread.  CameraHal::mLock is held by the call in   *)
(* hal.  The preview runs throughout; its own frames and references are    *)
(* the subject of CameraStreamHub.                                         *)
(***************************************************************************)
EXTENDS Integers, Sequences

CONSTANTS
  PreviewBuffers, \* buffers of the preview stream
  ImageBuffers,   \* buffers of the image stream
  Modes,          \* may a capture use a preview frame, the image port?
  CancelOnce,     \* bound: cancelPicture is called at most once
  EarlyFrames,    \* may the image arrive before START_IMAGE_CAPTURE is committed?
  MaxTakes        \* bound: takePicture calls that are accepted

Buffers == PreviewBuffers \cup ImageBuffers

ASSUME CaptureAssumption ==
  /\ PreviewBuffers \cap ImageBuffers = {}
  /\ Modes \subseteq {"snapshot", "port"}
  /\ CancelOnce \in BOOLEAN
  /\ EarlyFrames \in BOOLEAN
  /\ MaxTakes \in Nat

RAW   == "RAW"
IMAGE == "IMAGE"
Types == {RAW, IMAGE}
Workers == {"resize", "jpeg"}
NONE == "none"

VARIABLES
  \* CameraHal and the adapter's state
  hal,                      \* the call that holds CameraHal::mLock
  app,                      \* the application's thread
  rawWanted,                \* it has enabled CAMERA_MSG_RAW_IMAGE
  encoder,                  \* the worker that makes pictures of its format
  captureActive,            \* CAPTURE_ACTIVE is set in mAdapterState
  nextCapture,              \* and in mNextState
  \* OMXCameraAdapter
  mCapturedFrames,
  mCaptureUsePreviewFrame,
  mCaptureUsePreviewFrameStarted,
  mCaptureConfigured,       \* also the image port's mPortEnable
  mCommandMsgQ,             \* messages to the CommandHandler thread
  cmd,                      \* the CommandHandler thread
  omx,                      \* the dispatch in progress
  mReturnFrameLock,         \* its owner
  \* the streams' references
  imageStream,              \* the image buffers are registered with their stream
  mRefCount,                \* [Buffers -> [Types -> Nat]]
  \* the component's image port
  mHandleComp,              \* the component's handle is not NULL
  left,                     \* frames it will still deliver
  filled,                   \* image buffers in the OMXCallbackHandler's queue
  \* AppCallbackNotifier
  queue,                    \* mResizeQ and mJpegQ
  flush,                    \* the flush message in each worker's msgQ
  mPictureValid,            \* of each worker
  hand,                     \* the frames each worker works on, at most one
  mFrameQ,                  \* frames for the notification thread
  notifier,                 \* the notification thread
  \* history
  taken,                    \* takePicture calls accepted
  delivered,                \* the calls whose picture the application was given
  unmade,                   \* the calls whose frame was returned without a picture
  cancelled,                \* cancelPicture has been called
  overtaken                 \* the capture under way has lost its frame, count or reference

appVars    == <<app, rawWanted, encoder>>
halVars    == <<hal, appVars>>
stateVars  == <<captureActive, nextCapture>>
flagVars   == <<mCaptureUsePreviewFrame, mCaptureUsePreviewFrameStarted, mCaptureConfigured>>
streamVars == <<imageStream, mRefCount>>
portVars   == <<mHandleComp, left, filled>>
workerVars == <<queue, flush, mPictureValid, hand>>
history    == <<taken, delivered, unmade, cancelled, overtaken>>
vars == <<halVars, stateVars, flagVars, streamVars, portVars, workerVars, history,
          mCapturedFrames, mCommandMsgQ, cmd, omx, mReturnFrameLock, mFrameQ, notifier>>

Frames == [buf : Buffers, type : Types, shot : 1..MaxTakes]
Frame(b, t, n) == [buf |-> b, type |-> t, shot |-> n]
NoFrame == [buf |-> NONE, type |-> IMAGE, shot |-> 0]
IdleHal == [op |-> NONE, pc |-> NONE, ok |-> TRUE]
IdleOMX == [pc |-> "idle", buf |-> NONE, seen |-> FALSE, shot |-> 0]
IdleNotifier == [pc |-> "idle", frame |-> NoFrame]

NoRefs == [t \in Types |-> 0]

Init ==
  /\ hal = IdleHal
  /\ app = "idle"
  /\ rawWanted \in BOOLEAN
  /\ encoder \in Workers
  /\ captureActive = FALSE
  /\ nextCapture = FALSE
  /\ mCapturedFrames = 0
  /\ mCaptureUsePreviewFrame = FALSE
  /\ mCaptureUsePreviewFrameStarted = FALSE
  /\ mCaptureConfigured = FALSE
  /\ mCommandMsgQ = <<>>
  /\ cmd = "idle"
  /\ omx = IdleOMX
  /\ mReturnFrameLock = NONE
  /\ imageStream = FALSE
  /\ mRefCount = [b \in Buffers |-> NoRefs]
  /\ mHandleComp = TRUE
  /\ left = 0
  /\ filled = <<>>
  /\ queue = [w \in Workers |-> <<>>]
  /\ flush = [w \in Workers |-> NONE]
  /\ mPictureValid = [w \in Workers |-> FALSE]
  /\ hand = [w \in Workers |-> {}]
  /\ mFrameQ = <<>>
  /\ notifier = IdleNotifier
  /\ taken = 0
  /\ delivered = <<>>
  /\ unmade = {}
  /\ cancelled = FALSE
  /\ overtaken = FALSE

-----------------------------------------------------------------------------
(* CameraHal: calls hold mLock from their first step to their last, except *)
(* in mTakePictureWait.                                                    *)

Return == hal' = IdleHal /\ app' = "idle"

takePicture ==
  /\ hal.op = NONE
  /\ app = "idle"
  /\ taken < MaxTakes
  /\ hal' = [op |-> "take", pc |-> "check", ok |-> TRUE]
  /\ app' = "call"
  /\ UNCHANGED <<rawWanted, encoder, stateVars, flagVars, streamVars, portVars, workerVars, history,
                 mCapturedFrames, mCommandMsgQ, cmd, omx, mReturnFrameLock, mFrameQ, notifier>>

(* While a capture is active the call waits, with mLock released.          *)
TakeCheck ==
  /\ hal.op = "take" /\ hal.pc = "check"
  /\ IF captureActive \/ nextCapture
     THEN hal' = IdleHal /\ app' = "wait"
     ELSE hal' = [hal EXCEPT !.pc = "query"] /\ UNCHANGED app
  /\ UNCHANGED <<rawWanted, encoder, stateVars, flagVars, streamVars, portVars, workerVars, history,
                 mCapturedFrames, mCommandMsgQ, cmd, omx, mReturnFrameLock, mFrameQ, notifier>>

(* waitRelative ends by the signal or after 500 ms (NO_INIT).              *)
TakeWakes ==
  /\ hal.op = NONE
  /\ \/ app = "woken" /\ hal' = [op |-> "take", pc |-> "check", ok |-> TRUE] /\ app' = "call"
     \/ app = "wait" /\ Return
  /\ UNCHANGED <<rawWanted, encoder, stateVars, flagVars, streamVars, portVars, workerVars, history,
                 mCapturedFrames, mCommandMsgQ, cmd, omx, mReturnFrameLock, mFrameQ, notifier>>

(* CAMERA_QUERY_BUFFER_SIZE_IMAGE_CAPTURE and allocImageBufs.              *)
(* getPictureBufferSize disables the image port for a snapshot, or because *)
(* the picture format has changed; it never withdraws an earlier choice of *)
(* the preview frame.  A failed query skips to startImageCallbacks, a      *)
(* failed allocation returns.                                              *)
getPictureBufferSize(mode, reformat, ok) ==
  /\ hal.op = "take" /\ hal.pc = "query"
  /\ mCaptureUsePreviewFrame' = (mCaptureUsePreviewFrame \/ mode = "snapshot")
  /\ IF mode = "snapshot" \/ reformat
     THEN mCaptureConfigured' = FALSE /\ left' = 0
     ELSE UNCHANGED <<mCaptureConfigured, left>>
  /\ \/ hal' = [hal EXCEPT !.pc = IF ok THEN "use" ELSE "resize", !.ok = ok] /\ UNCHANGED app
     \/ ok /\ Return
  /\ UNCHANGED <<rawWanted, encoder, stateVars, mCaptureUsePreviewFrameStarted, streamVars,
                 mHandleComp, filled, workerVars, history, mCapturedFrames, mCommandMsgQ, cmd, omx,
                 mReturnFrameLock, mFrameQ, notifier>>

(* The image buffers carry no references when they are registered.         *)
ClearedImageRefs ==
  [b \in Buffers |-> IF b \in ImageBuffers THEN NoRefs ELSE mRefCount[b]]

(* CAMERA_USE_BUFFERS_IMAGE_CAPTURE: the stream's buffers are registered   *)
(* anew before UseBuffersCapture can fail.                                 *)
UseBuffersCapture(ok) ==
  /\ hal.op = "take" /\ hal.pc = "use"
  /\ imageStream' = TRUE
  /\ mRefCount' = ClearedImageRefs
  /\ IF ok
     THEN /\ mCapturedFrames' = 1
          /\ mCaptureConfigured' = (mCaptureConfigured \/ ~mCaptureUsePreviewFrame)
          /\ taken' = taken + 1
          /\ overtaken' = FALSE
     ELSE UNCHANGED <<mCapturedFrames, mCaptureConfigured, taken, overtaken>>
  /\ hal' = [hal EXCEPT !.pc = "resize", !.ok = ok]
  /\ UNCHANGED <<appVars, stateVars, mCaptureUsePreviewFrame, mCaptureUsePreviewFrameStarted,
                 portVars, workerVars, delivered, unmade, cancelled, mCommandMsgQ, cmd, omx,
                 mReturnFrameLock, mFrameQ, notifier>>

cancelPicture ==
  /\ CancelOnce => ~cancelled
  /\ hal.op = NONE
  /\ app = "idle"
  /\ hal' = [op |-> "cancel", pc |-> "resize", ok |-> TRUE]
  /\ app' = "call"
  /\ cancelled' = TRUE
  /\ UNCHANGED <<rawWanted, encoder, stateVars, flagVars, streamVars, portVars, workerVars, taken, delivered,
                 unmade, overtaken, mCapturedFrames, mCommandMsgQ, cmd, omx, mReturnFrameLock,
                 mFrameQ, notifier>>

(* signalEndImageCapture, on the CommandHandler thread.                    *)
signalEndImageCapture ==
  /\ cmd = "end"
  /\ hal.op = NONE
  /\ hal' = [op |-> "end", pc |-> "resize", ok |-> TRUE]
  /\ cmd' = "busy"
  /\ UNCHANGED <<appVars, stateVars, flagVars, streamVars, portVars, workerVars, history,
                 mCapturedFrames, mCommandMsgQ, omx, mReturnFrameLock, mFrameQ, notifier>>

(* startImageCallbacks and stopImageCallbacks: a flush message to the      *)
(* resize thread, and when that is done one to the JPEG thread.            *)
ImageCallbacks(w) ==
  /\ hal.pc = w
  /\ \A v \in Workers : flush[v] = NONE
  /\ flush' = [flush EXCEPT ![w] = IF hal.op = "take" THEN "start" ELSE "stop"]
  /\ hal' = [hal EXCEPT !.pc = IF w = "resize" THEN "jpeg" ELSE "adapter"]
  /\ UNCHANGED <<appVars, stateVars, flagVars, streamVars, portVars, queue, mPictureValid, hand,
                 history, mCapturedFrames, mCommandMsgQ, cmd, omx, mReturnFrameLock, mFrameQ,
                 notifier>>

(* The notifier is done: CAMERA_START_IMAGE_CAPTURE, or the end of a call  *)
(* that has failed.                                                        *)
StartImageCapture ==
  /\ hal.op = "take" /\ hal.pc = "adapter"
  /\ flush["jpeg"] = NONE
  /\ IF hal.ok
     THEN /\ nextCapture' = TRUE
          /\ mCommandMsgQ' = Append(mCommandMsgQ, "START_IMAGE_CAPTURE")
          /\ hal' = [hal EXCEPT !.pc = "commit"]
          /\ UNCHANGED app
     ELSE Return /\ UNCHANGED <<nextCapture, mCommandMsgQ>>
  /\ UNCHANGED <<rawWanted, encoder, captureActive, flagVars, streamVars, portVars, workerVars, history,
                 mCapturedFrames, cmd, omx, mReturnFrameLock, mFrameQ, notifier>>

CommitCapture ==
  /\ hal.op = "take" /\ hal.pc = "commit"
  /\ captureActive' = TRUE
  /\ Return
  /\ UNCHANGED <<rawWanted, encoder, nextCapture, flagVars, streamVars, portVars, workerVars, history,
                 mCapturedFrames, mCommandMsgQ, cmd, omx, mReturnFrameLock, mFrameQ, notifier>>

(* The last step of cancelPicture and of signalEndImageCapture, which      *)
(* signals mTakePictureWait.                                               *)
EndCall ==
  /\ hal' = IdleHal
  /\ IF hal.op = "end"
     THEN cmd' = "idle" /\ app' = (IF app = "wait" THEN "woken" ELSE app)
     ELSE app' = "idle" /\ UNCHANGED cmd

(* CAMERA_STOP_IMAGE_CAPTURE: setState refuses when no capture is active.  *)
StopImageCapture ==
  /\ hal.op \in {"cancel", "end"} /\ hal.pc = "adapter"
  /\ flush["jpeg"] = NONE
  /\ IF captureActive
     THEN /\ nextCapture' = FALSE
          /\ hal' = [hal EXCEPT !.pc = "stop"]
          /\ UNCHANGED <<app, cmd>>
     ELSE EndCall /\ UNCHANGED nextCapture
  /\ UNCHANGED <<rawWanted, encoder, captureActive, flagVars, streamVars, portVars, workerVars, history,
                 mCapturedFrames, mCommandMsgQ, omx, mReturnFrameLock, mFrameQ, notifier>>

(* The component is freed, and with it the frames it would have delivered. *)
performCleanupAfterError == mHandleComp' = FALSE /\ left' = 0

(* A capture with the image port first waits for mCaptureSem, but no       *)
(* longer than OMX_CAPTURE_TIMEOUT and whatever the outcome, so this step  *)
(* may come at any time.  The component may fail.  Once it has been freed  *)
(* its NULL handle is dereferenced, and the process dies: the call takes   *)
(* no further step.                                                        *)
stopImageCapture(ok) ==
  /\ hal.pc = "stop"
  /\ IF mCaptureUsePreviewFrame \/ ~mCaptureConfigured
     THEN ok /\ UNCHANGED <<mHandleComp, left>>
     ELSE /\ mHandleComp
          /\ IF ok THEN left' = 0 /\ UNCHANGED mHandleComp ELSE performCleanupAfterError
  /\ mCaptureUsePreviewFrame' = FALSE
  /\ mCaptureUsePreviewFrameStarted' =
       (mCaptureUsePreviewFrameStarted /\ ~mCaptureUsePreviewFrame)
  /\ hal' = [hal EXCEPT !.pc = "remove", !.ok = ok]
  /\ UNCHANGED <<appVars, stateVars, mCaptureConfigured, streamVars, filled, workerVars, history,
                 mCapturedFrames, mCommandMsgQ, cmd, omx, mReturnFrameLock, mFrameQ, notifier>>

(* removeAllFrameBuffer of the image stream, whose references go with the  *)
(* buffers, and commitState.                                               *)
CommitStop ==
  /\ hal.pc = "remove" /\ hal.ok
  /\ imageStream' = FALSE
  /\ mRefCount' = ClearedImageRefs
  /\ captureActive' = FALSE
  /\ EndCall
  /\ UNCHANGED <<rawWanted, encoder, nextCapture, flagVars, portVars, workerVars, history,
                 mCapturedFrames, mCommandMsgQ, omx, mReturnFrameLock, mFrameQ, notifier>>

(* stopImageCapture has failed: rollbackState.                             *)
RollbackStop ==
  /\ hal.pc = "remove" /\ ~hal.ok
  /\ nextCapture' = captureActive
  /\ EndCall
  /\ UNCHANGED <<rawWanted, encoder, captureActive, flagVars, streamVars, portVars, workerVars,
                 history, mCapturedFrames, mCommandMsgQ, omx, mReturnFrameLock, mFrameQ, notifier>>

-----------------------------------------------------------------------------
(* CommandHandler::Handler                                                 *)

HandleEnd ==
  /\ cmd = "idle"
  /\ mCommandMsgQ # <<>> /\ Head(mCommandMsgQ) = "END_IMAGE_CALLBACK"
  /\ mCommandMsgQ' = Tail(mCommandMsgQ)
  /\ cmd' = "end"
  /\ UNCHANGED <<halVars, stateVars, flagVars, streamVars, portVars, workerVars, history,
                 mCapturedFrames, omx, mReturnFrameLock, mFrameQ, notifier>>

(* The image port is asked for one frame (nFrameLimit).  When queueing the *)
(* buffers or OMX_SetConfig fails the component is freed; the handler      *)
(* ignores the result, so the capture stays active.                        *)
startImageCapture(ok) ==
  /\ cmd = "idle"
  /\ mCommandMsgQ # <<>> /\ Head(mCommandMsgQ) = "START_IMAGE_CAPTURE"
  /\ mCommandMsgQ' = Tail(mCommandMsgQ)
  /\ mCaptureUsePreviewFrameStarted' =
       (mCaptureUsePreviewFrameStarted \/ (nextCapture /\ mCaptureUsePreviewFrame))
  /\ IF nextCapture /\ ~mCaptureUsePreviewFrame /\ mCaptureConfigured
     THEN /\ mHandleComp
          /\ IF ok THEN left' = 1 /\ UNCHANGED mHandleComp ELSE performCleanupAfterError
     ELSE ok /\ UNCHANGED <<mHandleComp, left>>
  /\ UNCHANGED <<halVars, stateVars, mCaptureUsePreviewFrame, mCaptureConfigured, streamVars,
                 filled, workerVars, history, mCapturedFrames, cmd, omx, mReturnFrameLock,
                 mFrameQ, notifier>>

-----------------------------------------------------------------------------
(* The OMXCallbackHandler thread: OMXCameraAdapterFillBufferDone           *)

(* The component fills an image buffer (external).                         *)
FillImage(b) ==
  /\ left > 0
  /\ EarlyFrames \/ captureActive
  /\ left' = left - 1
  /\ filled' = Append(filled, b)
  /\ UNCHANGED <<halVars, stateVars, flagVars, streamVars, mHandleComp, workerVars, history,
                 mCapturedFrames, mCommandMsgQ, cmd, omx, mReturnFrameLock, mFrameQ, notifier>>

(* The adapter's state is read when the callback begins.  The camera fills *)
(* no preview buffer that still has references.                            *)
PreviewFrame(b) ==
  /\ mHandleComp
  /\ omx.pc = "idle"
  /\ mRefCount[b] = NoRefs
  /\ omx' = [pc |-> "check", buf |-> b, seen |-> captureActive, shot |-> 0]
  /\ UNCHANGED <<halVars, stateVars, flagVars, streamVars, portVars, workerVars, history,
                 mCapturedFrames, mCommandMsgQ, cmd, mReturnFrameLock, mFrameQ, notifier>>

(* A buffer of a disabled port is dropped, and so is one without data or   *)
(* without the end of its frame.                                           *)
ImageFrame ==
  /\ omx.pc = "idle"
  /\ filled # <<>>
  /\ filled' = Tail(filled)
  /\ \/ /\ mCaptureConfigured
        /\ omx' = [pc |-> "check", buf |-> Head(filled), seen |-> captureActive, shot |-> 0]
        /\ UNCHANGED overtaken
     \/ /\ ~mCaptureConfigured
        /\ omx' = IdleOMX
        /\ UNCHANGED overtaken
     \/ /\ mCaptureConfigured
        /\ omx' = IdleOMX
        /\ overtaken' = TRUE
  /\ UNCHANGED <<halVars, stateVars, flagVars, streamVars, mHandleComp, left, workerVars, taken,
                 delivered, unmade, cancelled, mCapturedFrames, mCommandMsgQ, cmd,
                 mReturnFrameLock, mFrameQ, notifier>>

(* Mutant of IsCapture: a frame too many is sent.                          *)
IsCaptureOffByOne(b) ==
  /\ b \in PreviewBuffers => mCaptureUsePreviewFrame /\ mCaptureUsePreviewFrameStarted
  /\ mCapturedFrames >= 0

(* The frame is (to be used as) the picture.                               *)
IsCapture(b) ==
  /\ b \in PreviewBuffers => mCaptureUsePreviewFrame /\ mCaptureUsePreviewFrameStarted
  /\ mCapturedFrames >= 1

(* After the preview frame's own dispatch.  A preview frame that is not    *)
(* used because the flash still converges is one that comes later here.    *)
CheckCapture ==
  /\ omx.pc = "check"
  /\ omx' = IF IsCapture(omx.buf) /\ omx.seen
            THEN [omx EXCEPT !.pc = "raw", !.shot = taken]
            ELSE IdleOMX
  /\ UNCHANGED <<halVars, stateVars, flagVars, streamVars, portVars, workerVars, history,
                 mCapturedFrames, mCommandMsgQ, cmd, mReturnFrameLock, mFrameQ, notifier>>

Registered(b) == b \in ImageBuffers => imageStream

incRefCount(b, t) == mRefCount' = [mRefCount EXCEPT ![b][t] = @ + 1]

(* The RAW frame: sent on when the application wants it, else returned     *)
(* within the callback.                                                    *)
SendRaw ==
  /\ omx.pc = "raw"
  /\ IF Registered(omx.buf)
     THEN /\ incRefCount(omx.buf, RAW)
          /\ queue' = IF rawWanted
                     THEN [queue EXCEPT !["resize"] = Append(@, Frame(omx.buf, RAW, omx.shot))]
                     ELSE queue
     ELSE UNCHANGED <<mRefCount, queue>>
  /\ omx' = [omx EXCEPT !.pc =
       IF Registered(omx.buf) /\ ~rawWanted THEN "return" ELSE "image"]
  /\ UNCHANGED <<halVars, stateVars, flagVars, imageStream, portVars, flush, mPictureValid,
                 hand, history, mCapturedFrames, mCommandMsgQ, cmd, mReturnFrameLock, mFrameQ,
                 notifier>>

(* Mutant of SendImage: the frame is queued without a reference.           *)
SendImageUncounted ==
  /\ omx.pc = "image"
  /\ queue' = IF Registered(omx.buf)
              THEN [queue EXCEPT ![encoder] = Append(@, Frame(omx.buf, IMAGE, omx.shot))]
              ELSE queue
  /\ omx' = [omx EXCEPT !.pc = "count"]
  /\ UNCHANGED <<halVars, stateVars, flagVars, streamVars, portVars, flush, mPictureValid,
                 hand, history, mCapturedFrames, mCommandMsgQ, cmd, mReturnFrameLock, mFrameQ,
                 notifier>>

(* The IMAGE frame goes to the thread that makes the picture.              *)
SendImage ==
  /\ omx.pc = "image"
  /\ IF Registered(omx.buf)
     THEN /\ incRefCount(omx.buf, IMAGE)
          /\ queue' = [queue EXCEPT ![encoder] = Append(@, Frame(omx.buf, IMAGE, omx.shot))]
     ELSE UNCHANGED <<mRefCount, queue>>
  /\ omx' = [omx EXCEPT !.pc = "count"]
  /\ UNCHANGED <<halVars, stateVars, flagVars, imageStream, portVars, flush, mPictureValid,
                 hand, history, mCapturedFrames, mCommandMsgQ, cmd, mReturnFrameLock, mFrameQ,
                 notifier>>

(* Mutant of CountCaptured: the frame is not counted.                      *)
CountCapturedNever ==
  /\ omx.pc = "count"
  /\ omx' = IdleOMX
  /\ UNCHANGED <<halVars, stateVars, flagVars, streamVars, portVars, workerVars, history,
                 mCapturedFrames, mCommandMsgQ, cmd, mReturnFrameLock, mFrameQ, notifier>>

(* mCapturedFrames--, after the callbacks.                                 *)
CountCaptured ==
  /\ omx.pc = "count"
  /\ mCapturedFrames' = mCapturedFrames - 1
  /\ overtaken' = (overtaken \/ omx.shot # taken)
  /\ omx' = IdleOMX
  /\ UNCHANGED <<halVars, stateVars, flagVars, streamVars, portVars, workerVars, taken, delivered,
                 unmade, cancelled, mCommandMsgQ, cmd, mReturnFrameLock, mFrameQ, notifier>>

-----------------------------------------------------------------------------
(* BaseCameraAdapter::returnFrame, called by the OMXCallbackHandler thread *)
(* for the RAW frame and by the notification thread.  mReturnFrameLock is  *)
(* held over both of its steps.                                            *)

(* getRefCountByFrameTypes(RAW|IMAGE) == 1, over both streams.             *)
LastReference ==
  \E b \in Buffers, t \in Types :
    /\ mRefCount[b][t] = 1
    /\ \A c \in Buffers, u \in Types : <<c, u>> # <<b, t>> => mRefCount[c][u] = 0

(* Mutant of onReturnFrame: frames still to come are not looked at.        *)
onReturnFrameAtOnce(th) ==
  /\ mReturnFrameLock = NONE
  /\ mReturnFrameLock' = th
  /\ mCommandMsgQ' = IF LastReference THEN Append(mCommandMsgQ, "END_IMAGE_CALLBACK")
                     ELSE mCommandMsgQ
  /\ UNCHANGED overtaken

(* onReturnFrame: the last reference of a finished capture ends it.        *)
onReturnFrame(th) ==
  /\ mReturnFrameLock = NONE
  /\ mReturnFrameLock' = th
  /\ mCommandMsgQ' = IF mCapturedFrames < 1 /\ LastReference
                     THEN Append(mCommandMsgQ, "END_IMAGE_CALLBACK")
                     ELSE mCommandMsgQ
  /\ overtaken' = (overtaken \/ (omx.pc = "count" /\ mCapturedFrames = 1 /\ LastReference))

(* CameraStreamHub::returnFrame: a buffer that is no longer registered, or *)
(* whose count is zero, is left alone.                                     *)
returnFrame(th, b, t) ==
  /\ mReturnFrameLock = th
  /\ mReturnFrameLock' = NONE
  /\ mRefCount' = IF mRefCount[b][t] > 0 THEN [mRefCount EXCEPT ![b][t] = @ - 1]
                  ELSE mRefCount

Image(q) == {q[i] : i \in 1..Len(q)}

(* Frames between sendFrame and returnFrame.                               *)
InFlight ==
  (UNION {Image(queue[w]) \cup hand[w] : w \in Workers}) \cup Image(mFrameQ)
    \cup (IF notifier.pc = "idle" THEN {} ELSE {notifier.frame})

ReturnRawBegins ==
  /\ omx.pc = "return"
  /\ onReturnFrame("omx")
  /\ omx' = [omx EXCEPT !.pc = "decrement"]
  /\ UNCHANGED <<halVars, stateVars, flagVars, streamVars, portVars, workerVars, taken,
                 delivered, unmade, cancelled,
                 mCapturedFrames, cmd, mFrameQ, notifier>>

ReturnRawEnds ==
  /\ omx.pc = "decrement"
  /\ returnFrame("omx", omx.buf, RAW)
  /\ omx' = [omx EXCEPT !.pc = "image"]
  /\ UNCHANGED <<halVars, stateVars, flagVars, imageStream, portVars, workerVars, history,
                 mCapturedFrames, mCommandMsgQ, cmd, mFrameQ, notifier>>

-----------------------------------------------------------------------------
(* AppCallbackNotifier: the resize and JPEG threads                        *)

(* flushResizeQForImage: the IMAGE frames go, the RAW frames keep their    *)
(* order.  There is one such sequence.                                     *)
WithoutImages(q) ==
  LET kept == {i \in DOMAIN q : q[i].type # IMAGE}
  IN {r \in UNION {[1..n -> {q[i] : i \in kept}] : n \in 0..Len(q)} :
        \E at \in [DOMAIN r -> kept] :
          /\ \A i \in kept : \E j \in DOMAIN r : at[j] = i
          /\ \A j, k \in DOMAIN r : j < k => at[j] < at[k]
          /\ \A j \in DOMAIN r : r[j] = q[at[j]]}

(* What a flush leaves of a worker's queue.  It deletes frames without     *)
(* returning them.                                                         *)
Flushed(w) ==
  IF flush[w] = "stop" \/ ~mPictureValid[w]
  THEN IF w = "jpeg" THEN {<<>>} ELSE WithoutImages(queue[w])
  ELSE {queue[w]}

(* Mutant of ProcessFlush: the start message does not open the worker.     *)
ProcessFlushNeverValid(w) ==
  /\ hand[w] = {}
  /\ flush[w] # NONE
  /\ \E q \in Flushed(w) : queue' = [queue EXCEPT ![w] = q]
  /\ mPictureValid' = [mPictureValid EXCEPT ![w] = FALSE]
  /\ flush' = [flush EXCEPT ![w] = NONE]
  /\ UNCHANGED <<halVars, stateVars, flagVars, streamVars, portVars, hand, history,
                 mCapturedFrames, mCommandMsgQ, cmd, omx, mReturnFrameLock, mFrameQ, notifier>>

(* Mutant of ProcessFlush: a message that changes nothing is not answered. *)
ProcessFlushOnChange(w) ==
  /\ hand[w] = {}
  /\ flush[w] # NONE
  /\ mPictureValid[w] # (flush[w] = "start")
  /\ \E q \in Flushed(w) : queue' = [queue EXCEPT ![w] = q]
  /\ mPictureValid' = [mPictureValid EXCEPT ![w] = (flush[w] = "start")]
  /\ flush' = [flush EXCEPT ![w] = NONE]
  /\ UNCHANGED <<halVars, stateVars, flagVars, streamVars, portVars, hand, history,
                 mCapturedFrames, mCommandMsgQ, cmd, omx, mReturnFrameLock, mFrameQ, notifier>>

(* processResizeMessage and processJpegMessage, and the semaphore the      *)
(* poster waits for.                                                       *)
ProcessFlush(w) ==
  /\ hand[w] = {}
  /\ flush[w] # NONE
  /\ \E q \in Flushed(w) : queue' = [queue EXCEPT ![w] = q]
  /\ mPictureValid' = [mPictureValid EXCEPT ![w] = (flush[w] = "start")]
  /\ flush' = [flush EXCEPT ![w] = NONE]
  /\ UNCHANGED <<halVars, stateVars, flagVars, streamVars, portVars, hand, history,
                 mCapturedFrames, mCommandMsgQ, cmd, omx, mReturnFrameLock, mFrameQ, notifier>>

(* jpegEncode and resizeFrame take a frame from the queue; outside a       *)
(* capture it is deleted, without being returned.                          *)
TakeFrame(w) ==
  /\ hand[w] = {}
  /\ queue[w] # <<>>
  /\ queue' = [queue EXCEPT ![w] = Tail(@)]
  /\ hand' = [hand EXCEPT ![w] = IF mPictureValid[w] THEN {Head(queue[w])} ELSE {}]
  /\ UNCHANGED <<halVars, stateVars, flagVars, streamVars, portVars, flush, mPictureValid,
                 history, mCapturedFrames, mCommandMsgQ, cmd, omx, mReturnFrameLock, mFrameQ,
                 notifier>>

(* encodePictureFrame and resizeRawFrame end with sendToFrameQ.            *)
SendToFrameQ(w) ==
  \E f \in hand[w] :
    /\ mFrameQ' = Append(mFrameQ, f)
    /\ hand' = [hand EXCEPT ![w] = {}]
    /\ UNCHANGED <<halVars, stateVars, flagVars, streamVars, portVars, queue, flush,
                   mPictureValid, history, mCapturedFrames, mCommandMsgQ, cmd, omx,
                   mReturnFrameLock, notifier>>

(* notifyFrame, on the notification thread: the callback, then the return. *)
(* Without memory (the worker could not make the picture), and just so     *)
(* once the notifier has been stopped, the frame is returned and the       *)
(* application is told nothing.  No flush of a picture reaches mFrameQ.    *)
notifyFrame(memory) ==
  /\ notifier.pc = "idle"
  /\ mFrameQ # <<>>
  /\ mFrameQ' = Tail(mFrameQ)
  /\ notifier' = [pc |-> "return", frame |-> Head(mFrameQ)]
  /\ IF Head(mFrameQ).type = IMAGE
     THEN IF memory
          THEN delivered' = Append(delivered, Head(mFrameQ).shot) /\ UNCHANGED unmade
          ELSE unmade' = unmade \cup {Head(mFrameQ).shot} /\ UNCHANGED delivered
     ELSE memory /\ UNCHANGED <<delivered, unmade>>
  /\ UNCHANGED <<halVars, stateVars, flagVars, streamVars, portVars, workerVars, taken,
                 cancelled, overtaken, mCapturedFrames, mCommandMsgQ, cmd, omx, mReturnFrameLock>>

NotifierReturnBegins ==
  /\ notifier.pc = "return"
  /\ onReturnFrame("notifier")
  /\ notifier' = [notifier EXCEPT !.pc = "decrement"]
  /\ UNCHANGED <<halVars, stateVars, flagVars, streamVars, portVars, workerVars, taken,
                 delivered, unmade, cancelled,
                 mCapturedFrames, cmd, omx, mFrameQ>>

(* The count may be one that a later frame in the same buffer has.         *)
NotifierReturnEnds ==
  LET b == notifier.frame.buf  t == notifier.frame.type IN
  /\ notifier.pc = "decrement"
  /\ returnFrame("notifier", b, t)
  /\ overtaken' = (overtaken \/ (/\ mRefCount[b][t] = 1
                                /\ \E f \in InFlight \ {notifier.frame} :
                                     f.buf = b /\ f.type = t))
  /\ notifier' = IdleNotifier
  /\ UNCHANGED <<halVars, stateVars, flagVars, imageStream, portVars, workerVars, taken,
                 delivered, unmade, cancelled, mCapturedFrames, mCommandMsgQ, cmd, omx, mFrameQ>>

-----------------------------------------------------------------------------
HalStep ==
  \/ TakeCheck \/ TakeWakes
  \/ \E m \in Modes, reformat, ok \in BOOLEAN : getPictureBufferSize(m, reformat, ok)
  \/ \E ok \in BOOLEAN : UseBuffersCapture(ok)
  \/ \E w \in Workers : ImageCallbacks(w)
  \/ StartImageCapture \/ CommitCapture
  \/ StopImageCapture \/ (\E ok \in BOOLEAN : stopImageCapture(ok))
  \/ CommitStop \/ RollbackStop

CommandStep ==
  HandleEnd \/ (\E ok \in BOOLEAN : startImageCapture(ok)) \/ signalEndImageCapture

OmxStep ==
  \/ \E b \in PreviewBuffers : PreviewFrame(b)
  \/ ImageFrame
  \/ CheckCapture
  \/ SendRaw \/ ReturnRawBegins \/ ReturnRawEnds \/ SendImage \/ CountCaptured

WorkerStep(w) == ProcessFlush(w) \/ TakeFrame(w) \/ SendToFrameQ(w)

NotifierStep ==
  (\E memory \in BOOLEAN : notifyFrame(memory)) \/ NotifierReturnBegins \/ NotifierReturnEnds

(* The process may be gone once the component has been freed.              *)
Dead == ~mHandleComp /\ UNCHANGED vars

Next ==
  \/ takePicture \/ cancelPicture
  \/ HalStep \/ CommandStep
  \/ \E b \in ImageBuffers : FillImage(b)
  \/ OmxStep
  \/ \E w \in Workers : WorkerStep(w)
  \/ NotifierStep
  \/ Dead

Spec == Init /\ [][Next]_vars

(* Fairness: every thread keeps running and gets a mutex that is free      *)
(* again and again (CommandHandler waits for CameraHal::mLock), an image   *)
(* port that has been asked for a frame delivers it, and the callback      *)
(* queue is served in order: an image frame is not overtaken for ever.     *)
FairSpec ==
  /\ Spec
  /\ WF_vars(HalStep)
  /\ SF_vars(CommandStep)
  /\ WF_vars(\E b \in ImageBuffers : FillImage(b))
  /\ WF_vars(OmxStep)
  /\ SF_vars(ImageFrame)
  /\ \A w \in Workers : WF_vars(WorkerStep(w))
  /\ WF_vars(NotifierStep)

-----------------------------------------------------------------------------
(* Properties                                                              *)

(* The variables stay in their types: mCapturedFrames, a plain int that    *)
(* two threads write, never leaves 0..1, and one flush is under way at a   *)
(* time.                                                                   *)
TypeOK ==
  /\ hal.op \in {NONE, "take", "cancel", "end"}
  /\ hal.pc \in {NONE, "check", "query", "use", "resize", "jpeg", "adapter", "commit",
                 "stop", "remove"}
  /\ app \in {"idle", "call", "wait", "woken"}
  /\ captureActive \in BOOLEAN /\ nextCapture \in BOOLEAN
  /\ mCapturedFrames \in 0..1
  /\ mCommandMsgQ \in Seq({"START_IMAGE_CAPTURE", "END_IMAGE_CALLBACK"})
  /\ cmd \in {"idle", "end", "busy"}
  /\ mReturnFrameLock \in {NONE, "omx", "notifier"}
  /\ mRefCount \in [Buffers -> [Types -> Nat]]
  /\ left \in 0..1
  /\ filled \in Seq(ImageBuffers)
  /\ \A w \in Workers : queue[w] \in Seq(Frames) /\ hand[w] \subseteq Frames
  /\ mFrameQ \in Seq(Frames)
  /\ \E w \in Workers : flush[w] = NONE
  /\ taken \in 0..MaxTakes

(* A preview frame used as the picture keeps its reference until the       *)
(* notifier has returned it, whatever is cancelled meanwhile: the camera   *)
(* does not fill the buffer while the JPEG thread encodes it.              *)
SnapshotHeld ==
  \A f \in InFlight : f.buf \in PreviewBuffers => mRefCount[f.buf][f.type] > 0

EndPending == hal.op = "end" \/ cmd = "end" \/ "END_IMAGE_CALLBACK" \in Image(mCommandMsgQ)

(* Without cancelPicture the end of a capture is signalled only when every *)
(* picture asked for has been given to the application, or its frame has   *)
(* come to notifyFrame without a picture: the flush that                   *)
(* signalEndImageCapture sends deletes no frame.                           *)
EndMeansDelivered ==
  EndPending /\ ~cancelled /\ ~rawWanted => /\ Image(delivered) \cup unmade = 1..taken
                                             /\ \A w \in Workers : queue[w] = <<>>

Pictures == INSTANCE PictureSession WITH asked <- taken, answered <- delivered

(* The capture path implements PictureSession, cancellations included.     *)
AnswersInOrder == Pictures!Spec

(* takePicture, cancelPicture and signalEndImageCapture return, although   *)
(* they wait for two threads of the notifier with mLock held and without a *)
(* timeout; unless they find the component freed after an error.           *)
CallsReturn ==
  hal.op # NONE \/ app # "idle" ~>
    \/ hal.op = NONE /\ app = "idle"
    \/ hal.pc = "stop" /\ ~mHandleComp

(* A reference without a frame: a flush or a closed worker has deleted the *)
(* frame without returning it.                                             *)
ReferenceLeft ==
  \E b \in Buffers, t \in Types :
    /\ mRefCount[b][t] > 0
    /\ \A f \in InFlight : <<f.buf, f.type>> # <<b, t>>
    /\ omx.pc \in {"return", "decrement"} => <<omx.buf, RAW>> # <<b, t>>

(* Without cancelPicture no reference is left behind: it is counted only   *)
(* as long as its frame is under way, through every end of a capture.      *)
NoReferenceLeft == ~cancelled /\ ~rawWanted => ~ReferenceLeft

(* A capture ends by itself, through END_IMAGE_CALLBACK on the             *)
(* CommandHandler thread.  What keeps it from ending: FillBufferDone drops *)
(* an incomplete frame, counts a frame after its last return, or counts a  *)
(* cancelled capture's frame against this one; a frame of the capture      *)
(* before is returned so late that it takes this one's reference (the last *)
(* return posts END_IMAGE_CALLBACK before it decrements the count); a      *)
(* cancelled capture has left a reference behind; startImageCapture or     *)
(* stopImageCapture has failed and freed the component.                    *)
CaptureEnds ==
  captureActive ~> ~captureActive \/ overtaken \/ ReferenceLeft \/ ~mHandleComp
===============================================================================
