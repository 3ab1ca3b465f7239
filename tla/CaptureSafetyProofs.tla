-------------------------- MODULE CaptureSafetyProofs --------------------------
(***************************************************************************)
(* Invariants of the capture path, for any buffers and any number of       *)
(* takePicture calls, with cancelPicture and with failing calls: the       *)
(* variables stay in their types, a preview frame in use as a picture      *)
(* keeps its reference, and the end of a capture is signalled only when    *)
(* its frame has come to notifyFrame.  All rest on PathInv of ImageCaptureProofs. *)
(***************************************************************************)
EXTENDS ImageCaptureProofs

-----------------------------------------------------------------------------
(* Types.  A takePicture call that is in CameraHal, or that waits in       *)
(* mTakePictureWait with mLock released, has still to be counted.          *)

HalCall == [op : {NONE, "take", "cancel", "end"},
            pc : {NONE, "check", "query", "use", "resize", "jpeg", "adapter", "commit",
                  "stop", "remove"},
            ok : BOOLEAN]

CallTyped ==
  /\ hal \in HalCall
  /\ app \in {"idle", "call", "wait", "woken"}
  /\ cmd \in {"idle", "end", "busy"}
  /\ taken \in 0..MaxTakes
  /\ app \in {"wait", "woken"} => taken < MaxTakes /\ hal.op \in {NONE, "end"}
  /\ hal.op = "take" /\ hal.pc \in {"check", "query", "use"} => taken < MaxTakes
  /\ hal.op = "take" => app = "call"

FlagTyped ==
  /\ captureActive \in BOOLEAN /\ nextCapture \in BOOLEAN
  /\ mCommandMsgQ \in Seq({"START_IMAGE_CAPTURE", "END_IMAGE_CALLBACK"})
  /\ mReturnFrameLock \in {NONE, "omx", "notifier"}
  /\ left \in 0..1
  /\ flush \in [Workers -> {NONE, "start", "stop"}]
  /\ \E w \in Workers : flush[w] = NONE

RefTyped == mRefCount \in [Buffers -> [Types -> Nat]]

FramesTyped ==
  /\ \A w \in Workers : queue[w] \in Seq(Frames) /\ hand[w] \subseteq Frames
  /\ mFrameQ \in Seq(Frames)
  /\ notifier \in [pc : {"idle", "return", "decrement"}, frame : Frames \cup {NoFrame}]
  /\ notifier.pc # "idle" => notifier.frame \in Frames

TypeInv == CallTyped /\ FlagTyped /\ RefTyped /\ FramesTyped

FrameSteps ==
  \/ \E b \in ImageBuffers : FillImage(b)
  \/ OmxStep
  \/ \E w \in Workers : WorkerStep(w)
  \/ NotifierStep

CallSteps == takePicture \/ cancelPicture \/ HalStep \/ CommandStep

LEMMA TwoKinds == [Next]_vars => CallSteps \/ FrameSteps \/ UNCHANGED vars
  BY DEF Next, CallSteps, FrameSteps, Dead

(* The threads that carry frames leave CameraHal's calls alone.            *)
LEMMA FrameStepsFrame ==
  FrameSteps => UNCHANGED <<hal, app, rawWanted, cancelled, cmd, taken, captureActive, nextCapture>>
<1> USE DEF halVars, appVars, stateVars, flagVars, streamVars, portVars, workerVars, history
<1>1. ASSUME NEW b \in ImageBuffers, FillImage(b)
      PROVE  UNCHANGED <<hal, app, rawWanted, cancelled, cmd, taken, captureActive, nextCapture>>
  BY <1>1 DEF FillImage
<1>2. OmxStep => UNCHANGED <<hal, app, rawWanted, cancelled, cmd, taken, captureActive, nextCapture>>
  BY DEF OmxStep, PreviewFrame, ImageFrame, CheckCapture, SendRaw, ReturnRawBegins,
         ReturnRawEnds, SendImage, CountCaptured
<1>3. ASSUME NEW w \in Workers, WorkerStep(w)
      PROVE  UNCHANGED <<hal, app, rawWanted, cancelled, cmd, taken, captureActive, nextCapture>>
  BY <1>3 DEF WorkerStep, ProcessFlush, TakeFrame, SendToFrameQ
<1>4. NotifierStep => UNCHANGED <<hal, app, rawWanted, cancelled, cmd, taken, captureActive, nextCapture>>
  BY DEF NotifierStep, notifyFrame, NotifierReturnBegins, NotifierReturnEnds
<1> QED BY <1>1, <1>2, <1>3, <1>4 DEF FrameSteps

(* CameraHal's calls and the CommandHandler thread touch no frame.         *)
LEMMA CallStepsFrame ==
  CallSteps => UNCHANGED <<rawWanted, omx, filled, queue, hand, mPictureValid, mFrameQ, notifier,
                           mReturnFrameLock, encoder, delivered, unmade>>
<1> USE DEF halVars, appVars, stateVars, flagVars, streamVars, portVars, workerVars, history
<1> DEFINE U == UNCHANGED <<rawWanted, omx, filled, queue, hand, mPictureValid, mFrameQ, notifier,
                            mReturnFrameLock, encoder, delivered, unmade>>
<1>1. takePicture \/ cancelPicture \/ TakeCheck \/ TakeWakes => U
  BY DEF takePicture, cancelPicture, TakeCheck, TakeWakes
<1>2. \A m \in Modes, reformat, ok \in BOOLEAN : getPictureBufferSize(m, reformat, ok) => U
  BY DEF getPictureBufferSize
<1>3. \A ok \in BOOLEAN : UseBuffersCapture(ok) => U
  BY DEF UseBuffersCapture
<1>4. \A w \in Workers : ImageCallbacks(w) => U
  BY DEF ImageCallbacks
<1>5. StartImageCapture \/ CommitCapture \/ StopImageCapture \/ CommitStop \/ RollbackStop => U
  BY DEF StartImageCapture, CommitCapture, StopImageCapture, CommitStop, RollbackStop
<1>7. \A ok \in BOOLEAN : stopImageCapture(ok) => U
  BY DEF stopImageCapture
<1>6. CommandStep => U
  BY DEF CommandStep, HandleEnd, startImageCapture, signalEndImageCapture
<1> QED BY <1>1, <1>2, <1>3, <1>4, <1>5, <1>6, <1>7 DEF CallSteps, HalStep

LEMMA HalRecords ==
  /\ IdleHal \in HalCall /\ IdleHal.op = NONE
  /\ \A o \in {"take", "cancel", "end"}, p \in {"check", "resize"} :
       LET h == [op |-> o, pc |-> p, ok |-> TRUE]
       IN  h \in HalCall /\ h.op = o /\ h.pc = p
<1>1. TRUE \in BOOLEAN
  BY Zenon
<1> QED BY <1>1 DEF IdleHal, HalCall

LEMMA NextCallTyped ==
  ASSUME CallTyped, [Next]_vars
  PROVE  CallTyped'
<1> USE DEF halVars, appVars, stateVars, flagVars, streamVars, portVars, workerVars, history
<1>1. hal \in HalCall /\ taken \in 0..MaxTakes /\ NONE \notin {"take", "cancel", "end"}
  BY DEF CallTyped, NONE
<1>2. MaxTakes \in Nat
  BY CaptureAssumption
<1>3. CASE FrameSteps \/ UNCHANGED vars
  BY <1>3, FrameStepsFrame DEF vars, CallTyped
<1>4. CASE takePicture \/ cancelPicture
  <2>1. /\ app = "idle" /\ app' = "call" /\ UNCHANGED <<cmd, taken>>
        /\ \/ taken < MaxTakes /\ hal' = [op |-> "take", pc |-> "check", ok |-> TRUE]
           \/ hal' = [op |-> "cancel", pc |-> "resize", ok |-> TRUE]
    BY <1>4 DEF takePicture, cancelPicture
  <2>2. hal' \in HalCall /\ (hal'.op = "take" => taken < MaxTakes)
    BY <2>1, HalRecords
  <2> QED BY <2>1, <2>2 DEF CallTyped
<1>5. CASE TakeCheck \/ TakeWakes
  <2>1. UNCHANGED <<cmd, taken>>
    BY <1>5 DEF TakeCheck, TakeWakes
  <2>2. CASE hal' = IdleHal /\ app' = "wait" /\ TakeCheck
    BY <1>1, <2>1, <2>2, HalRecords DEF TakeCheck, CallTyped
  <2>3. CASE hal' = [hal EXCEPT !.pc = "query"] /\ UNCHANGED app /\ TakeCheck
    BY <2>1, <2>3 DEF TakeCheck, CallTyped, HalCall
  <2>4. CASE /\ app = "woken" /\ app' = "call"
             /\ hal' = [op |-> "take", pc |-> "check", ok |-> TRUE]
    BY <2>1, <2>4, HalRecords DEF CallTyped
  <2>5. CASE hal' = IdleHal /\ app' = "idle"
    BY <1>1, <2>1, <2>5, HalRecords DEF CallTyped
  <2> QED BY <1>5, <2>2, <2>3, <2>4, <2>5 DEF TakeCheck, TakeWakes, Return
<1>6. ASSUME NEW m \in Modes, NEW reformat \in BOOLEAN, NEW ok \in BOOLEAN,
             getPictureBufferSize(m, reformat, ok)
      PROVE  CallTyped'
  <2>1. UNCHANGED <<cmd, taken>>
    BY <1>6 DEF getPictureBufferSize
  <2>2. CASE hal' = [hal EXCEPT !.pc = IF ok THEN "use" ELSE "resize", !.ok = ok] /\ UNCHANGED app
    BY <1>6, <2>1, <2>2 DEF getPictureBufferSize, CallTyped, HalCall, NONE
  <2>3. CASE Return
    BY <1>1, <2>1, <2>3, HalRecords DEF Return, CallTyped
  <2> QED BY <1>6, <2>2, <2>3 DEF getPictureBufferSize
<1>7. ASSUME NEW ok \in BOOLEAN, UseBuffersCapture(ok) PROVE CallTyped'
  <2>1. /\ hal.op = "take" /\ hal.pc = "use" /\ UNCHANGED <<app, cmd>>
        /\ hal' = [hal EXCEPT !.pc = "resize", !.ok = ok]
        /\ taken' \in {taken, taken + 1}
    BY <1>7 DEF UseBuffersCapture
  <2>2. taken < MaxTakes /\ taken \in 0..MaxTakes /\ hal \in HalCall /\ app = "call"
    BY <2>1 DEF CallTyped
  <2>3. taken' \in 0..MaxTakes
    BY <1>2, <2>1, <2>2
  <2>4. hal' \in HalCall /\ hal'.pc = "resize"
    BY <2>1, <2>2 DEF HalCall
  <2> QED BY <2>1, <2>2, <2>3, <2>4 DEF CallTyped
<1>8. ASSUME NEW w \in Workers, ImageCallbacks(w) PROVE CallTyped'
  <2>1. /\ UNCHANGED <<app, cmd, taken>>
        /\ hal' = [hal EXCEPT !.pc = IF w = "resize" THEN "jpeg" ELSE "adapter"]
    BY <1>8 DEF ImageCallbacks
  <2>2. hal' \in HalCall /\ hal'.op = hal.op /\ hal'.pc \in {"jpeg", "adapter"}
    BY <2>1 DEF CallTyped, HalCall
  <2> QED BY <2>1, <2>2 DEF CallTyped
<1>9. CASE StartImageCapture \/ CommitCapture
  <2>1. UNCHANGED <<cmd, taken>>
    BY <1>9 DEF StartImageCapture, CommitCapture
  <2>2. CASE hal' = [hal EXCEPT !.pc = "commit"] /\ UNCHANGED app
    BY <2>1, <2>2 DEF CallTyped, HalCall
  <2>3. CASE hal' = IdleHal /\ app' = "idle"
    BY <1>1, <2>1, <2>3, HalRecords DEF CallTyped
  <2> QED BY <1>9, <2>2, <2>3 DEF StartImageCapture, CommitCapture, Return
<1>10. ASSUME EndCall, taken' = taken PROVE CallTyped'
  <2>1. CASE hal.op = "end"
    BY <1>1, <1>10, <2>1, HalRecords DEF EndCall, CallTyped
  <2>2. CASE hal.op # "end"
    BY <1>1, <1>10, <2>2, HalRecords DEF EndCall, CallTyped
  <2> QED BY <2>1, <2>2
<1>11. CASE StopImageCapture
  <2>1. CASE captureActive
    BY <1>11, <2>1 DEF StopImageCapture, CallTyped, HalCall
  <2>2. CASE ~captureActive
    BY <1>10, <1>11, <2>2 DEF StopImageCapture
  <2> QED BY <2>1, <2>2
<1>12. ASSUME NEW ok \in BOOLEAN, stopImageCapture(ok) PROVE CallTyped'
  <2>1. UNCHANGED <<app, cmd, taken>> /\ hal' = [hal EXCEPT !.pc = "remove", !.ok = ok]
    BY <1>12 DEF stopImageCapture
  <2>2. hal' \in HalCall /\ hal'.op = hal.op /\ hal'.pc = "remove"
    BY <2>1 DEF CallTyped, HalCall
  <2> QED BY <2>1, <2>2 DEF CallTyped
<1>13. CASE CommitStop \/ RollbackStop
  BY <1>10, <1>13 DEF CommitStop, RollbackStop
<1>14. CASE CommandStep
  <2>1. CASE HandleEnd \/ (\E ok \in BOOLEAN : startImageCapture(ok))
    BY <2>1 DEF HandleEnd, startImageCapture, CallTyped
  <2>2. CASE signalEndImageCapture
    <3>1. /\ UNCHANGED <<app, taken>> /\ cmd' = "busy" /\ hal' \in HalCall
          /\ hal'.op = "end"
      BY <2>2, HalRecords DEF signalEndImageCapture
    <3> QED BY <1>1, <3>1 DEF CallTyped
  <2> QED BY <1>14, <2>1, <2>2 DEF CommandStep
<1> QED BY <1>3, <1>4, <1>5, <1>6, <1>7, <1>8, <1>9, <1>11, <1>12, <1>13, <1>14, TwoKinds
        DEF CallSteps, HalStep

(* What happens to the message queue: a message more, the first one gone.  *)
MsgStep ==
  \/ mCommandMsgQ' = mCommandMsgQ
  \/ \E m \in {"START_IMAGE_CAPTURE", "END_IMAGE_CALLBACK"} : mCommandMsgQ' = Append(mCommandMsgQ, m)
  \/ mCommandMsgQ # <<>> /\ mCommandMsgQ' = Tail(mCommandMsgQ)

LEMMA QueueTyped ==
  ASSUME NEW S, NEW q \in Seq(S), NEW r,
         \/ r = q
         \/ \E m \in S : r = Append(q, m)
         \/ q # <<>> /\ r = Tail(q)
  PROVE  r \in Seq(S)
<1>1. ASSUME NEW m \in S PROVE Append(q, m) \in Seq(S)
  OBVIOUS
<1>2. q # <<>> => Tail(q) \in Seq(S)
  OBVIOUS
<1> QED BY <1>1, <1>2, Zenon

LEMMA NextFlagTyped ==
  ASSUME FlagTyped, [Next]_vars
  PROVE  FlagTyped'
<1> USE DEF halVars, appVars, stateVars, flagVars, streamVars, portVars, workerVars, history
<1>1. /\ left \in 0..1 /\ mReturnFrameLock \in {NONE, "omx", "notifier"}
      /\ flush \in [Workers -> {NONE, "start", "stop"}] /\ \E w \in Workers : flush[w] = NONE
      /\ mCommandMsgQ \in Seq({"START_IMAGE_CAPTURE", "END_IMAGE_CALLBACK"})
      /\ captureActive \in BOOLEAN /\ nextCapture \in BOOLEAN
  BY DEF FlagTyped
<1> DEFINE Ok == /\ left' \in 0..1
                 /\ mReturnFrameLock' \in {NONE, "omx", "notifier"}
                 /\ captureActive' = captureActive \/ captureActive' = TRUE \/ captureActive' = FALSE
                 /\ \/ nextCapture' = nextCapture \/ nextCapture' = captureActive
                    \/ nextCapture' = TRUE \/ nextCapture' = FALSE
                 /\ flush' \in [Workers -> {NONE, "start", "stop"}]
                 /\ \E w \in Workers : flush'[w] = NONE
                 /\ MsgStep
<1>2. ASSUME Ok PROVE FlagTyped'
  <2>1. captureActive' \in BOOLEAN /\ nextCapture' \in BOOLEAN
    BY <1>1, <1>2, Zenon
  <2>2. mCommandMsgQ' \in Seq({"START_IMAGE_CAPTURE", "END_IMAGE_CALLBACK"})
    <3>1. MsgStep
      BY <1>2, Zenon
    <3> QED BY <1>1, <3>1, QueueTyped, Zenon DEF MsgStep
  <2> QED BY <1>2, <2>1, <2>2 DEF FlagTyped
<1>3. CASE takePicture \/ cancelPicture \/ TakeCheck \/ TakeWakes
  <2>1. Ok
    BY <1>1, <1>3 DEF takePicture, cancelPicture, TakeCheck, TakeWakes, MsgStep
  <2> QED BY <1>2, <2>1
<1>4. ASSUME NEW m \in Modes, NEW reformat \in BOOLEAN, NEW ok \in BOOLEAN,
             getPictureBufferSize(m, reformat, ok)
      PROVE  FlagTyped'
  <2>1. Ok
    BY <1>1, <1>4 DEF getPictureBufferSize, MsgStep
  <2> QED BY <1>2, <2>1
<1>5. ASSUME NEW ok \in BOOLEAN, UseBuffersCapture(ok) PROVE FlagTyped'
  <2>1. Ok
    BY <1>1, <1>5 DEF UseBuffersCapture, MsgStep
  <2> QED BY <1>2, <2>1
<1>6. ASSUME NEW w \in Workers, ImageCallbacks(w) PROVE FlagTyped'
  <2>1. /\ \A v \in Workers : flush[v] = NONE
        /\ \E x \in {"start", "stop"} : flush' = [flush EXCEPT ![w] = x]
        /\ UNCHANGED <<left, mReturnFrameLock, captureActive, nextCapture, mCommandMsgQ>>
    BY <1>6 DEF ImageCallbacks
  <2>2. \E v \in Workers : flush'[v] = NONE
    <3>1. PICK v \in Workers : v # w
      BY DEF Workers
    <3> QED BY <1>1, <2>1, <3>1
  <2>3. Ok
    BY <1>1, <2>1, <2>2 DEF MsgStep
  <2> QED BY <1>2, <2>3
<1>7. CASE StartImageCapture \/ CommitCapture
  <2>1. Ok
    BY <1>1, <1>7 DEF StartImageCapture, CommitCapture, MsgStep
  <2> QED BY <1>2, <2>1
<1>8. CASE StopImageCapture \/ CommitStop \/ RollbackStop
  <2>1. Ok
    BY <1>1, <1>8 DEF StopImageCapture, CommitStop, RollbackStop, MsgStep
  <2> QED BY <1>2, <2>1
<1>15. ASSUME NEW ok \in BOOLEAN, stopImageCapture(ok) PROVE FlagTyped'
  <2>1. Ok
    BY <1>1, <1>15 DEF stopImageCapture, performCleanupAfterError, MsgStep
  <2> QED BY <1>2, <2>1
<1>9. CASE CommandStep
  <2>1. Ok
    BY <1>1, <1>9 DEF CommandStep, HandleEnd, startImageCapture, performCleanupAfterError,
                      signalEndImageCapture, MsgStep
  <2> QED BY <1>2, <2>1
<1>10. ASSUME NEW b \in ImageBuffers, FillImage(b) PROVE FlagTyped'
  <2>1. Ok
    BY <1>1, <1>10 DEF FillImage, MsgStep
  <2> QED BY <1>2, <2>1
<1>11. CASE OmxStep
  <2>1. CASE ReturnRawBegins \/ ReturnRawEnds
    <3>1. Ok
      BY <1>1, <2>1 DEF ReturnRawBegins, ReturnRawEnds, onReturnFrame, returnFrame, MsgStep
    <3> QED BY <1>2, <3>1
  <2>2. CASE ~(ReturnRawBegins \/ ReturnRawEnds)
    <3>1. Ok
      BY <1>1, <1>11, <2>2 DEF OmxStep, PreviewFrame, ImageFrame, CheckCapture, SendRaw, SendImage,
                               CountCaptured, MsgStep
    <3> QED BY <1>2, <3>1
  <2> QED BY <2>1, <2>2
<1>12. ASSUME NEW w \in Workers, WorkerStep(w) PROVE FlagTyped'
  <2>1. /\ UNCHANGED <<left, mReturnFrameLock, captureActive, nextCapture, mCommandMsgQ>>
        /\ flush' = flush \/ flush' = [flush EXCEPT ![w] = NONE]
    BY <1>12 DEF WorkerStep, ProcessFlush, TakeFrame, SendToFrameQ
  <2>2. Ok
    BY <1>1, <2>1 DEF MsgStep
  <2> QED BY <1>2, <2>2
<1>13. CASE NotifierStep
  <2>1. Ok
    BY <1>1, <1>13 DEF NotifierStep, notifyFrame, NotifierReturnBegins, NotifierReturnEnds,
                       onReturnFrame, returnFrame, MsgStep
  <2> QED BY <1>2, <2>1
<1>14. CASE UNCHANGED vars
  <2>1. Ok
    BY <1>1, <1>14 DEF vars, MsgStep
  <2> QED BY <1>2, <2>1
<1> QED BY <1>3, <1>4, <1>5, <1>6, <1>7, <1>8, <1>9, <1>10, <1>11, <1>12, <1>13, <1>14, <1>15,
         TwoKinds DEF CallSteps, FrameSteps, HalStep

(* How a step changes the counts: the image buffers' are cleared, one is   *)
(* incremented, one that is not zero is decremented.                       *)
LEMMA CallStepsRefs ==
  ASSUME CallSteps
  PROVE  mRefCount' = mRefCount \/ mRefCount' = ClearedImageRefs
<1> USE DEF halVars, appVars, stateVars, flagVars, streamVars, portVars, workerVars, history
<1> DEFINE U == mRefCount' = mRefCount \/ mRefCount' = ClearedImageRefs
<1>1. takePicture \/ cancelPicture \/ TakeCheck \/ TakeWakes => U
  BY DEF takePicture, cancelPicture, TakeCheck, TakeWakes
<1>2. \A m \in Modes, reformat, ok \in BOOLEAN : getPictureBufferSize(m, reformat, ok) => U
  BY DEF getPictureBufferSize
<1>3. \A ok \in BOOLEAN : UseBuffersCapture(ok) => U
  BY DEF UseBuffersCapture
<1>4. \A w \in Workers : ImageCallbacks(w) => U
  BY DEF ImageCallbacks
<1>5. StartImageCapture \/ CommitCapture \/ StopImageCapture \/ CommitStop \/ RollbackStop => U
  BY DEF StartImageCapture, CommitCapture, StopImageCapture, CommitStop, RollbackStop
<1>7. \A ok \in BOOLEAN : stopImageCapture(ok) => U
  BY DEF stopImageCapture
<1>6. CommandStep => U
  BY DEF CommandStep, HandleEnd, startImageCapture, signalEndImageCapture
<1> QED BY <1>1, <1>2, <1>3, <1>4, <1>5, <1>6, <1>7 DEF CallSteps, HalStep

LEMMA NextRefTyped ==
  ASSUME RefTyped, PathTyped, FramesTyped, [Next]_vars
  PROVE  RefTyped'
<1> USE DEF halVars, appVars, stateVars, flagVars, streamVars, portVars, workerVars, history
<1>1. mRefCount \in [Buffers -> [Types -> Nat]] /\ RAW \in Types /\ IMAGE \in Types
  BY DEF RefTyped, Types
<1>2. CASE mRefCount' = mRefCount
  BY <1>2 DEF RefTyped
<1>3. CASE CallSteps
  <2>1. CASE mRefCount' = ClearedImageRefs
    <3>1. NoRefs \in [Types -> Nat]
      BY DEF NoRefs
    <3> QED BY <1>1, <2>1, <3>1 DEF ClearedImageRefs, RefTyped
  <2> QED BY <1>2, <1>3, <2>1, CallStepsRefs
<1>4. ASSUME NEW b \in Buffers, NEW t \in Types, incRefCount(b, t) PROVE RefTyped'
  BY <1>1, <1>4 DEF incRefCount, RefTyped
<1>5. ASSUME NEW b \in Buffers, NEW t \in Types, NEW th, returnFrame(th, b, t) PROVE RefTyped'
  <2>1. CASE mRefCount[b][t] > 0
    <3>1. mRefCount[b][t] - 1 \in Nat
      BY <1>1, <2>1
    <3> QED BY <1>1, <1>5, <2>1, <3>1 DEF returnFrame, RefTyped
  <2>2. CASE ~(mRefCount[b][t] > 0)
    BY <1>2, <1>5, <2>2 DEF returnFrame
  <2> QED BY <2>1, <2>2
<1>6. CASE OmxStep
  <2>1. CASE ImageFrame \/ CheckCapture \/ ReturnRawBegins \/ CountCaptured
    BY <1>2, <2>1 DEF ImageFrame, CheckCapture, ReturnRawBegins, CountCaptured
  <2>2. ASSUME NEW b \in PreviewBuffers, PreviewFrame(b) PROVE RefTyped'
    BY <1>2, <2>2 DEF PreviewFrame
  <2>3. omx.pc # "idle" => omx.buf \in Buffers
    BY DEF PathTyped
  <2>4. CASE SendRaw
    BY <1>1, <1>2, <1>4, <2>3, <2>4 DEF SendRaw
  <2>5. CASE SendImage
    BY <1>1, <1>2, <1>4, <2>3, <2>5 DEF SendImage
  <2>6. CASE ReturnRawEnds
    BY <1>1, <1>5, <2>3, <2>6 DEF ReturnRawEnds
  <2> QED BY <1>6, <2>1, <2>2, <2>4, <2>5, <2>6 DEF OmxStep
<1>7. ASSUME NEW w \in Workers, WorkerStep(w) PROVE RefTyped'
  BY <1>2, <1>7 DEF WorkerStep, ProcessFlush, TakeFrame, SendToFrameQ
<1>8. CASE NotifierStep
  <2>1. CASE (\E memory \in BOOLEAN : notifyFrame(memory)) \/ NotifierReturnBegins
    BY <1>2, <2>1 DEF notifyFrame, NotifierReturnBegins
  <2>2. CASE NotifierReturnEnds
    <3>1. notifier.frame \in Frames
      BY <2>2 DEF NotifierReturnEnds, FramesTyped
    <3>2. notifier.frame.buf \in Buffers /\ notifier.frame.type \in Types
      BY <3>1 DEF Frames
    <3> QED BY <1>5, <2>2, <3>2 DEF NotifierReturnEnds
  <2> QED BY <1>8, <2>1, <2>2 DEF NotifierStep
<1>9. ASSUME NEW b \in ImageBuffers, FillImage(b) PROVE RefTyped'
  BY <1>2, <1>9 DEF FillImage
<1>10. CASE UNCHANGED vars
  BY <1>2, <1>10 DEF vars
<1> QED BY <1>3, <1>6, <1>7, <1>8, <1>9, <1>10, TwoKinds DEF FrameSteps

LEMMA NextFramesTyped ==
  ASSUME PathInv, CallTyped, FramesTyped, [Next]_vars
  PROVE  FramesTyped'
<1> USE DEF halVars, appVars, stateVars, flagVars, streamVars, portVars, workerVars, history
<1>1. /\ DOMAIN queue = Workers /\ DOMAIN hand = Workers
      /\ \A w \in Workers : queue[w] \in Seq(Frames) /\ hand[w] \subseteq Frames
      /\ mFrameQ \in Seq(Frames)
      /\ notifier \in [pc : {"idle", "return", "decrement"}, frame : Frames \cup {NoFrame}]
      /\ notifier.pc # "idle" => notifier.frame \in Frames
  BY DEF PathInv, PathTyped, FramesTyped
<1>2. ASSUME UNCHANGED <<queue, hand, mFrameQ, notifier>> PROVE FramesTyped'
  BY <1>2 DEF FramesTyped
<1>3. CASE CallSteps \/ UNCHANGED vars
  BY <1>2, <1>3, CallStepsFrame DEF vars
<1>4. ASSUME NEW b \in ImageBuffers, FillImage(b) PROVE FramesTyped'
  BY <1>2, <1>4 DEF FillImage
(* A frame that is sent carries the number of an accepted call.            *)
<1>5. ASSUME NEW t \in Types, NEW w \in Workers, omx.pc \in {"raw", "image"},
             queue' = queue \/ queue' = [queue EXCEPT ![w] = Append(@, Frame(omx.buf, t, omx.shot))],
             UNCHANGED <<hand, mFrameQ, notifier>>
      PROVE  FramesTyped'
  <2>1. omx.buf \in Buffers /\ Sending = {omx.shot} /\ Sending \subseteq 1..taken
    BY <1>5 DEF PathInv, PathTyped, Order, Sending
  <2>2. omx.shot \in 1..MaxTakes
    BY <2>1, CaptureAssumption DEF CallTyped
  <2> DEFINE f == Frame(omx.buf, t, omx.shot)
  <2>3. f \in Frames
    BY <2>1, <2>2 DEF Frame, Frames
  <2> HIDE DEF f
  <2>4. ASSUME NEW v \in Workers PROVE queue'[v] \in {queue[v], Append(queue[v], f)}
    BY <1>1, <1>5 DEF f
  <2>5. ASSUME NEW v \in Workers PROVE queue'[v] \in Seq(Frames)
    BY <1>1, <2>3, <2>4, AppendTyped
  <2> QED BY <1>5, <2>5 DEF FramesTyped
<1>6. CASE OmxStep
  <2>1. CASE SendRaw
    <3>1. \/ queue' = queue
          \/ queue' = [queue EXCEPT !["resize"] = Append(@, Frame(omx.buf, RAW, omx.shot))]
      BY <2>1 DEF SendRaw
    <3> QED BY <1>5, <2>1, <3>1 DEF SendRaw, Types, Workers
  <2>2. CASE SendImage
    <3>1. \/ queue' = queue
          \/ queue' = [queue EXCEPT ![encoder] = Append(@, Frame(omx.buf, IMAGE, omx.shot))]
      BY <2>2 DEF SendImage
    <3>2. encoder \in Workers /\ IMAGE \in Types
      BY DEF PathInv, PathTyped, Types
    <3> QED BY <1>5, <2>2, <3>1, <3>2 DEF SendImage
  <2>3. CASE ~SendRaw /\ ~SendImage
    BY <1>2, <1>6, <2>3 DEF OmxStep, PreviewFrame, ImageFrame, CheckCapture, ReturnRawBegins,
                            ReturnRawEnds, CountCaptured
  <2> QED BY <2>1, <2>2, <2>3
<1>7. ASSUME NEW w \in Workers, WorkerStep(w) PROVE FramesTyped'
  <2>1. CASE ProcessFlush(w)
    <3>1. PICK q \in Flushed(w) : /\ queue' = [queue EXCEPT ![w] = q]
                                  /\ UNCHANGED <<hand, mFrameQ, notifier>>
      BY <2>1 DEF ProcessFlush
    <3>2. q \in Seq(Frames)
      <4>1. <<>> \in Seq(Frames)
        OBVIOUS
      <4>2. q = <<>> \/ q = queue[w] \/ q \in WithoutImages(queue[w])
        BY DEF Flushed
      <4> QED BY <1>1, <4>1, <4>2, WithoutImagesIs
    <3> QED BY <1>1, <3>1, <3>2 DEF FramesTyped
  <2>2. CASE TakeFrame(w)
    <3>1. /\ queue[w] # <<>> /\ queue' = [queue EXCEPT ![w] = Tail(@)]
          /\ \E S \in {{}, {Head(queue[w])}} : hand' = [hand EXCEPT ![w] = S]
          /\ UNCHANGED <<mFrameQ, notifier>>
      BY <2>2 DEF TakeFrame
    <3>2. Tail(queue[w]) \in Seq(Frames) /\ Head(queue[w]) \in Frames
      BY <1>1, <3>1
    <3> QED BY <1>1, <3>1, <3>2 DEF FramesTyped
  <2>3. CASE SendToFrameQ(w)
    <3>1. PICK f \in hand[w] : /\ mFrameQ' = Append(mFrameQ, f)
                               /\ hand' = [hand EXCEPT ![w] = {}]
                               /\ UNCHANGED <<queue, notifier>>
      BY <2>3 DEF SendToFrameQ
    <3>2. f \in Frames /\ Append(mFrameQ, f) \in Seq(Frames)
      BY <1>1, <3>1
    <3> QED BY <1>1, <3>1, <3>2 DEF FramesTyped
  <2> QED BY <1>7, <2>1, <2>2, <2>3 DEF WorkerStep
<1>8. CASE NotifierStep
  <2>1. UNCHANGED <<queue, hand>>
    BY <1>8 DEF NotifierStep, notifyFrame, NotifierReturnBegins, NotifierReturnEnds
  <2>2. CASE \E memory \in BOOLEAN : notifyFrame(memory)
    <3>1. /\ mFrameQ # <<>> /\ mFrameQ' = Tail(mFrameQ)
          /\ notifier' = [pc |-> "return", frame |-> Head(mFrameQ)]
      BY <2>2 DEF notifyFrame
    <3>2. Tail(mFrameQ) \in Seq(Frames) /\ Head(mFrameQ) \in Frames
      BY <1>1, <3>1
    <3> QED BY <1>1, <2>1, <3>1, <3>2 DEF FramesTyped
  <2>3. CASE NotifierReturnBegins
    <3>1. /\ notifier.pc = "return" /\ notifier' = [notifier EXCEPT !.pc = "decrement"]
          /\ mFrameQ' = mFrameQ
      BY <2>3 DEF NotifierReturnBegins
    <3>2. notifier'.frame = notifier.frame
      BY <1>1, <3>1
    <3>3. notifier' \in [pc : {"idle", "return", "decrement"}, frame : Frames \cup {NoFrame}]
      BY <1>1, <3>1
    <3> QED BY <1>1, <2>1, <3>1, <3>2, <3>3 DEF FramesTyped
  <2>4. CASE NotifierReturnEnds
    <3>1. notifier' = IdleNotifier /\ mFrameQ' = mFrameQ
      BY <2>4 DEF NotifierReturnEnds
    <3> QED BY <1>1, <2>1, <3>1 DEF FramesTyped, IdleNotifier
  <2> QED BY <1>8, <2>2, <2>3, <2>4 DEF NotifierStep
<1> QED BY <1>3, <1>4, <1>6, <1>7, <1>8, TwoKinds DEF FrameSteps

LEMMA InitTypeInv == Init => TypeInv
<1> SUFFICES ASSUME Init PROVE TypeInv
  OBVIOUS
<1>1. CallTyped
  BY HalRecords, CaptureAssumption DEF Init, CallTyped, NONE
<1>2. FlagTyped
  <2>1. captureActive \in BOOLEAN /\ nextCapture \in BOOLEAN
    BY Zenon DEF Init
  <2> QED BY <2>1 DEF Init, FlagTyped, Workers
<1>3. RefTyped
  BY DEF Init, RefTyped, NoRefs
<1>4. FramesTyped
  BY DEF Init, FramesTyped, IdleNotifier
<1> QED BY <1>1, <1>2, <1>3, <1>4 DEF TypeInv

LEMMA NextTypeInv == PathInv /\ TypeInv /\ [Next]_vars => TypeInv'
  BY NextCallTyped, NextFlagTyped, NextRefTyped, NextFramesTyped DEF TypeInv, PathInv

(* mCapturedFrames, a plain int that the CameraHal thread sets and the     *)
(* OMXCallbackHandler thread decrements, stays in 0..1, the counts stay in *)
(* Nat, one flush is under way at a time, and every frame in a queue       *)
(* belongs to a takePicture call that was accepted.                        *)
THEOREM CaptureTypeCorrect == Spec => []TypeOK
<1>1. PathInv /\ TypeInv => TypeOK
  BY DEF PathInv, PathTyped, TypeInv, CallTyped, FlagTyped, RefTyped, FramesTyped, TypeOK, HalCall
<1>2. PathInv /\ TypeInv /\ [Next]_vars => PathInv' /\ TypeInv'
  BY NextPathInv, NextTypeInv
<1> QED BY <1>1, <1>2, InitPathInv, InitTypeInv, PTL DEF Spec

-----------------------------------------------------------------------------
(* Preview frames in use as pictures.  The camera fills a preview buffer   *)
(* only when its count is zero, so that a buffer and a type name at most   *)
(* one frame between the first queue and the notifier.                     *)

Keys(S) == {<<f.buf, f.type>> : f \in {g \in S : g.buf \in PreviewBuffers}}

Distinct(q) ==
  \A i, j \in 1..Len(q) :
    i # j /\ q[i].buf \in PreviewBuffers => <<q[i].buf, q[i].type>> # <<q[j].buf, q[j].type>>

InNotifier == IF notifier.pc = "idle" THEN {} ELSE {notifier.frame}

KeysQueued(w) == Keys(Image(queue[w]))
KeysInHand(w) == Keys(hand[w])
KeysWaiting   == Keys(Image(mFrameQ))
KeysNotified  == Keys(InNotifier)

Apart(A, B) == \A a \in A : a \notin B

OncePerKey ==
  /\ Distinct(mFrameQ)
  /\ Apart(KeysWaiting, KeysNotified)
  /\ \A w \in Workers :
       /\ Distinct(queue[w])
       /\ \A f, g \in hand[w] : f = g
       /\ Apart(KeysQueued(w), KeysInHand(w))
       /\ Apart(KeysQueued(w), KeysWaiting)
       /\ Apart(KeysQueued(w), KeysNotified)
       /\ Apart(KeysInHand(w), KeysWaiting)
       /\ Apart(KeysInHand(w), KeysNotified)

(* A key of a frame between sendFrame and returnFrame.                     *)
InUse(k) ==
  \/ \E w \in Workers : k \in KeysQueued(w) \/ k \in KeysInHand(w)
  \/ k \in KeysWaiting
  \/ k \in KeysNotified

KeysHeld == \A k \in PreviewBuffers \X Types : InUse(k) => mRefCount[k[1]][k[2]] > 0

(* The buffer being dispatched has no reference that it is about to get,   *)
(* and the RAW frame that is being returned is in no queue.                *)
DispatchInv ==
  omx.buf \in PreviewBuffers =>
    /\ omx.pc \in {"check", "raw"} => mRefCount[omx.buf][RAW] = 0
    /\ omx.pc \in {"check", "raw", "return", "decrement", "image"} => mRefCount[omx.buf][IMAGE] = 0
    /\ omx.pc \in {"return", "decrement"} => ~InUse(<<omx.buf, RAW>>)

HeldInv == OncePerKey /\ KeysHeld /\ DispatchInv

LEMMA KeysOf ==
  /\ Keys({}) = {}
  /\ \A A, B : Keys(A \cup B) = Keys(A) \cup Keys(B)
  /\ \A A, B : A \subseteq B => Keys(A) \subseteq Keys(B)
  /\ \A f : Keys({f}) = IF f.buf \in PreviewBuffers THEN {<<f.buf, f.type>>} ELSE {}
<1>1. Keys({}) = {}
  BY DEF Keys
<1>2. ASSUME NEW A, NEW B
      PROVE  Keys(A \cup B) = Keys(A) \cup Keys(B) /\ (A \subseteq B => Keys(A) \subseteq Keys(B))
  BY DEF Keys
<1>3. ASSUME NEW f PROVE Keys({f}) = IF f.buf \in PreviewBuffers THEN {<<f.buf, f.type>>} ELSE {}
  BY DEF Keys
<1> QED BY <1>1, <1>2, <1>3

LEMMA AppendKeys ==
  ASSUME NEW q \in Seq(Frames), NEW f \in Frames
  PROVE  /\ Keys(Image(Append(q, f))) = Keys(Image(q)) \cup Keys({f})
         /\ Distinct(q) /\ Apart(Keys({f}), Keys(Image(q))) => Distinct(Append(q, f))
<1> DEFINE r == Append(q, f)
<1>1. r \in Seq(Frames) /\ Len(r) = Len(q) + 1 /\ r[Len(q) + 1] = f /\ Len(q) \in Nat
  OBVIOUS
<1>2. \A j \in 1..Len(q) : r[j] = q[j]
  OBVIOUS
<1> HIDE DEF r
<1>3. Image(r) = Image(q) \cup {f}
  BY <1>1, <1>2 DEF Image
<1>4. ASSUME Distinct(q), Apart(Keys({f}), Keys(Image(q))) PROVE Distinct(r)
  <2>1. ASSUME NEW j \in 1..Len(q), f.buf \in PreviewBuffers
        PROVE  <<f.buf, f.type>> # <<q[j].buf, q[j].type>>
    <3>1. <<f.buf, f.type>> \in Keys({f})
      BY <2>1 DEF Keys
    <3>2. q[j].buf \in PreviewBuffers => <<q[j].buf, q[j].type>> \in Keys(Image(q))
      BY DEF Keys, Image
    <3> QED BY <1>4, <2>1, <3>1, <3>2 DEF Apart
  <2> SUFFICES ASSUME NEW k \in 1..Len(r), NEW j \in 1..Len(r), k # j, r[k].buf \in PreviewBuffers
               PROVE  <<r[k].buf, r[k].type>> # <<r[j].buf, r[j].type>>
    BY DEF Distinct
  <2>2. CASE k \in 1..Len(q) /\ j \in 1..Len(q)
    BY <1>2, <1>4, <2>2 DEF Distinct
  <2>3. CASE k \in 1..Len(q) /\ j = Len(q) + 1
    BY <1>1, <1>2, <2>1, <2>3
  <2>4. CASE k = Len(q) + 1 /\ j \in 1..Len(q)
    BY <1>1, <1>2, <2>1, <2>4
  <2> QED BY <1>1, <2>2, <2>3, <2>4
<1> QED BY <1>3, <1>4, KeysOf DEF r

LEMMA TailKeys ==
  ASSUME NEW q \in Seq(Frames), q # <<>>
  PROVE  /\ Keys(Image(Tail(q))) \subseteq Keys(Image(q))
         /\ Keys({Head(q)}) \subseteq Keys(Image(q))
         /\ Distinct(q) => Distinct(Tail(q)) /\ Apart(Keys({Head(q)}), Keys(Image(Tail(q))))
<1> DEFINE r == Tail(q)
           h == Head(q)
<1>1. r \in Seq(Frames) /\ Len(r) = Len(q) - 1 /\ Len(q) >= 1 /\ Len(q) \in Nat /\ h = q[1]
  OBVIOUS
<1>2. \A j \in 1..Len(r) : r[j] = q[j + 1]
  OBVIOUS
<1> HIDE DEF r, h
<1>3. Image(r) \subseteq Image(q)
  <2> SUFFICES ASSUME NEW j \in 1..Len(r) PROVE r[j] \in Image(q)
    BY DEF Image
  <2>1. j + 1 \in 1..Len(q)
    BY <1>1
  <2> QED BY <1>2, <2>1 DEF Image
<1>4. {h} \subseteq Image(q)
  BY <1>1 DEF Image
<1>5. ASSUME Distinct(q) PROVE Distinct(r)
  <2> SUFFICES ASSUME NEW k \in 1..Len(r), NEW j \in 1..Len(r), k # j, r[k].buf \in PreviewBuffers
               PROVE  <<r[k].buf, r[k].type>> # <<r[j].buf, r[j].type>>
    BY DEF Distinct
  <2>1. k + 1 \in 1..Len(q) /\ j + 1 \in 1..Len(q) /\ k + 1 # j + 1
    BY <1>1
  <2>2. r[k] = q[k + 1] /\ r[j] = q[j + 1]
    BY <1>2
  <2> QED BY <1>5, <2>1, <2>2 DEF Distinct
<1>6. ASSUME Distinct(q) PROVE Apart(Keys({h}), Keys(Image(r)))
  <2> SUFFICES ASSUME h.buf \in PreviewBuffers, NEW j \in 1..Len(r)
               PROVE  <<h.buf, h.type>> # <<r[j].buf, r[j].type>>
    BY DEF Apart, Keys, Image
  <2>1. 1 \in 1..Len(q) /\ j + 1 \in 1..Len(q) /\ 1 # j + 1
    BY <1>1
  <2> QED BY <1>1, <1>2, <1>6, <2>1 DEF Distinct
<1> QED BY <1>3, <1>4, <1>5, <1>6, KeysOf DEF r, h

(* What flushResizeQForImage leaves has the keys of frames it found.       *)
LEMMA WithoutImagesKeys ==
  ASSUME NEW q \in Seq(Frames), NEW r \in WithoutImages(q)
  PROVE  /\ Keys(Image(r)) \subseteq Keys(Image(q))
         /\ Distinct(q) => Distinct(r)
<1>1. PICK at \in [1..Len(r) -> 1..Len(q)] :
        /\ \A j, k \in 1..Len(r) : j < k => at[j] < at[k]
        /\ \A j \in 1..Len(r) : r[j] = q[at[j]]
  BY WithoutImagesIs
<1>2. Len(r) \in Nat /\ Len(q) \in Nat
  BY WithoutImagesIs
<1>3. Image(r) \subseteq Image(q)
  BY <1>1 DEF Image
<1>4. ASSUME Distinct(q) PROVE Distinct(r)
  <2> SUFFICES ASSUME NEW j \in 1..Len(r), NEW k \in 1..Len(r), j # k, r[j].buf \in PreviewBuffers
               PROVE  <<r[j].buf, r[j].type>> # <<r[k].buf, r[k].type>>
    BY DEF Distinct
  <2>1. at[j] \in 1..Len(q) /\ at[k] \in 1..Len(q)
    BY <1>1
  <2>2. j < k \/ k < j
    BY <1>2
  <2>3. at[j] # at[k]
    BY <1>1, <1>2, <2>1, <2>2
  <2> QED BY <1>1, <1>4, <2>1, <2>3 DEF Distinct
<1> QED BY <1>3, <1>4, KeysOf

(* Only the encoder has IMAGE frames, only the resize thread RAW frames.   *)
LEMMA WorkersApart ==
  ASSUME PathTyped, NEW v \in Workers, NEW w \in Workers, v # w
  PROVE  /\ Apart(KeysQueued(v), KeysQueued(w)) /\ Apart(KeysQueued(v), KeysInHand(w))
         /\ Apart(KeysInHand(v), KeysQueued(w)) /\ Apart(KeysInHand(v), KeysInHand(w))
<1>1. ASSUME NEW x \in Workers, NEW k \in KeysQueued(x) \cup KeysInHand(x)
      PROVE  IF k[2] = IMAGE THEN x = encoder ELSE x = "resize"
  <2>1. ASSUME NEW f \in Image(queue[x]) \cup hand[x]
        PROVE  IF f.type = IMAGE THEN x = encoder ELSE x = "resize"
    <3>1. f \in Carried(x, encoder)
      BY <2>1 DEF PathTyped, Image
    <3> QED BY <3>1, FrameKinds
  <2> QED BY <1>1, <2>1 DEF KeysQueued, KeysInHand, Keys
<1> QED BY <1>1 DEF Apart

(* The sets of keys when the frames are where they were.                   *)
LEMMA KeysStay ==
  ASSUME UNCHANGED <<queue, hand, mFrameQ, notifier>>
  PROVE  /\ OncePerKey => OncePerKey'
         /\ \A k : InUse(k)' <=> InUse(k)
<1>1. /\ \A w : KeysQueued(w)' = KeysQueued(w) /\ KeysInHand(w)' = KeysInHand(w)
      /\ KeysWaiting' = KeysWaiting /\ KeysNotified' = KeysNotified
  BY DEF KeysQueued, KeysInHand, KeysWaiting, KeysNotified, InNotifier
<1>2. OncePerKey => OncePerKey'
  BY <1>1 DEF OncePerKey
<1> QED BY <1>1, <1>2 DEF InUse

(* Only image buffers lose references to CameraHal's calls.                *)
LEMMA CallHeldInv ==
  ASSUME HeldInv, RefTyped,
         CallSteps \/ (\E b \in ImageBuffers : FillImage(b)) \/ UNCHANGED vars
  PROVE  HeldInv'
<1> USE DEF halVars, appVars, stateVars, flagVars, streamVars, portVars, workerVars, history
<1>1. UNCHANGED <<omx, queue, hand, mFrameQ, notifier>>
  <2>1. ASSUME NEW b \in ImageBuffers, FillImage(b) PROVE UNCHANGED <<omx, queue, hand, mFrameQ, notifier>>
    BY <2>1 DEF FillImage
  <2>2. UNCHANGED vars => UNCHANGED <<omx, queue, hand, mFrameQ, notifier>>
    BY DEF vars
  <2> QED BY <2>1, <2>2, CallStepsFrame
<1>2. \A b \in PreviewBuffers : mRefCount'[b] = mRefCount[b]
  <2>1. ASSUME NEW b \in ImageBuffers, FillImage(b) PROVE mRefCount' = mRefCount
    BY <2>1 DEF FillImage
  <2>2. UNCHANGED vars => mRefCount' = mRefCount
    BY DEF vars
  <2>3. ASSUME mRefCount' = ClearedImageRefs, NEW b \in PreviewBuffers PROVE mRefCount'[b] = mRefCount[b]
    BY <2>3, CaptureAssumption DEF ClearedImageRefs, Buffers
  <2> QED BY <2>1, <2>2, <2>3, CallStepsRefs
<1>3. OncePerKey' /\ \A k : InUse(k)' <=> InUse(k)
  BY <1>1, KeysStay DEF HeldInv
<1>4. KeysHeld'
  BY <1>2, <1>3 DEF HeldInv, KeysHeld
<1>5. DispatchInv'
  BY <1>1, <1>2, <1>3 DEF HeldInv, DispatchInv
<1> QED BY <1>3, <1>4, <1>5 DEF HeldInv

(* sendFrame for one type: the key is new to the queues, since its count   *)
(* was zero.                                                               *)
LEMMA SendHeldInv ==
  ASSUME HeldInv, PathInv, RefTyped, FramesTyped, FramesTyped', omx.buf \in Buffers,
         NEW t \in Types, NEW w \in Workers, NEW f \in Frames,
         f.buf = omx.buf, f.type = t, omx.buf \in PreviewBuffers => mRefCount[omx.buf][t] = 0,
         mRefCount' = [mRefCount EXCEPT ![omx.buf][t] = @ + 1],
         queue' = [queue EXCEPT ![w] = Append(@, f)],
         UNCHANGED <<hand, mFrameQ, notifier>>
  PROVE  /\ OncePerKey' /\ KeysHeld'
         /\ \A k : InUse(k)' => InUse(k) \/ k = <<omx.buf, t>>
<1>1. /\ DOMAIN queue = Workers /\ \A v \in Workers : queue[v] \in Seq(Frames)
      /\ mRefCount \in [Buffers -> [Types -> Nat]] /\ PreviewBuffers \subseteq Buffers
  BY DEF PathInv, PathTyped, RefTyped, FramesTyped, Buffers
<1>2. \A k \in Keys({f}) : /\ k = <<omx.buf, t>> /\ omx.buf \in PreviewBuffers
                           /\ k \in PreviewBuffers \X Types /\ ~InUse(k)
  <2>1. \A k \in Keys({f}) : k = <<omx.buf, t>> /\ omx.buf \in PreviewBuffers
    BY DEF Keys
  <2>2. omx.buf \in PreviewBuffers => ~InUse(<<omx.buf, t>>)
    BY DEF HeldInv, KeysHeld
  <2> QED BY <2>1, <2>2
<1>3. queue'[w] = Append(queue[w], f) /\ \A v \in Workers : v # w => queue'[v] = queue[v]
  BY <1>1
<1>4. /\ KeysQueued(w)' = KeysQueued(w) \cup Keys({f})
      /\ \A v \in Workers : v # w => KeysQueued(v)' = KeysQueued(v)
      /\ \A v \in Workers : KeysInHand(v)' = KeysInHand(v)
      /\ KeysWaiting' = KeysWaiting /\ KeysNotified' = KeysNotified
  <2>1. Keys(Image(queue'[w])) = Keys(Image(queue[w])) \cup Keys({f})
    BY <1>1, <1>3, AppendKeys
  <2> QED BY <1>3, <2>1 DEF KeysQueued, KeysInHand, KeysWaiting, KeysNotified, InNotifier
<1>5. \A v \in Workers : Distinct(queue'[v])
  <2>1. Apart(Keys({f}), Keys(Image(queue[w])))
    BY <1>2 DEF Apart, InUse, KeysQueued
  <2>2. Distinct(queue'[w])
    BY <1>1, <1>3, <2>1, AppendKeys DEF HeldInv, OncePerKey
  <2> QED BY <1>3, <2>2 DEF HeldInv, OncePerKey
<1>6. OncePerKey'
  <2>1. /\ Apart(Keys({f}), KeysInHand(w)) /\ Apart(Keys({f}), KeysWaiting)
        /\ Apart(Keys({f}), KeysNotified)
    BY <1>2 DEF InUse, Apart
  <2>2. Distinct(mFrameQ)' /\ Apart(KeysWaiting, KeysNotified)'
    BY <1>4 DEF HeldInv, OncePerKey, Apart
  <2>3. ASSUME NEW v \in Workers
        PROVE  /\ Distinct(queue[v])' /\ \A g, h \in hand'[v] : g = h
               /\ Apart(KeysQueued(v), KeysInHand(v))' /\ Apart(KeysQueued(v), KeysWaiting)'
               /\ Apart(KeysQueued(v), KeysNotified)' /\ Apart(KeysInHand(v), KeysWaiting)'
               /\ Apart(KeysInHand(v), KeysNotified)'
    <3>1. /\ Apart(KeysQueued(v), KeysInHand(v)) /\ Apart(KeysQueued(v), KeysWaiting)
          /\ Apart(KeysQueued(v), KeysNotified) /\ Apart(KeysInHand(v), KeysWaiting)
          /\ Apart(KeysInHand(v), KeysNotified) /\ \A g, h \in hand[v] : g = h
      BY DEF HeldInv, OncePerKey
    <3>2. KeysQueued(v)' = KeysQueued(v) \/ (v = w /\ KeysQueued(v)' = KeysQueued(v) \cup Keys({f}))
      BY <1>4
    <3>3. /\ KeysInHand(v)' = KeysInHand(v) /\ KeysWaiting' = KeysWaiting
          /\ KeysNotified' = KeysNotified
      BY <1>4
    <3> QED BY <1>5, <2>1, <3>1, <3>2, <3>3 DEF Apart
  <2> QED BY <2>2, <2>3 DEF OncePerKey
<1>7. \A k : InUse(k)' => InUse(k) \/ k \in Keys({f})
  BY <1>4 DEF InUse
<1>8. KeysHeld'
  <2> SUFFICES ASSUME NEW k \in PreviewBuffers \X Types, InUse(k)' PROVE mRefCount'[k[1]][k[2]] > 0
    BY DEF KeysHeld
  <2>1. k[1] \in Buffers /\ k[2] \in Types
    BY <1>1
  <2>2. mRefCount'[k[1]][k[2]] = IF k[1] = omx.buf /\ k[2] = t THEN mRefCount[k[1]][k[2]] + 1
                                 ELSE mRefCount[k[1]][k[2]]
    BY <1>1, <2>1
  <2>3. mRefCount[k[1]][k[2]] \in Nat
    BY <1>1, <2>1
  <2>4. InUse(k) => mRefCount[k[1]][k[2]] > 0
    BY DEF HeldInv, KeysHeld
  <2>5. InUse(k) \/ (k[1] = omx.buf /\ k[2] = t)
    <3>1. InUse(k) \/ k \in Keys({f})
      BY <1>7, Zenon
    <3> QED BY <1>2, <3>1
  <2> QED BY <2>2, <2>3, <2>4, <2>5
<1> QED BY <1>2, <1>6, <1>7, <1>8

(* returnFrame for a key that no other frame has.                          *)
LEMMA ReturnHeld ==
  ASSUME KeysHeld, RefTyped, NEW b \in Buffers, NEW t \in Types, NEW th, returnFrame(th, b, t),
         \A k : InUse(k)' => InUse(k),
         b \in PreviewBuffers => ~InUse(<<b, t>>)'
  PROVE  /\ KeysHeld'
         /\ \A c \in Buffers, u \in Types : mRefCount[c][u] = 0 => mRefCount'[c][u] = 0
<1>1. mRefCount \in [Buffers -> [Types -> Nat]] /\ PreviewBuffers \subseteq Buffers
  BY DEF RefTyped, Buffers
<1>2. \A c \in Buffers, u \in Types :
        <<c, u>> # <<b, t>> \/ mRefCount[c][u] = 0 => mRefCount'[c][u] = mRefCount[c][u]
  BY <1>1 DEF returnFrame
<1>3. ASSUME NEW k \in PreviewBuffers \X Types, InUse(k)' PROVE mRefCount'[k[1]][k[2]] > 0
  <2>1. k = <<k[1], k[2]>> /\ k[1] \in Buffers /\ k[1] \in PreviewBuffers /\ k[2] \in Types
    BY <1>1
  <2>2. k # <<b, t>>
    <3>1. ASSUME k = <<b, t>> PROVE FALSE
      <4>1. b \in PreviewBuffers
        BY <2>1, <3>1
      <4>2. ~InUse(<<b, t>>)'
        BY <4>1
      <4> QED BY <1>3, <3>1, <4>2
    <3> QED BY <3>1
  <2>3. InUse(k)
    BY <1>3, Zenon
  <2>4. mRefCount[k[1]][k[2]] > 0
    BY <2>3 DEF KeysHeld
  <2> QED BY <1>2, <2>1, <2>2, <2>4
<1> QED BY <1>2, <1>3 DEF KeysHeld

LEMMA OmxHeldInv ==
  ASSUME HeldInv, PathInv, RefTyped, FramesTyped, FramesTyped', OmxStep
  PROVE  HeldInv'
<1> USE DEF halVars, appVars, stateVars, flagVars, streamVars, portVars, workerVars, history
<1>1. /\ omx \in [pc : {"idle", "check"} \cup Dispatching, buf : Buffers \cup {NONE},
                  seen : BOOLEAN, shot : Nat]
      /\ omx.pc # "idle" => omx.buf \in Buffers
      /\ PreviewBuffers \subseteq Buffers /\ RAW \in Types /\ IMAGE \in Types /\ RAW # IMAGE
      /\ mRefCount \in [Buffers -> [Types -> Nat]]
  BY DEF PathInv, PathTyped, Buffers, Types, RAW, IMAGE, RefTyped
<1>2. OncePerKey /\ KeysHeld /\ DispatchInv
  BY DEF HeldInv
<1>3. ASSUME UNCHANGED <<queue, hand, mFrameQ, notifier, mRefCount>>, DispatchInv' PROVE HeldInv'
  <2>1. OncePerKey' /\ \A k : InUse(k)' <=> InUse(k)
    BY <1>2, <1>3, KeysStay
  <2>2. KeysHeld'
    BY <1>2, <1>3, <2>1 DEF KeysHeld
  <2> QED BY <1>3, <2>1, <2>2 DEF HeldInv
<1>4. ASSUME omx'.pc \in {"idle", "count"} PROVE DispatchInv'
  BY <1>4 DEF DispatchInv
<1>5. ASSUME NEW b \in PreviewBuffers, PreviewFrame(b) PROVE HeldInv'
  <2>1. /\ omx'.pc = "check" /\ omx'.buf = b /\ mRefCount[b] = NoRefs
        /\ UNCHANGED <<queue, hand, mFrameQ, notifier, mRefCount>>
    BY <1>5 DEF PreviewFrame
  <2>2. mRefCount[b][RAW] = 0 /\ mRefCount[b][IMAGE] = 0
    BY <1>1, <2>1 DEF NoRefs
  <2>3. DispatchInv'
    BY <2>1, <2>2 DEF DispatchInv
  <2> QED BY <1>3, <2>1, <2>3
<1>6. CASE ImageFrame
  <2>1. UNCHANGED <<queue, hand, mFrameQ, notifier, mRefCount>>
    BY <1>6 DEF ImageFrame
  <2>2. DispatchInv'
    <3>1. filled # <<>> /\ Head(filled) \in ImageBuffers
      BY <1>6 DEF ImageFrame, PathInv, PathTyped
    <3>2. CASE omx' = [pc |-> "check", buf |-> Head(filled), seen |-> captureActive, shot |-> 0]
      <4>1. omx'.buf \notin PreviewBuffers
        BY <3>1, <3>2, CaptureAssumption
      <4> QED BY <4>1 DEF DispatchInv
    <3>3. CASE omx' = IdleOMX
      BY <1>4, <1>6, <3>3 DEF ImageFrame, IdleOMX
    <3> QED BY <1>6, <3>2, <3>3 DEF ImageFrame
  <2> QED BY <1>3, <2>1, <2>2
<1>7. CASE CheckCapture
  <2>1. UNCHANGED <<queue, hand, mFrameQ, notifier, mRefCount>> /\ omx.pc = "check"
    BY <1>7 DEF CheckCapture
  <2>2. DispatchInv'
    <3>1. CASE omx' = IdleOMX
      BY <1>4, <3>1 DEF IdleOMX
    <3>2. CASE omx' = [omx EXCEPT !.pc = "raw", !.shot = taken]
      <4>1. omx'.pc = "raw" /\ omx'.buf = omx.buf
        BY <1>1, <3>2
      <4> QED BY <1>2, <2>1, <4>1 DEF DispatchInv
    <3> QED BY <1>7, <3>1, <3>2 DEF CheckCapture
  <2> QED BY <1>3, <2>1, <2>2
<1>8. CASE SendRaw
  <2>1. /\ omx.pc = "raw" /\ UNCHANGED <<hand, mFrameQ, notifier>> /\ omx.buf \in Buffers
        /\ omx' = [omx EXCEPT !.pc =
             IF Registered(omx.buf) /\ ~rawWanted THEN "return" ELSE "image"]
    BY <1>1, <1>8 DEF SendRaw
  <2>2. omx'.buf = omx.buf /\ omx'.pc = IF Registered(omx.buf) /\ ~rawWanted THEN "return" ELSE "image"
    BY <1>1, <2>1
  <2>3. omx.buf \in PreviewBuffers => mRefCount[omx.buf][RAW] = 0 /\ mRefCount[omx.buf][IMAGE] = 0
    BY <1>2, <2>1 DEF DispatchInv
  <2>4. omx.buf \in PreviewBuffers => Registered(omx.buf)
    BY CaptureAssumption DEF Registered
  <2>5. CASE ~Registered(omx.buf)
    <3>1. UNCHANGED <<mRefCount, queue>>
      BY <1>8, <2>5 DEF SendRaw
    <3>2. DispatchInv'
      BY <2>2, <2>4, <2>5 DEF DispatchInv
    <3> QED BY <1>3, <2>1, <3>1, <3>2
  <2>6. CASE Registered(omx.buf) /\ rawWanted
    <3> DEFINE f == Frame(omx.buf, RAW, omx.shot)
    <3>1. /\ mRefCount' = [mRefCount EXCEPT ![omx.buf][RAW] = @ + 1]
          /\ queue' = [queue EXCEPT !["resize"] = Append(@, f)]
          /\ omx'.pc = "image"
      BY <1>8, <2>2, <2>6 DEF SendRaw, incRefCount
    <3>2. f \in Frames /\ f.buf = omx.buf /\ f.type = RAW
      <4>1. f \in Frames
        <5>1. DOMAIN queue = Workers /\ queue["resize"] \in Seq(Frames) /\ queue'["resize"] \in Seq(Frames)
          BY DEF PathInv, PathTyped, FramesTyped, Workers
        <5>2. queue'["resize"] = Append(queue["resize"], f)
          BY <3>1, <5>1 DEF Workers
        <5>3. Append(queue["resize"], f)[Len(queue["resize"]) + 1] = f
              /\ Len(queue["resize"]) + 1 \in 1..Len(Append(queue["resize"], f))
          BY <5>1
        <5> HIDE DEF f
        <5> QED BY <5>1, <5>2, <5>3
      <4> QED BY <4>1 DEF Frame
    <3> HIDE DEF f
    <3>3. "resize" \in Workers
      BY DEF Workers
    <3>4. OncePerKey' /\ KeysHeld'
      BY <1>1, <2>1, <2>3, <3>1, <3>2, <3>3, SendHeldInv
    <3>5. mRefCount'[omx.buf][IMAGE] = mRefCount[omx.buf][IMAGE]
      BY <1>1, <2>1, <3>1
    <3>6. DispatchInv'
      BY <2>2, <2>3, <3>1, <3>5 DEF DispatchInv
    <3> QED BY <3>4, <3>6 DEF HeldInv
  <2>7. CASE Registered(omx.buf) /\ ~rawWanted
    <3>1. /\ mRefCount' = [mRefCount EXCEPT ![omx.buf][RAW] = @ + 1]
          /\ queue' = queue /\ omx'.pc = "return"
      BY <1>8, <2>2, <2>7 DEF SendRaw, incRefCount
    <3>2. OncePerKey' /\ \A k : InUse(k)' <=> InUse(k)
      BY <1>2, <2>1, <3>1, KeysStay
    <3>3. \A c \in Buffers, u \in Types : mRefCount'[c][u] >= mRefCount[c][u]
      <4> TAKE c \in Buffers, u \in Types
      <4>1. mRefCount[c][u] \in Nat /\ mRefCount'[c][u] \in {mRefCount[c][u], mRefCount[c][u] + 1}
        BY <1>1, <2>1, <3>1
      <4> QED BY <4>1
    <3>4. KeysHeld'
      <4> SUFFICES ASSUME NEW k \in PreviewBuffers \X Types, InUse(k)' PROVE mRefCount'[k[1]][k[2]] > 0
        BY DEF KeysHeld
      <4>1. InUse(k)
        BY <3>2, Zenon
      <4>2. /\ k[1] \in Buffers /\ k[2] \in Types /\ mRefCount[k[1]][k[2]] > 0
            /\ mRefCount[k[1]][k[2]] \in Nat
        BY <1>1, <1>2, <4>1 DEF KeysHeld
      <4>3. mRefCount'[k[1]][k[2]] \in {mRefCount[k[1]][k[2]], mRefCount[k[1]][k[2]] + 1}
        BY <1>1, <2>1, <3>1, <4>2
      <4> QED BY <4>2, <4>3
    <3>5. omx.buf \in PreviewBuffers => ~InUse(<<omx.buf, RAW>>)'
      <4>1. omx.buf \in PreviewBuffers => ~InUse(<<omx.buf, RAW>>)
        BY <1>1, <1>2, <2>3 DEF KeysHeld
      <4> QED BY <2>2, <3>2, <4>1
    <3>6. mRefCount'[omx.buf][IMAGE] = mRefCount[omx.buf][IMAGE]
      BY <1>1, <2>1, <3>1
    <3>7. DispatchInv'
      BY <2>2, <2>3, <3>1, <3>5, <3>6 DEF DispatchInv
    <3> QED BY <3>2, <3>4, <3>7 DEF HeldInv
  <2> QED BY <2>5, <2>6, <2>7
<1>9. CASE ReturnRawBegins
  <2>1. /\ omx.pc = "return" /\ omx' = [omx EXCEPT !.pc = "decrement"]
        /\ UNCHANGED <<queue, hand, mFrameQ, notifier, mRefCount>>
    BY <1>9 DEF ReturnRawBegins
  <2>2. omx'.pc = "decrement" /\ omx'.buf = omx.buf
    BY <1>1, <2>1
  <2>3. \A k : InUse(k)' <=> InUse(k)
    BY <2>1, KeysStay
  <2>4. DispatchInv'
    BY <1>2, <2>1, <2>2, <2>3 DEF DispatchInv
  <2> QED BY <1>3, <2>1, <2>4
<1>10. CASE ReturnRawEnds
  <2>1. /\ omx.pc = "decrement" /\ omx' = [omx EXCEPT !.pc = "image"]
        /\ UNCHANGED <<queue, hand, mFrameQ, notifier>> /\ returnFrame("omx", omx.buf, RAW)
    BY <1>10 DEF ReturnRawEnds
  <2>2. omx'.pc = "image" /\ omx'.buf = omx.buf /\ omx.buf \in Buffers
    BY <1>1, <2>1
  <2>3. OncePerKey' /\ \A k : InUse(k)' <=> InUse(k)
    BY <1>2, <2>1, KeysStay
  <2>4. omx.buf \in PreviewBuffers => ~InUse(<<omx.buf, RAW>>)' /\ mRefCount[omx.buf][IMAGE] = 0
    BY <1>2, <2>1, <2>3 DEF DispatchInv
  <2>5. /\ KeysHeld'
        /\ \A c \in Buffers, u \in Types : mRefCount[c][u] = 0 => mRefCount'[c][u] = 0
    BY <1>1, <1>2, <2>1, <2>2, <2>3, <2>4, ReturnHeld
  <2>6. DispatchInv'
    BY <1>1, <2>2, <2>4, <2>5 DEF DispatchInv
  <2> QED BY <2>3, <2>5, <2>6 DEF HeldInv
<1>11. CASE SendImage
  <2>1. /\ omx.pc = "image" /\ UNCHANGED <<hand, mFrameQ, notifier>> /\ omx.buf \in Buffers
        /\ omx' = [omx EXCEPT !.pc = "count"]
    BY <1>1, <1>11 DEF SendImage
  <2>2. DispatchInv'
    BY <1>1, <1>4, <2>1
  <2>3. CASE ~Registered(omx.buf)
    BY <1>3, <1>11, <2>1, <2>2, <2>3 DEF SendImage
  <2>4. CASE Registered(omx.buf)
    <3> DEFINE f == Frame(omx.buf, IMAGE, omx.shot)
    <3>1. /\ mRefCount' = [mRefCount EXCEPT ![omx.buf][IMAGE] = @ + 1]
          /\ queue' = [queue EXCEPT ![encoder] = Append(@, f)]
      BY <1>11, <2>4 DEF SendImage, incRefCount
    <3>3. encoder \in Workers
      BY DEF PathInv, PathTyped
    <3>2. f \in Frames /\ f.buf = omx.buf /\ f.type = IMAGE
      <4>1. f \in Frames
        <5>1. DOMAIN queue = Workers /\ queue[encoder] \in Seq(Frames) /\ queue'[encoder] \in Seq(Frames)
          BY <3>3 DEF PathInv, PathTyped, FramesTyped
        <5>2. queue'[encoder] = Append(queue[encoder], f)
          BY <3>1, <3>3, <5>1
        <5>3. Append(queue[encoder], f)[Len(queue[encoder]) + 1] = f
              /\ Len(queue[encoder]) + 1 \in 1..Len(Append(queue[encoder], f))
          BY <5>1
        <5> HIDE DEF f
        <5> QED BY <5>1, <5>2, <5>3
      <4> QED BY <4>1 DEF Frame
    <3> HIDE DEF f
    <3>4. omx.buf \in PreviewBuffers => mRefCount[omx.buf][IMAGE] = 0
      BY <1>2, <2>1 DEF DispatchInv
    <3>5. OncePerKey' /\ KeysHeld'
      BY <1>1, <2>1, <3>1, <3>2, <3>3, <3>4, SendHeldInv
    <3> QED BY <2>2, <3>5 DEF HeldInv
  <2> QED BY <2>3, <2>4
<1>12. CASE CountCaptured
  BY <1>3, <1>4, <1>12 DEF CountCaptured, IdleOMX
<1> QED BY <1>5, <1>6, <1>7, <1>8, <1>9, <1>10, <1>11, <1>12 DEF OmxStep

LEMMA MovesHeldInv ==
  ASSUME HeldInv, OncePerKey', UNCHANGED <<omx, mRefCount>>, \A k : InUse(k)' => InUse(k)
  PROVE  HeldInv'
<1>1. KeysHeld'
  BY DEF HeldInv, KeysHeld
<1>2. DispatchInv'
  BY DEF HeldInv, DispatchInv
<1> QED BY <1>1, <1>2 DEF HeldInv

LEMMA WorkerHeldInv ==
  ASSUME HeldInv, PathInv, FramesTyped, NEW w \in Workers, WorkerStep(w)
  PROVE  HeldInv'
<1> USE DEF halVars, appVars, stateVars, flagVars, streamVars, portVars, workerVars, history
<1>1. /\ DOMAIN queue = Workers /\ DOMAIN hand = Workers /\ mFrameQ \in Seq(Frames)
      /\ \A v \in Workers : queue[v] \in Seq(Frames) /\ hand[v] \subseteq Frames
  BY DEF PathInv, PathTyped, FramesTyped
<1>2. /\ Distinct(mFrameQ) /\ Apart(KeysWaiting, KeysNotified)
      /\ \A v \in Workers :
           /\ Distinct(queue[v]) /\ \A f, g \in hand[v] : f = g
           /\ Apart(KeysQueued(v), KeysInHand(v)) /\ Apart(KeysQueued(v), KeysWaiting)
           /\ Apart(KeysQueued(v), KeysNotified) /\ Apart(KeysInHand(v), KeysWaiting)
           /\ Apart(KeysInHand(v), KeysNotified)
  BY DEF HeldInv, OncePerKey
<1>3. UNCHANGED <<omx, mRefCount, notifier>> /\ KeysNotified' = KeysNotified
  BY DEF WorkerStep, ProcessFlush, TakeFrame, SendToFrameQ, KeysNotified, InNotifier
<1>4. CASE ProcessFlush(w)
  <2>1. PICK q \in Flushed(w) : queue' = [queue EXCEPT ![w] = q] /\ UNCHANGED <<hand, mFrameQ>>
    BY <1>4 DEF ProcessFlush
  <2>2. Distinct(q) /\ Keys(Image(q)) \subseteq KeysQueued(w)
    <3>1. CASE q = <<>>
      <4>1. Image(<<>>) = {} /\ Distinct(<<>>)
        BY DEF Image, Distinct
      <4> QED BY <3>1, <4>1, KeysOf
    <3>2. CASE q = queue[w]
      BY <1>2, <3>2 DEF KeysQueued
    <3>3. CASE q \in WithoutImages(queue[w])
      BY <1>1, <1>2, <3>3, WithoutImagesKeys DEF KeysQueued
    <3> QED BY <3>1, <3>2, <3>3 DEF Flushed
  <2>3. \A v \in Workers : queue'[v] = IF v = w THEN q ELSE queue[v]
    BY <1>1, <2>1
  <2>4. \A v \in Workers : Distinct(queue'[v]) /\ KeysQueued(v)' \subseteq KeysQueued(v)
    BY <1>2, <2>2, <2>3 DEF KeysQueued
  <2>5. /\ \A v \in Workers : KeysInHand(v)' = KeysInHand(v)
        /\ KeysWaiting' = KeysWaiting
    BY <2>1 DEF KeysInHand, KeysWaiting
  <2>6. \A k : InUse(k)' => InUse(k)
    BY <1>3, <2>4, <2>5 DEF InUse
  <2>7. ASSUME NEW v \in Workers
        PROVE  /\ Distinct(queue[v])' /\ \A g, h \in hand'[v] : g = h
               /\ Apart(KeysQueued(v), KeysInHand(v))' /\ Apart(KeysQueued(v), KeysWaiting)'
               /\ Apart(KeysQueued(v), KeysNotified)' /\ Apart(KeysInHand(v), KeysWaiting)'
               /\ Apart(KeysInHand(v), KeysNotified)'
    BY <1>2, <1>3, <2>1, <2>4, <2>5 DEF Apart
  <2>8. Distinct(mFrameQ)' /\ Apart(KeysWaiting, KeysNotified)'
    BY <1>2, <1>3, <2>1, <2>5
  <2>9. OncePerKey'
    BY <2>7, <2>8 DEF OncePerKey
  <2> QED BY <1>3, <2>6, <2>9, MovesHeldInv
<1>5. CASE TakeFrame(w)
  <2> DEFINE h == Head(queue[w])
  <2>1. /\ queue[w] # <<>> /\ queue' = [queue EXCEPT ![w] = Tail(@)] /\ hand[w] = {}
        /\ \E S \in {{}, {h}} : hand' = [hand EXCEPT ![w] = S]
        /\ mFrameQ' = mFrameQ
    BY <1>5 DEF TakeFrame
  <2>2. /\ Keys(Image(Tail(queue[w]))) \subseteq Keys(Image(queue[w]))
        /\ Keys({h}) \subseteq Keys(Image(queue[w]))
        /\ Distinct(Tail(queue[w])) /\ Apart(Keys({h}), Keys(Image(Tail(queue[w]))))
    BY <1>1, <1>2, <2>1, TailKeys
  <2> HIDE DEF h
  <2>3. /\ queue'[w] = Tail(queue[w]) /\ hand'[w] \in {{}, {h}}
        /\ \A v \in Workers : v # w => queue'[v] = queue[v] /\ hand'[v] = hand[v]
    BY <1>1, <2>1
  <2>4. /\ KeysQueued(w)' \subseteq KeysQueued(w)
        /\ KeysInHand(w)' \subseteq Keys({h}) /\ Keys({h}) \subseteq KeysQueued(w)
        /\ Apart(Keys({h}), KeysQueued(w)')
        /\ \A v \in Workers : v # w => KeysQueued(v)' = KeysQueued(v) /\ KeysInHand(v)' = KeysInHand(v)
        /\ KeysWaiting' = KeysWaiting
    BY <2>1, <2>2, <2>3, KeysOf DEF KeysQueued, KeysInHand, KeysWaiting
  <2>5. \A k : InUse(k)' => InUse(k)
    BY <1>3, <2>4 DEF InUse
  <2>6. ASSUME NEW v \in Workers
        PROVE  /\ Distinct(queue[v])' /\ \A f, g \in hand'[v] : f = g
               /\ Apart(KeysQueued(v), KeysInHand(v))' /\ Apart(KeysQueued(v), KeysWaiting)'
               /\ Apart(KeysQueued(v), KeysNotified)' /\ Apart(KeysInHand(v), KeysWaiting)'
               /\ Apart(KeysInHand(v), KeysNotified)'
    <3>1. CASE v = w
      BY <1>2, <1>3, <2>2, <2>3, <2>4, <3>1 DEF Apart
    <3>2. CASE v # w
      BY <1>2, <1>3, <2>3, <2>4, <3>2 DEF Apart
    <3> QED BY <3>1, <3>2
  <2>7. Distinct(mFrameQ)' /\ Apart(KeysWaiting, KeysNotified)'
    BY <1>2, <1>3, <2>1, <2>4
  <2>8. OncePerKey'
    BY <2>6, <2>7 DEF OncePerKey
  <2> QED BY <1>3, <2>5, <2>8, MovesHeldInv
<1>6. CASE SendToFrameQ(w)
  <2>1. PICK f \in hand[w] : /\ mFrameQ' = Append(mFrameQ, f)
                             /\ hand' = [hand EXCEPT ![w] = {}]
                             /\ queue' = queue
    BY <1>6 DEF SendToFrameQ
  <2>2. hand[w] = {f} /\ f \in Frames /\ Keys({f}) = KeysInHand(w)
    <3>1. f \in hand[w] /\ \A g \in hand[w] : g = f
      BY <1>2, <2>1
    <3>2. hand[w] = {f}
      BY <3>1
    <3> QED BY <1>1, <3>1, <3>2 DEF KeysInHand
  <2>3. KeysWaiting' = KeysWaiting \cup KeysInHand(w) /\ Distinct(mFrameQ)'
    <3>1. Apart(KeysWaiting, Keys({f})) /\ Apart(Keys({f}), KeysWaiting)
      BY <1>2, <2>2 DEF Apart
    <3>2. /\ Keys(Image(Append(mFrameQ, f))) = Keys(Image(mFrameQ)) \cup Keys({f})
          /\ Distinct(mFrameQ) /\ Apart(Keys({f}), Keys(Image(mFrameQ))) => Distinct(Append(mFrameQ, f))
      BY <1>1, <2>2, AppendKeys
    <3> QED BY <1>2, <2>1, <2>2, <3>1, <3>2 DEF KeysWaiting
  <2>4. hand'[w] = {} /\ \A v \in Workers : v # w => hand'[v] = hand[v]
    BY <1>1, <2>1
  <2>5. /\ \A v \in Workers : KeysQueued(v)' = KeysQueued(v)
        /\ KeysInHand(w)' = {} /\ \A v \in Workers : v # w => KeysInHand(v)' = KeysInHand(v)
    BY <2>1, <2>4, KeysOf DEF KeysQueued, KeysInHand
  <2>6. \A k : InUse(k)' => InUse(k)
    BY <1>3, <2>3, <2>5 DEF InUse
  <2>7. ASSUME NEW v \in Workers
        PROVE  /\ Distinct(queue[v])' /\ \A g, h \in hand'[v] : g = h
               /\ Apart(KeysQueued(v), KeysInHand(v))' /\ Apart(KeysQueued(v), KeysWaiting)'
               /\ Apart(KeysQueued(v), KeysNotified)' /\ Apart(KeysInHand(v), KeysWaiting)'
               /\ Apart(KeysInHand(v), KeysNotified)'
    <3>1. CASE v = w
      BY <1>2, <1>3, <2>1, <2>3, <2>4, <2>5, <3>1 DEF Apart
    <3>2. CASE v # w
      <4>1. Apart(KeysQueued(v), KeysInHand(w)) /\ Apart(KeysInHand(v), KeysInHand(w))
        BY <3>2, WorkersApart DEF PathInv
      <4> QED BY <1>2, <1>3, <2>1, <2>3, <2>4, <2>5, <3>2, <4>1 DEF Apart
    <3> QED BY <3>1, <3>2
  <2>8. Apart(KeysWaiting, KeysNotified)'
    BY <1>2, <1>3, <2>3 DEF Apart
  <2>9. OncePerKey'
    BY <2>3, <2>7, <2>8 DEF OncePerKey
  <2> QED BY <1>3, <2>6, <2>9, MovesHeldInv
<1> QED BY <1>4, <1>5, <1>6 DEF WorkerStep

LEMMA NotifierHeldInv ==
  ASSUME HeldInv, PathInv, RefTyped, FramesTyped, NotifierStep
  PROVE  HeldInv'
<1> USE DEF halVars, appVars, stateVars, flagVars, streamVars, portVars, workerVars, history
<1>1. /\ mFrameQ \in Seq(Frames)
      /\ notifier \in [pc : {"idle", "return", "decrement"}, frame : Frames \cup {NoFrame}]
      /\ notifier.pc # "idle" => notifier.frame \in Frames
  BY DEF FramesTyped
<1>2. /\ Distinct(mFrameQ) /\ Apart(KeysWaiting, KeysNotified)
      /\ \A v \in Workers :
           /\ Distinct(queue[v]) /\ \A f, g \in hand[v] : f = g
           /\ Apart(KeysQueued(v), KeysInHand(v)) /\ Apart(KeysQueued(v), KeysWaiting)
           /\ Apart(KeysQueued(v), KeysNotified) /\ Apart(KeysInHand(v), KeysWaiting)
           /\ Apart(KeysInHand(v), KeysNotified)
  BY DEF HeldInv, OncePerKey
<1>3. /\ UNCHANGED <<omx, queue, hand>>
      /\ \A v \in Workers : KeysQueued(v)' = KeysQueued(v) /\ KeysInHand(v)' = KeysInHand(v)
  BY DEF NotifierStep, notifyFrame, NotifierReturnBegins, NotifierReturnEnds, KeysQueued, KeysInHand
<1>4. ASSUME Distinct(mFrameQ)', Apart(KeysWaiting, KeysNotified)',
             \A k \in KeysWaiting' \cup KeysNotified' : k \in KeysWaiting \cup KeysNotified
      PROVE  OncePerKey' /\ \A k : InUse(k)' => InUse(k)
  <2>1. ASSUME NEW v \in Workers
        PROVE  /\ Distinct(queue[v])' /\ \A g, h \in hand'[v] : g = h
               /\ Apart(KeysQueued(v), KeysInHand(v))' /\ Apart(KeysQueued(v), KeysWaiting)'
               /\ Apart(KeysQueued(v), KeysNotified)' /\ Apart(KeysInHand(v), KeysWaiting)'
               /\ Apart(KeysInHand(v), KeysNotified)'
    BY <1>2, <1>3, <1>4 DEF Apart
  <2>2. OncePerKey'
    BY <1>4, <2>1 DEF OncePerKey
  <2>3. \A k : InUse(k)' => InUse(k)
    BY <1>3, <1>4 DEF InUse
  <2> QED BY <2>2, <2>3
<1>5. ASSUME NEW memory \in BOOLEAN, notifyFrame(memory) PROVE HeldInv'
  <2> DEFINE h == Head(mFrameQ)
  <2>1. /\ mFrameQ # <<>> /\ mFrameQ' = Tail(mFrameQ) /\ mRefCount' = mRefCount
        /\ notifier' = [pc |-> "return", frame |-> h]
    BY <1>5 DEF notifyFrame
  <2>2. /\ Keys(Image(Tail(mFrameQ))) \subseteq Keys(Image(mFrameQ))
        /\ Keys({h}) \subseteq Keys(Image(mFrameQ))
        /\ Distinct(Tail(mFrameQ)) /\ Apart(Keys({h}), Keys(Image(Tail(mFrameQ))))
    BY <1>1, <1>2, <2>1, TailKeys
  <2> HIDE DEF h
  <2>3. KeysNotified' = Keys({h})
    BY <2>1 DEF KeysNotified, InNotifier
  <2>4. KeysWaiting' \subseteq KeysWaiting /\ KeysNotified' \subseteq KeysWaiting
    BY <2>1, <2>2, <2>3 DEF KeysWaiting
  <2>5. Distinct(mFrameQ)' /\ Apart(KeysWaiting, KeysNotified)'
    BY <2>1, <2>2, <2>3 DEF KeysWaiting, Apart
  <2>6. OncePerKey' /\ \A k : InUse(k)' => InUse(k)
    BY <1>4, <2>4, <2>5
  <2> QED BY <1>3, <2>1, <2>6, MovesHeldInv
<1>6. CASE NotifierReturnBegins
  <2>1. /\ UNCHANGED <<mRefCount, mFrameQ>>
        /\ notifier.pc = "return" /\ notifier' = [notifier EXCEPT !.pc = "decrement"]
    BY <1>6 DEF NotifierReturnBegins
  <2>2. KeysWaiting' = KeysWaiting /\ KeysNotified' = KeysNotified
    <3>1. notifier'.pc = "decrement" /\ notifier'.frame = notifier.frame
      BY <1>1, <2>1
    <3>2. InNotifier' = InNotifier
      BY <2>1, <3>1 DEF InNotifier
    <3> QED BY <2>1, <3>2 DEF KeysWaiting, KeysNotified
  <2>3. OncePerKey' /\ \A k : InUse(k)' => InUse(k)
    BY <1>2, <1>4, <2>1, <2>2
  <2> QED BY <1>3, <2>1, <2>3, MovesHeldInv
<1>7. CASE NotifierReturnEnds
  <2> DEFINE b == notifier.frame.buf
             t == notifier.frame.type
  <2>1. /\ mFrameQ' = mFrameQ /\ notifier.pc = "decrement" /\ notifier' = IdleNotifier
        /\ returnFrame("notifier", b, t) /\ b \in Buffers /\ t \in Types
    BY <1>1, <1>7 DEF NotifierReturnEnds, Frames
  <2>2. KeysWaiting' = KeysWaiting /\ KeysNotified' = {}
    BY <2>1, KeysOf DEF KeysWaiting, KeysNotified, InNotifier, IdleNotifier
  <2>3. OncePerKey' /\ \A k : InUse(k)' => InUse(k)
    BY <1>2, <1>4, <2>1, <2>2 DEF Apart
  <2>4. ASSUME b \in PreviewBuffers, NEW k, k = <<b, t>> PROVE ~InUse(k)'
    <3>1. k \in KeysNotified
      BY <2>1, <2>4 DEF KeysNotified, InNotifier, Keys
    <3>2. k \notin KeysWaiting /\ \A v \in Workers : k \notin KeysQueued(v) /\ k \notin KeysInHand(v)
      BY <1>2, <3>1 DEF Apart
    <3> QED BY <1>3, <2>2, <3>2 DEF InUse
  <2> HIDE DEF b, t
  <2>5. PICK c \in Buffers, u \in Types : c = b /\ u = t
    BY <2>1
  <2>6. /\ returnFrame("notifier", c, u)
        /\ c \in PreviewBuffers => ~InUse(<<c, u>>)'
    BY <2>1, <2>4, <2>5
  <2>7. /\ KeysHeld'
        /\ \A d \in Buffers, v \in Types : mRefCount[d][v] = 0 => mRefCount'[d][v] = 0
    BY <2>3, <2>6, ReturnHeld DEF HeldInv
  <2>8. DispatchInv'
    <3>1. RAW \in Types /\ IMAGE \in Types /\ PreviewBuffers \subseteq Buffers
      BY DEF Types, Buffers
    <3> QED BY <1>3, <2>3, <2>7, <3>1 DEF HeldInv, DispatchInv
  <2> QED BY <2>3, <2>7, <2>8 DEF HeldInv
<1> QED BY <1>5, <1>6, <1>7 DEF NotifierStep

LEMMA InitHeldInv == Init => HeldInv
<1> SUFFICES ASSUME Init PROVE HeldInv
  OBVIOUS
<1>1. /\ \A w \in Workers : queue[w] = <<>> /\ hand[w] = {}
      /\ mFrameQ = <<>> /\ notifier.pc = "idle" /\ omx.pc = "idle"
  BY DEF Init, IdleNotifier, IdleOMX
<1>2. Image(<<>>) = {} /\ Distinct(<<>>)
  BY DEF Image, Distinct
<1>3. /\ \A w \in Workers : KeysQueued(w) = {} /\ KeysInHand(w) = {}
      /\ KeysWaiting = {} /\ KeysNotified = {}
  BY <1>1, <1>2, KeysOf DEF KeysQueued, KeysInHand, KeysWaiting, KeysNotified, InNotifier
<1>4. OncePerKey
  BY <1>1, <1>2, <1>3 DEF OncePerKey, Apart
<1>5. KeysHeld
  BY <1>3 DEF KeysHeld, InUse
<1>6. DispatchInv
  BY <1>1 DEF DispatchInv
<1> QED BY <1>4, <1>5, <1>6 DEF HeldInv

LEMMA NextHeldInv == PathInv /\ TypeInv /\ HeldInv /\ [Next]_vars => HeldInv'
<1> SUFFICES ASSUME PathInv, TypeInv, HeldInv, [Next]_vars PROVE HeldInv'
  OBVIOUS
<1>1. RefTyped /\ FramesTyped /\ FramesTyped'
  BY NextTypeInv DEF TypeInv
<1> QED BY <1>1, TwoKinds, CallHeldInv, OmxHeldInv, WorkerHeldInv, NotifierHeldInv DEF FrameSteps

LEMMA HeldMeans == FramesTyped /\ HeldInv => SnapshotHeld
<1> SUFFICES ASSUME FramesTyped, HeldInv, NEW f \in InFlight, f.buf \in PreviewBuffers
             PROVE  mRefCount[f.buf][f.type] > 0
  BY DEF SnapshotHeld
<1> DEFINE k == <<f.buf, f.type>>
<1>1. InUse(k) /\ f \in Frames
  <2>1. CASE \E w \in Workers : f \in Image(queue[w]) \cup hand[w]
    <3>1. PICK w \in Workers : f \in Image(queue[w]) \cup hand[w]
      BY <2>1
    <3>2. f \in Frames
      BY <3>1 DEF FramesTyped, Image
    <3>3. k \in KeysQueued(w) \/ k \in KeysInHand(w)
      BY <3>1 DEF KeysQueued, KeysInHand, Keys
    <3> QED BY <3>2, <3>3 DEF InUse
  <2>2. CASE f \in Image(mFrameQ)
    <3>1. f \in Frames
      BY <2>2 DEF FramesTyped, Image
    <3>2. k \in KeysWaiting
      BY <2>2 DEF KeysWaiting, Keys
    <3> QED BY <3>1, <3>2 DEF InUse
  <2>3. CASE notifier.pc # "idle" /\ f = notifier.frame
    <3>1. k \in KeysNotified /\ f \in Frames
      BY <2>3 DEF KeysNotified, InNotifier, Keys, FramesTyped
    <3> QED BY <3>1 DEF InUse
  <2>4. \/ \E w \in Workers : f \in Image(queue[w]) \cup hand[w]
        \/ f \in Image(mFrameQ)
        \/ notifier.pc # "idle" /\ f = notifier.frame
    <3> DEFINE At(w) == Image(queue[w]) \cup hand[w]
               A == UNION {At(w) : w \in Workers}
               B == Image(mFrameQ)
               C == IF notifier.pc = "idle" THEN {} ELSE {notifier.frame}
    <3>1. f \in A \cup B \cup C
      BY Zenon DEF InFlight
    <3>2. f \in C => notifier.pc # "idle" /\ f = notifier.frame
      OBVIOUS
    <3> HIDE DEF At, B, C
    <3>3. f \in A => \E w \in Workers : f \in At(w)
      OBVIOUS
    <3> HIDE DEF A
    <3> QED BY <3>1, <3>2, <3>3 DEF At, B
  <2> QED BY <2>1, <2>2, <2>3, <2>4
<1>2. k \in PreviewBuffers \X Types
  BY <1>1 DEF Frames
<1> QED BY <1>1, <1>2 DEF HeldInv, KeysHeld

(* A preview frame that is used as a picture keeps its reference until the *)
(* notifier has returned it, whatever is cancelled, flushed or deleted     *)
(* meanwhile: removeAllFrameBuffer takes references from image buffers     *)
(* only, and each returnFrame drops the reference of its own frame.        *)
THEOREM SnapshotsHeld == Spec => []SnapshotHeld
<1>1. PathInv /\ TypeInv /\ HeldInv => SnapshotHeld
  BY HeldMeans DEF TypeInv
<1>2. PathInv /\ TypeInv /\ HeldInv /\ [Next]_vars => PathInv' /\ TypeInv' /\ HeldInv'
  BY NextPathInv, NextTypeInv, NextHeldInv
<1> QED BY <1>1, <1>2, InitPathInv, InitTypeInv, InitHeldInv, PTL DEF Spec

-----------------------------------------------------------------------------
(* The end of a capture, while the application neither cancels nor wants   *)
(* RAW frames.  There is one capture at a time, from the moment the        *)
(* adapter accepts takePicture to the stop that END_IMAGE_CALLBACK brings; *)
(* outside it every picture has been given, or come to notifyFrame         *)
(* without memory; within it at most the last one is missing, and the end  *)
(* is signalled after that one.                                            *)

Calm == ~cancelled /\ ~rawWanted

AllGiven == Given = 1..taken

Taking == hal.op = "take" /\ hal.ok /\ hal.pc \in {"resize", "jpeg", "adapter"}
Capturing == Taking \/ nextCapture \/ captureActive

(* takePicture goes on only when no capture is active, a stop takes back   *)
(* the next state first.                                                   *)
OneCapture ==
  /\ nextCapture => captureActive \/ (hal.op = "take" /\ hal.pc = "commit")
  /\ hal.op = "take" /\ hal.pc = "commit" => nextCapture
  /\ hal.op = "take" /\ hal.pc \notin {"check", "commit"} => ~captureActive /\ ~nextCapture
  /\ hal.pc \in {"stop", "remove"} => hal.op \in {"cancel", "end"} /\ ~nextCapture
  /\ hal.op = "cancel" => cancelled
  /\ hal.op = "end" <=> cmd = "busy"

PictureInv ==
  /\ ~Capturing => AllGiven /\ mCapturedFrames = 0
  /\ Capturing => taken >= 1 /\ (AllGiven \/ Given = 1..(taken - 1))
  /\ EndPending => Capturing /\ AllGiven /\ mCapturedFrames = 0
  /\ notifier.pc = "return" => Capturing /\ AllGiven /\ ~EndPending
  /\ hal.op = "end" => captureActive

(* The capture is ended once.                                              *)
Single(q) ==
  \A i, j \in 1..Len(q) : q[i] = "END_IMAGE_CALLBACK" /\ q[j] = "END_IMAGE_CALLBACK" => i = j

Ends(q) == "END_IMAGE_CALLBACK" \in Image(q)

OneEnd == Single(mCommandMsgQ) /\ (Ends(mCommandMsgQ) => cmd = "idle")

(* Only IMAGE frames are on their way.                                     *)
OnlyImages(q) == \A i \in 1..Len(q) : q[i].type = IMAGE

NoRaw ==
  /\ \A w \in Workers : OnlyImages(queue[w]) /\ \A f \in hand[w] : f.type = IMAGE
  /\ OnlyImages(mFrameQ)

EndInv == OneCapture /\ (Calm => PictureInv /\ OneEnd /\ NoRaw)

LEMMA MessageQueue ==
  ASSUME NEW S, NEW q \in Seq(S), Single(q), "START_IMAGE_CAPTURE" \in S, "END_IMAGE_CALLBACK" \in S
  PROVE  /\ Single(Append(q, "START_IMAGE_CAPTURE"))
         /\ Ends(Append(q, "START_IMAGE_CAPTURE")) <=> Ends(q)
         /\ ~Ends(q) => Single(Append(q, "END_IMAGE_CALLBACK"))
         /\ Ends(Append(q, "END_IMAGE_CALLBACK"))
         /\ q # <<>> => Single(Tail(q))
         /\ q # <<>> /\ Head(q) # "END_IMAGE_CALLBACK" => (Ends(Tail(q)) <=> Ends(q))
         /\ q # <<>> /\ Head(q) = "END_IMAGE_CALLBACK" => Ends(q) /\ ~Ends(Tail(q))
<1>1. ASSUME NEW m \in S
      PROVE  /\ Append(q, m) \in Seq(S) /\ Len(Append(q, m)) = Len(q) + 1
             /\ \A i \in 1..Len(q) : Append(q, m)[i] = q[i]
             /\ Append(q, m)[Len(q) + 1] = m
  OBVIOUS
<1>2. Len(q) \in Nat
  OBVIOUS
<1>3. ASSUME NEW m \in S, m # "END_IMAGE_CALLBACK" \/ ~Ends(q)
      PROVE  Single(Append(q, m))
  <2> DEFINE r == Append(q, m)
  <2>1. /\ Len(r) = Len(q) + 1 /\ r[Len(q) + 1] = m
        /\ \A i \in 1..Len(q) : r[i] = q[i]
    BY <1>1
  <2> HIDE DEF r
  <2> SUFFICES ASSUME NEW i \in 1..Len(r), NEW j \in 1..Len(r),
                      r[i] = "END_IMAGE_CALLBACK", r[j] = "END_IMAGE_CALLBACK"
               PROVE  i = j
    BY DEF Single, r
  <2>2. CASE i \in 1..Len(q) /\ j \in 1..Len(q)
    BY <2>1, <2>2 DEF Single
  <2>3. CASE i = Len(q) + 1 /\ j = Len(q) + 1
    BY <2>3
  <2>4. CASE \/ i = Len(q) + 1 /\ j \in 1..Len(q)
             \/ j = Len(q) + 1 /\ i \in 1..Len(q)
    BY <1>3, <2>1, <2>4 DEF Ends, Image
  <2> QED BY <1>2, <2>1, <2>2, <2>3, <2>4
<1>4. ASSUME NEW m \in S PROVE Ends(Append(q, m)) <=> Ends(q) \/ m = "END_IMAGE_CALLBACK"
  <2> DEFINE r == Append(q, m)
  <2>1. /\ Len(r) = Len(q) + 1 /\ r[Len(q) + 1] = m
        /\ \A i \in 1..Len(q) : r[i] = q[i]
    BY <1>1
  <2> HIDE DEF r
  <2>2. Image(r) = Image(q) \cup {m}
    BY <1>2, <2>1 DEF Image
  <2> QED BY <2>2 DEF Ends, r
<1>5. ASSUME q # <<>>
      PROVE  /\ Single(Tail(q))
             /\ Head(q) # "END_IMAGE_CALLBACK" => (Ends(Tail(q)) <=> Ends(q))
             /\ Head(q) = "END_IMAGE_CALLBACK" => Ends(q) /\ ~Ends(Tail(q))
  <2> DEFINE r == Tail(q)
  <2>1. Len(r) = Len(q) - 1 /\ Len(q) >= 1 /\ Head(q) = q[1]
    BY <1>5
  <2>2. \A i \in 1..Len(r) : r[i] = q[i + 1]
    BY <1>5
  <2> HIDE DEF r
  <2>3. \A i \in 1..Len(r) : i + 1 \in 1..Len(q) /\ i + 1 # 1
    BY <1>2, <2>1
  <2>4. \A i, j \in 1..Len(r) : i + 1 = j + 1 => i = j
    BY <1>2, <2>1
  <2>5. Single(r)
    BY <2>2, <2>3, <2>4 DEF Single
  <2>6. Image(q) = Image(r) \cup {Head(q)}
    <3>1. \A i \in 1..Len(q) : i = 1 \/ (i - 1 \in 1..Len(r) /\ q[i] = r[i - 1])
      BY <1>2, <2>1, <2>2
    <3>2. \A i \in 1..Len(r) : r[i] \in Image(q)
      BY <2>2, <2>3 DEF Image
    <3>3. 1 \in 1..Len(q)
      BY <1>2, <2>1
    <3> QED BY <2>1, <3>1, <3>2, <3>3 DEF Image
  <2>7. ASSUME Head(q) = "END_IMAGE_CALLBACK" PROVE ~Ends(r)
    <3>1. ASSUME NEW i \in 1..Len(r), r[i] = "END_IMAGE_CALLBACK" PROVE FALSE
      <4>1. 1 \in 1..Len(q) /\ q[1] = "END_IMAGE_CALLBACK"
        BY <1>2, <2>1, <2>7
      <4>2. i + 1 \in 1..Len(q) /\ q[i + 1] = "END_IMAGE_CALLBACK" /\ i + 1 # 1
        BY <2>2, <2>3, <3>1
      <4> QED BY <4>1, <4>2 DEF Single
    <3> QED BY <3>1 DEF Ends, Image
  <2> QED BY <2>5, <2>6, <2>7 DEF Ends, r
<1> QED BY <1>3, <1>4, <1>5

LEMMA NextOneCapture ==
  ASSUME CallTyped, OneCapture, [Next]_vars
  PROVE  OneCapture'
<1> USE DEF halVars, appVars, stateVars, flagVars, streamVars, portVars, workerVars, history
<1>1. hal \in HalCall
  BY DEF CallTyped
<1>2. CASE FrameSteps \/ UNCHANGED vars
  BY <1>2, FrameStepsFrame DEF vars, OneCapture
<1>3. CASE takePicture \/ cancelPicture
  <2>1. /\ hal.op = NONE /\ UNCHANGED <<captureActive, nextCapture, cmd>>
        /\ \/ hal' = [op |-> "take", pc |-> "check", ok |-> TRUE] /\ cancelled' = cancelled
           \/ hal' = [op |-> "cancel", pc |-> "resize", ok |-> TRUE] /\ cancelled' = TRUE
    BY <1>3 DEF takePicture, cancelPicture
  <2>2. CASE hal' = [op |-> "take", pc |-> "check", ok |-> TRUE] /\ cancelled' = cancelled
    <3>1. hal'.op = "take" /\ hal'.pc = "check"
      BY <2>2
    <3> QED BY <2>1, <2>2, <3>1 DEF OneCapture, NONE
  <2>3. CASE hal' = [op |-> "cancel", pc |-> "resize", ok |-> TRUE] /\ cancelled' = TRUE
    <3>1. hal'.op = "cancel" /\ hal'.pc = "resize" /\ cancelled'
      BY <2>3
    <3> QED BY <2>1, <3>1 DEF OneCapture, NONE
  <2> QED BY <2>1, <2>2, <2>3
<1>4. CASE TakeCheck
  <2>1. /\ hal.op = "take" /\ hal.pc = "check"
        /\ UNCHANGED <<captureActive, nextCapture, cmd, cancelled>>
        /\ \/ hal' = IdleHal
           \/ hal' = [hal EXCEPT !.pc = "query"] /\ ~captureActive /\ ~nextCapture
    BY <1>4 DEF TakeCheck
  <2> QED BY <1>1, <2>1 DEF OneCapture, IdleHal, NONE, HalCall
<1>5. CASE TakeWakes
  <2>1. /\ hal.op = NONE /\ UNCHANGED <<captureActive, nextCapture, cmd, cancelled>>
        /\ hal' = [op |-> "take", pc |-> "check", ok |-> TRUE] \/ hal' = IdleHal
    BY <1>5 DEF TakeWakes, Return
  <2> QED BY <2>1 DEF OneCapture, IdleHal, NONE
<1>6. ASSUME NEW m \in Modes, NEW reformat \in BOOLEAN, NEW ok \in BOOLEAN,
             getPictureBufferSize(m, reformat, ok)
      PROVE  OneCapture'
  <2>1. /\ hal.op = "take" /\ hal.pc = "query"
        /\ UNCHANGED <<captureActive, nextCapture, cmd, cancelled>>
        /\ \/ hal' = IdleHal
           \/ \E p \in {"use", "resize"} : hal' = [hal EXCEPT !.pc = p, !.ok = ok]
    BY <1>6 DEF getPictureBufferSize, Return
  <2>2. CASE hal' = IdleHal
    BY <2>1, <2>2 DEF OneCapture, IdleHal, NONE
  <2>3. ASSUME NEW p \in {"use", "resize"}, hal' = [hal EXCEPT !.pc = p, !.ok = ok]
        PROVE  OneCapture'
    <3>1. hal'.op = "take" /\ hal'.pc = p
      BY <1>1, <2>1, <2>3 DEF HalCall
    <3> QED BY <2>1, <3>1 DEF OneCapture
  <2> QED BY <2>1, <2>2, <2>3
<1>7. ASSUME NEW ok \in BOOLEAN, UseBuffersCapture(ok) PROVE OneCapture'
  <2>1. /\ hal.op = "take" /\ hal.pc = "use"
        /\ UNCHANGED <<captureActive, nextCapture, cmd, cancelled>>
        /\ hal' = [hal EXCEPT !.pc = "resize", !.ok = ok]
    BY <1>7 DEF UseBuffersCapture
  <2> QED BY <1>1, <2>1 DEF OneCapture, HalCall
<1>8. ASSUME NEW w \in Workers, ImageCallbacks(w) PROVE OneCapture'
  <2>1. /\ hal.pc = w /\ w \in {"resize", "jpeg"}
        /\ UNCHANGED <<captureActive, nextCapture, cmd, cancelled>>
        /\ \E p \in {"jpeg", "adapter"} : hal' = [hal EXCEPT !.pc = p]
    BY <1>8 DEF ImageCallbacks, Workers
  <2> QED BY <1>1, <2>1 DEF OneCapture, HalCall
<1>9. CASE StartImageCapture
  <2>1. /\ hal.op = "take" /\ hal.pc = "adapter"
        /\ UNCHANGED <<captureActive, cmd, cancelled>>
        /\ \/ nextCapture' = TRUE /\ hal' = [hal EXCEPT !.pc = "commit"]
           \/ nextCapture' = nextCapture /\ hal' = IdleHal
    BY <1>9 DEF StartImageCapture, Return
  <2> QED BY <1>1, <2>1 DEF OneCapture, IdleHal, NONE, HalCall
<1>10. CASE CommitCapture
  <2>1. /\ hal.op = "take" /\ UNCHANGED <<nextCapture, cmd, cancelled>>
        /\ captureActive' = TRUE /\ hal' = IdleHal
    BY <1>10 DEF CommitCapture, Return
  <2>2. captureActive' /\ hal'.op = NONE /\ hal'.pc = NONE
    BY <2>1 DEF IdleHal
  <2> QED BY <2>1, <2>2 DEF OneCapture, NONE
<1>11. ASSUME EndCall PROVE hal'.op = NONE /\ hal'.pc = NONE /\ cmd' # "busy"
  <2>1. hal' = IdleHal /\ (cmd' = "idle" \/ (hal.op # "end" /\ cmd' = cmd))
    BY <1>11 DEF EndCall
  <2> QED BY <2>1 DEF OneCapture, IdleHal
<1>12. CASE StopImageCapture
  <2>1. /\ hal.op \in {"cancel", "end"} /\ UNCHANGED <<captureActive, cancelled>>
        /\ \/ captureActive /\ nextCapture' = FALSE /\ hal' = [hal EXCEPT !.pc = "stop"] /\ cmd' = cmd
           \/ EndCall /\ nextCapture' = nextCapture /\ ~captureActive
    BY <1>12 DEF StopImageCapture
  <2> QED BY <1>1, <1>11, <2>1 DEF OneCapture, HalCall, NONE
<1>13. ASSUME NEW ok \in BOOLEAN, stopImageCapture(ok) PROVE OneCapture'
  <2>1. /\ hal.pc = "stop" /\ UNCHANGED <<captureActive, nextCapture, cancelled, cmd>>
        /\ hal' = [hal EXCEPT !.pc = "remove", !.ok = ok]
    BY <1>13 DEF stopImageCapture
  <2> QED BY <1>1, <2>1 DEF OneCapture, HalCall
<1>14. CASE CommitStop
  <2>1. /\ hal.pc = "remove" /\ UNCHANGED <<nextCapture, cancelled>>
        /\ captureActive' = FALSE /\ EndCall
    BY <1>14 DEF CommitStop
  <2> QED BY <1>11, <2>1 DEF OneCapture, NONE
<1>16. CASE RollbackStop
  <2>1. /\ hal.pc = "remove" /\ UNCHANGED <<captureActive, cancelled>>
        /\ nextCapture' = captureActive /\ EndCall
    BY <1>16 DEF RollbackStop
  <2>2. nextCapture' => captureActive'
    BY <2>1
  <2> QED BY <1>11, <2>1, <2>2 DEF OneCapture, NONE
<1>15. CASE CommandStep
  <2>1. CASE signalEndImageCapture
    <3>1. /\ hal' = [op |-> "end", pc |-> "resize", ok |-> TRUE] /\ cmd' = "busy" /\ hal.op = NONE
          /\ UNCHANGED <<captureActive, nextCapture, cancelled>>
      BY <2>1 DEF signalEndImageCapture
    <3> QED BY <3>1 DEF OneCapture, NONE
  <2>2. CASE HandleEnd \/ (\E ok \in BOOLEAN : startImageCapture(ok))
    <3>1. /\ UNCHANGED <<hal, captureActive, nextCapture, cancelled>> /\ cmd = "idle"
          /\ cmd' \in {"idle", "end"}
      BY <2>2 DEF HandleEnd, startImageCapture
    <3> QED BY <3>1 DEF OneCapture
  <2> QED BY <1>15, <2>1, <2>2 DEF CommandStep
<1> QED BY <1>2, <1>3, <1>4, <1>5, <1>6, <1>7, <1>8, <1>9, <1>10, <1>12, <1>13, <1>14, <1>15,
         <1>16, TwoKinds DEF CallSteps, HalStep

LEMMA OnlyImagesMore ==
  ASSUME NEW q \in Seq(AnyFrame), OnlyImages(q)
  PROVE  /\ \A f \in AnyFrame : f.type = IMAGE => OnlyImages(Append(q, f))
         /\ q # <<>> => Head(q).type = IMAGE /\ OnlyImages(Tail(q))
         /\ \A r \in WithoutImages(q) : OnlyImages(r)
<1>1. ASSUME NEW f \in AnyFrame, f.type = IMAGE PROVE OnlyImages(Append(q, f))
  <2>1. /\ Len(Append(q, f)) = Len(q) + 1 /\ Append(q, f)[Len(q) + 1] = f
        /\ \A i \in 1..Len(q) : Append(q, f)[i] = q[i]
    OBVIOUS
  <2> QED BY <1>1, <2>1 DEF OnlyImages
<1>2. ASSUME q # <<>> PROVE Head(q).type = IMAGE /\ OnlyImages(Tail(q))
  <2>1. Head(q) = q[1] /\ 1 \in 1..Len(q)
    BY <1>2
  <2>2. \A i \in 1..Len(Tail(q)) : i + 1 \in 1..Len(q) /\ Tail(q)[i] = q[i + 1]
    BY <1>2
  <2> QED BY <2>1, <2>2 DEF OnlyImages
<1>3. ASSUME NEW r \in WithoutImages(q) PROVE OnlyImages(r)
  BY <1>3, WithoutImagesIs DEF OnlyImages
<1> QED BY <1>1, <1>2, <1>3

LEMMA NextNoRaw ==
  ASSUME PathInv, ~rawWanted, NoRaw, [Next]_vars
  PROVE  NoRaw'
<1> USE DEF halVars, appVars, stateVars, flagVars, streamVars, portVars, workerVars, history
<1>1. /\ DOMAIN queue = Workers /\ DOMAIN hand = Workers /\ encoder \in Workers
      /\ mFrameQ \in Seq(AnyFrame)
      /\ \A w \in Workers : queue[w] \in Seq(AnyFrame) /\ hand[w] \subseteq AnyFrame
  BY FrameKinds DEF PathInv, PathTyped
<1>2. CASE UNCHANGED <<queue, hand, mFrameQ>>
  BY <1>2 DEF NoRaw
<1>3. CASE CallSteps \/ UNCHANGED vars
  BY <1>2, <1>3, CallStepsFrame DEF vars
<1>4. ASSUME NEW b \in ImageBuffers, FillImage(b) PROVE NoRaw'
  BY <1>2, <1>4 DEF FillImage
<1>5. CASE OmxStep
  <2>1. CASE SendImage
    <3> DEFINE f == Frame(omx.buf, IMAGE, omx.shot)
    <3>1. /\ UNCHANGED <<hand, mFrameQ>>
          /\ queue' = queue \/ queue' = [queue EXCEPT ![encoder] = Append(@, f)]
      BY <2>1 DEF SendImage
    <3>2. f \in AnyFrame /\ f.type = IMAGE
      <4>1. omx.buf \in Buffers /\ omx.shot \in Nat
        BY <2>1 DEF SendImage, PathInv, PathTyped
      <4> QED BY <4>1 DEF Frame, AnyFrame, Types
    <3> HIDE DEF f
    <3>3. OnlyImages(Append(queue[encoder], f))
      BY <1>1, <3>2, OnlyImagesMore DEF NoRaw
    <3>4. \A w \in Workers : queue'[w] = queue[w] \/ queue'[w] = Append(queue[encoder], f)
      BY <1>1, <3>1
    <3> QED BY <3>1, <3>3, <3>4 DEF NoRaw
  <2>2. CASE SendRaw
    BY <1>2, <2>2 DEF SendRaw
  <2>3. CASE ~SendImage /\ ~SendRaw
    BY <1>2, <1>5, <2>3 DEF OmxStep, PreviewFrame, ImageFrame, CheckCapture, ReturnRawBegins,
                            ReturnRawEnds, CountCaptured
  <2> QED BY <2>1, <2>2, <2>3
<1>6. ASSUME NEW w \in Workers, ProcessFlush(w) PROVE NoRaw'
  <2>1. PICK q \in Flushed(w) : UNCHANGED <<hand, mFrameQ>> /\ queue' = [queue EXCEPT ![w] = q]
    BY <1>6 DEF ProcessFlush
  <2>2. OnlyImages(q)
    <3>1. OnlyImages(<<>>)
      BY DEF OnlyImages
    <3> QED BY <1>1, <3>1, OnlyImagesMore DEF Flushed, NoRaw
  <2>3. \A v \in Workers : queue'[v] = IF v = w THEN q ELSE queue[v]
    BY <1>1, <2>1
  <2> QED BY <2>1, <2>2, <2>3 DEF NoRaw
<1>7. ASSUME NEW w \in Workers, TakeFrame(w) PROVE NoRaw'
  <2>1. /\ mFrameQ' = mFrameQ /\ queue[w] # <<>>
        /\ queue' = [queue EXCEPT ![w] = Tail(@)]
        /\ \E S \in {{}, {Head(queue[w])}} : hand' = [hand EXCEPT ![w] = S]
    BY <1>7 DEF TakeFrame
  <2>2. Head(queue[w]).type = IMAGE /\ OnlyImages(Tail(queue[w]))
    BY <1>1, <2>1, OnlyImagesMore DEF NoRaw
  <2>3. \A v \in Workers : /\ queue'[v] = (IF v = w THEN Tail(queue[w]) ELSE queue[v])
                           /\ v # w => hand'[v] = hand[v]
    BY <1>1, <2>1
  <2>4. \A f \in hand'[w] : f = Head(queue[w])
    BY <1>1, <2>1
  <2> QED BY <2>1, <2>2, <2>3, <2>4 DEF NoRaw
<1>8. ASSUME NEW w \in Workers, SendToFrameQ(w) PROVE NoRaw'
  <2>1. PICK f \in hand[w] : /\ mFrameQ' = Append(mFrameQ, f) /\ queue' = queue
                             /\ hand' = [hand EXCEPT ![w] = {}]
    BY <1>8 DEF SendToFrameQ
  <2>2. OnlyImages(mFrameQ')
    BY <1>1, <2>1, OnlyImagesMore DEF NoRaw
  <2>3. \A v \in Workers : hand'[v] \subseteq hand[v]
    BY <1>1, <2>1
  <2> QED BY <2>1, <2>2, <2>3 DEF NoRaw
<1>9. CASE NotifierStep
  <2>1. CASE \E memory \in BOOLEAN : notifyFrame(memory)
    <3>1. mFrameQ # <<>> /\ mFrameQ' = Tail(mFrameQ) /\ UNCHANGED <<queue, hand>>
      BY <2>1 DEF notifyFrame
    <3> QED BY <1>1, <3>1, OnlyImagesMore DEF NoRaw
  <2>2. CASE NotifierReturnBegins \/ NotifierReturnEnds
    BY <1>2, <2>2 DEF NotifierReturnBegins, NotifierReturnEnds
  <2> QED BY <1>9, <2>1, <2>2 DEF NotifierStep
<1> QED BY <1>3, <1>4, <1>5, <1>6, <1>7, <1>8, <1>9, TwoKinds DEF FrameSteps, WorkerStep


(* Most steps neither ask for a picture nor give one, and neither begin    *)
(* nor end a capture.                                                      *)
Aside ==
  /\ UNCHANGED <<taken, delivered, unmade>> /\ mCapturedFrames' \in {mCapturedFrames, 0}
  /\ Capturing' <=> Capturing
  /\ EndPending' <=> EndPending
  /\ notifier'.pc = "return" => notifier.pc = "return"
  /\ hal'.op = "end" => captureActive'

LEMMA AsideKeeps == PictureInv /\ Aside => PictureInv'
<1> SUFFICES ASSUME PictureInv, Aside PROVE PictureInv'
  OBVIOUS
<1> DEFINE A == AllGiven
           B == Given = 1..(taken - 1)
<1>1. (A' <=> A) /\ (B' <=> B)
  BY DEF Aside, AllGiven, Given
<1>2. /\ ~Capturing => A /\ mCapturedFrames = 0
      /\ Capturing => taken >= 1 /\ (A \/ B)
      /\ EndPending => Capturing /\ A /\ mCapturedFrames = 0
      /\ notifier.pc = "return" => Capturing /\ A /\ ~EndPending
  BY DEF PictureInv
<1>3. /\ taken' = taken /\ mCapturedFrames' \in {mCapturedFrames, 0}
      /\ Capturing' <=> Capturing
      /\ EndPending' <=> EndPending
      /\ notifier'.pc = "return" => notifier.pc = "return"
      /\ hal'.op = "end" => captureActive'
  BY DEF Aside
<1>4. A <=> AllGiven
  OBVIOUS
<1>5. B <=> Given = 1..(taken - 1)
  OBVIOUS
<1>6. A' <=> AllGiven'
  OBVIOUS
<1>7. B' <=> Given' = 1..(taken' - 1)
  OBVIOUS
<1> HIDE DEF A, B
<1> QED BY <1>1, <1>2, <1>3, <1>6, <1>7 DEF PictureInv

EndMessage == Ends(mCommandMsgQ)

LEMMA PendingMeans == EndPending <=> hal.op = "end" \/ cmd = "end" \/ EndMessage
  BY DEF EndPending, Ends, EndMessage

LEMMA PendingMeansNext ==
  EndPending' <=> hal'.op = "end" \/ cmd' = "end" \/ EndMessage'
  BY DEF EndPending, Ends, EndMessage

(* The frames' threads: only notifyFrame and the return it leads to are    *)
(* not Aside.                                                              *)
LEMMA FramePictureInv ==
  ASSUME PathTyped, PictureInv, OneEnd,
         FrameSteps \/ UNCHANGED vars, \A memory \in BOOLEAN : ~notifyFrame(memory),
         ~NotifierReturnBegins
  PROVE  PictureInv' /\ OneEnd'
<1> USE DEF halVars, appVars, stateVars, flagVars, streamVars, portVars, workerVars, history
<1> DEFINE U == /\ UNCHANGED <<taken, delivered, unmade, mCommandMsgQ>>
                /\ mCapturedFrames' \in {mCapturedFrames, 0}
                /\ notifier'.pc = "return" => notifier.pc = "return"
<1>1. U
  <2>1. ASSUME NEW b \in ImageBuffers, FillImage(b) PROVE U
    BY <2>1 DEF FillImage
  <2>2. ASSUME NEW w \in Workers, WorkerStep(w) PROVE U
    BY <2>2 DEF WorkerStep, ProcessFlush, TakeFrame, SendToFrameQ
  <2>3. CASE NotifierReturnEnds
    BY <2>3 DEF NotifierReturnEnds, IdleNotifier
  <2>4. CASE ReturnRawBegins
    <3>1. mCapturedFrames = 1
      BY <2>4 DEF ReturnRawBegins, PathTyped, Dispatching
    <3> QED BY <2>4, <3>1 DEF ReturnRawBegins, onReturnFrame
  <2>5. CASE CountCaptured
    <3>1. mCapturedFrames = 1
      BY <2>5 DEF CountCaptured, PathTyped, Dispatching
    <3> QED BY <2>5, <3>1 DEF CountCaptured
  <2>6. CASE OmxStep /\ ~ReturnRawBegins /\ ~CountCaptured
    BY <2>6 DEF OmxStep, PreviewFrame, ImageFrame, CheckCapture, SendRaw, ReturnRawEnds, SendImage
  <2>7. CASE UNCHANGED vars
    BY <2>7 DEF vars
  <2> QED BY <2>1, <2>2, <2>3, <2>4, <2>5, <2>6, <2>7 DEF FrameSteps, NotifierStep
<1>2. UNCHANGED <<hal, cmd, captureActive, nextCapture>>
  BY FrameStepsFrame DEF vars
<1>3. Aside
  BY <1>1, <1>2 DEF Aside, Capturing, Taking, EndPending, PictureInv
<1>4. OneEnd'
  BY <1>1, <1>2 DEF OneEnd
<1> QED BY <1>3, <1>4, AsideKeeps

(* The picture notifyFrame is done with is the one that was missing: those *)
(* before it are done with, and none is newer.                             *)
LEMMA NotifyPictureInv ==
  ASSUME PathInv, PictureInv, OneEnd, NoRaw, NEW memory \in BOOLEAN, notifyFrame(memory)
  PROVE  PictureInv' /\ OneEnd'
<1> USE DEF halVars, appVars, stateVars, flagVars, streamVars, portVars, workerVars, history
<1> DEFINE f == Head(mFrameQ)
<1>1. /\ mFrameQ # <<>> /\ notifier' = [pc |-> "return", frame |-> f]
      /\ f.type = IMAGE => IF memory THEN delivered' = Append(delivered, f.shot) /\ unmade' = unmade
                                      ELSE delivered' = delivered /\ unmade' = unmade \cup {f.shot}
      /\ UNCHANGED <<taken, mCapturedFrames, mCommandMsgQ, hal, cmd, captureActive, nextCapture>>
  BY DEF notifyFrame
<1>2. /\ mFrameQ \in Seq(AnyFrame) /\ Ordered(mFrameQ) /\ taken \in Nat /\ delivered \in Seq(Nat)
      /\ Waiting \subseteq 1..taken /\ Below(Given, Waiting)
  BY DEF PathInv, PathTyped, Order, Below
<1>3. f = mFrameQ[1] /\ 1 \in 1..Len(mFrameQ)
  BY <1>1, <1>2
<1>4. f.type = IMAGE /\ f.shot \in Waiting
  BY <1>2, <1>3 DEF NoRaw, OnlyImages, Waiting, Shots
<1> HIDE DEF f
<1>5. f.shot \in 1..taken /\ \A i \in Given : i < f.shot
  BY <1>2, <1>4 DEF Below
<1>6. ~AllGiven
  <2>1. ~(f.shot < f.shot)
    BY <1>2, <1>5
  <2> QED BY <1>5, <2>1 DEF AllGiven
<1>7. Capturing /\ taken >= 1 /\ Given = 1..(taken - 1) /\ ~EndPending
  BY <1>6 DEF PictureInv
<1>8. f.shot = taken
  <2>1. CASE taken = 1
    BY <1>5, <2>1
  <2>2. CASE taken # 1
    <3>1. taken - 1 \in 1..(taken - 1)
      BY <1>2, <1>7, <2>2
    <3> QED BY <1>2, <1>5, <1>7, <3>1
  <2> QED BY <2>1, <2>2
<1>9. Given' = Given \cup {f.shot}
  <2>1. CASE memory
    <3> DEFINE r == Append(delivered, f.shot)
    <3>1. /\ Len(r) = Len(delivered) + 1 /\ r[Len(delivered) + 1] = f.shot
          /\ \A i \in 1..Len(delivered) : r[i] = delivered[i]
      BY <1>2
    <3>2. delivered' = r /\ unmade' = unmade
      BY <1>1, <1>4, <2>1
    <3> HIDE DEF r
    <3>3. {r[i] : i \in 1..Len(r)} = {delivered[i] : i \in 1..Len(delivered)} \cup {f.shot}
      <4>1. Len(delivered) \in Nat
        BY <1>2
      <4>2. 1..Len(r) = 1..Len(delivered) \cup {Len(delivered) + 1}
        BY <3>1, <4>1
      <4> QED BY <3>1, <4>2
    <3> QED BY <3>2, <3>3 DEF Given
  <2>2. CASE ~memory
    BY <1>1, <1>4, <2>2 DEF Given
  <2> QED BY <2>1, <2>2
<1>10. Given' = 1..taken'
  BY <1>1, <1>2, <1>7, <1>8, <1>9
<1>11. AllGiven' /\ (Capturing' <=> Capturing) /\ (EndPending' <=> EndPending)
  BY <1>1, <1>10 DEF AllGiven, Capturing, Taking, EndPending
<1>12. PictureInv'
  BY <1>1, <1>7, <1>11 DEF PictureInv
<1>13. OneEnd'
  BY <1>1 DEF OneEnd
<1> QED BY <1>12, <1>13

LEMMA ReturnPictureInv ==
  ASSUME PathInv, CallTyped, FlagTyped, FramesTyped, PictureInv, OneCapture, OneEnd, NotifierReturnBegins
  PROVE  PictureInv' /\ OneEnd'
<1> USE DEF halVars, appVars, stateVars, flagVars, streamVars, portVars, workerVars, history
<1>1. /\ notifier.pc = "return" /\ notifier' = [notifier EXCEPT !.pc = "decrement"]
      /\ UNCHANGED <<taken, delivered, unmade, mCapturedFrames, hal, cmd, captureActive, nextCapture>>
      /\ \/ mCommandMsgQ' = mCommandMsgQ
         \/ mCapturedFrames < 1 /\ mCommandMsgQ' = Append(mCommandMsgQ, "END_IMAGE_CALLBACK")
  BY DEF NotifierReturnBegins, onReturnFrame
<1>2. Capturing /\ AllGiven /\ ~EndPending /\ taken >= 1 /\ (hal.op = "end" => captureActive)
  BY <1>1 DEF PictureInv
<1>3. Capturing' /\ AllGiven' /\ notifier'.pc # "return" /\ taken' >= 1
      /\ (hal'.op = "end" => captureActive')
  <2>1. notifier'.pc # "return"
    <3>1. "pc" \in DOMAIN notifier
      BY DEF FramesTyped
    <3> QED BY <1>1, <3>1
  <2> QED BY <1>1, <1>2, <2>1 DEF Capturing, Taking, AllGiven, Given
<1>4. cmd = "idle" /\ ~Ends(mCommandMsgQ)
  <2>1. hal.op # "end" /\ cmd # "end" /\ ~Ends(mCommandMsgQ)
    BY <1>2 DEF EndPending, Ends
  <2> QED BY <2>1 DEF CallTyped, OneCapture
<1>5. CASE mCommandMsgQ' = mCommandMsgQ
  <2>1. ~EndPending'
    BY <1>1, <1>2, <1>5 DEF EndPending
  <2> QED BY <1>1, <1>3, <1>5, <2>1 DEF PictureInv, OneEnd
<1>6. CASE mCapturedFrames < 1 /\ mCommandMsgQ' = Append(mCommandMsgQ, "END_IMAGE_CALLBACK")
  <2>1. mCapturedFrames' = 0
    BY <1>1, <1>6 DEF PathInv, PathTyped
  <2>2. PictureInv'
    BY <1>3, <2>1 DEF PictureInv
  <2>3. Single(mCommandMsgQ')
    <3>1. mCommandMsgQ \in Seq({"START_IMAGE_CAPTURE", "END_IMAGE_CALLBACK"}) /\ Single(mCommandMsgQ)
      BY DEF FlagTyped, OneEnd
    <3> QED BY <1>4, <1>6, <3>1, MessageQueue
  <2> QED BY <1>1, <1>4, <2>2, <2>3 DEF OneEnd
<1> QED BY <1>1, <1>5, <1>6


LEMMA CallPictureInv ==
  ASSUME CallTyped, FlagTyped, PathTyped, OneCapture, Calm, Calm', PictureInv, OneEnd, CallSteps
  PROVE  PictureInv' /\ OneEnd'
<1> USE DEF halVars, appVars, stateVars, flagVars, streamVars, portVars, workerVars, history
<1>1. /\ hal \in HalCall /\ cmd \in {"idle", "end", "busy"} /\ taken \in Nat
      /\ mCapturedFrames \in 0..1
      /\ mCommandMsgQ \in Seq({"START_IMAGE_CAPTURE", "END_IMAGE_CALLBACK"})
      /\ Single(mCommandMsgQ)
  BY DEF CallTyped, FlagTyped, PathTyped, OneEnd
<1>2. UNCHANGED <<delivered, unmade, notifier>> /\ Given' = Given
  BY CallStepsFrame DEF Given
<1>3. hal.op # "cancel" /\ ~cancelPicture
  BY DEF Calm, OneCapture, cancelPicture
<1>4. ASSUME UNCHANGED <<taken, mCapturedFrames, mCommandMsgQ, cmd>>, Capturing' <=> Capturing,
             hal'.op = "end" <=> hal.op = "end", hal'.op = "end" => captureActive'
      PROVE  PictureInv' /\ OneEnd'
  <2>1. EndPending' <=> EndPending
    BY <1>4 DEF EndPending
  <2>2. Aside
    BY <1>2, <1>4, <2>1 DEF Aside
  <2> QED BY <1>4, <2>2, AsideKeeps DEF OneEnd
<1>5. CASE takePicture \/ TakeCheck \/ TakeWakes
  <2>1. /\ UNCHANGED <<taken, mCapturedFrames, mCommandMsgQ, cmd, captureActive, nextCapture>>
        /\ hal.op = NONE \/ (hal.op = "take" /\ hal.pc = "check")
        /\ \/ hal' = [op |-> "take", pc |-> "check", ok |-> TRUE]
           \/ hal' = IdleHal
           \/ hal' = [hal EXCEPT !.pc = "query"] /\ hal.op = "take"
    BY <1>5 DEF takePicture, TakeCheck, TakeWakes, Return
  <2>2. hal'.op = NONE \/ (hal'.op = "take" /\ hal'.pc \in {"check", "query"})
    <3>1. CASE hal' = [hal EXCEPT !.pc = "query"] /\ hal.op = "take"
      BY <1>1, <3>1 DEF HalCall
    <3>2. CASE hal' = IdleHal
      BY <3>2 DEF IdleHal
    <3>3. CASE hal' = [op |-> "take", pc |-> "check", ok |-> TRUE]
      BY <3>3
    <3> QED BY <2>1, <3>1, <3>2, <3>3
  <2>3. (Capturing' <=> Capturing) /\ hal.op # "end" /\ hal'.op # "end"
    BY <2>1, <2>2 DEF Capturing, Taking, NONE
  <2> QED BY <1>4, <2>1, <2>3
<1>6. ASSUME NEW m \in Modes, NEW reformat \in BOOLEAN, NEW ok \in BOOLEAN,
             getPictureBufferSize(m, reformat, ok)
      PROVE  PictureInv' /\ OneEnd'
  <2>1. /\ UNCHANGED <<taken, mCapturedFrames, mCommandMsgQ, cmd, captureActive, nextCapture>>
        /\ hal.op = "take" /\ hal.pc = "query"
        /\ \/ hal' = IdleHal
           \/ hal' = [hal EXCEPT !.pc = IF ok THEN "use" ELSE "resize", !.ok = ok]
    BY <1>6 DEF getPictureBufferSize, Return
  <2>2. hal'.op # "end" /\ ~Taking'
    <3>1. CASE hal' = IdleHal
      BY <3>1 DEF Taking, IdleHal, NONE
    <3>2. CASE ok /\ hal' = [hal EXCEPT !.pc = IF ok THEN "use" ELSE "resize", !.ok = ok]
      BY <1>1, <2>1, <3>2 DEF Taking, HalCall
    <3>3. CASE ~ok /\ hal' = [hal EXCEPT !.pc = IF ok THEN "use" ELSE "resize", !.ok = ok]
      <4>1. hal'.op = hal.op /\ hal'.ok = ok
        BY <1>1, <3>3 DEF HalCall
      <4> QED BY <2>1, <3>3, <4>1 DEF Taking
    <3> QED BY <2>1, <3>1, <3>2, <3>3
  <2>3. (Capturing' <=> Capturing) /\ hal.op # "end"
    BY <2>1, <2>2 DEF Capturing, Taking
  <2> QED BY <1>4, <2>1, <2>2, <2>3
<1>7. ASSUME NEW ok \in BOOLEAN, UseBuffersCapture(ok) PROVE PictureInv' /\ OneEnd'
  <2>1. /\ UNCHANGED <<mCommandMsgQ, cmd, captureActive, nextCapture>>
        /\ hal.op = "take" /\ hal.pc = "use"
        /\ hal' = [hal EXCEPT !.pc = "resize", !.ok = ok]
    BY <1>7 DEF UseBuffersCapture
  <2>2. hal'.op = "take" /\ hal'.ok = ok /\ hal'.pc = "resize"
    BY <1>1, <2>1 DEF HalCall
  <2>3. ~Capturing /\ ~captureActive /\ ~nextCapture
    BY <2>1 DEF Capturing, Taking, OneCapture
  <2>4. CASE ~ok
    <3>1. UNCHANGED <<taken, mCapturedFrames>>
      BY <1>7, <2>4 DEF UseBuffersCapture
    <3>2. ~Capturing'
      BY <2>1, <2>2, <2>3, <2>4 DEF Capturing, Taking
    <3> QED BY <1>4, <2>1, <2>2, <2>3, <3>1, <3>2
  <2>5. CASE ok
    <3>1. taken' = taken + 1
      BY <1>7, <2>5 DEF UseBuffersCapture
    <3>2. Capturing'
      BY <2>2, <2>5 DEF Capturing, Taking
    <3>3. Given = 1..taken /\ ~EndPending /\ notifier.pc # "return"
      BY <2>3 DEF PictureInv, AllGiven
    <3>4. taken' >= 1 /\ taken' - 1 = taken
      BY <1>1, <3>1
    <3>5. Given' = 1..(taken' - 1)
      BY <1>2, <3>3, <3>4
    <3>6. ~EndPending'
      BY <2>1, <2>2, <3>3 DEF EndPending
    <3> QED BY <1>2, <2>1, <2>2, <3>2, <3>3, <3>4, <3>5, <3>6 DEF PictureInv, OneEnd
  <2> QED BY <2>4, <2>5
<1>8. ASSUME NEW w \in Workers, ImageCallbacks(w) PROVE PictureInv' /\ OneEnd'
  <2>1. /\ UNCHANGED <<taken, mCapturedFrames, mCommandMsgQ, cmd, captureActive, nextCapture>>
        /\ hal.pc = w /\ w \in {"resize", "jpeg"}
        /\ \E p \in {"jpeg", "adapter"} : hal' = [hal EXCEPT !.pc = p]
    BY <1>8 DEF ImageCallbacks, Workers
  <2>2. hal'.op = hal.op /\ hal'.ok = hal.ok /\ hal'.pc \in {"jpeg", "adapter"}
    BY <1>1, <2>1 DEF HalCall
  <2>3. (Capturing' <=> Capturing) /\ (hal.op = "end" => captureActive)
    BY <2>1, <2>2 DEF Capturing, Taking, PictureInv
  <2> QED BY <1>4, <2>1, <2>2, <2>3
<1>9. CASE StartImageCapture
  <2>1. /\ UNCHANGED <<taken, mCapturedFrames, cmd, captureActive>>
        /\ hal.op = "take" /\ hal.pc = "adapter"
    BY <1>9 DEF StartImageCapture
  <2>2. CASE ~hal.ok
    <3>1. UNCHANGED <<nextCapture, mCommandMsgQ>> /\ hal'.op = NONE
      BY <1>9, <2>2 DEF StartImageCapture, Return, IdleHal
    <3> QED BY <1>4, <2>1, <2>2, <3>1 DEF Capturing, Taking, NONE
  <2>3. CASE hal.ok
    <3>1. /\ nextCapture' = TRUE /\ hal' = [hal EXCEPT !.pc = "commit"]
          /\ mCommandMsgQ' = Append(mCommandMsgQ, "START_IMAGE_CAPTURE")
      BY <1>9, <2>3 DEF StartImageCapture
    <3>2. Capturing /\ Capturing' /\ hal'.op = "take"
      BY <1>1, <2>1, <2>3, <3>1 DEF Capturing, Taking, HalCall
    <3>3. Single(mCommandMsgQ') /\ (Ends(mCommandMsgQ') <=> Ends(mCommandMsgQ))
      BY <1>1, <3>1, MessageQueue
    <3>4. EndPending' <=> EndPending
      BY <2>1, <3>2, <3>3 DEF EndPending, Ends
    <3>5. Aside
      BY <1>2, <2>1, <3>2, <3>4 DEF Aside
    <3> QED BY <2>1, <3>3, <3>5, AsideKeeps DEF OneEnd
  <2> QED BY <2>2, <2>3
<1>10. CASE CommitCapture
  <2>1. /\ UNCHANGED <<taken, mCapturedFrames, mCommandMsgQ, cmd, nextCapture>>
        /\ hal.op = "take" /\ hal.pc = "commit" /\ hal'.op = NONE
    BY <1>10 DEF CommitCapture, Return, IdleHal
  <2>2. Capturing /\ Capturing'
    BY <1>10, <2>1 DEF Capturing, OneCapture, CommitCapture
  <2> QED BY <1>4, <2>1, <2>2 DEF NONE
<1>11. CASE StopImageCapture
  <2>1. /\ UNCHANGED <<taken, mCapturedFrames, mCommandMsgQ, captureActive>>
        /\ hal.op = "end" /\ captureActive
    BY <1>3, <1>11 DEF StopImageCapture, PictureInv
  <2>2. cmd' = cmd /\ hal' = [hal EXCEPT !.pc = "stop"]
    BY <1>11, <2>1 DEF StopImageCapture
  <2>3. hal'.op = "end"
    BY <1>1, <2>1, <2>2 DEF HalCall
  <2> QED BY <1>4, <2>1, <2>2, <2>3 DEF Capturing
<1>15. ASSUME NEW ok \in BOOLEAN, stopImageCapture(ok) PROVE PictureInv' /\ OneEnd'
  <2>1. /\ UNCHANGED <<taken, mCapturedFrames, mCommandMsgQ, captureActive>>
        /\ hal.op = "end" /\ captureActive
    BY <1>3, <1>15 DEF stopImageCapture, OneCapture, PictureInv
  <2>2. cmd' = cmd /\ hal' = [hal EXCEPT !.pc = "remove", !.ok = ok]
    BY <1>15, <2>1 DEF stopImageCapture
  <2>3. hal'.op = "end"
    BY <1>1, <2>1, <2>2 DEF HalCall
  <2> QED BY <1>4, <2>1, <2>2, <2>3 DEF Capturing
<1>12. CASE CommitStop
  <2>1. /\ UNCHANGED <<taken, mCapturedFrames, mCommandMsgQ, nextCapture>>
        /\ hal.op = "end" /\ ~nextCapture /\ captureActive' = FALSE
        /\ hal' = IdleHal /\ cmd' = "idle" /\ cmd = "busy"
    BY <1>3, <1>12 DEF CommitStop, EndCall, OneCapture
  <2>2. AllGiven /\ mCapturedFrames = 0 /\ ~Ends(mCommandMsgQ) /\ notifier.pc # "return"
    BY <2>1 DEF PictureInv, EndPending, OneEnd
  <2>3. ~Capturing' /\ AllGiven' /\ ~EndPending' /\ hal'.op = NONE
    <3>1. hal'.op = NONE
      BY <2>1 DEF IdleHal
    <3> QED BY <1>2, <2>1, <2>2, <3>1 DEF Capturing, Taking, AllGiven, EndPending, Ends, NONE
  <2> QED BY <1>2, <2>1, <2>2, <2>3 DEF PictureInv, OneEnd, NONE
(* After a failed stop the capture is still active, and all is given.      *)
<1>16. CASE RollbackStop
  <2>1. /\ UNCHANGED <<taken, mCapturedFrames, mCommandMsgQ, captureActive>>
        /\ hal.op = "end" /\ captureActive /\ cmd' = "idle" /\ cmd = "busy" /\ hal' = IdleHal
    BY <1>3, <1>16 DEF RollbackStop, EndCall, OneCapture, PictureInv
  <2>2. AllGiven /\ ~Ends(mCommandMsgQ) /\ notifier.pc # "return" /\ taken >= 1
    BY <2>1 DEF PictureInv, EndPending, OneEnd
  <2>3. Capturing' /\ AllGiven' /\ ~EndPending' /\ hal'.op = NONE
    <3>1. hal'.op = NONE
      BY <2>1 DEF IdleHal
    <3> QED BY <1>2, <2>1, <2>2, <3>1 DEF Capturing, AllGiven, EndPending, Ends, NONE
  <2> QED BY <1>2, <2>1, <2>2, <2>3 DEF PictureInv, OneEnd, NONE
<1>13. CASE HandleEnd \/ (\E ok \in BOOLEAN : startImageCapture(ok))
  <2>1. /\ UNCHANGED <<taken, mCapturedFrames, hal, captureActive, nextCapture>>
        /\ mCommandMsgQ # <<>> /\ mCommandMsgQ' = Tail(mCommandMsgQ) /\ cmd = "idle"
        /\ \/ Head(mCommandMsgQ) = "END_IMAGE_CALLBACK" /\ cmd' = "end"
           \/ Head(mCommandMsgQ) # "END_IMAGE_CALLBACK" /\ cmd' = cmd
    BY <1>13 DEF HandleEnd, startImageCapture
  <2>2. /\ Single(mCommandMsgQ')
        /\ \/ Ends(mCommandMsgQ) /\ ~Ends(mCommandMsgQ') /\ cmd' = "end"
           \/ (Ends(mCommandMsgQ') <=> Ends(mCommandMsgQ)) /\ cmd' = cmd
    BY <1>1, <2>1, MessageQueue
  <2>3. EndPending' <=> EndPending
    BY <2>1, <2>2 DEF EndPending, Ends
  <2>4. Aside
    BY <1>2, <2>1, <2>3 DEF Aside, Capturing, Taking, PictureInv
  <2>5. OneEnd'
    BY <2>1, <2>2 DEF OneEnd
  <2> QED BY <2>4, <2>5, AsideKeeps
<1>14. CASE signalEndImageCapture
  <2>1. /\ UNCHANGED <<taken, mCapturedFrames, mCommandMsgQ, captureActive, nextCapture>>
        /\ hal.op = NONE /\ cmd = "end" /\ cmd' = "busy" /\ hal'.op = "end"
    BY <1>14 DEF signalEndImageCapture
  <2>2. Capturing /\ captureActive
    <3>1. Capturing
      BY <2>1 DEF PictureInv, EndPending
    <3> QED BY <2>1, <3>1 DEF Capturing, Taking, OneCapture, NONE
  <2>3. EndPending /\ EndPending' /\ ~Ends(mCommandMsgQ)
    BY <2>1 DEF EndPending, OneEnd
  <2>4. Aside
    BY <1>2, <2>1, <2>2, <2>3 DEF Aside, Capturing
  <2> QED BY <2>1, <2>3, <2>4, AsideKeeps DEF OneEnd
<1> QED BY <1>3, <1>5, <1>6, <1>7, <1>8, <1>9, <1>10, <1>11, <1>12, <1>13, <1>14,
         <1>15, <1>16 DEF CallSteps, HalStep, CommandStep

LEMMA CancelledStays == CallSteps /\ cancelled => cancelled'
<1> USE DEF halVars, appVars, stateVars, flagVars, streamVars, portVars, workerVars, history
<1>1. cancelPicture => cancelled'
  BY DEF cancelPicture
<1> DEFINE U == cancelled' = cancelled
<1>2. takePicture \/ TakeCheck \/ TakeWakes => U
  BY DEF takePicture, TakeCheck, TakeWakes
<1>3. \A m \in Modes, reformat, ok \in BOOLEAN : getPictureBufferSize(m, reformat, ok) => U
  BY DEF getPictureBufferSize
<1>4. \A ok \in BOOLEAN : UseBuffersCapture(ok) => U
  BY DEF UseBuffersCapture
<1>5. \A w \in Workers : ImageCallbacks(w) => U
  BY DEF ImageCallbacks
<1>6. StartImageCapture \/ CommitCapture \/ StopImageCapture \/ CommitStop \/ RollbackStop => U
  BY DEF StartImageCapture, CommitCapture, StopImageCapture, CommitStop, RollbackStop
<1>9. \A ok \in BOOLEAN : stopImageCapture(ok) => U
  BY DEF stopImageCapture
<1>7. CommandStep => U
  BY DEF CommandStep, HandleEnd, startImageCapture, signalEndImageCapture
<1>8. CallSteps => cancelled' \/ U
  BY <1>1, <1>2, <1>3, <1>4, <1>5, <1>6, <1>7, <1>9 DEF CallSteps, HalStep
<1> QED BY <1>8

LEMMA NextEndInv == PathInv /\ TypeInv /\ EndInv /\ [Next]_vars => EndInv'
<1> SUFFICES ASSUME PathInv, TypeInv, EndInv, [Next]_vars PROVE EndInv'
  OBVIOUS
<1>1. CallTyped /\ FlagTyped /\ FramesTyped /\ PathTyped /\ OneCapture
  BY DEF TypeInv, PathInv, EndInv
<1>2. OneCapture'
  BY <1>1, NextOneCapture
<1>3. ASSUME Calm' PROVE Calm
  <2>1. CASE CallSteps
    <3>1. rawWanted' = rawWanted
      BY <2>1, CallStepsFrame
    <3>2. cancelled => cancelled'
      BY <2>1, CancelledStays
    <3> QED BY <1>3, <3>1, <3>2 DEF Calm
  <2>2. CASE FrameSteps \/ UNCHANGED vars
    <3>1. UNCHANGED <<rawWanted, cancelled>>
      BY <2>2, FrameStepsFrame DEF vars, history, halVars, appVars
    <3> QED BY <1>3, <3>1 DEF Calm
  <2> QED BY <2>1, <2>2, TwoKinds
<1>4. ASSUME Calm' PROVE PictureInv' /\ OneEnd' /\ NoRaw'
  <2>1. Calm /\ PictureInv /\ OneEnd /\ NoRaw
    BY <1>3, <1>4 DEF EndInv
  <2>2. NoRaw'
    BY <2>1, NextNoRaw DEF Calm
  <2>3. CASE CallSteps
    BY <1>1, <1>4, <2>1, <2>2, <2>3, CallPictureInv
  <2>4. CASE \E memory \in BOOLEAN : notifyFrame(memory)
    BY <2>1, <2>2, <2>4, NotifyPictureInv
  <2>5. CASE NotifierReturnBegins
    BY <1>1, <2>1, <2>2, <2>5, ReturnPictureInv
  <2>6. CASE /\ FrameSteps \/ UNCHANGED vars
             /\ \A memory \in BOOLEAN : ~notifyFrame(memory)
             /\ ~NotifierReturnBegins
    BY <1>1, <2>1, <2>2, <2>6, FramePictureInv
  <2> QED BY <2>3, <2>4, <2>5, <2>6, TwoKinds
<1> QED BY <1>2, <1>4 DEF EndInv

LEMMA InitEndInv == Init => EndInv
<1> SUFFICES ASSUME Init PROVE EndInv
  OBVIOUS
<1>1. /\ hal.op = NONE /\ hal.pc = NONE /\ ~captureActive /\ ~nextCapture /\ cmd = "idle"
      /\ taken = 0 /\ delivered = <<>> /\ unmade = {} /\ mCapturedFrames = 0 /\ mCommandMsgQ = <<>>
      /\ notifier.pc = "idle"
  BY DEF Init, IdleHal, IdleNotifier
<1>2. OneCapture
  BY <1>1 DEF OneCapture, NONE
<1>3. Single(<<>>) /\ ~Ends(<<>>)
  BY DEF Single, Ends, Image
<1>4. PictureInv
  <2>1. Given = 1..taken
    BY <1>1 DEF Given
  <2> QED BY <1>1, <1>3, <2>1 DEF PictureInv, Capturing, Taking, AllGiven, EndPending, Ends, NONE
<1>5. NoRaw
  BY DEF Init, NoRaw, OnlyImages
<1> QED BY <1>1, <1>2, <1>3, <1>4, <1>5 DEF EndInv, OneEnd

LEMMA EndMeans == PathInv /\ EndInv => EndMeansDelivered
<1> SUFFICES ASSUME PathInv, EndInv, EndPending, ~cancelled, ~rawWanted
             PROVE  /\ Image(delivered) \cup unmade = 1..taken
                    /\ \A w \in Workers : queue[w] = <<>>
  BY DEF EndMeansDelivered
<1>1. Given = 1..taken /\ \A w \in Workers : OnlyImages(queue[w])
  BY DEF EndInv, Calm, PictureInv, AllGiven, NoRaw
<1>2. taken \in Nat /\ Queued \subseteq 1..taken /\ Below(Given, Queued)
  BY DEF PathInv, PathTyped, Order, Below
<1>3. Queued = {}
  <2>1. ASSUME NEW n \in Queued PROVE FALSE
    <3>1. n \in 1..taken /\ ~(n < n)
      BY <1>2, <2>1
    <3> QED BY <1>1, <1>2, <2>1, <3>1 DEF Below
  <2> QED BY <2>1
<1>4. ASSUME NEW w \in Workers, queue[w] # <<>> PROVE FALSE
  <2>1. queue[w] \in Seq(Carried(w, encoder))
    BY DEF PathInv, PathTyped
  <2>2. 1 \in 1..Len(queue[w]) /\ queue[w][1] \in Carried(w, encoder)
    BY <1>4, <2>1
  <2>3. queue[w][1].type = IMAGE
    BY <1>1, <2>2 DEF OnlyImages
  <2>4. w = encoder
    BY <2>2, <2>3, FrameKinds
  <2>5. queue[w][1].shot \in Queued
    BY <2>2, <2>3, <2>4 DEF Queued, Shots
  <2> QED BY <1>3, <2>5
<1> QED BY <1>1, <1>4 DEF Given, Image

(* While the application neither cancels nor wants RAW frames, the end of  *)
(* a capture is signalled only when the frame of every picture asked for   *)
(* has come to notifyFrame, which has given it to the application unless   *)
(* it came without memory: the flush that signalEndImageCapture sends      *)
(* deletes no frame, whatever is early, late or failing.                   *)
THEOREM EndsDelivered == Spec => []EndMeansDelivered
<1>1. PathInv /\ TypeInv /\ EndInv => EndMeansDelivered
  BY EndMeans
<1>2. PathInv /\ TypeInv /\ EndInv /\ [Next]_vars => PathInv' /\ TypeInv' /\ EndInv'
  BY NextPathInv, NextTypeInv, NextEndInv
<1> QED BY <1>1, <1>2, InitPathInv, InitTypeInv, InitEndInv, PTL DEF Spec

================================================================================
