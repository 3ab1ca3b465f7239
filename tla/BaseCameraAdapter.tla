-------------------------- MODULE BaseCameraAdapter --------------------------
(***************************************************************************)
(* The command protocol of the camera adapter.  sendCommand takes mLock in *)
(* setState, runs the command's own method, and releases mLock in          *)
(* commitState or rollbackState.  Four threads use it:                     *)
(*   "app"  the binder thread in a CameraHal call (the camera service      *)
(*          serialises them), including the rollbackTo... loops;           *)
(*   "omx"  OMXCallbackHandler, which runs advanceZoom and                 *)
(*          checkFocusStatus on every preview frame;                       *)
(*   "af"   AFHandler in doAutoFocus;                                      *)
(*   "cmd"  CommandHandler, which stops the capture in                     *)
(*          signalEndImageCapture.                                         *)
(***************************************************************************)
EXTENDS AdapterState, Integers, Sequences, FiniteSets

CONSTANTS
  AppCalls,     \* the CameraHal calls the application makes
  Failures,     \* commands whose OMX part may fail
  ZOOM_STAGES,  \* zoom indices are 0..ZOOM_STAGES-1
  MaxFocusMsgs, \* bound: messages waiting in AFHandler's queue
  MaxEndMsgs    \* bound: CAMERA_END_IMAGE_CALLBACK messages waiting

NONE == "none"
Threads == {"app", "omx", "af", "cmd"}
ZoomIdx == 0 .. ZOOM_STAGES - 1

HalCalls == {"startPreview", "stopPreview", "startRecording", "stopRecording",
             "autoFocus", "cancelAutoFocus", "takePicture", "cancelPicture",
             "startSmoothZoom", "stopSmoothZoom", "setParameters",
             "getParameters", "restartPreview"}

(* The calls that hold CameraHal::mLock from beginning to end.             *)
LockedCalls == {"stopRecording", "autoFocus", "cancelAutoFocus", "takePicture",
                "cancelPicture"}

(* The calls that pass mParameters, the zoom index in it included, on to   *)
(* the adapter.  restartPreview is setParameters with a new preview size.  *)
ParameterCalls == {"startPreview", "cancelAutoFocus", "restartPreview"}

ASSUME AdapterAssumption ==
  /\ AppCalls \subseteq HalCalls
  /\ Failures \subseteq CameraCommands
  /\ ZOOM_STAGES \in Nat \ {0}
  /\ MaxFocusMsgs \in Nat
  /\ MaxEndMsgs \in Nat

VARIABLES
  mAdapterState, mNextState,
  mLock,             \* owner of BaseCameraAdapter::mLock
  mStateSwitchLock,  \* locked? taken in UseBuffersPreview, freed in startPreview
  mRecording,
  call,              \* [Threads -> the sendCommand or focus report in progress]
  \* CameraHal
  mPreviewEnabled, mRecordingEnabled, mAfterTakePicture,
  app,               \* the call in progress: commands left, result, loop step
  \* OMXZoom
  mZoomLock, mCurrentZoomIdx, mTargetZoomIdx, mZoomInc, mReturnZoomStatus,
  frame,             \* how far the omx thread is with a preview frame
  \* OMXFocus
  mCheckAF,
  afQ,               \* messages in AFHandler's queue
  afPc,              \* where AFHandler is in doAutoFocus
  focusOwed,         \* history: autofocus runs neither reported nor cancelled
  endMsgs            \* end-of-capture messages in CommandHandler's queue

stateVars == <<mAdapterState, mNextState>>
halVars   == <<mPreviewEnabled, mRecordingEnabled, mAfterTakePicture>>
zoomVars  == <<mCurrentZoomIdx, mTargetZoomIdx, mZoomInc, mReturnZoomStatus>>
focusVars == <<mCheckAF, afQ, afPc>>
vars == <<stateVars, mLock, mStateSwitchLock, mRecording, call, halVars, app,
          mZoomLock, zoomVars, frame, focusVars, focusOwed, endMsgs>>

Idle == [pc |-> "idle", op |-> NONE, next |-> NONE]
AppIdle == [name |-> NONE, todo |-> <<>>, ok |-> TRUE, step |-> NONE]

(* The constructor leaves mNextState uninitialised.                        *)
Init ==
  /\ mAdapterState = INTIALIZED_STATE
  /\ mNextState \in {INTIALIZED_STATE, PREVIEW_STATE}
  /\ mLock = NONE
  /\ mStateSwitchLock = FALSE
  /\ mRecording = FALSE
  /\ call = [th \in Threads |-> Idle]
  /\ mPreviewEnabled = FALSE
  /\ mRecordingEnabled = FALSE
  /\ mAfterTakePicture = FALSE
  /\ app = AppIdle
  /\ mZoomLock = NONE
  /\ mCurrentZoomIdx = 0
  /\ mTargetZoomIdx = 0
  /\ mZoomInc = 1
  /\ mReturnZoomStatus = FALSE
  /\ frame = "idle"
  /\ mCheckAF = FALSE
  /\ afQ = 0
  /\ afPc = "idle"
  /\ focusOwed = 0
  /\ endMsgs = 0

-----------------------------------------------------------------------------
(* sendCommand: setState, the command's method, commitState/rollbackState  *)

Send(th, op, next) == call' = [call EXCEPT ![th] = [pc |-> "set", op |-> op, next |-> next]]

UseBuffers == {"USE_BUFFERS_PREVIEW", "USE_BUFFERS_IMAGE_CAPTURE"}

(* Mutant of setState: mLock is not waited for.                            *)
setStateAnyTime(th) ==
  /\ call[th].pc = "set"
  /\ mLock' = th
  /\ LET next == NextStates(mAdapterState, call[th].op)
     IN IF next # {}
        THEN mNextState' \in next /\ call' = [call EXCEPT ![th].pc = "body"]
        ELSE UNCHANGED mNextState /\ call' = [call EXCEPT ![th].pc = "rollback"]
  /\ UNCHANGED <<mAdapterState, mStateSwitchLock, mRecording, halVars, app,
                 mZoomLock, zoomVars, frame, focusVars, focusOwed, endMsgs>>

(* mLock stays locked when the command is refused.  The two USE_BUFFERS    *)
(* commands go on to useBuffers even then; advanceZoom has no method       *)
(* between setState and commitState.                                       *)
setState(th) ==
  /\ call[th].pc = "set"
  /\ mLock = NONE
  /\ mLock' = th
  /\ LET next == NextStates(mAdapterState, call[th].op)
     IN IF next # {}
        THEN /\ mNextState' \in next
             /\ call' = [call EXCEPT ![th].pc =
                           IF call[th].next = "zoom" THEN "commit" ELSE "body"]
        ELSE /\ call' = [call EXCEPT ![th].pc =
                           IF call[th].op \in UseBuffers THEN "body" ELSE "rollback"]
             /\ UNCHANGED mNextState
  /\ UNCHANGED <<mAdapterState, mStateSwitchLock, mRecording, halVars, app,
                 mZoomLock, zoomVars, frame, focusVars, focusOwed, endMsgs>>

(* The method of command op runs on thread th and ends with result ok.     *)
Body(th, op) == call[th].pc = "body" /\ call[th].op = op

Result(th, ok) ==
  /\ ok \/ call[th].op \in Failures
  /\ call' = [call EXCEPT ![th].pc = IF ok THEN "commit" ELSE "rollback"]

(* UseBuffersPreview leaves mStateSwitchLock locked for startPreview.      *)
UseBuffersPreview(th, ok) ==
  /\ Body(th, "USE_BUFFERS_PREVIEW")
  /\ ~mStateSwitchLock
  /\ Result(th, ok)
  /\ mStateSwitchLock' = ok
  /\ UNCHANGED <<stateVars, mLock, mRecording, halVars, app, mZoomLock,
                 zoomVars, frame, focusVars, focusOwed, endMsgs>>

(* Mutant of startPreview: mStateSwitchLock stays locked.                  *)
startPreviewKeepsLock(th, ok) ==
  /\ Body(th, "START_PREVIEW")
  /\ Result(th, ok)
  /\ UNCHANGED <<stateVars, mLock, mStateSwitchLock, mRecording, halVars, app,
                 mZoomLock, zoomVars, frame, focusVars, focusOwed, endMsgs>>

startPreview(th, ok) ==
  /\ Body(th, "START_PREVIEW")
  /\ Result(th, ok)
  /\ mStateSwitchLock' = FALSE
  /\ UNCHANGED <<stateVars, mLock, mRecording, halVars, app, mZoomLock,
                 zoomVars, frame, focusVars, focusOwed, endMsgs>>

(* stopAutoFocus wakes doAutoFocus if it has armed mCheckAF.               *)
stopAutoFocus ==
  /\ mCheckAF' = FALSE
  /\ afPc' = IF mCheckAF /\ afPc = "wait" THEN "idle" ELSE afPc
  /\ UNCHANGED afQ

(* Before START_PREVIEW there is only mStateSwitchLock to release.         *)
stopPreview(th, ok) ==
  /\ Body(th, "STOP_PREVIEW")
  /\ IF mAdapterState = LOADED_PREVIEW_STATE
     THEN /\ ok
          /\ mStateSwitchLock' = FALSE
          /\ UNCHANGED focusVars
     ELSE /\ ~mStateSwitchLock
          /\ stopAutoFocus
          /\ UNCHANGED mStateSwitchLock
  /\ Result(th, ok)
  /\ UNCHANGED <<stateVars, mLock, mRecording, halVars, app, mZoomLock,
                 zoomVars, frame, focusOwed, endMsgs>>

startVideoCapture(th) ==
  /\ Body(th, "START_VIDEO")
  /\ call' = [call EXCEPT ![th].pc = IF mRecording THEN "rollback" ELSE "commit"]
  /\ mRecording' = TRUE
  /\ UNCHANGED <<stateVars, mLock, mStateSwitchLock, halVars, app, mZoomLock,
                 zoomVars, frame, focusVars, focusOwed, endMsgs>>

(* Mutant of stopVideoCapture: mRecording stays set.                       *)
stopVideoCaptureKeepsFlag(th) ==
  /\ Body(th, "STOP_VIDEO")
  /\ call' = [call EXCEPT ![th].pc = IF mRecording THEN "commit" ELSE "rollback"]
  /\ UNCHANGED <<stateVars, mLock, mStateSwitchLock, mRecording, halVars, app,
                 mZoomLock, zoomVars, frame, focusVars, focusOwed, endMsgs>>

stopVideoCapture(th) ==
  /\ Body(th, "STOP_VIDEO")
  /\ call' = [call EXCEPT ![th].pc = IF mRecording THEN "commit" ELSE "rollback"]
  /\ mRecording' = FALSE
  /\ UNCHANGED <<stateVars, mLock, mStateSwitchLock, halVars, app, mZoomLock,
                 zoomVars, frame, focusVars, focusOwed, endMsgs>>

(* autoFocus only puts a message in AFHandler's queue.                     *)
autoFocus(th) ==
  /\ Body(th, "PERFORM_AUTOFOCUS")
  /\ afQ' = afQ + 1
  /\ Result(th, TRUE)
  /\ UNCHANGED <<stateVars, mLock, mStateSwitchLock, mRecording, halVars, app,
                 mZoomLock, zoomVars, frame, mCheckAF, afPc, focusOwed, endMsgs>>

(* cancelAutoFocus, and the same step of returnFocusStatus; setFocusMode   *)
(* may fail.                                                               *)
cancelAutoFocus(th, ok) ==
  /\ Body(th, "CANCEL_AUTOFOCUS")
  /\ stopAutoFocus
  /\ Result(th, ok)
  /\ UNCHANGED <<stateVars, mLock, mStateSwitchLock, mRecording, halVars, app,
                 mZoomLock, zoomVars, frame, focusOwed, endMsgs>>

(* The target comes from the application; out of range is -EINVAL.         *)
startSmoothZoom(th, targetIdx) ==
  /\ Body(th, "START_SMOOTH_ZOOM")
  /\ mZoomLock = NONE
  /\ call' = [call EXCEPT ![th].pc = IF targetIdx \in ZoomIdx THEN "commit" ELSE "rollback"]
  /\ IF targetIdx \in ZoomIdx
     THEN mTargetZoomIdx' = targetIdx /\ mReturnZoomStatus' = FALSE
     ELSE UNCHANGED <<mTargetZoomIdx, mReturnZoomStatus>>
  /\ UNCHANGED <<stateVars, mLock, mStateSwitchLock, mRecording, halVars, app,
                 mZoomLock, mCurrentZoomIdx, mZoomInc, frame, focusVars,
                 focusOwed, endMsgs>>

Towards(from, to) == IF from < to THEN 1 ELSE -1

(* Mutant of stopSmoothZoom: the direction of an earlier zoom is kept.     *)
stopSmoothZoomKeepsStep(th) ==
  /\ Body(th, "STOP_SMOOTH_ZOOM")
  /\ mZoomLock = NONE
  /\ Result(th, TRUE)
  /\ mReturnZoomStatus' = (mReturnZoomStatus \/ mTargetZoomIdx # mCurrentZoomIdx)
  /\ UNCHANGED <<stateVars, mLock, mStateSwitchLock, mRecording, halVars, app,
                 mZoomLock, mCurrentZoomIdx, mTargetZoomIdx, mZoomInc, frame, focusVars,
                 focusOwed, endMsgs>>

stopSmoothZoom(th) ==
  /\ Body(th, "STOP_SMOOTH_ZOOM")
  /\ mZoomLock = NONE
  /\ Result(th, TRUE)
  /\ IF mTargetZoomIdx # mCurrentZoomIdx
     THEN /\ mZoomInc' = Towards(mCurrentZoomIdx, mTargetZoomIdx)
          /\ mReturnZoomStatus' = TRUE
     ELSE UNCHANGED <<mZoomInc, mReturnZoomStatus>>
  /\ UNCHANGED <<stateVars, mLock, mStateSwitchLock, mRecording, halVars, app,
                 mZoomLock, mCurrentZoomIdx, mTargetZoomIdx, frame, focusVars,
                 focusOwed, endMsgs>>

(* The queries, useBuffers for a capture, takePicture and                  *)
(* stopImageCapture change nothing else that is modelled here.             *)
CaptureBodies == {"QUERY_RESOLUTION_PREVIEW", "QUERY_BUFFER_SIZE_IMAGE_CAPTURE",
                  "USE_BUFFERS_IMAGE_CAPTURE", "START_IMAGE_CAPTURE",
                  "STOP_IMAGE_CAPTURE"}

CaptureBody(th, ok) ==
  /\ \E op \in CaptureBodies : Body(th, op)
  /\ Result(th, ok)
  /\ UNCHANGED <<stateVars, mLock, mStateSwitchLock, mRecording, halVars, app,
                 mZoomLock, zoomVars, frame, focusVars, focusOwed, endMsgs>>

(* Where the thread goes on after the command returns ok.  The commands of *)
(* a CameraHal call are dropped after a failure, except that startPreview  *)
(* sends STOP_PREVIEW and stopRecording carries on.                        *)
AfterFailure(op) ==
  IF op = "START_PREVIEW" THEN <<"STOP_PREVIEW">>
  ELSE IF app.name = "stopRecording" THEN app.todo
  ELSE <<>>

(* Mutant of AfterCommand: notifies although the command was refused.      *)
AfterAnyCommand(next, ok) ==
  IF next = "focus" THEN [Idle EXCEPT !.pc = "notify"]
  ELSE IF next = "tell" THEN [Idle EXCEPT !.pc = "tell"]
  ELSE Idle

(* Where a thread that reports a focus result goes on: returnFocusStatus   *)
(* notifies only after its own command has succeeded.                      *)
AfterCommand(next, ok) ==
  CASE next = "focus" /\ ok -> [Idle EXCEPT !.pc = "notify"]
    [] next = "tell"        -> [Idle EXCEPT !.pc = "tell"]
    [] OTHER                -> Idle

Resume(th, ok) ==
  /\ call' = [call EXCEPT ![th] = AfterCommand(@.next, ok)]
  /\ app' = IF th = "app"
            THEN [app EXCEPT !.ok = @ /\ ok,
                             !.todo = IF ok THEN @ ELSE AfterFailure(call[th].op),
                             !.step = IF ~ok /\ call[th].op = "START_PREVIEW"
                                      THEN "error" ELSE @]
            ELSE app
  /\ IF call[th].next = "zoom"
     THEN mZoomLock' = NONE /\ frame' = IF th = "omx" THEN "focus" ELSE frame
     ELSE UNCHANGED <<mZoomLock, frame>>

commitState(th) ==
  /\ call[th].pc = "commit"
  /\ mAdapterState' = mNextState
  /\ mLock' = NONE
  /\ Resume(th, TRUE)
  /\ focusOwed' = CASE call[th].op = "PERFORM_AUTOFOCUS" -> focusOwed + 1
                    [] call[th].op = "CANCEL_AUTOFOCUS" /\ call[th].next # "focus"
                         -> focusOwed - 1
                    [] OTHER -> focusOwed
  /\ UNCHANGED <<mNextState, mStateSwitchLock, mRecording, halVars, zoomVars,
                 focusVars, endMsgs>>

(* Mutant of rollbackState: mNextState is not reset.                       *)
rollbackStateKeepsNext(th) ==
  /\ call[th].pc = "rollback"
  /\ mLock' = NONE
  /\ Resume(th, FALSE)
  /\ UNCHANGED <<stateVars, mStateSwitchLock, mRecording, halVars, zoomVars,
                 focusVars, focusOwed, endMsgs>>

rollbackState(th) ==
  /\ call[th].pc = "rollback"
  /\ mNextState' = mAdapterState
  /\ mLock' = NONE
  /\ Resume(th, FALSE)
  /\ UNCHANGED <<mAdapterState, mStateSwitchLock, mRecording, halVars,
                 zoomVars, focusVars, focusOwed, endMsgs>>

-----------------------------------------------------------------------------
(* CameraHal, on the app thread                                            *)

AppCommands(name) ==
  CASE name = "startPreview"    -> <<"QUERY_RESOLUTION_PREVIEW", "USE_BUFFERS_PREVIEW",
                                     "START_PREVIEW">>
    [] name = "startRecording"  -> <<"START_VIDEO">>
    [] name = "stopRecording"   -> IF "CAPTURE" \in mAdapterState
                                   THEN <<"STOP_IMAGE_CAPTURE", "STOP_VIDEO">>
                                   ELSE <<"STOP_VIDEO">>
    [] name = "autoFocus"       -> <<"PERFORM_AUTOFOCUS">>
    [] name = "cancelAutoFocus" -> <<"CANCEL_AUTOFOCUS">>
    [] name = "takePicture"     -> <<"QUERY_BUFFER_SIZE_IMAGE_CAPTURE",
                                     "USE_BUFFERS_IMAGE_CAPTURE", "START_IMAGE_CAPTURE">>
    [] name = "cancelPicture"   -> <<"STOP_IMAGE_CAPTURE">>
    [] name = "startSmoothZoom" -> <<"START_SMOOTH_ZOOM">>
    [] name = "stopSmoothZoom"  -> <<"STOP_SMOOTH_ZOOM">>
    [] OTHER                    -> <<>>

(* What each call returns early on.  stopRecording and takePicture read    *)
(* the state under mLock; takePicture waits for a capture to end.  The     *)
(* preview window is there before startPreview, so mPreviewStartInProgress *)
(* (which previewEnabled() also looks at) stays clear.                     *)
AppMay(name) ==
  CASE name = "startPreview"    -> ~mPreviewEnabled
    [] name \in {"stopPreview", "restartPreview"} -> mPreviewEnabled /\ ~mRecordingEnabled
    [] name = "stopRecording"   -> mRecordingEnabled /\ mLock = NONE
    [] name = "autoFocus"       -> "AF" \notin mAdapterState /\ afQ < MaxFocusMsgs
    [] name = "takePicture"     -> /\ mPreviewEnabled /\ mLock = NONE
                                   /\ "CAPTURE" \notin mAdapterState \cup mNextState
    [] name \in {"startRecording", "startSmoothZoom", "stopSmoothZoom"} -> mPreviewEnabled
    [] OTHER                    -> TRUE

(* Mutant of setParametersZoom: smooth zoom is not looked at.              *)
setParametersZoomAlways(zoom) ==
  /\ mZoomLock = NONE
  /\ mTargetZoomIdx' = zoom
  /\ mCurrentZoomIdx' = zoom
  /\ UNCHANGED <<mZoomInc, mReturnZoomStatus>>

(* Immediate zoom is ignored while smooth zoom is running.                 *)
setParametersZoom(zoom) ==
  /\ mZoomLock = NONE
  /\ IF "ZOOM" \in mAdapterState
     THEN UNCHANGED <<mCurrentZoomIdx, mTargetZoomIdx>>
     ELSE mTargetZoomIdx' = zoom /\ mCurrentZoomIdx' = zoom
  /\ UNCHANGED <<mZoomInc, mReturnZoomStatus>>

(* zoom is the index the application has put into mParameters.             *)
AppBegin(name, zoom) ==
  /\ app.name = NONE
  /\ name \in AppCalls \ {"setParameters", "getParameters"}
  /\ name \in LockedCalls => call["cmd"].pc = "idle"
  /\ AppMay(name)
  /\ IF name \in ParameterCalls THEN setParametersZoom(zoom) ELSE UNCHANGED zoomVars
  /\ app' = [name |-> name, todo |-> AppCommands(name), ok |-> TRUE,
             step |-> IF name \in {"stopPreview", "restartPreview"} THEN "loop" ELSE NONE]
  /\ UNCHANGED <<stateVars, mLock, mStateSwitchLock, mRecording, call, halVars,
                 mZoomLock, frame, focusVars, focusOwed, endMsgs>>

AppSend ==
  /\ app.todo # <<>>
  /\ call["app"].pc = "idle"
  /\ Send("app", Head(app.todo), NONE)
  /\ app' = [app EXCEPT !.todo = Tail(@)]
  /\ UNCHANGED <<stateVars, mLock, mStateSwitchLock, mRecording, halVars,
                 mZoomLock, zoomVars, frame, focusVars, focusOwed, endMsgs>>

(* Allocating buffers, the callback notifier or the display fails between  *)
(* two commands.  startPreview cleans up with a STOP_PREVIEW.              *)
AppError ==
  /\ call["app"].pc = "idle"
  /\ \/ /\ app.name = "startPreview"
        /\ app.todo \in {<<"START_PREVIEW">>, <<"USE_BUFFERS_PREVIEW", "START_PREVIEW">>}
        /\ app' = [app EXCEPT !.todo = <<"STOP_PREVIEW">>, !.ok = FALSE, !.step = "error"]
     \/ /\ app.name = "startRecording"
        /\ app.todo = <<"START_VIDEO">>
        /\ app' = [app EXCEPT !.todo = <<>>, !.ok = FALSE]
     \/ /\ app.name = "takePicture"
        /\ app.todo = <<"USE_BUFFERS_IMAGE_CAPTURE", "START_IMAGE_CAPTURE">>
        /\ app' = AppIdle
  /\ UNCHANGED <<stateVars, mLock, mStateSwitchLock, mRecording, call, halVars,
                 mZoomLock, zoomVars, frame, focusVars, focusOwed, endMsgs>>

(* rollbackToInitializedState, or in stopPreview after takePicture         *)
(* rollbackToPreviewState.                                                 *)
RolledBack ==
  IF app.name = "stopPreview" /\ mAfterTakePicture
  THEN ~AbovePreview(mAdapterState)
  ELSE mAdapterState = INTIALIZED_STATE

(* Mutant of RollbackLoop: the result of the last command is not looked at. *)
RollbackLoopForEver ==
  /\ app.step = "loop"
  /\ call["app"].pc = "idle"
  /\ mLock = NONE
  /\ app' = [app EXCEPT !.step = IF RolledBack THEN NONE ELSE "previous"]
  /\ UNCHANGED <<stateVars, mLock, mStateSwitchLock, mRecording, call, halVars,
                 mZoomLock, zoomVars, frame, focusVars, focusOwed, endMsgs>>

RollbackLoop ==
  /\ app.step = "loop"
  /\ call["app"].pc = "idle"
  /\ mLock = NONE
  /\ app' = [app EXCEPT !.step = IF RolledBack \/ ~app.ok THEN NONE ELSE "previous"]
  /\ UNCHANGED <<stateVars, mLock, mStateSwitchLock, mRecording, call, halVars,
                 mZoomLock, zoomVars, frame, focusVars, focusOwed, endMsgs>>

(* rollbackToPreviousState reads the state again.                          *)
rollbackToPreviousState ==
  /\ app.step = "previous"
  /\ call["app"].pc = "idle"
  /\ mLock = NONE
  /\ LET ops == RollbackCommands(mAdapterState)
     IN IF ops # {}
        THEN \E op \in ops : Send("app", op, NONE) /\ app' = [app EXCEPT !.step = "loop"]
        ELSE /\ app' = [app EXCEPT !.step = "loop",
                                   !.ok = mAdapterState = INTIALIZED_STATE]
             /\ UNCHANGED call
  /\ UNCHANGED <<stateVars, mLock, mStateSwitchLock, mRecording, halVars,
                 mZoomLock, zoomVars, frame, focusVars, focusOwed, endMsgs>>

(* The call returns.  forceStopPreview ignores the result of the rollback. *)
AppReturn ==
  /\ app.name \notin {NONE, "restartPreview"}
  /\ app.todo = <<>>
  /\ app.step \in {NONE, "error"}
  /\ call["app"].pc = "idle"
  /\ app' = AppIdle
  /\ mPreviewEnabled' =
       CASE app.name = "startPreview" -> app.ok
         [] app.name = "stopPreview"  -> mAfterTakePicture
         [] OTHER                     -> mPreviewEnabled
  /\ mRecordingEnabled' =
       CASE app.name = "startRecording" -> mRecordingEnabled \/ app.ok
         [] app.name = "stopRecording"  -> FALSE
         [] OTHER                       -> mRecordingEnabled
  /\ mAfterTakePicture' =
       CASE app.name = "takePicture" -> TRUE
         [] app.name \in {"stopPreview", "startRecording", "stopRecording", "cancelPicture"}
              -> FALSE
         [] app.name = "startPreview" -> mAfterTakePicture /\ app.step # "error"
         [] OTHER -> mAfterTakePicture
  /\ UNCHANGED <<stateVars, mLock, mStateSwitchLock, mRecording, call,
                 mZoomLock, zoomVars, frame, focusVars, focusOwed, endMsgs>>

(* forceStopPreview has ended, whatever became of the rollback:            *)
(* restartPreview starts the preview again.                                *)
restartPreview(zoom) ==
  /\ app.name = "restartPreview"
  /\ app.step = NONE
  /\ call["app"].pc = "idle"
  /\ call["cmd"].pc = "idle"
  /\ setParametersZoom(zoom)
  /\ mPreviewEnabled' = FALSE
  /\ app' = [name |-> "startPreview", todo |-> AppCommands("startPreview"),
             ok |-> TRUE, step |-> NONE]
  /\ UNCHANGED <<stateVars, mLock, mStateSwitchLock, mRecording, call,
                 mRecordingEnabled, mAfterTakePicture, mZoomLock, frame,
                 focusVars, focusOwed, endMsgs>>

(* Under CameraHal::mLock.                                                 *)
setParameters(zoom) ==
  /\ "setParameters" \in AppCalls
  /\ app.name = NONE
  /\ call["cmd"].pc = "idle"
  /\ setParametersZoom(zoom)
  /\ UNCHANGED <<stateVars, mLock, mStateSwitchLock, mRecording, call, halVars,
                 app, mZoomLock, frame, focusVars, focusOwed, endMsgs>>

(* getParameters ends a smooth zoom that has arrived, as advanceZoom does. *)
(* Whether mZoomParameterIdx has caught up is left open.                   *)
getParameters ==
  /\ "getParameters" \in AppCalls
  /\ app.name = NONE
  /\ call["app"].pc = "idle"
  /\ mZoomLock = NONE
  /\ "ZOOM" \in mAdapterState
  /\ mCurrentZoomIdx = mTargetZoomIdx
  /\ mZoomLock' = "app"
  /\ Send("app", "STOP_SMOOTH_ZOOM", "zoom")
  /\ app' = [AppIdle EXCEPT !.name = "getParameters"]
  /\ UNCHANGED <<stateVars, mLock, mStateSwitchLock, mRecording, halVars,
                 zoomVars, frame, focusVars, focusOwed, endMsgs>>

-----------------------------------------------------------------------------
(* CommandHandler: the end of an image capture                             *)

endImageCallback ==
  /\ "CAPTURE" \in mAdapterState
  /\ endMsgs < MaxEndMsgs
  /\ endMsgs' = endMsgs + 1
  /\ UNCHANGED <<stateVars, mLock, mStateSwitchLock, mRecording, call, halVars,
                 app, mZoomLock, zoomVars, frame, focusVars, focusOwed>>

(* Runs under CameraHal::mLock.                                            *)
signalEndImageCapture ==
  /\ endMsgs > 0
  /\ call["cmd"].pc = "idle"
  /\ app.name \notin LockedCalls
  /\ endMsgs' = endMsgs - 1
  /\ Send("cmd", "STOP_IMAGE_CAPTURE", NONE)
  /\ UNCHANGED <<stateVars, mLock, mStateSwitchLock, mRecording, halVars, app,
                 mZoomLock, zoomVars, frame, focusVars, focusOwed>>

-----------------------------------------------------------------------------
(* OMXCallbackHandler: one preview frame                                   *)

(* The component has buffers from the end of startPreview on.              *)
FillBufferDone ==
  /\ frame = "idle"
  /\ call["omx"].pc = "idle"
  /\ \/ "PREVIEW" \in mAdapterState
     \/ call["app"].op = "START_PREVIEW" /\ call["app"].pc = "commit"
  /\ "PREVIEW" \in mAdapterState \cup mNextState
  /\ frame' = "zoom"
  /\ UNCHANGED <<stateVars, mLock, mStateSwitchLock, mRecording, call, halVars,
                 app, mZoomLock, zoomVars, focusVars, focusOwed, endMsgs>>

(* The zoom index advanceZoom moves to, when it has somewhere to go.       *)
ZoomStep ==
  IF mReturnZoomStatus THEN mCurrentZoomIdx + mZoomInc
  ELSE IF "ZOOM" \in mAdapterState /\ mCurrentZoomIdx # mTargetZoomIdx
  THEN mCurrentZoomIdx + Towards(mCurrentZoomIdx, mTargetZoomIdx)
  ELSE mTargetZoomIdx

(* Smooth zoom has arrived: STOP_SMOOTH_ZOOM without the command's method, *)
(* unless doZoom has just refused the index.                               *)
ZoomArrived ==
  /\ ~mReturnZoomStatus
  /\ "ZOOM" \in mAdapterState
  /\ ZoomStep = mTargetZoomIdx
  /\ mCurrentZoomIdx # mTargetZoomIdx => ZoomStep \in ZoomIdx

(* mZoomLock is held until the state has been committed.                   *)
advanceZoom ==
  /\ frame = "zoom"
  /\ call["omx"].pc = "idle"
  /\ mZoomLock = NONE
  /\ mCurrentZoomIdx' = ZoomStep
  /\ mTargetZoomIdx' = IF mReturnZoomStatus THEN ZoomStep ELSE mTargetZoomIdx
  /\ mZoomInc' = IF /\ ~mReturnZoomStatus /\ "ZOOM" \in mAdapterState
                    /\ mCurrentZoomIdx # mTargetZoomIdx
                 THEN Towards(mCurrentZoomIdx, mTargetZoomIdx) ELSE mZoomInc
  /\ mReturnZoomStatus' = FALSE
  /\ IF ZoomArrived
     THEN Send("omx", "STOP_SMOOTH_ZOOM", "zoom") /\ mZoomLock' = "omx" /\ UNCHANGED frame
     ELSE frame' = "focus" /\ UNCHANGED <<call, mZoomLock>>
  /\ UNCHANGED <<stateVars, mLock, mStateSwitchLock, mRecording, halVars, app,
                 focusVars, focusOwed, endMsgs>>

(* The focus is still moving, or nobody waits for it.                      *)
FocusPending ==
  /\ frame = "focus"
  /\ call["omx"].pc = "idle"
  /\ frame' = "idle"
  /\ UNCHANGED <<stateVars, mLock, mStateSwitchLock, mRecording, call, halVars,
                 app, mZoomLock, zoomVars, focusVars, focusOwed, endMsgs>>

(* Success or failure: wake doAutoFocus and report.                        *)
checkFocusStatus ==
  /\ frame = "focus"
  /\ call["omx"].pc = "idle"
  /\ "AF" \in mAdapterState
  /\ mCheckAF
  /\ stopAutoFocus
  /\ frame' = "idle"
  /\ call' = [call EXCEPT !["omx"].pc = "status"]
  /\ UNCHANGED <<stateVars, mLock, mStateSwitchLock, mRecording, halVars, app,
                 mZoomLock, zoomVars, focusOwed, endMsgs>>

-----------------------------------------------------------------------------
(* Reporting a focus result, on the omx or the af thread                   *)

(* The states are read without mLock.                                      *)
returnFocusStatus(th) ==
  /\ call[th].pc = "status"
  /\ IF "AF" \in mAdapterState \cup mNextState
     THEN Send(th, "CANCEL_AUTOFOCUS", "focus")
     ELSE call' = [call EXCEPT ![th] = Idle]
  /\ UNCHANGED <<stateVars, mLock, mStateSwitchLock, mRecording, halVars, app,
                 mZoomLock, zoomVars, frame, focusVars, focusOwed, endMsgs>>

(* Before the callbacks an autofocus that is active is cancelled.          *)
notifyFocusSubscribers(th) ==
  /\ call[th].pc = "notify"
  /\ mLock = NONE
  /\ IF "AF" \in mAdapterState
     THEN Send(th, "CANCEL_AUTOFOCUS", "tell")
     ELSE call' = [call EXCEPT ![th].pc = "tell"]
  /\ UNCHANGED <<stateVars, mLock, mStateSwitchLock, mRecording, halVars, app,
                 mZoomLock, zoomVars, frame, focusVars, focusOwed, endMsgs>>

FocusCallback(th) ==
  /\ call[th].pc = "tell"
  /\ call' = [call EXCEPT ![th] = Idle]
  /\ focusOwed' = focusOwed - 1
  /\ UNCHANGED <<stateVars, mLock, mStateSwitchLock, mRecording, halVars, app,
                 mZoomLock, zoomVars, frame, focusVars, endMsgs>>

-----------------------------------------------------------------------------
(* AFHandler in doAutoFocus                                                *)

AfGet ==
  /\ afPc = "idle"
  /\ call["af"].pc = "idle"
  /\ afQ > 0
  /\ afQ' = afQ - 1
  /\ afPc' = "check"
  /\ UNCHANGED <<stateVars, mLock, mStateSwitchLock, mRecording, call, halVars,
                 app, mZoomLock, zoomVars, frame, mCheckAF, focusOwed, endMsgs>>

(* Focus is fixed or off, or the component is not executing: report at     *)
(* once.                                                                   *)
AfImmediate ==
  /\ afPc \in {"check", "arm"}
  /\ call["af"].pc = "idle"
  /\ afPc' = "idle"
  /\ call' = [call EXCEPT !["af"].pc = "status"]
  /\ UNCHANGED <<stateVars, mLock, mStateSwitchLock, mRecording, halVars, app,
                 mZoomLock, zoomVars, frame, mCheckAF, afQ, focusOwed, endMsgs>>

(* "Auto focus got canceled before doAutoFocus could be called"            *)
AfCheck ==
  /\ afPc = "check"
  /\ mLock = NONE
  /\ afPc' = IF "AF" \in mAdapterState \cup mNextState THEN "arm" ELSE "idle"
  /\ UNCHANGED <<stateVars, mLock, mStateSwitchLock, mRecording, call, halVars,
                 app, mZoomLock, zoomVars, frame, mCheckAF, afQ, focusOwed, endMsgs>>

AfArm ==
  /\ afPc = "arm"
  /\ mCheckAF' = TRUE
  /\ afPc' = "wait"
  /\ UNCHANGED <<stateVars, mLock, mStateSwitchLock, mRecording, call, halVars,
                 app, mZoomLock, zoomVars, frame, afQ, focusOwed, endMsgs>>

(* Mutant of AfTimeout: the timeout is not reported.                       *)
AfTimeoutSilent ==
  /\ afPc = "wait"
  /\ afPc' = "idle"
  /\ UNCHANGED <<stateVars, mLock, mStateSwitchLock, mRecording, call, halVars,
                 app, mZoomLock, zoomVars, frame, mCheckAF, afQ, focusOwed, endMsgs>>

(* waitRelative times out; mCheckAF stays set.                             *)
AfTimeout ==
  /\ afPc = "wait"
  /\ call["af"].pc = "idle"
  /\ afPc' = "idle"
  /\ call' = [call EXCEPT !["af"].pc = "status"]
  /\ UNCHANGED <<stateVars, mLock, mStateSwitchLock, mRecording, halVars, app,
                 mZoomLock, zoomVars, frame, mCheckAF, afQ, focusOwed, endMsgs>>

-----------------------------------------------------------------------------
Method(th) ==
  \/ \E ok \in BOOLEAN :
       \/ UseBuffersPreview(th, ok) \/ startPreview(th, ok) \/ stopPreview(th, ok)
       \/ cancelAutoFocus(th, ok) \/ CaptureBody(th, ok)
  \/ startVideoCapture(th) \/ stopVideoCapture(th)
  \/ autoFocus(th) \/ stopSmoothZoom(th)
  \/ \E targetIdx \in 0..ZOOM_STAGES : startSmoothZoom(th, targetIdx)

Command(th) == setState(th) \/ Method(th) \/ commitState(th) \/ rollbackState(th)

Report(th) == returnFocusStatus(th) \/ notifyFocusSubscribers(th) \/ FocusCallback(th)

AppCall ==
  \/ AppSend \/ AppError \/ RollbackLoop \/ rollbackToPreviousState \/ AppReturn
  \/ \E zoom \in ZoomIdx : restartPreview(zoom)

PreviewFrame == FillBufferDone \/ advanceZoom \/ FocusPending \/ checkFocusStatus

doAutoFocus == AfGet \/ AfImmediate \/ AfCheck \/ AfArm \/ AfTimeout

Next ==
  \/ \E th \in Threads : Command(th)
  \/ \E th \in {"omx", "af"} : Report(th)
  \/ \E name \in HalCalls, zoom \in ZoomIdx : AppBegin(name, zoom)
  \/ AppCall
  \/ \E zoom \in ZoomIdx : setParameters(zoom)
  \/ getParameters
  \/ endImageCallback \/ signalEndImageCapture
  \/ PreviewFrame
  \/ doAutoFocus

Spec == Init /\ [][Next]_vars

(***************************************************************************)
(* Fairness, one condition for each thread: inside a call it keeps         *)
(* running and obtains in the end a mutex that is free again and again;    *)
(* the wait in doAutoFocus times out and the queues are served.  The       *)
(* application need not call anything, and no frame need arrive.           *)
(***************************************************************************)
Fairness ==
  /\ SF_vars(Command("app") \/ AppCall)
  /\ SF_vars(Command("omx") \/ Report("omx") \/ advanceZoom \/ FocusPending \/ checkFocusStatus)
  /\ SF_vars(Command("af") \/ Report("af") \/ doAutoFocus)
  /\ SF_vars(Command("cmd") \/ signalEndImageCapture)

FairSpec == Spec /\ Fairness
-----------------------------------------------------------------------------
(***************************************************************************)
(* Properties                                                              *)
(***************************************************************************)

(* A command sent under mZoomLock is always the end of a smooth zoom.      *)
Call == {c \in [pc : {"idle", "set", "body", "commit", "rollback", "status", "notify", "tell"},
                op : CameraCommands \cup {NONE},
                next : {NONE, "focus", "tell", "zoom"}] :
           c.next = "zoom" => c.op = "STOP_SMOOTH_ZOOM"}
CallOfApp == [name : HalCalls \cup {NONE}, todo : Seq(CameraCommands),
              ok : BOOLEAN, step : {NONE, "loop", "previous", "error"}]

(* Every variable keeps its type; in particular every state that setState  *)
(* chooses is one of the named states with its overlays.                   *)
TypeOK ==
  /\ mAdapterState \in AdapterStates
  /\ mNextState \in AdapterStates
  /\ mLock \in Threads \cup {NONE}
  /\ mStateSwitchLock \in BOOLEAN
  /\ mRecording \in BOOLEAN
  /\ call \in [Threads -> Call]
  /\ mPreviewEnabled \in BOOLEAN
  /\ mRecordingEnabled \in BOOLEAN
  /\ mAfterTakePicture \in BOOLEAN
  /\ app \in CallOfApp
  /\ mZoomLock \in {NONE, "omx", "app"}
  /\ mCurrentZoomIdx \in Int
  /\ mTargetZoomIdx \in Int
  /\ mZoomInc \in {1, -1}
  /\ mReturnZoomStatus \in BOOLEAN
  /\ frame \in {"idle", "zoom", "focus"}
  /\ mCheckAF \in BOOLEAN
  /\ afQ \in Nat
  /\ afPc \in {"idle", "check", "arm", "wait"}
  /\ focusOwed \in Int
  /\ endMsgs \in Nat

(* Whoever obtains mLock finds no transition half done: outside a command  *)
(* mNextState is mAdapterState, whatever mix of commits, rollbacks and     *)
(* refused commands went before.  FillBufferDone and returnFocusStatus,    *)
(* which look at both without the lock, rely on it.                        *)
Settled ==
  mLock = NONE /\ mAdapterState # INTIALIZED_STATE => mNextState = mAdapterState

(* FillBufferDone adds VIDEO_FRAME_SYNC by mRecording and CameraHal goes   *)
(* by VIDEO_ACTIVE: outside a command they agree, whichever of the two     *)
(* refused a START_VIDEO or STOP_VIDEO.                                    *)
RecordingMatchesState == mLock = NONE => (mRecording <=> "VIDEO" \in mAdapterState)

(* The command of the thread that owns mLock.                              *)
InProgress == IF mLock = NONE THEN NONE ELSE call[mLock].op

Commands == INSTANCE AdapterCommands WITH state <- mAdapterState, command <- InProgress

(* The adapter implements AdapterCommands.  setState chooses a transition, *)
(* commitState makes it some steps later, and a refused USE_BUFFERS        *)
(* commits whatever mNextState holds: still every change of the state is   *)
(* the transition that the running command has in the state it replaces.   *)
CommandsAtomic == Commands!Spec

(* The threads that have taken over an autofocus run to report it.         *)
Reporting ==
  {th \in Threads : call[th].pc \in {"notify", "tell"} \/ call[th].next = "tell"}

(* A focus run is reported at most once, and never after the application   *)
(* has cancelled it: the timeout in doAutoFocus, checkFocusStatus and      *)
(* CANCEL_AUTOFOCUS may all race, but only one of them takes the run over. *)
FocusToldOnce ==
  focusOwed = Cardinality(Reporting) + (IF "AF" \in mAdapterState THEN 1 ELSE 0)

Distance == IF mCurrentZoomIdx < mTargetZoomIdx THEN mTargetZoomIdx - mCurrentZoomIdx
            ELSE mCurrentZoomIdx - mTargetZoomIdx

(* "Immediate zoom should not be avaialable while smooth zoom is running"  *)
(* (OMXZoom.cpp): a smooth zoom keeps its target and no step leads away    *)
(* from it, until stopSmoothZoom has asked advanceZoom to give it up.      *)
ZoomHeadsForTarget ==
  [][ "ZOOM" \in mAdapterState \cap mAdapterState' /\ ~mReturnZoomStatus
        => mTargetZoomIdx' = mTargetZoomIdx /\ Distance' <= Distance ]_vars

(* A command always gets to its commitState or rollbackState.              *)
EverySetStateCommits == mLock # NONE ~> mLock = NONE

(* Somebody is going to end an autofocus run: AFHandler has its message or *)
(* is in doAutoFocus, a result is about to be reported, or a               *)
(* CANCEL_AUTOFOCUS is under way.                                          *)
FocusInHand ==
  \/ afQ > 0 \/ afPc # "idle"
  \/ \E th \in Threads : call[th].pc = "status" \/ call[th].op = "CANCEL_AUTOFOCUS"

FocusActive == "AF" \in mAdapterState

(* setFocusMode has failed, so CANCEL_AUTOFOCUS is rolled back.            *)
CancelFails ==
  \E th \in Threads : call[th].pc = "rollback" /\ call[th].op = "CANCEL_AUTOFOCUS"

(* An autofocus run comes to an end, whether its message is served at      *)
(* once, after a cancelled one, or the focus never settles.  Only a        *)
(* CANCEL_AUTOFOCUS that fails can leave the run active with nobody to end *)
(* it: doAutoFocus has been woken or has timed out by then, and            *)
(* returnFocusStatus tells nobody.                                         *)
AutoFocusEnds ==
  /\ FocusActive /\ FocusInHand ~> ~FocusActive \/ CancelFails
  /\ [][ FocusActive' /\ ~FocusInHand' =>
            CancelFails \/ (FocusActive /\ ~FocusInHand) ]_vars

(* Every CameraHal call returns; the rollback loops terminate.             *)
CallsReturn == app.name # NONE ~> app.name = NONE

(* previewEnabled() tells, between calls, whether the preview is running.  *)
PreviewEnabledTells ==
  app.name = NONE => (mPreviewEnabled <=> "PREVIEW" \in mAdapterState)

(* A smooth zoom overshoots the table of zoom steps by one index at most:  *)
(* advanceZoom adds the step stopSmoothZoom has left behind to an index    *)
(* setParameters may meanwhile have moved to either end, and doZoom        *)
(* refuses the result; whatever zoom is started or stopped next leads      *)
(* back to the table.                                                      *)
ZoomOvershootsByOne == mCurrentZoomIdx \in -1 .. ZOOM_STAGES
=============================================================================
