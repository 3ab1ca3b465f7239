----------------------- MODULE BaseCameraAdapterProofs -----------------------
(***************************************************************************)
(* The command protocol for any set of calls, failures and zoom stages.    *)
(***************************************************************************)
EXTENDS BaseCameraAdapter, TLAPS

(* Exactly the owner of mLock is between setState and commitState or       *)
(* rollbackState.                                                          *)
LockHeld == \A th \in Threads : call[th].pc \in {"body", "commit", "rollback"} <=> mLock = th

Video(s) == "VIDEO" \in s

(* What setState has chosen for the command on thread th.                  *)
VideoChosen(th) ==
  CASE call[th].op = "START_VIDEO" -> ~Video(mAdapterState) /\ Video(mNextState)
    [] call[th].op = "STOP_VIDEO"  -> Video(mAdapterState) /\ ~Video(mNextState)
    [] OTHER -> Video(mNextState) <=> Video(mAdapterState)

(* mRecording follows the state that will be in force when mLock is        *)
(* released.                                                               *)
RecordingInv ==
  /\ mLock = NONE => /\ mRecording <=> Video(mAdapterState)
                     /\ Video(mNextState) <=> Video(mAdapterState)
  /\ \A th \in Threads :
       /\ call[th].pc = "body" => /\ mRecording <=> Video(mAdapterState)
                                  /\ VideoChosen(th)
       /\ call[th].pc = "commit"   => (mRecording <=> Video(mNextState))
       /\ call[th].pc = "rollback" => (mRecording <=> Video(mAdapterState))

AdapterInv == TypeOK /\ LockHeld /\ Settled /\ RecordingInv

-----------------------------------------------------------------------------
(* The transition table.                                                   *)

NamedStates == {INTIALIZED_STATE, LOADED_PREVIEW_STATE} \cup PreviewStates

(* A switch from a preview state leads to a preview state, STOP_PREVIEW    *)
(* excepted; only START_VIDEO and STOP_VIDEO touch VIDEO_ACTIVE.           *)
LEMMA SwitchKinds ==
  ASSUME NEW e \in ModeSwitch
  PROVE  /\ e[3] \in NamedStates
         /\ "PREVIEW" \in e[1] =>
              \/ e[3] \in PreviewStates
              \/ e = <<PREVIEW_STATE, "STOP_PREVIEW", INTIALIZED_STATE>>
  BY DEF ModeSwitch, NamedStates, PreviewStates, INTIALIZED_STATE, LOADED_PREVIEW_STATE,
         PREVIEW_STATE, LOADED_CAPTURE_STATE, CAPTURE_STATE, VIDEO_STATE,
         VIDEO_LOADED_CAPTURE_STATE, VIDEO_CAPTURE_STATE

LEMMA SwitchVideo ==
  ASSUME NEW e \in ModeSwitch
  PROVE  /\ e[2] = "START_VIDEO" => ~Video(e[1]) /\ Video(e[3])
         /\ e[2] = "STOP_VIDEO"  => Video(e[1]) /\ ~Video(e[3])
         /\ e[2] \notin {"START_VIDEO", "STOP_VIDEO"} => (Video(e[1]) <=> Video(e[3]))
  BY DEF Video, ModeSwitch, INTIALIZED_STATE, LOADED_PREVIEW_STATE,
         PREVIEW_STATE, LOADED_CAPTURE_STATE, CAPTURE_STATE, VIDEO_STATE,
         VIDEO_LOADED_CAPTURE_STATE, VIDEO_CAPTURE_STATE

LEMMA OverlaidState ==
  ASSUME NEW m \in PreviewStates, NEW f \in SUBSET Overlays
  PROVE  m \cup f \in AdapterStates
  BY DEF AdapterStates, WithOverlays

(* setState chooses one of the states the enumeration has, overlays        *)
(* included.                                                               *)
LEMMA NextStatesTyped ==
  ASSUME NEW s \in AdapterStates, NEW op, NEW n \in NextStates(s, op)
  PROVE  n \in AdapterStates
<1>1. s \in {INTIALIZED_STATE, LOADED_PREVIEW_STATE}
        \/ \E m \in PreviewStates, f \in SUBSET Overlays : s = m \cup f
  BY DEF AdapterStates, WithOverlays
<1>2. CASE ModeNext(s, op) # {}
  <2>1. n \in ModeNext(s, op)
    BY <1>2 DEF NextStates
  <2>2. PICK e \in ModeSwitch :
          /\ e[1] = s \ Overlays
          /\ e = <<PREVIEW_STATE, "STOP_PREVIEW", INTIALIZED_STATE>> => s \cap Overlays = {}
          /\ n = e[3] \cup (IF "PREVIEW" \in s THEN s \cap Overlays ELSE {})
    BY <2>1 DEF ModeNext
  <2>3. CASE "PREVIEW" \in s
    <3>1. "PREVIEW" \in e[1]
      BY <2>2, <2>3 DEF Overlays
    <3>2. CASE e[3] \in PreviewStates
      <4>1. n = e[3] \cup (s \cap Overlays) /\ s \cap Overlays \in SUBSET Overlays
        BY <2>2, <2>3
      <4> QED BY <3>2, <4>1, OverlaidState
    <3>3. CASE e = <<PREVIEW_STATE, "STOP_PREVIEW", INTIALIZED_STATE>>
      BY <2>2, <2>3, <3>3 DEF AdapterStates
    <3> QED BY <3>1, <3>2, <3>3, SwitchKinds
  <2>4. CASE "PREVIEW" \notin s
    <3>1. n = e[3]
      BY <2>2, <2>4
    <3>2. n \in {INTIALIZED_STATE, LOADED_PREVIEW_STATE} \/ n \in PreviewStates
      BY <3>1, SwitchKinds DEF NamedStates
    <3>3. n = n \cup {} /\ {} \in SUBSET Overlays
      OBVIOUS
    <3>4. CASE n \in PreviewStates
      BY <3>3, <3>4, OverlaidState
    <3> QED BY <3>2, <3>4 DEF AdapterStates
  <2> QED BY <2>3, <2>4
<1>3. CASE ModeNext(s, op) = {}
  <2>1. n \in OverlayNext(s, op)
    BY <1>3 DEF NextStates
  <2>2. /\ "PREVIEW" \in s
        /\ n \in {s \ {"AF"}, s \cup {"AF"}, s \ {"ZOOM"}, s \cup {"ZOOM"}}
    BY <2>1 DEF OverlayNext
  <2>3. PICK m \in PreviewStates, f \in SUBSET Overlays : s = m \cup f
    BY <1>1, <2>2 DEF INTIALIZED_STATE, LOADED_PREVIEW_STATE
  <2>4. m \cap Overlays = {}
    BY DEF PreviewStates, Overlays, PREVIEW_STATE, LOADED_CAPTURE_STATE, CAPTURE_STATE,
           VIDEO_STATE, VIDEO_LOADED_CAPTURE_STATE, VIDEO_CAPTURE_STATE, INTIALIZED_STATE
  <2>5. \E g \in SUBSET Overlays : n = m \cup g
    <3>1. CASE n = s \ {"AF"}
      <4>1. n = m \cup (f \ {"AF"})
        BY <2>3, <2>4, <3>1 DEF Overlays
      <4> QED BY <4>1
    <3>2. CASE n = s \ {"ZOOM"}
      <4>1. n = m \cup (f \ {"ZOOM"})
        BY <2>3, <2>4, <3>2 DEF Overlays
      <4> QED BY <4>1
    <3>3. CASE n = s \cup {"AF"}
      <4>1. n = m \cup (f \cup {"AF"}) /\ f \cup {"AF"} \in SUBSET Overlays
        BY <2>3, <3>3 DEF Overlays
      <4> QED BY <4>1
    <3>4. CASE n = s \cup {"ZOOM"}
      <4>1. n = m \cup (f \cup {"ZOOM"}) /\ f \cup {"ZOOM"} \in SUBSET Overlays
        BY <2>3, <3>4 DEF Overlays
      <4> QED BY <4>1
    <3> QED BY <2>2, <3>1, <3>2, <3>3, <3>4
  <2> QED BY <2>5, OverlaidState
<1> QED BY <1>2, <1>3

(* What a transition does to VIDEO_ACTIVE.                                 *)
LEMMA NextStatesVideo ==
  ASSUME NEW s, NEW op, NEW n \in NextStates(s, op)
  PROVE  /\ op = "START_VIDEO" => ~Video(s) /\ Video(n)
         /\ op = "STOP_VIDEO"  => Video(s) /\ ~Video(n)
         /\ op \notin {"START_VIDEO", "STOP_VIDEO"} => (Video(n) <=> Video(s))
<1>1. CASE ModeNext(s, op) # {}
  <2>1. PICK e \in ModeSwitch :
          /\ e[1] = s \ Overlays
          /\ e[2] = op
          /\ n = e[3] \cup (IF "PREVIEW" \in s THEN s \cap Overlays ELSE {})
    BY <1>1 DEF ModeNext, NextStates
  <2>2. (Video(s) <=> Video(e[1])) /\ (Video(n) <=> Video(e[3]))
    BY <2>1 DEF Video, Overlays
  <2> QED BY <2>1, <2>2, SwitchVideo
<1>2. CASE ModeNext(s, op) = {}
  BY <1>2 DEF NextStates, OverlayNext, Video
<1> QED BY <1>1, <1>2

LEMMA RollbackCommandsTyped ==
  ASSUME NEW s, NEW op \in RollbackCommands(s)
  PROVE  op \in CameraCommands
  BY DEF RollbackCommands, CameraCommands

-----------------------------------------------------------------------------
(* TypeOK is inductive by itself.                                          *)

LEMMA CommandSeqs ==
  /\ <<>> \in Seq(CameraCommands)
  /\ \A a \in CameraCommands : <<a>> \in Seq(CameraCommands)
  /\ \A a, b \in CameraCommands : <<a, b>> \in Seq(CameraCommands)
  /\ \A a, b, c \in CameraCommands : <<a, b, c>> \in Seq(CameraCommands)
  OBVIOUS

LEMMA AppCommandsTyped == ASSUME NEW name PROVE AppCommands(name) \in Seq(CameraCommands)
<1>1. /\ {"QUERY_RESOLUTION_PREVIEW", "USE_BUFFERS_PREVIEW", "START_PREVIEW", "START_VIDEO",
          "STOP_IMAGE_CAPTURE", "STOP_VIDEO", "PERFORM_AUTOFOCUS", "CANCEL_AUTOFOCUS",
          "QUERY_BUFFER_SIZE_IMAGE_CAPTURE", "USE_BUFFERS_IMAGE_CAPTURE",
          "START_IMAGE_CAPTURE", "START_SMOOTH_ZOOM", "STOP_SMOOTH_ZOOM"}
           \subseteq CameraCommands
  BY DEF CameraCommands
<1> QED BY <1>1, CommandSeqs DEF AppCommands

LEMMA AfterFailureTyped ==
  ASSUME NEW op, app.todo \in Seq(CameraCommands)
  PROVE  AfterFailure(op) \in Seq(CameraCommands)
<1>1. "STOP_PREVIEW" \in CameraCommands
  BY DEF CameraCommands
<1> QED BY <1>1, CommandSeqs DEF AfterFailure

LEMMA AfterCommandTyped ==
  ASSUME NEW next, NEW ok
  PROVE  AfterCommand(next, ok) \in Call /\ AfterCommand(next, ok).pc \in {"idle", "notify", "tell"}
  BY DEF AfterCommand, Idle, Call, NONE

LEMMA InitialStates == {INTIALIZED_STATE, PREVIEW_STATE} \subseteq AdapterStates
<1>1. INTIALIZED_STATE \in AdapterStates
  BY DEF AdapterStates
<1>2. PREVIEW_STATE \in PreviewStates /\ {} \in SUBSET Overlays
  BY DEF PreviewStates
<1>3. PREVIEW_STATE \cup {} = PREVIEW_STATE
  OBVIOUS
<1> QED BY <1>1, <1>2, <1>3, OverlaidState

LEMMA IdleTyped == Idle \in Call /\ AppIdle \in CallOfApp
  BY CommandSeqs DEF Idle, Call, AppIdle, CallOfApp, NONE

LEMMA InitTypeOK == Init => TypeOK
<1> SUFFICES ASSUME Init PROVE TypeOK
  OBVIOUS
<1>1. mAdapterState \in AdapterStates /\ mNextState \in AdapterStates
  BY InitialStates DEF Init
<1>2. call \in [Threads -> Call] /\ app \in CallOfApp
  BY IdleTyped DEF Init
<1>3. mLock \in Threads \cup {NONE} /\ mZoomLock \in {NONE, "omx", "app"}
  BY DEF Init
<1>4. /\ mCurrentZoomIdx \in Int /\ mTargetZoomIdx \in Int /\ mZoomInc \in {1, -1}
      /\ afQ \in Nat /\ focusOwed \in Int /\ endMsgs \in Nat
  BY DEF Init
<1>5. /\ mStateSwitchLock \in BOOLEAN /\ mRecording \in BOOLEAN /\ mPreviewEnabled \in BOOLEAN
      /\ mRecordingEnabled \in BOOLEAN /\ mAfterTakePicture \in BOOLEAN
      /\ mReturnZoomStatus \in BOOLEAN /\ mCheckAF \in BOOLEAN
  BY DEF Init
<1>6. frame \in {"idle", "zoom", "focus"} /\ afPc \in {"idle", "check", "arm", "wait"}
  BY DEF Init
<1> QED BY <1>1, <1>2, <1>3, <1>4, <1>5, <1>6 DEF TypeOK

(* A command, a report and a call are typed one after the other.           *)
LEMMA SendTyped ==
  ASSUME call \in [Threads -> Call], NEW th \in Threads, NEW op \in CameraCommands,
         NEW next \in {NONE, "focus", "tell", "zoom"},
         next = "zoom" => op = "STOP_SMOOTH_ZOOM", Send(th, op, next)
  PROVE  /\ call' \in [Threads -> Call]
         /\ call'[th].pc = "set"
         /\ \A o \in Threads \ {th} : call'[o] = call[o]
  BY DEF Send, Call

LEMMA NextTypeOK == TypeOK /\ [Next]_vars => TypeOK'
<1> SUFFICES ASSUME TypeOK, [Next]_vars PROVE TypeOK'
  OBVIOUS
<1> USE DEF TypeOK, stateVars, halVars, zoomVars, focusVars
<1>1. ASSUME NEW th \in Threads, setState(th) PROVE TypeOK'
  <2>1. mNextState' \in AdapterStates
    BY <1>1, NextStatesTyped DEF setState
  <2>2. call' \in [Threads -> Call]
    BY <1>1 DEF setState, Call
  <2> QED BY <1>1, <2>1, <2>2 DEF setState
<1>2. ASSUME NEW th \in Threads, NEW ok \in BOOLEAN, UseBuffersPreview(th, ok) PROVE TypeOK'
  <2>1. call' \in [Threads -> Call]
    BY <1>2 DEF UseBuffersPreview, Result, Call
  <2> QED BY <1>2, <2>1 DEF UseBuffersPreview
<1>3. ASSUME NEW th \in Threads, NEW ok \in BOOLEAN, startPreview(th, ok) PROVE TypeOK'
  <2>1. call' \in [Threads -> Call]
    BY <1>3 DEF startPreview, Result, Call
  <2>2. mStateSwitchLock' \in BOOLEAN
    BY <1>3, Zenon DEF startPreview
  <2> QED BY <1>3, <2>1, <2>2 DEF startPreview
<1>4. ASSUME NEW th \in Threads, NEW ok \in BOOLEAN, CaptureBody(th, ok) PROVE TypeOK'
  <2>1. call' \in [Threads -> Call]
    BY <1>4 DEF CaptureBody, Result, Call
  <2> QED BY <1>4, <2>1 DEF CaptureBody
<1>5. ASSUME NEW th \in Threads, NEW ok \in BOOLEAN, stopPreview(th, ok) PROVE TypeOK'
  <2>1. call' \in [Threads -> Call]
    BY <1>5 DEF stopPreview, Result, Call
  <2>2. mStateSwitchLock' \in BOOLEAN /\ mCheckAF' \in BOOLEAN
    BY <1>5, Zenon DEF stopPreview, stopAutoFocus
  <2> QED BY <1>5, <2>1, <2>2 DEF stopPreview, stopAutoFocus
<1>6. ASSUME NEW th \in Threads, NEW ok \in BOOLEAN, cancelAutoFocus(th, ok) PROVE TypeOK'
  <2>1. call' \in [Threads -> Call]
    BY <1>6 DEF cancelAutoFocus, Result, Call
  <2>2. mCheckAF' \in BOOLEAN
    BY <1>6, Zenon DEF cancelAutoFocus, stopAutoFocus
  <2> QED BY <1>6, <2>1, <2>2 DEF cancelAutoFocus, stopAutoFocus
<1>7. ASSUME NEW th \in Threads, startVideoCapture(th) PROVE TypeOK'
  <2>1. call' \in [Threads -> Call]
    BY <1>7 DEF startVideoCapture, Call
  <2> QED BY <1>7, <2>1 DEF startVideoCapture
<1>8. ASSUME NEW th \in Threads, stopVideoCapture(th) PROVE TypeOK'
  <2>1. call' \in [Threads -> Call]
    BY <1>8 DEF stopVideoCapture, Call
  <2>2. mRecording' \in BOOLEAN
    BY <1>8, Zenon DEF stopVideoCapture
  <2> QED BY <1>8, <2>1, <2>2 DEF stopVideoCapture
<1>9. ASSUME NEW th \in Threads, autoFocus(th) PROVE TypeOK'
  <2>1. call' \in [Threads -> Call]
    BY <1>9 DEF autoFocus, Result, Call
  <2> QED BY <1>9, <2>1 DEF autoFocus
<1>10. ASSUME NEW th \in Threads, NEW targetIdx \in 0..ZOOM_STAGES, startSmoothZoom(th, targetIdx) PROVE TypeOK'
  <2>1. call' \in [Threads -> Call]
    BY <1>10 DEF startSmoothZoom, Call
  <2>2. mReturnZoomStatus' \in BOOLEAN
    BY <1>10, Zenon DEF startSmoothZoom
  <2>3. mTargetZoomIdx' \in Int
    BY <1>10 DEF startSmoothZoom
  <2> QED BY <1>10, <2>1, <2>2, <2>3 DEF startSmoothZoom
<1>11. ASSUME NEW th \in Threads, stopSmoothZoom(th) PROVE TypeOK'
  <2>1. call' \in [Threads -> Call]
    BY <1>11 DEF stopSmoothZoom, Result, Call
  <2>2. mReturnZoomStatus' \in BOOLEAN
    BY <1>11, Zenon DEF stopSmoothZoom
  <2>3. mZoomInc' \in {1, -1}
    BY <1>11 DEF stopSmoothZoom, Towards
  <2> QED BY <1>11, <2>1, <2>2, <2>3 DEF stopSmoothZoom
<1>12. ASSUME NEW th \in Threads, NEW ok \in BOOLEAN, Resume(th, ok) PROVE call' \in [Threads -> Call] /\ app' \in CallOfApp /\ mZoomLock' \in {NONE, "omx", "app"} /\ frame' \in {"idle", "zoom", "focus"}
  <2>1. call' \in [Threads -> Call]
    BY <1>12, AfterCommandTyped DEF Resume
  <2>2. app' \in CallOfApp
    BY <1>12, AfterFailureTyped DEF Resume, CallOfApp
  <2> QED BY <1>12, <2>1, <2>2 DEF Resume
<1>13. ASSUME NEW th \in Threads, commitState(th) PROVE TypeOK'
  <2>1. focusOwed' \in Int
    BY <1>13 DEF commitState
  <2> QED BY <1>13, <1>12, <2>1 DEF commitState
<1>14. ASSUME NEW th \in Threads, rollbackState(th) PROVE TypeOK'
  BY <1>14, <1>12 DEF rollbackState
<1>15. ASSUME NEW name \in HalCalls, NEW zoom \in ZoomIdx, AppBegin(name, zoom) PROVE TypeOK'
  <2>1. app' \in CallOfApp
    BY <1>15, AppCommandsTyped DEF AppBegin, CallOfApp
  <2>2. mCurrentZoomIdx' \in Int /\ mTargetZoomIdx' \in Int
    BY <1>15 DEF AppBegin, setParametersZoom, ZoomIdx
  <2> QED BY <1>15, <2>1, <2>2 DEF AppBegin, setParametersZoom
<1>16. CASE AppSend
  <2>1. Head(app.todo) \in CameraCommands /\ Tail(app.todo) \in Seq(CameraCommands)
    BY <1>16 DEF AppSend, CallOfApp
  <2>2. call' \in [Threads -> Call]
    BY <1>16, <2>1, SendTyped DEF AppSend, Threads, NONE
  <2>3. app' \in CallOfApp
    BY <1>16, <2>1 DEF AppSend, CallOfApp
  <2> QED BY <1>16, <2>2, <2>3 DEF AppSend
<1>17. CASE AppError
  <2>1. "STOP_PREVIEW" \in CameraCommands
    BY DEF CameraCommands
  <2>2. app' \in CallOfApp
    BY <1>17, <2>1, CommandSeqs, IdleTyped DEF AppError, CallOfApp
  <2> QED BY <1>17, <2>2 DEF AppError
<1>18. CASE RollbackLoop
  <2>1. app' \in CallOfApp
    BY <1>18 DEF RollbackLoop, CallOfApp
  <2> QED BY <1>18, <2>1 DEF RollbackLoop
<1>19. CASE rollbackToPreviousState
  <2>1. app' \in CallOfApp
    BY <1>19 DEF rollbackToPreviousState, CallOfApp
  <2>2. call' \in [Threads -> Call]
    BY <1>19, SendTyped, RollbackCommandsTyped DEF rollbackToPreviousState, Threads, NONE
  <2> QED BY <1>19, <2>1, <2>2 DEF rollbackToPreviousState
<1>20. CASE AppReturn
  <2>1. app.ok \in BOOLEAN
    BY DEF CallOfApp
  <2>2. mPreviewEnabled' \in BOOLEAN
    BY <1>20, <2>1, Zenon DEF AppReturn
  <2>3. mRecordingEnabled' \in BOOLEAN
    BY <1>20, <2>1, Zenon DEF AppReturn
  <2>4. mAfterTakePicture' \in BOOLEAN
    BY <1>20, <2>1, Zenon DEF AppReturn
  <2>5. /\ app' = AppIdle
        /\ UNCHANGED <<stateVars, mLock, mStateSwitchLock, mRecording, call,
                       mZoomLock, zoomVars, frame, focusVars, focusOwed, endMsgs>>
    BY <1>20, Zenon DEF AppReturn
  <2> QED BY <2>2, <2>3, <2>4, <2>5, IdleTyped
<1>21. ASSUME NEW zoom \in ZoomIdx, restartPreview(zoom) PROVE TypeOK'
  <2>1. app' \in CallOfApp
    BY <1>21, AppCommandsTyped DEF restartPreview, CallOfApp, HalCalls
  <2>2. mCurrentZoomIdx' \in Int /\ mTargetZoomIdx' \in Int
    BY <1>21 DEF restartPreview, setParametersZoom, ZoomIdx
  <2>3. mPreviewEnabled' \in BOOLEAN
    BY <1>21, Zenon DEF restartPreview
  <2> QED BY <1>21, <2>1, <2>2, <2>3 DEF restartPreview, setParametersZoom
<1>22. ASSUME NEW zoom \in ZoomIdx, setParameters(zoom) PROVE TypeOK'
  BY <1>22 DEF setParameters, setParametersZoom, ZoomIdx
<1>23. CASE getParameters
  <2>1. app' \in CallOfApp
    BY <1>23, IdleTyped DEF getParameters, CallOfApp, HalCalls
  <2>2. call' \in [Threads -> Call]
    BY <1>23, SendTyped DEF getParameters, Threads, CameraCommands
  <2> QED BY <1>23, <2>1, <2>2 DEF getParameters
<1>24. CASE endImageCallback
  BY <1>24 DEF endImageCallback
<1>25. CASE signalEndImageCapture
  <2>1. call' \in [Threads -> Call]
    BY <1>25, SendTyped DEF signalEndImageCapture, Threads, CameraCommands, NONE
  <2> QED BY <1>25, <2>1 DEF signalEndImageCapture
<1>26. CASE FillBufferDone
  BY <1>26 DEF FillBufferDone
<1>27. CASE advanceZoom
  <2>1. ZoomStep \in Int
    BY DEF ZoomStep, Towards
  <2>2. call' \in [Threads -> Call]
    BY <1>27, SendTyped DEF advanceZoom, Threads, CameraCommands
  <2> QED BY <1>27, <2>1, <2>2 DEF advanceZoom, Towards
<1>28. CASE FocusPending
  BY <1>28 DEF FocusPending
<1>29. CASE checkFocusStatus
  <2>1. call' \in [Threads -> Call]
    BY <1>29 DEF checkFocusStatus, Call, Threads
  <2> QED BY <1>29, <2>1 DEF checkFocusStatus, stopAutoFocus
<1>30. ASSUME NEW th \in Threads, returnFocusStatus(th) PROVE TypeOK'
  <2>1. call' \in [Threads -> Call]
    BY <1>30, SendTyped, IdleTyped DEF returnFocusStatus, CameraCommands
  <2> QED BY <1>30, <2>1 DEF returnFocusStatus
<1>31. ASSUME NEW th \in Threads, notifyFocusSubscribers(th) PROVE TypeOK'
  <2>1. call' \in [Threads -> Call]
    BY <1>31, SendTyped DEF notifyFocusSubscribers, CameraCommands, Call
  <2> QED BY <1>31, <2>1 DEF notifyFocusSubscribers
<1>32. ASSUME NEW th \in Threads, FocusCallback(th) PROVE TypeOK'
  BY <1>32, IdleTyped DEF FocusCallback
<1>33. CASE AfGet
  BY <1>33 DEF AfGet
<1>34. CASE AfCheck
  BY <1>34 DEF AfCheck
<1>35. CASE AfArm
  BY <1>35 DEF AfArm
<1>36. CASE AfImmediate
  <2>1. call' \in [Threads -> Call]
    BY <1>36 DEF AfImmediate, Call, Threads
  <2> QED BY <1>36, <2>1 DEF AfImmediate
<1>37. CASE AfTimeout
  <2>1. call' \in [Threads -> Call]
    BY <1>37 DEF AfTimeout, Call, Threads
  <2> QED BY <1>37, <2>1 DEF AfTimeout
<1>38. CASE UNCHANGED vars
  BY <1>38 DEF vars
<1> QED
  BY <1>1, <1>2, <1>3, <1>4, <1>5, <1>6, <1>7, <1>8, <1>9, <1>10, <1>11, <1>13, <1>14,
     <1>15, <1>16, <1>17, <1>18, <1>19, <1>20, <1>21, <1>22, <1>23, <1>24, <1>25, <1>26,
     <1>27, <1>28, <1>29, <1>30, <1>31, <1>32, <1>33, <1>34, <1>35, <1>36, <1>37, <1>38
     DEF Next, Command, Method, Report, AppCall, PreviewFrame, doAutoFocus, Threads

-----------------------------------------------------------------------------
(* The protocol.  Three kinds of steps matter: those that leave commands   *)
(* alone, those that end a command's method, and the ends of a command.    *)

Inside == {"body", "commit", "rollback"}

ProtocolInv == LockHeld /\ Settled /\ RecordingInv

LEMMA OutsideCommands ==
  ASSUME AdapterInv, UNCHANGED <<mAdapterState, mNextState, mLock, mRecording>>,
         \A th \in Threads : \/ call'[th] = call[th]
                             \/ call[th].pc \notin Inside /\ call'[th].pc \notin Inside
  PROVE  ProtocolInv'
<1>1. LockHeld'
  BY DEF AdapterInv, LockHeld, Inside
<1>2. Settled'
  BY DEF AdapterInv, Settled
<1>3. RecordingInv'
  BY DEF AdapterInv, RecordingInv, VideoChosen, Video, Inside
<1> QED BY <1>1, <1>2, <1>3 DEF ProtocolInv

LEMMA OneThreadOutside ==
  ASSUME AdapterInv, UNCHANGED <<mAdapterState, mNextState, mLock, mRecording>>,
         NEW th \in Threads, call[th].pc \notin Inside,
         NEW c, c.pc \notin Inside, call' = [call EXCEPT ![th] = c]
  PROVE  ProtocolInv'
<1>1. call \in [Threads -> Call]
  BY DEF AdapterInv, TypeOK
<1>2. \A o \in Threads : o # th => call'[o] = call[o]
  BY <1>1
<1>3. call'[th].pc \notin Inside
  BY <1>1
<1> QED BY <1>2, <1>3, OutsideCommands

LEMMA SendOutside ==
  ASSUME AdapterInv, UNCHANGED <<mAdapterState, mNextState, mLock, mRecording>>,
         NEW th \in Threads, call[th].pc \notin Inside, NEW op, NEW next, Send(th, op, next)
  PROVE  ProtocolInv'
<1> DEFINE c == [pc |-> "set", op |-> op, next |-> next]
<1>1. c.pc \notin Inside
  BY DEF Inside
<1>2. call' = [call EXCEPT ![th] = c]
  BY DEF Send
<1> HIDE DEF c
<1> QED BY <1>1, <1>2, OneThreadOutside

LEMMA PcOutside ==
  ASSUME AdapterInv, UNCHANGED <<mAdapterState, mNextState, mLock, mRecording>>,
         NEW th \in Threads, call[th].pc \notin Inside, NEW p, p \notin Inside,
         call' = [call EXCEPT ![th].pc = p]
  PROVE  ProtocolInv'
<1>1. call \in [Threads -> Call]
  BY DEF AdapterInv, TypeOK
<1>2. \A o \in Threads : o # th => call'[o] = call[o]
  BY <1>1
<1>3. call'[th].pc \notin Inside
  BY <1>1 DEF Call
<1> QED BY <1>2, <1>3, OutsideCommands

LEMMA MethodEnds ==
  ASSUME AdapterInv, UNCHANGED <<mAdapterState, mNextState, mLock>>,
         NEW th \in Threads, call[th].pc = "body",
         call'[th].pc \in {"commit", "rollback"},
         \A o \in Threads \ {th} : call'[o] = call[o],
         call'[th].pc = "commit" => (mRecording' <=> Video(mNextState)),
         call'[th].pc = "rollback" => (mRecording' <=> Video(mAdapterState))
  PROVE  ProtocolInv'
<1>1. mLock = th /\ mLock # NONE /\ \A o \in Threads \ {th} : call[o].pc \notin Inside
  BY DEF AdapterInv, LockHeld, Threads, NONE, Inside
<1>2. LockHeld'
  BY <1>1 DEF LockHeld, Inside
<1>3. Settled'
  BY <1>1 DEF Settled
<1>4. RecordingInv'
  BY <1>1 DEF RecordingInv, Video, Inside
<1> QED BY <1>2, <1>3, <1>4 DEF ProtocolInv

LEMMA CommandEnds ==
  ASSUME AdapterInv, NEW th \in Threads, mLock = th, mLock' = NONE,
         mNextState' = mAdapterState', mRecording' <=> Video(mAdapterState'),
         call'[th].pc \notin Inside,
         \A o \in Threads \ {th} : call'[o] = call[o]
  PROVE  ProtocolInv'
<1>1. \A o \in Threads : call'[o].pc \notin Inside
  BY DEF AdapterInv, LockHeld, Inside
<1>2. LockHeld'
  BY <1>1 DEF LockHeld, Inside, Threads, NONE
<1>3. Settled'
  BY DEF Settled
<1>4. RecordingInv'
  BY <1>1 DEF RecordingInv, Video, Inside
<1> QED BY <1>2, <1>3, <1>4 DEF ProtocolInv

(* A method other than the two of recording keeps mRecording.              *)
LEMMA OtherMethodEnds ==
  ASSUME AdapterInv, NEW th \in Threads, NEW ok, call[th].pc = "body",
         call[th].op \notin {"START_VIDEO", "STOP_VIDEO"}, Result(th, ok),
         UNCHANGED <<mAdapterState, mNextState, mLock, mRecording>>
  PROVE  ProtocolInv'
<1>1. call \in [Threads -> Call]
  BY DEF AdapterInv, TypeOK
<1>2. /\ call'[th].pc \in {"commit", "rollback"}
      /\ \A o \in Threads \ {th} : call'[o] = call[o]
  BY <1>1 DEF Result, Call
<1>3. (mRecording <=> Video(mAdapterState)) /\ (Video(mNextState) <=> Video(mAdapterState))
  BY DEF AdapterInv, RecordingInv, VideoChosen
<1> QED BY <1>2, <1>3, MethodEnds

LEMMA InitAdapterInv == Init => AdapterInv
<1> SUFFICES ASSUME Init PROVE AdapterInv
  OBVIOUS
<1>1. \A th \in Threads : call[th].pc = "idle"
  BY DEF Init, Idle
<1>2. LockHeld
  BY <1>1 DEF Init, LockHeld, Threads, NONE
<1>3. Settled
  BY DEF Init, Settled
<1>4. RecordingInv
  BY <1>1 DEF Init, RecordingInv, Video, INTIALIZED_STATE, PREVIEW_STATE
<1> QED BY <1>2, <1>3, <1>4, InitTypeOK DEF AdapterInv

-----------------------------------------------------------------------------
LEMMA NextProtocolInv == AdapterInv /\ [Next]_vars => ProtocolInv'
<1> SUFFICES ASSUME AdapterInv, [Next]_vars PROVE ProtocolInv'
  OBVIOUS
<1> USE DEF stateVars
<1>0. call \in [Threads -> Call]
  BY DEF AdapterInv, TypeOK
<1>1. ASSUME NEW th \in Threads, setState(th) PROVE ProtocolInv'
  <2>1. /\ mLock = NONE /\ mLock' = th /\ NONE \notin Threads
        /\ \A o \in Threads : call[o].pc \notin Inside
        /\ \A o \in Threads \ {th} : call'[o] = call[o]
    BY <1>0, <1>1 DEF setState, AdapterInv, LockHeld, Threads, NONE, Inside
  <2>2. call'[th].pc \in Inside /\ call'[th].op = call[th].op
    BY <1>0, <1>1 DEF setState, Call, Inside
  <2>3. LockHeld'
    BY <2>1, <2>2 DEF LockHeld, Inside
  <2>4. Settled'
    BY <2>1 DEF Settled
  <2>5. /\ mRecording <=> Video(mAdapterState)
        /\ Video(mNextState) <=> Video(mAdapterState)
    BY <2>1 DEF AdapterInv, RecordingInv
  <2>6. UNCHANGED <<mAdapterState, mRecording>>
    BY <1>1 DEF setState
  <2>7. CASE NextStates(mAdapterState, call[th].op) # {}
    <3>1. mNextState' \in NextStates(mAdapterState, call[th].op)
      BY <1>1, <2>7 DEF setState
    <3>2. call'[th].pc = IF call[th].next = "zoom" THEN "commit" ELSE "body"
      BY <1>0, <1>1, <2>7 DEF setState, Call
    <3>3. VideoChosen(th)'
      BY <2>2, <2>6, <3>1, NextStatesVideo DEF VideoChosen
    <3>4. call'[th].pc = "commit" => (Video(mNextState') <=> Video(mAdapterState))
      BY <1>0, <3>1, <3>2, NextStatesVideo DEF Call
    <3> QED BY <2>1, <2>3, <2>4, <2>5, <2>6, <3>2, <3>3, <3>4
            DEF ProtocolInv, RecordingInv, Video, Inside
  <2>8. CASE NextStates(mAdapterState, call[th].op) = {}
    <3>1. UNCHANGED mNextState
      BY <1>1, <2>8 DEF setState
    <3>2. call'[th].pc = IF call[th].op \in UseBuffers THEN "body" ELSE "rollback"
      BY <1>0, <1>1, <2>8 DEF setState, Call
    <3>3. call'[th].pc = "body" => VideoChosen(th)'
      BY <2>2, <2>5, <2>6, <3>1, <3>2 DEF VideoChosen, UseBuffers, Video
    <3> QED BY <2>1, <2>3, <2>4, <2>5, <2>6, <3>1, <3>2, <3>3
            DEF ProtocolInv, RecordingInv, Video, Inside
  <2> QED BY <2>7, <2>8
<1>2. ASSUME NEW th \in Threads, NEW ok \in BOOLEAN, UseBuffersPreview(th, ok) PROVE ProtocolInv'
  BY <1>2, OtherMethodEnds DEF UseBuffersPreview, Body
<1>3. ASSUME NEW th \in Threads, NEW ok \in BOOLEAN, startPreview(th, ok) PROVE ProtocolInv'
  BY <1>3, OtherMethodEnds DEF startPreview, Body
<1>4. ASSUME NEW th \in Threads, NEW ok \in BOOLEAN, stopPreview(th, ok) PROVE ProtocolInv'
  BY <1>4, OtherMethodEnds DEF stopPreview, Body
<1>5. ASSUME NEW th \in Threads, NEW ok \in BOOLEAN, cancelAutoFocus(th, ok) PROVE ProtocolInv'
  BY <1>5, OtherMethodEnds DEF cancelAutoFocus, Body
<1>6. ASSUME NEW th \in Threads, NEW ok \in BOOLEAN, CaptureBody(th, ok) PROVE ProtocolInv'
  BY <1>6, OtherMethodEnds DEF CaptureBody, CaptureBodies, Body
<1>7. ASSUME NEW th \in Threads, autoFocus(th) PROVE ProtocolInv'
  BY <1>7, OtherMethodEnds DEF autoFocus, Body
<1>8. ASSUME NEW th \in Threads, stopSmoothZoom(th) PROVE ProtocolInv'
  BY <1>8, OtherMethodEnds DEF stopSmoothZoom, Body
<1>9. ASSUME NEW th \in Threads, NEW targetIdx \in 0..ZOOM_STAGES, startSmoothZoom(th, targetIdx) PROVE ProtocolInv'
  <2>1. /\ call[th].pc = "body" /\ call[th].op = "START_SMOOTH_ZOOM"
        /\ call'[th].pc \in {"commit", "rollback"}
        /\ \A o \in Threads \ {th} : call'[o] = call[o]
        /\ UNCHANGED <<mAdapterState, mNextState, mLock, mRecording>>
    BY <1>0, <1>9 DEF startSmoothZoom, Body, Call
  <2>2. (mRecording <=> Video(mAdapterState)) /\ (Video(mNextState) <=> Video(mAdapterState))
    BY <2>1 DEF AdapterInv, RecordingInv, VideoChosen
  <2> QED BY <2>1, <2>2, MethodEnds
<1>10. ASSUME NEW th \in Threads, startVideoCapture(th) PROVE ProtocolInv'
  <2>1. /\ call[th].pc = "body" /\ call[th].op = "START_VIDEO"
        /\ call'[th].pc = IF mRecording THEN "rollback" ELSE "commit"
        /\ \A o \in Threads \ {th} : call'[o] = call[o]
        /\ UNCHANGED <<mAdapterState, mNextState, mLock>>
    BY <1>0, <1>10 DEF startVideoCapture, Body, Call
  <2>2. mRecording' = TRUE
    BY <1>10 DEF startVideoCapture
  <2>3. (mRecording <=> Video(mAdapterState)) /\ VideoChosen(th)
    BY <2>1 DEF AdapterInv, RecordingInv
  <2> QED BY <2>1, <2>2, <2>3, MethodEnds DEF VideoChosen
<1>11. ASSUME NEW th \in Threads, stopVideoCapture(th) PROVE ProtocolInv'
  <2>1. /\ call[th].pc = "body" /\ call[th].op = "STOP_VIDEO"
        /\ call'[th].pc = IF mRecording THEN "commit" ELSE "rollback"
        /\ \A o \in Threads \ {th} : call'[o] = call[o]
        /\ UNCHANGED <<mAdapterState, mNextState, mLock>>
    BY <1>0, <1>11 DEF stopVideoCapture, Body, Call
  <2>2. mRecording' = FALSE
    BY <1>11 DEF stopVideoCapture
  <2>3. (mRecording <=> Video(mAdapterState)) /\ VideoChosen(th)
    BY <2>1 DEF AdapterInv, RecordingInv
  <2> QED BY <2>1, <2>2, <2>3, MethodEnds DEF VideoChosen
<1>12. ASSUME NEW th \in Threads, commitState(th) PROVE ProtocolInv'
  <2>1. call[th].pc = "commit" /\ mLock = th
    BY <1>12 DEF commitState, AdapterInv, LockHeld
  <2>2. /\ call'[th].pc \notin Inside
        /\ \A o \in Threads \ {th} : call'[o] = call[o]
    BY <1>0, <1>12, AfterCommandTyped DEF commitState, Resume, Inside
  <2>3. mLock' = NONE /\ mNextState' = mAdapterState' /\ UNCHANGED mRecording
    BY <1>12 DEF commitState
  <2>4. mRecording' <=> Video(mAdapterState')
    BY <1>12, <2>1, <2>3 DEF commitState, AdapterInv, RecordingInv
  <2> QED BY <2>1, <2>2, <2>3, <2>4, CommandEnds
<1>13. ASSUME NEW th \in Threads, rollbackState(th) PROVE ProtocolInv'
  <2>1. call[th].pc = "rollback" /\ mLock = th
    BY <1>13 DEF rollbackState, AdapterInv, LockHeld
  <2>2. /\ call'[th].pc \notin Inside
        /\ \A o \in Threads \ {th} : call'[o] = call[o]
    BY <1>0, <1>13, AfterCommandTyped DEF rollbackState, Resume, Inside
  <2>3. mLock' = NONE /\ mNextState' = mAdapterState' /\ UNCHANGED mRecording
    BY <1>13 DEF rollbackState
  <2>4. mRecording' <=> Video(mAdapterState')
    BY <1>13, <2>1, <2>3 DEF rollbackState, AdapterInv, RecordingInv
  <2> QED BY <2>1, <2>2, <2>3, <2>4, CommandEnds
<1>14. ASSUME NEW name \in HalCalls, NEW zoom \in ZoomIdx, AppBegin(name, zoom) PROVE ProtocolInv'
  BY <1>14, OutsideCommands DEF AppBegin
<1>15. CASE AppSend
  BY <1>15, SendOutside DEF AppSend, Inside, Threads
<1>16. CASE AppError
  BY <1>16, OutsideCommands DEF AppError
<1>17. CASE RollbackLoop
  BY <1>17, OutsideCommands DEF RollbackLoop
<1>18. CASE rollbackToPreviousState
  <2>1. /\ call["app"].pc \notin Inside /\ "app" \in Threads
        /\ UNCHANGED <<mAdapterState, mNextState, mLock, mRecording>>
    BY <1>18 DEF rollbackToPreviousState, Inside, Threads
  <2>2. UNCHANGED call \/ \E op \in RollbackCommands(mAdapterState) : Send("app", op, NONE)
    BY <1>18 DEF rollbackToPreviousState
  <2> QED BY <2>1, <2>2, SendOutside, OutsideCommands
<1>19. CASE AppReturn
  BY <1>19, OutsideCommands DEF AppReturn
<1>20. ASSUME NEW zoom \in ZoomIdx, restartPreview(zoom) PROVE ProtocolInv'
  BY <1>20, OutsideCommands DEF restartPreview
<1>21. ASSUME NEW zoom \in ZoomIdx, setParameters(zoom) PROVE ProtocolInv'
  BY <1>21, OutsideCommands DEF setParameters
<1>22. CASE getParameters
  BY <1>22, SendOutside DEF getParameters, Inside, Threads
<1>23. CASE endImageCallback
  BY <1>23, OutsideCommands DEF endImageCallback
<1>24. CASE signalEndImageCapture
  BY <1>24, SendOutside DEF signalEndImageCapture, Inside, Threads
<1>25. CASE FillBufferDone
  BY <1>25, OutsideCommands DEF FillBufferDone
<1>26. CASE advanceZoom
  <2>1. /\ call["omx"].pc \notin Inside /\ "omx" \in Threads
        /\ UNCHANGED <<mAdapterState, mNextState, mLock, mRecording>>
    BY <1>26 DEF advanceZoom, Inside, Threads
  <2>2. UNCHANGED call \/ Send("omx", "STOP_SMOOTH_ZOOM", "zoom")
    BY <1>26 DEF advanceZoom
  <2> QED BY <2>1, <2>2, SendOutside, OutsideCommands
<1>27. CASE FocusPending
  BY <1>27, OutsideCommands DEF FocusPending
<1>28. CASE checkFocusStatus
  <2>1. call["omx"].pc \notin Inside /\ "status" \notin Inside /\ "omx" \in Threads
    BY <1>28 DEF checkFocusStatus, Inside, Threads
  <2>2. /\ call' = [call EXCEPT !["omx"].pc = "status"]
        /\ UNCHANGED <<mAdapterState, mNextState, mLock, mRecording>>
    BY <1>28 DEF checkFocusStatus
  <2> QED BY <2>1, <2>2, PcOutside
<1>29. ASSUME NEW th \in Threads, returnFocusStatus(th) PROVE ProtocolInv'
  <2>1. /\ call[th].pc \notin Inside /\ Idle.pc \notin Inside
        /\ UNCHANGED <<mAdapterState, mNextState, mLock, mRecording>>
    BY <1>29 DEF returnFocusStatus, Inside, Idle
  <2>2. Send(th, "CANCEL_AUTOFOCUS", "focus") \/ call' = [call EXCEPT ![th] = Idle]
    BY <1>29 DEF returnFocusStatus
  <2> QED BY <2>1, <2>2, SendOutside, OneThreadOutside
<1>30. ASSUME NEW th \in Threads, notifyFocusSubscribers(th) PROVE ProtocolInv'
  <2>1. /\ call[th].pc \notin Inside /\ "tell" \notin Inside
        /\ UNCHANGED <<mAdapterState, mNextState, mLock, mRecording>>
    BY <1>30 DEF notifyFocusSubscribers, Inside
  <2>2. Send(th, "CANCEL_AUTOFOCUS", "tell") \/ call' = [call EXCEPT ![th].pc = "tell"]
    BY <1>30 DEF notifyFocusSubscribers
  <2> QED BY <2>1, <2>2, SendOutside, PcOutside
<1>31. ASSUME NEW th \in Threads, FocusCallback(th) PROVE ProtocolInv'
  <2>1. call[th].pc \notin Inside /\ Idle.pc \notin Inside
    BY <1>31 DEF FocusCallback, Inside, Idle
  <2> QED BY <1>31, <2>1, OneThreadOutside DEF FocusCallback
<1>32. CASE AfGet
  BY <1>32, OutsideCommands DEF AfGet
<1>33. CASE AfCheck
  BY <1>33, OutsideCommands DEF AfCheck
<1>34. CASE AfArm
  BY <1>34, OutsideCommands DEF AfArm
<1>35. CASE AfImmediate
  <2>1. call["af"].pc \notin Inside /\ "status" \notin Inside /\ "af" \in Threads
    BY <1>35 DEF AfImmediate, Inside, Threads
  <2>2. /\ call' = [call EXCEPT !["af"].pc = "status"]
        /\ UNCHANGED <<mAdapterState, mNextState, mLock, mRecording>>
    BY <1>35 DEF AfImmediate
  <2> QED BY <2>1, <2>2, PcOutside
<1>36. CASE AfTimeout
  <2>1. call["af"].pc \notin Inside /\ "status" \notin Inside /\ "af" \in Threads
    BY <1>36 DEF AfTimeout, Inside, Threads
  <2>2. /\ call' = [call EXCEPT !["af"].pc = "status"]
        /\ UNCHANGED <<mAdapterState, mNextState, mLock, mRecording>>
    BY <1>36 DEF AfTimeout
  <2> QED BY <2>1, <2>2, PcOutside
<1>37. CASE UNCHANGED vars
  BY <1>37, OutsideCommands DEF vars
<1> QED
  BY <1>1, <1>2, <1>3, <1>4, <1>5, <1>6, <1>7, <1>8, <1>9, <1>10, <1>11, <1>12, <1>13,
     <1>14, <1>15, <1>16, <1>17, <1>18, <1>19, <1>20, <1>21, <1>22, <1>23, <1>24, <1>25,
     <1>26, <1>27, <1>28, <1>29, <1>30, <1>31, <1>32, <1>33, <1>34, <1>35, <1>36, <1>37
     DEF Next, Command, Method, Report, AppCall, PreviewFrame, doAutoFocus, Threads

LEMMA NextAdapterInv == AdapterInv /\ [Next]_vars => AdapterInv'
  BY NextTypeOK, NextProtocolInv DEF AdapterInv, ProtocolInv

-----------------------------------------------------------------------------
(* Every variable of the adapter keeps its type, for every set of calls    *)
(* and failures: setState only ever chooses a state of AdapterState.       *)
THEOREM TypeCorrect == Spec => []TypeOK
<1>1. TypeOK /\ [Next]_vars => TypeOK'
  BY NextTypeOK
<1> QED BY <1>1, InitTypeOK, PTL DEF Spec

LEMMA Invariant == Spec => []AdapterInv
  BY InitAdapterInv, NextAdapterInv, PTL DEF Spec

(* Commands exclude each other: at most one thread is between setState and *)
(* commitState or rollbackState, and it owns mLock, also after a refused   *)
(* command and after USE_BUFFERS that setState refused.                    *)
THEOREM CommandsExclude == Spec => []LockHeld
<1>1. AdapterInv => LockHeld
  BY DEF AdapterInv
<1> QED BY <1>1, Invariant, PTL

(* No command leaves a transition half done: whoever obtains mLock finds   *)
(* mNextState equal to mAdapterState.                                      *)
THEOREM SettledCorrect == Spec => []Settled
<1>1. AdapterInv => Settled
  BY DEF AdapterInv
<1> QED BY <1>1, Invariant, PTL

(* Outside a command mRecording, which decides what FillBufferDone sends,  *)
(* agrees with VIDEO_ACTIVE in the committed state.                        *)
THEOREM RecordingCorrect == Spec => []RecordingMatchesState
<1>1. AdapterInv => RecordingMatchesState
  BY DEF AdapterInv, RecordingInv, RecordingMatchesState, Video
<1> QED BY <1>1, Invariant, PTL

-----------------------------------------------------------------------------
(* Zoom.  The index is outside the table only together with the target,    *)
(* and a step that stopSmoothZoom has left behind does not add to that.    *)
ZoomInv ==
  /\ ZoomOvershootsByOne
  /\ mTargetZoomIdx \in ZoomIdx \/ mTargetZoomIdx = mCurrentZoomIdx
  /\ mReturnZoomStatus => mCurrentZoomIdx + mZoomInc \in -1 .. ZOOM_STAGES

(* An immediate zoom, to an index of the table.                            *)
LEMMA SetParametersZoomInv ==
  ASSUME TypeOK, ZoomInv, NEW zoom \in ZoomIdx, setParametersZoom(zoom)
  PROVE  ZoomInv'
  BY AdapterAssumption DEF ZoomInv, ZoomOvershootsByOne, ZoomIdx, setParametersZoom, TypeOK

LEMMA NextZoomInv == TypeOK /\ ZoomInv /\ [Next]_vars => ZoomInv'
<1> SUFFICES ASSUME TypeOK, ZoomInv, [Next]_vars PROVE ZoomInv'
  OBVIOUS
<1>1. CASE UNCHANGED zoomVars
  BY <1>1 DEF ZoomInv, ZoomOvershootsByOne, zoomVars
<1>2. ASSUME NEW th \in Threads, NEW targetIdx \in 0..ZOOM_STAGES, startSmoothZoom(th, targetIdx)
      PROVE  ZoomInv'
  BY <1>2, AdapterAssumption
     DEF startSmoothZoom, ZoomInv, ZoomOvershootsByOne, ZoomIdx, TypeOK
<1>3. ASSUME NEW th \in Threads, stopSmoothZoom(th) PROVE ZoomInv'
  BY <1>3, AdapterAssumption
     DEF stopSmoothZoom, Towards, ZoomInv, ZoomOvershootsByOne, ZoomIdx, TypeOK
<1>4. ASSUME NEW name \in HalCalls, NEW zoom \in ZoomIdx, AppBegin(name, zoom) PROVE ZoomInv'
  BY <1>4, <1>1, SetParametersZoomInv DEF AppBegin, zoomVars
<1>5. ASSUME NEW zoom \in ZoomIdx, setParameters(zoom) PROVE ZoomInv'
  BY <1>5, <1>1, SetParametersZoomInv DEF setParameters, zoomVars
<1>6. CASE advanceZoom
  BY <1>6, AdapterAssumption
     DEF advanceZoom, ZoomStep, Towards, ZoomInv, ZoomOvershootsByOne, ZoomIdx, TypeOK
<1>7. ASSUME NEW zoom \in ZoomIdx, restartPreview(zoom) PROVE ZoomInv'
  BY <1>7, <1>1, SetParametersZoomInv DEF restartPreview, zoomVars
<1>8. ASSUME NEW th \in Threads, NEW ok \in BOOLEAN,
             \/ UseBuffersPreview(th, ok) \/ startPreview(th, ok) \/ stopPreview(th, ok)
             \/ cancelAutoFocus(th, ok) \/ CaptureBody(th, ok)
      PROVE  ZoomInv'
  BY <1>8, <1>1 DEF UseBuffersPreview, startPreview, stopPreview, cancelAutoFocus, CaptureBody
<1>9. ASSUME NEW th \in Threads,
             \/ startVideoCapture(th) \/ stopVideoCapture(th) \/ autoFocus(th)
             \/ setState(th) \/ commitState(th) \/ rollbackState(th)
      PROVE  ZoomInv'
  BY <1>9, <1>1
     DEF startVideoCapture, stopVideoCapture, autoFocus, setState, commitState, rollbackState
<1>10. ASSUME NEW th \in Threads, Report(th) PROVE ZoomInv'
  BY <1>10, <1>1 DEF Report, returnFocusStatus, notifyFocusSubscribers, FocusCallback
<1>11. CASE AppSend \/ AppError \/ RollbackLoop \/ rollbackToPreviousState \/ AppReturn
  BY <1>11, <1>1 DEF AppSend, AppError, RollbackLoop, rollbackToPreviousState, AppReturn
<1>12. CASE getParameters \/ endImageCallback \/ signalEndImageCapture
  BY <1>12, <1>1 DEF getParameters, endImageCallback, signalEndImageCapture
<1>13. CASE FillBufferDone \/ FocusPending \/ checkFocusStatus
  BY <1>13, <1>1 DEF FillBufferDone, FocusPending, checkFocusStatus
<1>14. CASE doAutoFocus
  BY <1>14, <1>1 DEF doAutoFocus, AfGet, AfImmediate, AfCheck, AfArm, AfTimeout
<1>15. CASE UNCHANGED vars
  BY <1>15, <1>1 DEF vars
<1> QED
  BY <1>2, <1>3, <1>4, <1>5, <1>6, <1>7, <1>8, <1>9, <1>10, <1>11, <1>12, <1>13, <1>14, <1>15
     DEF Next, Command, Method, AppCall, PreviewFrame, Threads

(* The zoom index never leaves the table by more than one step, for any    *)
(* number of zoom stages and any order of setParameters, startSmoothZoom,  *)
(* stopSmoothZoom and advanceZoom.                                         *)
THEOREM ZoomCorrect == Spec => []ZoomOvershootsByOne
<1>1. Init => ZoomInv
  BY AdapterAssumption DEF Init, ZoomInv, ZoomOvershootsByOne, ZoomIdx
<1>2. TypeOK /\ ZoomInv /\ [Next]_vars => ZoomInv'
  BY NextZoomInv
<1>3. ZoomInv => ZoomOvershootsByOne
  BY DEF ZoomInv
<1> QED BY <1>1, <1>2, <1>3, TypeCorrect, PTL DEF Spec
-----------------------------------------------------------------------------
(* A smooth zoom keeps to its target.  startSmoothZoom, the one method     *)
(* that sets a target whatever the state, runs only when setState has      *)
(* found no smooth zoom running, and the state stays until commitState.    *)
Starts(c) == c.pc = "body" /\ c.op = "START_SMOOTH_ZOOM"

Zooming(s) == "ZOOM" \in s

ZoomStarts == \A th \in Threads : Starts(call[th]) => ~Zooming(mAdapterState)

LEMMA SmoothZoomOnce ==
  ASSUME NEW s, NextStates(s, "START_SMOOTH_ZOOM") # {}
  PROVE  ~Zooming(s)
<1>1. \A e \in ModeSwitch : e[2] # "START_SMOOTH_ZOOM"
  BY DEF ModeSwitch
<1>2. ModeNext(s, "START_SMOOTH_ZOOM") = {}
  BY <1>1 DEF ModeNext
<1>3. \E n : n \in OverlayNext(s, "START_SMOOTH_ZOOM")
  BY <1>2 DEF NextStates
<1> QED BY <1>3 DEF OverlayNext, Zooming

(* No step but setState begins a method.                                   *)
NoneBegins ==
  \A th \in Threads : call'[th] = call[th] \/ ~Starts(call'[th])

LEMMA SendBeginsNone ==
  ASSUME call \in [Threads -> Call], NEW th \in Threads, NEW op, NEW next, Send(th, op, next)
  PROVE  NoneBegins
<1> DEFINE c == [pc |-> "set", op |-> op, next |-> next]
<1>1. ~Starts(c)
  BY DEF Starts
<1>2. call' = [call EXCEPT ![th] = c]
  BY DEF Send
<1> HIDE DEF c
<1> QED BY <1>1, <1>2 DEF NoneBegins

LEMMA PcBeginsNone ==
  ASSUME call \in [Threads -> Call], NEW th \in Threads, NEW p, p # "body",
         call' = [call EXCEPT ![th].pc = p]
  PROVE  NoneBegins
<1>1. call'[th].pc = p /\ \A o \in Threads : o # th => call'[o] = call[o]
  BY DEF Call
<1> QED BY <1>1 DEF NoneBegins, Starts

LEMMA IdleBeginsNone ==
  ASSUME call \in [Threads -> Call], NEW th \in Threads, NEW c, c.pc # "body",
         call' = [call EXCEPT ![th] = c]
  PROVE  NoneBegins
<1>1. call'[th] = c /\ \A o \in Threads : o # th => call'[o] = call[o]
  OBVIOUS
<1> QED BY <1>1 DEF NoneBegins, Starts

LEMMA AfterCommandPc ==
  ASSUME NEW next, NEW ok PROVE AfterCommand(next, ok).pc # "body"
<1>1. Idle.pc = "idle" /\ [Idle EXCEPT !.pc = "notify"].pc = "notify"
      /\ [Idle EXCEPT !.pc = "tell"].pc = "tell"
  BY DEF Idle
<1>2. AfterCommand(next, ok) \in {Idle, [Idle EXCEPT !.pc = "notify"], [Idle EXCEPT !.pc = "tell"]}
  BY DEF AfterCommand
<1> QED BY <1>1, <1>2

LEMMA MethodBeginsNone ==
  ASSUME call \in [Threads -> Call], NEW th \in Threads, Method(th)
  PROVE  NoneBegins /\ mAdapterState' = mAdapterState
<1>1. mAdapterState' = mAdapterState
  BY DEF Method, UseBuffersPreview, startPreview, stopPreview, cancelAutoFocus, CaptureBody,
         startVideoCapture, stopVideoCapture, autoFocus, stopSmoothZoom, startSmoothZoom, stateVars
<1>2. \E p \in {"commit", "rollback"} : call' = [call EXCEPT ![th].pc = p]
  BY DEF Method, UseBuffersPreview, startPreview, stopPreview, cancelAutoFocus, CaptureBody,
         startVideoCapture, stopVideoCapture, autoFocus, stopSmoothZoom, startSmoothZoom, Result
<1> QED BY <1>1, <1>2, PcBeginsNone

LEMMA NextZoomStarts == AdapterInv /\ ZoomStarts /\ [Next]_vars => ZoomStarts'
<1> SUFFICES ASSUME AdapterInv, ZoomStarts, [Next]_vars PROVE ZoomStarts'
  OBVIOUS
<1> USE DEF stateVars
<1>1. call \in [Threads -> Call]
  BY DEF AdapterInv, TypeOK
<1>2. ASSUME NoneBegins, mAdapterState' = mAdapterState PROVE ZoomStarts'
  BY <1>2 DEF ZoomStarts, NoneBegins
<1>3. ASSUME UNCHANGED <<mAdapterState, call>> PROVE ZoomStarts'
  BY <1>3 DEF ZoomStarts
<1>4. ASSUME NEW th \in Threads, setState(th) PROVE ZoomStarts'
  <2>1. mAdapterState' = mAdapterState
    BY <1>4 DEF setState
  <2>2. CASE NextStates(mAdapterState, call[th].op) = {}
    <3>1. call[th].op = "START_SMOOTH_ZOOM" => call' = [call EXCEPT ![th].pc = "rollback"]
      BY <1>4, <2>2 DEF setState, UseBuffers
    <3>2. \E p \in {"body", "rollback"} : call' = [call EXCEPT ![th].pc = p]
      BY <1>4, <2>2 DEF setState
    <3>3. call'[th].op = call[th].op /\ \A o \in Threads : o # th => call'[o] = call[o]
      BY <1>1, <3>2 DEF Call
    <3>4. call[th].op = "START_SMOOTH_ZOOM" => call'[th].pc = "rollback"
      BY <1>1, <3>1 DEF Call
    <3>5. NoneBegins
      BY <3>3, <3>4 DEF NoneBegins, Starts
    <3> QED BY <1>2, <2>1, <3>5
  <2>3. CASE NextStates(mAdapterState, call[th].op) # {}
    <3>1. \E p \in {"body", "commit"} : call' = [call EXCEPT ![th].pc = p]
      BY <1>4, <2>3 DEF setState
    <3>2. call'[th].op = call[th].op /\ \A o \in Threads : o # th => call'[o] = call[o]
      BY <1>1, <3>1 DEF Call
    <3>3. call'[th].op = "START_SMOOTH_ZOOM" => ~Zooming(mAdapterState)
      BY <2>3, <3>2, SmoothZoomOnce
    <3> QED BY <2>1, <3>2, <3>3 DEF ZoomStarts, Starts
  <2> QED BY <2>2, <2>3
<1>5. ASSUME NEW th \in Threads, Method(th) PROVE ZoomStarts'
  BY <1>1, <1>2, <1>5, MethodBeginsNone
<1>6. ASSUME NEW th \in Threads, commitState(th) \/ rollbackState(th) PROVE ZoomStarts'
  <2>1. call[th].pc \in {"commit", "rollback"}
        /\ \E ok \in BOOLEAN : call' = [call EXCEPT ![th] = AfterCommand(@.next, ok)]
    BY <1>6 DEF commitState, rollbackState, Resume
  <2>2. call'[th].pc # "body" /\ \A o \in Threads : o # th => call'[o] = call[o]
    BY <1>1, <2>1, AfterCommandPc
  <2>3. \A o \in Threads : o # th => call[o].pc # "body"
    BY <2>1 DEF AdapterInv, LockHeld
  <2> QED BY <2>2, <2>3 DEF ZoomStarts, Starts
<1>7. ASSUME NEW th \in Threads, Report(th) PROVE ZoomStarts'
  <2>1. mAdapterState' = mAdapterState
    BY <1>7 DEF Report, returnFocusStatus, notifyFocusSubscribers, FocusCallback
  <2>2. CASE \E next : Send(th, "CANCEL_AUTOFOCUS", next)
    BY <1>1, <1>2, <2>1, <2>2, SendBeginsNone
  <2>3. CASE call' = [call EXCEPT ![th] = Idle]
    <3>1. Idle.pc # "body"
      BY DEF Idle
    <3> QED BY <1>1, <1>2, <2>1, <2>3, <3>1, IdleBeginsNone
  <2>4. CASE call' = [call EXCEPT ![th].pc = "tell"]
    BY <1>1, <1>2, <2>1, <2>4, PcBeginsNone
  <2> QED BY <1>7, <2>2, <2>3, <2>4 DEF Report, returnFocusStatus, notifyFocusSubscribers, FocusCallback
<1>8. ASSUME NEW name \in HalCalls, NEW zoom \in ZoomIdx, AppBegin(name, zoom) PROVE ZoomStarts'
  BY <1>3, <1>8 DEF AppBegin
<1>9. ASSUME NEW zoom \in ZoomIdx, setParameters(zoom) \/ restartPreview(zoom) PROVE ZoomStarts'
  BY <1>3, <1>9 DEF setParameters, restartPreview
<1>10. CASE AppError \/ RollbackLoop \/ AppReturn
  BY <1>3, <1>10 DEF AppError, RollbackLoop, AppReturn
<1>11. CASE AppSend \/ rollbackToPreviousState \/ getParameters \/ signalEndImageCapture
  <2>1. mAdapterState' = mAdapterState
    BY <1>11 DEF AppSend, rollbackToPreviousState, getParameters, signalEndImageCapture
  <2>2. UNCHANGED call \/ \E th \in Threads : \E op, next : Send(th, op, next)
    <3>1. "app" \in Threads /\ "cmd" \in Threads
      BY DEF Threads
    <3>2. CASE rollbackToPreviousState
      BY <3>1, <3>2 DEF rollbackToPreviousState
    <3> QED BY <1>11, <3>1, <3>2 DEF AppSend, getParameters, signalEndImageCapture
  <2> QED BY <1>1, <1>2, <1>3, <2>1, <2>2, SendBeginsNone
<1>12. CASE endImageCallback \/ FillBufferDone \/ FocusPending \/ AfGet \/ AfCheck \/ AfArm
  BY <1>3, <1>12 DEF endImageCallback, FillBufferDone, FocusPending, AfGet, AfCheck, AfArm
<1>13. CASE advanceZoom
  <2>1. mAdapterState' = mAdapterState /\ "omx" \in Threads
        /\ (UNCHANGED call \/ Send("omx", "STOP_SMOOTH_ZOOM", "zoom"))
    BY <1>13 DEF advanceZoom, Threads
  <2> QED BY <1>1, <1>2, <1>3, <2>1, SendBeginsNone
<1>14. CASE checkFocusStatus \/ AfImmediate \/ AfTimeout
  <2>1. mAdapterState' = mAdapterState
        /\ \E th \in Threads : call' = [call EXCEPT ![th].pc = "status"]
    BY <1>14 DEF checkFocusStatus, AfImmediate, AfTimeout, Threads
  <2> QED BY <1>1, <1>2, <2>1, PcBeginsNone
<1>15. CASE UNCHANGED vars
  BY <1>3, <1>15 DEF vars
<1> QED
  BY <1>4, <1>5, <1>6, <1>7, <1>8, <1>9, <1>10, <1>11, <1>12, <1>13, <1>14, <1>15
     DEF Next, Command, AppCall, PreviewFrame, doAutoFocus, Threads

HeadsForTarget ==
  "ZOOM" \in mAdapterState \cap mAdapterState' /\ ~mReturnZoomStatus
    => mTargetZoomIdx' = mTargetZoomIdx /\ Distance' <= Distance

LEMMA StepHeadsForTarget == TypeOK /\ ZoomStarts /\ [Next]_vars => [HeadsForTarget]_vars
<1> SUFFICES ASSUME TypeOK, ZoomStarts, Next, "ZOOM" \in mAdapterState, ~mReturnZoomStatus
             PROVE  mTargetZoomIdx' = mTargetZoomIdx /\ Distance' <= Distance
  BY DEF HeadsForTarget
<1> USE DEF zoomVars
<1>1. /\ mCurrentZoomIdx \in Int /\ mTargetZoomIdx \in Int /\ Distance \in Int
      /\ call \in [Threads -> Call]
  BY DEF TypeOK, Distance
<1>2. ASSUME UNCHANGED <<mCurrentZoomIdx, mTargetZoomIdx>>
      PROVE  mTargetZoomIdx' = mTargetZoomIdx /\ Distance' <= Distance
  BY <1>1, <1>2 DEF Distance
<1>3. ASSUME NEW th \in Threads, NEW targetIdx, startSmoothZoom(th, targetIdx) PROVE FALSE
  BY <1>3 DEF startSmoothZoom, Body, ZoomStarts, Starts, Zooming
<1>4. ASSUME NEW th \in Threads, Command(th)
      PROVE  UNCHANGED <<mCurrentZoomIdx, mTargetZoomIdx>>
  <2>1. CASE Method(th)
    BY <1>3, <2>1
       DEF Method, UseBuffersPreview, startPreview, stopPreview, cancelAutoFocus, CaptureBody,
           startVideoCapture, stopVideoCapture, autoFocus, stopSmoothZoom
  <2>2. CASE setState(th) \/ commitState(th) \/ rollbackState(th)
    BY <2>2 DEF setState, commitState, rollbackState
  <2> QED BY <1>4, <2>1, <2>2 DEF Command
<1>5. ASSUME NEW zoom, setParametersZoom(zoom)
      PROVE  UNCHANGED <<mCurrentZoomIdx, mTargetZoomIdx>>
  BY <1>5 DEF setParametersZoom
<1>6. CASE advanceZoom
  <2>1. mCurrentZoomIdx' = ZoomStep /\ mTargetZoomIdx' = mTargetZoomIdx
    BY <1>6 DEF advanceZoom
  <2>2. CASE mCurrentZoomIdx = mTargetZoomIdx
    BY <1>1, <2>1, <2>2 DEF ZoomStep, Distance
  <2>3. CASE mCurrentZoomIdx < mTargetZoomIdx
    <3>1. mCurrentZoomIdx' = mCurrentZoomIdx + 1
      BY <1>1, <2>1, <2>3 DEF ZoomStep, Towards
    <3> QED BY <1>1, <2>1, <2>3, <3>1 DEF Distance
  <2>4. CASE mCurrentZoomIdx > mTargetZoomIdx
    <3>1. mCurrentZoomIdx' = mCurrentZoomIdx - 1
      BY <1>1, <2>1, <2>4 DEF ZoomStep, Towards
    <3> QED BY <1>1, <2>1, <2>4, <3>1 DEF Distance
  <2> QED BY <1>1, <2>2, <2>3, <2>4
<1>7. ASSUME NEW name \in HalCalls, NEW zoom \in ZoomIdx, AppBegin(name, zoom)
      PROVE  UNCHANGED <<mCurrentZoomIdx, mTargetZoomIdx>>
  BY <1>5, <1>7 DEF AppBegin
<1>8. ASSUME NEW zoom \in ZoomIdx, setParameters(zoom) \/ restartPreview(zoom)
      PROVE  UNCHANGED <<mCurrentZoomIdx, mTargetZoomIdx>>
  BY <1>5, <1>8 DEF setParameters, restartPreview
<1>9. CASE AppSend \/ AppError \/ RollbackLoop \/ rollbackToPreviousState \/ AppReturn
  BY <1>2, <1>9 DEF AppSend, AppError, RollbackLoop, rollbackToPreviousState, AppReturn
<1>10. CASE getParameters \/ endImageCallback \/ signalEndImageCapture
  BY <1>2, <1>10 DEF getParameters, endImageCallback, signalEndImageCapture
<1>11. CASE FillBufferDone \/ FocusPending \/ checkFocusStatus \/ doAutoFocus
  BY <1>2, <1>11
     DEF FillBufferDone, FocusPending, checkFocusStatus, doAutoFocus, AfGet, AfImmediate, AfCheck,
         AfArm, AfTimeout
<1>12. ASSUME NEW th \in Threads, Report(th)
       PROVE  UNCHANGED <<mCurrentZoomIdx, mTargetZoomIdx>>
  BY <1>12 DEF Report, returnFocusStatus, notifyFocusSubscribers, FocusCallback
<1> QED
  BY <1>2, <1>4, <1>6, <1>7, <1>8, <1>9, <1>10, <1>11, <1>12
     DEF Next, AppCall, PreviewFrame, Threads

(* "Immediate zoom should not be avaialable while smooth zoom is running"  *)
(* (OMXZoom.cpp): with any number of zoom stages, no step of any thread    *)
(* moves a smooth zoom's target or leads away from it, until               *)
(* stopSmoothZoom has asked advanceZoom to give it up.                     *)
THEOREM SmoothZoomCorrect == Spec => ZoomHeadsForTarget
<1>1. Init => ZoomStarts
  BY DEF Init, ZoomStarts, Starts, Idle
<1>2. AdapterInv => TypeOK
  BY DEF AdapterInv
<1>3. AdapterInv /\ ZoomStarts /\ [Next]_vars
        => [ "ZOOM" \in mAdapterState \cap mAdapterState' /\ ~mReturnZoomStatus
               => mTargetZoomIdx' = mTargetZoomIdx /\ Distance' <= Distance ]_vars
  BY <1>2, StepHeadsForTarget DEF HeadsForTarget
<1> QED BY <1>1, <1>3, InitAdapterInv, NextAdapterInv, NextZoomStarts, PTL DEF Spec, ZoomHeadsForTarget

-----------------------------------------------------------------------------
(* The adapter implements AdapterCommands.                                 *)

UseImage == "USE_BUFFERS_IMAGE_CAPTURE"

(* mNextState is uninitialised until the first command ends: USE_BUFFERS   *)
(* for a capture, which would commit it, is never that command, for        *)
(* takePicture first sends a query.                                        *)
NoCommandYet == mLock = NONE /\ mNextState # mAdapterState

QueryFirst ==
  NoCommandYet =>
    /\ \A th \in Threads : call[th].pc = "set" => call[th].op # UseImage
    /\ call["app"].pc = "idle" /\ app.todo # <<>> => Head(app.todo) # UseImage

(* What the command on each thread may commit.                             *)
Committable(s, op) == NextStates(s, op) \cup {s}

Chosen ==
  \A th \in Threads :
    call[th].pc \in {"body", "commit"} => mNextState \in Committable(mAdapterState, call[th].op)

CommandNamed ==
  \A th \in Threads : call[th].pc \in {"set", "body", "commit", "rollback"} => call[th].op # NONE

TransitionInv == QueryFirst /\ Chosen /\ CommandNamed

(* The steps outside setState, commitState and rollbackState: a call does  *)
(* not change, ends, or begins; the first command is not USE_BUFFERS for a *)
(* capture.                                                                *)
Harmless(old, new) ==
  \/ new = old
  \/ new.pc \notin {"set", "body", "commit", "rollback"}
  \/ new.pc = "set" /\ new.op # NONE /\ (NoCommandYet => new.op # UseImage)
  \/ old.pc = "body" /\ new.pc \in {"commit", "rollback"} /\ new.op = old.op

HarmlessCalls == \A th \in Threads : Harmless(call[th], call'[th])

(* USE_BUFFERS for a capture does not become the next command to send.     *)
HeadStays ==
  \/ app'.todo = app.todo /\ (call'["app"].pc = "idle" => call["app"].pc = "idle")
  \/ app'.todo # <<>> /\ call'["app"].pc = "idle" => Head(app'.todo) # UseImage

LEMMA HarmlessStep ==
  ASSUME TransitionInv, LockHeld, UNCHANGED <<mAdapterState, mNextState, mLock>>,
         HarmlessCalls, NoCommandYet => HeadStays
  PROVE  TransitionInv'
<1>1. QueryFirst'
  BY DEF TransitionInv, QueryFirst, NoCommandYet, HarmlessCalls, Harmless, HeadStays,
         LockHeld, Threads, NONE
<1>2. Chosen'
  BY DEF TransitionInv, Chosen, Committable, HarmlessCalls, Harmless
<1>3. CommandNamed'
  BY DEF TransitionInv, CommandNamed, HarmlessCalls, Harmless
<1> QED BY <1>1, <1>2, <1>3 DEF TransitionInv

LEMMA SendHarmless ==
  ASSUME call \in [Threads -> Call], NEW th \in Threads, NEW op, NEW next, Send(th, op, next),
         op # NONE, NoCommandYet => op # UseImage
  PROVE  HarmlessCalls /\ call'[th].pc = "set"
<1> DEFINE c == [pc |-> "set", op |-> op, next |-> next]
<1>1. c.pc = "set" /\ c.op = op
  OBVIOUS
<1>2. call'[th] = c /\ \A o \in Threads : o # th => call'[o] = call[o]
  BY DEF Send
<1> HIDE DEF c
<1> QED BY <1>1, <1>2 DEF HarmlessCalls, Harmless

LEMMA PcHarmless ==
  ASSUME call \in [Threads -> Call], NEW th \in Threads, NEW c,
         c.pc \notin {"set", "body", "commit", "rollback"},
         call' = [call EXCEPT ![th] = c] \/ call' = [call EXCEPT ![th].pc = c.pc]
  PROVE  HarmlessCalls
<1>1. call'[th].pc = c.pc /\ \A o \in Threads : o # th => call'[o] = call[o]
  BY DEF Call
<1> QED BY <1>1 DEF HarmlessCalls, Harmless

LEMMA MethodHarmless ==
  ASSUME TypeOK, NEW th \in Threads, Method(th)
  PROVE  HarmlessCalls /\ UNCHANGED <<mAdapterState, mNextState, mLock, app>> /\ call[th].pc = "body"
<1> USE DEF stateVars
<1>1. UNCHANGED <<mAdapterState, mNextState, mLock, app>> /\ call[th].pc = "body"
  BY DEF Method, UseBuffersPreview, startPreview, stopPreview, cancelAutoFocus, CaptureBody,
         startVideoCapture, stopVideoCapture, autoFocus, stopSmoothZoom, startSmoothZoom, Body
<1>2. \E p \in {"commit", "rollback"} : call' = [call EXCEPT ![th].pc = p]
  BY DEF Method, UseBuffersPreview, startPreview, stopPreview, cancelAutoFocus, CaptureBody,
         startVideoCapture, stopVideoCapture, autoFocus, stopSmoothZoom, startSmoothZoom, Result
<1>3. /\ call'[th].pc \in {"commit", "rollback"} /\ call'[th].op = call[th].op
      /\ \A o \in Threads : o # th => call'[o] = call[o]
  BY <1>2 DEF TypeOK, Call
<1> QED BY <1>1, <1>3 DEF HarmlessCalls, Harmless

LEMMA FirstCommands ==
  /\ \A name : AppCommands(name) # <<>> => Head(AppCommands(name)) # UseImage
  /\ \A s, op : op \in RollbackCommands(s) => op \notin {NONE, UseImage}
  /\ NONE \notin CameraCommands
<1>1. \A name : AppCommands(name) # <<>> => Head(AppCommands(name)) # UseImage
  BY DEF AppCommands, UseImage
<1>2. \A s, op : op \in RollbackCommands(s) => op \notin {NONE, UseImage}
  BY DEF RollbackCommands, UseImage, NONE
<1>3. NONE \notin CameraCommands
  BY DEF CameraCommands, NONE
<1> QED BY <1>1, <1>2, <1>3

(* What each step but setState, commitState and rollbackState leaves alone. *)
OtherStep ==
  \/ \E th \in Threads : Method(th)
  \/ \E th \in {"omx", "af"} : Report(th)
  \/ \E name \in HalCalls, zoom \in ZoomIdx : AppBegin(name, zoom)
  \/ AppCall
  \/ \E zoom \in ZoomIdx : setParameters(zoom)
  \/ getParameters \/ endImageCallback \/ signalEndImageCapture
  \/ PreviewFrame \/ doAutoFocus
  \/ UNCHANGED vars

LEMMA OtherStepHarmless ==
  ASSUME TypeOK, LockHeld, QueryFirst, OtherStep
  PROVE  /\ UNCHANGED <<mAdapterState, mNextState, mLock>>
         /\ HarmlessCalls
         /\ NoCommandYet => HeadStays
<1> DEFINE Done == /\ UNCHANGED <<mAdapterState, mNextState, mLock>>
                   /\ HarmlessCalls
                   /\ NoCommandYet => HeadStays
<1> USE DEF stateVars
<1>1. /\ call \in [Threads -> Call] /\ app.todo \in Seq(CameraCommands)
      /\ {"app", "omx", "af", "cmd"} = Threads
  BY DEF TypeOK, CallOfApp, Threads
<1>2. UNCHANGED call => HarmlessCalls
  BY DEF HarmlessCalls, Harmless
<1>3. UNCHANGED <<call, app>> => HeadStays
  BY DEF HeadStays
<1>4. ASSUME NEW th \in Threads, Method(th) PROVE Done
  <2>1. mLock = th /\ th # NONE
    BY <1>1, <1>4, MethodHarmless DEF LockHeld, NONE
  <2> QED BY <1>4, <2>1, MethodHarmless DEF NoCommandYet
<1>5. ASSUME NEW th \in {"omx", "af"}, Report(th) PROVE Done
  <2>1. UNCHANGED <<mAdapterState, mNextState, mLock, app>>
    BY <1>5 DEF Report, returnFocusStatus, notifyFocusSubscribers, FocusCallback
  <2>2. CASE \E next : Send(th, "CANCEL_AUTOFOCUS", next)
    <3>1. HarmlessCalls
      BY <1>1, <2>2, SendHarmless DEF NONE, UseImage
    <3>2. call'["app"] = call["app"]
      BY <1>1, <2>2 DEF Send
    <3> QED BY <2>1, <3>1, <3>2 DEF HeadStays
  <2>3. CASE call' = [call EXCEPT ![th] = Idle]
    <3>1. Idle.pc = "idle"
      BY DEF Idle
    <3>2. HarmlessCalls
      BY <1>1, <2>3, <3>1, PcHarmless
    <3>3. call'["app"] = call["app"]
      BY <1>1, <2>3
    <3> QED BY <2>1, <3>2, <3>3 DEF HeadStays
  <2>4. CASE call' = [call EXCEPT ![th].pc = "tell"]
    <3> DEFINE c == [Idle EXCEPT !.pc = "tell"]
    <3>1. c.pc = "tell"
      BY DEF Idle
    <3>2. HarmlessCalls
      BY <1>1, <2>4, <3>1, PcHarmless
    <3>3. call'["app"] = call["app"]
      BY <1>1, <2>4
    <3> QED BY <2>1, <3>2, <3>3 DEF HeadStays
  <2> QED BY <1>5, <2>2, <2>3, <2>4 DEF Report, returnFocusStatus, notifyFocusSubscribers, FocusCallback
<1>6. ASSUME NEW name \in HalCalls, NEW zoom \in ZoomIdx, AppBegin(name, zoom) PROVE Done
  <2>1. UNCHANGED <<mAdapterState, mNextState, mLock, call>> /\ app'.todo = AppCommands(name)
    BY <1>6 DEF AppBegin
  <2> QED BY <1>2, <2>1, FirstCommands DEF HeadStays
<1>7. CASE AppSend
  <2>1. /\ Head(app.todo) \in CameraCommands /\ Send("app", Head(app.todo), NONE)
        /\ app.todo # <<>> /\ call["app"].pc = "idle"
        /\ UNCHANGED <<mAdapterState, mNextState, mLock>>
    BY <1>1, <1>7 DEF AppSend
  <2>2. HarmlessCalls /\ call'["app"].pc = "set"
    BY <1>1, <2>1, SendHarmless, FirstCommands DEF QueryFirst
  <2> QED BY <2>1, <2>2 DEF HeadStays
<1>8. CASE AppError
  <2>1. UNCHANGED <<mAdapterState, mNextState, mLock, call>>
    BY <1>8 DEF AppError
  <2>2. app'.todo \in {<<>>, <<"STOP_PREVIEW">>}
    <3>1. app \in CallOfApp /\ AppIdle.todo = <<>>
      BY DEF TypeOK, AppIdle
    <3>2. \/ app' = [app EXCEPT !.todo = <<"STOP_PREVIEW">>, !.ok = FALSE, !.step = "error"]
          \/ app' = [app EXCEPT !.todo = <<>>, !.ok = FALSE]
          \/ app' = AppIdle
      BY <1>8, Zenon DEF AppError
    <3> QED BY <3>1, <3>2 DEF CallOfApp
  <2> QED BY <1>2, <2>1, <2>2 DEF HeadStays, UseImage
<1>9. CASE RollbackLoop
  <2>1. UNCHANGED <<mAdapterState, mNextState, mLock, call>> /\ app'.todo = app.todo
    BY <1>9 DEF RollbackLoop, TypeOK, CallOfApp
  <2> QED BY <1>2, <2>1 DEF HeadStays
<1>10. CASE rollbackToPreviousState
  <2>1. UNCHANGED <<mAdapterState, mNextState, mLock>> /\ app'.todo = app.todo
    BY <1>10 DEF rollbackToPreviousState, TypeOK, CallOfApp
  <2>2. CASE UNCHANGED call
    BY <1>2, <2>1, <2>2 DEF HeadStays
  <2>3. CASE \E op \in RollbackCommands(mAdapterState) : Send("app", op, NONE)
    <3>1. HarmlessCalls /\ call'["app"].pc = "set"
      BY <1>1, <2>3, SendHarmless, FirstCommands
    <3> QED BY <2>1, <3>1 DEF HeadStays
  <2> QED BY <1>10, <2>2, <2>3 DEF rollbackToPreviousState
<1>11. CASE AppReturn
  <2>1. UNCHANGED <<mAdapterState, mNextState, mLock, call>> /\ app'.todo = <<>>
    BY <1>11 DEF AppReturn, AppIdle
  <2> QED BY <1>2, <2>1 DEF HeadStays
<1>12. ASSUME NEW zoom \in ZoomIdx, restartPreview(zoom) PROVE Done
  <2>1. UNCHANGED <<mAdapterState, mNextState, mLock, call>>
        /\ app'.todo = AppCommands("startPreview")
    BY <1>12 DEF restartPreview
  <2> QED BY <1>2, <2>1, FirstCommands DEF HeadStays
<1>13. ASSUME NEW zoom \in ZoomIdx, setParameters(zoom) PROVE Done
  BY <1>2, <1>3, <1>13 DEF setParameters
<1>14. CASE getParameters
  <2>1. /\ UNCHANGED <<mAdapterState, mNextState, mLock>>
        /\ Send("app", "STOP_SMOOTH_ZOOM", "zoom") /\ app'.todo = <<>>
    BY <1>14 DEF getParameters, AppIdle
  <2>2. HarmlessCalls
    BY <1>1, <2>1, SendHarmless DEF NONE, UseImage
  <2> QED BY <2>1, <2>2 DEF HeadStays
<1>15. CASE endImageCallback \/ FillBufferDone \/ FocusPending \/ AfGet \/ AfCheck \/ AfArm
  BY <1>2, <1>3, <1>15 DEF endImageCallback, FillBufferDone, FocusPending, AfGet, AfCheck, AfArm
<1>16. CASE signalEndImageCapture
  <2>1. /\ UNCHANGED <<mAdapterState, mNextState, mLock, app>>
        /\ Send("cmd", "STOP_IMAGE_CAPTURE", NONE)
    BY <1>16 DEF signalEndImageCapture
  <2>2. HarmlessCalls
    BY <1>1, <2>1, SendHarmless DEF NONE, UseImage
  <2>3. call'["app"] = call["app"]
    BY <1>1, <2>1 DEF Send
  <2> QED BY <2>1, <2>2, <2>3 DEF HeadStays
<1>17. CASE advanceZoom
  <2>1. /\ UNCHANGED <<mAdapterState, mNextState, mLock, app>>
        /\ UNCHANGED call \/ Send("omx", "STOP_SMOOTH_ZOOM", "zoom")
    BY <1>17 DEF advanceZoom
  <2>2. CASE Send("omx", "STOP_SMOOTH_ZOOM", "zoom")
    <3>1. HarmlessCalls
      BY <1>1, <2>2, SendHarmless DEF NONE, UseImage
    <3>2. call'["app"] = call["app"]
      BY <1>1, <2>2 DEF Send
    <3> QED BY <2>1, <3>1, <3>2 DEF HeadStays
  <2> QED BY <1>2, <1>3, <2>1, <2>2
<1>18. CASE checkFocusStatus \/ AfImmediate \/ AfTimeout
  <2>1. UNCHANGED <<mAdapterState, mNextState, mLock, app>>
    BY <1>18 DEF checkFocusStatus, AfImmediate, AfTimeout
  <2>2. PICK th \in {"omx", "af"} : call' = [call EXCEPT ![th].pc = "status"]
    BY <1>18 DEF checkFocusStatus, AfImmediate, AfTimeout
  <2> DEFINE c == [Idle EXCEPT !.pc = "status"]
  <2>3. c.pc = "status"
    BY DEF Idle
  <2>4. HarmlessCalls
    BY <1>1, <2>2, <2>3, PcHarmless
  <2>5. call'["app"] = call["app"]
    BY <1>1, <2>2
  <2> QED BY <2>1, <2>4, <2>5 DEF HeadStays
<1>19. CASE UNCHANGED vars
  BY <1>2, <1>3, <1>19 DEF vars
<1> QED
  BY <1>4, <1>5, <1>6, <1>7, <1>8, <1>9, <1>10, <1>11, <1>12, <1>13, <1>14, <1>15, <1>16,
     <1>17, <1>18, <1>19
     DEF OtherStep, AppCall, PreviewFrame, doAutoFocus

(* setState refuses USE_BUFFERS_PREVIEW only in a state other than         *)
(* INTIALIZED_STATE, in which mNextState has been set.                     *)
LEMMA UseBuffersInInitialized ==
  NextStates(INTIALIZED_STATE, "USE_BUFFERS_PREVIEW") # {}
<1> DEFINE e == <<INTIALIZED_STATE, "USE_BUFFERS_PREVIEW", LOADED_PREVIEW_STATE>>
<1>1. /\ e \in ModeSwitch /\ e[1] = INTIALIZED_STATE /\ e[2] = "USE_BUFFERS_PREVIEW"
      /\ e # <<PREVIEW_STATE, "STOP_PREVIEW", INTIALIZED_STATE>>
  BY DEF ModeSwitch
<1>2. INTIALIZED_STATE = INTIALIZED_STATE \ Overlays
  BY DEF INTIALIZED_STATE, Overlays
<1> HIDE DEF e
<1>3. ModeNext(INTIALIZED_STATE, "USE_BUFFERS_PREVIEW") # {}
  BY <1>1, <1>2 DEF ModeNext
<1> QED BY <1>3 DEF NextStates

LEMMA SetStateInv ==
  ASSUME AdapterInv, TransitionInv, NEW th \in Threads, setState(th)
  PROVE  TransitionInv'
<1>1. /\ call \in [Threads -> Call] /\ mLock = NONE /\ mLock' = th /\ th # NONE
      /\ call[th].pc = "set" /\ mAdapterState' = mAdapterState
  BY DEF AdapterInv, TypeOK, setState, stateVars, Threads, NONE
<1>2. /\ call'[th].pc \in {"body", "commit", "rollback"} /\ call'[th].op = call[th].op
      /\ \A o \in Threads : o # th => call'[o] = call[o]
  BY <1>1 DEF setState, Call
<1>3. QueryFirst'
  BY <1>1 DEF QueryFirst, NoCommandYet
<1>4. CommandNamed'
  BY <1>1, <1>2 DEF TransitionInv, CommandNamed
<1>5. \A o \in Threads : o # th => call[o].pc \notin {"body", "commit"}
  BY <1>1 DEF AdapterInv, LockHeld, Threads, NONE
<1>6. call'[th].pc \in {"body", "commit"} =>
        mNextState' \in Committable(mAdapterState, call[th].op)
  <2>1. CASE NextStates(mAdapterState, call[th].op) # {}
    BY <2>1 DEF setState, Committable
  <2>2. CASE NextStates(mAdapterState, call[th].op) = {} /\ call[th].op \in UseBuffers
    <3>1. mNextState' = mNextState
      BY <2>2 DEF setState
    <3>2. mNextState = mAdapterState
      <4>1. CASE mAdapterState = INTIALIZED_STATE
        <5>1. call[th].op = UseImage
          BY <2>2, <4>1, UseBuffersInInitialized DEF UseBuffers, UseImage
        <5> QED BY <1>1, <5>1 DEF TransitionInv, QueryFirst, NoCommandYet
      <4>2. CASE mAdapterState # INTIALIZED_STATE
        BY <1>1, <4>2 DEF AdapterInv, Settled
      <4> QED BY <4>1, <4>2
    <3> QED BY <3>1, <3>2 DEF Committable
  <2>3. CASE NextStates(mAdapterState, call[th].op) = {} /\ call[th].op \notin UseBuffers
    <3>1. call'[th].pc = "rollback"
      BY <1>1, <2>3 DEF setState, Call
    <3> QED BY <3>1
  <2> QED BY <2>1, <2>2, <2>3
<1>7. Chosen'
  BY <1>1, <1>2, <1>5, <1>6 DEF Chosen
<1> QED BY <1>3, <1>4, <1>7 DEF TransitionInv

(* At the end of a command mNextState is mAdapterState from then on.       *)
LEMMA CommandEndInv ==
  ASSUME AdapterInv, TransitionInv, NEW th \in Threads, commitState(th) \/ rollbackState(th)
  PROVE  TransitionInv'
<1>1. /\ call \in [Threads -> Call] /\ mNextState' = mAdapterState'
      /\ call[th].pc \in {"commit", "rollback"}
      /\ \E ok \in BOOLEAN : call' = [call EXCEPT ![th] = AfterCommand(@.next, ok)]
  BY DEF AdapterInv, TypeOK, commitState, rollbackState, Resume
<1>2. /\ call'[th].pc \in {"idle", "notify", "tell"}
      /\ \A o \in Threads : o # th => call'[o] = call[o]
  BY <1>1, AfterCommandTyped
<1>3. \A o \in Threads : call'[o].pc \notin {"body", "commit", "rollback"}
  BY <1>1, <1>2 DEF AdapterInv, LockHeld
<1>4. QueryFirst' /\ Chosen'
  BY <1>1, <1>3 DEF QueryFirst, NoCommandYet, Chosen
<1>5. CommandNamed'
  BY <1>2, <1>3 DEF TransitionInv, CommandNamed
<1> QED BY <1>4, <1>5 DEF TransitionInv

LEMMA StepKinds ==
  ASSUME [Next]_vars
  PROVE  OtherStep \/ \E th \in Threads : setState(th) \/ commitState(th) \/ rollbackState(th)
  BY DEF Next, Command, OtherStep

LEMMA NextTransitionInv ==
  AdapterInv /\ TransitionInv /\ [Next]_vars => TransitionInv'
<1> SUFFICES ASSUME AdapterInv, TransitionInv, [Next]_vars PROVE TransitionInv'
  OBVIOUS
<1>1. CASE OtherStep
  <2>1. TypeOK /\ LockHeld /\ QueryFirst
    BY DEF AdapterInv, TransitionInv
  <2> QED BY <1>1, <2>1, OtherStepHarmless, HarmlessStep
<1> QED BY <1>1, StepKinds, SetStateInv, CommandEndInv

LEMMA InitTransitionInv == Init => TransitionInv
<1> SUFFICES ASSUME Init PROVE TransitionInv
  OBVIOUS
<1>1. \A th \in Threads : call[th].pc = "idle"
  BY DEF Init, Idle
<1>2. app.todo = <<>>
  BY DEF Init, AppIdle
<1> QED BY <1>1, <1>2 DEF TransitionInv, QueryFirst, Chosen, CommandNamed

(* AdapterCommands has the table of AdapterState.                          *)
LEMMA SameTable ==
  ASSUME NEW s, NEW op PROVE Commands!NextStates(s, op) = NextStates(s, op)
<1>1. Commands!ModeSwitch = ModeSwitch /\ Commands!Overlays = Overlays
      /\ Commands!PREVIEW_STATE = PREVIEW_STATE /\ Commands!INTIALIZED_STATE = INTIALIZED_STATE
  BY Zenon
     DEF ModeSwitch, Overlays, INTIALIZED_STATE, LOADED_PREVIEW_STATE, PREVIEW_STATE,
         LOADED_CAPTURE_STATE, CAPTURE_STATE, VIDEO_STATE, VIDEO_LOADED_CAPTURE_STATE,
         VIDEO_CAPTURE_STATE, Commands!ModeSwitch, Commands!Overlays,
         Commands!INTIALIZED_STATE, Commands!LOADED_PREVIEW_STATE, Commands!PREVIEW_STATE,
         Commands!LOADED_CAPTURE_STATE, Commands!CAPTURE_STATE, Commands!VIDEO_STATE,
         Commands!VIDEO_LOADED_CAPTURE_STATE, Commands!VIDEO_CAPTURE_STATE
<1>2. Commands!ModeNext(s, op) = ModeNext(s, op)
  BY <1>1 DEF ModeNext, Commands!ModeNext
<1>3. Commands!OverlayNext(s, op) = OverlayNext(s, op)
  BY DEF OverlayNext, Commands!OverlayNext
<1> QED BY <1>2, <1>3 DEF NextStates, Commands!NextStates

LEMMA StepImplements ==
  ASSUME AdapterInv, AdapterInv', TransitionInv, [Next]_vars
  PROVE  [Commands!Next]_(Commands!vars)
<1> USE DEF Commands!vars
<1>1. LockHeld /\ LockHeld' /\ call \in [Threads -> Call] /\ mLock \in Threads \cup {NONE}
  BY DEF AdapterInv, TypeOK
<1>2. NONE \notin Threads /\ Commands!NoCommand = NONE
  BY DEF Threads, NONE, Commands!NoCommand
<1>3. CASE OtherStep
  <2>1. UNCHANGED <<mAdapterState, mLock>> /\ HarmlessCalls
    BY <1>1, <1>3, OtherStepHarmless DEF AdapterInv, TransitionInv
  <2>2. mLock \in Threads => call'[mLock].op = call[mLock].op
    BY <1>1, <2>1 DEF LockHeld, HarmlessCalls, Harmless
  <2>3. InProgress' = InProgress
    BY <1>1, <2>1, <2>2 DEF InProgress
  <2> QED BY <2>1, <2>3
<1>4. ASSUME NEW th \in Threads, setState(th) PROVE Commands!Next
  <2>1. /\ mLock = NONE /\ mLock' = th /\ mAdapterState' = mAdapterState
        /\ call[th].pc = "set" /\ call'[th].op = call[th].op
    BY <1>1, <1>4 DEF setState, stateVars, Call
  <2>2. call[th].op \in CameraCommands
    BY <1>1, <2>1 DEF TransitionInv, CommandNamed, Call
  <2>3. InProgress = NONE /\ InProgress' = call[th].op
    BY <1>2, <2>1 DEF InProgress
  <2>4. Commands!Begin(call[th].op)
    BY <1>2, <2>1, <2>3 DEF Commands!Begin
  <2> QED BY <2>2, <2>4 DEF Commands!Next, CameraCommands, Commands!CameraCommands
<1>5. ASSUME NEW th \in Threads, commitState(th) \/ rollbackState(th) PROVE Commands!Next
  <2>1. call[th].pc \in {"commit", "rollback"} /\ mLock = th /\ mLock' = NONE
    BY <1>1, <1>5 DEF commitState, rollbackState, LockHeld
  <2>2. call[th].op # NONE
    BY <2>1 DEF TransitionInv, CommandNamed
  <2>3. InProgress = call[th].op /\ InProgress # NONE /\ InProgress' = NONE
    BY <1>2, <2>1, <2>2 DEF InProgress
  <2>4. mAdapterState' \in Committable(mAdapterState, call[th].op)
    <3>1. CASE commitState(th)
      BY <3>1 DEF commitState, TransitionInv, Chosen
    <3>2. CASE rollbackState(th)
      BY <3>2 DEF rollbackState, Committable
    <3> QED BY <1>5, <3>1, <3>2
  <2>5. CASE mAdapterState' = mAdapterState
    BY <1>2, <2>3, <2>5 DEF Commands!Next, Commands!Refuse
  <2>6. CASE mAdapterState' \in NextStates(mAdapterState, call[th].op)
    BY <1>2, <2>3, <2>6, SameTable DEF Commands!Next, Commands!Complete
  <2> QED BY <2>4, <2>5, <2>6 DEF Committable
<1> QED BY <1>3, <1>4, <1>5, StepKinds

(* For any calls, failures and interleavings of the four threads, the      *)
(* state changes only by the transition of the one command in progress:    *)
(* sendCommand's steps implement AdapterCommands.                          *)
THEOREM AdapterImplements == Spec => CommandsAtomic
<1>1. Init => Commands!Init
  BY DEF Init, Commands!Init, InProgress, Commands!NoCommand, NONE,
         INTIALIZED_STATE, Commands!INTIALIZED_STATE
<1> QED
  BY <1>1, InitAdapterInv, NextAdapterInv, InitTransitionInv, NextTransitionInv, StepImplements, PTL
     DEF Spec, CommandsAtomic, Commands!Spec
===============================================================================
