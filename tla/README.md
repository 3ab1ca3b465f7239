# TLA+ models of the gs702a device tree

`src/` is the Android device tree of the Actions gs702a tablets: hardware
abstraction libraries, a display service, firmware and packaging. Most of its
own logic, and nearly all of its concurrency, is in the camera HAL
(`src/hardware/libcamera`, about 35 000 lines). This directory models the core
of that HAL: how preview frames circulate between the camera, the display and
the application, how the commands of several threads change the state of the
camera adapter, how the adapter converses with the OMX component that drives the
camera, and how a picture is taken.

## 1. Inventory

### Camera HAL

| Component | State | Operations | Runs on |
|---|---|---|---|
| Stream hub (`BaseCameraAdapter.cpp`: `CameraStreamBuffer`, `CameraStream`, `CameraStreamHub`) | reference counts per buffer and frame type and their sum, registered buffers, subscribers per type, `mLock`, `mLocks[type]`, `mReturnFrameLock` | `sendFrame`, `returnFrame`, `subscribe`, `unsubscribe`, `clearRefCount` | OMX callback thread, consumers, CameraHal |
| Adapter state machine (`BaseCameraAdapter.cpp`) | `mAdapterState`, `mNextState`, `mLock`, `mRecording` | `sendCommand`, `setState`, `commitState`, `rollbackState`, the `rollbackTo...` loops | all threads |
| OMX adapter (`OMXCameraAdapter.cpp`) | buffers with the component, `mPortEnable`, `mStateSwitchLock`, queues of three handler threads | `UseBuffersPreview`, `startPreview`, `stopPreview`, `fillThisBuffer`, `FillBufferDone` | CameraHal, OMX callback |
| Autofocus (`OMXFocus.cpp`) | `mCheckAF`, `mDoAFCond` | `doAutoFocus`, `stopAutoFocus`, `checkFocusStatus`, `returnFocusStatus` | AFHandler, OMX callback |
| Zoom (`OMXZoom.cpp`) | current and target index, step, `mReturnZoomStatus`, `mZoomLock` | `setParametersZoom`, `startSmoothZoom`, `stopSmoothZoom`, `advanceZoom` | CameraHal, OMX callback |
| CameraHal (`CameraHal.cpp`) | `mPreviewEnabled`, `mRecordingEnabled`, `mAfterTakePicture`, parameters, `mLock` | the camera device calls | binder thread, CommandHandler |
| Callback notifier (`AppCallbackNotifier.cpp`) | resize, JPEG, event and frame queues, `mRecording` | `frameCallback`, `releaseRecordingFrame`, flushes, notifications | OMX callback, notifier threads |
| Display adapter (`ANativeWindowDisplayAdapter.cpp`) | buffers with the window, `mDisplayQ`, paused/suspended | `PostFrame`, `handleFrameReturn`, enable/disable | OMX callback, display thread |
| OMX events (`OMXCameraAdapter.cpp`) | `mEventSignalQ`, a semaphore per exchange, `mComponentState`, the handle | `RegisterForEvent`, `SignalEvent`, `RemoveEvent`, `performCleanupAfterError`, `switchToLoaded` | CameraHal, OMX event callback |
| Image capture (`OMXCapture.cpp`, `AppCallbackNotifier.cpp`) | `mCapturedFrames`, capture flags, image queues, `mPictureValid`, messages to CommandHandler | `takePicture`, `cancelPicture`, `UseBuffersCapture`, `startImageCapture`, `stopImageCapture`, `signalEndImageCapture`, the flushes | CameraHal, CommandHandler, OMX callback, three notifier threads |
| Utilities (`libutils`) | pipes, semaphores | `MessageQueue::get/put`, `Semaphore` | all |
| Video engine client (`Vce/OMXVce.cpp`) | ports of a closed OMX component | resize, face detection, JPEG | notifier threads |

They interact by direct calls under locks (CameraHal to the adapter, the hub
to its subscribers' callbacks, which call `returnFrame` again), by message
queues (to AFHandler, CommandHandler, the display thread, the notifier
threads) and by shared state read without a lock (`mAdapterState`,
`mNextState`, `mRecording`). What is hard here: a frame is counted, delivered,
returned and cleared by different threads at once; state is read, the lock
dropped, and a command sent; a timeout, a frame and the application race to
end one autofocus run; a lock is taken in one command and released in another;
two mutexes are taken in both orders; every command may fail half way.

What makes each part correct:

* hub: counts are exact; a frame is filled again only after every consumer has
  returned it; no buffer drops out of the cycle; the preview keeps running;
* state machine: no transition is left half done; refused and failed commands
  leave the state as it was; every command ends; rollback loops terminate;
* autofocus: each run ends and is reported at most once;
* zoom: the index stays in its table and a smooth zoom goes to its target;
* CameraHal: the flags tell the truth about the adapter between two calls;
* events: a wait that succeeds means that its command was carried out, although
  registrations match with wildcards and events may come after a timeout;
  between operations the adapter knows the component's state; the component is
  freed however a session went;
* image capture: pictures answer calls in order and at most once, a frame is not
  filled while it is encoded, every call returns, a capture ends by itself.

### The rest of the tree

* Bluetooth vendor libraries (`src/hardware/bluetooth`): a firmware download
  state machine driven by HCI callbacks, and low power mode with a timer.
* Sensors (`src/hardware/libsensor`): input event ring buffer, polling.
* Display service (`src/frameworks`, Java and JNI), hardware composer, HDMI,
  CVBS, display engine: cable hot-plug, mode switching, mostly ioctl and sysfs.
* Lights, Wi-Fi (`src/wifi/wifi.c`: driver loading and the supplicant control
  socket), release tools.
* Vendored: `hardware/dosfs`, wpa_supplicant copies, net-tools, prebuilts,
  kernel, configuration data. Not modelled.

`PROJECT.json` lists every part with its status, and under "hazards" the
places in the code that tests would hardly reach.

## 2. Plan

Order, most important behaviour first; all but steps 12 and 13 are done.

1. `CameraStreamHub`: the frame cycle, reference counts, locks.
2. `AdapterState` and `BaseCameraAdapter`: commands, autofocus, zoom, CameraHal.
3. `CameraStreamHubProofs`: types and exact counts for all constants.
4. `BaseCameraAdapterProofs`: exclusion of commands, settled transitions,
   recording, the zoom index.
5. `OMXEvents`: `RegisterForEvent`, `SignalEvent`, `RemoveEvent` with timeouts,
   late events, failing calls and hardware errors.
6. `ImageCapture`: `mCapturedFrames`, the end message of an earlier capture,
   flushing on cancel, the notifier's threads.
7. `PictureSession`, the abstract specification of taking pictures, and
   `ImageCaptureProofs`: `ImageCapture` implements it.
8. `OMXEventsProofs`: types, and the handle is always freed. `AutoFocusProofs`:
   a focus run is reported at most once.
9. `FrameCycleProofs`: `EveryRefOwed` and `NoBufferLost` of the hub, which need
   the owners of its locks in the inductive invariant. `OMXAnswersProofs`: what
   the adapter may conclude from an answer, which needs the order of the
   component's outstanding commands. `CaptureSafetyProofs`: types,
   `SnapshotHeld` and `EndMeansDelivered` of the capture.
10. `ZoomHeadsForTarget` in `BaseCameraAdapterProofs`.
11. `AdapterCommands`, the abstract specification of `sendCommand`, and its
    refinement by `BaseCameraAdapter`.
12. The rest of `AppCallbackNotifier` (preview and video callbacks, recording
    buffers, events) and of the display adapter (pause and disable), composed
    with the hub. An abstract specification of the frame cycle, in which a buffer
    is with the camera or with consumers, would state the hub's invariants as one
    refinement.
13. The Bluetooth firmware download and low power mode, `InputEventReader`'s ring
    buffer, display service, Wi-Fi.

## 3. Modules

| Module | Models |
|---|---|
| `CameraStreamHub` | the preview stream of the hub with its producer and consumers |
| `MCHub` | instances of it for TLC |
| `CameraStreamHubProofs` | theorems about it: types and counts |
| `FrameCycleProofs` | theorems about it: owners of references, the buffers' cycle |
| `AdapterCommands` | what `sendCommand` promises: the abstract specification |
| `AdapterState` | states and transitions of `setState` and the rollback table, as constant operators |
| `BaseCameraAdapter` | `sendCommand` on four threads, with focus, zoom and CameraHal |
| `MCAdapter` | instances of it for TLC |
| `BaseCameraAdapterProofs` | theorems about its command protocol and zoom; it implements `AdapterCommands` |
| `AutoFocusProofs` | the theorem about autofocus |
| `OMXEvents` | every exchange of commands and events with the OMX component, in whole sessions |
| `MCOMX` | instances of it for TLC |
| `OMXEventsProofs` | theorems about it: types, the handle |
| `OMXAnswersProofs` | theorems about it: answers, states and semaphores |
| `PictureSession` | what the HAL promises of pictures: the abstract specification |
| `ImageCapture` | taking a picture, on six threads |
| `MCCapture` | instances of it for TLC |
| `ImageCaptureProofs` | `ImageCapture` implements `PictureSession` |
| `CaptureSafetyProofs` | theorems about it: types, references, the end of a capture |

The modules divide the HAL by the question asked of it; each keeps what the
others have in detail as little as its own question allows. The hub has one
preview session of the adapter, the adapter has frames and captures as single
steps, `ImageCapture` has a preview that runs throughout, `OMXEvents` has the
adapter's operations in the order its states admit.

### CameraStreamHub

A step is what happens between two lock operations. `omx` is the dispatch the
OMX callback thread is in (`FillBufferDone`, `SendLockType`, `SendLockStream`,
`SendToSubscriber`, `SendRelock`); `ret[th]` the `returnFrame` call of a thread
(`ReturnLock`, `getStreamBuffer`, `ReturnDec`, `ReturnFill`), which also runs
inside callbacks on the OMX thread; `hal` the CameraHal thread: one preview
session from `UseBuffersPreview` to `StopPreviewCommit`, with subscriptions and
recording in between, and the loop of `clearRefCount` over the buffers
(`ClearReadOldSum`, `ClearCounts`, `ClearCheck`, `ClearFill`), whose reads of
`mRefCountSum` are outside the buffer's lock as in the code. `held` counts the
frames consumers have received and not given back; the display thread gives
back whichever buffer the window dequeues, one for each message in `mDisplayQ`.
Buffers and cookies are integers because a `KeyedVector` visits them in order.

The paths on which the code gives a buffer up are part of the model:

* `DropIncomplete`: `FillBufferDone` throws away a buffer without data or without
  OMX_BUFFERFLAG_ENDOFFRAME and never queues it again (history: `dropped`);
* `fillThisBuffer`: OMX_FillThisBuffer may fail, and `performCleanupAfterError`
  then frees the component (`mHandleComp`). STOP_PREVIEW finds `mComponentState`
  changed and is refused (`StopPreviewRefused`). A thread that reaches the NULL
  handle takes no further step; `Finished` stands for the process, which may die;
* `CallbackForgetsVideo`: the VIDEO branch of `frameCallback` neither keeps nor
  returns a frame while the notifier's `mRecording` is false (history:
  `forgotten`). The adapter normally sends VIDEO frames only while that flag is
  set, but after a STOP_VIDEO that has failed it sends them on, and the next
  `startRecording` subscribes before it sets the flag. So in the model VIDEO may
  be unsubscribed without a `stopVideoCapture` before it.

Left out: the contents of frames; the capture streams; the display's own
unsubscribe.

### AdapterState and BaseCameraAdapter

An adapter state is the set of its `*_ACTIVE` bits. `ModeSwitch` is the switch
of `setState` on the named state, `OverlayNext` the part for autofocus and zoom
tried when the switch refuses, `RollbackCommands` that of
`rollbackToPreviousState`. `call[th]` is the `sendCommand` in progress on thread
`th`: `setState` takes `mLock`, a method action runs, `commitState` or
`rollbackState` releases the lock and says where the thread goes on. `app` is
the CameraHal call: the commands it has yet to send, its result, and its place
in a rollback loop. AFHandler is `afQ` and `afPc`, a preview frame on the OMX
thread `frame`, the messages for CommandHandler `endMsgs`. `focusOwed` is a
history variable: autofocus runs neither reported nor cancelled. CameraHal's
own `mLock` is the condition that CommandHandler and a call in `LockedCalls`
are not both inside. `mNextState` starts uninitialised: any of two values.
`AppError` is a call that gives up between two commands: `startPreview`, which
then sends STOP_PREVIEW and clears its flags, `startRecording`, `takePicture`.
`Failures` names the commands whose method may fail. CANCEL_AUTOFOCUS is one:
`setFocusMode` may be refused by the component, and `returnFocusStatus` then
rolls back and notifies nobody.

`AdapterCommands` is what a thread that reads the state while others send
commands may rely on: one command at a time, which makes one transition of the
table or none. The refinement takes `mAdapterState` for its `state`, and the
command of the thread that owns `mLock` for its `command` (`InProgress`).

Left out: OMX port programming and parameter parsing; the zoom index in
CameraHal's parameters is any index of the table; whether `mZoomParameterIdx`
has caught up in `getParameters` is left open; a `startPreview` before the
preview window is set, which only notes the wish in `mPreviewStartInProgress`
(the model's window is there before), and `initZoom`, which programs
the port with the current index without looking at it and changes no state of
the adapter (an index outside the table, as far as `ZoomOvershootsByOne` lets it
go, is used there unchecked); CAMERA_PREVIEW_FLUSH_BUFFERS,
which nobody sends, and face detection commands, which do not touch the state.

### OMXEvents

`Exchange` lists what each exchange registers and sends; `call` is the operation
in progress and where it is in its exchange: `register`, `send`, `wait`, then
`check` after a signal or `reset`, `check`, `remove` after a timeout, and `done`
or `fail`. These are separate steps, because the component's callback thread may
run between any two of them: `WaitTimeout` sets the count to zero before
`RemoveEvent` takes the registration away. The component (external) carries out
`cmds` in order, each at any time or never, or rejects one; `OMX_FreeHandle`
discards them. `HardwareError` and `SignalAll` are the two halves of the event
handler's reaction to `OMX_ErrorHardware`, which assigns `mComponentState`
without a lock. `Matches` keeps the numeric values of commands and ports because
`SignalEvent` takes a 0 in a registration for "any": `OMX_CommandStateSet` is 0,
so a registration for a state change accepts any command with the right datum,
and the preview port is 0, so a registration for it accepts any port.

`session` selects the operations as the adapter's states do. What the code does
after its EXIT labels differs and is kept: `initialize` looks only at `eError`
and reports success after a timeout, with the handle freed; `disableImagePort`
has no cleanup of its own, which `stopPreview` then does; the result of
`switchToLoaded` is not looked at; after a timeout `UseBuffersPreview` signals a
port event where the others remove their registration. An operation on an
adapter whose handle is gone is not started: what OMX does with NULL is not in
the repository.

Left out: port formats and other parameters; `switchToExecuting` and
`flushBuffers`, which nothing calls. `mDoAFSem` and the like are not used for
events.

### PictureSession and ImageCapture

`PictureSession` has two variables, the number of calls accepted and the calls
answered so far, and says that pictures come in the order of the calls, each
call's at most once. `ImageCapture` maps them to its history variables `taken`
and `delivered`; a frame carries in `shot` the call whose capture it belongs to.

`hal` is the call that holds `CameraHal::mLock`, of the application or of
CommandHandler (`signalEndImageCapture`); in `mTakePictureWait` the application
is `wait` or `woken` in `app`. `cmd` is CommandHandler, `omx` the dispatch on the
OMX callback thread, `queue`, `flush`, `mPictureValid` and `hand` the resize and
JPEG workers, `notifier` the thread that gives the picture to the application
and returns the frame. `startImageCallbacks` and `stopImageCallbacks` post a
flush to one worker after the other and wait for it without a timeout. A frame
is dispatched as RAW and as IMAGE frame; `mCapturedFrames` is decremented after
both. `onReturnFrame` reads `mCapturedFrames` and posts END_IMAGE_CALLBACK
before `returnFrame` drops the reference, as two steps. `getPictureBufferSize`
chooses between a preview frame and the image port and may find the port's size
changed; buffers may fail to be allocated. `encoder` is the worker that makes
pictures of the application's format, the JPEG thread or the resize thread; the
format and `rawWanted` are chosen once for a behaviour.

What may go wrong on the way: `startImageCapture` fails on CommandHandler, which
ignores the result, `stopImageCapture` fails and its command is rolled back
(`RollbackStop`); both free the component (`mHandleComp`), and a thread that
then needs the NULL handle takes no further step (`Dead`: the process may be
gone). FillBufferDone drops an incomplete image frame. `notifyFrame` returns a
frame without giving it to the application when the worker could not make the
picture (history: `unmade`) or the notifier has been stopped. The exit of
`startImageCapture` with NO_INIT is not there: `mStartCaptureSem`, which it
counts, is never signalled.

Left out: the contents of pictures, shutter and raw notifications, flash, 3A
settings, burst captures (`mBurstFrames` is 1 in this code), and references of
preview frames that belong to no picture (they are the hub's subject).

Observations that no property states as an error, since nothing in the code
promises otherwise:

* a late event for the image port's disable answers the preview port's wait
  (`AnsweredMeansDone` excepts the two disables for that reason);
* a count left in `mStopCaptureSem` by an event between `Create(0)` and
  `RemoveEvent` stays, for `disableImagePort` does not look at it, and makes its
  next wait return at once;
* a capture does not end by itself, and the next `takePicture` waits its full
  timeout until the application cancels, if FillBufferDone drops its frame as
  incomplete; if the last reference to the frame comes back before
  `mCapturedFrames` has been decremented; if FillBufferDone counts the frame of a
  cancelled capture against it; or if the return of the capture before, which
  posts END_IMAGE_CALLBACK before it drops its reference, is so late that it takes
  this one's. `overtaken` remembers these until the next capture begins;
* a picture flushed at `cancelPicture` is deleted without being returned, and the
  reference it leaves (`ReferenceLeft`) keeps a later capture with the same buffer
  from ending;
* an autofocus run whose CANCEL_AUTOFOCUS fails stays active: its timeout has been
  used up (`CancelFails`). Only another CANCEL_AUTOFOCUS ends it;
* with CAMERA_MSG_RAW_IMAGE enabled the end may be posted by the RAW frame's
  return, before the picture has been delivered;
* `mCaptureUsePreviewFrame` stays set when allocating image buffers fails;
* `mFrameQ` is not flushed: a picture may arrive after `cancelPicture`.

## 4. Runs

| Run | Result | Shows |
|---|---|---|
| `hub_safety` | holds | two buffers, one starting with the display, and a component that may fail: counts are exact (`SumIsTotal`), every reference has somebody who will drop it but for forgotten VIDEO frames (`EveryRefOwed`), no buffer leaves the cycle (`NoBufferLost`); 1.0 million states |
| `hub_liveness` | holds | one buffer, which may also come back incomplete: `EveryRefOwed` and `NoBufferLost` here too, and then only that takes it out of the cycle; `BufferComesBack`: buffers keep returning to the camera, unless incomplete, forgotten as VIDEO or the component has failed; `CallsComplete`: no dispatch and no unsubscribe is blocked for ever; 54 000 states |
| `adapter_safety` | holds | every call but zoom, failing commands: `Settled`, `RecordingMatchesState`, `FocusToldOnce`, `CommandsAtomic` (the refinement of `AdapterCommands`), no deadlock; 1.3 million states |
| `adapter_zoom` | holds | `Settled` also for the transitions under `mZoomLock`; `ZoomHeadsForTarget`; `ZoomOvershootsByOne`: the index leaves its table by one step at most; 1.9 million states |
| `adapter_liveness` | holds | `EverySetStateCommits`, `CallsReturn` without zoom; `AutoFocusEnds`: a run in hand ends or meets a CANCEL_AUTOFOCUS that fails, and nothing else leaves a run active that nobody has in hand; 40 000 states |
| `omx_events` | holds | sessions with late, missing and rejected answers, failing calls and hardware errors: `AnsweredMeansDone`, `StateAgrees`, `LoadedIsQuiet`, `SemaphoresClear`, `HandleFreed`, `OperationsEnd` |
| `image_capture` | holds | two calls and a cancellation, from a preview frame or the image port, with failing OMX calls: `AnswersInOrder` (the refinement of `PictureSession`), `SnapshotHeld`, `EndMeansDelivered`, `NoReferenceLeft`, `CallsReturn`, `CaptureEnds`; 298 000 states |
| `hub_early_refill` | violated | `FilledOnlyAfterReturn` |
| `hub_start_race` | violated | `NoBufferLost`, when a frame arrives before the commit |
| `zoom_deadlock` | violated | `EverySetStateCommits`, with zoom |
| `preview_flag` | violated | `PreviewEnabledTells` |
| `omx_metadata` | violated | `MetadataOutlivesPort` |

The five violations are behaviours of the code that contradict its own comments:

* `hub_early_refill`: `sendFrame` counts subscribers one at a time. A notifier
  that returns its frame inside the callback drops the sum to zero, the buffer
  is queued with the camera, and then the display receives it. `unsubscribe`,
  which clears the references of frames still held, leads to the same state.
* `hub_start_race`: `startPreview` queues buffers before `commitState`, and
  `FillBufferDone` accepts frames because of `mNextState`, but `fillThisBuffer`
  looks at the committed state only. A frame returned in between is dropped for
  the whole session. The passing hub runs set `EarlyFrames` to FALSE: the first
  frame comes after the commit, as the sensor's start-up delay makes usual.
* `zoom_deadlock`: STOP_SMOOTH_ZOOM takes `mLock`, then `mZoomLock`;
  `advanceZoom` takes them the other way round.
* `preview_flag`: a focus result reported between the two reads of the rollback
  loop makes its command refused; `forceStopPreview` ignores that and
  `mPreviewEnabled` becomes false with the preview running.
* `omx_metadata`: `stopPreview` frees the preview port's metadata buffers
  whatever came of the wait for the port's disable, although the comment there
  says the component would then use freed memory; the wait may have timed out.

The step `stopSmoothZoom` leaves for the next frame is added to an index which
`setParameters` has meanwhile moved to the end of the table; `setPortZoom` logs
that and goes on. `ZoomOvershootsByOne` says how far it goes: one, never two.

`adapter_zoom` does not check deadlock because of `zoom_deadlock`, and
`image_capture` because the system may really stop: a capture whose frame is
lost, after the last call the bounds allow, leaves no step to take. There
`CallsReturn` says that no call is stuck. The other passing runs check it; in the
hub the end of the session, or of the component, stutters (`Finished`).

### Bounds

* Hub: for safety two buffers, one queued and one starting with the display, for
  liveness one; the display on PREVIEW and one more subscriber, whose subscription
  to VIDEO changes during preview; one consumer thread besides the OMX thread.
  Counts concern one buffer at a time, so a second buffer matters only for the
  loop of `clearRefCount` and for the display returning another buffer than the
  one it was given. VIDEO stands for every further type: types are dispatched one
  after the other by the same code. `Incomplete`, whether incomplete frames come,
  is FALSE with two buffers and TRUE elsewhere: a buffer thrown away takes no
  further part, and what is left is the cycle with one buffer less. `MaxHeld` is 1:
  a buffer whose references `unsubscribe` has cleared is not delivered again
  before the consumer has returned its frame. A second PREVIEW subscriber that
  comes and goes is only in `hub_early_refill` (`MCToggled`), and a buffer held
  twice, as a cleared frame and as a newer one, in no run: `EveryRefOwed` and
  `NoBufferLost` are theorems for any `MaxHeld`, any subscriptions and incomplete
  frames.
* Adapter: `MaxFocusMsgs` and `MaxEndMsgs` are 1: a second message waits behind
  the first and is served the same way. `ZOOM_STAGES` is 3 where zoom is looked
  at (a first, a middle and a last index), 1 elsewhere. The sets of calls
  separate zoom from capture because together they exceed what can be explored
  in minutes; autofocus, recording and the preview calls are in both.
* `adapter_liveness` leaves out the capture calls for time. Its failing commands
  are those of the other adapter runs.
* Events: one adapter after another, each with sessions without a bound; every
  exchange may fail. `MaxStale` (2) bounds the registrations and counts left
  over when an operation starts: one left by each kind of exchange that leaves
  any, so that a wrong match with either can happen. `omx_metadata` needs none.
* Capture: one preview and one image buffer, since captures take one frame
  (`mBurstFrames`); `MaxTakes` is 2, so that a message, a frame and a reference
  of one capture meet the next one. `CancelOnce` bounds `cancelPicture` to one
  call, which may come at any time; the theorems hold without it.
  `EndMeansDelivered` and `NoReferenceLeft` speak of behaviours without
  `cancelPicture` and without RAW images. `EarlyFrames` is FALSE: FillBufferDone drops
  an image frame that arrives before START_IMAGE_CAPTURE is committed, and that
  capture, like the start race of the hub, never ends by itself.

### Fairness

Hub: a thread inside `sendFrame`, `returnFrame` or `unsubscribe` goes on and
obtains a mutex that is free again and again (strong fairness: contended
pthread mutexes do not starve a waiter for ever); the component delivers the
buffers it has; consumers give back each frame they hold, as the contract of
SYNC frames asks. The application owes nothing after starting the preview.

Adapter: one strong fairness condition for each thread while it is inside a
call, including the timed wait of `doAutoFocus`, which the code bounds with
`waitRelative`. No frame need arrive and no call need be made.

Events: the HAL's thread runs, its waits included, since each has a timeout, and
the event handler completes what it began. The component need not answer and
nobody need call.

Capture: weak fairness for each thread; strong fairness for CommandHandler, which
waits for `CameraHal::mLock`, and for the image frames in the callback queue,
which is served in order, so preview frames do not overtake one for ever; an
image port that was asked for a frame delivers it (complete or not), and the
preview goes on. The application need not call.
`CallsReturn` depends on `mTakePictureWait`'s timeout.

## 5. Proofs

Every safety invariant and refinement that a passing run checks is also a theorem,
for all values of the constants, but for `NoReferenceLeft`; so is the action
property `ZoomHeadsForTarget`. `BuffersStay` alone has hypotheses besides the
modules' `ASSUME`s.

`CameraStreamHubProofs` holds, for every set of buffers, cookies, threads and
subscriptions:

* `TypeCorrect`: `Spec => []TypeOK`; in particular no reference count, and not
  their sum, goes below zero;
* `SumCorrect`: `Spec => []SumIsTotal`.

The inductive invariant is `RefInv == TypeOK /\ SumIsTotal`. Neither part is
inductive alone: `decRefCount` guards the count of one type and subtracts from
the sum as well, `clearRefCount` subtracts a whole count from it, and the sum
stays a natural number only because it is the total of the counts. The lemmas
`TotalOfNaturals`, `TotalOfNoRefs` and `SetCount` say how the total changes when
one count does; `NextRefInv` has one step for each action. The assumption used
is `HubAssumption`: buffers and cookies are integers, there is a buffer, and the
subscriptions are pairs of a cookie and a frame type.

`FrameCycleProofs` adds, for every set of buffers, subscribers and threads:

* `RefsOwed`: `Spec => []EveryRefOwed`: the count of a buffer and a frame type is
  at most the frames subscribers hold plus the returns under way (it is smaller
  after a clear), but for the VIDEO references of a `forgotten` frame. `OwedInv` adds that a subscriber is
  always one of `Links`, or frames given to it would not be counted in `held`
  (`LinkInv`), that the OMX thread returns frames only within a callback
  (`CallInv`), and that the owners of a count are finitely many, without which
  their number means nothing. Most of the work is arithmetic on cardinalities:
  `OneCopy` and `OneReturn` say by how much a step changes `HeldFrames` and
  `Returns`.
* `BuffersStay`: `Spec => []NoBufferLost`: while the component is there, the only
  buffers that leave the cycle of a running preview are those FillBufferDone threw
  away as incomplete (`dropped`). It has two hypotheses. `DisplayStays`:
  the display's subscription to PREVIEW is not one of those that come and go, as
  in `CameraHal`, which calls `enableDisplay` before START_PREVIEW and
  `disableDisplay` only when it stops the preview; a frame that no subscriber
  wants is never queued again. `~EarlyFrames`: no frame before the commit of
  START_PREVIEW; the run `hub_start_race` shows the property false without it.
  The inductive `CycleInv` strengthens it to `Cycle`: each buffer is with the
  component, referenced, about to be filled, or in a dispatch that has yet to
  reach the display (`Unsent`). A count of zero in the middle of a dispatch is
  harmless only because of the last; and since the dispatch and `clearRefCount`
  alternate, it needs the owners of `mLock` (`LockInv`), that the old sum which
  `clearRefCount` has read is too large at most (`ClearInv`), and what holds
  before the preview starts (`SessionInv`, `StartInv`).

`BaseCameraAdapterProofs` holds, for every set of calls and failures and any
number of zoom stages:

* `TypeCorrect`: `Spec => []TypeOK`, by `NextStatesTyped`: the table of
  `setState` never leaves the enumerated states and their overlays;
* `CommandsExclude`: `Spec => []LockHeld`, the thread between `setState` and the
  end of its command is the owner of `mLock`;
* `SettledCorrect`: `Spec => []Settled`;
* `RecordingCorrect`: `Spec => []RecordingMatchesState`;
* `ZoomCorrect`: `Spec => []ZoomOvershootsByOne`, for any number of stages: the
  inductive `ZoomInv` adds that the index is outside the table only together with
  its target, and that a step left behind by `stopSmoothZoom` does not lead
  further than one past the end;
* `SmoothZoomCorrect`: `Spec => ZoomHeadsForTarget`, an action property. It needs
  one more invariant, `ZoomStarts`: `startSmoothZoom` looks at no state and would
  move the target of a running zoom, but it runs only after `setState` has found
  ZOOM_ACTIVE clear, and only the owner of `mLock` could set it meanwhile;
* `AdapterImplements`: `Spec => CommandsAtomic`, the refinement of
  `AdapterCommands`. `setState` maps to `Begin`, `commitState` to `Complete` or,
  where the state does not change, `Refuse`, `rollbackState` to `Refuse`, every
  other step to a stutter. The inductive `TransitionInv` says that what a command
  may commit is a transition from the present state (`Chosen`). A refused
  USE_BUFFERS commits `mNextState` as it is, which `Settled` makes harmless but
  for the first command ever, when it is uninitialised: `QueryFirst` shows that
  this is never USE_BUFFERS_IMAGE_CAPTURE, because `takePicture` sends a query
  first, and USE_BUFFERS_PREVIEW is not refused in INTIALIZED_STATE.

`RecordingMatchesState` speaks only of states in which no command runs, so the
inductive invariant `AdapterInv` adds what holds inside one: `RecordingInv` says
what `setState` has chosen for VIDEO_ACTIVE (`VideoChosen`) while the method
runs, and with which state `mRecording` agrees while the command waits to be
committed or rolled back. It needs `LockHeld`, or a second thread could change
the state under the first, and `NextStatesVideo`: only START_VIDEO and
STOP_VIDEO change the bit. It also needs the two states to agree on VIDEO_ACTIVE
when the lock is free, even before the first command, since a refused
USE_BUFFERS commits whatever `mNextState` holds. The assumption used is
`AdapterAssumption`.

`AutoFocusProofs` adds `FocusCorrect`: `Spec => []FocusToldOnce`. The equation
between the runs owed, the threads that report and AF_ACTIVE is kept by every
step but the commit of a command, where it needs to know what `setState` chose
for AF_ACTIVE (`FocusChosen`), that only a CANCEL_AUTOFOCUS is followed by a report
(`FocusCall`), and `AdapterInv`: the committing thread owns `mLock`, so no other
command is under way. `NextStatesFocus` says that only the two autofocus commands
touch the bit; the lemmas `ReportingOneMore` and `ReportingOneLess` count.

`OMXEventsProofs` holds, for any set of failing exchanges and any `MaxStale`:

* `TypeCorrect`: `Spec => []TypeOK`; `WaitSignalled` takes only counts that are
  there;
* `HandleCorrect`: `Spec => []HandleFreed`. The inductive invariant `HandleInv`
  follows the destructor and `initialize` through their exchanges: inside the
  destructor only `switchToLoaded`'s exchanges run, each of which ends with
  `mComponentState` Loaded or with `performCleanupAfterError`; `initialize` fails
  only with the handle gone; a closed session has no handle.

`OMXAnswersProofs` adds `AnswersCorrect`, `StatesAgree`, `LoadedQuiet` and
`NoSignalLeft`: `Spec => []AnsweredMeansDone`, `[]StateAgrees`, `[]LoadedIsQuiet`
and `[]SemaphoresClear`. All follow from one inductive invariant, `LiveInv`, for
a component that has its handle and no hardware error (`AliveInv`):

* `CommandInv`: commands outstanding from earlier exchanges are port disables,
  and only while `MayLinger` says so; anything else belongs to the current
  exchange and is last;
* `QueueInv`: the only registrations left over are `disableImagePort`'s, and the
  current one is in the queue at most once and not signalled before;
* `SemInv`: a signal belongs to the current exchange, `mStopCaptureSem` excepted;
* `StateInv`: what each operation knows of `mComponentState` (`KnownState`), and
  when it may differ from the component's state (`Shifting`);
* `AnswerInv`: after the signal the component owes nothing and has done what it
  was asked.

None of these is inductive alone: a wildcard registration is answered by the
right event because no other event can come (`CommandInv`), which holds because
what was left over is known (`QueueInv`, `KnownState`). `HoldInv` and `HandleInv`
say when the handle is there: an operation that fails has given it up.

`ImageCaptureProofs` holds, for any buffers, modes and number of calls:

* `CaptureImplements`: `Spec => AnswersInOrder`, the initial states are initial
  states of `PictureSession` and every step is a step or a stutter of it. The
  step that matters is `notifyFrame`, which appends a frame's call to
  `delivered`; it needs the inductive invariant `PathInv`. `Order` lists the
  stages from the application back to the camera: delivered or `unmade`, in
  `mFrameQ`, in the hand of the worker that makes pictures, in its queue, in dispatch, and still to come (the last call,
  while `mCapturedFrames` is 1 and its frame is not being sent); every call in one
  stage is below every call in the stages behind it, and none is above `taken`.
  `PathTyped` has the types this needs, and that a frame is sent only while
  `mCapturedFrames` is 1. It assumes `CaptureAssumption`.

`CaptureSafetyProofs` adds:

* `CaptureTypeCorrect`: `Spec => []TypeOK`. That `taken` stays within `MaxTakes`
  and `mCapturedFrames` within 0 and 1 needs `TypeInv`, which says which call may
  be at which point, and that one worker at a time is flushed;
* `SnapshotsHeld`: `Spec => []SnapshotHeld`. The inductive `HeldInv` says that a
  preview buffer and a type name at most one frame between `sendFrame` and the
  notifier's `returnFrame` (`OncePerKey`), in two queues, two hands, `mFrameQ`
  and the notifier; that such a frame is counted (`KeysHeld`); and that a buffer in
  dispatch is not counted for the types it has yet to be sent for (`DispatchInv`).
  Without the first a return could take the reference of another picture;
* `EndsDelivered`: `Spec => []EndMeansDelivered`: when the end of a capture is
  signalled, the frame of every call has come to `notifyFrame`, which has given the
  picture to the application unless it came without memory. While the application neither
  cancels nor asks for RAW images (`Calm`), there is one capture at a time, from
  the adapter's acceptance to the stop that END_IMAGE_CALLBACK brings
  (`OneCapture`); outside it every frame has come to `notifyFrame` (`AllGiven`),
  within it at most the last is missing, and the end is signalled after that one
  and once (`PictureInv`, `OneEnd`); only IMAGE frames are on their way (`NoRaw`). That the
  workers' queues are then empty comes from `Order`: what is queued has not been
  given.

Each inductive invariant was checked by TLC on an instance before it was proved.

Only model-checked: `NoReferenceLeft`, and the liveness properties
(`BufferComesBack`, `CallsComplete`, `EverySetStateCommits`, `AutoFocusEnds`,
`CallsReturn`, `OperationsEnd`, `CaptureEnds`). These rest on fairness, that is on
ENABLED, which the installed provers do not handle.

## 6. Not modelled

* Of the camera HAL: preview and video callbacks and recording buffers of the
  notifier, pause and disable of the display adapter, parameter parsing, EXIF,
  3A settings, memory allocation; the first two are step 12 of the plan, the rest
  is data without control. `MessageQueue` is a pipe and appears as a sequence.
* `Vce/OMXVce.cpp` drives a closed component; only its hand-over of buffers could
  be said anything about.
* Bluetooth, sensors, display service, Wi-Fi (step 13 of the plan). The hardware
  composer, HDMI, CVBS and lights consist of ioctl calls and sysfs writes.
* Most of the tree's 2.6 million lines are third-party programs copied into it
  (three copies each of wpa_supplicant and hostapd, busybox, e2fsprogs, kernel
  and prebuilt data). They are not this project's logic; the models therefore
  cover a very small share of the lines in the tree, and about a sixth of those
  in `src/hardware/libcamera`.

## 7. Running

    tlc -config hub_safety.cfg MCHub          # and the other hub_* configurations
    tlc -config adapter_safety.cfg MCAdapter  # and the other configurations
    tlc -config omx_events.cfg MCOMX          # and omx_metadata
    tlc -config image_capture.cfg MCCapture
    tlapm CameraStreamHubProofs.tla           # and the other *Proofs modules
