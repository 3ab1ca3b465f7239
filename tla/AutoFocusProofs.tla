--------------------------- MODULE AutoFocusProofs ---------------------------
(***************************************************************************)
(* A focus run is reported at most once: for any calls, failures and zoom  *)
(* stages.  The runs that are owed are counted through the commands, so    *)
(* the proof rests on the command protocol of BaseCameraAdapterProofs.     *)
(***************************************************************************)
EXTENDS BaseCameraAdapterProofs, FiniteSetTheorems

AF(s) == "AF" \in s

Tells(c) == c.pc \in {"notify", "tell"} \/ c.next = "tell"

(* Only a CANCEL_AUTOFOCUS is followed by a report, and a thread that has  *)
(* no command does not remember an earlier one.                            *)
FocusCall(c) ==
  /\ c.pc \in {"idle", "status", "notify", "tell"} => c.next = NONE
  /\ c.next \in {"focus", "tell"} => c.op = "CANCEL_AUTOFOCUS"

(* What setState has chosen for the command on thread th.                  *)
FocusChosen(th) ==
  CASE call[th].op = "PERFORM_AUTOFOCUS" -> ~AF(mAdapterState) /\ AF(mNextState)
    [] call[th].op = "CANCEL_AUTOFOCUS"  -> AF(mAdapterState) /\ ~AF(mNextState)
    [] OTHER -> AF(mNextState) <=> AF(mAdapterState)

Committing == {"body", "commit"}

FocusInv ==
  /\ FocusToldOnce
  /\ mLock = NONE => (AF(mNextState) <=> AF(mAdapterState))
  /\ \A th \in Threads : /\ FocusCall(call[th])
                         /\ call[th].pc \in Committing => FocusChosen(th)

-----------------------------------------------------------------------------
(* The transition table                                                    *)

LEMMA SwitchFocus ==
  ASSUME NEW e \in ModeSwitch
  PROVE  /\ e[2] \notin {"PERFORM_AUTOFOCUS", "CANCEL_AUTOFOCUS"}
         /\ ~AF(e[3])
  BY DEF AF, ModeSwitch, INTIALIZED_STATE, LOADED_PREVIEW_STATE,
         PREVIEW_STATE, LOADED_CAPTURE_STATE, CAPTURE_STATE, VIDEO_STATE,
         VIDEO_LOADED_CAPTURE_STATE, VIDEO_CAPTURE_STATE

(* Without a preview there is no autofocus.                                *)
LEMMA FocusNeedsPreview ==
  ASSUME NEW s \in AdapterStates, AF(s)
  PROVE  "PREVIEW" \in s
<1>1. s \notin {INTIALIZED_STATE, LOADED_PREVIEW_STATE}
  BY DEF AF, INTIALIZED_STATE, LOADED_PREVIEW_STATE
<1>2. PICK m \in PreviewStates, f \in SUBSET Overlays : s = m \cup f
  BY <1>1 DEF AdapterStates, WithOverlays
<1>3. "PREVIEW" \in m
  BY DEF PreviewStates, PREVIEW_STATE, LOADED_CAPTURE_STATE, CAPTURE_STATE,
         VIDEO_STATE, VIDEO_LOADED_CAPTURE_STATE, VIDEO_CAPTURE_STATE
<1> QED BY <1>2, <1>3

(* Only the two autofocus commands touch AF_ACTIVE.                        *)
LEMMA NextStatesFocus ==
  ASSUME NEW s \in AdapterStates, NEW op, NEW n \in NextStates(s, op)
  PROVE  /\ op = "PERFORM_AUTOFOCUS" => ~AF(s) /\ AF(n)
         /\ op = "CANCEL_AUTOFOCUS"  => AF(s) /\ ~AF(n)
         /\ op \notin {"PERFORM_AUTOFOCUS", "CANCEL_AUTOFOCUS"} => (AF(n) <=> AF(s))
<1>1. CASE ModeNext(s, op) # {}
  <2>1. PICK e \in ModeSwitch :
          /\ e[2] = op
          /\ n = e[3] \cup (IF "PREVIEW" \in s THEN s \cap Overlays ELSE {})
    BY <1>1 DEF ModeNext, NextStates
  <2>2. AF(n) <=> AF(s)
    BY <2>1, SwitchFocus, FocusNeedsPreview DEF AF, Overlays
  <2> QED BY <2>1, <2>2, SwitchFocus
<1>2. CASE ModeNext(s, op) = {}
  BY <1>2 DEF NextStates, OverlayNext, AF
<1> QED BY <1>1, <1>2

-----------------------------------------------------------------------------
(* Counting the reporting threads                                          *)

LEMMA ReportingFinite ==
  /\ IsFiniteSet(Reporting) /\ Cardinality(Reporting) \in Nat
  /\ Reporting = {th \in Threads : Tells(call[th])}
<1>1. IsFiniteSet({"app", "omx", "af", "cmd"})
  <2>1. IsFiniteSet({})
    BY FS_EmptySet
  <2>2. IsFiniteSet({"app"})
    BY FS_Singleton
  <2>3. IsFiniteSet({"app"} \cup {"omx"})
    BY <2>2, FS_AddElement
  <2>4. IsFiniteSet({"app"} \cup {"omx"} \cup {"af"})
    BY <2>3, FS_AddElement
  <2>5. IsFiniteSet({"app"} \cup {"omx"} \cup {"af"} \cup {"cmd"})
    BY <2>4, FS_AddElement
  <2>6. {"app"} \cup {"omx"} \cup {"af"} \cup {"cmd"} = {"app", "omx", "af", "cmd"}
    OBVIOUS
  <2> QED BY <2>5, <2>6
<1>2. Reporting = {th \in Threads : Tells(call[th])} /\ Reporting \subseteq Threads
  BY DEF Reporting, Tells
<1>3. IsFiniteSet(Reporting)
  BY <1>1, <1>2, FS_Subset DEF Threads
<1> QED BY <1>2, <1>3, FS_CardinalityType

LEMMA ReportingSame ==
  ASSUME \A th \in Threads : Tells(call'[th]) <=> Tells(call[th])
  PROVE  Reporting' = Reporting
  BY DEF Reporting, Tells

(* A thread starts or ends its report.                                     *)
LEMMA ReportingOneMore ==
  ASSUME NEW th \in Threads, ~Tells(call[th]), Tells(call'[th]),
         \A o \in Threads \ {th} : call'[o] = call[o]
  PROVE  Cardinality(Reporting') = Cardinality(Reporting) + 1
<1>1. th \notin Reporting /\ Reporting' = Reporting \cup {th}
  BY DEF Reporting, Tells
<1> QED BY <1>1, ReportingFinite, FS_AddElement

LEMMA ReportingOneLess ==
  ASSUME NEW th \in Threads, Tells(call[th]), ~Tells(call'[th]),
         \A o \in Threads \ {th} : call'[o] = call[o]
  PROVE  Cardinality(Reporting') = Cardinality(Reporting) - 1
<1>1. th \in Reporting /\ Reporting' = Reporting \ {th}
  BY DEF Reporting, Tells
<1> QED BY <1>1, ReportingFinite, FS_RemoveElement

-----------------------------------------------------------------------------
(* Steps that leave the states, the lock and the runs owed alone.          *)

(* Thread th keeps its place as far as focus is concerned.                 *)
SameForFocus(th) ==
  \/ call'[th] = call[th]
  \/ /\ FocusCall(call'[th])
     /\ Tells(call'[th]) <=> Tells(call[th])
     /\ call'[th].pc \in Committing => call[th].pc \in Committing /\ call'[th].op = call[th].op

LEMMA FocusUntouched ==
  ASSUME FocusInv, UNCHANGED <<mAdapterState, mNextState, mLock, focusOwed>>,
         \A th \in Threads : SameForFocus(th)
  PROVE  FocusInv'
<1>1. Reporting' = Reporting
  BY ReportingSame DEF SameForFocus
<1>2. FocusToldOnce'
  BY <1>1 DEF FocusInv, FocusToldOnce
<1>3. \A th \in Threads : /\ FocusCall(call'[th])
                          /\ call'[th].pc \in Committing => FocusChosen(th)'
  BY DEF FocusInv, SameForFocus, FocusChosen, AF
<1> QED BY <1>2, <1>3 DEF FocusInv, AF, FocusCall

LEMMA FocusOneThread ==
  ASSUME FocusInv, UNCHANGED <<mAdapterState, mNextState, mLock, focusOwed>>,
         call \in [Threads -> Call], NEW th \in Threads, SameForFocus(th),
         \A o \in Threads \ {th} : call'[o] = call[o]
  PROVE  FocusInv'
<1>1. \A o \in Threads : SameForFocus(o)
  BY DEF SameForFocus
<1> QED BY <1>1, FocusUntouched

(* A thread without a command sends one that is not followed by a report.  *)
LEMMA SendKeepsFocus ==
  ASSUME FocusInv, UNCHANGED <<mAdapterState, mNextState, mLock, focusOwed>>,
         call \in [Threads -> Call], NEW th \in Threads,
         call[th].pc \in {"idle", "status"}, NEW op, NEW next, Send(th, op, next),
         next # "tell", next = "focus" => op = "CANCEL_AUTOFOCUS"
  PROVE  FocusInv'
<1>1. /\ call'[th] = [pc |-> "set", op |-> op, next |-> next]
      /\ \A o \in Threads \ {th} : call'[o] = call[o]
  BY DEF Send
<1>2. ~Tells(call[th])
  BY DEF FocusInv, FocusCall, Tells, NONE
<1>3. SameForFocus(th)
  BY <1>1, <1>2 DEF SameForFocus, FocusCall, Tells, Committing
<1> QED BY <1>1, <1>3, FocusOneThread

(* The method of a command ends.                                           *)
LEMMA MethodKeepsFocus ==
  ASSUME FocusInv, UNCHANGED <<mAdapterState, mNextState, mLock, focusOwed>>,
         call \in [Threads -> Call], NEW th \in Threads, call[th].pc = "body",
         NEW p \in {"commit", "rollback"}, call' = [call EXCEPT ![th].pc = p]
  PROVE  FocusInv'
<1>1. /\ call'[th].pc = p /\ call'[th].op = call[th].op /\ call'[th].next = call[th].next
      /\ \A o \in Threads \ {th} : call'[o] = call[o]
  BY DEF Call
<1>2. SameForFocus(th)
  BY <1>1 DEF FocusInv, SameForFocus, FocusCall, Tells, Committing
<1> QED BY <1>1, <1>2, FocusOneThread

(* A thread without a command goes to report a result.                     *)
LEMMA StatusKeepsFocus ==
  ASSUME FocusInv, UNCHANGED <<mAdapterState, mNextState, mLock, focusOwed>>,
         call \in [Threads -> Call], NEW th \in Threads, call[th].pc = "idle",
         call' = [call EXCEPT ![th].pc = "status"]
  PROVE  FocusInv'
<1>1. /\ call'[th].pc = "status" /\ call'[th].op = call[th].op
      /\ call'[th].next = call[th].next
      /\ \A o \in Threads \ {th} : call'[o] = call[o]
  BY DEF Call
<1>2. SameForFocus(th)
  BY <1>1 DEF FocusInv, SameForFocus, FocusCall, Tells, Committing
<1> QED BY <1>1, <1>2, FocusOneThread

-----------------------------------------------------------------------------
(* The steps that count                                                    *)

LEMMA SetStateFocus ==
  ASSUME AdapterInv, FocusInv, NEW th \in Threads, setState(th)
  PROVE  FocusInv'
<1>0. call \in [Threads -> Call] /\ mAdapterState \in AdapterStates
  BY DEF AdapterInv, TypeOK
<1>1. /\ mLock' # NONE /\ call[th].pc = "set" /\ call'[th].pc \in Inside
      /\ call'[th].op = call[th].op /\ call'[th].next = call[th].next
      /\ \A o \in Threads \ {th} : call'[o] = call[o] /\ call[o].pc \notin Inside
      /\ UNCHANGED <<mAdapterState, focusOwed>>
  BY <1>0 DEF setState, Call, Inside, Threads, NONE, AdapterInv, LockHeld
<1>2. AF(mNextState) <=> AF(mAdapterState)
  BY DEF setState, FocusInv
<1>3. \A o \in Threads : Tells(call'[o]) <=> Tells(call[o])
  BY <1>1 DEF Tells, Inside
<1>4. FocusToldOnce'
  BY <1>1, <1>3, ReportingSame DEF FocusInv, FocusToldOnce
<1>5. \A o \in Threads : FocusCall(call'[o])
  BY <1>1 DEF FocusInv, FocusCall, Inside
<1>6. call'[th].pc \in Committing => FocusChosen(th)'
  <2>1. CASE NextStates(mAdapterState, call[th].op) # {}
    <3>1. mNextState' \in NextStates(mAdapterState, call[th].op)
      BY <2>1 DEF setState
    <3> QED BY <1>0, <1>1, <3>1, NextStatesFocus DEF FocusChosen
  <2>2. CASE NextStates(mAdapterState, call[th].op) = {}
    <3>1. UNCHANGED mNextState
      BY <2>2 DEF setState
    <3>2. call'[th].pc \in Committing => call[th].op \in UseBuffers
      BY <1>0, <2>2 DEF setState, Call, Committing
    <3> QED BY <1>1, <1>2, <3>1, <3>2 DEF FocusChosen, UseBuffers, AF
  <2> QED BY <2>1, <2>2
<1>7. \A o \in Threads \ {th} : call'[o].pc \notin Committing
  BY <1>1 DEF Inside, Committing
<1> QED BY <1>1, <1>4, <1>5, <1>6, <1>7 DEF FocusInv

(* After the end of a command nobody is inside one.                        *)
LEMMA FocusAfterCommand ==
  ASSUME AdapterInv, FocusInv, NEW th \in Threads, mLock = th,
         mNextState' = mAdapterState', NEW ok,
         call'[th] = AfterCommand(call[th].next, ok),
         \A o \in Threads \ {th} : call'[o] = call[o],
         FocusToldOnce'
  PROVE  FocusInv'
<1>1. FocusCall(call'[th]) /\ call'[th].pc \notin Committing
  BY DEF AfterCommand, Idle, FocusCall, Committing, NONE
<1>2. \A o \in Threads \ {th} : FocusCall(call'[o]) /\ call'[o].pc \notin Committing
  BY DEF FocusInv, AdapterInv, LockHeld, Committing
<1> QED BY <1>1, <1>2 DEF FocusInv, AF

LEMMA CommitFocus ==
  ASSUME AdapterInv, FocusInv, NEW th \in Threads, commitState(th)
  PROVE  FocusInv'
<1>0. call \in [Threads -> Call] /\ focusOwed \in Int
  BY DEF AdapterInv, TypeOK
<1>1. /\ call[th].pc = "commit" /\ mLock = th
      /\ mAdapterState' = mNextState /\ mNextState' = mAdapterState'
      /\ call'[th] = AfterCommand(call[th].next, TRUE)
      /\ \A o \in Threads \ {th} : call'[o] = call[o]
  BY <1>0 DEF commitState, Resume, AdapterInv, LockHeld
<1>2. FocusChosen(th) /\ FocusCall(call[th]) /\ FocusToldOnce
  BY <1>1 DEF FocusInv, Committing
<1>3. call[th].next \in {NONE, "focus", "tell", "zoom"}
      /\ (call[th].next = "zoom" => call[th].op = "STOP_SMOOTH_ZOOM")
  BY <1>0 DEF Call
<1>4. FocusToldOnce'
  <2>1. CASE call[th].next = "focus"
    <3>1. call[th].op = "CANCEL_AUTOFOCUS"
      BY <1>2, <2>1 DEF FocusCall
    <3>2. AF(mAdapterState) /\ ~AF(mAdapterState') /\ focusOwed' = focusOwed
      BY <1>1, <1>2, <2>1, <3>1 DEF FocusChosen, commitState
    <3>3. ~Tells(call[th]) /\ Tells(call'[th])
      BY <1>1, <2>1 DEF Tells, AfterCommand, Idle
    <3>4. Cardinality(Reporting') = Cardinality(Reporting) + 1
      BY <1>1, <3>3, ReportingOneMore
    <3> QED BY <1>2, <3>2, <3>4, ReportingFinite DEF FocusToldOnce, AF
  <2>2. CASE call[th].next # "focus"
    <3>1. Tells(call'[th]) <=> Tells(call[th])
      BY <1>1, <1>3, <2>2 DEF Tells, AfterCommand, Idle, NONE
    <3>2. Reporting' = Reporting
      BY <1>1, <3>1, ReportingSame
    <3>3. CASE call[th].op = "PERFORM_AUTOFOCUS"
      <4>1. ~AF(mAdapterState) /\ AF(mAdapterState') /\ focusOwed' = focusOwed + 1
        BY <1>1, <1>2, <3>3 DEF FocusChosen, commitState
      <4> QED BY <1>0, <1>2, <3>2, <4>1, ReportingFinite DEF FocusToldOnce, AF
    <3>4. CASE call[th].op = "CANCEL_AUTOFOCUS"
      <4>1. AF(mAdapterState) /\ ~AF(mAdapterState') /\ focusOwed' = focusOwed - 1
        BY <1>1, <1>2, <2>2, <3>4 DEF FocusChosen, commitState
      <4> QED BY <1>0, <1>2, <3>2, <4>1, ReportingFinite DEF FocusToldOnce, AF
    <3>5. CASE call[th].op \notin {"PERFORM_AUTOFOCUS", "CANCEL_AUTOFOCUS"}
      <4>1. (AF(mAdapterState') <=> AF(mAdapterState)) /\ focusOwed' = focusOwed
        BY <1>1, <1>2, <3>5 DEF FocusChosen, commitState
      <4> QED BY <1>2, <3>2, <4>1 DEF FocusToldOnce, AF
    <3> QED BY <3>3, <3>4, <3>5
  <2> QED BY <2>1, <2>2
<1> QED BY <1>1, <1>4, FocusAfterCommand

LEMMA RollbackFocus ==
  ASSUME AdapterInv, FocusInv, NEW th \in Threads, rollbackState(th)
  PROVE  FocusInv'
<1>0. call \in [Threads -> Call]
  BY DEF AdapterInv, TypeOK
<1>1. /\ call[th].pc = "rollback" /\ mLock = th
      /\ mNextState' = mAdapterState' /\ UNCHANGED <<mAdapterState, focusOwed>>
      /\ call'[th] = AfterCommand(call[th].next, FALSE)
      /\ \A o \in Threads \ {th} : call'[o] = call[o]
  BY <1>0 DEF rollbackState, Resume, AdapterInv, LockHeld
<1>2. Tells(call'[th]) <=> Tells(call[th])
  BY <1>1 DEF Tells, AfterCommand, Idle, NONE
<1>3. Reporting' = Reporting
  BY <1>1, <1>2, ReportingSame
<1>4. FocusToldOnce'
  BY <1>1, <1>3 DEF FocusInv, FocusToldOnce
<1> QED BY <1>1, <1>4, FocusAfterCommand

LEMMA CallbackFocus ==
  ASSUME AdapterInv, FocusInv, NEW th \in Threads, FocusCallback(th)
  PROVE  FocusInv'
<1>0. call \in [Threads -> Call] /\ focusOwed \in Int
  BY DEF AdapterInv, TypeOK
<1>1. /\ call[th].pc = "tell" /\ call'[th] = Idle
      /\ \A o \in Threads \ {th} : call'[o] = call[o]
      /\ UNCHANGED <<mAdapterState, mNextState, mLock>> /\ focusOwed' = focusOwed - 1
  BY <1>0 DEF FocusCallback, stateVars
<1>2. Tells(call[th]) /\ ~Tells(call'[th])
  BY <1>1 DEF Tells, Idle, NONE
<1>3. Cardinality(Reporting') = Cardinality(Reporting) - 1
  BY <1>1, <1>2, ReportingOneLess
<1>4. FocusToldOnce'
  BY <1>0, <1>1, <1>3, ReportingFinite DEF FocusInv, FocusToldOnce
<1>5. FocusCall(call'[th]) /\ call'[th].pc \notin Committing
  BY <1>1 DEF Idle, FocusCall, Committing, NONE
<1>6. \A o \in Threads \ {th} : /\ FocusCall(call'[o])
                                /\ call'[o].pc \in Committing => FocusChosen(o)'
  BY <1>1 DEF FocusInv, FocusChosen, AF
<1> QED BY <1>1, <1>4, <1>5, <1>6 DEF FocusInv, AF

LEMMA NotifyFocus ==
  ASSUME AdapterInv, FocusInv, NEW th \in Threads, notifyFocusSubscribers(th)
  PROVE  FocusInv'
<1>0. call \in [Threads -> Call]
  BY DEF AdapterInv, TypeOK
<1>1. /\ call[th].pc = "notify" /\ call[th].next = NONE
      /\ \A o \in Threads \ {th} : call'[o] = call[o]
      /\ UNCHANGED <<mAdapterState, mNextState, mLock, focusOwed>>
  BY <1>0 DEF notifyFocusSubscribers, Send, stateVars, FocusInv, FocusCall
<1>2. \/ call'[th] = [pc |-> "set", op |-> "CANCEL_AUTOFOCUS", next |-> "tell"]
      \/ call'[th].pc = "tell" /\ call'[th].next = call[th].next
  BY <1>0 DEF notifyFocusSubscribers, Send, Call
<1>3. SameForFocus(th)
  BY <1>1, <1>2 DEF SameForFocus, FocusCall, Tells, Committing, NONE
<1> QED BY <1>0, <1>1, <1>3, FocusOneThread
-----------------------------------------------------------------------------
LEMMA NextFocusInv == AdapterInv /\ FocusInv /\ [Next]_vars => FocusInv'
<1> SUFFICES ASSUME AdapterInv, FocusInv, [Next]_vars PROVE FocusInv'
  OBVIOUS
<1> USE DEF stateVars
<1>0. call \in [Threads -> Call] /\ {"app", "omx", "af", "cmd"} \subseteq Threads
  BY DEF AdapterInv, TypeOK, Threads
<1>1. CASE UNCHANGED <<mAdapterState, mNextState, mLock, focusOwed, call>>
  BY <1>1, FocusUntouched DEF SameForFocus
<1>2. CASE UNCHANGED vars
  BY <1>1, <1>2 DEF vars
<1>3. ASSUME NEW th \in Threads, Method(th) PROVE FocusInv'
  <2>1. /\ call[th].pc = "body"
        /\ UNCHANGED <<mAdapterState, mNextState, mLock, focusOwed>>
    BY <1>3 DEF Method, Body, UseBuffersPreview, startPreview, stopPreview, cancelAutoFocus,
       CaptureBody, startVideoCapture, stopVideoCapture, autoFocus, stopSmoothZoom,
       startSmoothZoom
  <2>2. \E p \in {"commit", "rollback"} : call' = [call EXCEPT ![th].pc = p]
    BY <1>3 DEF Method, Result, UseBuffersPreview, startPreview, stopPreview, cancelAutoFocus,
       CaptureBody, startVideoCapture, stopVideoCapture, autoFocus, stopSmoothZoom,
       startSmoothZoom
  <2> QED BY <1>0, <2>1, <2>2, MethodKeepsFocus
<1>4. ASSUME NEW th \in Threads, Command(th) PROVE FocusInv'
  BY <1>3, <1>4, SetStateFocus, CommitFocus, RollbackFocus DEF Command
<1>5. ASSUME NEW th \in Threads, Report(th) PROVE FocusInv'
  <2>1. CASE returnFocusStatus(th)
    <3>1. CASE Send(th, "CANCEL_AUTOFOCUS", "focus")
      BY <1>0, <2>1, <3>1, SendKeepsFocus DEF returnFocusStatus
    <3>2. CASE call' = [call EXCEPT ![th] = Idle]
      <4>1. /\ call[th].pc = "status" /\ call'[th] = Idle
            /\ \A o \in Threads \ {th} : call'[o] = call[o]
            /\ UNCHANGED <<mAdapterState, mNextState, mLock, focusOwed>>
        BY <1>0, <2>1, <3>2 DEF returnFocusStatus
      <4>2. SameForFocus(th)
        BY <4>1 DEF FocusInv, SameForFocus, FocusCall, Tells, Committing, Idle, NONE
      <4> QED BY <1>0, <4>1, <4>2, FocusOneThread
    <3> QED BY <2>1, <3>1, <3>2 DEF returnFocusStatus
  <2> QED BY <1>5, <2>1, NotifyFocus, CallbackFocus DEF Report
<1>6. ASSUME NEW name \in HalCalls, NEW zoom \in ZoomIdx, AppBegin(name, zoom) PROVE FocusInv'
  BY <1>1, <1>6 DEF AppBegin
<1>7. CASE AppCall
  <2>1. CASE AppSend
    BY <1>0, <2>1, SendKeepsFocus DEF AppSend, NONE
  <2>2. CASE rollbackToPreviousState
    <3>1. /\ call["app"].pc = "idle"
          /\ UNCHANGED <<mAdapterState, mNextState, mLock, focusOwed>>
          /\ UNCHANGED call \/ \E op : Send("app", op, NONE)
      BY <2>2 DEF rollbackToPreviousState
    <3> QED BY <1>0, <1>1, <3>1, SendKeepsFocus DEF NONE
  <2>3. CASE AppError \/ RollbackLoop \/ AppReturn \/ \E zoom \in ZoomIdx : restartPreview(zoom)
    BY <1>1, <2>3 DEF AppError, RollbackLoop, AppReturn, restartPreview
  <2> QED BY <1>7, <2>1, <2>2, <2>3 DEF AppCall
<1>8. ASSUME NEW zoom \in ZoomIdx, setParameters(zoom) PROVE FocusInv'
  BY <1>1, <1>8 DEF setParameters
<1>9. CASE getParameters
  BY <1>0, <1>9, SendKeepsFocus DEF getParameters
<1>10. CASE endImageCallback
  BY <1>1, <1>10 DEF endImageCallback
<1>11. CASE signalEndImageCapture
  BY <1>0, <1>11, SendKeepsFocus DEF signalEndImageCapture, NONE
<1>12. CASE PreviewFrame
  <2>1. CASE FillBufferDone \/ FocusPending
    BY <1>1, <2>1 DEF FillBufferDone, FocusPending
  <2>2. CASE advanceZoom
    <3>1. /\ call["omx"].pc = "idle"
          /\ UNCHANGED <<mAdapterState, mNextState, mLock, focusOwed>>
          /\ UNCHANGED call \/ Send("omx", "STOP_SMOOTH_ZOOM", "zoom")
      BY <2>2 DEF advanceZoom
    <3> QED BY <1>0, <1>1, <3>1, SendKeepsFocus
  <2>3. CASE checkFocusStatus
    BY <1>0, <2>3, StatusKeepsFocus DEF checkFocusStatus
  <2> QED BY <1>12, <2>1, <2>2, <2>3 DEF PreviewFrame
<1>13. CASE doAutoFocus
  <2>1. CASE AfGet \/ AfCheck \/ AfArm
    BY <1>1, <2>1 DEF AfGet, AfCheck, AfArm
  <2>2. CASE AfImmediate \/ AfTimeout
    BY <1>0, <2>2, StatusKeepsFocus DEF AfImmediate, AfTimeout
  <2> QED BY <1>13, <2>1, <2>2 DEF doAutoFocus
<1> QED BY <1>2, <1>4, <1>5, <1>6, <1>7, <1>8, <1>9, <1>10, <1>11, <1>12, <1>13
        DEF Next, Threads

LEMMA InitFocusInv == Init => FocusInv
<1> SUFFICES ASSUME Init PROVE FocusInv
  OBVIOUS
<1>1. \A th \in Threads : call[th] = Idle
  BY DEF Init
<1>2. Reporting = {}
  BY <1>1 DEF Reporting, Idle, NONE
<1>3. Cardinality(Reporting) = 0
  BY <1>2, FS_EmptySet
<1>4. ~AF(mAdapterState) /\ ~AF(mNextState)
  BY DEF Init, AF, INTIALIZED_STATE, PREVIEW_STATE
<1>5. FocusToldOnce
  BY <1>3, <1>4 DEF Init, FocusToldOnce, AF
<1>6. \A th \in Threads : FocusCall(call[th]) /\ call[th].pc \notin Committing
  BY <1>1 DEF Idle, FocusCall, Committing, NONE
<1> QED BY <1>4, <1>5, <1>6 DEF FocusInv

(* A focus run is reported at most once, and not after the application has *)
(* cancelled it, however the timeout of doAutoFocus, checkFocusStatus and  *)
(* cancelAutoFocus race: returnFocusStatus reports a run only if it is its *)
(* own CANCEL_AUTOFOCUS that has taken AF_ACTIVE away.                     *)
THEOREM FocusCorrect == Spec => []FocusToldOnce
<1>1. AdapterInv /\ FocusInv /\ [Next]_vars => FocusInv'
  BY NextFocusInv
<1>2. FocusInv => FocusToldOnce
  BY DEF FocusInv
<1> QED BY <1>1, <1>2, InitFocusInv, Invariant, PTL DEF Spec
==============================================================================
