------------------------ MODULE CameraStreamHubProofs ------------------------
(***************************************************************************)
(* The reference counts of the stream hub, for any buffers, subscribers,   *)
(* consumer threads and bounds.                                            *)
(***************************************************************************)
EXTENDS CameraStreamHub, TLAPS

(* decRefCount keeps mRefCountSum in Nat only because it is the sum of the *)
(* counts, so the two invariants need each other.                          *)
RefInv == TypeOK /\ SumIsTotal

-----------------------------------------------------------------------------
(* What the operators the module is built from return.                     *)

LEMMA NoBufferIsBuffer == NoBuffer \in Buffers
  BY HubAssumption DEF NoBuffer

LEMMA IdleTyped ==
  /\ IdleOMX \in OMXThread
  /\ IdleRet \in ReturnCall
  BY NoBufferIsBuffer DEF IdleOMX, IdleRet, OMXThread, ReturnCall, FrameTypes, PREVIEW

LEMMA IdleHalTyped ==
  ASSUME NEW s \in {"init", "loaded", "starting", "queued", "preview",
                    "stopping", "disabled", "stopped"}
  PROVE  IdleHal(s) \in HalThread
  BY DEF IdleHal, HalThread, FrameTypes, PREVIEW

LEMMA LinkTyped == ASSUME NEW l \in Links PROVE l[1] \in Cookies /\ l[2] \in FrameTypes
  BY HubAssumption DEF Links

(* Changing one count changes the total by the difference.                 *)
LEMMA TotalOfNaturals ==
  ASSUME NEW f \in [FrameTypes -> Nat]
  PROVE  /\ Total(f) \in Nat
         /\ \A t \in FrameTypes :
              /\ f[t] <= Total(f)
              /\ \A n \in Nat : Total([f EXCEPT ![t] = n]) = Total(f) - f[t] + n
<1>1. /\ f[0] \in Nat /\ f[1] \in Nat /\ f[2] \in Nat /\ f[3] \in Nat /\ f[4] \in Nat
  BY DEF FrameTypes
<1>2. Total(f) \in Nat
  BY <1>1 DEF Total
<1>3. ASSUME NEW t \in FrameTypes, NEW n \in Nat
      PROVE  f[t] <= Total(f) /\ Total([f EXCEPT ![t] = n]) = Total(f) - f[t] + n
  <2>1. t = 0 \/ t = 1 \/ t = 2 \/ t = 3 \/ t = 4
    BY DEF FrameTypes
  <2>2. CASE t = 0 BY <1>1, <2>2 DEF Total, FrameTypes
  <2>3. CASE t = 1 BY <1>1, <2>3 DEF Total, FrameTypes
  <2>4. CASE t = 2 BY <1>1, <2>4 DEF Total, FrameTypes
  <2>5. CASE t = 3 BY <1>1, <2>5 DEF Total, FrameTypes
  <2>6. CASE t = 4 BY <1>1, <2>6 DEF Total, FrameTypes
  <2> QED BY <2>1, <2>2, <2>3, <2>4, <2>5, <2>6
<1> QED BY <1>2, <1>3

LEMMA TotalOfNoRefs ==
  /\ NoRefs \in [FrameTypes -> Nat]
  /\ Total(NoRefs) = 0
  /\ [NoRefs EXCEPT ![PREVIEW] = 1] \in [FrameTypes -> Nat]
  /\ Total([NoRefs EXCEPT ![PREVIEW] = 1]) = 1
  BY DEF NoRefs, Total, FrameTypes, PREVIEW

(* Setting one count to n, and the sum accordingly, keeps both in Nat and  *)
(* the sum the total.                                                      *)
LEMMA SetCount ==
  ASSUME RefInv, NEW b \in Buffers, NEW t \in FrameTypes, NEW n \in Nat, NEW m \in Nat,
         m = mRefCountSum[b] - mRefCount[b][t] + n,
         mRefCount' = [mRefCount EXCEPT ![b] = [mRefCount[b] EXCEPT ![t] = n]],
         mRefCountSum' = [mRefCountSum EXCEPT ![b] = m]
  PROVE  /\ mRefCount' \in [Buffers -> [FrameTypes -> Nat]]
         /\ mRefCountSum' \in [Buffers -> Nat]
         /\ SumIsTotal'
<1>1. mRefCount \in [Buffers -> [FrameTypes -> Nat]] /\ mRefCountSum \in [Buffers -> Nat]
  BY DEF RefInv, TypeOK
<1>2. ASSUME NEW x \in Buffers PROVE mRefCountSum'[x] = Total(mRefCount'[x])
  <2>1. CASE x = b
    <3>1. mRefCount'[x] = [mRefCount[b] EXCEPT ![t] = n] /\ mRefCountSum'[x] = m
      BY <1>1, <2>1
    <3>2. Total([mRefCount[b] EXCEPT ![t] = n]) = Total(mRefCount[b]) - mRefCount[b][t] + n
      BY <1>1, TotalOfNaturals
    <3> QED BY <3>1, <3>2 DEF RefInv, SumIsTotal
  <2>2. CASE x # b
    <3>1. mRefCount'[x] = mRefCount[x] /\ mRefCountSum'[x] = mRefCountSum[x]
      BY <1>1, <2>2
    <3> QED BY <3>1 DEF RefInv, SumIsTotal
  <2> QED BY <2>1, <2>2
<1> QED BY <1>1, <1>2 DEF SumIsTotal

-----------------------------------------------------------------------------
LEMMA InitRefInv == Init => RefInv
<1> SUFFICES ASSUME Init PROVE RefInv
  OBVIOUS
<1>1. mRefCount \in [Buffers -> [FrameTypes -> Nat]] /\ mRefCountSum \in [Buffers -> Nat]
  BY TotalOfNoRefs DEF Init
<1>2. SumIsTotal
  BY TotalOfNoRefs DEF Init, SumIsTotal
<1>3. omx \in OMXThread /\ ret \in [Threads -> ReturnCall] /\ hal \in HalThread
  BY IdleTyped, IdleHalTyped DEF Init
<1>4. mSubscribers \in [FrameTypes -> SUBSET Cookies]
  BY DEF Init
<1> QED
  BY <1>1, <1>2, <1>3, <1>4 DEF Init, RefInv, TypeOK

-----------------------------------------------------------------------------
(* A step of any thread preserves RefInv.                                  *)
LEMMA NextRefInv == RefInv /\ [Next]_vars => RefInv'
<1> SUFFICES ASSUME RefInv, [Next]_vars PROVE RefInv'
  OBVIOUS
<1> USE DEF RefInv, TypeOK
<1> USE DEF refVars, heldVars, adapterVars, omxVars
<1>1. CASE UseBuffersPreview
  BY <1>1, HubAssumption, TotalOfNoRefs DEF UseBuffersPreview, HalIdle, SumIsTotal, HalThread
<1>2. CASE StartPreviewSetState
  BY <1>2 DEF StartPreviewSetState, HalIdle, SumIsTotal, HalThread
<1>3. CASE startPreview
  BY <1>3, HubAssumption DEF startPreview, HalIdle, SumIsTotal, HalThread
<1>4. CASE StartPreviewCommit
  BY <1>4 DEF StartPreviewCommit, HalIdle, SumIsTotal, HalThread
<1>5. CASE StopPreviewSetState
  BY <1>5 DEF StopPreviewSetState, HalIdle, SumIsTotal, HalThread
<1>6. CASE stopPreview
  BY <1>6 DEF stopPreview, HalIdle, SumIsTotal, HalThread
<1>7. CASE StopPreviewCommit \/ StopPreviewRefused
  BY <1>7 DEF StopPreviewCommit, StopPreviewRefused, HalIdle, SumIsTotal, HalThread
<1>8. CASE ClearLockStream \/ startRecording
  BY <1>8 DEF ClearLockStream, startRecording, SumIsTotal, HalThread
<1>9. CASE ClearDone
  BY <1>9, IdleHalTyped DEF ClearDone, stopRecording, SumIsTotal, HalThread
<1>10. ASSUME NEW b \in Buffers, ClearReadOldSum(b) PROVE RefInv'
  BY <1>10 DEF ClearReadOldSum, SumIsTotal, HalThread
<1>11. ASSUME NEW b \in Buffers, ClearCheck(b) PROVE RefInv'
  BY <1>11 DEF ClearCheck, SumIsTotal, HalThread
<1>12. ASSUME NEW b \in Buffers, ClearCounts(b) PROVE RefInv'
  <2>1. PICK t \in FrameTypes : t = hal.type
    BY DEF HalThread
  <2>2. mRefCount[b] \in [FrameTypes -> Nat]
    OBVIOUS
  <2>3. mRefCount[b][t] <= mRefCountSum[b] /\ mRefCountSum[b] \in Nat
    BY <2>2, TotalOfNaturals DEF SumIsTotal
  <2>4. mRefCount[b][t] \in Nat /\ mRefCountSum[b] - mRefCount[b][t] \in Nat
    BY <2>2, <2>3
  <2>5. /\ mRefCount' = [mRefCount EXCEPT ![b] = [mRefCount[b] EXCEPT ![t] = 0]]
        /\ mRefCountSum' = [mRefCountSum EXCEPT ![b] = mRefCountSum[b] - mRefCount[b][t]]
    BY <1>12, <2>1 DEF ClearCounts, clearRefCount
  <2>6. /\ mRefCount' \in [Buffers -> [FrameTypes -> Nat]]
        /\ mRefCountSum' \in [Buffers -> Nat]
        /\ SumIsTotal'
    <3>1. mRefCountSum[b] - mRefCount[b][t] = mRefCountSum[b] - mRefCount[b][t] + 0
      BY <2>4
    <3> HIDE DEF RefInv, TypeOK
    <3> QED BY <2>4, <2>5, <3>1, SetCount
  <2>7. hal' \in HalThread /\ forgotten' \subseteq Buffers
    BY <1>12 DEF ClearCounts, HalThread
  <2> QED BY <1>12, <2>6, <2>7 DEF ClearCounts
<1>13. ASSUME NEW b \in Buffers, ClearFill(b) PROVE RefInv'
  BY <1>13 DEF ClearFill, fillThisBuffer, performCleanupAfterError, SumIsTotal, HalThread
<1>14. ASSUME NEW t \in FrameTypes, startVideoCapture(t) PROVE RefInv'
  BY <1>14 DEF startVideoCapture, SumIsTotal
<1>15. ASSUME NEW t \in FrameTypes, stopVideoCapture(t) PROVE RefInv'
  BY <1>15 DEF stopVideoCapture, SumIsTotal
<1>16. ASSUME NEW c \in Cookies, NEW t \in FrameTypes, subscribe(c, t) PROVE RefInv'
  BY <1>16 DEF subscribe, SumIsTotal, HalThread
<1>17. ASSUME NEW c \in Cookies, NEW t \in FrameTypes, unsubscribe(c, t) PROVE RefInv'
  BY <1>17 DEF unsubscribe, stopRecording, SumIsTotal, HalThread
<1>18. ASSUME NEW b \in Buffers, FillBufferDone(b) PROVE RefInv'
  <2>1. omx' \in OMXThread /\ dropped' \subseteq Buffers
    <3>1. CASE StartDispatch(b)
      <4>1. \/ omx' = omx
            \/ omx' = [omx EXCEPT !.pc = "type", !.buf = b, !.types = {PREVIEW} \cup extraTypes]
        BY <3>1 DEF StartDispatch
      <4>2. dropped' = dropped
        BY <3>1 DEF StartDispatch
      <4>3. {PREVIEW} \cup extraTypes \in SUBSET FrameTypes
        BY DEF FrameTypes, PREVIEW
      <4> QED BY <4>1, <4>2, <4>3 DEF OMXThread
    <3>2. CASE DropIncomplete(b)
      BY <3>2 DEF DropIncomplete
    <3> QED BY <1>18, <3>1, <3>2 DEF FillBufferDone
  <2>2. withOMX' \subseteq Buffers
    BY <1>18 DEF FillBufferDone
  <2>3. UNCHANGED <<mStreamBuffers, refVars, mLock, mSubscribers, mLocks, mReturnFrameLock,
                    adapterVars, mHandleComp, heldVars, ret, hal>>
    BY <1>18 DEF FillBufferDone
  <2> QED BY <2>1, <2>2, <2>3 DEF SumIsTotal
<1>19. ASSUME NEW t \in FrameTypes, SendLockType(t) PROVE RefInv'
  <2>1. omx' \in OMXThread
    <3>1. \/ omx' = [omx EXCEPT !.types = @ \ {t}]
          \/ omx' = [omx EXCEPT !.pc = "stream"]
      BY <1>19 DEF SendLockType
    <3> QED BY <3>1 DEF OMXThread
  <2>2. mLocks' \in [FrameTypes -> {NONE, "omx", "hal"}]
    BY <1>19 DEF SendLockType
  <2> QED BY <1>19, <2>1, <2>2 DEF SendLockType, SumIsTotal
<1>20. ASSUME NEW t \in FrameTypes, SendLockStream(t) PROVE RefInv'
  <2>1. omx' \in OMXThread
    <3>1. \/ omx' = [omx EXCEPT !.pc = "inc", !.todo = mSubscribers[t]]
          \/ omx' = [omx EXCEPT !.pc = "type", !.types = @ \ {t}]
      BY <1>20 DEF SendLockStream
    <3> QED BY <3>1 DEF OMXThread
  <2>2. mLocks' \in [FrameTypes -> {NONE, "omx", "hal"}] /\ mLock' \in {NONE, "omx", "hal"}
    BY <1>20 DEF SendLockStream
  <2> QED BY <1>20, <2>1, <2>2 DEF SendLockStream, SumIsTotal
<1>21. ASSUME NEW t \in FrameTypes, SendRelock(t) PROVE RefInv'
  <2>1. omx' \in OMXThread
    <3>1. \/ omx' = [omx EXCEPT !.pc = "inc"]
          \/ omx' = [omx EXCEPT !.pc = "type", !.types = @ \ {t}]
      BY <1>21 DEF SendRelock
    <3> QED BY <3>1 DEF OMXThread
  <2>2. mLocks' \in [FrameTypes -> {NONE, "omx", "hal"}] /\ mLock' \in {NONE, "omx", "hal"}
    BY <1>21 DEF SendRelock
  <2> QED BY <1>21, <2>1, <2>2 DEF SendRelock, SumIsTotal
<1>22. CASE SendDone
  BY <1>22, IdleTyped DEF SendDone, SumIsTotal
<1>23. ASSUME NEW c \in Cookies, NEW t \in FrameTypes, SendToSubscriber(c, t) PROVE RefInv'
  <2>1. PICK b \in Buffers : b = omx.buf
    BY DEF OMXThread
  <2>2. mRefCount[b][t] \in Nat /\ mRefCountSum[b] \in Nat
    OBVIOUS
  <2>3. /\ mRefCount' = [mRefCount EXCEPT ![b] = [mRefCount[b] EXCEPT ![t] = mRefCount[b][t] + 1]]
        /\ mRefCountSum' = [mRefCountSum EXCEPT ![b] = mRefCountSum[b] + 1]
    BY <1>23, <2>1 DEF SendToSubscriber, incRefCount
  <2>4. /\ mRefCount' \in [Buffers -> [FrameTypes -> Nat]]
        /\ mRefCountSum' \in [Buffers -> Nat]
        /\ SumIsTotal'
    <3>1. mRefCountSum[b] + 1 = mRefCountSum[b] - mRefCount[b][t] + (mRefCount[b][t] + 1)
      BY <2>2
    <3>2. mRefCountSum[b] + 1 \in Nat /\ mRefCount[b][t] + 1 \in Nat
      BY <2>2
    <3> HIDE DEF RefInv, TypeOK
    <3> QED BY <2>3, <3>1, <3>2, SetCount
  <2>5. held' \in [Links \X Buffers -> Nat] /\ mDisplayQ' \in Nat /\ mRecording' \in BOOLEAN
        /\ forgotten' \subseteq Buffers
    <3>1. CASE CallbackKeeps(c, t)
      <4>1. held' = [held EXCEPT ![<< <<c, t>>, omx.buf >>] = @ + 1]
        BY <3>1 DEF CallbackKeeps
      <4>2. ASSUME NEW k \in Links \X Buffers PROVE held'[k] \in Nat
        <5>1. held[k] \in Nat /\ held'[k] \in {held[k], held[k] + 1}
          BY <4>1
        <5> QED BY <5>1
      <4>3. held' \in [Links \X Buffers -> Nat]
        <5>1. DOMAIN held' = Links \X Buffers /\ held' = [k \in DOMAIN held' |-> held'[k]]
          BY <4>1
        <5> HIDE DEF RefInv, TypeOK
        <5> QED BY <4>2, <5>1
      <4> QED BY <3>1, <4>3 DEF CallbackKeeps
    <3>2. CASE CallbackReturns(c, t)
      BY <3>2 DEF CallbackReturns
    <3>3. CASE CallbackForgetsVideo(t)
      BY <2>1, <3>3 DEF CallbackForgetsVideo
    <3> QED BY <1>23, <3>1, <3>2, <3>3 DEF SendToSubscriber
  <2>6. ret' \in [Threads -> ReturnCall]
    <3>1. ret' = ret \/ ret' = [ret EXCEPT !["omx"] = [pc |-> "lock", buf |-> b, type |-> t]]
      BY <1>23, <2>1 DEF SendToSubscriber, CallbackKeeps, CallbackForgetsVideo, CallbackReturns
    <3> QED BY <3>1 DEF ReturnCall
  <2>7. omx' \in OMXThread /\ mLock' \in {NONE, "omx", "hal"}
    BY <1>23 DEF SendToSubscriber, OMXThread
  <2>8. UNCHANGED <<mStreamBuffers, mSubscribers, mLocks, mReturnFrameLock, adapterVars, omxVars, hal>>
    BY <1>23 DEF SendToSubscriber
  <2> QED BY <2>4, <2>5, <2>6, <2>7, <2>8
<1>24. ASSUME NEW th \in Threads, NEW l \in Links, NEW b \in Buffers, BeginReturn(th, l, b) PROVE RefInv'
  BY <1>24, LinkTyped DEF BeginReturn, SumIsTotal, ReturnCall
<1>25. ASSUME NEW th \in Threads, ReturnLock(th) PROVE RefInv'
  BY <1>25 DEF ReturnLock, SumIsTotal, ReturnCall
<1>26. ASSUME NEW th \in Threads, getStreamBuffer(th) PROVE RefInv'
  <2>1. ret' \in [Threads -> ReturnCall]
    <3>1. CASE ret[th].buf \in mStreamBuffers
      <4>1. ret' = [ret EXCEPT ![th].pc = "dec"]
        BY <1>26, <3>1 DEF getStreamBuffer
      <4> QED BY <4>1 DEF ReturnCall
    <3>2. CASE ret[th].buf \notin mStreamBuffers
      BY <1>26, <3>2, IdleTyped DEF getStreamBuffer, EndReturn
    <3> QED BY <3>1, <3>2
  <2> QED BY <1>26, <2>1 DEF getStreamBuffer, EndReturn, SumIsTotal
<1>27. ASSUME NEW th \in Threads, ReturnDec(th) PROVE RefInv'
  <2>1. PICK b \in Buffers, t \in FrameTypes : b = ret[th].buf /\ t = ret[th].type
    BY DEF ReturnCall
  <2>2. mRefCount[b] \in [FrameTypes -> Nat]
    OBVIOUS
  <2>3. mRefCount[b][t] \in Nat /\ mRefCount[b][t] <= mRefCountSum[b] /\ mRefCountSum[b] \in Nat
    BY <2>2, TotalOfNaturals DEF SumIsTotal
  <2>4. /\ mRefCount' \in [Buffers -> [FrameTypes -> Nat]]
        /\ mRefCountSum' \in [Buffers -> Nat]
        /\ SumIsTotal'
    <3>1. CASE mRefCount[b][t] > 0
      <4>1. /\ mRefCount' = [mRefCount EXCEPT ![b] = [mRefCount[b] EXCEPT ![t] = mRefCount[b][t] - 1]]
            /\ mRefCountSum' = [mRefCountSum EXCEPT ![b] = mRefCountSum[b] - 1]
        BY <1>27, <2>1, <3>1 DEF ReturnDec, decRefCount
      <4>2. mRefCountSum[b] - 1 = mRefCountSum[b] - mRefCount[b][t] + (mRefCount[b][t] - 1)
        BY <2>3
      <4>3. mRefCountSum[b] - 1 \in Nat /\ mRefCount[b][t] - 1 \in Nat
        BY <2>3, <3>1
      <4> HIDE DEF RefInv, TypeOK
      <4> QED BY <4>1, <4>2, <4>3, SetCount
    <3>2. CASE ~(mRefCount[b][t] > 0)
      BY <1>27, <2>1, <3>2 DEF ReturnDec, decRefCount, SumIsTotal
    <3> QED BY <3>1, <3>2
  <2>5. ret' \in [Threads -> ReturnCall]
    <3>1. CASE LastRef(ret[th].buf, ret[th].type)
      <4>1. ret' = [ret EXCEPT ![th].pc = "fill"]
        BY <1>27, <3>1 DEF ReturnDec
      <4> QED BY <4>1 DEF ReturnCall
    <3>2. CASE ~LastRef(ret[th].buf, ret[th].type)
      BY <1>27, <3>2, IdleTyped DEF ReturnDec, EndReturn
    <3> QED BY <3>1, <3>2
  <2> QED BY <1>27, <2>4, <2>5 DEF ReturnDec, EndReturn
<1>28. ASSUME NEW th \in Threads, ReturnFill(th) PROVE RefInv'
  BY <1>28, IdleTyped DEF ReturnFill, EndReturn, fillThisBuffer, performCleanupAfterError,
     SumIsTotal, ReturnCall
<1>29. CASE UNCHANGED vars
  BY <1>29 DEF vars, SumIsTotal
<1> QED
  BY <1>1, <1>2, <1>3, <1>4, <1>5, <1>6, <1>7, <1>8, <1>9, <1>10, <1>11, <1>12, <1>13, <1>14, <1>15, <1>16, <1>17, <1>18, <1>19, <1>20, <1>21, <1>22, <1>23, <1>24, <1>25, <1>26, <1>27, <1>28, <1>29
  DEF Next, HalSession, HalClear, HalCall, Dispatch, Return, Finished

(* During any interleaving every thread, lock and counter of the hub keeps *)
(* its type; in particular no return or clear takes a count below zero.    *)
THEOREM TypeCorrect == Spec => []TypeOK
<1>1. RefInv => TypeOK
  BY DEF RefInv
<1> QED BY InitRefInv, NextRefInv, <1>1, PTL DEF Spec

(* The sum that decides when fillThisBuffer is called is always the sum of *)
(* the counts per frame type.                                              *)
THEOREM SumCorrect == Spec => []SumIsTotal
<1>1. RefInv => SumIsTotal
  BY DEF RefInv
<1> QED BY InitRefInv, NextRefInv, <1>1, PTL DEF Spec
==============================================================================
