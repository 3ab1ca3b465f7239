-------------------------- MODULE ImageCaptureProofs --------------------------
(***************************************************************************)
(* The capture path implements PictureSession, for any buffers, any number *)
(* of takePicture calls, with cancelPicture and with failing calls.        *)
(*                                                                         *)
(* A picture travels from the OMXCallbackHandler thread through the queue  *)
(* of the worker that makes it (the JPEG thread, or the resize thread for  *)
(* the other formats) and mFrameQ to the application.  The inductive       *)
(* invariant says that along this way the calls that the pictures answer   *)
(* grow: a stage nearer to the application holds older pictures.           *)
(***************************************************************************)
EXTENDS ImageCapture, TLAPS

AnyFrame == [buf : Buffers, type : Types, shot : Nat]

(* The frames that come to worker w: the IMAGE frames when it is the       *)
(* encoder, the RAW frames when it is the resize thread.                   *)
Carried(w, enc) ==
  {f \in AnyFrame : IF f.type = IMAGE THEN w = enc ELSE w = "resize"}

(* The calls answered by the IMAGE frames of a queue, and the queue's      *)
(* order.                                                                  *)
Shots(q) == {q[i].shot : i \in {j \in 1..Len(q) : q[j].type = IMAGE}}

Ordered(q) ==
  \A i, j \in 1..Len(q) :
    i < j /\ q[i].type = IMAGE /\ q[j].type = IMAGE => q[i].shot < q[j].shot

Below(A, B) == \A a \in A, b \in B : a < b

(* The stages, from the application back to the camera; the first one is   *)
(* that of the calls notifyFrame has done with, picture or not.            *)
Given   == {delivered[i] : i \in 1..Len(delivered)} \cup unmade
Waiting == Shots(mFrameQ)
Coding  == {f.shot : f \in {g \in hand[encoder] : g.type = IMAGE}}
Queued  == Shots(queue[encoder])
Sending == IF omx.pc \in {"raw", "return", "decrement", "image"} THEN {omx.shot} ELSE {}
Coming  == IF mCapturedFrames = 1 /\ omx.pc \in {"idle", "check"} THEN {taken} ELSE {}

Dispatching == {"raw", "return", "decrement", "image", "count"}

(* What the order rests on: the types of the variables involved, a frame   *)
(* is dispatched only while it is wanted, and each worker has its frames.  *)
PathTyped ==
  /\ taken \in Nat
  /\ delivered \in Seq(Nat) /\ unmade \subseteq Nat
  /\ mCapturedFrames \in 0..1
  /\ omx \in [pc : {"idle", "check"} \cup Dispatching, buf : Buffers \cup {NONE},
              seen : BOOLEAN, shot : Nat]
  /\ omx.pc # "idle" => omx.buf \in Buffers
  /\ omx.pc \in Dispatching => mCapturedFrames = 1
  /\ filled \in Seq(ImageBuffers)
  /\ captureActive \in BOOLEAN
  /\ encoder \in Workers
  /\ DOMAIN queue = Workers /\ DOMAIN hand = Workers
  /\ \A w \in Workers : queue[w] \in Seq(Carried(w, encoder)) /\ hand[w] \subseteq Carried(w, encoder)
  /\ mFrameQ \in Seq(AnyFrame)

Order ==
  /\ Ordered(mFrameQ) /\ Ordered(queue[encoder])
  /\ Given \cup Waiting \cup Coding \cup Queued \cup Sending \cup Coming \subseteq 1..taken
  /\ Below(Given, Waiting \cup Coding \cup Queued \cup Sending \cup Coming)
  /\ Below(Waiting, Coding \cup Queued \cup Sending \cup Coming)
  /\ Below(Coding, Queued \cup Sending \cup Coming)
  /\ Below(Queued, Sending \cup Coming)

PathInv == PathTyped /\ Order

-----------------------------------------------------------------------------
(* Queues of frames                                                        *)

LEMMA AppendTyped ==
  ASSUME NEW S, NEW q \in Seq(S), NEW f \in S, NEW r \in {q, Append(q, f)}
  PROVE  r \in Seq(S)
<1>1. Append(q, f) \in Seq(S)
  OBVIOUS
<1> QED BY <1>1

LEMMA AppendShots ==
  ASSUME NEW q \in Seq(AnyFrame), NEW f \in AnyFrame
  PROVE  /\ Append(q, f) \in Seq(AnyFrame)
         /\ Shots(Append(q, f)) = IF f.type = IMAGE THEN Shots(q) \cup {f.shot} ELSE Shots(q)
         /\ Ordered(q) /\ (f.type = IMAGE => Below(Shots(q), {f.shot})) => Ordered(Append(q, f))
<1>1. /\ Append(q, f) \in Seq(AnyFrame)
      /\ Len(Append(q, f)) = Len(q) + 1
      /\ \A i \in 1..Len(q) : Append(q, f)[i] = q[i]
      /\ Append(q, f)[Len(q) + 1] = f
  OBVIOUS
<1> DEFINE r == Append(q, f)
<1>2. r \in Seq(AnyFrame) /\ Len(r) = Len(q) + 1 /\ r[Len(q) + 1] = f
  BY <1>1
<1>3. \A i \in 1..Len(q) : r[i] = q[i]
  BY <1>1
<1> HIDE DEF r
<1>4. Shots(r) = IF f.type = IMAGE THEN Shots(q) \cup {f.shot} ELSE Shots(q)
  BY <1>2, <1>3 DEF Shots
<1>5. ASSUME Ordered(q), f.type = IMAGE => Below(Shots(q), {f.shot}) PROVE Ordered(r)
  <2> SUFFICES ASSUME NEW i \in 1..Len(r), NEW j \in 1..Len(r), i < j,
                      r[i].type = IMAGE, r[j].type = IMAGE
               PROVE  r[i].shot < r[j].shot
    BY DEF Ordered
  <2>1. i \in 1..Len(q) /\ r[i] = q[i]
    BY <1>2, <1>3
  <2>2. CASE j \in 1..Len(q)
    BY <1>3, <1>5, <2>1, <2>2 DEF Ordered
  <2>3. CASE j = Len(q) + 1
    BY <1>2, <1>5, <2>1, <2>3 DEF Below, Shots
  <2> QED BY <1>2, <2>2, <2>3
<1> QED BY <1>2, <1>4, <1>5 DEF r

LEMMA TailShots ==
  ASSUME NEW q \in Seq(AnyFrame), q # <<>>, Ordered(q)
  PROVE  /\ Head(q) \in AnyFrame /\ Tail(q) \in Seq(AnyFrame)
         /\ Shots(Tail(q)) \subseteq Shots(q)
         /\ Ordered(Tail(q))
         /\ Head(q).type = IMAGE => /\ Head(q).shot \in Shots(q)
                                    /\ Below({Head(q).shot}, Shots(Tail(q)))
<1> DEFINE r == Tail(q)
<1>1. /\ r \in Seq(AnyFrame) /\ Len(r) = Len(q) - 1 /\ Len(q) >= 1
      /\ Head(q) = q[1] /\ Head(q) \in AnyFrame
  OBVIOUS
<1>2. \A i \in 1..Len(r) : r[i] = q[i + 1]
  OBVIOUS
<1> HIDE DEF r
<1>3. Shots(r) \subseteq Shots(q)
  <2> SUFFICES ASSUME NEW i \in 1..Len(r), r[i].type = IMAGE PROVE r[i].shot \in Shots(q)
    BY DEF Shots
  <2>1. i + 1 \in 1..Len(q)
    BY <1>1
  <2> QED BY <1>2, <2>1 DEF Shots
<1>4. Ordered(r)
  <2> SUFFICES ASSUME NEW i \in 1..Len(r), NEW j \in 1..Len(r), i < j,
                      r[i].type = IMAGE, r[j].type = IMAGE
               PROVE  r[i].shot < r[j].shot
    BY DEF Ordered
  <2>1. i + 1 \in 1..Len(q) /\ j + 1 \in 1..Len(q) /\ i + 1 < j + 1
    BY <1>1
  <2> QED BY <1>2, <2>1 DEF Ordered
<1>5. ASSUME Head(q).type = IMAGE
      PROVE  Head(q).shot \in Shots(q) /\ Below({Head(q).shot}, Shots(r))
  <2>1. Head(q).shot \in Shots(q)
    BY <1>1, <1>5 DEF Shots
  <2>2. ASSUME NEW i \in 1..Len(r), r[i].type = IMAGE PROVE q[1].shot < r[i].shot
    <3>1. 1 \in 1..Len(q) /\ i + 1 \in 1..Len(q) /\ 1 < i + 1
      BY <1>1
    <3> QED BY <1>1, <1>2, <1>5, <2>2, <3>1 DEF Ordered
  <2> QED BY <1>1, <2>1, <2>2 DEF Below, Shots
<1> QED BY <1>1, <1>3, <1>4, <1>5 DEF r

LEMMA EmptyShots == Shots(<<>>) = {} /\ Ordered(<<>>)
  BY DEF Shots, Ordered

LEMMA FrameKinds ==
  ASSUME NEW w, NEW enc
  PROVE  /\ \A q \in Seq(Carried(w, enc)) : q \in Seq(AnyFrame)
         /\ \A f \in Carried(w, enc) : f \in AnyFrame /\ f.shot \in Nat
         /\ \A f \in Carried(w, enc) : IF f.type = IMAGE THEN w = enc ELSE w = "resize"
<1>1. /\ \A f \in Carried(w, enc) : f \in AnyFrame /\ f.shot \in Nat
      /\ \A f \in Carried(w, enc) : IF f.type = IMAGE THEN w = enc ELSE w = "resize"
  BY DEF Carried, AnyFrame
<1>2. ASSUME NEW S, S \subseteq AnyFrame, NEW q \in Seq(S) PROVE q \in Seq(AnyFrame)
  <2>1. Len(q) \in Nat /\ q \in [1..Len(q) -> S]
    OBVIOUS
  <2>2. q \in [1..Len(q) -> AnyFrame]
    BY <1>2, <2>1
  <2> QED BY <2>1, <2>2
<1>3. Carried(w, enc) \subseteq AnyFrame
  BY DEF Carried
<1> QED BY <1>1, <1>2, <1>3

(* flushResizeQForImage leaves a part of the queue, without its pictures.  *)
LEMMA WithoutImagesIs ==
  ASSUME NEW S, NEW q \in Seq(S), NEW r \in WithoutImages(q)
  PROVE  /\ r \in Seq(S) /\ Shots(r) = {} /\ Ordered(r)
         /\ \E at \in [1..Len(r) -> 1..Len(q)] :
              /\ \A j, k \in 1..Len(r) : j < k => at[j] < at[k]
              /\ \A j \in 1..Len(r) : r[j] = q[at[j]]
<1> DEFINE kept == {i \in DOMAIN q : q[i].type # IMAGE}
<1>1. PICK n \in 0..Len(q) : r \in [1..n -> {q[i] : i \in kept}]
  BY DEF WithoutImages
<1>2. PICK at \in [DOMAIN r -> kept] :
        /\ \A j, k \in DOMAIN r : j < k => at[j] < at[k]
        /\ \A j \in DOMAIN r : r[j] = q[at[j]]
  BY DEF WithoutImages
<1>3. DOMAIN r = 1..n /\ DOMAIN q = 1..Len(q) /\ n \in Nat
  BY <1>1
<1>4. \A i \in kept : i \in 1..Len(q) /\ q[i] \in S /\ q[i].type # IMAGE
  BY <1>3
<1> HIDE DEF kept
<1>5. r \in [1..n -> S] /\ \A j \in 1..n : r[j].type # IMAGE
  BY <1>1, <1>4
<1>6. r \in Seq(S) /\ Len(r) = n
  BY <1>3, <1>5
<1>7. Shots(r) = {} /\ Ordered(r)
  BY <1>5, <1>6 DEF Shots, Ordered
<1>8. at \in [1..Len(r) -> 1..Len(q)]
  BY <1>2, <1>3, <1>4, <1>6
<1> QED BY <1>2, <1>3, <1>6, <1>7, <1>8

(* What a flush leaves of a queue: the queue, or a part without pictures.  *)
LEMMA FlushedIs ==
  ASSUME PathTyped, NEW w \in Workers, NEW q \in Flushed(w)
  PROVE  /\ q \in Seq(Carried(w, encoder))
         /\ q = queue[w] \/ (Shots(q) = {} /\ Ordered(q))
<1>1. queue[w] \in Seq(Carried(w, encoder))
  BY DEF PathTyped
<1>2. CASE q = queue[w]
  BY <1>1, <1>2
<1>3. CASE q = <<>>
  BY <1>3, EmptyShots
<1>4. CASE q \in WithoutImages(queue[w])
  BY <1>1, <1>4, WithoutImagesIs
<1> QED BY <1>2, <1>3, <1>4 DEF Flushed

-----------------------------------------------------------------------------
(* Steps                                                                   *)

pathVars == <<taken, delivered, unmade, encoder, mCapturedFrames, omx, queue, hand, mFrameQ>>

LEMMA UnchangedOrder == Order /\ UNCHANGED pathVars => Order'
  BY DEF Order, pathVars, Given, Waiting, Coding, Queued, Sending, Coming

(* A stage may lose pictures.                                              *)
LEMMA FewerOrder ==
  ASSUME PathInv, taken' = taken, Ordered(mFrameQ)', Ordered(queue[encoder])',
         encoder' = encoder, Given' \subseteq Given, Waiting' \subseteq Waiting, Coding' \subseteq Coding,
         Queued' \subseteq Queued, Sending' \subseteq Sending, Coming' \subseteq Coming
  PROVE  Order'
  BY DEF PathInv, Order, Below

LEMMA InitPathInv == Init => PathInv
<1> SUFFICES ASSUME Init PROVE PathInv
  OBVIOUS
<1>1. captureActive \in BOOLEAN /\ omx.seen \in BOOLEAN
  BY Zenon DEF Init, IdleOMX
<1>2. /\ \A w \in Workers : queue[w] = <<>> /\ hand[w] = {}
      /\ DOMAIN queue = Workers /\ DOMAIN hand = Workers
      /\ encoder \in Workers
  BY DEF Init
<1>3. taken = 0 /\ delivered = <<>> /\ unmade = {} /\ mCapturedFrames = 0 /\ filled = <<>> /\ mFrameQ = <<>>
  BY DEF Init
<1>4. omx = [pc |-> "idle", buf |-> NONE, seen |-> FALSE, shot |-> 0]
  BY DEF Init, IdleOMX
<1>5. PathTyped
  <2>1. omx \in [pc : {"idle", "check"} \cup Dispatching, buf : Buffers \cup {NONE},
                 seen : BOOLEAN, shot : Nat]
    BY <1>4
  <2>2. omx.pc = "idle" /\ "idle" \notin Dispatching
    BY <1>4 DEF Dispatching
  <2>3. \A w \in Workers : queue[w] \in Seq(Carried(w, encoder)) /\ hand[w] \subseteq Carried(w, encoder)
    <3>1. ASSUME NEW w \in Workers PROVE <<>> \in Seq(Carried(w, encoder))
      OBVIOUS
    <3> QED BY <1>2, <3>1
  <2>4. /\ taken \in Nat /\ delivered \in Seq(Nat) /\ unmade \subseteq Nat /\ mCapturedFrames \in 0..1
        /\ filled \in Seq(ImageBuffers) /\ mFrameQ \in Seq(AnyFrame)
    BY <1>3
  <2> QED BY <1>1, <1>2, <2>1, <2>2, <2>3, <2>4 DEF PathTyped
<1>6. Waiting = {} /\ Queued = {}
  BY <1>2, EmptyShots DEF Init, Waiting, Queued
<1>7. Given = {} /\ Coding = {}
  <2>1. Len(delivered) = 0
    BY <1>3
  <2>2. Given = {}
    BY <1>3, <2>1 DEF Given
  <2>3. Coding = {}
    BY <1>2 DEF Coding
  <2> QED BY <2>2, <2>3
<1>8. Sending = {} /\ Coming = {}
  BY <1>4 DEF Init, Sending, Coming
<1>9. Ordered(mFrameQ) /\ Ordered(queue[encoder])
  BY <1>2, EmptyShots DEF Init
<1> QED BY <1>5, <1>9, <1>6, <1>7, <1>8 DEF PathInv, Order, Below

(* The steps that do not touch the path of a picture.                      *)
LEMMA OtherSteps ==
  ASSUME PathInv, UNCHANGED pathVars, filled' \in Seq(ImageBuffers), captureActive' \in BOOLEAN
  PROVE  PathInv'
<1>1. PathTyped'
  BY DEF PathInv, PathTyped, pathVars
<1> QED BY <1>1, UnchangedOrder DEF PathInv

LEMMA HalPathInv ==
  ASSUME PathInv, takePicture \/ cancelPicture \/ HalStep \/ CommandStep
  PROVE  PathInv'
<1> USE DEF halVars, appVars, stateVars, flagVars, streamVars, portVars, workerVars, history
<1>1. filled \in Seq(ImageBuffers) /\ captureActive \in BOOLEAN
  BY DEF PathInv, PathTyped
<1>2. CASE takePicture \/ cancelPicture \/ TakeCheck \/ TakeWakes
  BY <1>1, <1>2, OtherSteps DEF takePicture, cancelPicture, TakeCheck, TakeWakes, pathVars
<1>3. ASSUME NEW m \in Modes, NEW reformat \in BOOLEAN, NEW ok \in BOOLEAN,
             getPictureBufferSize(m, reformat, ok)
      PROVE  PathInv'
  BY <1>1, <1>3, OtherSteps DEF getPictureBufferSize, pathVars
<1>4. ASSUME NEW w \in Workers, ImageCallbacks(w) PROVE PathInv'
  BY <1>1, <1>4, OtherSteps DEF ImageCallbacks, pathVars
<1>5. CASE StartImageCapture \/ StopImageCapture \/ RollbackStop
  BY <1>1, <1>5, OtherSteps DEF StartImageCapture, StopImageCapture, RollbackStop, pathVars
<1>9. ASSUME NEW ok \in BOOLEAN, stopImageCapture(ok) PROVE PathInv'
  BY <1>1, <1>9, OtherSteps DEF stopImageCapture, pathVars
<1>6. CASE CommitCapture \/ CommitStop
  <2>1. captureActive' \in BOOLEAN
    BY <1>6, Zenon DEF CommitCapture, CommitStop
  <2> QED BY <1>1, <1>6, <2>1, OtherSteps DEF CommitCapture, CommitStop, pathVars
<1>7. CASE CommandStep
  BY <1>1, <1>7, OtherSteps
     DEF CommandStep, HandleEnd, startImageCapture, signalEndImageCapture, pathVars
<1>8. ASSUME NEW ok \in BOOLEAN, UseBuffersCapture(ok) PROVE PathInv'
  <2>1. CASE ~ok
    BY <1>1, <1>8, <2>1, OtherSteps DEF UseBuffersCapture, pathVars
  <2>2. CASE ok
    <3>1. /\ taken' = taken + 1 /\ mCapturedFrames' = 1
          /\ UNCHANGED <<encoder, delivered, unmade, omx, queue, hand, mFrameQ, filled, captureActive>>
      BY <1>8, <2>2 DEF UseBuffersCapture
    <3>2. PathTyped'
      BY <3>1 DEF PathInv, PathTyped
    <3>3. /\ Given' = Given /\ Waiting' = Waiting /\ Coding' = Coding /\ Queued' = Queued
          /\ Sending' = Sending
          /\ Ordered(mFrameQ)' /\ Ordered(queue[encoder])'
      BY <3>1 DEF Given, Waiting, Coding, Queued, Sending, PathInv, Order
    <3>4. Coming' \subseteq {taken + 1} /\ (Sending # {} => Coming' = {})
      BY <3>1 DEF Coming, Sending
    <3>5. taken \in Nat
      BY DEF PathInv, PathTyped
    <3>6. Order'
      <4>1. Given \cup Waiting \cup Coding \cup Queued \cup Sending \subseteq 1..taken
        BY DEF PathInv, Order
      <4>2. /\ Below(Given, Coming') /\ Below(Waiting, Coming')
            /\ Below(Coding, Coming') /\ Below(Queued, Coming')
        BY <3>4, <3>5, <4>1 DEF Below
      <4>3. (Given \cup Waiting \cup Coding \cup Queued \cup Sending \cup Coming \subseteq 1..taken)'
        <5>1. 1..taken \subseteq 1..taken' /\ taken + 1 \in 1..taken'
          BY <3>1, <3>5
        <5>2. (Given \cup Waiting \cup Coding \cup Queued \cup Sending)' \subseteq 1..taken
          BY <3>3, <4>1
        <5> QED BY <3>4, <5>1, <5>2
      <4> QED BY <3>3, <4>2, <4>3 DEF PathInv, Order, Below
    <3> QED BY <3>2, <3>6 DEF PathInv
  <2> QED BY <2>1, <2>2
<1> QED BY <1>2, <1>3, <1>4, <1>5, <1>6, <1>7, <1>8, <1>9 DEF HalStep

(* The OMXCallbackHandler thread.                                          *)
LEMMA OmxPathInv ==
  ASSUME PathInv, OmxStep \/ (\E b \in ImageBuffers : FillImage(b))
  PROVE  PathInv'
<1> USE DEF halVars, appVars, stateVars, flagVars, streamVars, portVars, workerVars, history
<1>1. PathTyped /\ Order
  BY DEF PathInv
<1>2. ASSUME NEW b \in ImageBuffers, FillImage(b) PROVE PathInv'
  <2>1. filled' \in Seq(ImageBuffers)
    BY <1>1, <1>2 DEF FillImage, PathTyped
  <2> QED BY <1>1, <1>2, <2>1, OtherSteps DEF FillImage, pathVars, PathTyped
<1>3. ASSUME NEW b \in Buffers, omx.pc = "idle", filled' \in Seq(ImageBuffers),
             omx' = [pc |-> "check", buf |-> b, seen |-> captureActive, shot |-> 0],
             UNCHANGED <<taken, encoder, delivered, unmade, mCapturedFrames, queue, hand, mFrameQ, captureActive>>
      PROVE  PathInv'
  <2>1. /\ omx'.pc = "check" /\ omx'.buf = b
        /\ omx' \in [pc : {"idle", "check"} \cup Dispatching, buf : Buffers \cup {NONE},
                     seen : BOOLEAN, shot : Nat]
    BY <1>1, <1>3 DEF PathTyped
  <2>2. PathTyped'
    BY <1>1, <1>3, <2>1 DEF PathTyped, Dispatching
  <2>3. /\ UNCHANGED <<Given, Waiting, Coding, Queued, Sending, Coming>>
        /\ Ordered(mFrameQ)' /\ Ordered(queue[encoder])'
    BY <1>1, <1>3, <2>1 DEF Given, Waiting, Coding, Queued, Sending, Coming, Order
  <2> QED BY <1>3, <2>2, <2>3, FewerOrder DEF PathInv
<1>4. ASSUME omx' = IdleOMX, mCapturedFrames' \in 0..1, filled' \in Seq(ImageBuffers),
             mCapturedFrames' = 1 => mCapturedFrames = 1 /\ omx.pc \in {"idle", "check"},
             UNCHANGED <<taken, encoder, delivered, unmade, queue, hand, mFrameQ, captureActive>>
      PROVE  PathInv'
  <2>1. omx'.pc = "idle" /\ "idle" \notin Dispatching
    BY <1>4 DEF IdleOMX, Dispatching
  <2>2. omx' \in [pc : {"idle", "check"} \cup Dispatching, buf : Buffers \cup {NONE},
                  seen : BOOLEAN, shot : Nat]
    <3>1. FALSE \in BOOLEAN
      BY Zenon
    <3> QED BY <1>4, <3>1 DEF IdleOMX
  <2>3. PathTyped'
    BY <1>1, <1>4, <2>1, <2>2 DEF PathTyped
  <2>4. Sending' = {} /\ Coming' \subseteq Coming
    BY <1>4, <2>1 DEF Sending, Coming
  <2>5. /\ UNCHANGED <<Given, Waiting, Coding, Queued>>
        /\ Ordered(mFrameQ)' /\ Ordered(queue[encoder])'
    BY <1>1, <1>4 DEF Given, Waiting, Coding, Queued, Order
  <2> QED BY <1>4, <2>3, <2>4, <2>5, FewerOrder DEF PathInv
<1>5. ASSUME NEW b \in PreviewBuffers, PreviewFrame(b) PROVE PathInv'
  BY <1>1, <1>3, <1>5 DEF PreviewFrame, PathTyped, Buffers
<1>6. CASE ImageFrame
  <2>1. Head(filled) \in Buffers /\ filled' \in Seq(ImageBuffers)
    BY <1>1, <1>6 DEF ImageFrame, PathTyped, Buffers
  <2>2. CASE omx' = [pc |-> "check", buf |-> Head(filled), seen |-> captureActive, shot |-> 0]
    BY <1>3, <1>6, <2>1, <2>2 DEF ImageFrame
  <2>3. CASE omx' = IdleOMX
    BY <1>1, <1>4, <1>6, <2>1, <2>3 DEF ImageFrame, PathTyped
  <2> QED BY <1>6, <2>2, <2>3 DEF ImageFrame
<1>7. CASE CheckCapture
  <2>1. CASE ~(IsCapture(omx.buf) /\ omx.seen)
    BY <1>1, <1>4, <1>7, <2>1 DEF CheckCapture, PathTyped
  <2>2. CASE IsCapture(omx.buf) /\ omx.seen
    <3>1. /\ omx' = [omx EXCEPT !.pc = "raw", !.shot = taken] /\ omx.pc = "check"
          /\ UNCHANGED <<taken, encoder, delivered, unmade, mCapturedFrames, queue, hand, mFrameQ,
                         filled, captureActive>>
      BY <1>7, <2>2 DEF CheckCapture
    <3>2. mCapturedFrames = 1 /\ omx.buf \in Buffers
      BY <1>1, <2>2, <3>1 DEF IsCapture, PathTyped
    <3>3. /\ omx'.pc = "raw" /\ omx'.shot = taken /\ omx'.buf = omx.buf
          /\ omx' \in [pc : {"idle", "check"} \cup Dispatching, buf : Buffers \cup {NONE},
                       seen : BOOLEAN, shot : Nat]
      BY <1>1, <3>1 DEF PathTyped, Dispatching
    <3>4. PathTyped'
      BY <1>1, <3>1, <3>2, <3>3 DEF PathTyped
    <3>5. Coming = {taken} /\ Sending = {} /\ Coming' = {} /\ Sending' = {taken}
      BY <3>1, <3>2, <3>3 DEF Coming, Sending
    <3>6. /\ UNCHANGED <<Given, Waiting, Coding, Queued>>
          /\ Ordered(mFrameQ)' /\ Ordered(queue[encoder])'
      BY <1>1, <3>1 DEF Given, Waiting, Coding, Queued, Order
    <3>7. Order'
      BY <1>1, <3>1, <3>5, <3>6 DEF Order, Below
    <3> QED BY <3>4, <3>7 DEF PathInv
  <2> QED BY <2>1, <2>2
<1>8. ASSUME NEW p \in {"return", "decrement", "image"}, omx' = [omx EXCEPT !.pc = p],
             omx.pc \in {"raw", "return", "decrement"},
             \A w \in Workers : queue'[w] \in Seq(Carried(w, encoder)),
             Shots(queue'[encoder]) = Shots(queue[encoder]), Ordered(queue'[encoder]),
             DOMAIN queue' = Workers,
             UNCHANGED <<taken, encoder, delivered, unmade, mCapturedFrames, hand, mFrameQ, filled, captureActive>>
      PROVE  PathInv'
  <2>1. omx.pc \in Dispatching /\ p \in Dispatching
    BY <1>8 DEF Dispatching
  <2>2. /\ omx'.pc = p /\ omx'.shot = omx.shot /\ omx'.buf = omx.buf
        /\ omx' \in [pc : {"idle", "check"} \cup Dispatching, buf : Buffers \cup {NONE},
                     seen : BOOLEAN, shot : Nat]
    BY <1>1, <1>8, <2>1 DEF PathTyped
  <2>3. omx.buf \in Buffers /\ mCapturedFrames = 1
    BY <1>1, <1>8, <2>1 DEF PathTyped
  <2>4. PathTyped'
    BY <1>1, <1>8, <2>2, <2>3 DEF PathTyped
  <2>5. Sending' = Sending /\ Coming' = {}
    BY <1>8, <2>2 DEF Sending, Coming
  <2>6. /\ UNCHANGED <<Given, Waiting, Coding, Queued>>
        /\ Ordered(mFrameQ)' /\ Ordered(queue[encoder])'
    BY <1>1, <1>8 DEF Given, Waiting, Coding, Queued, Order
  <2> QED BY <1>8, <2>4, <2>5, <2>6, FewerOrder DEF PathInv
<1>9. CASE SendRaw
  <2>1. omx.pc = "raw" /\ omx.buf \in Buffers /\ omx.shot \in Nat
    BY <1>1, <1>9 DEF SendRaw, PathTyped
  <2> DEFINE f == Frame(omx.buf, RAW, omx.shot)
  <2>2. f \in Carried("resize", encoder) /\ f \in AnyFrame /\ f.type # IMAGE
    BY <2>1 DEF Frame, Carried, AnyFrame, Types, RAW, IMAGE
  <2>3. /\ DOMAIN queue' = Workers
        /\ \A w \in Workers : \/ queue'[w] = queue[w]
                              \/ w = "resize" /\ queue'[w] = Append(queue[w], f)
    <3>1. CASE queue' = queue
      BY <1>1, <3>1 DEF PathTyped
    <3>2. CASE queue' = [queue EXCEPT !["resize"] = Append(@, f)]
      BY <1>1, <3>2 DEF PathTyped, Workers
    <3> QED BY <1>9, <3>1, <3>2 DEF SendRaw
  <2> HIDE DEF f
  <2>4. ASSUME NEW w \in Workers
        PROVE  /\ queue'[w] \in Seq(Carried(w, encoder))
               /\ Shots(queue'[w]) = Shots(queue[w]) /\ (Ordered(queue[w]) => Ordered(queue'[w]))
    <3>1. queue[w] \in Seq(Carried(w, encoder)) /\ queue[w] \in Seq(AnyFrame)
      BY <1>1, FrameKinds DEF PathTyped
    <3>2. CASE queue'[w] = queue[w]
      BY <3>1, <3>2
    <3>3. CASE w = "resize" /\ queue'[w] = Append(queue[w], f)
      <4>1. queue'[w] \in Seq(Carried(w, encoder))
        BY <2>2, <3>1, <3>3, AppendTyped
      <4> QED BY <2>2, <3>1, <3>3, <4>1, AppendShots
    <3> QED BY <2>3, <3>2, <3>3
  <2>5. /\ \E p \in {"return", "decrement", "image"} : omx' = [omx EXCEPT !.pc = p]
        /\ UNCHANGED <<taken, encoder, delivered, unmade, mCapturedFrames, hand, mFrameQ, filled,
                       captureActive>>
    BY <1>9 DEF SendRaw
  <2>6. encoder \in Workers /\ Ordered(queue[encoder])
    BY <1>1 DEF PathTyped, Order
  <2> QED BY <1>8, <2>1, <2>3, <2>4, <2>5, <2>6
<1>10. CASE ReturnRawBegins \/ ReturnRawEnds
  <2>1. /\ \E p \in {"return", "decrement", "image"} : omx' = [omx EXCEPT !.pc = p]
        /\ omx.pc \in {"raw", "return", "decrement"}
        /\ UNCHANGED <<taken, encoder, delivered, unmade, mCapturedFrames, queue, hand, mFrameQ, filled,
                       captureActive>>
    BY <1>10 DEF ReturnRawBegins, ReturnRawEnds
  <2>2. /\ \A w \in Workers : queue[w] \in Seq(Carried(w, encoder))
        /\ Ordered(queue[encoder]) /\ DOMAIN queue = Workers
    BY <1>1 DEF PathTyped, Order
  <2> QED BY <1>8, <2>1, <2>2
<1>11. CASE SendImage
  <2>1. /\ omx.pc = "image" /\ omx' = [omx EXCEPT !.pc = "count"]
        /\ UNCHANGED <<taken, encoder, delivered, unmade, mCapturedFrames, hand, mFrameQ, filled, captureActive>>
    BY <1>11 DEF SendImage
  <2>2. omx.pc \in Dispatching /\ "count" \in Dispatching
    BY <2>1 DEF Dispatching
  <2>3. omx.buf \in Buffers /\ omx.shot \in Nat /\ mCapturedFrames = 1
    BY <1>1, <2>1, <2>2 DEF PathTyped
  <2>4. /\ omx'.pc = "count" /\ omx'.buf = omx.buf
        /\ omx' \in [pc : {"idle", "check"} \cup Dispatching, buf : Buffers \cup {NONE},
                     seen : BOOLEAN, shot : Nat]
    BY <1>1, <2>1, <2>2 DEF PathTyped
  <2> DEFINE f == Frame(omx.buf, IMAGE, omx.shot)
  <2>5. f \in Carried(encoder, encoder) /\ f \in AnyFrame /\ f.type = IMAGE /\ f.shot = omx.shot
    BY <2>3 DEF Frame, Carried, AnyFrame, Types
  <2>6. /\ encoder \in Workers /\ queue[encoder] \in Seq(AnyFrame)
        /\ queue[encoder] \in Seq(Carried(encoder, encoder))
        /\ Ordered(queue[encoder]) /\ Below(Shots(queue[encoder]), {omx.shot})
    BY <1>1, <2>1, FrameKinds DEF PathTyped, Order, Queued, Sending, Below
  <2>7. /\ \A w \in Workers : w # encoder => queue'[w] = queue[w]
        /\ DOMAIN queue' = Workers
        /\ queue'[encoder] \in {queue[encoder], Append(queue[encoder], f)}
    <3>1. CASE queue' = queue
      BY <1>1, <3>1 DEF PathTyped
    <3>2. CASE queue' = [queue EXCEPT ![encoder] = Append(@, f)]
      BY <1>1, <3>2 DEF PathTyped
    <3> QED BY <1>11, <3>1, <3>2 DEF SendImage
  <2> HIDE DEF f
  <2>8. \A w \in Workers : queue'[w] \in Seq(Carried(w, encoder))
    <3>1. queue'[encoder] \in Seq(Carried(encoder, encoder))
      BY <2>5, <2>6, <2>7, AppendTyped
    <3> QED BY <1>1, <2>7, <3>1 DEF PathTyped
  <2>9. /\ Ordered(queue'[encoder])
        /\ Shots(queue'[encoder]) \subseteq Shots(queue[encoder]) \cup {omx.shot}
    <3>1. CASE queue'[encoder] = queue[encoder]
      BY <2>6, <3>1
    <3>2. CASE queue'[encoder] = Append(queue[encoder], f)
      BY <2>5, <2>6, <3>2, AppendShots
    <3> QED BY <2>7, <3>1, <3>2
  <2>10. PathTyped'
    BY <1>1, <2>1, <2>3, <2>4, <2>7, <2>8 DEF PathTyped
  <2>11. Sending = {omx.shot} /\ Sending' = {} /\ Coming' = {} /\ Queued' \subseteq Queued \cup Sending
    BY <2>1, <2>4, <2>9 DEF Sending, Coming, Queued
  <2>12. UNCHANGED <<Given, Waiting, Coding>> /\ Ordered(mFrameQ)' /\ Ordered(queue[encoder])'
    BY <1>1, <2>1, <2>9 DEF Given, Waiting, Coding, Order
  <2>13. Order'
    BY <1>1, <2>1, <2>11, <2>12 DEF Order, Below
  <2> QED BY <2>10, <2>13 DEF PathInv
<1>12. CASE CountCaptured
  <2>1. "count" \in Dispatching /\ omx.pc = "count"
    BY <1>12 DEF Dispatching, CountCaptured
  <2>2. mCapturedFrames' = 0
    BY <1>1, <1>12, <2>1 DEF CountCaptured, PathTyped
  <2> QED BY <1>1, <1>4, <1>12, <2>2 DEF CountCaptured, PathTyped
<1> QED BY <1>2, <1>5, <1>6, <1>7, <1>9, <1>10, <1>11, <1>12 DEF OmxStep

(* The resize and the JPEG thread.                                         *)
LEMMA WorkerPathInv ==
  ASSUME PathInv, NEW w \in Workers, WorkerStep(w)
  PROVE  PathInv'
<1> USE DEF halVars, appVars, stateVars, flagVars, streamVars, portVars, workerVars, history
<1>1. PathTyped /\ Order
  BY DEF PathInv
<1>2. /\ encoder \in Workers /\ Ordered(queue[encoder])
      /\ \A v \in Workers : /\ queue[v] \in Seq(AnyFrame) /\ queue[v] \in Seq(Carried(v, encoder))
                            /\ hand[v] \subseteq Carried(v, encoder)
      /\ DOMAIN queue = Workers /\ DOMAIN hand = Workers
      /\ mFrameQ \in Seq(AnyFrame) /\ Ordered(mFrameQ)
  BY <1>1, FrameKinds DEF PathTyped, Order
<1>3. CASE ProcessFlush(w)
  <2>1. PICK q \in Flushed(w) :
          /\ queue' = [queue EXCEPT ![w] = q]
          /\ UNCHANGED <<taken, encoder, delivered, unmade, mCapturedFrames, omx, hand, mFrameQ, filled,
                         captureActive>>
    BY <1>3 DEF ProcessFlush
  <2>2. q \in Seq(Carried(w, encoder)) /\ (q = queue[w] \/ (Shots(q) = {} /\ Ordered(q)))
    BY <1>1, FlushedIs
  <2>3. /\ DOMAIN queue' = Workers
        /\ \A v \in Workers : queue'[v] = IF v = w THEN q ELSE queue[v]
    BY <1>2, <2>1
  <2>4. PathTyped'
    BY <1>1, <2>1, <2>2, <2>3 DEF PathTyped
  <2>5. Ordered(queue'[encoder]) /\ Shots(queue'[encoder]) \subseteq Shots(queue[encoder])
    BY <1>2, <2>2, <2>3
  <2>6. /\ Queued' \subseteq Queued /\ UNCHANGED <<Given, Waiting, Coding, Sending, Coming>>
        /\ Ordered(mFrameQ)' /\ Ordered(queue[encoder])'
    BY <1>2, <2>1, <2>5 DEF Given, Waiting, Coding, Queued, Sending, Coming
  <2> QED BY <2>1, <2>4, <2>6, FewerOrder DEF PathInv
<1>4. CASE TakeFrame(w)
  <2>1. /\ queue[w] # <<>>
        /\ queue' = [queue EXCEPT ![w] = Tail(@)]
        /\ hand' = [hand EXCEPT ![w] = IF mPictureValid[w] THEN {Head(queue[w])} ELSE {}]
        /\ UNCHANGED <<taken, encoder, delivered, unmade, mCapturedFrames, omx, mFrameQ, filled, captureActive>>
    BY <1>4 DEF TakeFrame
  <2>2. /\ DOMAIN queue' = Workers /\ DOMAIN hand' = Workers
        /\ \A v \in Workers : v # w => queue'[v] = queue[v] /\ hand'[v] = hand[v]
        /\ queue'[w] = Tail(queue[w]) /\ hand'[w] \subseteq {Head(queue[w])}
    BY <1>2, <2>1
  <2>3. Tail(queue[w]) \in Seq(Carried(w, encoder)) /\ Head(queue[w]) \in Carried(w, encoder)
    BY <1>2, <2>1
  <2>4. PathTyped'
    <3>1. \A v \in Workers : /\ queue'[v] \in Seq(Carried(v, encoder))
                            /\ hand'[v] \subseteq Carried(v, encoder)
      BY <1>2, <2>2, <2>3
    <3> QED BY <1>1, <2>1, <2>2, <3>1 DEF PathTyped
  <2>5. UNCHANGED <<Given, Waiting, Sending, Coming>> /\ Ordered(mFrameQ)'
    BY <1>2, <2>1 DEF Given, Waiting, Sending, Coming
  <2>6. CASE w # encoder
    <3>1. queue'[encoder] = queue[encoder] /\ hand'[encoder] = hand[encoder]
      BY <1>2, <2>2, <2>6
    <3>2. UNCHANGED <<Coding, Queued>> /\ Ordered(queue[encoder])'
      BY <1>2, <2>1, <3>1 DEF Coding, Queued
    <3> QED BY <2>1, <2>4, <2>5, <3>2, FewerOrder DEF PathInv
  <2>7. CASE w = encoder
    <3> DEFINE h == Head(queue[encoder])
    <3>1. /\ Shots(queue'[encoder]) \subseteq Shots(queue[encoder]) /\ Ordered(queue'[encoder])
          /\ h.type = IMAGE => /\ h.shot \in Shots(queue[encoder])
                               /\ Below({h.shot}, Shots(queue'[encoder]))
      BY <1>2, <2>1, <2>2, <2>7, TailShots
    <3>2. Coding' \subseteq (IF h.type = IMAGE THEN {h.shot} ELSE {})
      BY <2>1, <2>2, <2>7 DEF Coding
    <3>3. Coding' \subseteq Queued /\ Below(Coding', Queued') /\ Queued' \subseteq Queued
      BY <2>1, <3>1, <3>2 DEF Queued, Below
    <3>4. Ordered(queue[encoder])'
      BY <2>1, <3>1
    <3>5. Order'
      BY <1>1, <2>1, <2>5, <3>3, <3>4 DEF Order, Below
    <3> QED BY <2>4, <3>5 DEF PathInv
  <2> QED BY <2>6, <2>7
<1>5. CASE SendToFrameQ(w)
  <2>1. PICK f \in hand[w] :
          /\ mFrameQ' = Append(mFrameQ, f)
          /\ hand' = [hand EXCEPT ![w] = {}]
          /\ UNCHANGED <<taken, encoder, delivered, unmade, mCapturedFrames, omx, queue, filled, captureActive>>
    BY <1>5 DEF SendToFrameQ
  <2>2. f \in AnyFrame /\ f \in Carried(w, encoder)
    BY <1>2, <2>1, FrameKinds
  <2>3. /\ DOMAIN hand' = Workers
        /\ \A v \in Workers : hand'[v] = IF v = w THEN {} ELSE hand[v]
    BY <1>2, <2>1
  <2>4. /\ Append(mFrameQ, f) \in Seq(AnyFrame)
        /\ Shots(Append(mFrameQ, f)) = IF f.type = IMAGE THEN Shots(mFrameQ) \cup {f.shot}
                                       ELSE Shots(mFrameQ)
        /\ (f.type = IMAGE => Below(Shots(mFrameQ), {f.shot})) => Ordered(Append(mFrameQ, f))
    BY <1>2, <2>2, AppendShots
  <2>5. PathTyped'
    BY <1>1, <2>1, <2>3, <2>4 DEF PathTyped
  <2>6. UNCHANGED <<Given, Queued, Sending, Coming>> /\ Ordered(queue[encoder])'
    BY <1>2, <2>1 DEF Given, Queued, Sending, Coming
  <2>7. CASE f.type # IMAGE
    <3>1. Waiting' = Waiting /\ Coding' \subseteq Coding /\ Ordered(mFrameQ)'
      BY <1>2, <2>1, <2>3, <2>4, <2>7 DEF Waiting, Coding
    <3> QED BY <2>1, <2>5, <2>6, <3>1, FewerOrder DEF PathInv
  <2>8. CASE f.type = IMAGE
    <3>1. w = encoder /\ f \in hand[encoder]
      BY <2>1, <2>2, <2>8, FrameKinds
    <3>2. f.shot \in Coding
      BY <2>8, <3>1 DEF Coding
    <3>3. Below(Waiting, {f.shot})
      BY <1>1, <3>2 DEF Order, Below
    <3>4. Waiting' = Waiting \cup {f.shot} /\ Ordered(mFrameQ)'
      BY <2>1, <2>4, <2>8, <3>3 DEF Waiting
    <3>5. Coding' = {}
      BY <1>2, <2>1, <2>3, <3>1 DEF Coding
    <3>6. Order'
      BY <1>1, <2>1, <2>6, <3>2, <3>4, <3>5 DEF Order, Below
    <3> QED BY <2>5, <3>6 DEF PathInv
  <2> QED BY <2>7, <2>8
<1> QED BY <1>3, <1>4, <1>5 DEF WorkerStep

(* The notification thread.  A picture it gives to the application is      *)
(* newer than every picture given before.                                  *)
LEMMA NotifierPathInv ==
  ASSUME PathInv, NotifierStep
  PROVE  PathInv'
<1> USE DEF halVars, appVars, stateVars, flagVars, streamVars, portVars, workerVars, history
<1>1. PathTyped /\ Order
  BY DEF PathInv
<1>2. CASE NotifierReturnBegins \/ NotifierReturnEnds
  BY <1>1, <1>2, OtherSteps DEF NotifierReturnBegins, NotifierReturnEnds, pathVars, PathTyped
<1>3. ASSUME NEW memory \in BOOLEAN, notifyFrame(memory) PROVE PathInv'
  <2> DEFINE f == Head(mFrameQ)
  <2>1. /\ mFrameQ # <<>> /\ mFrameQ' = Tail(mFrameQ)
        /\ delivered' = IF f.type = IMAGE /\ memory THEN Append(delivered, f.shot) ELSE delivered
        /\ unmade' = IF f.type = IMAGE /\ ~memory THEN unmade \cup {f.shot} ELSE unmade
        /\ UNCHANGED <<taken, encoder, mCapturedFrames, omx, queue, hand, filled, captureActive>>
    BY <1>3 DEF notifyFrame
  <2>2. /\ f \in AnyFrame /\ mFrameQ' \in Seq(AnyFrame)
        /\ Shots(mFrameQ') \subseteq Shots(mFrameQ) /\ Ordered(mFrameQ')
        /\ f.type = IMAGE => /\ f.shot \in Shots(mFrameQ)
                             /\ Below({f.shot}, Shots(mFrameQ'))
    <3>1. mFrameQ \in Seq(AnyFrame) /\ Ordered(mFrameQ)
      BY <1>1 DEF PathTyped, Order
    <3> QED BY <2>1, <3>1, TailShots
  <2>3. f.shot \in Nat
    BY <2>2 DEF AnyFrame
  <2> HIDE DEF f
  <2>4. /\ UNCHANGED <<Coding, Queued, Sending, Coming>>
        /\ Ordered(mFrameQ)' /\ Ordered(queue[encoder])' /\ Waiting' \subseteq Waiting
    BY <1>1, <2>1, <2>2 DEF Coding, Queued, Sending, Coming, Order, Waiting
  <2>5. CASE f.type # IMAGE
    <3>1. UNCHANGED <<delivered, unmade>>
      BY <2>1, <2>5
    <3>2. PathTyped'
      BY <1>1, <2>1, <2>2, <3>1 DEF PathTyped
    <3>3. Given' = Given
      BY <3>1 DEF Given
    <3> QED BY <2>1, <2>4, <3>2, <3>3, FewerOrder DEF PathInv
  <2>6. CASE f.type = IMAGE
    <3>1. delivered \in Seq(Nat) /\ unmade \subseteq Nat
      BY <1>1 DEF PathTyped
    <3>2. /\ delivered' \in Seq(Nat) /\ unmade' \subseteq Nat
          /\ Given' \subseteq Given \cup {f.shot}
      <4>1. CASE memory
        <5>1. /\ delivered' \in Seq(Nat) /\ Len(delivered') = Len(delivered) + 1
              /\ \A i \in 1..Len(delivered) : delivered'[i] = delivered[i]
              /\ delivered'[Len(delivered) + 1] = f.shot
          BY <2>1, <2>3, <2>6, <3>1, <4>1
        <5>2. unmade' = unmade
          BY <2>1, <4>1
        <5> QED BY <3>1, <5>1, <5>2 DEF Given
      <4>2. CASE ~memory
        <5>1. delivered' = delivered /\ unmade' = unmade \cup {f.shot}
          BY <2>1, <2>6, <4>2
        <5> QED BY <2>3, <3>1, <5>1 DEF Given
      <4> QED BY <4>1, <4>2
    <3>3. PathTyped'
      BY <1>1, <2>1, <2>2, <3>2 DEF PathTyped
    <3>4. f.shot \in Waiting /\ Below({f.shot}, Waiting')
      BY <2>2, <2>6 DEF Waiting
    <3>5. Order'
      BY <1>1, <2>1, <2>4, <3>2, <3>4 DEF Order, Below
    <3> QED BY <3>3, <3>5 DEF PathInv
  <2> QED BY <2>5, <2>6
<1> QED BY <1>2, <1>3 DEF NotifierStep

LEMMA NextPathInv == PathInv /\ [Next]_vars => PathInv'
<1> SUFFICES ASSUME PathInv, [Next]_vars PROVE PathInv'
  OBVIOUS
<1>1. CASE UNCHANGED vars
  BY <1>1, OtherSteps DEF vars, halVars, appVars, pathVars, PathInv, PathTyped, stateVars, portVars,
     workerVars, history
<1>2. CASE Next
  BY <1>1, <1>2, HalPathInv, OmxPathInv, WorkerPathInv, NotifierPathInv DEF Next, Dead
<1> QED BY <1>1, <1>2

-----------------------------------------------------------------------------
(* Only two steps are visible to the application: UseBuffersCapture, when  *)
(* the adapter accepts the call, and notifyFrame.                          *)
LEMMA StepRefines ==
  ASSUME PathInv, [Next]_vars
  PROVE  [Pictures!Next]_(Pictures!vars)
<1> USE DEF halVars, appVars, stateVars, flagVars, streamVars, portVars, workerVars, history
<1>1. SUFFICES ASSUME ~UNCHANGED <<taken, delivered>> PROVE Pictures!Next
  BY DEF Pictures!vars
<1>2. \/ \E ok \in BOOLEAN : UseBuffersCapture(ok)
      \/ \E memory \in BOOLEAN : notifyFrame(memory)
  <2>1. ~UNCHANGED vars /\ Next
    BY <1>1 DEF vars
  <2>2. ~takePicture /\ ~cancelPicture
    BY <1>1 DEF takePicture, cancelPicture
  <2>3. ~TakeCheck /\ ~TakeWakes /\ ~StartImageCapture /\ ~CommitCapture
    BY <1>1 DEF TakeCheck, TakeWakes, StartImageCapture, CommitCapture
  <2>4. /\ ~StopImageCapture /\ ~CommitStop /\ ~RollbackStop
        /\ \A ok \in BOOLEAN : ~stopImageCapture(ok)
    BY <1>1 DEF StopImageCapture, stopImageCapture, CommitStop, RollbackStop
  <2>5. \A m \in Modes, reformat, ok \in BOOLEAN : ~getPictureBufferSize(m, reformat, ok)
    BY <1>1 DEF getPictureBufferSize
  <2>6. \A w \in Workers : ~ImageCallbacks(w)
    BY <1>1 DEF ImageCallbacks
  <2>7. ~CommandStep
    BY <1>1 DEF CommandStep, HandleEnd, startImageCapture, signalEndImageCapture
  <2>8. \A b \in ImageBuffers : ~FillImage(b)
    BY <1>1 DEF FillImage
  <2>9. (\A b \in PreviewBuffers : ~PreviewFrame(b)) /\ ~ImageFrame /\ ~CheckCapture
    BY <1>1 DEF PreviewFrame, ImageFrame, CheckCapture
  <2>10. ~SendRaw /\ ~ReturnRawBegins /\ ~ReturnRawEnds /\ ~SendImage /\ ~CountCaptured
    BY <1>1 DEF SendRaw, ReturnRawBegins, ReturnRawEnds, SendImage, CountCaptured
  <2>11. \A w \in Workers : ~WorkerStep(w)
    BY <1>1 DEF WorkerStep, ProcessFlush, TakeFrame, SendToFrameQ
  <2>12. ~NotifierReturnBegins /\ ~NotifierReturnEnds
    BY <1>1 DEF NotifierReturnBegins, NotifierReturnEnds
  <2> QED BY <2>1, <2>2, <2>3, <2>4, <2>5, <2>6, <2>7, <2>8, <2>9, <2>10, <2>11, <2>12
          DEF Next, HalStep, OmxStep, NotifierStep, Dead
<1>3. ASSUME NEW ok \in BOOLEAN, UseBuffersCapture(ok) PROVE Pictures!Next
  BY <1>1, <1>3 DEF UseBuffersCapture, Pictures!Next, Pictures!takePicture
<1>4. ASSUME NEW memory \in BOOLEAN, notifyFrame(memory) PROVE Pictures!Next
  <2> DEFINE f == Head(mFrameQ)
  <2>1. /\ mFrameQ # <<>> /\ f.type = IMAGE /\ taken' = taken
        /\ delivered' = Append(delivered, f.shot)
    BY <1>1, <1>4 DEF notifyFrame
  <2>2. mFrameQ \in Seq(AnyFrame) /\ Ordered(mFrameQ)
    BY DEF PathInv, PathTyped, Order
  <2>3. f.shot \in Waiting
    BY <2>1, <2>2, TailShots DEF Waiting
  <2> HIDE DEF f
  <2>4. f.shot \in 1..taken /\ Below(Given, {f.shot})
    BY <2>3 DEF PathInv, Order, Below
  <2>5. \A i \in 1..Len(delivered) : delivered[i] < f.shot
    BY <2>4 DEF Given, Below
  <2>6. Pictures!CompressedImage(f.shot)
    BY <2>1, <2>4, <2>5 DEF Pictures!CompressedImage
  <2> QED BY <2>4, <2>6 DEF Pictures!Next
<1> QED BY <1>2, <1>3, <1>4

(* The pictures the application is given answer its takePicture calls, in  *)
(* their order and none twice, whatever the interleaving of the threads,   *)
(* cancelPicture and failures: notifyFrame's callbacks implement           *)
(* PictureSession.                                                         *)
THEOREM CaptureImplements == Spec => AnswersInOrder
<1>1. Init => Pictures!Init
  BY DEF Init, Pictures!Init
<1>2. QED
  BY <1>1, InitPathInv, NextPathInv, StepRefines, PTL DEF Spec, AnswersInOrder, Pictures!Spec
===============================================================================
