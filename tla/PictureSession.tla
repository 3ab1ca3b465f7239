---------------------------- MODULE PictureSession ----------------------------
(***************************************************************************)
(* What the camera HAL promises an application that takes pictures: every  *)
(* picture it is given answers a takePicture call, no call is answered     *)
(* twice, and pictures come in the order of the calls.  A call may stay    *)
(* unanswered, because it was cancelled.                                   *)
(***************************************************************************)
EXTENDS Naturals, Sequences

VARIABLES
  asked,      \* takePicture calls the adapter has accepted
  answered    \* the calls whose picture the application was given, in order

vars == <<asked, answered>>

Init == asked = 0 /\ answered = <<>>

takePicture ==
  /\ asked' = asked + 1
  /\ UNCHANGED answered

(* CAMERA_MSG_COMPRESSED_IMAGE for the n-th call.                          *)
CompressedImage(n) ==
  /\ n \in 1..asked
  /\ \A i \in 1..Len(answered) : answered[i] < n
  /\ answered' = Append(answered, n)
  /\ UNCHANGED asked

Next == takePicture \/ \E n \in 1..asked : CompressedImage(n)

Spec == Init /\ [][Next]_vars
===============================================================================
