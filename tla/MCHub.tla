-------------------------------- MODULE MCHub --------------------------------
(* Instances of CameraStreamHub for TLC: cookie 1 is the notifier, cookie 2 *)
(* the display, so the notifier's callback comes first in the KeyedVector.  *)
EXTENDS CameraStreamHub

MCSubscribed == {<<2, PREVIEW>>}
MCToggled    == {<<1, PREVIEW>>, <<1, VIDEO>>}
MCVideo      == {<<1, VIDEO>>}
==============================================================================
