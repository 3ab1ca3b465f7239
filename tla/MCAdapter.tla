------------------------------ MODULE MCAdapter ------------------------------
(* Instances of BaseCameraAdapter for TLC.                                  *)
EXTENDS BaseCameraAdapter

MCPreview == {"startPreview", "stopPreview", "restartPreview"}
MCZoom    == {"startSmoothZoom", "stopSmoothZoom", "setParameters", "getParameters"}
MCCapture == {"takePicture", "cancelPicture"}

MCFocusCalls == HalCalls \ MCZoom
MCZoomCalls  == HalCalls \ (MCCapture \cup {"cancelAutoFocus"})

MCOnlyZoom   == {"startPreview"} \cup MCZoom
MCFocusOnly  == {"startPreview", "stopPreview", "autoFocus"}

MCFailures == {"USE_BUFFERS_PREVIEW", "USE_BUFFERS_IMAGE_CAPTURE", "START_PREVIEW",
               "STOP_PREVIEW", "STOP_IMAGE_CAPTURE", "CANCEL_AUTOFOCUS"}

MCLiveCalls == MCPreview \cup {"autoFocus", "cancelAutoFocus", "startRecording"}
==============================================================================
