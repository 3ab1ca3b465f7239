---------------------------- MODULE AdapterState ----------------------------
(***************************************************************************)
(* The adapter's state machine as constant operators.  An AdapterState is  *)
(* the set of its *_ACTIVE bits; AF_ACTIVE and ZOOM_ACTIVE overlay the     *)
(* eight named states.                                                     *)
(***************************************************************************)

INTIALIZED_STATE           == {"INTIALIZED"}
LOADED_PREVIEW_STATE       == {"INTIALIZED", "LOADED_PREVIEW"}
PREVIEW_STATE              == {"INTIALIZED", "PREVIEW"}
LOADED_CAPTURE_STATE       == PREVIEW_STATE \cup {"LOADED_CAPTURE"}
CAPTURE_STATE              == PREVIEW_STATE \cup {"CAPTURE"}
VIDEO_STATE                == PREVIEW_STATE \cup {"VIDEO"}
VIDEO_LOADED_CAPTURE_STATE == VIDEO_STATE \cup {"LOADED_CAPTURE"}
VIDEO_CAPTURE_STATE        == VIDEO_STATE \cup {"CAPTURE"}

Overlays == {"AF", "ZOOM"}

PreviewStates == {PREVIEW_STATE, LOADED_CAPTURE_STATE, CAPTURE_STATE, VIDEO_STATE,
                  VIDEO_LOADED_CAPTURE_STATE, VIDEO_CAPTURE_STATE}

WithOverlays == {m \cup f : m \in PreviewStates, f \in SUBSET Overlays}

AdapterStates == {INTIALIZED_STATE, LOADED_PREVIEW_STATE} \cup WithOverlays

CameraCommands ==
  {"START_PREVIEW", "STOP_PREVIEW", "START_VIDEO", "STOP_VIDEO",
   "START_IMAGE_CAPTURE", "STOP_IMAGE_CAPTURE", "PERFORM_AUTOFOCUS",
   "CANCEL_AUTOFOCUS", "START_SMOOTH_ZOOM", "STOP_SMOOTH_ZOOM",
   "USE_BUFFERS_PREVIEW", "USE_BUFFERS_IMAGE_CAPTURE",
   "QUERY_RESOLUTION_PREVIEW", "QUERY_BUFFER_SIZE_IMAGE_CAPTURE"}

(* The switch on the named state: <<state, command, next state>>.          *)
ModeSwitch ==
  { <<INTIALIZED_STATE, "USE_BUFFERS_PREVIEW", LOADED_PREVIEW_STATE>>,
    <<INTIALIZED_STATE, "QUERY_RESOLUTION_PREVIEW", INTIALIZED_STATE>>,
    <<INTIALIZED_STATE, "QUERY_BUFFER_SIZE_IMAGE_CAPTURE", INTIALIZED_STATE>>,
    <<LOADED_PREVIEW_STATE, "START_PREVIEW", PREVIEW_STATE>>,
    <<LOADED_PREVIEW_STATE, "STOP_PREVIEW", INTIALIZED_STATE>>,
    <<LOADED_PREVIEW_STATE, "QUERY_BUFFER_SIZE_IMAGE_CAPTURE", LOADED_PREVIEW_STATE>>,
    <<PREVIEW_STATE, "STOP_PREVIEW", INTIALIZED_STATE>>,
    <<PREVIEW_STATE, "USE_BUFFERS_IMAGE_CAPTURE", LOADED_CAPTURE_STATE>>,
    <<PREVIEW_STATE, "START_VIDEO", VIDEO_STATE>>,
    <<PREVIEW_STATE, "QUERY_BUFFER_SIZE_IMAGE_CAPTURE", PREVIEW_STATE>>,
    <<LOADED_CAPTURE_STATE, "START_IMAGE_CAPTURE", CAPTURE_STATE>>,
    <<CAPTURE_STATE, "STOP_IMAGE_CAPTURE", PREVIEW_STATE>>,
    <<VIDEO_STATE, "STOP_VIDEO", PREVIEW_STATE>>,
    <<VIDEO_STATE, "USE_BUFFERS_IMAGE_CAPTURE", VIDEO_LOADED_CAPTURE_STATE>>,
    <<VIDEO_STATE, "QUERY_BUFFER_SIZE_IMAGE_CAPTURE", VIDEO_STATE>>,
    <<VIDEO_LOADED_CAPTURE_STATE, "START_IMAGE_CAPTURE", VIDEO_CAPTURE_STATE>>,
    <<VIDEO_CAPTURE_STATE, "STOP_IMAGE_CAPTURE", VIDEO_STATE>> }

(* Overlays survive a switch between preview states; while one is on,      *)
(* STOP_PREVIEW is refused.                                                *)
ModeNext(s, op) ==
  { e[3] \cup (IF "PREVIEW" \in s THEN s \cap Overlays ELSE {}) :
      e \in {x \in ModeSwitch : /\ x[1] = s \ Overlays
                                /\ x[2] = op
                                /\ x = <<PREVIEW_STATE, "STOP_PREVIEW", INTIALIZED_STATE>>
                                     => s \cap Overlays = {}} }

(* Mutant of OverlayNext: autofocus starts without a preview.              *)
OverlayNextAnywhere(s, op) ==
  { n \in {s \ {"AF"}, s \cup {"AF"}, s \ {"ZOOM"}, s \cup {"ZOOM"}} :
      \/ op = "CANCEL_AUTOFOCUS"  /\ "AF" \in s      /\ n = s \ {"AF"}
      \/ op = "PERFORM_AUTOFOCUS" /\ "AF" \notin s   /\ n = s \cup {"AF"}
      \/ op = "STOP_SMOOTH_ZOOM"  /\ "ZOOM" \in s    /\ n = s \ {"ZOOM"}
      \/ op = "START_SMOOTH_ZOOM" /\ "ZOOM" \notin s /\ n = s \cup {"ZOOM"} }

(* The overlays themselves, tried when the named state refuses.            *)
OverlayNext(s, op) ==
  { n \in {s \ {"AF"}, s \cup {"AF"}, s \ {"ZOOM"}, s \cup {"ZOOM"}} :
      /\ "PREVIEW" \in s
      /\ \/ op = "CANCEL_AUTOFOCUS"  /\ "AF" \in s      /\ n = s \ {"AF"}
         \/ op = "PERFORM_AUTOFOCUS" /\ "AF" \notin s   /\ n = s \cup {"AF"}
         \/ op = "STOP_SMOOTH_ZOOM"  /\ "ZOOM" \in s    /\ n = s \ {"ZOOM"}
         \/ op = "START_SMOOTH_ZOOM" /\ "ZOOM" \notin s /\ n = s \cup {"ZOOM"} }

(* The next state setState chooses for op in state s; the empty set is     *)
(* INVALID_OPERATION.                                                      *)
NextStates(s, op) ==
  IF ModeNext(s, op) # {} THEN ModeNext(s, op) ELSE OverlayNext(s, op)

(* getState() > PREVIEW_STATE compares the bit masks as integers.          *)
AbovePreview(s) == s \cap {"LOADED_CAPTURE", "CAPTURE", "VIDEO", "AF", "ZOOM"} # {}

(* The command rollbackToPreviousState sends in state s; the empty set     *)
(* where it gives up with INVALID_OPERATION.                               *)
RollbackCommands(s) ==
  IF "ZOOM" \in s THEN {"STOP_SMOOTH_ZOOM"}
  ELSE IF "AF" \in s THEN {"CANCEL_AUTOFOCUS"}
  ELSE { r[2] : r \in { x \in {<<PREVIEW_STATE, "STOP_PREVIEW">>,
                               <<CAPTURE_STATE, "STOP_IMAGE_CAPTURE">>,
                               <<VIDEO_STATE, "STOP_VIDEO">>,
                               <<VIDEO_CAPTURE_STATE, "STOP_IMAGE_CAPTURE">>} : x[1] = s } }
=============================================================================
