--------------------------- MODULE AdapterCommands ---------------------------
(***************************************************************************)
(* What sendCommand promises a thread that reads the adapter's state while *)
(* others send commands: one command is carried out at a time, and it      *)
(* makes one transition of the table of setState or, refused or failed,    *)
(* none.                                                                   *)
(***************************************************************************)
EXTENDS AdapterState

VARIABLES
  state,    \* what getState returns
  command   \* the command being carried out

vars == <<state, command>>

NoCommand == "none"

Init == state = INTIALIZED_STATE /\ command = NoCommand

Begin(op) ==
  /\ command = NoCommand
  /\ command' = op
  /\ UNCHANGED state

Complete ==
  /\ command # NoCommand
  /\ state' \in NextStates(state, command)
  /\ command' = NoCommand

Refuse ==
  /\ command # NoCommand
  /\ command' = NoCommand
  /\ UNCHANGED state

Next == (\E op \in CameraCommands : Begin(op)) \/ Complete \/ Refuse

Spec == Init /\ [][Next]_vars
===============================================================================
