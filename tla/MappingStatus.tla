---------------------------- MODULE MappingStatus ----------------------------
(***************************************************************************)
(* The status of a CompassManagerMapping (controllers/status/status.go).   *)
(*                                                                         *)
(* In the program a Status is an int used as a bit mask.  Here it is the   *)
(* set of the bits that are on: a|b is a \cup b, a&b = b is b \subseteq a. *)
(* What is stored in the custom resource is a record of two Booleans and a *)
(* text, so a Status goes through a conversion each time it is written and *)
(* another each time it is read.                                           *)
(***************************************************************************)

Registered == {"Registered"}
Configured == {"Configured"}
Processing == {"Processing"}
Failed     == {"Failed"}
Empty      == {}

Status == SUBSET {"Registered", "Configured", "Processing", "Failed"}

ReadyState      == "Ready"
ProcessingState == "Processing"
FailedState     == "Failed"
NoState         == ""

StateTexts == {ReadyState, ProcessingState, FailedState, NoState}

CompassManagerMappingStatus ==
  [registered : BOOLEAN, configured : BOOLEAN, state : StateTexts]

EmptyMappingStatus ==
  [registered |-> FALSE, configured |-> FALSE, state |-> NoState]

\* Mutant: Processing counts only alone.
StateTextOfOneBit(status) ==
  IF Failed \subseteq status THEN FailedState
  ELSE IF status = Processing THEN ProcessingState
  ELSE IF Registered \cup Configured \subseteq status THEN ReadyState
  ELSE FailedState

\* The text for a Status.  Even Empty has one: it reads as Failed.
StateText(status) ==
  IF Failed \subseteq status THEN FailedState
  ELSE IF Processing \subseteq status THEN ProcessingState
  ELSE IF Registered \cup Configured \subseteq status THEN ReadyState
  ELSE FailedState

\* What SetCompassMappingStatus stores for a Status.
MappingStatusOf(status) ==
  [registered |-> Registered \subseteq status,
   configured |-> Configured \subseteq status,
   state      |-> StateText(status)]

\* The Status read back from what is stored.
Number(st) ==
  UNION { IF st.state = ProcessingState THEN Processing ELSE {},
          IF st.state = FailedState     THEN Failed     ELSE {},
          IF st.registered              THEN Registered ELSE {},
          IF st.configured              THEN Configured ELSE {} }
=============================================================================
