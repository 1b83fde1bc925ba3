------------------------------- MODULE Clock --------------------------------
(***************************************************************************)
(* The clock that the timed parts of src/sbc read (time.Now()).  Go's zero *)
(* time is 0 here, and the program starts Epoch later, longer than any     *)
(* duration it compares with.                                              *)
(***************************************************************************)
EXTENDS Integers

CONSTANTS
  Epoch,    \* the time when the program starts
  MaxTime   \* bound: the clock stops here

ASSUME ClockConstants ==
  /\ Epoch \in Nat \ {0}
  /\ MaxTime \in Nat

VARIABLE now

ZeroTime == 0
==============================================================================
