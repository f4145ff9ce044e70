----------------------------- MODULE MCGpioButton -----------------------------
(***************************************************************************)
(* Small boards for TLC.                                                   *)
(***************************************************************************)
EXTENDS GpioButton

\* A key and a switch, polled, with allocations that sleep or fail.
SleepingBoard ==
  [nbuttons |-> 2, type |-> <<"EV_KEY", "EV_SW">>, polled |-> TRUE,
   threshold |-> <<2, 1>>, jiffies |-> 1, cpus |-> 1, sleeps |-> TRUE,
   flips |-> 2, fails |-> 1]

\* The same with more changes.
PolledBoard == [SleepingBoard EXCEPT !.sleeps = FALSE, !.flips = 3, !.fails = 0]

\* A key with an interrupt, and a clock that wraps.
IrqBoard == [nbuttons |-> 1, type |-> <<"EV_KEY">>, polled |-> FALSE,
             threshold |-> <<0>>, jiffies |-> 3, cpus |-> 1, sleeps |-> FALSE,
             flips |-> 3, fails |-> 1]

Boards == {SleepingBoard, PolledBoard, IrqBoard}
=============================================================================
