------------------------------ MODULE DemoClock ------------------------------
(***************************************************************************)
(* What the demonstration tools of src/sample_app have in common: the      *)
(* clock in milliseconds that they stamp their rows with (one for all of   *)
(* them: they run in the same cluster), and a bound on what goes wrong.    *)
(***************************************************************************)
EXTENDS Integers

CONSTANTS
  MaxTime,        \* bound: readings of the clock
  MaxFaults       \* bound: failed requests and killed tools

ASSUME ClockAssumption == MaxTime \in Nat \ {0} /\ MaxFaults \in Nat

VARIABLES
  now,            \* int(time.time() * 1000)
  faults          \* so far

clockVars == <<now, faults>>

Tick == now < MaxTime /\ now' = now + 1 /\ UNCHANGED faults

Fault == faults < MaxFaults /\ faults' = faults + 1 /\ UNCHANGED now

ClockInit == now = 1 /\ faults = 0

Lesser(a, b) == IF a <= b THEN a ELSE b
=============================================================================
