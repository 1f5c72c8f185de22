---------------------------- MODULE LoopDetector ----------------------------
(***************************************************************************)
(* The detector of repeated tool calls of one turn                         *)
(* (openjax-core/src/agent/loop_detector.rs): a window of the last keys, a *)
(* warning when the newest key fills its end, and a halt when the key it   *)
(* warned of comes again.                                                  *)
(***************************************************************************)
EXTENDS Naturals, Sequences, FiniteSets

CONSTANTS
  WindowCapacity,  \* window_capacity, 16
  WarnThreshold    \* warn_threshold, 5

ASSUME DetectorAssumption ==
  /\ WindowCapacity \in Nat /\ WarnThreshold \in Nat \ {0}
  /\ WarnThreshold <= WindowCapacity

Signals == {"None", "Warned", "Halt"}

FreshDetector == [window |-> <<>>, state |-> "None", warned |-> {}]

\* push_back, and pop_front beyond the capacity.
Pushed(window, key) ==
  LET w == Append(window, key)
  IN  IF Len(w) > WindowCapacity THEN Tail(w) ELSE w

\* Variant: the key may be anywhere in the window but at its end.
CountBefore(window, key) ==
  Cardinality({i \in 1..(Len(window) - 1) : \A j \in i..(Len(window) - 1) : window[j] = key})

\* The number of keys at the end of the window that are this one.
ConsecutiveCount(window, key) ==
  Cardinality({i \in DOMAIN window : \A j \in i..Len(window) : window[j] = key})

\* check_and_advance: the detector afterwards, and the signal.
CheckAndAdvance(d, key) ==
  IF d.state = "Warned" /\ key \in d.warned
  THEN [after |-> [d EXCEPT !.state = "Halt"], signal |-> "Halt"]
  ELSE LET w == Pushed(d.window, key)
           repeated == ConsecutiveCount(w, key) >= WarnThreshold
           \* a state of Halt outlives the other keys, until reset
           calm == IF d.state = "Warned" THEN "None" ELSE d.state
       IN  [after  |-> [window |-> w,
                        state  |-> IF repeated THEN "Warned" ELSE calm,
                        warned |-> IF repeated THEN {key}
                                   ELSE IF d.state = "Warned" THEN {} ELSE d.warned],
            signal |-> IF repeated THEN "Warned" ELSE "None"]
=============================================================================
