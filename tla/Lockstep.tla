------------------------------ MODULE Lockstep ------------------------------
(***************************************************************************)
(* What a differential test promises: two machines move in turn, after    *)
(* every round their whole states are compared, and the first difference   *)
(* is the verdict; once a machine has stopped, the exit codes decide.      *)
(***************************************************************************)
CONSTANTS
  None,          \* the exit code of a machine that runs
  SameExit(_, _) \* do these exit codes count as the same end?

VARIABLES
  left, right,       \* the states of the machines
  leftExit, rightExit,
  turn,              \* "left", "right" or "judge"
  verdict            \* "none", "same", "different" or "aborted"

vars == <<left, right, leftExit, rightExit, turn, verdict>>

Init ==
  /\ left = right
  /\ leftExit = None /\ rightExit = None
  /\ turn = "left"
  /\ verdict = "none"

\* A machine moves, in as many steps as it likes, or stops.
MoveLeft ==
  /\ turn = "left" /\ turn' \in {"left", "right"}
  /\ leftExit' # None => left' = left
  /\ UNCHANGED <<right, rightExit, verdict>>

MoveRight ==
  /\ turn = "right" /\ turn' \in {"right", "judge"}
  /\ rightExit' # None => right' = right
  /\ UNCHANGED <<left, leftExit, verdict>>

Judge ==
  /\ turn = "judge" /\ turn' = "left"
  /\ verdict = "none"
  /\ verdict' = IF leftExit # None \/ rightExit # None
                THEN IF SameExit(leftExit, rightExit) THEN "same" ELSE "different"
                ELSE IF left = right THEN "none" ELSE "different"
  /\ UNCHANGED <<left, right, leftExit, rightExit>>

\* A machine cannot be followed any further.
Abort ==
  /\ verdict' = "aborted" /\ turn' = "left"
  /\ UNCHANGED <<left, right, leftExit, rightExit>>

\* After the verdict nothing happens.
Next == verdict = "none" /\ (MoveLeft \/ MoveRight \/ Judge \/ Abort)

Spec == Init /\ [][Next]_vars
=============================================================================
