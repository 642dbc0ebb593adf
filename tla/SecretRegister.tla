--------------------------- MODULE SecretRegister ---------------------------
(***************************************************************************)
(* What an owner is promised of one secret name: a register.  A store or   *)
(* backup command takes effect as a whole and reports success, or not at   *)
(* all; reconstruct answers the value in force; and nothing else that      *)
(* happens to the shares - healing, forced re-sharing, mutation, the loss  *)
(* of holders - is visible in the value.                                   *)
(***************************************************************************)
EXTENDS Sequences

CONSTANTS Values, NoValue

VARIABLES
  value,     \* the value in force, NoValue before the first store
  pending,   \* the value of the command under way, or NoValue
  reported,  \* the values of the commands that reported success
  answer     \* what the last reconstruct answered

register == <<value, pending, reported, answer>>

Init == value = NoValue /\ pending = NoValue /\ reported = <<>> /\ answer = NoValue

Request(v) ==
  /\ pending = NoValue /\ pending' = v
  /\ UNCHANGED <<value, reported, answer>>

Commit ==
  /\ pending # NoValue
  /\ value' = pending /\ reported' = Append(reported, pending)
  /\ pending' = NoValue
  /\ UNCHANGED answer

Fail ==
  /\ pending # NoValue /\ pending' = NoValue
  /\ UNCHANGED <<value, reported, answer>>

Answer ==
  /\ value # NoValue /\ answer' = value
  /\ UNCHANGED <<value, pending, reported>>

Next == (\E v \in Values : Request(v)) \/ Commit \/ Fail \/ Answer

Spec == Init /\ [][Next]_register
=============================================================================
