--------------------------- MODULE ForwardBulletin ---------------------------
(***************************************************************************)
(* What the weekly routine promises to a reader of its record and of its   *)
(* channel, however many runs overlap and whatever becomes of them: only   *)
(* complete days are sealed and none is left out, only sealed days are     *)
(* announced and each after all that precede it, and neither a sealed day  *)
(* nor an announcement is ever withdrawn.                                  *)
(***************************************************************************)
EXTENDS Integers

VARIABLES
  complete,   \* complete days, counted
  sealed,     \* days the record seals
  announced   \* days the channel has shown

bulletinVars == <<complete, sealed, announced>>

Init == complete = 0 /\ sealed = {} /\ announced = {}

Complete == complete' = complete + 1 /\ UNCHANGED <<sealed, announced>>

Seal ==
  /\ \E d \in 1..complete : sealed' = sealed \cup 1..d
  /\ UNCHANGED <<complete, announced>>

Announce ==
  /\ \E m \in sealed : 1..(m - 1) \subseteq announced /\ announced' = announced \cup {m}
  /\ UNCHANGED <<complete, sealed>>

Next == Complete \/ Seal \/ Announce

Spec == Init /\ [][Next]_bulletinVars
=============================================================================
