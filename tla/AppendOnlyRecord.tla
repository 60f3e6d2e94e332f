-------------------------- MODULE AppendOnlyRecord --------------------------
(***************************************************************************)
(* What a ledger of this project promises, whoever reads it whenever: the  *)
(* entries it holds stay as they are and where they are, further ones come *)
(* after them, and once it is final nothing does.                          *)
(***************************************************************************)
EXTENDS Naturals, Sequences

VARIABLES entries, final

Init == entries = <<>> /\ final = FALSE

Extends(longer, shorter) ==
  Len(longer) >= Len(shorter) /\ SubSeq(longer, 1, Len(shorter)) = shorter

Grow == ~final /\ Extends(entries', entries) /\ final' \in BOOLEAN

Spec == Init /\ [][Grow]_<<entries, final>>
=============================================================================
