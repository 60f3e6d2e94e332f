------------------------- MODULE ProtectedPosition -------------------------
(***************************************************************************)
(* What a paper position promises its holder while a run manages it, from  *)
(* its fill to its close: its protection starts below what was paid and    *)
(* only tightens, its terms never change, and it gets the market's price   *)
(* or its target less the slippage, whichever the market grants.           *)
(*                                                                         *)
(* Prices are counted so that a higher one is better for the position.     *)
(***************************************************************************)
EXTENDS Integers

CONSTANT Slip

VARIABLES
  phase,         \* "none", "open" or "closed"
  terms, paid,   \* what was agreed, and the price of the fill
  stop, target,  \* the protection in force
  market, got    \* the market's price at the exit, and what the exit got

positionVars == <<phase, terms, paid, stop, target, market, got>>

Enter ==
  /\ phase = "none" /\ phase' = "open"
  /\ stop' < paid' /\ paid' < target'
  /\ UNCHANGED <<market, got>>

Tighten ==
  /\ phase = "open" /\ stop' >= stop
  /\ UNCHANGED <<phase, terms, paid, target, market, got>>

Leave ==
  /\ phase = "open" /\ phase' = "closed"
  /\ \E price \in {target, market'} : price <= market' /\ got' = price - Slip
  /\ UNCHANGED <<terms, paid, stop, target>>

Next == Enter \/ Tighten \/ Leave

Spec == phase = "none" /\ [][Next]_positionVars
=============================================================================
