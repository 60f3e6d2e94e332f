----------------------------- MODULE AuditedBook -----------------------------
(***************************************************************************)
(* What the paper book promises to whoever opens the base, whatever became *)
(* of the process that wrote it: the book changes only while one cycle     *)
(* works on it or by the hand of an operator, an entry is made only when   *)
(* every entry before it has been reported, a cycle settles only when all  *)
(* of them have, and a cycle that was abandoned is never taken up again.   *)
(***************************************************************************)
CONSTANT Signals

VARIABLES book, phase, reported

bookVars == <<book, phase, reported>>

Entered == {s \in Signals : book[s] # "none"}

Init == book = [s \in Signals |-> "none"] /\ phase = "settled" /\ reported = {}

Turns(from, to) == phase = from /\ phase' = to /\ UNCHANGED <<book, reported>>

Begin   == Turns("settled", "working")
Abandon == Turns("working", "abandoned")
Settle  == Entered \subseteq reported /\ Turns("working", "settled")

Enter(s) ==
  /\ phase = "working" /\ Entered \subseteq reported
  /\ book[s] = "none" /\ book' = [book EXCEPT ![s] = "open"]
  /\ UNCHANGED <<phase, reported>>

Report(s) ==
  /\ phase = "working" /\ s \in Entered /\ reported' = reported \cup {s}
  /\ UNCHANGED <<book, phase>>

\* A trade the cycle has closed is history to it.
Manage(s) ==
  /\ phase = "working" /\ book[s] \in {"open", "manual"}
  /\ \E to \in {"open", "closed"} : book' = [book EXCEPT ![s] = to]
  /\ UNCHANGED <<phase, reported>>

CloseByHand(s) ==
  /\ s \in Entered /\ book' = [book EXCEPT ![s] = "manual"]
  /\ UNCHANGED <<phase, reported>>

Next ==
  \/ Begin \/ Abandon \/ Settle
  \/ \E s \in Signals : Enter(s) \/ Report(s) \/ Manage(s) \/ CloseByHand(s)

Spec == Init /\ [][Next]_bookVars
=============================================================================
