----------------------- MODULE TelegramCommands_proofs -----------------------
(***************************************************************************)
(* What is proved of TelegramCommands for any number of updates, failures  *)
(* and orders at the command line.                                         *)
(***************************************************************************)
EXTENDS TelegramCommands, TLAPS

\* Where the poll stands between two commands.
Reached == IF next = 0 THEN offset ELSE next - 1

\* Nothing that has been executed has ended a batch.
Calm == breaks = 0 /\ \A i \in executed : ~Raises(i)

\* The batch lies after the offset, and what lies behind the poll was executed.
BatchOK ==
  /\ next = 0 => last = 0
  /\ next # 0 => offset < next /\ next <= last + 1 /\ last <= Len(updates)
  /\ 1..Reached \subseteq executed

\* In the calm, nothing else was.
CalmOK == Calm => executed \subseteq 1..Reached

\* The inductive invariant.
CommandsInv == CommandsTypeOK /\ NoCommandSkipped /\ BatchOK /\ CalmOK

\* A later update keeps its place: the ones before it are what they were.
LEMMA AppendKeeps ==
  ASSUME NEW s \in Seq(Kinds), NEW k \in Kinds
  PROVE  /\ Append(s, k) \in Seq(Kinds) /\ Len(Append(s, k)) = Len(s) + 1
         /\ \A i \in 1..Len(s) : Append(s, k)[i] = s[i]
  OBVIOUS

LEMMA CommandsStart == CommandsInit => CommandsInv
<1> SUFFICES ASSUME CommandsInit PROVE CommandsInv
  OBVIOUS
<1> USE CommandsAssumption DEF CommandsInit
<1>1. Len(<<>>) = 0 /\ <<>> \in Seq(Kinds)
  OBVIOUS
<1>2. /\ updates = <<>> /\ offset = 0 /\ next = 0 /\ last = 0 /\ paused = FALSE
      /\ breaks = 0 /\ orders = 0 /\ executed = {}
  OBVIOUS
<1>3. MaxBreaks \in Nat /\ MaxOrders \in Nat
  BY CommandsAssumption
<1>4. CommandsTypeOK
  <2>1. Len(updates) = 0 /\ updates \in Seq(Kinds)
    BY ONLY <1>1, <1>2
  <2>2. executed \subseteq 1..Len(updates) /\ paused \in BOOLEAN
    BY <1>2
  <2>3. /\ 0 \in 0..Len(updates) /\ 0 \in 0..Len(updates) + 1 /\ 0 \in 0..MaxBreaks
        /\ 0 \in 0..MaxOrders
    BY ONLY <2>1, <1>3
  <2> QED BY <1>2, <2>1, <2>2, <2>3, Zenon DEF CommandsTypeOK
<1>5. NoCommandSkipped
  BY DEF NoCommandSkipped
<1>6. BatchOK
  BY DEF BatchOK, Reached
<1>7. CalmOK
  BY DEF CalmOK
<1> QED BY <1>4, <1>5, <1>6, <1>7 DEF CommandsInv

\* A batch that begins after the offset.
LEMMA BatchBegins ==
  ASSUME NEW at \in Nat, NEW n \in Nat, NEW end \in at + 1..n
  PROVE  at + 1 # 0 /\ at < at + 1 /\ at + 1 <= end + 1 /\ end <= n
  OBVIOUS

\* A calm state comes from a calm one.
LEMMA CalmBefore ==
  ASSUME CommandsTypeOK, updates' = updates, executed \subseteq executed',
         breaks' = breaks \/ Breaks
  PROVE  Calm' => Calm
<1>1. breaks \in Nat /\ (Breaks => breaks' = breaks + 1)
  BY CommandsAssumption DEF CommandsTypeOK, Breaks
<1>2. breaks' = 0 => breaks = 0
  BY <1>1
<1> QED BY <1>2 DEF Calm, Raises

\* A step that neither executes anything nor moves the point reached.
LEMMA PointKept ==
  ASSUME CommandsInv, UNCHANGED <<updates, executed>>, breaks' = breaks \/ Breaks,
         Reached' = Reached
  PROVE  CalmOK' /\ (1..Reached \subseteq executed)'
  BY CalmBefore DEF CommandsInv, CalmOK, BatchOK

LEMMA CommandsStep == CommandsInv /\ [CommandsNext]_commandVars => CommandsInv'
<1> SUFFICES ASSUME CommandsInv, [CommandsNext]_commandVars PROVE CommandsInv'
  OBVIOUS
<1> USE CommandsAssumption
<1>0. /\ CommandsTypeOK /\ NoCommandSkipped /\ BatchOK /\ CalmOK /\ Len(updates) \in Nat
      /\ offset \in Nat /\ next \in Nat /\ last \in Nat
  BY DEF CommandsInv, CommandsTypeOK
<1>1. CASE UNCHANGED commandVars
  BY <1>0, <1>1
     DEF commandVars, CommandsInv, CommandsTypeOK, NoCommandSkipped, BatchOK, CalmOK, Calm,
         Reached, Raises
<1>2. ASSUME NEW k \in Kinds, SendCommand(k) PROVE CommandsInv'
  <2>1. /\ updates' \in Seq(Kinds) /\ Len(updates') = Len(updates) + 1
        /\ \A i \in 1..Len(updates) : updates'[i] = updates[i]
    <3>1. updates' = Append(updates, k) /\ updates \in Seq(Kinds)
      BY <1>2 DEF SendCommand, CommandsInv, CommandsTypeOK
    <3> QED BY ONLY <3>1, k \in Kinds, AppendKeeps
  <2>2. UNCHANGED <<offset, next, last, paused, breaks, orders, executed>>
    BY <1>2 DEF SendCommand
  <2>3. CommandsTypeOK'
    BY <1>0, <2>1, <2>2 DEF CommandsTypeOK
  <2>4. NoCommandSkipped' /\ BatchOK' /\ Reached' = Reached
    BY <1>0, <2>1, <2>2 DEF NoCommandSkipped, BatchOK, Reached
  <2>5. CalmOK'
    <3>1. Calm' => Calm
      BY <1>0, <2>1, <2>2 DEF Calm, Raises, CommandsTypeOK
    <3> QED BY <1>0, <2>2, <2>4, <3>1 DEF CalmOK
  <2> QED BY <2>3, <2>4, <2>5 DEF CommandsInv
<1>3. CASE Order
  <2>1. /\ orders < MaxOrders /\ orders' = orders + 1 /\ paused' = ~paused
        /\ UNCHANGED <<updates, offset, next, last, breaks, executed>>
    BY <1>3 DEF Order
  <2>2. CommandsTypeOK'
    BY <1>0, <2>1 DEF CommandsTypeOK
  <2>3. NoCommandSkipped' /\ BatchOK' /\ Reached' = Reached
    BY <1>0, <2>1 DEF NoCommandSkipped, BatchOK, Reached
  <2>4. CalmOK'
    BY <2>1, <2>3, PointKept
  <2> QED BY <2>2, <2>3, <2>4 DEF CommandsInv
<1>4. CASE Poll
  <2>1. /\ next = 0 /\ offset < Len(updates) /\ next' = offset + 1
        /\ last' \in offset + 1..Len(updates)
        /\ UNCHANGED <<updates, offset, paused, breaks, orders, executed>>
    BY <1>4 DEF Poll
  <2>2. CommandsTypeOK'
    BY <1>0, <2>1 DEF CommandsTypeOK
  <2>3. Reached' = Reached
    BY <1>0, <2>1 DEF Reached
  <2>4. CalmOK' /\ (1..Reached \subseteq executed)'
    BY <2>1, <2>3, PointKept
  <2>5. NoCommandSkipped'
    BY <1>0, <2>1 DEF NoCommandSkipped
  <2>6. BatchOK'
    <3>1. /\ offset + 1 # 0 /\ offset < offset + 1 /\ offset + 1 <= last' + 1
          /\ last' <= Len(updates)
      BY <1>0, <2>1, BatchBegins
    <3> QED BY <2>1, <2>4, <3>1 DEF BatchOK
  <2> QED BY <2>2, <2>4, <2>5, <2>6 DEF CommandsInv
<1>5. CASE Execute \/ Unrecorded
  <2>1. /\ next \in 1..last /\ executed' = executed \cup {next} /\ paused' \in BOOLEAN
        /\ breaks' = breaks \/ Breaks
        /\ ~Raises(next)
        /\ UNCHANGED <<updates, offset, orders>>
    BY <1>0, <1>5 DEF Execute, Unrecorded, Handle, CommandsTypeOK
  <2>2. \/ breaks' = breaks /\ next' = next + 1 /\ last' = last
        \/ Breaks /\ next' = 0 /\ last' = 0
    BY <1>5 DEF Execute, Unrecorded, NoBatch
  <2>3. CommandsTypeOK'
    BY <1>0, <2>1, <2>2 DEF CommandsTypeOK, BatchOK, Breaks
  <2>4. 1..next - 1 \subseteq executed
    BY <1>0, <2>1 DEF BatchOK, Reached
  <2>5. 1..next \subseteq executed'
    BY <1>0, <2>1, <2>4
  <2>6. NoCommandSkipped'
    BY <1>0, <2>1, <2>5 DEF NoCommandSkipped
  <2>7. BatchOK'
    <3>1. (1..Reached \subseteq executed)'
      BY <1>0, <2>1, <2>2, <2>5, <2>6 DEF Reached, NoCommandSkipped
    <3>2. offset < next /\ last <= Len(updates)
      BY <1>0, <2>1 DEF BatchOK
    <3> QED BY <1>0, <2>1, <2>2, <3>1, <3>2 DEF BatchOK
  <2>8. CalmOK'
    <3>1. CASE Breaks
      <4>1. breaks' # 0
        BY <1>0, <3>1 DEF Breaks, CommandsTypeOK
      <4> QED BY <4>1 DEF CalmOK, Calm
    <3>2. CASE breaks' = breaks /\ next' = next + 1
      <4>1. Calm' => executed \subseteq 1..next - 1
        BY <1>0, <2>1, CalmBefore DEF CalmOK, Reached
      <4>2. Reached' = next
        BY <1>0, <3>2 DEF Reached
      <4> QED BY <1>0, <2>1, <4>1, <4>2 DEF CalmOK
    <3> QED BY <2>2, <3>1, <3>2
  <2> QED BY <2>3, <2>6, <2>7, <2>8 DEF CommandsInv
<1>6. CASE Raise
  <2>1. /\ next \in 1..last /\ Raises(next) /\ next' = 0 /\ last' = 0
        /\ executed' = executed \cup {next}
        /\ UNCHANGED <<updates, offset, paused, breaks, orders>>
    BY <1>6 DEF Raise, NoBatch
  <2>2. CommandsTypeOK'
    BY <1>0, <2>1 DEF CommandsTypeOK, BatchOK
  <2>3. 1..next - 1 \subseteq executed
    BY <1>0, <2>1 DEF BatchOK, Reached
  <2>4. NoCommandSkipped'
    BY <1>0, <2>1, <2>3 DEF NoCommandSkipped
  <2>5. BatchOK'
    BY <1>0, <2>1, <2>4 DEF BatchOK, Reached, NoCommandSkipped
  <2>6. ~Calm'
    BY <2>1 DEF Calm, Raises
  <2> QED BY <2>2, <2>4, <2>5, <2>6 DEF CommandsInv, CalmOK
<1>7. CASE Confirm
  <2>1. /\ next # 0 /\ next = last + 1 /\ offset' = last /\ next' = 0 /\ last' = 0
        /\ UNCHANGED <<updates, paused, breaks, orders, executed>>
    BY <1>7 DEF Confirm, NoBatch
  <2>2. Reached' = Reached /\ Reached = last /\ last <= Len(updates)
    BY <1>0, <2>1 DEF Reached, BatchOK
  <2>3. CommandsTypeOK'
    BY <1>0, <2>1, <2>2 DEF CommandsTypeOK
  <2>4. CalmOK' /\ (1..Reached \subseteq executed)'
    BY <2>1, <2>2, PointKept
  <2>5. NoCommandSkipped' /\ BatchOK'
    BY <1>0, <2>1, <2>2, <2>4 DEF NoCommandSkipped, BatchOK
  <2> QED BY <2>3, <2>4, <2>5 DEF CommandsInv
<1>8. CASE PollDies
  <2>1. /\ next # 0 /\ Breaks /\ next' = 0 /\ last' = 0
        /\ UNCHANGED <<updates, offset, paused, orders, executed>>
    BY <1>8 DEF PollDies, NoBatch
  <2>2. CommandsTypeOK' /\ breaks' # 0
    BY <1>0, <2>1 DEF CommandsTypeOK, Breaks
  <2>3. NoCommandSkipped' /\ BatchOK'
    BY <1>0, <2>1 DEF NoCommandSkipped, BatchOK, Reached
  <2> QED BY <2>2, <2>3 DEF CommandsInv, CalmOK, Calm
<1> QED BY <1>1, <1>2, <1>3, <1>4, <1>5, <1>6, <1>7, <1>8 DEF CommandsNext, PollStep

LEMMA CommandsInvariant == CommandsSpec => []CommandsInv
  BY CommandsStart, CommandsStep, PTL DEF CommandsSpec

-----------------------------------------------------------------------------
\* Every variable of the command center has its type.
THEOREM CommandsTypes == CommandsSpec => []CommandsTypeOK
<1>1. CommandsInv => CommandsTypeOK
  BY DEF CommandsInv
<1> QED BY <1>1, CommandsInvariant, PTL

\* The offset never passes an update that was not executed, and updates are
\* executed in their order (poll_and_process).
THEOREM NothingSkipped == CommandsSpec => []NoCommandSkipped
<1>1. CommandsInv => NoCommandSkipped
  BY DEF CommandsInv
<1> QED BY <1>1, CommandsInvariant, PTL

\* While nothing has broken, only a new order lifts a pause.
THEOREM PauseLifted == CommandsSpec => PauseLiftedByNewOrder
<1> DEFINE New == paused /\ ~paused' =>
                    \/ orders' # orders \/ next \notin executed
                    \/ breaks > 0 \/ \E i \in executed : Raises(i)
<1>1. CommandsInv /\ [CommandsNext]_commandVars => [New]_commandVars
  <2> SUFFICES ASSUME CommandsInv, CommandsNext, paused, ~paused', ~(breaks > 0),
                      ~\E i \in executed : Raises(i), orders' = orders
               PROVE  next \notin executed
    OBVIOUS
  <2>1. Calm
    BY CommandsAssumption DEF Calm, CommandsInv, CommandsTypeOK
  <2>2. CASE Execute \/ Unrecorded
    <3>1. next \in 1..last
      BY <2>2 DEF Execute, Unrecorded
    <3>2. executed \subseteq 1..next - 1
      BY <2>1, <3>1 DEF CommandsInv, CalmOK, Reached
    <3> QED BY <3>1, <3>2 DEF CommandsInv, CommandsTypeOK
  <2>3. ~Order
    BY CommandsAssumption DEF Order, CommandsInv, CommandsTypeOK
  <2> QED BY <2>2, <2>3
          DEF CommandsNext, PollStep, SendCommand, Poll, Raise, Confirm, PollDies
<1> QED BY <1>1, CommandsInvariant, PTL DEF CommandsSpec, PauseLiftedByNewOrder

-----------------------------------------------------------------------------
(* Commands that raise.                                                    *)

\* Nothing the poll has passed raises, and nothing executed lies beyond one that
\* does.
ClearOK == (\A i \in 1..Reached : ~Raises(i)) /\ NothingPastARaisingOne

\* A step that sends nothing, passes at most the next command, which does not
\* raise, and executes at most that one.
LEMMA ClearKept ==
  ASSUME CommandsInv, ClearOK, updates' = updates,
         \/ Reached' \in 0..Reached
         \/ next \in 1..last /\ ~Raises(next) /\ Reached' = next,
         \/ executed' = executed
         \/ next \in 1..last /\ executed' = executed \cup {next}
  PROVE  ClearOK'
<1>1. /\ offset \in Nat /\ next \in Nat /\ last \in Nat /\ executed \subseteq Nat
      /\ \A i : Raises(i)' <=> Raises(i)
  BY DEF CommandsInv, CommandsTypeOK, Raises
<1>2. next # 0 => Reached = next - 1
  BY DEF Reached
<1>3. Reached \in Nat
  BY <1>1, <1>2 DEF Reached
<1>4. \A i \in 1..Reached : ~Raises(i)
  BY DEF ClearOK
<1>5. (\A i \in 1..Reached : ~Raises(i))'
  <2> SUFFICES ASSUME NEW i \in 1..Reached' PROVE ~Raises(i)
    BY <1>1
  <2>1. CASE Reached' \in 0..Reached
    BY <1>3, <1>4, <2>1
  <2>2. CASE next \in 1..last /\ ~Raises(next) /\ Reached' = next
    BY <1>1, <1>2, <1>4, <2>2
  <2> QED BY <2>1, <2>2
<1>6. NothingPastARaisingOne'
  <2> SUFFICES ASSUME NEW i \in executed', NEW j \in 1..i - 1 PROVE ~Raises(j)
    BY <1>1 DEF NothingPastARaisingOne
  <2>1. CASE i \in executed
    BY <2>1 DEF ClearOK, NothingPastARaisingOne
  <2>2. CASE i = next /\ next \in 1..last
    BY <1>1, <1>2, <1>4, <2>2
  <2> QED BY <2>1, <2>2
<1> QED BY <1>5, <1>6 DEF ClearOK

LEMMA ClearStep ==
  ASSUME CommandsInv, ClearOK, [CommandsNext]_commandVars
  PROVE  ClearOK'
<1>0. /\ offset \in Nat /\ next \in Nat /\ last \in Nat /\ updates \in Seq(Kinds)
      /\ executed \subseteq 1..Len(updates) /\ Len(updates) \in Nat
      /\ next # 0 => offset < next /\ next <= last + 1 /\ last <= Len(updates)
      /\ offset <= Len(updates)
  BY DEF CommandsInv, CommandsTypeOK, BatchOK
<1>1. ASSUME NEW k \in Kinds, SendCommand(k) PROVE ClearOK'
  <2>1. /\ updates' = Append(updates, k)
        /\ UNCHANGED <<offset, next, executed>>
    BY <1>1 DEF SendCommand
  <2>2. \A i \in 1..Len(updates) : Raises(i)' <=> Raises(i)
    BY <1>0, <2>1, AppendKeeps DEF Raises
  <2>3. Reached' = Reached /\ Reached \in 0..Len(updates)
    BY <1>0, <2>1 DEF Reached
  <2>4. (\A i \in 1..Reached : ~Raises(i))'
    BY <1>0, <2>2, <2>3 DEF ClearOK
  <2>5. NothingPastARaisingOne'
    BY <1>0, <2>1, <2>2 DEF ClearOK, NothingPastARaisingOne
  <2> QED BY <2>4, <2>5 DEF ClearOK
<1>2. CASE Order \/ UNCHANGED commandVars
  <2>1. UNCHANGED <<updates, executed, offset, next>>
    BY <1>2 DEF Order, commandVars
  <2>2. Reached' \in 0..Reached
    BY <1>0, <2>1 DEF Reached
  <2> QED BY <2>1, <2>2, ClearKept
<1>3. CASE Poll
  <2>1. UNCHANGED <<updates, executed>> /\ Reached' \in 0..Reached
    BY <1>0, <1>3 DEF Poll, Reached
  <2> QED BY <2>1, ClearKept
<1>4. CASE Execute
  <2>1. /\ updates' = updates /\ next \in 1..last /\ ~Raises(next)
        /\ executed' = executed \cup {next} /\ next' = next + 1
    BY <1>4 DEF Execute, Handle
  <2>2. Reached' = next
    BY <1>0, <2>1 DEF Reached
  <2> QED BY <2>1, <2>2, ClearKept
<1>5. CASE Raise \/ Unrecorded
  <2>1. /\ updates' = updates /\ next \in 1..last /\ executed' = executed \cup {next}
        /\ next' = 0 /\ offset' = offset
    BY <1>5 DEF Raise, Unrecorded, Handle, NoBatch
  <2>2. Reached' \in 0..Reached
    BY <1>0, <2>1 DEF Reached
  <2> QED BY <2>1, <2>2, ClearKept
<1>6. CASE Confirm \/ PollDies
  <2>1. UNCHANGED <<updates, executed>> /\ Reached' \in 0..Reached
    BY <1>0, <1>6 DEF Confirm, PollDies, NoBatch, Reached
  <2> QED BY <2>1, ClearKept
<1> QED BY <1>1, <1>2, <1>3, <1>4, <1>5, <1>6 DEF CommandsNext, PollStep

\* A command whose handling raises is asked for again at every poll and executed
\* again, and nothing behind it ever is: what CommandsArrive excepts does happen.
THEOREM RaisingBlocks == CommandsSpec => []NothingPastARaisingOne
<1>1. CommandsInit => ClearOK
  BY DEF CommandsInit, ClearOK, Reached, NothingPastARaisingOne
<1>2. ClearOK => NothingPastARaisingOne
  BY DEF ClearOK
<1> QED BY <1>1, <1>2, ClearStep, CommandsInvariant, PTL DEF CommandsSpec
=============================================================================
