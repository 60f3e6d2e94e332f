--------------------------- MODULE TelegramCommands ---------------------------
(***************************************************************************)
(* The Telegram command center (telegram_command_center.py): the forward   *)
(* loop polls it before each cycle.  Updates are executed one after the    *)
(* other, and the update offset is stored when the whole batch is through: *)
(* a command that raises, a storage that fails or a crash leaves the       *)
(* offset behind, and the batch is executed again.  The command line       *)
(* pauses and resumes beside it (paper_state.py).                          *)
(***************************************************************************)
EXTENDS Integers, Sequences

CONSTANTS
  Kinds,        \* what may be sent
  MaxUpdates,   \* bound: messages sent to the bot
  MaxBreaks,    \* bound: failing storage, crashes
  MaxOrders     \* bound: pauses and resumes at the command line

ASSUME CommandsAssumption ==
  /\ Kinds \subseteq {"pause", "resume", "report", "broken"}
  /\ {MaxUpdates, MaxBreaks, MaxOrders} \subseteq Nat

VARIABLES
  updates,     \* what was sent; an update's id is its place
  offset,      \* telegram_update_offset of the operational state
  next, last,  \* the update to execute and the last of the batch; 0: no batch
  paused,      \* shadow_paused
  breaks, orders,
  \* ----- history, read by properties only
  executed     \* the updates executed at least once

commandVars == <<updates, offset, next, last, paused, breaks, orders, executed>>

CommandsInit ==
  /\ updates = <<>> /\ offset = 0 /\ next = 0 /\ last = 0 /\ paused = FALSE
  /\ breaks = 0 /\ orders = 0 /\ executed = {}

Breaks == breaks < MaxBreaks /\ breaks' = breaks + 1
NoBatch == next' = 0 /\ last' = 0

\* A command that raises whenever it is executed: a report that cannot be built.
Raises(i) == updates[i] = "broken"

-----------------------------------------------------------------------------
(* The operator and Telegram.                                              *)

SendCommand(k) ==
  /\ Len(updates) < MaxUpdates /\ updates' = Append(updates, k)
  /\ UNCHANGED <<offset, next, last, paused, breaks, orders, executed>>

\* paper-pause and paper-resume.
Order ==
  /\ orders < MaxOrders /\ orders' = orders + 1 /\ paused' = ~paused
  /\ UNCHANGED <<updates, offset, next, last, breaks, executed>>

-----------------------------------------------------------------------------
(* poll_and_process.                                                       *)

\* The Bot API answers with the updates after the offset, as many as it wants.
Poll ==
  /\ next = 0 /\ offset < Len(updates) /\ next' = offset + 1
  /\ last' \in offset + 1..Len(updates)
  /\ UNCHANGED <<updates, offset, paused, breaks, orders, executed>>

\* The effect of _handle.
Handle ==
  /\ paused' = CASE updates[next] = "pause" -> TRUE
                 [] updates[next] = "resume" -> FALSE
                 [] OTHER -> paused
  /\ executed' = executed \cup {next}

\* process_update, recorded and audited.
Execute ==
  /\ next \in 1..last /\ ~Raises(next) /\ Handle /\ next' = next + 1
  /\ UNCHANGED <<updates, offset, last, breaks, orders>>

\* An exception ends the poll and with it the batch.
Raise ==
  /\ next \in 1..last /\ Raises(next) /\ NoBatch
  /\ executed' = executed \cup {next}
  /\ UNCHANGED <<updates, offset, paused, breaks, orders>>

\* The command took effect and its record fails.
Unrecorded ==
  /\ next \in 1..last /\ ~Raises(next) /\ Breaks /\ Handle /\ NoBatch
  /\ UNCHANGED <<updates, offset, orders>>

\* Mutant of Confirm: the id the next poll asks for is stored as the offset.
ConfirmNext ==
  /\ next # 0 /\ next = last + 1 /\ offset' = last + 1 /\ NoBatch
  /\ UNCHANGED <<updates, paused, breaks, orders, executed>>

\* Mutant of Confirm: the last update of the batch is asked for again.
ConfirmBefore ==
  /\ next # 0 /\ next = last + 1 /\ offset' = last - 1 /\ NoBatch
  /\ UNCHANGED <<updates, paused, breaks, orders, executed>>

\* The batch is through.
Confirm ==
  /\ next # 0 /\ next = last + 1 /\ offset' = last /\ NoBatch
  /\ UNCHANGED <<updates, paused, breaks, orders, executed>>

\* The process dies, or the offset cannot be stored.
PollDies ==
  /\ next # 0 /\ Breaks /\ NoBatch
  /\ UNCHANGED <<updates, offset, paused, orders, executed>>

-----------------------------------------------------------------------------
PollStep == Poll \/ Execute \/ Raise \/ Confirm

CommandsNext ==
  \/ \E k \in Kinds : SendCommand(k)
  \/ Order \/ PollStep \/ Unrecorded \/ PollDies

CommandsSpec == CommandsInit /\ [][CommandsNext]_commandVars

\* The forward loop polls every cycle.
CommandsFairness == WF_commandVars(PollStep)
FairCommands == CommandsSpec /\ CommandsFairness

-----------------------------------------------------------------------------
(* Properties.                                                             *)

\* Every variable has its type.
CommandsTypeOK ==
  /\ updates \in Seq(Kinds) /\ offset \in 0..Len(updates)
  /\ next \in 0..Len(updates) + 1 /\ last \in 0..Len(updates)
  /\ paused \in BOOLEAN /\ breaks \in 0..MaxBreaks /\ orders \in 0..MaxOrders
  /\ executed \subseteq 1..Len(updates)

\* What the offset leaves behind was executed, every update of it, and a later
\* update is never executed before an earlier one, whatever failed in between.
NoCommandSkipped ==
  /\ 1..offset \subseteq executed
  /\ \A i \in executed : 1..i \subseteq executed

\* A pause is lifted at the command line or by a /resume_shadow executed for the
\* first time, unless something broke that batch: only then an old resume comes
\* back and undoes a newer pause.
PauseLiftedByNewOrder ==
  [][paused /\ ~paused' =>
       \/ orders' # orders \/ next \notin executed
       \/ breaks > 0 \/ \E i \in executed : Raises(i)]_commandVars

\* A command that raises holds up all that were sent after it, however often the
\* process is started again: none of them is ever executed.
NothingPastARaisingOne == \A i \in executed : \A j \in 1..i - 1 : ~Raises(j)

\* While the loop runs, every update is executed that no command before it in
\* the queue makes the poll give up.
CommandsArrive ==
  \A n \in 1..MaxUpdates :
    (n <= Len(updates) /\ \A i \in 1..n - 1 : ~Raises(i)) ~> n \in executed
=============================================================================
