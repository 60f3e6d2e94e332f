--------------------------- MODULE ForwardRoutine ---------------------------
(***************************************************************************)
(* The weekly routine of the forward tracking (forward_routine.py) with    *)
(* what it shares between runs: the lock file, the hash-chained ledger     *)
(* (trial_registry.py) and the Telegram channel (forward_telegram.py).     *)
(* The scheduler and the operator may start it at the same time, and any   *)
(* start may be killed anywhere.                                           *)
(*                                                                         *)
(* What a checkpoint holds is ForwardRecord's; here it is the range of     *)
(* days it seals.  The messages a record supports are one per sealed day,  *)
(* in date order; a run's own (its alerts and what the demo executor did)  *)
(* come after all of these and are left out.                               *)
(***************************************************************************)
EXTENDS Integers, Sequences, FiniteSetsExt

CONSTANTS
  Starters,       \* who may start the routine
  NoOne, Dead,    \* owner of no lock, owner of a lock whose routine was killed
  LastSealable,   \* bound: forward days
  MaxFailures     \* bound: kills, failing steps, failing sends

ASSUME RoutineBoundsAssumption == {LastSealable, MaxFailures} \subseteq Nat
ASSUME StartersAssumption == {NoOne, Dead} \cap Starters = {} /\ NoOne # Dead

VARIABLES
  lock,        \* routine.lock: who created it and lives, is it hours old
  rpc,         \* where each start stands
  tries,       \* attempts of _acquire
  judged,      \* whose lock file the start found stale
  base, upto,  \* the tracker's record and complete days as it read them
  head,        \* the last record when append read its hash
  list,        \* the messages still to be delivered, in date order
  chain,       \* the ledger: the range each checkpoint seals, its predecessor
  torn,        \* the ledger ends in half a line
  complete,    \* complete days of the exports
  channel,     \* what the channel shows
  delivered,   \* messages whose outbox row says SENT
  failures,
  \* ----- history, read by properties only
  raced        \* a start removed a lock file it had neither judged nor created

routineVars == <<lock, rpc, tries, judged, base, upto, head, list, chain, torn,
                 complete, channel, delivered, failures, raced>>

NoLock == [of |-> NoOne, stale |-> FALSE]
Zeros  == [p \in Starters |-> 0]

RoutineInit ==
  /\ lock = NoLock /\ rpc = [p \in Starters |-> "off"] /\ tries = Zeros
  /\ judged = [p \in Starters |-> NoOne] /\ base = Zeros /\ upto = Zeros /\ head = Zeros
  /\ list = [p \in Starters |-> {}] /\ chain = <<>> /\ torn = FALSE /\ complete = 0
  /\ channel = <<>> /\ delivered = {} /\ failures = 0 /\ raced = FALSE

lockVars  == <<lock, tries, judged, raced>>
recordingVars == <<base, upto, head, chain, torn, complete>>
channelVars == <<list, channel, delivered>>

Stands(p, at) == rpc[p] = at
Step(p, to) == rpc' = [rpc EXCEPT ![p] = to]
Failure == failures < MaxFailures /\ failures' = failures + 1

-----------------------------------------------------------------------------
(* The lock.                                                               *)

Start(p) ==
  /\ Stands(p, "off") /\ Step(p, "create") /\ tries' = [tries EXCEPT ![p] = 1]
  /\ UNCHANGED <<lock, judged, raced, recordingVars, channelVars, failures>>

\* A start that ends leaves nothing behind in memory.
Ends(p) ==
  /\ Step(p, "off") /\ tries' = [tries EXCEPT ![p] = 0]
  /\ judged' = [judged EXCEPT ![p] = NoOne]

\* O_CREAT | O_EXCL; then the export, the swap terms and the inflation, which
\* touch nothing shared.  When they fail, the tracker is not run.
Create(p) ==
  /\ Stands(p, "create")
  /\ \/ lock = NoLock /\ lock' = [of |-> p, stale |-> FALSE]
        /\ \/ Step(p, "read") /\ UNCHANGED failures
           \/ Step(p, "report") /\ Failure
     \/ lock # NoLock /\ Step(p, "stat") /\ UNCHANGED <<lock, failures>>
  /\ UNCHANGED <<tries, judged, raced, recordingVars, channelVars>>

\* Mutant of Again: the second round remembers what the first one found.
AgainRemembers(p) ==
  \/ /\ tries[p] = 1 /\ tries' = [tries EXCEPT ![p] = 2] /\ Step(p, "create")
     /\ UNCHANGED judged
  \/ tries[p] = 2 /\ Ends(p)

\* The second round of _acquire, or giving up.
Again(p) ==
  \/ /\ tries[p] = 1 /\ tries' = [tries EXCEPT ![p] = 2] /\ Step(p, "create")
     /\ judged' = [judged EXCEPT ![p] = NoOne]
  \/ tries[p] = 2 /\ Ends(p)

Judges(p) ==
  /\ judged' = [judged EXCEPT ![p] = lock.of] /\ Step(p, "unlink") /\ UNCHANGED tries

\* Mutant of Stat: a lock of any age is taken over.
StatAnyAge(p) ==
  /\ Stands(p, "stat")
  /\ \/ lock = NoLock /\ Again(p)
     \/ lock # NoLock /\ Judges(p)
  /\ UNCHANGED <<lock, raced, recordingVars, channelVars, failures>>

\* The age of the lock there is now.
Stat(p) ==
  /\ Stands(p, "stat")
  /\ \/ lock = NoLock /\ Again(p)
     \/ lock # NoLock /\ ~lock.stale /\ Ends(p)
     \/ lock.stale /\ Judges(p)
  /\ UNCHANGED <<lock, raced, recordingVars, channelVars, failures>>

\* unlink removes whatever file has the name by now.
Removes(p, meant) == lock' = NoLock /\ raced' = (raced \/ (lock # NoLock /\ lock.of # meant))

\* Mutant of Unlink: a stale lock is left where it is.
UnlinkNever(p) ==
  /\ Stands(p, "unlink") /\ Again(p)
  /\ UNCHANGED <<lock, raced, recordingVars, channelVars, failures>>

Unlink(p) ==
  /\ Stands(p, "unlink") /\ Removes(p, judged[p]) /\ Again(p)
  /\ UNCHANGED <<recordingVars, channelVars, failures>>

-----------------------------------------------------------------------------
(* The steps under the lock.                                               *)

\* records(): every line parses and names its predecessor.
Chained(c) == \A i \in 1..Len(c) : c[i].prev = i - 1
Readable   == ~torn /\ Chained(chain)
LastSealed == IF chain = <<>> THEN 0 ELSE chain[Len(chain)].to

\* The tracker ends; what it had read is gone.
Tracked(p) ==
  /\ Step(p, "report") /\ base' = [base EXCEPT ![p] = 0]
  /\ upto' = [upto EXCEPT ![p] = 0] /\ head' = [head EXCEPT ![p] = 0]

\* run_forward up to the append: what is sealed, what is complete.
ReadRecord(p) ==
  /\ Stands(p, "read")
  /\ \/ (Readable => complete <= LastSealed) /\ Tracked(p)
     \/ /\ Readable /\ complete > LastSealed /\ base' = [base EXCEPT ![p] = LastSealed]
        /\ upto' = [upto EXCEPT ![p] = complete] /\ Step(p, "hash") /\ UNCHANGED head
  /\ UNCHANGED <<lockVars, chain, torn, complete, channelVars, failures>>

\* append: the last hash is read again ...
ReadHash(p) ==
  /\ Stands(p, "hash")
  /\ \/ ~Readable /\ Tracked(p)
     \/ /\ Readable /\ head' = [head EXCEPT ![p] = Len(chain)] /\ Step(p, "write")
        /\ UNCHANGED <<base, upto>>
  /\ UNCHANGED <<lockVars, chain, torn, complete, channelVars, failures>>

Checkpoint(p) == [prev |-> head[p], from |-> base[p] + 1, to |-> upto[p]]

\* ... and the line written.
WriteRecord(p) ==
  /\ Stands(p, "write") /\ Tracked(p) /\ chain' = Append(chain, Checkpoint(p))
  /\ UNCHANGED <<lockVars, torn, complete, channelVars, failures>>

\* build_messages: what the sealed days support.
Supported == 1..LastSealed

\* rebuild_trades and build_messages.  Without a readable record there are only
\* alerts; with Telegram off nothing is queued.
BuildMessages(p) ==
  /\ Stands(p, "report") /\ Step(p, "deliver")
  /\ \/ /\ list' = [list EXCEPT ![p] = IF Readable THEN Supported ELSE {}]
        /\ UNCHANGED failures
     \/ Failure /\ UNCHANGED list
  /\ UNCHANGED <<lockVars, recordingVars, channel, delivered>>

\* The message in hand, which comes first in the list, and its end.
InHand(p) == Min(list[p])
Passes(p) == list' = [list EXCEPT ![p] = @ \ {InHand(p)}]

\* send_text reads the row: what says SENT is skipped, the rest queued and sent.
ReadRow(p) ==
  /\ Stands(p, "deliver") /\ list[p] # {}
  /\ \/ InHand(p) \in delivered /\ Passes(p) /\ UNCHANGED rpc
     \/ InHand(p) \notin delivered /\ Step(p, "send") /\ UNCHANGED list
  /\ UNCHANGED <<lockVars, recordingVars, channel, delivered, failures>>

Arrives(p) == channel' = Append(channel, InHand(p))

\* The call: shown and acknowledged; or an error, though it may have arrived.
Send(p) ==
  /\ Stands(p, "send")
  /\ \/ Step(p, "record") /\ Arrives(p) /\ UNCHANGED failures
     \/ Step(p, "fail") /\ Failure /\ (Arrives(p) \/ UNCHANGED channel)
  /\ UNCHANGED <<lockVars, recordingVars, list, delivered>>

\* record_delivery_attempt writes SENT, whatever the row says by now ...
RecordSent(p) ==
  /\ Stands(p, "record") /\ Step(p, "deliver") /\ Passes(p)
  /\ delivered' = delivered \cup {InHand(p)}
  /\ UNCHANGED <<lockVars, recordingVars, channel, failures>>

\* Mutant of StopsDelivery: a failed message does not hold up the others.
StopsDeliveryNever(p) == Passes(p)

\* The first failure stops the run: the rest wait for the next one.
StopsDelivery(p) == list' = [list EXCEPT ![p] = {}]

\* ... or FAILED, over the SENT of another routine too.
RecordFailed(p) ==
  /\ Stands(p, "fail") /\ Step(p, "deliver") /\ StopsDelivery(p)
  /\ delivered' = delivered \ {InHand(p)}
  /\ UNCHANGED <<lockVars, recordingVars, channel, failures>>

\* Where a start has messages to deliver.
Delivering == {"deliver", "send", "record", "fail"}

\* An access to the outbox raises: the messages are left, the run goes on.
OutboxRaises(p) ==
  /\ rpc[p] \in Delivering /\ list[p] # {} /\ Failure /\ Step(p, "deliver")
  /\ list' = [list EXCEPT ![p] = {}]
  /\ UNCHANGED <<lockVars, recordingVars, channel, delivered>>

\* The end of the run, and the finally that removes the lock.
Unlock(p) ==
  /\ Stands(p, "deliver") /\ list[p] = {} /\ Removes(p, p) /\ Ends(p)
  /\ UNCHANGED <<recordingVars, channelVars, failures>>

\* Killed: the lock stays.  The line being written may be there in part, the
\* message being sent may have arrived.
Killed(p) ==
  /\ rpc[p] # "off" /\ Failure /\ Ends(p)
  /\ base' = [base EXCEPT ![p] = 0] /\ upto' = [upto EXCEPT ![p] = 0]
  /\ head' = [head EXCEPT ![p] = 0] /\ list' = [list EXCEPT ![p] = {}]
  /\ \/ UNCHANGED <<torn, channel>>
     \/ Stands(p, "write") /\ torn' = TRUE /\ UNCHANGED channel
     \/ Stands(p, "send") /\ Arrives(p) /\ UNCHANGED torn
  /\ lock' = IF lock.of = p THEN [lock EXCEPT !.of = Dead] ELSE lock
  /\ UNCHANGED <<raced, chain, complete, delivered>>

-----------------------------------------------------------------------------
(* Time.                                                                   *)

DayCompletes ==
  /\ complete < LastSealable /\ complete' = complete + 1
  /\ UNCHANGED <<rpc, lockVars, base, upto, head, chain, torn, channelVars, failures>>

\* STALE_LOCK_SECONDS: every step of a live routine has a timeout, and together
\* they stay below three hours.
LockAges ==
  /\ lock.of = Dead /\ ~lock.stale /\ lock' = [lock EXCEPT !.stale = TRUE]
  /\ UNCHANGED <<rpc, tries, judged, raced, recordingVars, channelVars, failures>>

RoutineStep(p) ==
  \/ Create(p) \/ Stat(p) \/ Unlink(p) \/ ReadRecord(p) \/ ReadHash(p) \/ WriteRecord(p)
  \/ BuildMessages(p) \/ ReadRow(p) \/ Send(p) \/ RecordSent(p) \/ RecordFailed(p)
  \/ OutboxRaises(p) \/ Unlock(p)

RoutineNext ==
  \/ \E p \in Starters : Start(p) \/ RoutineStep(p) \/ Killed(p)
  \/ DayCompletes \/ LockAges

RoutineSpec == RoutineInit /\ [][RoutineNext]_routineVars

\* The scheduler keeps starting the routine, a live routine goes on, and a dead
\* routine's lock grows old.
RoutineFairness ==
  /\ WF_routineVars(\E p \in Starters : Start(p)) /\ WF_routineVars(LockAges)
  /\ \A p \in Starters : WF_routineVars(RoutineStep(p))

FairRoutine == RoutineSpec /\ RoutineFairness

-----------------------------------------------------------------------------
(* Properties.                                                             *)

Locks == [of : Starters \cup {NoOne, Dead}, stale : BOOLEAN]
Points == {"off", "create", "stat", "unlink", "read", "hash", "write", "report"}
          \cup Delivering
Checkpoints == [prev : Nat, from : Nat, to : Nat]

\* Every variable of the routine has its type, and a start holds what it has read
\* only where it uses it.
RoutineTypeOK ==
  /\ lock \in Locks /\ rpc \in [Starters -> Points] /\ tries \in [Starters -> 0..2]
  /\ judged \in [Starters -> Starters \cup {NoOne, Dead}]
  /\ base \in [Starters -> Nat] /\ upto \in [Starters -> Nat] /\ head \in [Starters -> Nat]
  /\ list \in [Starters -> SUBSET Nat] /\ chain \in Seq(Checkpoints) /\ torn \in BOOLEAN
  /\ complete \in 0..LastSealable /\ channel \in Seq(Nat)
  /\ delivered \subseteq Nat /\ failures \in 0..MaxFailures
  /\ raced \in BOOLEAN
  /\ \A p \in Starters : /\ Stands(p, "unlink") <=> judged[p] # NoOne
                         /\ upto[p] # 0 => rpc[p] \in {"hash", "write"}
                         /\ list[p] # {} => rpc[p] \in Delivering
                         /\ rpc[p] \in {"send", "record", "fail"} => list[p] # {}

Running == {p \in Starters : rpc[p] \notin {"off", "create", "stat", "unlink"}}

\* Unless a start has removed a lock file that was not the one it had judged or
\* created, at most one routine is past the lock, the chain is unbroken, and its
\* checkpoints seal every day once and in order.
LockGuardsLedger ==
  ~raced => /\ \A p, q \in Running : p = q
            /\ Chained(chain)
            /\ \A i \in 1..Len(chain) :
                 /\ chain[i].from = IF i = 1 THEN 1 ELSE chain[i - 1].to + 1
                 /\ chain[i].from <= chain[i].to

\* The channel shows the messages of the record in their order, whatever
\* routines overlap, die or repeat a message: none appears for the first time
\* before an earlier one.
ChannelInOrder ==
  \A i \in 1..Len(channel) :
    \A m \in 1..(channel[i] - 1) : \E j \in 1..(i - 1) : channel[j] = m

\* The days the ledger seals, and those the channel has shown.
Sealed == UNION {chain[j].from..chain[j].to : j \in 1..Len(chain)}
Shown == {channel[i] : i \in 1..Len(channel)}

\* The routine implements the bulletin, races included: no incomplete day is
\* sealed, no day is announced before it is sealed and its predecessors are
\* announced, whatever routines overlap, die or repeat a message
\* (forward_telegram.py:3).
Bulletin == INSTANCE ForwardBulletin WITH sealed <- Sealed, announced <- Shown
BulletinIsKept == Bulletin!Spec

\* The messages Telegram has acknowledged: recorded, or about to be.
Acknowledged == delivered \cup {InHand(p) : p \in {q \in Starters : Stands(q, "record")}}

\* An outage costs no more repetitions than it has failures: the channel shows at
\* most one message more than were acknowledged for each failure and each kill;
\* unless a race has let two routines past the lock, which may both read that a
\* message is not sent, and both send it.
CopiesCostFailures == ~raced => Len(channel) <= Cardinality(Acknowledged) + failures

\* How far each location is from the end of a message, or of a start.
Place == [off |-> 0, record |-> 1, fail |-> 1, send |-> 2, deliver |-> 3, report |-> 4,
          write |-> 5, hash |-> 6, read |-> 7, unlink |-> 8, stat |-> 9, create |-> 10]

\* The second attempt after the first, then fewer messages, then a later location.
Nearer(p) ==
  \/ rpc'[p] = "off" \/ (tries[p] = 1 /\ tries'[p] = 2)
  \/ /\ tries'[p] = tries[p] /\ Place[rpc'[p]] < Place[rpc[p]]
     /\ rpc[p] \in Delivering => list'[p] = list[p]
  \/ /\ tries'[p] = tries[p] /\ {rpc[p], rpc'[p]} \subseteq Delivering
     /\ list'[p] \subseteq list[p] /\ list'[p] # list[p]

\* A start that takes no step of its own in this one stands where it stood.
Waits(p) == ~RoutineStep(p) /\ rpc'[p] = rpc[p] /\ tries'[p] = tries[p] /\ list'[p] = list[p]

\* No start waits for another: every step it takes, whatever it finds in the lock,
\* the ledger or the outbox, brings it nearer to its end, and nobody sets it back.
NoStartWaits ==
  [][\A p \in Starters : rpc[p] # "off" => Nearer(p) \/ Waits(p)]_routineVars

\* If the last day completes and kills and failures are over, every day is sealed
\* for good and every message of the record delivered, a stale lock taken over on
\* the way; unless half a line or a race has left a ledger no run can read.
RecordCatchesUp ==
  <>[](complete = LastSealable =>
         torn \/ raced \/ (LastSealed = LastSealable /\ 1..LastSealable \subseteq delivered))
=============================================================================
