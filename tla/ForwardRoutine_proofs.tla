----------------------- MODULE ForwardRoutine_proofs -----------------------
(***************************************************************************)
(* What is proved of ForwardRoutine for any number of starts, days and     *)
(* failures.                                                               *)
(***************************************************************************)
EXTENDS ForwardRoutine, FiniteSetTheorems, SequenceTheorems, NaturalMinimum, TLAPS

RoutineAssumptions == RoutineBoundsAssumption /\ StartersAssumption

LEMMA RoutineConstants == RoutineAssumptions
  BY RoutineBoundsAssumption, StartersAssumption DEF RoutineAssumptions

-----------------------------------------------------------------------------
(* Types.                                                                  *)

\* The types of what every start keeps, and where it keeps it.
StartsTyped ==
  /\ rpc \in [Starters -> Points] /\ tries \in [Starters -> 0..2]
  /\ judged \in [Starters -> Starters \cup {NoOne, Dead}]
  /\ base \in [Starters -> Nat] /\ upto \in [Starters -> Nat] /\ head \in [Starters -> Nat]
  /\ list \in [Starters -> SUBSET Nat]
  /\ \A p \in Starters : /\ Stands(p, "unlink") <=> judged[p] # NoOne
                         /\ upto[p] # 0 => rpc[p] \in {"hash", "write"}
                         /\ list[p] # {} => rpc[p] \in Delivering
                         /\ rpc[p] \in {"send", "record", "fail"} => list[p] # {}

\* The types of what they share.
SharedTyped ==
  /\ lock \in Locks /\ chain \in Seq(Checkpoints) /\ torn \in BOOLEAN
  /\ complete \in 0..LastSealable /\ channel \in Seq(Nat) /\ delivered \subseteq Nat
  /\ failures \in 0..MaxFailures /\ raced \in BOOLEAN

\* Only the lock of a dead routine grows old.
StaleIsDead == lock.stale => lock.of = Dead

RoutineTyped == StartsTyped /\ SharedTyped /\ StaleIsDead

LEMMA TypesFollow == RoutineTyped => RoutineTypeOK
  BY DEF RoutineTyped, RoutineTypeOK, StartsTyped, SharedTyped

LEMMA FailureType ==
  ASSUME RoutineAssumptions, SharedTyped
  PROVE  /\ Failure => failures' \in 0..MaxFailures
         /\ UNCHANGED failures => failures' \in 0..MaxFailures
  BY DEF RoutineAssumptions, RoutineBoundsAssumption, SharedTyped, Failure

LEMMA LastSealedType == ASSUME SharedTyped PROVE LastSealed \in Nat
<1>1. chain # <<>> => chain[Len(chain)] \in Checkpoints
  BY DEF SharedTyped
<1> QED BY <1>1 DEF LastSealed, Checkpoints

\* The message in hand.
LEMMA HandType ==
  ASSUME StartsTyped, NEW p \in Starters, list[p] # {}
  PROVE  /\ InHand(p) \in list[p] /\ InHand(p) \in Nat
         /\ \A m \in list[p] : InHand(p) <= m
<1>1. list[p] \in SUBSET Nat
  BY DEF StartsTyped
<1> QED BY <1>1, Least DEF InHand

\* The steps of a delivery, and what any of them may change.
DeliveryStep(p) ==
  ReadRow(p) \/ Send(p) \/ RecordSent(p) \/ RecordFailed(p) \/ OutboxRaises(p)

LEMMA DeliveryEffect ==
  ASSUME RoutineTyped, NEW p \in Starters, DeliveryStep(p)
  PROVE  /\ rpc[p] \in Delivering /\ list[p] # {}
         /\ \E to \in Delivering : /\ rpc' = [rpc EXCEPT ![p] = to]
                                   /\ to # "deliver" => list' = list
         /\ list' = list \/ Passes(p) \/ list' = [list EXCEPT ![p] = {}]
         /\ channel' = channel \/ Arrives(p)
         /\ failures' = failures \/ Failure
         /\ UNCHANGED <<lock, tries, judged, raced, base, upto, head, chain, torn, complete>>
<1>0. rpc \in [Starters -> Points] /\ (rpc[p] \in {"send", "record", "fail"} => list[p] # {})
  BY DEF RoutineTyped, StartsTyped
<1> USE DEF lockVars, recordingVars, channelVars, Stands, Step, Delivering
<1>1. CASE ReadRow(p)
  <2>1. CASE UNCHANGED rpc
    <3>1. rpc' = [rpc EXCEPT ![p] = "deliver"]
      BY <1>0, <1>1, <2>1 DEF ReadRow
    <3> QED BY <1>1, <3>1 DEF ReadRow
  <2>2. CASE rpc' = [rpc EXCEPT ![p] = "send"] /\ UNCHANGED list
    BY <1>1, <2>2 DEF ReadRow
  <2> QED BY <1>1, <2>1, <2>2 DEF ReadRow
<1>2. CASE Send(p)
  BY <1>0, <1>2 DEF Send
<1>3. CASE RecordSent(p)
  BY <1>0, <1>3 DEF RecordSent
<1>4. CASE RecordFailed(p)
  BY <1>0, <1>4 DEF RecordFailed, StopsDelivery
<1>5. CASE OutboxRaises(p)
  BY <1>0, <1>5 DEF OutboxRaises
<1> QED BY <1>1, <1>2, <1>3, <1>4, <1>5 DEF DeliveryStep

\* The channel with one more message, or as it was.
LEMMA ChannelType ==
  ASSUME RoutineTyped, NEW p \in Starters, list[p] # {}, channel' = channel \/ Arrives(p)
  PROVE  channel' \in Seq(Nat)
<1>1. channel \in Seq(Nat) /\ InHand(p) \in Nat
  BY HandType DEF RoutineTyped, SharedTyped
<1>2. Append(channel, InHand(p)) \in Seq(Nat)
  BY <1>1, AppendProperties
<1> QED BY <1>1, <1>2 DEF Arrives

\* The steps of the lock.
LEMMA LockTypes ==
  ASSUME RoutineAssumptions, RoutineTyped, NEW p \in Starters,
         Start(p) \/ Create(p) \/ Stat(p) \/ Unlink(p)
  PROVE  RoutineTyped'
<1> USE DEF lockVars, recordingVars, channelVars, Stands, Step, Delivering
<1>0. StartsTyped /\ SharedTyped /\ StaleIsDead
  BY DEF RoutineTyped
<1>1. CASE Start(p)
  <2>1. StartsTyped'
    BY <1>0, <1>1 DEF Start, StartsTyped, Points
  <2>2. SharedTyped' /\ StaleIsDead'
    BY <1>0, <1>1 DEF Start, SharedTyped, StaleIsDead
  <2> QED BY <2>1, <2>2 DEF RoutineTyped
<1>2. CASE Create(p)
  <2>1. StartsTyped'
    BY <1>0, <1>2 DEF Create, StartsTyped, Points
  <2>2. failures' \in 0..MaxFailures
    BY <1>0, <1>2, FailureType DEF Create
  <2>3. lock' \in Locks /\ StaleIsDead'
    <3>1. lock' = lock \/ lock' = [of |-> p, stale |-> FALSE]
      BY <1>2 DEF Create
    <3>2. [of |-> p, stale |-> FALSE] \in Locks
      BY DEF Locks
    <3>3. CASE lock' = lock
      BY <1>0, <3>3 DEF SharedTyped, StaleIsDead
    <3>4. CASE lock' = [of |-> p, stale |-> FALSE]
      BY <3>2, <3>4 DEF StaleIsDead
    <3> QED BY <3>1, <3>3, <3>4
  <2>4. UNCHANGED <<chain, torn, complete, channel, delivered, raced>>
    BY <1>2 DEF Create
  <2>5. SharedTyped'
    BY <1>0, <2>2, <2>3, <2>4 DEF SharedTyped
  <2> QED BY <2>1, <2>3, <2>5 DEF RoutineTyped
<1>3. CASE Stat(p)
  <2>1. StartsTyped'
    <3>1. lock.of \in Starters \cup {NoOne, Dead}
      BY <1>0 DEF SharedTyped, Locks
    <3>2. CASE lock = NoLock /\ Again(p)
      BY <1>0, <1>3, <3>2 DEF Stat, Again, Ends, StartsTyped, Points
    <3>3. CASE Ends(p)
      BY <1>0, <1>3, <3>3 DEF Stat, Ends, StartsTyped, Points
    <3>4. CASE lock.stale /\ Judges(p)
      <4>1. lock.of # NoOne
        BY <1>0, <3>4, RoutineConstants DEF StaleIsDead, RoutineAssumptions, StartersAssumption
      <4>2. /\ judged' = [judged EXCEPT ![p] = lock.of] /\ rpc' = [rpc EXCEPT ![p] = "unlink"]
            /\ rpc[p] = "stat" /\ UNCHANGED <<tries, base, upto, head, list>>
        BY <1>3, <3>4 DEF Stat, Judges
      <4> QED BY <1>0, <3>1, <4>1, <4>2 DEF StartsTyped, Points
    <3> QED BY <1>3, <3>2, <3>3, <3>4 DEF Stat
  <2>2. SharedTyped' /\ StaleIsDead'
    BY <1>0, <1>3 DEF Stat, SharedTyped, StaleIsDead
  <2> QED BY <2>1, <2>2 DEF RoutineTyped
<1>4. CASE Unlink(p)
  <2>1. StartsTyped'
    BY <1>0, <1>4 DEF Unlink, Again, Ends, StartsTyped, Points
  <2>2. lock' = NoLock /\ raced' \in BOOLEAN
        /\ UNCHANGED <<chain, torn, complete, channel, delivered, failures>>
    BY <1>0, <1>4 DEF Unlink, Removes, SharedTyped
  <2>3. SharedTyped' /\ StaleIsDead'
    BY <1>0, <2>2 DEF SharedTyped, StaleIsDead, NoLock, Locks
  <2> QED BY <2>1, <2>3 DEF RoutineTyped
<1> QED BY <1>1, <1>2, <1>3, <1>4

\* The steps of the tracker.
LEMMA TrackerTypes ==
  ASSUME RoutineAssumptions, RoutineTyped, NEW p \in Starters,
         ReadRecord(p) \/ ReadHash(p) \/ WriteRecord(p) \/ BuildMessages(p)
  PROVE  RoutineTyped'
<1> USE DEF lockVars, recordingVars, channelVars, Stands, Step, Delivering
<1>0. StartsTyped /\ SharedTyped /\ StaleIsDead /\ complete \in Nat /\ LastSealed \in Nat
  BY LastSealedType
     DEF RoutineTyped, SharedTyped, RoutineAssumptions, RoutineBoundsAssumption
<1>1. CASE ReadRecord(p)
  <2>1. StartsTyped'
    BY <1>0, <1>1 DEF ReadRecord, Tracked, StartsTyped, Points
  <2>2. SharedTyped' /\ StaleIsDead'
    BY <1>0, <1>1 DEF ReadRecord, SharedTyped, StaleIsDead
  <2> QED BY <2>1, <2>2 DEF RoutineTyped
<1>2. CASE ReadHash(p)
  <2>1. Len(chain) \in Nat
    BY <1>0 DEF SharedTyped
  <2>2. StartsTyped'
    <3>1. CASE Tracked(p)
      BY <1>0, <1>2, <3>1 DEF ReadHash, Tracked, StartsTyped, Points
    <3>2. CASE ~Tracked(p)
      <4>1. /\ rpc[p] = "hash" /\ rpc' = [rpc EXCEPT ![p] = "write"]
            /\ head' = [head EXCEPT ![p] = Len(chain)]
            /\ UNCHANGED <<tries, judged, base, upto, list>>
        BY <1>2, <3>2 DEF ReadHash
      <4> QED BY <1>0, <2>1, <4>1 DEF StartsTyped, Points
    <3> QED BY <3>1, <3>2
  <2>3. SharedTyped' /\ StaleIsDead'
    BY <1>0, <1>2 DEF ReadHash, SharedTyped, StaleIsDead
  <2> QED BY <2>2, <2>3 DEF RoutineTyped
<1>3. CASE WriteRecord(p)
  <2>1. StartsTyped'
    BY <1>0, <1>3 DEF WriteRecord, Tracked, StartsTyped, Points
  <2>2. Checkpoint(p) \in Checkpoints
    BY <1>0 DEF Checkpoint, Checkpoints, StartsTyped
  <2>3. chain' \in Seq(Checkpoints)
    BY <1>0, <1>3, <2>2 DEF WriteRecord, SharedTyped
  <2>4. SharedTyped' /\ StaleIsDead'
    BY <1>0, <1>3, <2>3 DEF WriteRecord, SharedTyped, StaleIsDead
  <2> QED BY <2>1, <2>4 DEF RoutineTyped
<1>4. CASE BuildMessages(p)
  <2>1. Supported \in SUBSET Nat
    BY <1>0 DEF Supported
  <2>2. StartsTyped'
    BY <1>0, <1>4, <2>1 DEF BuildMessages, StartsTyped, Points
  <2>3. failures' \in 0..MaxFailures
    BY <1>0, <1>4, FailureType DEF BuildMessages
  <2>4. SharedTyped' /\ StaleIsDead'
    BY <1>0, <1>4, <2>3 DEF BuildMessages, SharedTyped, StaleIsDead
  <2> QED BY <2>2, <2>4 DEF RoutineTyped
<1> QED BY <1>1, <1>2, <1>3, <1>4

\* Delivery, the end of a run, and a kill.
LEMMA EndTypes ==
  ASSUME RoutineAssumptions, RoutineTyped, NEW p \in Starters,
         DeliveryStep(p) \/ Unlock(p) \/ Killed(p)
  PROVE  RoutineTyped'
<1> USE DEF lockVars, recordingVars, channelVars, Stands, Step
<1>0. StartsTyped /\ SharedTyped /\ StaleIsDead
  BY DEF RoutineTyped
<1>1. CASE DeliveryStep(p)
  <2>1. /\ rpc[p] \in Delivering /\ list[p] # {}
        /\ list' = list \/ Passes(p) \/ list' = [list EXCEPT ![p] = {}]
        /\ channel' = channel \/ Arrives(p)
        /\ failures' = failures \/ Failure
        /\ UNCHANGED <<lock, tries, judged, raced, base, upto, head, chain, torn, complete>>
    BY <1>1, DeliveryEffect
  <2>2. PICK to \in Delivering : /\ rpc' = [rpc EXCEPT ![p] = to]
                                 /\ to # "deliver" => list' = list
    BY <1>1, DeliveryEffect
  <2>3. list' \in [Starters -> SUBSET Nat] /\ \A q \in Starters : q # p => list'[q] = list[q]
    BY <1>0, <2>1 DEF Passes, StartsTyped
  <2>4. rpc' \in [Starters -> Points]
    BY <1>0, <2>2 DEF StartsTyped, Points
  <2>5. \A q \in Starters : /\ Stands(q, "unlink")' <=> judged'[q] # NoOne
                            /\ upto'[q] # 0 => rpc'[q] \in {"hash", "write"}
    BY <1>0, <2>1, <2>2 DEF StartsTyped, Delivering
  <2>6. \A q \in Starters : /\ list'[q] # {} => rpc'[q] \in Delivering
                            /\ rpc'[q] \in {"send", "record", "fail"} => list'[q] # {}
    BY <1>0, <2>1, <2>2, <2>3 DEF StartsTyped
  <2>7. StartsTyped'
    BY <1>0, <2>1, <2>3, <2>4, <2>5, <2>6 DEF StartsTyped
  <2>8. channel' \in Seq(Nat)
    BY <2>1, ChannelType
  <2>9. delivered' \subseteq Nat
    <3>1. InHand(p) \in Nat /\ delivered \subseteq Nat
      BY <1>0, <2>1, HandType DEF SharedTyped
    <3>2. delivered' = delivered \/ delivered' = delivered \cup {InHand(p)}
          \/ delivered' = delivered \ {InHand(p)}
      BY <1>1 DEF DeliveryStep, ReadRow, Send, RecordSent, RecordFailed, OutboxRaises
    <3> QED BY <3>1, <3>2
  <2>10. failures' \in 0..MaxFailures
    BY <1>0, <2>1, FailureType
  <2>11. SharedTyped' /\ StaleIsDead'
    BY <1>0, <2>1, <2>8, <2>9, <2>10 DEF SharedTyped, StaleIsDead
  <2> QED BY <2>7, <2>11 DEF RoutineTyped
<1>2. CASE Unlock(p)
  <2>1. StartsTyped'
    BY <1>0, <1>2 DEF Unlock, Ends, StartsTyped, Points
  <2>2. lock' = NoLock /\ raced' \in BOOLEAN
        /\ UNCHANGED <<chain, torn, complete, channel, delivered, failures>>
    BY <1>0, <1>2 DEF Unlock, Removes, SharedTyped
  <2>3. SharedTyped' /\ StaleIsDead'
    BY <1>0, <2>2 DEF SharedTyped, StaleIsDead, NoLock, Locks
  <2> QED BY <2>1, <2>3 DEF RoutineTyped
<1>3. CASE Killed(p)
  <2>1. StartsTyped'
    BY <1>0, <1>3 DEF Killed, Ends, StartsTyped, Points
  <2>2. channel' \in Seq(Nat) /\ torn' \in BOOLEAN
    <3>1. channel \in Seq(Nat) /\ torn \in BOOLEAN
      BY <1>0 DEF SharedTyped
    <3>2. /\ channel' = channel \/ (rpc[p] = "send" /\ Arrives(p))
          /\ torn' = torn \/ torn' = TRUE
      BY <1>3 DEF Killed
    <3>3. rpc[p] = "send" => list[p] # {}
      BY <1>0 DEF StartsTyped
    <3> QED BY <3>1, <3>2, <3>3, ChannelType
  <2>3. failures' \in 0..MaxFailures
    BY <1>0, <1>3, FailureType DEF Killed
  <2>4. lock' \in Locks /\ StaleIsDead'
    <3>1. lock' = IF lock.of = p THEN [lock EXCEPT !.of = Dead] ELSE lock
      BY <1>3 DEF Killed
    <3> QED BY <1>0, <3>1 DEF SharedTyped, Locks, StaleIsDead
  <2>5. UNCHANGED <<raced, chain, complete, delivered>>
    BY <1>3 DEF Killed
  <2>6. SharedTyped'
    BY <1>0, <2>2, <2>3, <2>4, <2>5 DEF SharedTyped
  <2> QED BY <2>1, <2>4, <2>6 DEF RoutineTyped
<1> QED BY <1>1, <1>2, <1>3

LEMMA RoutineTypeStep ==
  ASSUME RoutineAssumptions, RoutineTyped, [RoutineNext]_routineVars
  PROVE  RoutineTyped'
<1> USE DEF lockVars, recordingVars, channelVars
<1>1. CASE UNCHANGED routineVars
  BY <1>1 DEF routineVars, RoutineTyped, StartsTyped, SharedTyped, StaleIsDead, Stands
<1>2. CASE DayCompletes
  <2>1. complete' \in 0..LastSealable
    BY <1>2 DEF DayCompletes, RoutineTyped, SharedTyped, RoutineAssumptions,
       RoutineBoundsAssumption
  <2> QED BY <1>2, <2>1
          DEF DayCompletes, RoutineTyped, StartsTyped, SharedTyped, StaleIsDead, Stands
<1>3. CASE LockAges
  <2>1. lock' \in Locks /\ StaleIsDead'
    BY <1>3 DEF LockAges, RoutineTyped, SharedTyped, StaleIsDead, Locks
  <2> QED BY <1>3, <2>1 DEF LockAges, RoutineTyped, StartsTyped, SharedTyped, Stands
<1>4. CASE \E p \in Starters : Start(p) \/ RoutineStep(p) \/ Killed(p)
  BY <1>4, LockTypes, TrackerTypes, EndTypes DEF RoutineStep, DeliveryStep
<1> QED BY <1>1, <1>2, <1>3, <1>4 DEF RoutineNext

LEMMA RoutineStart == RoutineAssumptions /\ RoutineInit => RoutineTyped
<1> SUFFICES ASSUME RoutineAssumptions, RoutineInit PROVE RoutineTyped
  OBVIOUS
<1>1. StartsTyped
  BY DEF RoutineInit, StartsTyped, Zeros, Points, Stands
<1>2. lock \in Locks /\ StaleIsDead
  BY DEF RoutineInit, StaleIsDead, NoLock, Locks
<1>3. chain = <<>> /\ channel = <<>> /\ complete = 0 /\ failures = 0 /\ delivered = {}
      /\ torn = FALSE /\ raced = FALSE
  BY DEF RoutineInit
<1>4. LastSealable \in Nat /\ MaxFailures \in Nat
  BY DEF RoutineAssumptions, RoutineBoundsAssumption
<1>5. chain \in Seq(Checkpoints) /\ channel \in Seq(Nat)
  BY <1>3
<1>6. complete \in 0..LastSealable /\ failures \in 0..MaxFailures
  BY <1>3, <1>4
<1>7. SharedTyped
  BY <1>2, <1>3, <1>5, <1>6 DEF SharedTyped
<1> QED BY <1>1, <1>2, <1>7 DEF RoutineTyped

LEMMA RoutineTypedAlways == RoutineSpec => []RoutineTyped
<1>1. RoutineInit => RoutineTyped
  BY RoutineConstants, RoutineStart
<1>2. RoutineTyped /\ [RoutineNext]_routineVars => RoutineTyped'
  BY RoutineConstants, RoutineTypeStep
<1> QED BY <1>1, <1>2, PTL DEF RoutineSpec

\* The variables of the routine keep their types, however many starts overlap,
\* die and take over.
THEOREM RoutineTypes == RoutineSpec => []RoutineTypeOK
<1> QED BY RoutineTypedAlways, TypesFollow, PTL

-----------------------------------------------------------------------------
(* The lock and the ledger.                                                *)

\* Who is past the lock holds it.
Held == \A p \in Starters : p \in Running => lock.of = p

\* What the tracker has read is still so when it writes.
ReadsFresh ==
  \A p \in Starters :
    /\ rpc[p] \in {"hash", "write"} => base[p] = LastSealed /\ base[p] < upto[p]
    /\ rpc[p] = "write" => head[p] = Len(chain)

\* The checkpoints follow on one another.
LedgerWhole ==
  /\ Chained(chain)
  /\ \A i \in 1..Len(chain) :
       /\ chain[i].from = IF i = 1 THEN 1 ELSE chain[i - 1].to + 1
       /\ chain[i].from <= chain[i].to

OnlyDeadJudged == \A p \in Starters : judged[p] \in {NoOne, Dead}

LedgerOK == OnlyDeadJudged /\ (~raced => Held /\ ReadsFresh /\ LedgerWhole)

\* A step that leaves the ledger alone and brings nobody past the lock, and nobody
\* into the tracker with stale knowledge.
LEMMA LedgerUntouched ==
  ASSUME LedgerOK, OnlyDeadJudged', raced => raced', UNCHANGED chain,
         ~raced' => \A q \in Starters : q \in Running' => q \in Running /\ lock'.of = lock.of,
         \A q \in Starters : rpc'[q] \in {"hash", "write"} =>
            \/ rpc'[q] = rpc[q] /\ base'[q] = base[q] /\ upto'[q] = upto[q] /\ head'[q] = head[q]
            \/ /\ base'[q] = LastSealed /\ base'[q] < upto'[q]
               /\ rpc'[q] = "write" => head'[q] = Len(chain)
  PROVE  LedgerOK'
<1>1. LastSealed' = LastSealed
  BY DEF LastSealed
<1>2. ~raced' => Held'
  BY DEF LedgerOK, Held
<1>3. ~raced' => ReadsFresh'
  BY <1>1 DEF LedgerOK, ReadsFresh
<1>4. ~raced' => LedgerWhole'
  BY DEF LedgerOK, LedgerWhole, Chained
<1> QED BY <1>2, <1>3, <1>4 DEF LedgerOK

\* The steps before the lock is held.
LEMMA LockLedger ==
  ASSUME RoutineAssumptions, RoutineTyped, LedgerOK, NEW p \in Starters,
         Start(p) \/ Create(p) \/ Stat(p) \/ Unlink(p)
  PROVE  LedgerOK'
<1> USE DEF lockVars, recordingVars, channelVars, Stands, Step
<1>0. /\ rpc \in [Starters -> Points] /\ judged \in [Starters -> Starters \cup {NoOne, Dead}]
      /\ OnlyDeadJudged /\ NoOne \notin Starters /\ Dead \notin Starters /\ NoOne # Dead
      /\ (judged[p] # NoOne <=> rpc[p] = "unlink") /\ (lock.stale => lock.of = Dead)
  BY DEF RoutineTyped, StartsTyped, StaleIsDead, LedgerOK, RoutineAssumptions,
     StartersAssumption
\* A step of p alone that keeps it before the lock.
<1>1. ASSUME NEW to \in {"off", "create", "stat", "unlink"}, rpc' = [rpc EXCEPT ![p] = to],
             UNCHANGED <<lock, raced, chain, base, upto, head>>, OnlyDeadJudged'
      PROVE  LedgerOK'
  <2>1. \A q \in Starters : q # p => rpc'[q] = rpc[q]
    BY <1>0, <1>1
  <2>2. rpc'[p] = to
    BY <1>0, <1>1
  <2>3. \A q \in Starters : q \in Running' => q \in Running
    BY <2>1, <2>2 DEF Running
  <2> QED BY <1>1, <2>1, <2>2, <2>3, LedgerUntouched
<1>2. CASE Start(p)
  BY <1>0, <1>1, <1>2 DEF Start, OnlyDeadJudged
<1>3. CASE Create(p)
  <2>1. CASE lock # NoLock
    BY <1>0, <1>1, <1>3, <2>1 DEF Create, OnlyDeadJudged
  <2>2. CASE lock = NoLock
    <3>1. /\ lock' = [of |-> p, stale |-> FALSE] /\ UNCHANGED <<judged, raced, chain, base, upto, head>>
          /\ \E to \in {"read", "report"} : rpc' = [rpc EXCEPT ![p] = to]
      BY <1>3, <2>2 DEF Create
    <3>2. /\ \A q \in Starters : q # p => rpc'[q] = rpc[q]
          /\ rpc'[p] \in {"read", "report"}
      BY <1>0, <3>1
    <3>3. ~raced => \A q \in Starters : q \notin Running
      BY <1>0, <2>2 DEF LedgerOK, Held, NoLock
    <3>4. ~raced => Held'
      BY <3>1, <3>2, <3>3 DEF Held, Running
    <3>5. LastSealed' = LastSealed
      BY <3>1 DEF LastSealed
    <3>6. ~raced => ReadsFresh'
      BY <3>1, <3>2, <3>5 DEF LedgerOK, ReadsFresh
    <3>7. ~raced => LedgerWhole'
      BY <3>1 DEF LedgerOK, LedgerWhole, Chained
    <3> QED BY <1>0, <3>1, <3>4, <3>6, <3>7 DEF LedgerOK, OnlyDeadJudged
  <2> QED BY <2>1, <2>2
<1>4. CASE Stat(p)
  <2>1. UNCHANGED <<lock, raced, chain, base, upto, head>>
    BY <1>4 DEF Stat
  <2>2. \E to \in {"off", "create", "unlink"} : rpc' = [rpc EXCEPT ![p] = to]
    BY <1>4 DEF Stat, Again, Ends, Judges
  <2>3. judged' = [judged EXCEPT ![p] = NoOne] \/ judged' = [judged EXCEPT ![p] = Dead]
    BY <1>0, <1>4 DEF Stat, Again, Ends, Judges
  <2>4. OnlyDeadJudged'
    BY <1>0, <2>3 DEF OnlyDeadJudged
  <2> QED BY <1>1, <2>1, <2>2, <2>4
<1>5. CASE Unlink(p)
  <2>1. judged[p] = Dead
    BY <1>0, <1>5 DEF Unlink, OnlyDeadJudged
  <2>2. /\ lock' = NoLock /\ raced' = (raced \/ (lock # NoLock /\ lock.of # Dead))
        /\ UNCHANGED <<chain, base, upto, head>>
    BY <1>5, <2>1 DEF Unlink, Removes
  <2>3. OnlyDeadJudged' /\ \E to \in {"off", "create"} : rpc' = [rpc EXCEPT ![p] = to]
    BY <1>0, <1>5 DEF Unlink, Again, Ends, OnlyDeadJudged
  <2>4. /\ \A q \in Starters : q # p => rpc'[q] = rpc[q]
        /\ rpc'[p] \in {"off", "create"}
    BY <1>0, <2>3
  <2>5. ~raced' => \A q \in Starters : q \notin Running
    <3>1. ASSUME ~raced' PROVE ~raced /\ lock.of \notin Starters
      <4>1. ~raced /\ (lock = NoLock \/ lock.of = Dead)
        BY <2>2, <3>1
      <4> QED BY <1>0, <4>1 DEF NoLock
    <3> QED BY <3>1 DEF LedgerOK, Held
  <2>6. ~raced' => ~raced /\ \A q \in Starters : q \notin Running'
    BY <2>2, <2>4, <2>5 DEF Running
  <2>7. LastSealed' = LastSealed
    BY <2>2 DEF LastSealed
  <2>8. ~raced' => ReadsFresh'
    BY <2>2, <2>4, <2>6, <2>7 DEF LedgerOK, ReadsFresh
  <2>9. ~raced' => LedgerWhole'
    BY <2>2, <2>6 DEF LedgerOK, LedgerWhole, Chained
  <2> QED BY <2>3, <2>6, <2>8, <2>9 DEF LedgerOK, Held
<1> QED BY <1>2, <1>3, <1>4, <1>5

\* The steps of the tracker.
LEMMA TrackerLedger ==
  ASSUME RoutineAssumptions, RoutineTyped, LedgerOK, NEW p \in Starters,
         ReadRecord(p) \/ ReadHash(p) \/ WriteRecord(p) \/ BuildMessages(p)
  PROVE  LedgerOK'
<1> USE DEF lockVars, recordingVars, channelVars, Stands, Step
<1>0. /\ rpc \in [Starters -> Points] /\ OnlyDeadJudged /\ chain \in Seq(Checkpoints)
      /\ base \in [Starters -> Nat] /\ upto \in [Starters -> Nat] /\ head \in [Starters -> Nat]
      /\ complete \in Nat /\ LastSealed \in Nat
  BY LastSealedType DEF RoutineTyped, StartsTyped, SharedTyped, LedgerOK, RoutineAssumptions,
     RoutineBoundsAssumption
<1>1. UNCHANGED <<lock, judged, raced>>
  BY DEF ReadRecord, ReadHash, WriteRecord, BuildMessages
<1>2. OnlyDeadJudged'
  BY <1>0, <1>1 DEF OnlyDeadJudged
<1>3. /\ \A q \in Starters : q # p => /\ rpc'[q] = rpc[q] /\ base'[q] = base[q]
                                      /\ upto'[q] = upto[q] /\ head'[q] = head[q]
      /\ rpc[p] \in {"read", "hash", "write", "report"}
  BY <1>0 DEF ReadRecord, ReadHash, WriteRecord, BuildMessages, Tracked
<1>4. \A q \in Starters : q \in Running' => q \in Running /\ lock'.of = lock.of
  BY <1>1, <1>3 DEF Running
<1>5. CASE ReadRecord(p)
  <2>1. CASE Tracked(p)
    BY <1>0, <1>1, <1>2, <1>3, <1>4, <1>5, <2>1, LedgerUntouched DEF ReadRecord, Tracked
  <2>2. CASE ~Tracked(p)
    <3>1. /\ rpc'[p] = "hash" /\ base'[p] = LastSealed /\ upto'[p] = complete
          /\ complete > LastSealed /\ UNCHANGED chain
      BY <1>0, <1>5, <2>2 DEF ReadRecord
    <3> QED BY <1>0, <1>1, <1>2, <1>3, <1>4, <3>1, LedgerUntouched
  <2> QED BY <2>1, <2>2
<1>6. CASE ReadHash(p)
  <2>1. CASE Tracked(p)
    BY <1>0, <1>1, <1>2, <1>3, <1>4, <1>6, <2>1, LedgerUntouched DEF ReadHash, Tracked
  <2>2. CASE ~Tracked(p)
    <3>1. /\ rpc[p] = "hash" /\ rpc'[p] = "write" /\ head'[p] = Len(chain)
          /\ base'[p] = base[p] /\ upto'[p] = upto[p] /\ UNCHANGED chain
      BY <1>0, <1>6, <2>2 DEF ReadHash
    <3>2. ~raced => base[p] = LastSealed /\ base[p] < upto[p]
      BY <3>1 DEF LedgerOK, ReadsFresh
    <3>3. CASE raced
      BY <1>1, <1>2, <3>3 DEF LedgerOK
    <3>4. CASE ~raced
      BY <1>0, <1>1, <1>2, <1>3, <1>4, <3>1, <3>2, <3>4, LedgerUntouched
    <3> QED BY <3>3, <3>4
  <2> QED BY <2>1, <2>2
<1>7. CASE WriteRecord(p)
  <2>1. /\ rpc[p] = "write" /\ rpc'[p] = "report" /\ chain' = Append(chain, Checkpoint(p))
    BY <1>0, <1>7 DEF WriteRecord, Tracked
  <2>2. CASE raced
    BY <1>1, <1>2, <2>2 DEF LedgerOK
  <2>3. CASE ~raced
    <3>1. Held /\ ReadsFresh /\ LedgerWhole
      BY <2>3 DEF LedgerOK
    <3>2. p \in Running
      BY <2>1 DEF Running
    <3>3. \A q \in Starters : q # p => q \notin Running
      BY <3>1, <3>2 DEF Held
    <3>4. Held'
      BY <1>1, <1>4, <3>1 DEF Held
    <3>5. ReadsFresh'
      BY <1>3, <2>1, <3>3 DEF ReadsFresh, Running
    <3>6. /\ base[p] = LastSealed /\ base[p] < upto[p] /\ head[p] = Len(chain)
      BY <2>1, <3>1 DEF ReadsFresh
    <3>7. LedgerWhole'
      <4> DEFINE n == Len(chain)
      <4>1. n \in Nat /\ Len(chain') = n + 1 /\ chain'[n + 1] = Checkpoint(p)
            /\ \A i \in 1..n : chain'[i] = chain[i]
        BY <1>0, <2>1, AppendProperties DEF Checkpoint, Checkpoints
      <4>2. chain = <<>> <=> n = 0
        BY <1>0
      <4>3. /\ chain'[n + 1].prev = n /\ chain'[n + 1].from = LastSealed + 1
            /\ chain'[n + 1].to = upto[p]
        BY <3>6, <4>1 DEF Checkpoint
      <4> HIDE DEF n
      <4>4. Chained(chain')
        <5> SUFFICES ASSUME NEW i \in 1..(n + 1) PROVE chain'[i].prev = i - 1
          BY <4>1 DEF Chained
        <5>1. CASE i = n + 1
          BY <4>1, <4>3, <5>1
        <5>2. CASE i # n + 1
          <6>1. i \in 1..n
            BY <4>1, <5>2
          <6> QED BY <3>1, <4>1, <6>1 DEF LedgerWhole, Chained, n
        <5> QED BY <5>1, <5>2
      <4>5. ASSUME NEW i \in 1..(n + 1)
            PROVE  /\ chain'[i].from = IF i = 1 THEN 1 ELSE chain'[i - 1].to + 1
                   /\ chain'[i].from <= chain'[i].to
        <5>1. CASE i = n + 1
          <6>1. n # 0 => LastSealed = chain'[n].to
            BY <4>1, <4>2 DEF LastSealed, n
          <6>2. n = 0 => LastSealed = 0
            BY <4>2 DEF LastSealed
          <6>3. chain'[i].from <= chain'[i].to
            BY <1>0, <3>6, <4>3, <5>1
          <6>4. i - 1 = n
            BY <4>1, <5>1
          <6> QED BY <4>1, <4>3, <5>1, <6>1, <6>2, <6>3, <6>4
        <5>2. CASE i # n + 1
          <6>1. i \in 1..n /\ (i # 1 => i - 1 \in 1..n)
            BY <4>1, <5>2
          <6>2. /\ chain[i].from = IF i = 1 THEN 1 ELSE chain[i - 1].to + 1
                /\ chain[i].from <= chain[i].to
            BY <3>1, <6>1 DEF LedgerWhole, n
          <6>3. chain'[i] = chain[i] /\ (i # 1 => chain'[i - 1] = chain[i - 1])
            BY <4>1, <6>1
          <6> QED BY <6>2, <6>3
        <5> QED BY <5>1, <5>2
      <4> QED BY <4>1, <4>4, <4>5 DEF LedgerWhole
    <3> QED BY <1>2, <3>4, <3>5, <3>7 DEF LedgerOK
  <2> QED BY <2>2, <2>3
<1>8. CASE BuildMessages(p)
  BY <1>0, <1>1, <1>2, <1>3, <1>4, <1>8, LedgerUntouched DEF BuildMessages
<1> QED BY <1>5, <1>6, <1>7, <1>8

\* Delivery, the end of a run, and a kill.
LEMMA EndLedger ==
  ASSUME RoutineAssumptions, RoutineTyped, LedgerOK, NEW p \in Starters,
         DeliveryStep(p) \/ Unlock(p) \/ Killed(p)
  PROVE  LedgerOK'
<1> USE DEF lockVars, recordingVars, channelVars, Stands, Step
<1>0. /\ rpc \in [Starters -> Points] /\ judged \in [Starters -> Starters \cup {NoOne, Dead}]
      /\ base \in [Starters -> Nat] /\ upto \in [Starters -> Nat] /\ head \in [Starters -> Nat]
      /\ OnlyDeadJudged /\ NoOne \notin Starters /\ lock \in Locks
  BY DEF RoutineTyped, StartsTyped, SharedTyped, LedgerOK, RoutineAssumptions,
     StartersAssumption
<1>1. CASE DeliveryStep(p)
  <2>1. /\ UNCHANGED <<lock, judged, raced, base, upto, head, chain>> /\ rpc[p] \in Delivering
    BY <1>1, DeliveryEffect
  <2>2. PICK to \in Delivering : rpc' = [rpc EXCEPT ![p] = to]
    BY <1>1, DeliveryEffect
  <2>3. \A q \in Starters : rpc'[q] = rpc[q] \/ {rpc[q], rpc'[q]} \subseteq Delivering
    BY <1>0, <2>1, <2>2
  <2>4. \A q \in Starters : q \in Running' => q \in Running
    BY <2>3 DEF Running, Delivering
  <2>5. \A q \in Starters : rpc'[q] \in {"hash", "write"} => rpc'[q] = rpc[q]
    BY <2>3 DEF Delivering
  <2> QED BY <1>0, <2>1, <2>4, <2>5, LedgerUntouched DEF OnlyDeadJudged
<1>2. CASE Unlock(p)
  <2>1. /\ rpc[p] = "deliver" /\ rpc' = [rpc EXCEPT ![p] = "off"]
        /\ judged' = [judged EXCEPT ![p] = NoOne] /\ UNCHANGED <<base, upto, head, chain>>
        /\ raced' = (raced \/ (lock # NoLock /\ lock.of # p))
    BY <1>2 DEF Unlock, Removes, Ends
  <2>2. OnlyDeadJudged'
    BY <1>0, <2>1 DEF OnlyDeadJudged
  <2>3. /\ \A q \in Starters : q # p => rpc'[q] = rpc[q]
        /\ rpc'[p] = "off"
    BY <1>0, <2>1
  <2>4. ASSUME ~raced' PROVE \A q \in Starters : q \notin Running'
    <3>1. Held /\ p \in Running
      BY <2>1, <2>4 DEF LedgerOK, Running
    <3>2. \A q \in Starters : q \in Running => q = p
      BY <3>1 DEF Held
    <3> QED BY <2>3, <3>2 DEF Running
  <2> QED BY <2>1, <2>2, <2>3, <2>4, LedgerUntouched
<1>3. CASE Killed(p)
  <2>1. /\ rpc' = [rpc EXCEPT ![p] = "off"] /\ judged' = [judged EXCEPT ![p] = NoOne]
        /\ base' = [base EXCEPT ![p] = 0] /\ upto' = [upto EXCEPT ![p] = 0]
        /\ head' = [head EXCEPT ![p] = 0] /\ UNCHANGED <<raced, chain>>
        /\ lock' = IF lock.of = p THEN [lock EXCEPT !.of = Dead] ELSE lock
    BY <1>3 DEF Killed, Ends
  <2>2. OnlyDeadJudged'
    BY <1>0, <2>1 DEF OnlyDeadJudged
  <2>3. /\ \A q \in Starters : q # p => /\ rpc'[q] = rpc[q] /\ base'[q] = base[q]
                                        /\ upto'[q] = upto[q] /\ head'[q] = head[q]
        /\ rpc'[p] = "off"
    BY <1>0, <2>1
  <2>4. ASSUME ~raced', NEW q \in Starters, q \in Running'
        PROVE  q \in Running /\ lock'.of = lock.of
    <3>1. q # p /\ q \in Running
      BY <2>3, <2>4 DEF Running
    <3>2. lock.of = q
      BY <2>1, <2>4, <3>1 DEF LedgerOK, Held
    <3> QED BY <2>1, <3>1, <3>2
  <2> QED BY <2>1, <2>2, <2>3, <2>4, LedgerUntouched
<1> QED BY <1>1, <1>2, <1>3

LEMMA LedgerStep ==
  ASSUME RoutineAssumptions, RoutineTyped, LedgerOK, [RoutineNext]_routineVars
  PROVE  LedgerOK'
<1> USE DEF lockVars, recordingVars, channelVars
<1>1. ASSUME UNCHANGED <<rpc, judged, base, upto, head, chain, raced>>, lock'.of = lock.of
      PROVE  LedgerOK'
  BY <1>1, LedgerUntouched DEF LedgerOK, OnlyDeadJudged, Running
<1>2. CASE UNCHANGED routineVars
  BY <1>1, <1>2 DEF routineVars
<1>3. CASE DayCompletes
  BY <1>1, <1>3 DEF DayCompletes
<1>4. CASE LockAges
  <2>1. lock' = [lock EXCEPT !.stale = TRUE] /\ lock \in Locks
    BY <1>4 DEF LockAges, RoutineTyped, SharedTyped
  <2>2. lock'.of = lock.of
    BY <2>1 DEF Locks
  <2> QED BY <1>1, <1>4, <2>2 DEF LockAges
<1>5. CASE \E p \in Starters : Start(p) \/ RoutineStep(p) \/ Killed(p)
  BY <1>5, LockLedger, TrackerLedger, EndLedger DEF RoutineStep, DeliveryStep
<1> QED BY <1>2, <1>3, <1>4, <1>5 DEF RoutineNext

LEMMA LedgerStart == RoutineAssumptions /\ RoutineInit => LedgerOK
<1> SUFFICES ASSUME RoutineInit PROVE LedgerOK
  OBVIOUS
<1>1. chain = <<>> /\ \A p \in Starters : rpc[p] = "off" /\ judged[p] = NoOne
  BY DEF RoutineInit
<1>2. Held /\ OnlyDeadJudged /\ ReadsFresh
  BY <1>1 DEF Held, Running, OnlyDeadJudged, ReadsFresh
<1>3. LedgerWhole
  BY <1>1 DEF LedgerWhole, Chained
<1> QED BY <1>2, <1>3 DEF LedgerOK

LEMMA LedgerAlways == RoutineSpec => []LedgerOK
<1>1. RoutineInit => LedgerOK
  BY RoutineConstants, LedgerStart
<1>2. RoutineTyped /\ LedgerOK /\ [RoutineNext]_routineVars => LedgerOK'
  BY RoutineConstants, LedgerStep
<1> QED BY <1>1, <1>2, RoutineTypedAlways, PTL DEF RoutineSpec

\* Until a start removes a lock file that is not the one it judged or created,
\* no two routines are past the lock, and the ledger is one unbroken record of
\* the days.
THEOREM LockGuards == RoutineSpec => []LockGuardsLedger
<1>1. LedgerOK => LockGuardsLedger
  BY DEF LedgerOK, Held, LedgerWhole, LockGuardsLedger, Running
<1> QED BY <1>1, LedgerAlways, PTL

-----------------------------------------------------------------------------
(* The channel.                                                            *)

\* A message waits in a list only behind earlier ones that wait there too, or
\* that the channel shows.
ListsWhole == \A p \in Starters : \A m \in list[p] : 1..(m - 1) \subseteq list[p] \cup Shown

\* What Telegram has acknowledged is shown.
AcknowledgedShown == \A p \in Starters : rpc[p] = "record" => InHand(p) \in Shown

ChannelOK == ChannelInOrder /\ delivered \subseteq Shown /\ AcknowledgedShown /\ ListsWhole

\* A new message on the channel whose predecessors it shows.
LEMMA ShowOne ==
  ASSUME SharedTyped, NEW m \in Nat, channel' = Append(channel, m)
  PROVE  /\ Shown' = Shown \cup {m}
         /\ ChannelInOrder /\ 1..(m - 1) \subseteq Shown => ChannelInOrder'
<1> DEFINE n == Len(channel)
<1>1. /\ n \in Nat /\ Len(channel') = n + 1 /\ channel'[n + 1] = m
      /\ \A i \in 1..n : channel'[i] = channel[i]
  BY AppendProperties DEF SharedTyped
<1> HIDE DEF n
<1>2. Shown = {channel[i] : i \in 1..n} /\ Shown' = {channel'[i] : i \in 1..(n + 1)}
  BY <1>1 DEF Shown, n
<1>3. Shown' = Shown \cup {m}
  <2>1. \A i \in 1..(n + 1) : i = n + 1 \/ i \in 1..n
    BY <1>1
  <2>2. \A x \in Shown' : x \in Shown \cup {m}
    BY <1>1, <1>2, <2>1
  <2>3. \A i \in 1..n : i \in 1..(n + 1)
    BY <1>1
  <2>4. \A x \in Shown \cup {m} : x \in Shown'
    <3>1. m \in Shown'
      BY <1>1, <1>2
    <3>2. \A x \in Shown : x \in Shown'
      BY <1>1, <1>2, <2>3
    <3> QED BY <3>1, <3>2
  <2> QED BY <2>2, <2>4
<1>4. ASSUME ChannelInOrder, 1..(m - 1) \subseteq Shown PROVE ChannelInOrder'
  <2> SUFFICES ASSUME NEW i \in 1..(n + 1), NEW k \in 1..(channel'[i] - 1)
               PROVE  \E j \in 1..(i - 1) : channel'[j] = k
    BY <1>1 DEF ChannelInOrder
  <2>1. CASE i = n + 1
    <3>1. k \in Shown
      BY <1>1, <1>4, <2>1
    <3>2. PICK j \in 1..n : channel[j] = k
      BY <1>2, <3>1
    <3> QED BY <1>1, <2>1, <3>2
  <2>2. CASE i # n + 1
    <3>1. i \in 1..n
      BY <1>1, <2>2
    <3>2. PICK j \in 1..(i - 1) : channel[j] = k
      BY <1>1, <1>4, <3>1 DEF ChannelInOrder, n
    <3>3. j \in 1..n
      BY <1>1, <3>1
    <3> QED BY <1>1, <3>2, <3>3
  <2> QED BY <2>1, <2>2
<1> QED BY <1>3, <1>4

\* The message in hand comes after messages the channel shows.
LEMMA NextInOrder ==
  ASSUME RoutineTyped, ChannelOK, NEW p \in Starters, list[p] # {}
  PROVE  1..(InHand(p) - 1) \subseteq Shown
<1>1. InHand(p) \in list[p] /\ InHand(p) \in Nat /\ \A m \in list[p] : InHand(p) <= m
  BY HandType DEF RoutineTyped
<1> SUFFICES ASSUME NEW k \in 1..(InHand(p) - 1) PROVE k \in Shown
  OBVIOUS
<1>2. k \in list[p] \cup Shown
  BY <1>1 DEF ChannelOK, ListsWhole
<1>3. k \notin list[p]
  BY <1>1
<1> QED BY <1>2, <1>3

\* A message that arrives in its turn.
LEMMA ArrivesInOrder ==
  ASSUME RoutineTyped, ChannelOK, NEW p \in Starters, list[p] # {}, Arrives(p)
  PROVE  Shown' = Shown \cup {InHand(p)} /\ ChannelInOrder'
<1>1. InHand(p) \in Nat /\ channel' = Append(channel, InHand(p)) /\ SharedTyped
  BY HandType DEF RoutineTyped, Arrives
<1>2. ChannelInOrder /\ 1..(InHand(p) - 1) \subseteq Shown
  BY NextInOrder DEF ChannelOK
<1> QED BY <1>1, <1>2, ShowOne

\* A step that leaves the lists whole: each stays, is emptied, or loses its first
\* message once that is shown.
LEMMA ListsStep ==
  ASSUME ChannelOK, Shown \subseteq Shown',
         \A q \in Starters : \/ list'[q] = list[q] \/ list'[q] = {}
                             \/ /\ list'[q] = list[q] \ {InHand(q)}
                                /\ InHand(q) \in Shown'
  PROVE  ListsWhole'
<1> SUFFICES ASSUME NEW q \in Starters, NEW m \in list'[q], NEW k \in 1..(m - 1)
             PROVE  k \in list'[q] \cup Shown'
  BY DEF ListsWhole
<1>1. m \in list[q]
  OBVIOUS
<1>2. k \in list[q] \cup Shown
  BY <1>1 DEF ChannelOK, ListsWhole
<1> QED BY <1>2

\* A step that shows nothing new, and empties lists at most.
LEMMA ChannelUntouched ==
  ASSUME ChannelOK, channel' = channel, delivered' \subseteq delivered,
         \A p \in Starters : list'[p] = list[p] \/ list'[p] = {},
         \A p \in Starters : rpc'[p] = "record" => rpc[p] = "record" /\ list'[p] = list[p]
  PROVE  ChannelOK'
<1>1. ChannelInOrder' /\ Shown' = Shown
  BY DEF ChannelOK, ChannelInOrder, Shown
<1>2. ListsWhole'
  BY <1>1, ListsStep
<1>3. AcknowledgedShown'
  BY <1>1 DEF ChannelOK, AcknowledgedShown, InHand
<1> QED BY <1>1, <1>2, <1>3 DEF ChannelOK

\* The steps of a delivery.
LEMMA DeliveryChannel ==
  ASSUME RoutineTyped, ChannelOK, NEW p \in Starters, DeliveryStep(p)
  PROVE  ChannelOK'
<1>0. /\ list \in [Starters -> SUBSET Nat] /\ rpc \in [Starters -> Points]
      /\ rpc[p] \in {"send", "record", "fail"} => list[p] # {}
      /\ ChannelInOrder /\ delivered \subseteq Shown /\ AcknowledgedShown
  BY DEF RoutineTyped, StartsTyped, ChannelOK
<1> USE DEF lockVars, recordingVars, channelVars, Stands, Step
\* The first message of p's list passes, and the channel shows it.
<1>1. ASSUME Passes(p), InHand(p) \in Shown, channel' = channel, rpc' = [rpc EXCEPT ![p] = "deliver"],
             delivered' \subseteq delivered \cup {InHand(p)}
      PROVE  ChannelOK'
  <2>1. ChannelInOrder' /\ Shown' = Shown
    BY <1>0, <1>1 DEF ChannelInOrder, Shown
  <2>2. /\ \A q \in Starters : q # p => list'[q] = list[q] /\ rpc'[q] = rpc[q]
        /\ list'[p] = list[p] \ {InHand(p)} /\ rpc'[p] = "deliver"
    BY <1>0, <1>1 DEF Passes
  <2>3. ListsWhole'
    BY <1>1, <2>1, <2>2, ListsStep
  <2>4. AcknowledgedShown'
    BY <1>0, <2>1, <2>2 DEF AcknowledgedShown, InHand
  <2> QED BY <1>0, <1>1, <2>1, <2>3, <2>4 DEF ChannelOK
<1>2. CASE ReadRow(p)
  <2>1. CASE UNCHANGED rpc
    <3>1. rpc' = [rpc EXCEPT ![p] = "deliver"]
      BY <1>0, <1>2, <2>1 DEF ReadRow
    <3>2. InHand(p) \in delivered /\ Passes(p) /\ UNCHANGED <<channel, delivered>>
      BY <1>2, <2>1, <1>0 DEF ReadRow
    <3> QED BY <1>0, <1>1, <3>1, <3>2
  <2>2. CASE rpc' = [rpc EXCEPT ![p] = "send"] /\ UNCHANGED list
    BY <1>0, <1>2, <2>2, ChannelUntouched DEF ReadRow
  <2> QED BY <1>2, <2>1, <2>2 DEF ReadRow
<1>3. CASE Send(p)
  <2>1. UNCHANGED <<list, delivered>> /\ rpc[p] = "send"
    BY <1>3 DEF Send
  <2>2. CASE channel' = channel /\ rpc' = [rpc EXCEPT ![p] = "fail"]
    BY <1>0, <2>1, <2>2, ChannelUntouched
  <2>3. CASE Arrives(p)
    <3>1. Shown' = Shown \cup {InHand(p)} /\ ChannelInOrder'
      BY <1>0, <2>1, <2>3, ArrivesInOrder
    <3>2. \A q \in Starters : q # p => rpc'[q] = rpc[q]
      BY <1>0, <1>3 DEF Send
    <3>3. AcknowledgedShown'
      BY <1>0, <2>1, <3>1, <3>2 DEF AcknowledgedShown, InHand
    <3>4. ListsWhole'
      BY <2>1, <3>1, ListsStep
    <3> QED BY <1>0, <2>1, <3>1, <3>3, <3>4 DEF ChannelOK
  <2> QED BY <1>3, <2>2, <2>3 DEF Send
<1>4. CASE RecordSent(p)
  <2>1. /\ Passes(p) /\ channel' = channel /\ rpc' = [rpc EXCEPT ![p] = "deliver"]
        /\ delivered' \subseteq delivered \cup {InHand(p)} /\ rpc[p] = "record"
    BY <1>4 DEF RecordSent
  <2>2. InHand(p) \in Shown
    BY <1>0, <2>1 DEF AcknowledgedShown
  <2> QED BY <1>1, <2>1, <2>2
<1>5. CASE RecordFailed(p) \/ OutboxRaises(p)
  <2>1. /\ list' = [list EXCEPT ![p] = {}] /\ channel' = channel
        /\ delivered' \subseteq delivered /\ rpc' = [rpc EXCEPT ![p] = "deliver"]
    BY <1>5 DEF RecordFailed, OutboxRaises, StopsDelivery
  <2> QED BY <1>0, <2>1, ChannelUntouched
<1> QED BY <1>2, <1>3, <1>4, <1>5 DEF DeliveryStep

LEMMA ChannelStep ==
  ASSUME RoutineAssumptions, RoutineTyped, ChannelOK, [RoutineNext]_routineVars
  PROVE  ChannelOK'
<1> USE DEF lockVars, recordingVars, channelVars, Stands, Step
<1>0. /\ list \in [Starters -> SUBSET Nat] /\ SharedTyped /\ LastSealed \in Nat
      /\ rpc \in [Starters -> Points]
      /\ \A p \in Starters : /\ list[p] # {} => rpc[p] \in Delivering
                             /\ rpc[p] = "send" => list[p] # {}
  BY LastSealedType DEF RoutineTyped, StartsTyped
<1>1. CASE UNCHANGED <<list, channel, delivered, rpc>>
  BY <1>1, ChannelUntouched
<1>2. CASE UNCHANGED routineVars \/ DayCompletes \/ LockAges
  BY <1>1, <1>2 DEF routineVars, DayCompletes, LockAges
<1>3. ASSUME NEW p \in Starters,
             \/ Start(p) \/ Create(p) \/ Stat(p) \/ Unlink(p) \/ ReadRecord(p) \/ ReadHash(p)
             \/ WriteRecord(p) \/ Unlock(p)
      PROVE  ChannelOK'
  <2>1. UNCHANGED <<list, channel, delivered>>
    BY <1>3 DEF Start, Create, Stat, Unlink, ReadRecord, ReadHash, WriteRecord, Unlock
  <2>2. \E at \in Points \ {"record"} : rpc' = [rpc EXCEPT ![p] = at]
    BY <1>3 DEF Start, Create, Stat, Unlink, ReadRecord, ReadHash, WriteRecord, Unlock,
       Again, Ends, Judges, Tracked, Points, Delivering
  <2> QED BY <1>0, <2>1, <2>2, ChannelUntouched
<1>4. ASSUME NEW p \in Starters, BuildMessages(p) PROVE ChannelOK'
  <2>1. UNCHANGED <<channel, delivered>> /\ rpc' = [rpc EXCEPT ![p] = "deliver"]
    BY <1>4 DEF BuildMessages
  <2>2. CASE list' = [list EXCEPT ![p] = Supported]
    <3>1. ChannelInOrder' /\ Shown' = Shown
      BY <2>1 DEF ChannelOK, ChannelInOrder, Shown
    <3>2. \A m \in Supported : 1..(m - 1) \subseteq Supported
      BY <1>0 DEF Supported
    <3>3. ListsWhole'
      BY <1>0, <2>2, <3>1, <3>2 DEF ChannelOK, ListsWhole
    <3>4. \A q \in Starters : rpc'[q] = "record" => rpc[q] = "record" /\ list'[q] = list[q]
      BY <1>0, <2>1, <2>2
    <3>5. AcknowledgedShown'
      BY <3>1, <3>4 DEF ChannelOK, AcknowledgedShown, InHand
    <3> QED BY <2>1, <3>1, <3>3, <3>5 DEF ChannelOK
  <2>3. CASE list' = [list EXCEPT ![p] = {}] \/ list' = list
    BY <1>0, <2>1, <2>3, ChannelUntouched
  <2> QED BY <1>4, <2>2, <2>3 DEF BuildMessages
<1>5. ASSUME NEW p \in Starters, Killed(p) PROVE ChannelOK'
  <2>1. /\ list' = [list EXCEPT ![p] = {}] /\ delivered' = delivered
        /\ rpc' = [rpc EXCEPT ![p] = "off"]
    BY <1>5 DEF Killed, Ends
  <2>2. /\ \A q \in Starters : q # p => list'[q] = list[q] /\ rpc'[q] = rpc[q]
        /\ list'[p] = {} /\ rpc'[p] = "off"
    BY <1>0, <2>1
  <2>3. CASE channel' = channel
    BY <2>1, <2>2, <2>3, ChannelUntouched
  <2>4. CASE channel' # channel
    <3>1. Arrives(p) /\ list[p] # {}
      BY <1>0, <1>5, <2>4 DEF Killed
    <3>2. Shown' = Shown \cup {InHand(p)} /\ ChannelInOrder'
      BY <3>1, ArrivesInOrder
    <3>3. ListsWhole'
      BY <2>2, <3>2, ListsStep
    <3>4. AcknowledgedShown'
      BY <2>2, <3>2 DEF ChannelOK, AcknowledgedShown, InHand
    <3> QED BY <2>1, <3>2, <3>3, <3>4 DEF ChannelOK
  <2> QED BY <2>3, <2>4
<1>6. CASE \E p \in Starters : Start(p) \/ RoutineStep(p) \/ Killed(p)
  BY <1>3, <1>4, <1>5, <1>6, DeliveryChannel DEF RoutineStep, DeliveryStep
<1> QED BY <1>2, <1>6 DEF RoutineNext

LEMMA ChannelStart == RoutineInit => ChannelOK
<1> SUFFICES ASSUME RoutineInit PROVE ChannelOK
  OBVIOUS
<1>1. channel = <<>> /\ delivered = {} /\ \A p \in Starters : list[p] = {} /\ rpc[p] = "off"
  BY DEF RoutineInit
<1> QED BY <1>1 DEF ChannelOK, ChannelInOrder, AcknowledgedShown, ListsWhole

\* Nothing is announced for the first time before what precedes it, however many
\* routines overlap or die.
THEOREM Announced == RoutineSpec => []ChannelInOrder
<1>1. RoutineTyped /\ ChannelOK /\ [RoutineNext]_routineVars => ChannelOK'
  BY RoutineConstants, ChannelStep
<1>2. ChannelOK => ChannelInOrder
  BY DEF ChannelOK
<1> QED BY <1>1, <1>2, ChannelStart, RoutineTypedAlways, PTL DEF RoutineSpec

-----------------------------------------------------------------------------
(* The refinement of ForwardBulletin.  It holds in a race too: what a      *)
(* start knows of the record may be old, but it was true of the record     *)
(* once, and the record only grows.                                        *)

\* What a start that has read the record relies on: days up to its base are sealed,
\* and those it is about to seal are complete.
KnowsRecord(p) ==
  rpc[p] \in {"hash", "write"} =>
    1..base[p] \subseteq Sealed /\ base[p] < upto[p] /\ upto[p] <= complete

\* Checkpoints seal complete days only, with no day left out before them; what is
\* listed or shown has been sealed.
BulletinOK ==
  /\ \A j \in 1..Len(chain) : 1..chain[j].to \subseteq Sealed
  /\ \A p \in Starters : KnowsRecord(p)
  /\ \A p \in Starters : list[p] \subseteq Sealed
  /\ Shown \subseteq Sealed

\* One more checkpoint seals the days it names.
LEMMA SealOne ==
  ASSUME SharedTyped, NEW c \in Checkpoints, chain' = Append(chain, c)
  PROVE  /\ Sealed' = Sealed \cup c.from..c.to
         /\ \A j \in 1..Len(chain') : (j \in 1..Len(chain) /\ chain'[j] = chain[j]) \/ chain'[j] = c
<1> DEFINE n == Len(chain)
<1>1. /\ n \in Nat /\ Len(chain') = n + 1 /\ chain'[n + 1] = c
      /\ \A j \in 1..n : chain'[j] = chain[j]
  BY AppendProperties DEF SharedTyped
<1> HIDE DEF n
<1>2. \A j \in 1..(n + 1) : j \in 1..n \/ j = n + 1
  BY <1>1
<1>3. /\ Sealed = UNION {chain[j].from..chain[j].to : j \in 1..n}
      /\ Sealed' = UNION {chain'[j].from..chain'[j].to : j \in 1..(n + 1)}
  BY <1>1 DEF Sealed, n
<1>4. ASSUME NEW d \in Sealed' PROVE d \in Sealed \cup c.from..c.to
  <2>1. PICK j \in 1..(n + 1) : d \in chain'[j].from..chain'[j].to
    BY <1>3
  <2> QED BY <1>1, <1>2, <1>3, <2>1
<1>5. ASSUME NEW d \in Sealed PROVE d \in Sealed'
  <2>1. PICK j \in 1..n : d \in chain[j].from..chain[j].to
    BY <1>3
  <2>2. j \in 1..(n + 1) /\ chain'[j] = chain[j]
    BY <1>1, <2>1
  <2> QED BY <1>3, <2>1, <2>2
<1>6. ASSUME NEW d \in c.from..c.to PROVE d \in Sealed'
  <2>1. n + 1 \in 1..(n + 1)
    BY <1>1
  <2> QED BY <1>1, <1>3, <2>1
<1>7. \A j \in 1..Len(chain') : (j \in 1..Len(chain) /\ chain'[j] = chain[j]) \/ chain'[j] = c
  BY <1>1, <1>2 DEF n
<1>8. Sealed' = Sealed \cup c.from..c.to
  BY <1>4, <1>5, <1>6
<1> QED BY <1>7, <1>8

\* The days of the record up to its last one are sealed.
LEMMA SupportedSealed ==
  ASSUME SharedTyped, BulletinOK
  PROVE  1..LastSealed \subseteq Sealed
<1>1. CASE chain = <<>>
  BY <1>1 DEF LastSealed
<1>2. CASE chain # <<>>
  <2>1. Len(chain) \in 1..Len(chain)
    BY <1>2 DEF SharedTyped
  <2> QED BY <1>2, <2>1 DEF LastSealed, BulletinOK
<1> QED BY <1>1, <1>2

\* A checkpoint about to be written continues what is sealed.
LEMMA CheckpointSeals ==
  ASSUME RoutineTyped, BulletinOK, NEW p \in Starters, WriteRecord(p)
  PROVE  /\ Sealed' = Sealed \cup 1..upto[p] /\ upto[p] \in 1..complete
         /\ \A j \in 1..Len(chain') :
              (j \in 1..Len(chain) /\ chain'[j] = chain[j]) \/ chain'[j].to = upto[p]
<1>1. /\ rpc[p] = "write" /\ chain' = Append(chain, Checkpoint(p))
      /\ base[p] \in Nat /\ upto[p] \in Nat /\ SharedTyped /\ head[p] \in Nat
  BY DEF WriteRecord, Stands, RoutineTyped, StartsTyped
<1>2. /\ Checkpoint(p) \in Checkpoints
      /\ Checkpoint(p).from = base[p] + 1 /\ Checkpoint(p).to = upto[p]
  BY <1>1 DEF Checkpoint, Checkpoints
<1>3. 1..base[p] \subseteq Sealed /\ base[p] < upto[p] /\ upto[p] <= complete
  BY <1>1 DEF BulletinOK, KnowsRecord
<1>4. /\ Sealed' = Sealed \cup (base[p] + 1)..upto[p]
      /\ \A j \in 1..Len(chain') :
           (j \in 1..Len(chain) /\ chain'[j] = chain[j]) \/ chain'[j].to = upto[p]
  BY <1>1, <1>2, SealOne
<1>5. \A d \in 1..upto[p] : d \in 1..base[p] \/ d \in (base[p] + 1)..upto[p]
  BY <1>1
<1>6. \A d \in (base[p] + 1)..upto[p] : d \in 1..upto[p]
  BY <1>1
<1>7. complete \in Nat /\ upto[p] \in 1..complete
  BY <1>1, <1>3 DEF SharedTyped
<1> QED BY <1>3, <1>4, <1>5, <1>6, <1>7

\* A step that writes no checkpoint, shows nothing new and lists at most what is
\* sealed.
LEMMA BulletinUntouched ==
  ASSUME SharedTyped, BulletinOK, UNCHANGED <<chain, channel, complete>>,
         \A q \in Starters :
           /\ list'[q] \subseteq list[q] \cup 1..LastSealed
           /\ rpc'[q] \in {"hash", "write"} =>
                \/ rpc[q] \in {"hash", "write"} /\ base'[q] = base[q] /\ upto'[q] = upto[q]
                \/ base'[q] = LastSealed /\ LastSealed < upto'[q] /\ upto'[q] <= complete
  PROVE  BulletinOK'
<1>1. Sealed' = Sealed /\ Shown' = Shown /\ 1..LastSealed \subseteq Sealed
  BY SupportedSealed DEF Sealed, Shown
<1>2. \A q \in Starters : KnowsRecord(q)'
  BY <1>1 DEF BulletinOK, KnowsRecord
<1> QED BY <1>1, <1>2 DEF BulletinOK

\* A kill shows at most the message being sent.
LEMMA KilledShows ==
  ASSUME RoutineTyped, NEW p \in Starters, Killed(p), channel' # channel
  PROVE  list[p] # {} /\ Arrives(p)
<1>1. rpc[p] = "send" /\ Arrives(p)
  BY DEF Killed, Stands
<1> QED BY <1>1 DEF RoutineTyped, StartsTyped

LEMMA BulletinStep ==
  ASSUME RoutineAssumptions, RoutineTyped, BulletinOK, [RoutineNext]_routineVars
  PROVE  BulletinOK'
<1> USE DEF lockVars, recordingVars, channelVars, Stands, Step
<1>0. /\ rpc \in [Starters -> Points] /\ list \in [Starters -> SUBSET Nat]
      /\ base \in [Starters -> Nat] /\ upto \in [Starters -> Nat]
      /\ SharedTyped /\ LastSealed \in Nat /\ complete \in Nat
  BY LastSealedType DEF RoutineTyped, StartsTyped, SharedTyped
<1>1. CASE UNCHANGED routineVars \/ LockAges
  BY <1>0, <1>1, BulletinUntouched DEF routineVars, LockAges
<1>2. CASE DayCompletes
  <2>1. complete' = complete + 1 /\ UNCHANGED <<rpc, chain, channel, list, base, upto>>
    BY <1>2 DEF DayCompletes
  <2>2. Sealed' = Sealed /\ Shown' = Shown
    BY <2>1 DEF Sealed, Shown
  <2>3. \A q \in Starters : KnowsRecord(q)'
    BY <1>0, <2>1, <2>2 DEF BulletinOK, KnowsRecord
  <2> QED BY <2>1, <2>2, <2>3 DEF BulletinOK
<1>3. ASSUME NEW p \in Starters, Start(p) \/ Create(p) \/ Stat(p) \/ Unlink(p)
      PROVE  BulletinOK'
  <2>1. UNCHANGED <<chain, channel, complete, list, base, upto>>
    BY <1>3 DEF Start, Create, Stat, Unlink
  <2>2. \A q \in Starters : rpc'[q] \in {"hash", "write"} => rpc[q] \in {"hash", "write"}
    <3>1. \E at \in {"create", "read", "report", "stat", "unlink", "off"} :
            rpc' = [rpc EXCEPT ![p] = at]
      BY <1>3 DEF Start, Create, Stat, Unlink, Again, Ends, Judges
    <3> QED BY <1>0, <3>1
  <2> QED BY <1>0, <2>1, <2>2, BulletinUntouched
<1>4. ASSUME NEW p \in Starters, ReadRecord(p) PROVE BulletinOK'
  <2>1. UNCHANGED <<chain, channel, complete, list>>
    BY <1>4 DEF ReadRecord
  <2>2. CASE Tracked(p)
    BY <1>0, <2>1, <2>2, BulletinUntouched DEF Tracked
  <2>3. CASE ~Tracked(p)
    <3>1. /\ complete > LastSealed /\ base' = [base EXCEPT ![p] = LastSealed]
          /\ upto' = [upto EXCEPT ![p] = complete] /\ rpc' = [rpc EXCEPT ![p] = "hash"]
      BY <1>4, <2>3 DEF ReadRecord
    <3> QED BY <1>0, <2>1, <3>1, BulletinUntouched
  <2> QED BY <2>2, <2>3
<1>5. ASSUME NEW p \in Starters, ReadHash(p) PROVE BulletinOK'
  <2>1. UNCHANGED <<chain, channel, complete, list>> /\ rpc[p] = "hash"
    BY <1>5 DEF ReadHash
  <2>2. CASE Tracked(p)
    BY <1>0, <2>1, <2>2, BulletinUntouched DEF Tracked
  <2>3. CASE ~Tracked(p)
    <3>1. UNCHANGED <<base, upto>> /\ rpc' = [rpc EXCEPT ![p] = "write"]
      BY <1>5, <2>3 DEF ReadHash
    <3> QED BY <1>0, <2>1, <3>1, BulletinUntouched
  <2> QED BY <2>2, <2>3
<1>6. ASSUME NEW p \in Starters, WriteRecord(p) PROVE BulletinOK'
  <2>1. /\ UNCHANGED <<complete, channel, list>> /\ rpc' = [rpc EXCEPT ![p] = "report"]
        /\ \A q \in Starters : q # p => base'[q] = base[q] /\ upto'[q] = upto[q]
    BY <1>0, <1>6 DEF WriteRecord, Tracked
  <2>2. /\ Sealed' = Sealed \cup 1..upto[p]
        /\ \A j \in 1..Len(chain') :
             (j \in 1..Len(chain) /\ chain'[j] = chain[j]) \/ chain'[j].to = upto[p]
    BY <1>6, CheckpointSeals
  <2>3. Shown' = Shown
    BY <2>1 DEF Shown
  <2>4. \A q \in Starters : KnowsRecord(q)'
    BY <1>0, <2>1, <2>2 DEF BulletinOK, KnowsRecord
  <2>5. \A j \in 1..Len(chain') : 1..chain'[j].to \subseteq Sealed'
    BY <2>2 DEF BulletinOK
  <2> QED BY <2>1, <2>2, <2>3, <2>4, <2>5 DEF BulletinOK
<1>7. ASSUME NEW p \in Starters, BuildMessages(p) PROVE BulletinOK'
  <2>1. UNCHANGED <<chain, channel, complete, base, upto>>
        /\ rpc' = [rpc EXCEPT ![p] = "deliver"]
    BY <1>7 DEF BuildMessages
  <2>2. \A q \in Starters : list'[q] \subseteq list[q] \cup 1..LastSealed
    BY <1>0, <1>7 DEF BuildMessages, Supported
  <2> QED BY <1>0, <2>1, <2>2, BulletinUntouched
<1>8. ASSUME NEW p \in Starters, DeliveryStep(p) \/ Unlock(p) \/ Killed(p) PROVE BulletinOK'
  <2>1. UNCHANGED <<chain, complete>>
    BY <1>8, DeliveryEffect DEF DeliveryStep, ReadRow, Send, RecordSent, RecordFailed,
       OutboxRaises, Unlock, Killed
  <2>2. \A q \in Starters : list'[q] \subseteq list[q]
    <3>1. list' = list \/ Passes(p) \/ list' = [list EXCEPT ![p] = {}]
      BY <1>8, DeliveryEffect DEF Unlock, Killed
    <3> QED BY <1>0, <3>1 DEF Passes
  <2>3. \A q \in Starters : rpc'[q] \in {"hash", "write"} =>
          rpc[q] \in {"hash", "write"} /\ base'[q] = base[q] /\ upto'[q] = upto[q]
    <3>1. CASE DeliveryStep(p)
      <4>1. UNCHANGED <<base, upto>> /\ \E to \in Delivering : rpc' = [rpc EXCEPT ![p] = to]
        BY <3>1, DeliveryEffect
      <4> QED BY <1>0, <4>1 DEF Delivering
    <3>2. CASE Unlock(p) \/ Killed(p)
      BY <1>0, <3>2 DEF Unlock, Killed, Ends
    <3> QED BY <1>8, <3>1, <3>2
  <2>4. Sealed' = Sealed
    BY <2>1 DEF Sealed
  <2>5. Shown' \subseteq Sealed
    <3>1. CASE channel' = channel
      BY <3>1 DEF Shown, BulletinOK
    <3>2. CASE channel' # channel
      <4>1. list[p] # {} /\ Arrives(p)
        BY <1>8, <3>2, DeliveryEffect, KilledShows DEF Unlock
      <4>2. InHand(p) \in list[p] /\ InHand(p) \in Nat
        BY <4>1, HandType DEF RoutineTyped
      <4>3. Shown' = Shown \cup {InHand(p)}
        BY <1>0, <4>1, <4>2, ShowOne DEF Arrives
      <4> QED BY <4>2, <4>3 DEF BulletinOK
    <3> QED BY <3>1, <3>2
  <2>6. \A q \in Starters : KnowsRecord(q)'
    BY <2>1, <2>3, <2>4 DEF BulletinOK, KnowsRecord
  <2> QED BY <2>1, <2>2, <2>4, <2>5, <2>6 DEF BulletinOK
<1>9. CASE \E p \in Starters : Start(p) \/ RoutineStep(p) \/ Killed(p)
  BY <1>3, <1>4, <1>5, <1>6, <1>7, <1>8, <1>9 DEF RoutineStep, DeliveryStep
<1> QED BY <1>1, <1>2, <1>9 DEF RoutineNext

\* Every step of the routine is a step of the bulletin or leaves it alone.
LEMMA BulletinRefined ==
  ASSUME RoutineAssumptions, RoutineTyped, ChannelOK, BulletinOK, [RoutineNext]_routineVars
  PROVE  [Bulletin!Next]_(Bulletin!bulletinVars)
<1> USE DEF lockVars, recordingVars, channelVars
<1>1. CASE UNCHANGED <<chain, channel, complete>>
  BY <1>1 DEF Bulletin!bulletinVars, Sealed, Shown
<1>2. CASE DayCompletes
  BY <1>2 DEF DayCompletes, Bulletin!Next, Bulletin!Complete, Sealed, Shown
<1>3. ASSUME NEW p \in Starters, WriteRecord(p) PROVE Bulletin!Next
  <2>1. UNCHANGED <<complete, channel>>
    BY <1>3 DEF WriteRecord
  <2>2. Shown' = Shown
    BY <2>1 DEF Shown
  <2>3. Sealed' = Sealed \cup 1..upto[p] /\ upto[p] \in 1..complete
    BY <1>3, CheckpointSeals
  <2> QED BY <2>1, <2>2, <2>3 DEF Bulletin!Next, Bulletin!Seal
<1>4. ASSUME NEW p \in Starters, DeliveryStep(p) \/ Killed(p), channel' # channel
      PROVE  Bulletin!Next
  <2>1. UNCHANGED <<chain, complete>>
    BY <1>4, DeliveryEffect DEF Killed
  <2>2. Sealed' = Sealed
    BY <2>1 DEF Sealed
  <2>3. list[p] # {} /\ Arrives(p)
    BY <1>4, DeliveryEffect, KilledShows
  <2>4. InHand(p) \in Nat /\ InHand(p) \in Sealed
    BY <2>3, HandType DEF RoutineTyped, BulletinOK
  <2>5. Shown' = Shown \cup {InHand(p)}
    BY <2>3, ArrivesInOrder
  <2>6. 1..(InHand(p) - 1) \subseteq Shown
    BY <2>3, NextInOrder
  <2> QED BY <2>1, <2>2, <2>4, <2>5, <2>6 DEF Bulletin!Next, Bulletin!Announce
<1>5. ASSUME NEW p \in Starters,
             \/ Start(p) \/ Create(p) \/ Stat(p) \/ Unlink(p) \/ ReadRecord(p) \/ ReadHash(p)
             \/ BuildMessages(p) \/ Unlock(p)
      PROVE  UNCHANGED <<chain, channel, complete>>
  BY <1>5 DEF Start, Create, Stat, Unlink, ReadRecord, ReadHash, BuildMessages, Unlock
<1>6. ASSUME NEW p \in Starters, DeliveryStep(p) \/ Killed(p)
      PROVE  UNCHANGED <<chain, complete>>
  BY <1>6, DeliveryEffect DEF Killed
<1>7. CASE LockAges \/ UNCHANGED routineVars
  BY <1>1, <1>7 DEF LockAges, routineVars
<1>8. CASE \E p \in Starters : Start(p) \/ RoutineStep(p) \/ Killed(p)
  BY <1>1, <1>3, <1>4, <1>5, <1>6, <1>8 DEF RoutineStep, DeliveryStep
<1> QED BY <1>2, <1>7, <1>8 DEF RoutineNext

\* The routine (run_forward, append, build_messages and the delivery) implements
\* the bulletin, with or without a race.
THEOREM ImplementsBulletin == RoutineSpec => BulletinIsKept
<1>1. RoutineInit => Bulletin!Init /\ BulletinOK
  <2> SUFFICES ASSUME RoutineInit PROVE Bulletin!Init /\ BulletinOK
    OBVIOUS
  <2>1. /\ chain = <<>> /\ channel = <<>> /\ complete = 0
        /\ \A p \in Starters : rpc[p] = "off" /\ list[p] = {}
    BY DEF RoutineInit
  <2>2. Sealed = {} /\ Shown = {}
    BY <2>1 DEF Sealed, Shown
  <2> QED BY <2>1, <2>2 DEF Bulletin!Init, BulletinOK, KnowsRecord
<1>2. RoutineTyped /\ ChannelOK /\ [RoutineNext]_routineVars => ChannelOK'
  BY RoutineConstants, ChannelStep
<1>3. RoutineTyped /\ BulletinOK /\ [RoutineNext]_routineVars => BulletinOK'
  BY RoutineConstants, BulletinStep
<1>4. RoutineTyped /\ ChannelOK /\ BulletinOK /\ [RoutineNext]_routineVars =>
        [Bulletin!Next]_(Bulletin!bulletinVars)
  BY RoutineConstants, BulletinRefined
<1> QED BY <1>1, <1>2, <1>3, <1>4, ChannelStart, RoutineTypedAlways, PTL
        DEF RoutineSpec, BulletinIsKept, Bulletin!Spec

-----------------------------------------------------------------------------
(* Progress.                                                               *)

LEMMA Places ==
  /\ Place["off"] = 0 /\ Place["record"] = 1 /\ Place["fail"] = 1 /\ Place["send"] = 2
  /\ Place["deliver"] = 3 /\ Place["report"] = 4 /\ Place["write"] = 5 /\ Place["hash"] = 6
  /\ Place["read"] = 7 /\ Place["unlink"] = 8 /\ Place["stat"] = 9 /\ Place["create"] = 10
  BY DEF Place

\* A start moves nobody else.
LEMMA OthersKept ==
  ASSUME RoutineTyped, NEW p \in Starters, NEW q \in Starters, q # p,
         Start(p) \/ RoutineStep(p) \/ Killed(p)
  PROVE  rpc'[q] = rpc[q] /\ tries'[q] = tries[q] /\ list'[q] = list[q]
<1>0. /\ rpc \in [Starters -> Points] /\ list \in [Starters -> SUBSET Nat]
      /\ tries \in [Starters -> 0..2]
  BY DEF RoutineTyped, StartsTyped
<1> USE DEF lockVars, recordingVars, channelVars, Stands, Step, Again, Ends, Judges, Tracked
<1>1. CASE Start(p) \/ Create(p) \/ Stat(p) \/ Unlink(p)
  BY <1>0, <1>1 DEF Start, Create, Stat, Unlink
<1>2. CASE ReadRecord(p) \/ ReadHash(p) \/ WriteRecord(p) \/ BuildMessages(p)
  BY <1>0, <1>2 DEF ReadRecord, ReadHash, WriteRecord, BuildMessages
<1>3. CASE Unlock(p) \/ Killed(p)
  BY <1>0, <1>3 DEF Unlock, Killed
<1>4. CASE DeliveryStep(p)
  <2>1. /\ \E to \in Delivering : rpc' = [rpc EXCEPT ![p] = to]
        /\ list' = list \/ Passes(p) \/ list' = [list EXCEPT ![p] = {}]
        /\ tries' = tries
    BY <1>4, DeliveryEffect
  <2> QED BY <1>0, <2>1 DEF Passes
<1> QED BY <1>1, <1>2, <1>3, <1>4 DEF RoutineStep, DeliveryStep

\* Every step of a start brings it nearer to its end.
LEMMA StartAdvances ==
  ASSUME RoutineTyped, NEW p \in Starters, RoutineStep(p) \/ Killed(p)
  PROVE  Nearer(p)
<1>0. /\ rpc \in [Starters -> Points] /\ list \in [Starters -> SUBSET Nat]
      /\ tries \in [Starters -> 0..2]
      /\ rpc[p] \in {"send", "record", "fail"} => list[p] # {}
  BY DEF RoutineTyped, StartsTyped
<1> USE Places DEF Nearer, Delivering, lockVars, recordingVars, channelVars, Stands, Step
<1>1. CASE Create(p)
  BY <1>0, <1>1 DEF Create
<1>2. CASE Stat(p)
  <2>1. CASE Again(p)
    BY <1>0, <2>1 DEF Again, Ends
  <2>2. CASE Ends(p)
    BY <1>0, <2>2 DEF Ends
  <2>3. CASE Judges(p)
    BY <1>0, <1>2, <2>3 DEF Stat, Judges
  <2> QED BY <1>2, <2>1, <2>2, <2>3 DEF Stat
<1>3. CASE Unlink(p)
  BY <1>0, <1>3 DEF Unlink, Again, Ends
<1>4. CASE ReadRecord(p)
  BY <1>0, <1>4 DEF ReadRecord, Tracked
<1>5. CASE ReadHash(p)
  BY <1>0, <1>5 DEF ReadHash, Tracked
<1>6. CASE WriteRecord(p)
  BY <1>0, <1>6 DEF WriteRecord, Tracked
<1>7. CASE BuildMessages(p)
  BY <1>0, <1>7 DEF BuildMessages
<1>8. CASE DeliveryStep(p)
  <2>1. tries' = tries /\ list[p] # {} /\ rpc[p] \in Delivering
    BY <1>8, DeliveryEffect
  <2>2. InHand(p) \in list[p]
    BY <2>1, HandType DEF RoutineTyped
  <2>3. CASE list' = list
    <3>1. CASE ReadRow(p)
      <4>1. Passes(p) => list'[p] # list[p]
        BY <1>0, <2>2 DEF Passes
      <4>2. rpc[p] = "deliver" /\ rpc' = [rpc EXCEPT ![p] = "send"]
        BY <2>3, <3>1, <4>1 DEF ReadRow
      <4> QED BY <1>0, <2>1, <2>3, <4>2
    <3>2. CASE Send(p)
      BY <1>0, <2>1, <2>3, <3>2 DEF Send
    <3>3. CASE RecordSent(p) \/ RecordFailed(p) \/ OutboxRaises(p)
      <4>1. list'[p] # list[p]
        BY <1>0, <2>1, <2>2, <3>3 DEF RecordSent, RecordFailed, OutboxRaises, Passes,
           StopsDelivery
      <4> QED BY <2>3, <4>1
    <3> QED BY <1>8, <3>1, <3>2, <3>3 DEF DeliveryStep
  <2>4. CASE Passes(p) \/ list' = [list EXCEPT ![p] = {}]
    <3>1. list'[p] \subseteq list[p] /\ list'[p] # list[p]
      BY <1>0, <2>1, <2>2, <2>4 DEF Passes
    <3>2. rpc'[p] \in Delivering
      BY <1>0, <1>8, DeliveryEffect
    <3> QED BY <2>1, <3>1, <3>2
  <2> QED BY <1>8, <2>3, <2>4, DeliveryEffect
<1>9. CASE Unlock(p)
  BY <1>0, <1>9 DEF Unlock, Ends
<1>10. CASE Killed(p)
  BY <1>0, <1>10 DEF Killed, Ends
<1> QED BY <1>1, <1>2, <1>3, <1>4, <1>5, <1>6, <1>7, <1>8, <1>9, <1>10
        DEF RoutineStep, DeliveryStep

\* No start of the routine waits for another, for the record or for the channel:
\* after at most two attempts at the lock, the steps of the tracker and those of
\* each message, it has ended.
THEOREM EveryStartEnds == RoutineSpec => NoStartWaits
<1>1. RoutineTyped /\ [RoutineNext]_routineVars =>
        [\A p \in Starters : rpc[p] # "off" => Nearer(p) \/ Waits(p)]_routineVars
  <2> SUFFICES ASSUME RoutineTyped, RoutineNext, NEW p \in Starters, rpc[p] # "off",
                      ~Nearer(p)
               PROVE  Waits(p)
    OBVIOUS
  <2>1. ~RoutineStep(p) /\ ~Killed(p)
    BY StartAdvances
  <2>2. ~Start(p)
    BY DEF Start, Stands
  <2>3. CASE \E q \in Starters : Start(q) \/ RoutineStep(q) \/ Killed(q)
    BY <2>1, <2>2, <2>3, OthersKept DEF Waits
  <2>4. CASE DayCompletes \/ LockAges
    BY <2>1, <2>4 DEF DayCompletes, LockAges, lockVars, channelVars, Waits
  <2> QED BY <2>3, <2>4 DEF RoutineNext
<1> QED BY <1>1, RoutineTypedAlways, PTL DEF RoutineSpec, NoStartWaits
-----------------------------------------------------------------------------
(* What an outage costs.                                                   *)

\* Where a start has a message in its hands.
Sending == {"send", "record", "fail"}

\* While nobody has raced, a message in hand is not recorded as sent, and the
\* channel shows once what is acknowledged and no failure explains.
CopiesCounted ==
  ~raced => /\ \A p \in Starters : rpc[p] \in Sending => InHand(p) \notin delivered
            /\ IsFiniteSet(Acknowledged)
            /\ Len(channel) <= Cardinality(Acknowledged) + failures

\* Whoever has removed another's lock file has done so for good.
LEMMA RacedStays == ASSUME [RoutineNext]_routineVars, raced PROVE raced'
<1> USE DEF lockVars, recordingVars, channelVars
<1>1. ASSUME NEW p \in Starters, RoutineStep(p) PROVE raced'
  BY <1>1 DEF RoutineStep, Create, Stat, Unlink, Removes, ReadRecord, ReadHash, WriteRecord,
     BuildMessages, ReadRow, Send, RecordSent, RecordFailed, OutboxRaises, Unlock
<1>2. ASSUME NEW p \in Starters, Start(p) \/ Killed(p) PROVE raced'
  BY <1>2 DEF Start, Killed
<1> QED BY <1>1, <1>2 DEF RoutineNext, DayCompletes, LockAges, routineVars

\* A start that delivers is alone with its message, until somebody races.
LEMMA DeliversAlone ==
  ASSUME RoutineTyped, LedgerOK, ~raced, NEW p \in Starters, rpc[p] \in Delivering
  PROVE  \A q \in Starters : q # p => rpc[q] \notin Sending
<1>1. p \in Running /\ Held
  BY DEF Running, Delivering, LedgerOK
<1> QED BY <1>1 DEF Held, Running, Sending

\* What is acknowledged, when one start at most delivers.
LEMMA AcknowledgedAlone ==
  ASSUME NEW p \in Starters, \A q \in Starters : q # p => rpc[q] \notin Sending
  PROVE  Acknowledged = IF rpc[p] = "record" THEN delivered \cup {InHand(p)} ELSE delivered
<1>1. CASE rpc[p] = "record"
  <2>1. {q \in Starters : Stands(q, "record")} = {p}
    BY <1>1 DEF Stands, Sending
  <2> QED BY <1>1, <2>1 DEF Acknowledged
<1>2. CASE rpc[p] # "record"
  <2>1. {q \in Starters : Stands(q, "record")} = {}
    BY <1>2 DEF Stands, Sending
  <2> QED BY <1>2, <2>1 DEF Acknowledged
<1> QED BY <1>1, <1>2

\* A step that takes no message into its hands, out of them or to the channel.
LEMMA CopiesUntouched ==
  ASSUME RoutineTyped, CopiesCounted, raced => raced', UNCHANGED <<channel, delivered>>,
         failures' = failures \/ Failure,
         \A q \in Starters : \/ rpc'[q] = rpc[q] /\ list'[q] = list[q]
                             \/ rpc[q] \notin Sending /\ rpc'[q] \notin Sending
  PROVE  CopiesCounted'
<1> SUFFICES ASSUME ~raced' PROVE CopiesCounted'
  BY DEF CopiesCounted
<1>1. \A q \in Starters : /\ rpc'[q] \in Sending => rpc[q] \in Sending /\ InHand(q)' = InHand(q)
                          /\ rpc'[q] = "record" <=> rpc[q] = "record"
  BY DEF InHand, Sending
<1>2. Acknowledged' = Acknowledged
  <2>1. {q \in Starters : Stands(q, "record")}' = {q \in Starters : Stands(q, "record")}
    BY <1>1 DEF Stands
  <2>2. \A q \in Starters : Stands(q, "record") => InHand(q)' = InHand(q)
    BY <1>1 DEF Stands, Sending
  <2>3. {InHand(q) : q \in {r \in Starters : Stands(r, "record")}}'
          = {InHand(q) : q \in {r \in Starters : Stands(r, "record")}}
    BY <2>1, <2>2
  <2> QED BY <2>3 DEF Acknowledged
<1>3. /\ failures \in Nat /\ Len(channel) \in Nat
      /\ IsFiniteSet(Acknowledged) /\ Cardinality(Acknowledged) \in Nat
      /\ Len(channel) <= Cardinality(Acknowledged) + failures
  BY FS_CardinalityType DEF RoutineTyped, SharedTyped, CopiesCounted
<1>4. failures' \in Nat /\ failures <= failures'
  BY <1>3 DEF Failure
<1>5. Len(channel) <= Cardinality(Acknowledged) + failures'
  BY <1>3, <1>4
<1> QED BY <1>1, <1>2, <1>3, <1>5 DEF CopiesCounted

\* One more acknowledged pays for one more shown, one failure for one shown or
\* for one acknowledged that is not recorded.
LEMMA Balances ==
  ASSUME NEW c \in Nat, NEW a \in Nat, NEW n \in Nat, c <= a + n
  PROVE  c + 1 <= (a + 1) + n /\ c + 1 <= a + (n + 1) /\ \A b \in Nat : a <= b + 1 => c <= b + (n + 1)
  OBVIOUS

\* A delivery and a kill of a start that delivers.
LEMMA DeliveryCounts ==
  ASSUME RoutineTyped, LedgerOK, CopiesCounted, NEW p \in Starters, rpc[p] \in Delivering,
         DeliveryStep(p) \/ Killed(p), raced => raced'
  PROVE  CopiesCounted'
<1> SUFFICES ASSUME ~raced' PROVE CopiesCounted'
  BY DEF CopiesCounted
<1> USE DEF lockVars, recordingVars, channelVars, Stands, Step
<1> DEFINE h == InHand(p)
<1>0. /\ rpc \in [Starters -> Points] /\ list \in [Starters -> SUBSET Nat]
      /\ rpc[p] \in Sending => list[p] # {} /\ h \notin delivered
  BY DEF RoutineTyped, StartsTyped, CopiesCounted, Sending
<1>1. \A q \in Starters : q # p => rpc[q] \notin Sending /\ rpc'[q] = rpc[q]
  BY DeliversAlone, OthersKept DEF RoutineStep, DeliveryStep
<1>2. Acknowledged = IF rpc[p] = "record" THEN delivered \cup {h} ELSE delivered
  BY <1>1, AcknowledgedAlone
<1>3. Acknowledged' = IF rpc'[p] = "record" THEN delivered' \cup {InHand(p)'} ELSE delivered'
  <2>1. CASE rpc'[p] = "record"
    <3>1. {q \in Starters : Stands(q, "record")}' = {p}
      BY <1>1, <2>1 DEF Sending
    <3> QED BY <2>1, <3>1 DEF Acknowledged
  <2>2. CASE rpc'[p] # "record"
    <3>1. {q \in Starters : Stands(q, "record")}' = {}
      BY <1>1, <2>2 DEF Sending
    <3> QED BY <2>2, <3>1 DEF Acknowledged
  <2> QED BY <2>1, <2>2
<1>4. /\ failures \in Nat /\ channel \in Seq(Nat) /\ Len(channel) \in Nat
      /\ IsFiniteSet(Acknowledged) /\ Cardinality(Acknowledged) \in Nat
      /\ Len(channel) <= Cardinality(Acknowledged) + failures
  BY FS_CardinalityType DEF RoutineTyped, SharedTyped, CopiesCounted
<1>5. Arrives(p) /\ list[p] # {} => Len(channel') = Len(channel) + 1
  BY <1>4, HandType, AppendProperties DEF RoutineTyped, Arrives
<1>6. \A q \in Starters : rpc'[q] \in Sending => q = p
  BY <1>1
\* The message is out of p's hands, with a failure if it was acknowledged.
<1>7. ASSUME rpc'[p] \notin Sending, delivered' = delivered, channel' = channel,
             failures' = failures + 1
      PROVE  CopiesCounted'
  <2>1. Acknowledged' = delivered
    BY <1>3, <1>7 DEF Sending
  <2>2. IsFiniteSet(delivered) /\ Cardinality(delivered) \in Nat
    BY <1>2, <1>4, FS_Subset, FS_CardinalityType
  <2>3. Cardinality(Acknowledged) <= Cardinality(delivered) + 1
    <3>1. CASE Acknowledged = delivered
      BY <2>2, <3>1
    <3>2. CASE Acknowledged = delivered \cup {h} /\ h \notin delivered
      <4>1. Cardinality(delivered \cup {h}) = Cardinality(delivered) + 1
        BY <2>2, <3>2, FS_AddElement
      <4> QED BY <2>2, <3>2, <4>1
    <3> QED BY <1>0, <1>2, <3>1, <3>2 DEF Sending
  <2>4. Len(channel) <= Cardinality(delivered) + (failures + 1)
    <3>1. \A b \in Nat : Cardinality(Acknowledged) <= b + 1 => Len(channel) <= b + (failures + 1)
      BY <1>4, Balances
    <3> QED BY <2>2, <2>3, <3>1
  <2> QED BY <1>6, <1>7, <2>1, <2>2, <2>4 DEF CopiesCounted
<1>8. CASE ReadRow(p)
  <2>1. CASE UNCHANGED rpc
    <3>1. rpc[p] = "deliver" /\ UNCHANGED <<channel, delivered, failures>>
      BY <1>8, <2>1 DEF ReadRow
    <3>2. \A q \in Starters : q # p => rpc'[q] = rpc[q] /\ list'[q] = list[q]
      BY <1>8, OthersKept DEF RoutineStep
    <3> QED BY <2>1, <3>1, <3>2, CopiesUntouched DEF Sending
  <2>2. CASE h \notin delivered /\ rpc' = [rpc EXCEPT ![p] = "send"] /\ UNCHANGED list
    <3>1. rpc[p] = "deliver" /\ rpc'[p] = "send" /\ UNCHANGED <<channel, delivered, failures>>
      BY <1>0, <1>8, <2>2 DEF ReadRow
    <3>2. Acknowledged' = Acknowledged
      BY <1>2, <1>3, <3>1
    <3>3. InHand(p)' = h
      BY <2>2 DEF InHand
    <3> QED BY <1>4, <1>6, <2>2, <3>1, <3>2, <3>3 DEF CopiesCounted
  <2> QED BY <1>8, <2>1, <2>2 DEF ReadRow
<1>9. CASE Send(p)
  <2>1. rpc[p] = "send" /\ UNCHANGED <<list, delivered>> /\ list[p] # {} /\ h \notin delivered
    BY <1>0, <1>9 DEF Send, Sending
  <2>2. Acknowledged = delivered /\ InHand(p)' = h
    BY <1>2, <2>1 DEF InHand
  <2>3. CASE rpc' = [rpc EXCEPT ![p] = "record"] /\ Arrives(p) /\ failures' = failures
    <3>1. Acknowledged' = delivered \cup {h}
      BY <1>0, <1>3, <2>1, <2>2, <2>3
    <3>2. IsFiniteSet(Acknowledged') /\ Cardinality(Acknowledged') = Cardinality(Acknowledged) + 1
      BY <1>4, <2>1, <2>2, <3>1, FS_AddElement
    <3>3. Len(channel') <= Cardinality(Acknowledged') + failures'
      BY <1>4, <1>5, <2>1, <2>3, <3>2, Balances
    <3> QED BY <1>6, <2>1, <2>2, <3>2, <3>3 DEF CopiesCounted
  <2>4. CASE rpc' = [rpc EXCEPT ![p] = "fail"] /\ Failure /\ (Arrives(p) \/ UNCHANGED channel)
    <3>1. Acknowledged' = Acknowledged /\ failures' = failures + 1
      BY <1>0, <1>3, <2>1, <2>2, <2>4 DEF Failure
    <3>2. Len(channel') <= Cardinality(Acknowledged) + (failures + 1)
      BY <1>4, <1>5, <2>1, <2>4, Balances
    <3> QED BY <1>4, <1>6, <2>1, <2>2, <3>1, <3>2 DEF CopiesCounted
  <2> QED BY <1>9, <2>3, <2>4 DEF Send
<1>10. CASE RecordSent(p)
  <2>1. rpc[p] = "record" /\ rpc'[p] = "deliver" /\ delivered' = delivered \cup {h}
        /\ UNCHANGED <<channel, failures>>
    BY <1>0, <1>10 DEF RecordSent
  <2>2. Acknowledged' = Acknowledged
    BY <1>2, <1>3, <2>1
  <2> QED BY <1>4, <1>6, <2>1, <2>2 DEF CopiesCounted, Sending
<1>11. CASE RecordFailed(p)
  <2>1. rpc[p] = "fail" /\ rpc'[p] = "deliver" /\ delivered' = delivered
        /\ UNCHANGED <<channel, failures>>
    BY <1>0, <1>11 DEF RecordFailed, Sending
  <2>2. Acknowledged' = Acknowledged
    BY <1>2, <1>3, <2>1
  <2> QED BY <1>4, <1>6, <2>1, <2>2 DEF CopiesCounted, Sending
<1>12. CASE OutboxRaises(p)
  BY <1>0, <1>7, <1>12 DEF OutboxRaises, Failure, Sending
<1>13. CASE Killed(p)
  <2>1. rpc'[p] = "off" /\ delivered' = delivered /\ failures' = failures + 1
    BY <1>0, <1>13 DEF Killed, Ends, Failure
  <2>2. CASE channel' = channel
    BY <1>7, <2>1, <2>2 DEF Sending
  <2>3. CASE channel' # channel
    <3>1. rpc[p] = "send" /\ Arrives(p) /\ list[p] # {}
      BY <1>0, <1>13, <2>3 DEF Killed, Sending
    <3>2. Acknowledged' = Acknowledged
      BY <1>2, <1>3, <2>1, <3>1
    <3>3. Len(channel') <= Cardinality(Acknowledged) + (failures + 1)
      BY <1>4, <1>5, <3>1, Balances
    <3> QED BY <1>4, <1>6, <2>1, <3>2, <3>3 DEF CopiesCounted, Sending
  <2> QED BY <2>2, <2>3
<1> QED BY <1>8, <1>9, <1>10, <1>11, <1>12, <1>13 DEF DeliveryStep

\* Only what is not recorded as sent is sent, so that a message shown and
\* acknowledged counts on both sides, and one shown only has cost a failure.
LEMMA CopiesCountedStep ==
  ASSUME RoutineTyped, LedgerOK, CopiesCounted, [RoutineNext]_routineVars
  PROVE  CopiesCounted'
<1> USE DEF lockVars, recordingVars, channelVars, Stands, Step
<1>0. rpc \in [Starters -> Points] /\ (raced => raced')
  BY RacedStays DEF RoutineTyped, StartsTyped
<1>1. ASSUME UNCHANGED <<rpc, list, channel, delivered, failures>> PROVE CopiesCounted'
  BY <1>0, <1>1, CopiesUntouched
<1>2. CASE UNCHANGED routineVars \/ DayCompletes \/ LockAges
  BY <1>1, <1>2 DEF routineVars, DayCompletes, LockAges
\* A step of p outside its deliveries.
<1>3. ASSUME NEW p \in Starters, Start(p) \/ RoutineStep(p) \/ Killed(p), ~DeliveryStep(p),
             rpc[p] \notin Sending
      PROVE  CopiesCounted'
  <2>1. rpc'[p] \notin Sending
    BY <1>0, <1>3 DEF Start, RoutineStep, DeliveryStep, Create, Stat, Unlink, ReadRecord, ReadHash,
       WriteRecord, BuildMessages, Unlock, Killed, Again, Ends, Judges, Tracked, Sending
  <2>2. UNCHANGED <<channel, delivered>> /\ (failures' = failures \/ Failure)
    BY <1>3 DEF Start, RoutineStep, DeliveryStep, Create, Stat, Unlink, ReadRecord, ReadHash,
       WriteRecord, BuildMessages, Unlock, Killed, Sending
  <2>3. \A q \in Starters : q # p => rpc'[q] = rpc[q] /\ list'[q] = list[q]
    BY <1>3, OthersKept
  <2> QED BY <1>0, <1>3, <2>1, <2>2, <2>3, CopiesUntouched
<1>4. ASSUME NEW p \in Starters, RoutineStep(p) \/ Killed(p), DeliveryStep(p) \/ rpc[p] \in Sending
      PROVE  CopiesCounted'
  <2>1. rpc[p] \in Delivering
    BY <1>4, DeliveryEffect DEF Sending, Delivering
  <2>2. DeliveryStep(p) \/ Killed(p)
    BY <1>4 DEF RoutineStep, DeliveryStep, Create, Stat, Unlink, ReadRecord, ReadHash,
       WriteRecord, BuildMessages, Unlock, Sending
  <2> QED BY <1>0, <2>1, <2>2, DeliveryCounts
<1>5. ASSUME NEW p \in Starters, Start(p) PROVE rpc[p] \notin Sending /\ ~DeliveryStep(p)
  BY <1>5, DeliveryEffect DEF Start, Sending, Delivering
<1>6. CASE \E p \in Starters : Start(p) \/ RoutineStep(p) \/ Killed(p)
  BY <1>3, <1>4, <1>5, <1>6
<1> QED BY <1>2, <1>6 DEF RoutineNext

\* An outage costs no more repetitions than it has failures, for every number of
\* starts, days and failures, until two routines are past the lock.
THEOREM CopiesBounded == RoutineSpec => []CopiesCostFailures
<1>1. RoutineInit => CopiesCounted
  <2> SUFFICES ASSUME RoutineInit PROVE CopiesCounted
    OBVIOUS
  <2>1. delivered = {} /\ channel = <<>> /\ failures = 0 /\ \A p \in Starters : rpc[p] = "off"
    BY DEF RoutineInit
  <2>2. {q \in Starters : Stands(q, "record")} = {}
    BY <2>1 DEF Stands
  <2>3. Acknowledged = {}
    BY <2>1, <2>2 DEF Acknowledged
  <2>4. IsFiniteSet(Acknowledged) /\ Cardinality(Acknowledged) = 0 /\ Len(channel) = 0
    BY <2>1, <2>3, FS_EmptySet
  <2> QED BY <2>1, <2>4 DEF CopiesCounted, Sending
<1>2. CopiesCounted => CopiesCostFailures
  BY DEF CopiesCounted, CopiesCostFailures
<1>3. RoutineTyped /\ LedgerOK /\ CopiesCounted /\ [RoutineNext]_routineVars => CopiesCounted'
  BY CopiesCountedStep
<1> QED BY <1>1, <1>2, <1>3, RoutineTypedAlways, LedgerAlways, PTL DEF RoutineSpec
=============================================================================
