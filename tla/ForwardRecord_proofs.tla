------------------------ MODULE ForwardRecord_proofs ------------------------
(***************************************************************************)
(* What is proved of ForwardRecord for every number of days, years and     *)
(* looks, every rule and every input it may meet.                          *)
(***************************************************************************)
EXTENDS ForwardRecord, SequenceTheorems, NaturalMinimum, TLAPS

RecordAssumptions == ForwardPlanAssumption /\ InputsAssumption

LEMMA RecordConstants == RecordAssumptions
  BY ForwardPlanAssumption, InputsAssumption DEF RecordAssumptions

-----------------------------------------------------------------------------
(* What a run computes.                                                    *)

LEMMA Plan ==
  /\ LastDay \in Nat /\ LastYear \in Nat /\ NeededYear \in [Days -> 0..LastYear]
  /\ Rebalances \subseteq Days /\ Days \subseteq Nat /\ Years \subseteq Nat
  /\ Looks = 1..Len(LookDays) /\ Len(LookDays) \in Nat \ {0}
  /\ \A i \in Looks : LookDays[i] \in Nat
  BY RecordConstants DEF RecordAssumptions, ForwardPlanAssumption, Days, Years, Looks

LEMMA RecordTyped ==
  ASSUME RecordTypeOK
  PROVE  /\ record.days \in Seq(SealedDays) /\ Through \in Nat /\ Through < today
         /\ record.fixed \in [Years -> {0} \cup Versions]
         /\ shown \in Nat /\ today \in Nat /\ today <= LastDay + 1 /\ shown < today
         /\ supplement \in [Years -> {Absent, Partial} \cup Versions]
         /\ market.breach \in Nat \ {0} /\ Closed \in BOOLEAN
         /\ record.verdict \in Verdicts /\ record.seen \in SUBSET Nat /\ record.at \in Nat
         /\ snapshots \subseteq Nat /\ bars \in [Days -> Versions]
  BY RecordConstants, Plan
     DEF RecordTypeOK, Through, Closed, RecordAssumptions, InputsAssumption

\* What counts as inflation of a usable year is a version of it.
LEMMA UsableYears == Usable \subseteq Years /\ \A y \in Usable : Inflation(y) \in Versions
  BY Plan DEF Usable, Listed, Years

\* The record reaches only days whose year is usable.
LEMMA ReachDecided ==
  ASSUME RecordTypeOK
  PROVE  /\ Reach \in 0..shown
         /\ \A d \in 1..Reach : d \in Days /\ NeededYear[d] \in Usable \cup {0}
<1>1. \A r \in Waiting : r \in Nat /\ r >= 1 /\ r <= shown
  BY Plan, RecordTyped DEF Waiting, Days
<1>2. Reach \in 0..shown /\ \A r \in Waiting : Reach < r
  <2>1. CASE Waiting = {}
    BY <2>1, RecordTyped DEF Reach
  <2>2. CASE Waiting # {}
    <3>1. Waiting \in SUBSET Nat
      BY <1>1
    <3>2. Min(Waiting) \in Waiting /\ \A r \in Waiting : Min(Waiting) <= r
      BY <2>2, <3>1, Least
    <3>3. Reach = Min(Waiting) - 1
      BY <2>2 DEF Reach
    <3>4. shown \in Nat
      BY RecordTyped
    <3> QED BY <1>1, <3>2, <3>3, <3>4
  <2> QED BY <2>1, <2>2
<1> DEFINE Bad == {d \in 1..Reach : NeededYear[d] \notin Usable \cup {0}}
<1>3. \A d \in 1..Reach : d \in Days /\ d \in Nat
  BY <1>2, Plan, RecordTyped DEF Days
<1>4. ASSUME Bad # {} PROVE FALSE
  <2>1. Min(Bad) \in Bad /\ \A d \in Bad : Min(Bad) <= d
    BY <1>3, <1>4, Least
  <2> DEFINE d == Min(Bad)
  <2>2. d \in 1..Reach /\ d \in Days /\ NeededYear[d] \notin Usable \cup {0}
    BY <1>3, <2>1
  <2>3. d \notin Rebalances
    <3>1. d <= shown
      BY <1>2, <2>2, RecordTyped
    <3>2. d \in Rebalances => d \in Waiting
      BY <2>2, <3>1 DEF Waiting
    <3>3. d \in Nat /\ d <= Reach /\ Reach \in Nat
      BY <1>2, <2>2, RecordTyped
    <3> HIDE DEF d
    <3> QED BY <1>1, <1>2, <3>2, <3>3
  <2>4. IF d = 1 THEN NeededYear[d] = 0 ELSE NeededYear[d] = NeededYear[d - 1]
    BY <2>2, <2>3, RecordConstants DEF RecordAssumptions, ForwardPlanAssumption
  <2>5. d # 1 /\ d - 1 \in 1..Reach
    BY <1>2, <2>2, <2>4
  <2>6. d - 1 \in Bad
    BY <2>2, <2>4, <2>5
  <2> QED BY <2>1, <2>2, <2>6
<1> QED BY <1>2, <1>3, <1>4

LEMMA VerdictType ==
  ASSUME RecordTypeOK, NEW covered, NEW through \in Nat
  PROVE  Verdict(covered, through) \in Verdicts
<1>1. NoVerdict \in Verdicts
  BY DEF NoVerdict, Verdicts
<1>2. \A i \in Looks : LookVerdict(i, covered, through) \in Verdicts
  BY <1>1, Plan, RecordTyped DEF LookVerdict, Verdicts
<1> DEFINE deciding == {i \in Due(through) : LookVerdict(i, covered, through) # NoVerdict}
<1>3. deciding # {} => Min(deciding) \in Looks
  <2>1. deciding \in SUBSET Nat /\ deciding \subseteq Looks
    BY Plan DEF Due
  <2> HIDE DEF deciding
  <2> QED BY <2>1, Least
<1>4. LookDays[Len(LookDays)] \in Nat /\ market.breach \in Nat
  BY Plan, RecordTyped
<1>5. [status |-> "ABANDONED_DRAWDOWN", on |-> market.breach] \in Verdicts
  BY <1>4 DEF Verdicts
<1>6. [status |-> "ENDED_WITHOUT_CONFIRMATION", on |-> LookDays[Len(LookDays)]] \in Verdicts
  BY <1>4 DEF Verdicts
<1> QED BY <1>1, <1>2, <1>3, <1>5, <1>6 DEF Verdict

-----------------------------------------------------------------------------
(* The invariant: sealed years have no gap, and every sealed day's year is *)
(* sealed.                                                                 *)

YearsSealed ==
  /\ \A d \in 1..Through : NeededYear[d] # 0 => record.fixed[NeededYear[d]] # 0
  /\ \A y \in Years : record.fixed[y] # 0 => \A z \in 1..y : record.fixed[z] # 0

RecordOK == RecordTypeOK /\ DecidedOnSealedInflation /\ YearsSealed

\* A sealed year is usable, as it was sealed.
LEMMA FixedUsable ==
  ASSUME RecordOK, NEW y \in Years, record.fixed[y] # 0
  PROVE  y \in Usable /\ Inflation(y) = record.fixed[y]
<1>1. \A z \in 1..y : z \in Years /\ record.fixed[z] # 0
  BY Plan DEF RecordOK, YearsSealed, Years
<1>2. \A z \in 1..y : Inflation(z) \in Versions
  BY <1>1, RecordTyped DEF RecordOK, Inflation, Versions
<1>3. \A z \in Listed : z <= y => z \in 1..y
  BY Plan DEF Listed, Years
<1> QED BY <1>2, <1>3 DEF Usable, Listed, Inflation

\* The value a run recomputes for a sealed day rests on the sealed inflation.
LEMMA RecomputedSealed ==
  ASSUME RecordOK, NEW d \in 1..Through
  PROVE  Recomputed(d).inflation = record.days[d].inflation
         /\ Rebuilt(d).inflation = record.days[d].inflation
<1>1. d \in Days /\ NeededYear[d] \in Years \cup {0}
  <2>1. d \in Days
    BY Plan, RecordTyped DEF RecordOK, Days
  <2> QED BY <2>1, Plan DEF Years
<1>2. record.days[d].inflation = Behind(d, record.fixed)
  BY DEF RecordOK, DecidedOnSealedInflation
<1>3. NeededYear[d] # 0 => Inflation(NeededYear[d]) = record.fixed[NeededYear[d]]
  BY <1>1, FixedUsable DEF RecordOK, YearsSealed
<1> QED BY <1>1, <1>2, <1>3 DEF Recomputed, Rebuilt, Behind

\* What a run seals of a day it reaches.
LEMMA SealType ==
  ASSUME RecordTypeOK, NEW d \in 1..Reach
  PROVE  Seal(d) \in SealedDays /\ NeededYear[d] \in Usable \cup {0}
         /\ Seal(d).inflation = IF NeededYear[d] = 0 THEN 0 ELSE Inflation(NeededYear[d])
<1>1. d \in Days /\ NeededYear[d] \in Usable \cup {0} /\ bars[d] \in Versions
  BY ReachDecided, RecordTyped
<1>2. Seal(d).inflation = IF NeededYear[d] = 0 THEN 0 ELSE Inflation(NeededYear[d])
  BY <1>1, UsableYears DEF Seal, Recomputed, Behind
<1>3. Seal(d).inflation \in {0} \cup Versions
  BY <1>1, <1>2, UsableYears
<1>4. Seal(d).bars = bars[d] /\ Seal(d).covered \in BOOLEAN
  BY DEF Seal, CoveredBy
<1>5. Seal(d) = [bars |-> bars[d], inflation |-> Seal(d).inflation, covered |-> Seal(d).covered]
  BY DEF Seal
<1> QED BY <1>1, <1>2, <1>3, <1>4, <1>5 DEF SealedDays

\* What a checkpoint adds to the days, and where it goes.
LEMMA LongerDays ==
  ASSUME RecordTypeOK, Reach >= Through
  PROVE  LET days == record.days \o NewDays
         IN  /\ days \in Seq(SealedDays) /\ Len(days) = Reach
             /\ \A d \in 1..Through : days[d] = record.days[d]
             /\ \A d \in (Through + 1)..Reach : days[d] = Seal(d)
             /\ SubSeq(days, 1, Through) = record.days
<1>1. /\ Through \in Nat /\ Reach \in Nat /\ record.days \in Seq(SealedDays)
      /\ Through = Len(record.days)
  BY RecordTyped, ReachDecided DEF Through
<1>2. \A i \in 1..(Reach - Through) : Through + i \in 1..Reach
  BY <1>1
<1>3. /\ NewDays \in Seq(SealedDays) /\ Len(NewDays) = Reach - Through
      /\ \A i \in 1..(Reach - Through) : NewDays[i] = Seal(Through + i)
  <2>1. \A i \in 1..(Reach - Through) : Seal(Through + i) \in SealedDays
    BY <1>2, SealType
  <2>2. Reach - Through \in Nat
    BY <1>1
  <2> QED BY <2>1, <2>2 DEF NewDays
<1> DEFINE days == record.days \o NewDays
<1>4. /\ days \in Seq(SealedDays) /\ Len(days) = Len(record.days) + Len(NewDays)
      /\ \A i \in 1..(Len(record.days) + Len(NewDays)) :
           days[i] = IF i <= Len(record.days) THEN record.days[i]
                     ELSE NewDays[i - Len(record.days)]
  BY <1>1, <1>3, ConcatProperties
<1> HIDE DEF days
<1>5. Len(days) = Reach
  BY <1>1, <1>3, <1>4
<1>6. \A d \in 1..Through : days[d] = record.days[d]
  BY <1>1, <1>3, <1>4
<1>7. ASSUME NEW d \in (Through + 1)..Reach PROVE days[d] = Seal(d)
  <2>1. d - Through \in 1..(Reach - Through) /\ Through + (d - Through) = d
    BY <1>1
  <2>2. days[d] = NewDays[d - Through]
    BY <1>1, <1>3, <1>4
  <2>3. NewDays[d - Through] = Seal(Through + (d - Through))
    BY <1>3, <2>1
  <2> QED BY <2>1, <2>2, <2>3
<1>8. SubSeq(days, 1, Through) = record.days
  <2>1. SubSeq(days, 1, Through) \in Seq(SealedDays) /\ Len(SubSeq(days, 1, Through)) = Through
        /\ \A i \in 1..Through : SubSeq(days, 1, Through)[i] = days[i]
    <3>1. \A i \in 1..Through : days[i] \in SealedDays
      BY <1>1, <1>6
    <3> QED BY <1>1, <3>1, SubSeqProperties
  <2> QED BY <1>1, <1>6, <2>1
<1> QED BY <1>4, <1>5, <1>6, <1>7, <1>8 DEF days

LEMMA NotContradicted ==
  ASSUME RecordTypeOK, ~HistoryChanged, Reach > 0
  PROVE  Reach >= Through
  BY RecordTyped, ReachDecided DEF HistoryChanged, Begun

LEMMA ExtendStep ==
  ASSUME RecordOK, Extend
  PROVE  RecordOK' /\ Ledger!Grow
<1> DEFINE days  == record.days \o NewDays
           fixed == [y \in Years |-> IF y \in NewYears THEN Inflation(y) ELSE record.fixed[y]]
<1>1. /\ ~Gap /\ ~Closed /\ Reach > 0 /\ ~HistoryChanged
      /\ record' = [days |-> days, fixed |-> fixed, seen |-> record.seen \cup Admitted,
                    at |-> today, verdict |-> Verdict(CoveredIn(days), Reach)]
      /\ outcome' = "APPENDED"
      /\ UNCHANGED <<bars, shown, supplement, snapshots, today, market, changes>>
  BY DEF Extend, Answers
<1>2. Reach >= Through
  BY <1>1, NotContradicted DEF RecordOK
<1>3. /\ days \in Seq(SealedDays) /\ Len(days) = Reach
      /\ \A d \in 1..Through : days[d] = record.days[d]
      /\ \A d \in (Through + 1)..Reach : days[d] = Seal(d)
      /\ SubSeq(days, 1, Through) = record.days
  BY <1>2, LongerDays DEF RecordOK
<1>4. /\ record'.days = days /\ record'.fixed = fixed /\ Through' = Reach
  BY <1>1, <1>3 DEF Through
<1>5. \A y \in Years : fixed[y] = IF y \in NewYears THEN Inflation(y) ELSE record.fixed[y]
  OBVIOUS
<1>6. fixed \in [Years -> {0} \cup Versions]
  BY UsableYears, RecordTyped DEF RecordOK, NewYears
<1>7. Reach \in Nat /\ Through \in Nat /\ Reach <= shown /\ shown \in Nat
  BY ReachDecided, RecordTyped DEF RecordOK
<1> HIDE DEF days, fixed
<1>8. RecordTypeOK'
  <2>1. Verdict(CoveredIn(days), Reach) \in Verdicts
    BY <1>7, VerdictType DEF RecordOK
  <2>2. record.seen \cup Admitted \in SUBSET Nat /\ today \in Nat
    BY RecordTyped DEF RecordOK, Admitted
  <2>3. record' \in [days : Seq(SealedDays), fixed : [Years -> {0} \cup Versions],
                     seen : SUBSET Nat, at : Nat, verdict : Verdicts]
    BY <1>1, <1>3, <1>6, <2>1, <2>2
  <2>4. Through' < today'
    BY <1>1, <1>4, <1>7, RecordTyped DEF RecordOK
  <2>5. outcome' \in Codes
    BY <1>1 DEF Codes
  <2> QED BY <1>1, <2>3, <2>4, <2>5 DEF RecordOK, RecordTypeOK
<1>9. \A y \in Years : y \in Usable => fixed[y] # 0 /\ fixed[y] = Inflation(y)
  <2> SUFFICES ASSUME NEW y \in Years, y \in Usable
               PROVE  fixed[y] # 0 /\ fixed[y] = Inflation(y)
    OBVIOUS
  <2>1. CASE record.fixed[y] = 0
    BY <1>5, <2>1, UsableYears DEF NewYears, Versions
  <2>2. CASE record.fixed[y] # 0
    BY <1>5, <2>2, FixedUsable DEF NewYears
  <2> QED BY <2>1, <2>2
<1>10. \A y \in Years : record.fixed[y] # 0 => fixed[y] = record.fixed[y]
  BY <1>5 DEF NewYears
<1>11. DecidedOnSealedInflation'
  <2> SUFFICES ASSUME NEW d \in 1..Reach
               PROVE  days[d].inflation = Behind(d, fixed)
    <3>1. \A d \in Days : Behind(d, record.fixed)' = Behind(d, fixed)
      BY <1>4 DEF Behind
    <3>2. \A d \in 1..Reach : d \in Days
      BY ReachDecided DEF RecordOK
    <3> QED BY <1>4, <3>1, <3>2 DEF DecidedOnSealedInflation
  <2>1. d \in Days /\ NeededYear[d] \in Years \cup {0}
    BY ReachDecided, UsableYears DEF RecordOK
  <2>2. CASE d <= Through
    <3>1. days[d].inflation = Behind(d, record.fixed)
      BY <1>3, <1>7, <2>2 DEF RecordOK, DecidedOnSealedInflation
    <3>2. NeededYear[d] # 0 => fixed[NeededYear[d]] = record.fixed[NeededYear[d]]
      BY <1>7, <1>10, <2>1, <2>2 DEF RecordOK, YearsSealed
    <3> QED BY <3>1, <3>2 DEF Behind
  <2>3. CASE d > Through
    <3>1. days[d].inflation = IF NeededYear[d] = 0 THEN 0 ELSE Inflation(NeededYear[d])
      BY <1>3, <1>7, <2>3, SealType DEF RecordOK
    <3>2. NeededYear[d] \in Usable \cup {0}
      BY SealType DEF RecordOK
    <3> QED BY <1>9, <2>1, <3>1, <3>2 DEF Behind
  <2> QED BY <1>7, <2>2, <2>3
<1>12. YearsSealed'
  <2>1. ASSUME NEW d \in 1..Reach, NeededYear[d] # 0 PROVE fixed[NeededYear[d]] # 0
    BY <1>9, <2>1, ReachDecided, UsableYears DEF RecordOK
  <2>2. ASSUME NEW y \in Years, fixed[y] # 0, NEW z \in 1..y PROVE fixed[z] # 0
    <3>1. z \in Years
      BY Plan DEF Years
    <3>2. CASE record.fixed[y] # 0
      BY <1>10, <3>1, <3>2 DEF RecordOK, YearsSealed
    <3>3. CASE record.fixed[y] = 0
      <4>1. y \in Usable
        BY <1>5, <2>2, <3>3 DEF NewYears
      <4>2. z \in Usable
        BY <1>1, <4>1 DEF Gap
      <4> QED BY <1>9, <3>1, <4>2
    <3> QED BY <3>2, <3>3
  <2> QED BY <1>4, <2>1, <2>2 DEF YearsSealed
<1>13. Ledger!Grow
  <2>1. Closed' \in BOOLEAN
    BY DEF Closed
  <2>2. Len(record'.days) >= Len(record.days)
    BY <1>2, <1>3, <1>4 DEF Through
  <2>3. SubSeq(record'.days, 1, Len(record.days)) = record.days
    BY <1>3, <1>4 DEF Through
  <2> QED BY <1>1, <2>1, <2>2, <2>3 DEF Ledger!Grow, Ledger!Extends
<1> QED BY <1>8, <1>11, <1>12, <1>13 DEF RecordOK

\* The record is left as it is.
LEMMA RecordKept ==
  ASSUME RecordOK, RecordTypeOK', UNCHANGED record
  PROVE  RecordOK'
  BY DEF RecordOK, DecidedOnSealedInflation, YearsSealed, Through, Behind

LEMMA OthersStep ==
  ASSUME RecordOK, Refuse \/ ReturnFinal \/ NothingNew \/ Report \/ DayEnds \/ Export \/ Capture
                   \/ Revise \/ Fetch \/ UNCHANGED recordVars
  PROVE  RecordTypeOK' /\ UNCHANGED record
<1> USE DEF RecordOK
<1>0. RecordTypeOK
  OBVIOUS
<1>1. /\ record' = record => Through' = Through
      /\ today \in Nat /\ shown \in Nat /\ LastDay \in Nat /\ snapshots \subseteq Nat
      /\ MaxChanges \in Nat
  BY Plan, RecordTyped, RecordConstants
     DEF Through, RecordAssumptions, ForwardPlanAssumption
<1> HIDE DEF RecordOK
<1>2. CASE Refuse \/ ReturnFinal \/ NothingNew \/ Report
  BY <1>0, <1>1, <1>2 DEF Refuse, ReturnFinal, NothingNew, Report, Answers, RecordTypeOK, Codes
<1>3. CASE UNCHANGED recordVars
  BY <1>0, <1>1, <1>3 DEF recordVars, RecordTypeOK
<1>4. CASE DayEnds
  <2>1. today' = today + 1 /\ today' \in 1..(LastDay + 1) /\ today <= today'
    BY <1>0, <1>1, <1>4 DEF DayEnds, RecordTypeOK
  <2>2. snapshots \subseteq 1..today' /\ Through < today' /\ shown < today'
    <3>1. Through \in Nat /\ Through < today /\ shown < today /\ snapshots \subseteq 1..today
      BY <1>0, RecordTyped DEF RecordTypeOK
    <3> QED BY <1>1, <2>1, <3>1
  <2> QED BY <1>0, <1>1, <1>4, <2>1, <2>2 DEF DayEnds, RecordTypeOK, Codes
<1>5. CASE Export
  BY <1>0, <1>1, <1>5 DEF Export, Changes, RecordTypeOK, Codes
<1>6. CASE Capture
  BY <1>0, <1>1, <1>6 DEF Capture, RecordTypeOK, Codes
<1>7. CASE Revise
  <2>1. bars' \in [Days -> Versions]
    <3>1. PICK d \in 1..(today - 1) : bars' = [bars EXCEPT ![d] = 3 - @]
      BY <1>7 DEF Revise
    <3>2. d \in Days /\ bars \in [Days -> {1, 2}]
      BY <1>0, <1>1 DEF RecordTypeOK, Days, Versions
    <3>3. 3 - bars[d] \in {1, 2}
      BY <3>2
    <3> QED BY <3>1, <3>2, <3>3 DEF Versions
  <2> QED BY <1>0, <1>1, <1>7, <2>1 DEF Revise, Changes, RecordTypeOK, Codes
<1>8. CASE Fetch
  <2>1. supplement' \in [Years -> {Absent, Partial} \cup Versions]
    BY <1>8, RecordConstants
       DEF Fetch, RecordAssumptions, InputsAssumption, Absent, Partial, Versions
  <2> QED BY <1>0, <1>1, <1>8, <2>1 DEF Fetch, Changes, RecordTypeOK, Codes
<1> QED BY <1>2, <1>3, <1>4, <1>5, <1>6, <1>7, <1>8

LEMMA RecordStep ==
  ASSUME RecordOK, [RecordNext]_recordVars
  PROVE  RecordOK' /\ (Ledger!Grow \/ UNCHANGED <<record, Closed>>)
<1>1. CASE Extend
  BY <1>1, ExtendStep
<1>2. CASE ~Extend
  BY <1>2, OthersStep, RecordKept DEF RecordNext, Closed
<1> QED BY <1>1, <1>2

LEMMA RecordStart == RecordInit => RecordOK /\ Ledger!Init
<1> SUFFICES ASSUME RecordInit PROVE RecordOK /\ Ledger!Init
  OBVIOUS
<1>1. record = NewRecord /\ Through = 0 /\ record.days = <<>> /\ ~Closed
      /\ record.fixed = [y \in Years |-> 0]
  BY DEF RecordInit, NewRecord, NoVerdict, Through, Closed
<1>2. record \in [days : Seq(SealedDays), fixed : [Years -> {0} \cup Versions],
                  seen : SUBSET Nat, at : Nat, verdict : Verdicts]
  BY <1>1 DEF NewRecord, NoVerdict, Verdicts
<1>3. supplement \in [Years -> {Absent, Partial} \cup Versions]
  BY RecordConstants
     DEF RecordInit, RecordAssumptions, InputsAssumption, Absent, Partial, Versions
<1>4. RecordTypeOK
  BY <1>1, <1>2, <1>3, Plan, RecordConstants
     DEF RecordInit, RecordTypeOK, Versions, Codes, RecordAssumptions, ForwardPlanAssumption
<1>5. DecidedOnSealedInflation /\ YearsSealed
  BY <1>1 DEF DecidedOnSealedInflation, YearsSealed
<1> QED BY <1>1, <1>4, <1>5 DEF RecordOK, Ledger!Init

LEMMA RecordAlways == RecordSpec => []RecordOK
<1> QED BY RecordStart, RecordStep, PTL DEF RecordSpec

\* The variables of the record keep their types, and no day is sealed before it
\* has ended.
THEOREM RecordTypes == RecordSpec => []RecordTypeOK
<1>1. RecordOK => RecordTypeOK
  BY DEF RecordOK
<1> QED BY <1>1, RecordAlways, PTL

\* Every sealed day's book was decided on the inflation the record seals.
THEOREM SealedInflation == RecordSpec => []DecidedOnSealedInflation
<1>1. RecordOK => DecidedOnSealedInflation
  BY DEF RecordOK
<1> QED BY <1>1, RecordAlways, PTL

\* The tracker's record implements the append-only ledger: no run changes,
\* drops or reorders a sealed day, or extends a closed record.
THEOREM AppendOnly == RecordSpec => RecordIsAppendOnly
<1>1. RecordOK /\ [RecordNext]_recordVars => [Ledger!Grow]_<<record.days, Closed>>
  BY RecordStep
<1> QED BY <1>1, RecordStart, RecordAlways, PTL DEF RecordSpec, RecordIsAppendOnly, Ledger!Spec

-----------------------------------------------------------------------------
(* Who can contradict the record.                                          *)

\* A sealed day is within the reach of every run whose exports hold it.
LEMMA SealedReached ==
  ASSUME RecordOK, shown >= Through
  PROVE  Reach >= Through
<1>1. \A r \in Waiting : r > Through
  <2> SUFFICES ASSUME NEW r \in Waiting, r <= Through PROVE FALSE
    BY Plan, RecordTyped DEF RecordOK, Waiting, Days
  <2>1. r \in Days /\ r \in 1..Through /\ NeededYear[r] \notin Usable \cup {0}
    BY Plan, RecordTyped DEF RecordOK, Waiting, Days
  <2>2. NeededYear[r] \in Years /\ record.fixed[NeededYear[r]] # 0
    BY <2>1, Plan DEF RecordOK, YearsSealed, Years
  <2> QED BY <2>1, <2>2, FixedUsable
<1>2. CASE Waiting = {}
  BY <1>2 DEF Reach
<1>3. CASE Waiting # {}
  <2>1. Waiting \in SUBSET Nat
    BY Plan DEF Waiting, Days
  <2>2. Min(Waiting) \in Waiting /\ Min(Waiting) \in Nat
    BY <1>3, <2>1, Least
  <2>3. Reach = Min(Waiting) - 1
    BY <1>3 DEF Reach
  <2> QED BY <1>1, <2>2, <2>3, RecordTyped DEF RecordOK
<1> QED BY <1>2, <1>3

LEMMA ContradictedByBars ==
  ASSUME RecordOK, shown >= Through, \A d \in 1..Through : bars[d] = record.days[d].bars
  PROVE  ~HistoryChanged /\ \A d \in 1..Through : Rebuilt(d) = Value(record.days[d])
<1>1. ASSUME NEW d \in 1..Through
      PROVE  Recomputed(d) = Value(record.days[d]) /\ Rebuilt(d) = Value(record.days[d])
  <2>1. /\ Recomputed(d).inflation = record.days[d].inflation
        /\ Rebuilt(d).inflation = record.days[d].inflation
    BY RecomputedSealed
  <2>2. bars[d] = record.days[d].bars
    OBVIOUS
  <2> QED BY <2>1, <2>2 DEF Recomputed, Rebuilt, Value
<1> QED BY <1>1, SealedReached, ReachDecided, RecordTyped
        DEF RecordOK, HistoryChanged, Reproduced

LEMMA OutcomeStep ==
  ASSUME RecordOK, OnlyBarsContradict, [RecordNext]_recordVars
  PROVE  OnlyBarsContradict'
<1>1. CASE UNCHANGED recordVars
  BY <1>1 DEF recordVars, OnlyBarsContradict, Through
<1>2. CASE Refuse \/ Report
  <2>1. UNCHANGED <<record, shown, bars>> /\ Through' = Through
    BY <1>2 DEF Refuse, Report, Answers, Through
  <2>2. outcome' \in {"FORWARD_HISTORY_CHANGED", "RECORD_MISMATCH"} =>
          HistoryChanged \/ \E d \in 1..Through : Rebuilt(d) # Value(record.days[d])
    BY <1>2 DEF Refuse, Report, Answers
  <2>3. shown \in Nat /\ Through \in Nat
    BY RecordTyped DEF RecordOK
  <2> QED BY <2>1, <2>2, <2>3, ContradictedByBars DEF OnlyBarsContradict
<1>3. CASE ~(Refuse \/ Report \/ UNCHANGED recordVars)
  <2>1. outcome' \notin {"FORWARD_HISTORY_CHANGED", "RECORD_MISMATCH"}
    BY <1>3 DEF RecordNext, ReturnFinal, Extend, NothingNew, Answers, DayEnds, Export, Changes,
       Capture, Revise, Fetch
  <2> QED BY <2>1 DEF OnlyBarsContradict
<1> QED BY <1>1, <1>2, <1>3

\* Only the broker's bars can contradict the record: no download of inflation
\* makes a run refuse it as changed, or the report as not its own.
THEOREM BarsContradict == RecordSpec => []OnlyBarsContradict
<1>1. RecordInit => OnlyBarsContradict
  BY DEF RecordInit, OnlyBarsContradict
<1>2. RecordOK /\ OnlyBarsContradict /\ [RecordNext]_recordVars => OnlyBarsContradict'
  BY OutcomeStep
<1> QED BY <1>1, <1>2, RecordAlways, PTL DEF RecordSpec

-----------------------------------------------------------------------------
(* The verdict and the schedule.                                           *)

\* Two readings of the coverage agree on the days up to one.
AgreeUpTo(c1, c2, through) == \A d \in Days : d <= through => (d \in c1 <=> d \in c2)

\* Due looks read the coverage of sealed days only.
LEMMA SameVerdict ==
  ASSUME NEW c1, NEW c2, NEW through \in Nat, AgreeUpTo(c1, c2, through)
  PROVE  Verdict(c1, through) = Verdict(c2, through)
<1>1. ASSUME NEW i \in Due(through)
      PROVE  LookVerdict(i, c1, through) = LookVerdict(i, c2, through)
  <2>1. \A d \in Days : d < LookDays[i] => d <= through
    BY Plan DEF Due
  <2>2. {d \in Days : d < LookDays[i]} \cap c1 = {d \in Days : d < LookDays[i]} \cap c2
    BY <2>1 DEF AgreeUpTo
  <2>3. SwapConfirms(c1, LookDays[i]) = SwapConfirms(c2, LookDays[i])
    BY <2>2 DEF SwapConfirms
  <2> QED BY <2>3 DEF LookVerdict
<1>2. {i \in Due(through) : LookVerdict(i, c1, through) # NoVerdict}
        = {i \in Due(through) : LookVerdict(i, c2, through) # NoVerdict}
  BY <1>1
<1>3. \A S : S = {i \in Due(through) : LookVerdict(i, c1, through) # NoVerdict} /\ S # {}
              => LookVerdict(Min(S), c1, through) = LookVerdict(Min(S), c2, through)
  <2> SUFFICES ASSUME NEW S, S = {i \in Due(through) : LookVerdict(i, c1, through) # NoVerdict},
                      S # {}
               PROVE  LookVerdict(Min(S), c1, through) = LookVerdict(Min(S), c2, through)
    OBVIOUS
  <2>1. S \in SUBSET Nat /\ S \subseteq Due(through)
    BY Plan DEF Due
  <2>2. Min(S) \in Due(through)
    BY <2>1, Least
  <2> QED BY <1>1, <2>2
<1> QED BY <1>2, <1>3 DEF Verdict

\* A look that was due decides later what it decided then.
LEMMA LookSettled ==
  ASSUME RecordTypeOK, NEW C, NEW e \in Nat, NEW f \in Nat, e <= f, NEW i \in Due(e)
  PROVE  i \in Due(f) /\ LookVerdict(i, C, f) = LookVerdict(i, C, e)
<1>1. LookDays[i] \in Nat /\ LookDays[i] <= e + 1 /\ i \in Looks /\ market.breach \in Nat
  BY Plan, RecordTyped DEF Due
<1>2. BreachedBefore(LookDays[i], f) <=> BreachedBefore(LookDays[i], e)
  BY <1>1 DEF BreachedBefore
<1>3. i \in Due(f)
  BY <1>1 DEF Due
<1> QED BY <1>2, <1>3 DEF LookVerdict

Deciding(C, through) == {i \in Due(through) : LookVerdict(i, C, through) # NoVerdict}

LEMMA DecidingType ==
  ASSUME NEW C, NEW through
  PROVE  /\ Deciding(C, through) \in SUBSET Nat /\ Deciding(C, through) \subseteq Looks
         /\ Verdict(C, through) =
              IF Deciding(C, through) # {}
              THEN LookVerdict(Min(Deciding(C, through)), C, through)
              ELSE IF market.breach <= through
                   THEN [status |-> "ABANDONED_DRAWDOWN", on |-> market.breach]
              ELSE IF Due(through) = Looks
                   THEN [status |-> "ENDED_WITHOUT_CONFIRMATION",
                         on |-> LookDays[Len(LookDays)]]
              ELSE NoVerdict
  BY Plan DEF Deciding, Due, Verdict

\* The looks of the days after e come after those before.
LEMMA LaterLooks ==
  ASSUME NEW e \in Nat, NEW i \in Looks \ Due(e), NEW j \in Due(e)
  PROVE  LookDays[i] > e + 1 /\ j < i
<1>1. LookDays[i] \in Nat /\ LookDays[j] \in Nat /\ LookDays[i] > e + 1 /\ LookDays[j] <= e + 1
      /\ i \in Nat /\ j \in Nat /\ j \in Looks
  BY Plan DEF Due
<1>2. i < j => LookDays[i] < LookDays[j]
  BY <1>1, RecordConstants DEF RecordAssumptions, ForwardPlanAssumption
<1> QED BY <1>1, <1>2

\* Later a verdict is the same, or the end of the looks has given way to a breach.
LEMMA VerdictSettled ==
  ASSUME RecordTypeOK, NEW C, NEW e \in Nat, NEW f \in Nat, e <= f,
         Verdict(C, e) # NoVerdict
  PROVE  \/ Verdict(C, f) = Verdict(C, e)
         \/ /\ Verdict(C, e).status = "ENDED_WITHOUT_CONFIRMATION"
            /\ market.breach \in LookDays[Len(LookDays)]..f
            /\ Verdict(C, f) = [status |-> "ABANDONED_DRAWDOWN", on |-> market.breach]
<1> DEFINE De == Deciding(C, e)
           Df == Deciding(C, f)
<1>0. market.breach \in Nat
  BY RecordTyped
<1>1. De \subseteq Df /\ \A i \in Df : i \in Due(e) => i \in De
  BY LookSettled DEF Deciding
<1>2. \A i \in Df \ De : i \in Looks \ Due(e)
  BY <1>1, DecidingType
<1>3. De \in SUBSET Nat /\ Df \in SUBSET Nat /\ De \subseteq Due(e)
  BY DecidingType DEF Deciding
<1>4. CASE De # {}
  <2>1. Min(De) \in De /\ \A i \in De : Min(De) <= i
    BY <1>3, <1>4, Least
  <2>2. Min(Df) \in Df /\ \A i \in Df : Min(Df) <= i
    BY <1>1, <1>3, <1>4, Least
  <2>3. \A i \in Df \ De : Min(De) < i
    BY <1>2, <1>3, <2>1, LaterLooks
  <2>4. Min(Df) = Min(De)
    <3>1. Min(De) \in Df /\ Min(De) \in Nat /\ Min(Df) \in Nat
      BY <1>1, <1>3, <2>1, <2>2
    <3>2. Min(Df) <= Min(De)
      BY <2>2, <3>1
    <3>3. Min(Df) \in De
      BY <2>2, <2>3, <3>1, <3>2
    <3> QED BY <2>1, <3>1, <3>2, <3>3
  <2>5. LookVerdict(Min(De), C, f) = LookVerdict(Min(De), C, e)
    BY <1>3, <2>1, LookSettled
  <2>6. Verdict(C, e) = LookVerdict(Min(De), C, e)
    BY <1>4, DecidingType
  <2>7. Verdict(C, f) = LookVerdict(Min(Df), C, f)
    BY <1>1, <1>4, DecidingType
  <2> QED BY <2>4, <2>5, <2>6, <2>7
<1>5. CASE De = {} /\ market.breach <= e
  <2>1. Verdict(C, e) = [status |-> "ABANDONED_DRAWDOWN", on |-> market.breach]
    BY <1>5, DecidingType
  <2>2. CASE Df = {}
    BY <1>0, <1>5, <2>1, <2>2, DecidingType
  <2>3. CASE Df # {}
    <3>1. Min(Df) \in Df
      BY <1>3, <2>3, Least
    <3>2. Min(Df) \in Looks \ Due(e)
      BY <1>2, <1>5, <3>1
    <3>3. LookDays[Min(Df)] > e + 1
      BY <3>2, Plan DEF Due
    <3>4. BreachedBefore(LookDays[Min(Df)], f)
      BY <1>0, <1>5, <3>2, <3>3, Plan DEF BreachedBefore
    <3>5. LookVerdict(Min(Df), C, f) = [status |-> "ABANDONED_DRAWDOWN", on |-> market.breach]
      BY <3>4 DEF LookVerdict
    <3> QED BY <2>1, <2>3, <3>5, DecidingType
  <2> QED BY <2>2, <2>3
<1>6. CASE De = {} /\ ~(market.breach <= e)
  <2>1. Due(e) = Looks /\ Verdict(C, e) = [status |-> "ENDED_WITHOUT_CONFIRMATION",
                                           on |-> LookDays[Len(LookDays)]]
    BY <1>6, DecidingType
  <2>2. Due(f) = Looks /\ Df = {}
    <3>1. Due(f) = Looks
      BY <2>1, LookSettled DEF Due
    <3> QED BY <1>2, <1>6, <2>1, <3>1
  <2>3. CASE market.breach <= f
    <3>1. Len(LookDays) \in Due(e)
      BY <2>1, Plan
    <3>2. LookDays[Len(LookDays)] \in Nat /\ LookDays[Len(LookDays)] <= market.breach
      BY <1>0, <1>6, <3>1, Plan DEF Due
    <3>3. Verdict(C, f) = [status |-> "ABANDONED_DRAWDOWN", on |-> market.breach]
      BY <2>2, <2>3, DecidingType
    <3> QED BY <1>0, <2>1, <2>3, <3>2, <3>3
  <2>4. CASE ~(market.breach <= f)
    BY <2>1, <2>2, <2>4, DecidingType
  <2> QED BY <2>3, <2>4
<1> QED BY <1>4, <1>5, <1>6

\* The admitted snapshots are all there are, the sealed coverage is what it would
\* be with all of them, and the verdict is the rule's at the last sealed day.
ScheduleOK ==
  /\ record.at <= today /\ snapshots \subseteq Admitted
  /\ \A d \in 1..Through : record.days[d].covered <=> CoveredBy(d, snapshots)
  /\ record.verdict = IF Through = 0 THEN NoVerdict ELSE Verdict(EverCovered, Through)

LEMMA ScheduleKept ==
  ASSUME RecordOK, ScheduleOK, UNCHANGED <<record, market>>, today' \in Nat, today <= today',
         \/ snapshots' = snapshots
         \/ snapshots' = snapshots \cup {today}
  PROVE  ScheduleOK'
<1>1. /\ Through \in Nat /\ Through < today /\ Through' = Through /\ today \in Nat
      /\ record.at \in Nat /\ snapshots \subseteq Nat
  BY RecordTyped DEF RecordOK, Through
<1>2. record'.at <= today' /\ snapshots' \subseteq Admitted'
  <2>1. \A c \in snapshots : c >= record.at \/ c \in record.seen
    BY DEF ScheduleOK, Admitted
  <2>2. record.at <= today /\ record' = record
    BY DEF ScheduleOK
  <2>3. \A c \in snapshots' : c >= record.at \/ c \in record.seen
    BY <1>1, <2>1, <2>2
  <2> QED BY <1>1, <2>2, <2>3 DEF Admitted
<1>3. \A d \in Nat : d < today => (CoveredBy(d, snapshots)' <=> CoveredBy(d, snapshots))
  <2> SUFFICES ASSUME NEW d \in Nat, d < today
               PROVE  (\E c \in snapshots' : c < d /\ d - c <= SnapshotAge)
                        <=> (\E c \in snapshots : c < d /\ d - c <= SnapshotAge)
    BY DEF CoveredBy
  <2>1. ~(today < d)
    BY <1>1
  <2> QED BY <2>1
<1>4. \A d \in 1..Through' : record'.days[d].covered <=> CoveredBy(d, snapshots)'
  BY <1>1, <1>3 DEF ScheduleOK
<1>5. AgreeUpTo(EverCovered', EverCovered, Through)
  BY <1>1, <1>3, Plan DEF AgreeUpTo, EverCovered
<1>6. Verdict(EverCovered, Through)' = Verdict(EverCovered', Through)
  BY <1>1 DEF Verdict, Due, LookVerdict, BreachedBefore, SwapConfirms
<1>7. Verdict(EverCovered', Through) = Verdict(EverCovered, Through)
  BY <1>1, <1>5, SameVerdict
<1> QED BY <1>1, <1>2, <1>4, <1>6, <1>7 DEF ScheduleOK

LEMMA ScheduleExtend ==
  ASSUME RecordOK, ScheduleOK, Extend
  PROVE  ScheduleOK'
<1> DEFINE days == record.days \o NewDays
<1>1. /\ Reach > 0 /\ ~HistoryChanged /\ record'.days = days /\ record'.at = today
      /\ record'.seen = record.seen \cup Admitted
      /\ record'.verdict = Verdict(CoveredIn(days), Reach)
      /\ UNCHANGED <<snapshots, today, market>>
  BY DEF Extend, Answers
<1>2. Reach >= Through /\ Reach \in Nat /\ Through \in Nat /\ today \in Nat
  BY <1>1, NotContradicted, ReachDecided, RecordTyped DEF RecordOK
<1>3. /\ days \in Seq(SealedDays) /\ Len(days) = Reach
      /\ \A d \in 1..Through : days[d] = record.days[d]
      /\ \A d \in (Through + 1)..Reach : days[d] = Seal(d)
  BY <1>2, LongerDays DEF RecordOK
<1> HIDE DEF days
<1>4. Through' = Reach
  BY <1>1, <1>3 DEF Through
<1>5. Admitted = snapshots
  BY DEF ScheduleOK, Admitted
<1>6. \A d \in 1..Reach : days[d].covered <=> CoveredBy(d, snapshots)
  <2> SUFFICES ASSUME NEW d \in 1..Reach PROVE days[d].covered <=> CoveredBy(d, snapshots)
    OBVIOUS
  <2>1. CASE d <= Through
    BY <1>2, <1>3, <2>1 DEF ScheduleOK
  <2>2. CASE d > Through
    <3>1. days[d] = Seal(d)
      BY <1>2, <1>3, <2>2
    <3>2. Seal(d).covered = CoveredBy(d, Admitted)
      BY DEF Seal
    <3> QED BY <1>5, <3>1, <3>2
  <2> QED BY <1>2, <2>1, <2>2
<1>7. DOMAIN days = 1..Reach
  BY <1>2, <1>3
<1>8. AgreeUpTo(CoveredIn(days), EverCovered, Reach)
  BY <1>2, <1>6, <1>7, Plan DEF AgreeUpTo, CoveredIn, EverCovered, Days
<1>9. Verdict(CoveredIn(days), Reach) = Verdict(EverCovered, Reach)
  BY <1>2, <1>8, SameVerdict
<1>10. EverCovered' = EverCovered
  BY <1>1 DEF EverCovered, CoveredBy
<1>11. Verdict(EverCovered, Through)' = Verdict(EverCovered, Reach)
  <2>1. market' = market
    BY <1>1
  <2>2. Verdict(EverCovered, Through)' = Verdict(EverCovered', Through')
    BY ONLY <2>1 DEF Verdict, Due, LookVerdict, BreachedBefore, SwapConfirms
  <2> QED BY <1>4, <1>10, <2>2
<1>12. record'.verdict = Verdict(EverCovered, Through)'
  BY <1>1, <1>9, <1>11
<1>13. snapshots' \subseteq Admitted'
  BY <1>1, <1>5 DEF Admitted
<1>14. \A d \in 1..Through' : record'.days[d].covered <=> CoveredBy(d, snapshots)'
  BY <1>1, <1>4, <1>6 DEF CoveredBy
<1> QED BY <1>1, <1>2, <1>4, <1>12, <1>13, <1>14 DEF ScheduleOK

LEMMA ScheduleStep ==
  ASSUME RecordOK, ScheduleOK, [RecordNext]_recordVars
  PROVE  ScheduleOK'
<1>1. CASE Extend
  BY <1>1, ScheduleExtend
<1>2. CASE ~Extend
  <2>1. UNCHANGED record
    BY <1>2, OthersStep DEF RecordNext
  <2>2. /\ UNCHANGED market
        /\ snapshots' = snapshots \/ snapshots' = snapshots \cup {today}
        /\ today' = today \/ today' = today + 1
    BY <1>2 DEF RecordNext, recordVars, Refuse, ReturnFinal, NothingNew, Report, Answers, DayEnds,
       Export, Capture, Revise, Fetch
  <2>3. today' \in Nat /\ today <= today'
    BY <2>2, RecordTyped DEF RecordOK
  <2> QED BY <2>1, <2>2, <2>3, ScheduleKept
<1> QED BY <1>1, <1>2

LEMMA ScheduleStart == RecordInit => ScheduleOK
<1> SUFFICES ASSUME RecordInit PROVE ScheduleOK
  OBVIOUS
<1>1. Through = 0 /\ record.verdict = NoVerdict /\ record.at = 0 /\ today = 1 /\ snapshots = {}
  BY DEF RecordInit, NewRecord, Through
<1> QED BY <1>1 DEF ScheduleOK

LEMMA ScheduleDecides ==
  ASSUME RecordOK, ScheduleOK
  PROVE  VerdictIndependentOfSchedule
<1> DEFINE ends == {d \in 1..Through : Verdict(EverCovered, d) # NoVerdict}
<1>1. Through \in Nat /\ RecordTypeOK /\ ends \in SUBSET Nat
  BY RecordTyped DEF RecordOK
<1>2. DailyVerdict(Through)
        = IF ends = {} THEN NoVerdict ELSE Verdict(EverCovered, Min(ends))
  BY DEF DailyVerdict
<1>3. CASE Through = 0
  BY <1>2, <1>3 DEF ScheduleOK, VerdictIndependentOfSchedule
<1>4. CASE Through # 0 /\ ends = {}
  <2>1. Through \in 1..Through
    BY <1>1, <1>4
  <2>2. Verdict(EverCovered, Through) = NoVerdict
    BY <1>4, <2>1
  <2> QED BY <1>2, <1>4, <2>2 DEF ScheduleOK, VerdictIndependentOfSchedule
<1>5. CASE Through # 0 /\ ends # {}
  <2> DEFINE e == Min(ends)
  <2>1. e \in ends
    BY <1>1, <1>5, Least
  <2>2. e \in Nat /\ e <= Through /\ Verdict(EverCovered, e) # NoVerdict
    BY <1>1, <2>1
  <2>3. DailyVerdict(Through) = Verdict(EverCovered, e)
    BY <1>2, <1>5
  <2> HIDE DEF e
  <2>4. record.verdict = Verdict(EverCovered, Through)
    BY <1>5 DEF ScheduleOK
  <2> QED BY <1>1, <2>2, <2>3, <2>4, VerdictSettled
          DEF VerdictIndependentOfSchedule, BreachAfterLastLook
<1> QED BY <1>3, <1>4, <1>5

\* For every rule, every market and every schedule of runs, exports, captures and
\* downloads, the record's verdict is the one a run at the end of each day would
\* have stopped at; a breach after the last look is the one exception.
THEOREM ScheduleFree == RecordSpec => []VerdictIndependentOfSchedule
<1>1. RecordOK /\ ScheduleOK => VerdictIndependentOfSchedule
  BY ScheduleDecides
<1> QED BY <1>1, ScheduleStart, ScheduleStep, RecordAlways, PTL DEF RecordSpec
=============================================================================
