--------------------------- MODULE ForwardRecord ---------------------------
(***************************************************************************)
(* The record of the forward paper tracking (research/daily_fx/forward.py, *)
(* forward_trades.py, trial_registry.py).  Each run of the tracker seals   *)
(* the complete days since the last one, with the broker's bars, the       *)
(* inflation and the swap terms it saw, and applies the predeclared rule   *)
(* to everything sealed.  The operator runs it when he likes; in between   *)
(* the broker revises bars, exports come out short, the World Bank         *)
(* publishes, withdraws and revises years.                                 *)
(*                                                                         *)
(* Days are counted from the forward start.  What the book earns is        *)
(* abstracted to what the rule asks of it: the day the drawdown reaches    *)
(* its limit, where the t of each look lies, what the swap leaves of each  *)
(* day.  One run is one step: ForwardRoutine interleaves several.          *)
(***************************************************************************)
EXTENDS Integers, Sequences, FiniteSets, FiniteSetsExt

CONSTANTS
  LastDay,        \* bound: forward days
  LastYear,       \* bound: inflation years after the pinned base
  NeededYear,     \* the year the signal of each day's book needs, 0 in the base
  Rebalances,     \* days on which the book is decided anew
  LookDays,       \* the day of each look of the rule
  FutilityFrom,   \* rule.futility_from_look
  MinCoverage,    \* rule.min_swap_coverage, in percent
  SnapshotAge,    \* plan.swap_max_age_days
  Markets,        \* what the rule may find: breach, t per look, swap per day
  CaptureDays,    \* days on which the operator may capture swap terms
  Downloads,      \* inflation files the World Bank may hand out
  MaxChanges      \* bound: revisions, short exports, downloads

Days  == 1..LastDay
Years == 1..LastYear
Looks == DOMAIN LookDays

ASSUME ForwardPlanAssumption ==
  /\ LastDay \in Nat /\ LastYear \in Nat /\ LookDays \in Seq(Nat \ {0}) /\ Len(LookDays) > 0
  /\ \A i, j \in Looks : i < j => LookDays[i] < LookDays[j]
  /\ NeededYear \in [Days -> 0..LastYear] /\ Rebalances \subseteq Days
  /\ \A d \in Days : d \notin Rebalances =>
       IF d = 1 THEN NeededYear[d] = 0 ELSE NeededYear[d] = NeededYear[d - 1]
  /\ {FutilityFrom, MinCoverage, SnapshotAge, MaxChanges} \subseteq Nat
ASSUME InputsAssumption ==
  /\ CaptureDays \subseteq Nat
  /\ Downloads \subseteq [Years -> {-1, 0, 1, 2}]
  /\ Markets \subseteq [breach : Nat \ {0}, t : [Looks -> {"above", "between", "below"}],
                       swap : [Days -> Int]]

VARIABLES
  record,      \* the ledger's checkpoints, flattened
  bars,        \* the version of each day's bars the broker shows
  shown,       \* the last day the exports on disk have of every pair
  supplement,  \* the inflation download written last
  snapshots,   \* the days on which swap terms were captured
  today,       \* the day in progress
  outcome,     \* what the last run of tracker or report answered
  market,      \* constant: what the rule finds
  changes

recordVars == <<record, bars, shown, supplement, snapshots, today, outcome, market, changes>>

\* A year absent from a download, or without a value of every series.
Absent  == -1
Partial == 0
Versions == {1, 2}

NoVerdict == [status |-> "ONGOING", on |-> 0]
NewRecord == [days |-> <<>>, fixed |-> [y \in Years |-> 0], seen |-> {}, at |-> 0,
              verdict |-> NoVerdict]

RecordInit ==
  /\ record = NewRecord /\ bars = [d \in Days |-> 1] /\ shown = 0
  /\ supplement \in Downloads /\ snapshots = {} /\ today = 1
  /\ outcome = "none" /\ market \in Markets /\ changes = 0

Through == Len(record.days)
Closed  == record.verdict.status # "ONGOING"

-----------------------------------------------------------------------------
(* The decision rule.                                                      *)

\* Mutant of BreachedBefore: a breach seen in the same run as an earlier look
\* comes first.
BreachedBeforeSeen(day, through) == market.breach <= through

\* _drawdown_breach, and its comparison with the day of a look.
BreachedBefore(day, through) == market.breach <= through /\ market.breach < day

\* Coverage and total of the swap-adjusted returns before the day of a look.
SwapConfirms(covered, day) ==
  LET window == {d \in Days : d < day}
      known  == window \cap covered
  IN  /\ 100 * Cardinality(known) >= MinCoverage * Cardinality(window)
      /\ known # {} /\ MapThenSumSet(LAMBDA d : market.swap[d], known) > 0

\* What a look decides, if anything.
LookVerdict(i, covered, through) ==
  CASE BreachedBefore(LookDays[i], through)
         -> [status |-> "ABANDONED_DRAWDOWN", on |-> market.breach]
    [] ~BreachedBefore(LookDays[i], through) /\ market.t[i] = "above"
         /\ SwapConfirms(covered, LookDays[i])
         -> [status |-> "CONFIRMED", on |-> LookDays[i]]
    [] ~BreachedBefore(LookDays[i], through) /\ market.t[i] = "below" /\ i >= FutilityFrom
         -> [status |-> "ABANDONED_FUTILITY", on |-> LookDays[i]]
    [] OTHER -> NoVerdict

\* The looks whose whole window is sealed.
Due(through) == {i \in Looks : LookDays[i] <= through + 1}

\* rule_status: the first look that decides; else a breach after the last look;
\* else the end of the looks.
Verdict(covered, through) ==
  LET deciding == {i \in Due(through) : LookVerdict(i, covered, through) # NoVerdict}
  IN  IF deciding # {} THEN LookVerdict(Min(deciding), covered, through)
      ELSE IF market.breach <= through
           THEN [status |-> "ABANDONED_DRAWDOWN", on |-> market.breach]
      ELSE IF Due(through) = Looks
           THEN [status |-> "ENDED_WITHOUT_CONFIRMATION", on |-> LookDays[Len(LookDays)]]
      ELSE NoVerdict

-----------------------------------------------------------------------------
(* The inputs of a run.                                                    *)

\* Mutant of Inflation: a year is taken as the last download has it.
InflationLatest(y) == IF supplement[y] \in Versions THEN supplement[y] ELSE record.fixed[y]

\* assemble_inflation: a year is fixed as it was first seen.
Inflation(y) == IF record.fixed[y] # 0 THEN record.fixed[y] ELSE supplement[y]

Listed == {y \in Years : record.fixed[y] # 0 \/ supplement[y] # Absent}
Usable == {y \in Listed : \A z \in Listed : z <= y => Inflation(z) \in Versions}
Gap    == \E y \in Usable : 1..y \ Usable # {}

\* The record stops before the first rebalance whose year is missing.
Waiting == {r \in Rebalances : r <= shown /\ NeededYear[r] \notin Usable \cup {0}}
Reach   == IF Waiting = {} THEN shown ELSE Min(Waiting) - 1

\* The inflation behind a day's return.
Behind(d, table) == IF NeededYear[d] = 0 THEN 0 ELSE table[NeededYear[d]]
Recomputed(d) == [bars |-> bars[d], inflation |-> Behind(d, [y \in Years |-> Inflation(y)])]

\* A snapshot claiming to predate the last checkpoint counts if that one saw it.
Admitted == {c \in snapshots : c >= record.at \/ c \in record.seen}

\* _swap_rates: the latest snapshot captured before the day began, if fresh.
CoveredBy(d, stamps) == \E c \in stamps : c < d /\ d - c <= SnapshotAge

Seal(d) == [bars |-> bars[d], inflation |-> Recomputed(d).inflation,
            covered |-> CoveredBy(d, Admitted)]
NewDays == [i \in 1..(Reach - Through) |-> Seal(Through + i)]
NewYears == {y \in Usable : record.fixed[y] = 0}

CoveredIn(days) == {d \in DOMAIN days : days[d].covered}
Value(sealed) == [bars |-> sealed.bars, inflation |-> sealed.inflation]
Reproduced == \A d \in 1..Through : Recomputed(d) = Value(record.days[d])

-----------------------------------------------------------------------------
(* The runs.                                                               *)

Answers(code) == outcome' = code /\ UNCHANGED <<bars, shown, supplement, snapshots, today,
                                                market, changes>>

\* No checkpoint yet, and not one complete day: nothing is appended.
Begun == Through > 0

\* The history on disk no longer holds the record.
HistoryChanged == Begun /\ (Reach < Through \/ ~Reproduced)

\* run_forward refuses: nothing is appended.
Refuse ==
  /\ shown > 0 /\ UNCHANGED record
  /\ \/ Gap /\ Answers("INFLATION_GAP")
     \/ ~Gap /\ ~Closed /\ HistoryChanged /\ Answers("FORWARD_HISTORY_CHANGED")

\* A final status is returned as it is.
ReturnFinal == shown > 0 /\ ~Gap /\ Closed /\ Answers("CLOSED") /\ UNCHANGED record

\* Mutant of Extend: the days since the last checkpoint, one of them again.
ExtendTwice ==
  /\ shown > 0 /\ ~Gap /\ ~Closed /\ ~HistoryChanged
  /\ Reach > 0 /\ (Reach > Through \/ NewYears # {}) /\ Answers("APPENDED")
  /\ LET days == IF Begun THEN record.days \o <<record.days[Through]>> \o NewDays ELSE NewDays
     IN  record' = [days |-> days,
                    fixed |-> [y \in Years |-> IF y \in NewYears THEN Inflation(y)
                                               ELSE record.fixed[y]],
                    seen |-> record.seen \cup Admitted, at |-> today,
                    verdict |-> Verdict(CoveredIn(days), Reach)]

\* Mutant of Extend: a final status does not end the record.
ExtendFinal ==
  /\ shown > 0 /\ ~Gap /\ ~HistoryChanged
  /\ Reach > 0 /\ (Reach > Through \/ NewYears # {}) /\ Answers("APPENDED")
  /\ LET days == record.days \o NewDays
     IN  record' = [record EXCEPT !.days = days, !.verdict = Verdict(CoveredIn(days), Reach)]

\* run_forward appends a checkpoint when there are new days or new years.
Extend ==
  /\ shown > 0 /\ ~Gap /\ ~Closed /\ ~HistoryChanged
  /\ Reach > 0 /\ (Reach > Through \/ NewYears # {}) /\ Answers("APPENDED")
  /\ LET days == record.days \o NewDays
     IN  record' = [days |-> days,
                    fixed |-> [y \in Years |-> IF y \in NewYears THEN Inflation(y)
                                               ELSE record.fixed[y]],
                    seen |-> record.seen \cup Admitted, at |-> today,
                    verdict |-> Verdict(CoveredIn(days), Reach)]

NothingNew ==
  /\ shown > 0 /\ ~Gap /\ ~Closed /\ ~HistoryChanged
  /\ ~(Reach > 0 /\ (Reach > Through \/ NewYears # {}))
  /\ Answers("NOTHING_NEW") /\ UNCHANGED record

\* rebuild_trades: the book of the record, from the record's own inflation.
Rebuilt(d) == [bars |-> bars[d], inflation |-> Behind(d, record.fixed)]
Report ==
  /\ Begun /\ UNCHANGED record
  /\ \/ shown < Through /\ Answers("PRICES_SHORTER_THAN_RECORD")
     \/ /\ shown >= Through /\ \E d \in 1..Through : Rebuilt(d) # Value(record.days[d])
        /\ Answers("RECORD_MISMATCH")
     \/ /\ shown >= Through /\ \A d \in 1..Through : Rebuilt(d) = Value(record.days[d])
        /\ Answers("REPORTED")

-----------------------------------------------------------------------------
(* Operator, broker and World Bank.                                        *)

Changes == changes < MaxChanges /\ changes' = changes + 1 /\ outcome' = "none"

DayEnds ==
  /\ today <= LastDay /\ today' = today + 1 /\ outcome' = "none"
  /\ UNCHANGED <<record, bars, shown, supplement, snapshots, market, changes>>

\* export-history: everything, or a pair that ends early.
Export ==
  /\ \/ shown' = today - 1 /\ outcome' = "none" /\ UNCHANGED changes
     \/ shown' \in 0..(today - 2) /\ Changes
  /\ UNCHANGED <<record, bars, supplement, snapshots, today, market>>

\* capture-swap-snapshot.
Capture ==
  /\ today \in CaptureDays \ snapshots /\ snapshots' = snapshots \cup {today} /\ outcome' = "none"
  /\ UNCHANGED <<record, bars, shown, supplement, today, market, changes>>

Revise ==
  /\ Changes /\ \E d \in 1..(today - 1) : bars' = [bars EXCEPT ![d] = 3 - @]
  /\ UNCHANGED <<record, shown, supplement, snapshots, today, market>>

\* fetch-inflation, or a download by hand.
Fetch ==
  /\ Changes /\ supplement' \in Downloads
  /\ UNCHANGED <<record, bars, shown, snapshots, today, market>>

RecordNext ==
  \/ Refuse \/ ReturnFinal \/ Extend \/ NothingNew \/ Report
  \/ DayEnds \/ Export \/ Capture \/ Revise \/ Fetch

RecordSpec == RecordInit /\ [][RecordNext]_recordVars

-----------------------------------------------------------------------------
(* Properties.                                                             *)

Verdicts == [status : {"ONGOING", "CONFIRMED", "ABANDONED_FUTILITY", "ABANDONED_DRAWDOWN",
                       "ENDED_WITHOUT_CONFIRMATION"}, on : Nat]
SealedDays == [bars : Versions, inflation : {0} \cup Versions, covered : BOOLEAN]
Codes == {"none", "INFLATION_GAP", "FORWARD_HISTORY_CHANGED", "CLOSED", "APPENDED",
          "NOTHING_NEW", "PRICES_SHORTER_THAN_RECORD", "RECORD_MISMATCH", "REPORTED"}

\* Every variable of the record has its type; no day is sealed before it ends.
RecordTypeOK ==
  /\ record \in [days : Seq(SealedDays), fixed : [Years -> {0} \cup Versions],
                 seen : SUBSET Nat, at : Nat, verdict : Verdicts]
  /\ Through < today
  /\ bars \in [Days -> Versions] /\ shown \in Nat /\ shown < today
  /\ supplement \in [Years -> {Absent, Partial} \cup Versions]
  /\ snapshots \subseteq 1..today /\ today \in 1..(LastDay + 1)
  /\ outcome \in Codes /\ market \in Markets /\ changes \in 0..MaxChanges

\* The covered days there would be without the rule on admitted snapshots.
EverCovered == {d \in Days : CoveredBy(d, snapshots)}

\* The verdict a reader who ran the rule at the end of every day would have
\* stopped at.
DailyVerdict(through) ==
  LET ends == {d \in 1..through : Verdict(EverCovered, d) # NoVerdict}
  IN  IF ends = {} THEN NoVerdict ELSE Verdict(EverCovered, Min(ends))

\* After the last look has been passed without a decision, a breach that the same
\* late run seals replaces the end of the looks.
BreachAfterLastLook(through) ==
  /\ market.breach \in LookDays[Len(LookDays)]..through
  /\ DailyVerdict(through).status = "ENDED_WITHOUT_CONFIRMATION"
  /\ record.verdict = [status |-> "ABANDONED_DRAWDOWN", on |-> market.breach]

\* The verdict does not depend on when the operator runs the tracker ("a late run
\* chooses nothing"): skipping runs, failing exports, waiting for inflation
\* neither hurry, delay nor change it once the days are sealed, but for a breach
\* after the last look.
VerdictIndependentOfSchedule ==
  record.verdict = DailyVerdict(Through) \/ BreachAfterLastLook(Through)

\* Only the broker can contradict the record: no revision or withdrawal of an
\* inflation year ever makes it refuse as changed history or mismatch.
OnlyBarsContradict ==
  outcome \in {"FORWARD_HISTORY_CHANGED", "RECORD_MISMATCH"} =>
    shown < Through \/ \E d \in 1..Through : bars[d] # record.days[d].bars

\* No day is sealed with a book decided on inflation that was not sealed with
\* it or before.
DecidedOnSealedInflation ==
  \A d \in 1..Through : record.days[d].inflation = Behind(d, record.fixed)

Ledger == INSTANCE AppendOnlyRecord WITH entries <- record.days, final <- Closed

\* The record is an append-only one: sealed days stay as they are, new ones come
\* after them, and a final verdict ends it ("A final status is never extended",
\* forward.py:65).
RecordIsAppendOnly == Ledger!Spec
=============================================================================
