----------------------- MODULE PaperPosition_proofs -----------------------
(***************************************************************************)
(* What is proved of PaperPosition for every market, spread, protection    *)
(* distance, cost, volume lattice and management parameter: the types, and *)
(* the position's promises from one inductive invariant.                   *)
(***************************************************************************)
EXTENDS PaperPosition, TLAPS

(* Arithmetic.                                                             *)

\* More lots of a larger loss cost at least as much.
LEMMA ScaledLoss ==
  ASSUME NEW lot \in Nat, NEW a \in Int, NEW b \in Int, a <= b
  PROVE  lot * a <= lot * b
  OBVIOUS

\* A trigger and a risk that are not negative multiply to a threshold that a
\* fresh position, whose excursion is zero, cannot have passed.
LEMMA ThresholdNotPassed ==
  ASSUME NEW trigger \in Nat, NEW risk \in Nat
  PROVE  ~(10 * 0 > trigger * risk)
  OBVIOUS

-----------------------------------------------------------------------------
(* Types.                                                                  *)

Assumptions == /\ MarketAssumption /\ CostAssumption /\ DistanceAssumption
               /\ LotAssumption /\ ManagementAssumption

LEMMA ConstantsHold == Assumptions
  BY MarketAssumption, CostAssumption, DistanceAssumption, LotAssumption,
     ManagementAssumption DEF Assumptions

QuoteOK == quote \in [bid : Nat, ask : Nat]

LEMMA NothingTypes == NoTrade \in Trades /\ NoExit \in Exits
<1>1. {} \in SUBSET Triggers
  OBVIOUS
<1> QED BY <1>1 DEF NoTrade, NoExit, Trades, Exits, Reasons, Buy

\* The prices derived from a trade and a quote are whole ticks.
LEMMA PriceTypes ==
  ASSUME Assumptions, QuoteOK, NEW t \in Trades
  PROVE  /\ Mark(t.side) \in Int /\ Excursion(t) \in Int /\ InitialRisk(t) \in Int
         /\ Trail(t) \in Int /\ ManagedStop(t) \in Int /\ StopBase(t) \in Int
<1>1. /\ t.side \in {1, -1} /\ t.entry \in Int /\ t.sl0 \in Int /\ t.sl \in Int
      /\ t.mfe \in Nat /\ TrailDistanceTenths \in Nat
  BY DEF Trades, Buy, Sell, Assumptions, ManagementAssumption
<1>2. Mark(t.side) \in Int
  BY DEF QuoteOK, Mark
<1>3. Excursion(t) \in Int /\ InitialRisk(t) \in Int
  BY <1>1, <1>2 DEF Excursion, InitialRisk
<1>4. Trail(t) \in Int
  <2> DEFINE r == InitialRisk(t)
  <2>1. TrailDistanceTenths * r \in Int
    BY <1>1, <1>3
  <2> DEFINE gap == TrailDistanceTenths * r
  <2>2. (10 * t.mfe - gap) \div 10 \in Int
    <3> HIDE DEF gap
    <3> QED BY <1>1, <2>1 DEF gap
  <2> DEFINE whole == (10 * t.mfe - gap) \div 10
  <2>3. t.entry + t.side * whole \in Int
    <3> HIDE DEF whole
    <3> QED BY <1>1, <2>2 DEF whole
  <2> QED BY <2>3 DEF Trail
<1>5. ManagedStop(t) \in Int
  BY <1>1, <1>4 DEF ManagedStop, Tighter
<1>6. StopBase(t) \in Int
  BY <1>1, <1>2 DEF StopBase, Worse
<1> QED BY <1>2, <1>3, <1>4, <1>5, <1>6

\* An open trade made of whole ticks is a trade.
LEMMA OpenTradeType ==
  ASSUME NEW side \in {Buy, Sell}, NEW entry \in Int, NEW sl \in Int, NEW tp \in Int,
         NEW budget \in Int, NEW ties \in SUBSET Triggers
  PROVE  [status |-> "open", side |-> side, entry |-> entry, sl0 |-> sl, sl |-> sl, tp |-> tp,
          mfe |-> 0, lot |-> 0, budget |-> budget, ties |-> ties, exit |-> 0,
          reason |-> ""] \in Trades
  BY DEF Trades, Reasons

\* A candidate is a well-formed open trade whose excursion is still zero.
LEMMA CandidateType ==
  ASSUME Assumptions, QuoteOK, NEW side \in {Buy, Sell}, NEW d \in Distances,
         NEW a \in Approvals, NEW ties \in SUBSET Triggers
  PROVE  Candidate(side, d, a, ties) \in Trades
<1>1. d \in Nat /\ a \in Nat /\ RewardTenths \in Nat /\ SlipTicks \in Nat /\ side \in {1, -1}
  BY DEF Assumptions, DistanceAssumption, LotAssumption, CostAssumption, Buy, Sell
<1>2. d \div 10 \in Nat
  BY <1>1
<1>3. (d * RewardTenths) \div 100 \in Nat
  <2>1. d * RewardTenths \in Nat
    BY <1>1
  <2> DEFINE product == d * RewardTenths
  <2> HIDE DEF product
  <2>2. product \div 100 \in Nat
    BY <2>1 DEF product
  <2> QED BY <2>2 DEF product
<1>4. Reference(side) \in Int
  BY DEF QuoteOK, Reference
<1> DEFINE stop == d \div 10
           reward == (d * RewardTenths) \div 100
           ref == Reference(side)
<1>5. /\ ref + side * SlipTicks \in Int /\ ref - side * stop \in Int
      /\ ref + side * reward \in Int /\ a * stop \in Int
  <2> HIDE DEF stop, reward, ref
  <2>1. stop \in Nat /\ reward \in Nat /\ ref \in Int
    BY <1>2, <1>3, <1>4 DEF stop, reward, ref
  <2> QED BY <1>1, <2>1
<1>6. Candidate(side, d, a, ties) =
        [status |-> "open", side |-> side, entry |-> ref + side * SlipTicks,
         sl0 |-> ref - side * stop, sl |-> ref - side * stop, tp |-> ref + side * reward,
         mfe |-> 0, lot |-> 0, budget |-> a * stop, ties |-> ties, exit |-> 0, reason |-> ""]
  BY DEF Candidate, EntryFill
<1> HIDE DEF stop, reward, ref
<1>7. [status |-> "open", side |-> side, entry |-> ref + side * SlipTicks,
       sl0 |-> ref - side * stop, sl |-> ref - side * stop, tp |-> ref + side * reward,
       mfe |-> 0, lot |-> 0, budget |-> a * stop, ties |-> ties, exit |-> 0, reason |-> ""]
        \in Trades
  BY <1>5, OpenTradeType, Zenon
<1> QED BY <1>6, <1>7, Zenon

\* Recording the best excursion keeps the trade a trade.
LEMMA SeenType ==
  ASSUME Assumptions, QuoteOK, row \in Trades
  PROVE  Seen \in Trades
<1>1. Excursion(row) \in Int /\ row.mfe \in Nat
  BY PriceTypes DEF Trades
<1>2. CASE Excursion(row) > row.mfe
  <2>1. Seen = [row EXCEPT !.mfe = Excursion(row)] /\ Excursion(row) \in Nat
    BY <1>1, <1>2 DEF Seen
  <2> QED BY <2>1 DEF Trades
<1>3. CASE ~(Excursion(row) > row.mfe)
  <2>1. Seen = [row EXCEPT !.mfe = row.mfe]
    BY <1>3 DEF Seen
  <2> QED BY <2>1 DEF Trades
<1> QED BY <1>2, <1>3

\* The types of the constants and variables are kept by every step.
LEMMA TypeStep ==
  ASSUME Assumptions, TypeOK, [Next]_vars
  PROVE  TypeOK'
<1>q. QuoteOK
  BY DEF TypeOK, QuoteOK
<1>n. NoTrade \in Trades /\ NoExit \in Exits
  BY NothingTypes
<1>1. CASE NewQuote
  <2>1. quote' \in [bid : Nat, ask : Nat]
    BY <1>1 DEF NewQuote, Assumptions, MarketAssumption
  <2> QED BY <1>1, <2>1 DEF NewQuote, TypeOK, Goto
<1>2. CASE Manage
  <2>1. row \in Trades
    BY DEF TypeOK
  <2>2. Seen \in Trades
    BY <1>q, <2>1, SeenType
  <2>3. ManagedStop(Seen) \in Int
    BY <1>q, <2>2, PriceTypes
  <2>4. Managed \in Trades
    BY <2>1, <2>2, <2>3 DEF Managed, Tighter, Trades
  <2> QED BY <1>2, <2>1, <2>4 DEF Manage, TypeOK, Goto
<1>3. CASE NothingOpen
  BY <1>3 DEF NothingOpen, TypeOK, Goto
<1>4. CASE Judge
  <2>1. StopBase(held) \in Int /\ Mark(held.side) \in Int /\ held.tp \in Int
    BY <1>q, PriceTypes DEF TypeOK, Trades
  <2>2. ASSUME NEW reason \in {"SL", "BREAK_EVEN", "TP", "TIME_STOP"}, NEW base \in Int,
               CloseFor(reason, base)
        PROVE  exit' \in Exits /\ row' = row /\ held' = held /\ pc' = "close"
    BY <2>2 DEF CloseFor, Goto, Exits, Reasons
  <2>3. \/ exit' \in Exits /\ row' = row /\ held' = held /\ pc' = "close"
        \/ row' = held /\ held' = NoTrade /\ exit' = NoExit /\ pc' = "mark"
    <3>1. \/ StopHit /\ CloseFor(IF held.side * held.sl >= held.side * held.entry
                                 THEN "BREAK_EVEN" ELSE "SL", StopBase(held))
          \/ CloseFor("TP", held.tp)
          \/ CloseFor("TIME_STOP", Mark(held.side))
          \/ row' = held /\ Forget /\ Goto("mark")
      BY <1>4 DEF Judge
    <3> QED BY <2>1, <2>2, <3>1 DEF Forget, Goto
  <2>4. UNCHANGED <<quote, exitMark>>
    BY <1>4 DEF Judge
  <2> QED BY <1>n, <2>3, <2>4 DEF TypeOK
<1>5. CASE Close
  <2>1. Mark(held.side) \in Int /\ held \in Trades /\ exit.base \in Int
    <3>1. held \in Trades /\ exit \in Exits
      BY DEF TypeOK
    <3> QED BY <1>q, <3>1, PriceTypes DEF Exits
  <2>2. ExitFill(held.side, exit.base) \in Int
    <3>1. held.side \in {1, -1} /\ SlipTicks \in Nat
      BY <2>1 DEF Trades, Buy, Sell, Assumptions, CostAssumption
    <3> QED BY <2>1, <3>1 DEF ExitFill
  <2> DEFINE price == ExitFill(held.side, exit.base)
             closed == [held EXCEPT !.status = "closed", !.exit = price, !.reason = exit.reason]
  <2>3. closed \in Trades
    <3> HIDE DEF price
    <3>1. exit.reason \in Reasons /\ price \in Int
      BY <2>2 DEF TypeOK, Exits, price
    <3> QED BY <2>1, <3>1 DEF Trades
  <2>4. /\ \/ row' = closed /\ exitMark' = Mark(held.side) /\ pc' = "mark"
           \/ row' = row /\ exitMark' = exitMark /\ pc' = "halted"
        /\ held' = NoTrade /\ exit' = NoExit /\ quote' = quote
    BY <1>5 DEF Close, Forget, Goto
  <2> HIDE DEF closed
  <2> QED BY <1>n, <2>1, <2>3, <2>4 DEF TypeOK
<1>6. CASE MarkBook
  BY <1>6 DEF MarkBook, TypeOK, Goto, NoQuote
<1>7. CASE Open
  <2> SUFFICES ASSUME NEW side \in {Buy, Sell}, NEW d \in Distances, NEW a \in Approvals,
                      NEW ties \in SUBSET Triggers,
                      NEW v \in Affordable(Candidate(side, d, a, ties), a),
                      row' = [Candidate(side, d, a, ties) EXCEPT !.lot = v],
                      pc' = "mark"
               PROVE  row' \in Trades
    BY <1>7 DEF Open, Goto, TypeOK
  <2>1. v \in Nat
    BY DEF Affordable, Volumes, Assumptions, LotAssumption
  <2>2. Candidate(side, d, a, ties) \in Trades
    BY <1>q, CandidateType
  <2> QED BY <2>1, <2>2 DEF Trades
<1>8. CASE Fails
  BY <1>8, <1>n DEF Fails, Forget, TypeOK, Goto
<1>9. CASE UNCHANGED vars
  BY <1>9 DEF vars, TypeOK
<1> QED BY <1>1, <1>2, <1>3, <1>4, <1>5, <1>6, <1>7, <1>8, <1>9 DEF Next

\* Every variable has its type in every reachable state.
THEOREM TypeCorrect == Spec => []TypeOK
<1>1. Init => TypeOK
  BY NothingTypes DEF Init, TypeOK, NoQuote
<1>2. Assumptions /\ TypeOK /\ [Next]_vars => TypeOK'
  BY TypeStep
<1> QED BY <1>1, <1>2, ConstantsHold, PTL DEF Spec

-----------------------------------------------------------------------------
(* The inductive invariant.  None of the promises is inductive alone: a    *)
(* close needs what was true of the trade when it was opened and when its  *)
(* stop last moved, both in the row and in the copy an update holds.       *)

\* The protections embrace the entry, the stop has not loosened since the fill
\* and the volume fits the budget.
Sound(t) ==
  /\ t.side * t.sl0 < t.side * t.entry /\ t.side * t.entry < t.side * t.tp
  /\ t.side * t.sl0 <= t.side * t.sl
  /\ t.lot * RiskPerLot(t) <= t.budget

\* The stop is where the excursion has earned it.
Follows(t) ==
  /\ 10 * t.mfe > BreakEvenTenths * InitialRisk(t) => t.side * t.sl >= t.side * t.entry
  /\ 10 * t.mfe > TrailStartTenths * InitialRisk(t) => t.side * t.sl >= t.side * Trail(t)

RowSound == row.status = "open" => Sound(row) /\ Follows(row)

\* The copy in memory is the trade of the row with a stop at least as tight.
HeldSound ==
  pc \in {"judge", "close"} =>
    /\ row.status = "open" /\ held.status = "open" /\ held.side = row.side
    /\ Sound(held) /\ Follows(held)
    /\ row.side * row.sl <= row.side * held.sl

\* The base of an exit is never better than the market, and never beyond the
\* initial stop unless the market is.
ExitSound ==
  pc = "close" =>
    /\ held.side * exit.base <= held.side * Mark(held.side)
    /\ held.side * Mark(held.side) >= held.side * held.sl0
         => held.side * exit.base >= held.side * held.sl0

QuoteOrdered == quote.bid <= quote.ask
NothingYet   == pc = "candidate" => row.status = "none"

IInv ==
  /\ TypeOK /\ RowSound /\ HeldSound /\ ExitSound /\ QuoteOrdered /\ NothingYet
  /\ ExitNeverBetterThanMarket /\ LossWithinBudget /\ LedgerCanMark

-----------------------------------------------------------------------------
(* Lemmas about stops.                                                     *)

LEMMA TighterIs ==
  ASSUME NEW side \in {1, -1}, NEW a \in Int, NEW b \in Int
  PROVE  /\ Tighter(side, a, b) \in Int
         /\ side * Tighter(side, a, b) >= side * a
         /\ side * Tighter(side, a, b) >= side * b
<1>1. CASE side = 1
  BY <1>1 DEF Tighter
<1>2. CASE side = -1
  BY <1>2 DEF Tighter
<1> QED BY <1>1, <1>2

LEMMA WorseIs ==
  ASSUME NEW side \in {1, -1}, NEW a \in Int, NEW b \in Int
  PROVE  /\ Worse(side, a, b) \in {a, b}
         /\ side * Worse(side, a, b) <= side * b
<1>1. CASE side = 1
  BY <1>1 DEF Worse
<1>2. CASE side = -1
  BY <1>2 DEF Worse
<1> QED BY <1>1, <1>2

\* An integer on the same side of a third one as a tighter stop is reached.
LEMMA SideTransitive ==
  ASSUME NEW side \in {1, -1}, NEW a \in Int, NEW b \in Int, NEW c \in Int,
         side * a >= side * b, side * b >= side * c
  PROVE  side * a >= side * c
<1>1. CASE side = 1
  BY <1>1
<1>2. CASE side = -1
  BY <1>2
<1> QED BY <1>1, <1>2

\* _managed_stop follows the excursion.
LEMMA ManagedStopFollows ==
  ASSUME Assumptions, QuoteOK, NEW t \in Trades
  PROVE  /\ 10 * t.mfe > BreakEvenTenths * InitialRisk(t)
              => t.side * ManagedStop(t) >= t.side * t.entry
         /\ 10 * t.mfe > TrailStartTenths * InitialRisk(t)
              => t.side * ManagedStop(t) >= t.side * Trail(t)
<1> DEFINE atLeast == IF Reached(t, BreakEvenTenths) THEN Tighter(t.side, t.sl, t.entry) ELSE t.sl
<1>1. t.side \in {1, -1} /\ t.sl \in Int /\ t.entry \in Int /\ Trail(t) \in Int
  BY PriceTypes DEF Trades, Buy, Sell
<1>2. atLeast \in Int
  BY <1>1, TighterIs
<1>3. 10 * t.mfe > BreakEvenTenths * InitialRisk(t) => t.side * atLeast >= t.side * t.entry
  BY <1>1, TighterIs DEF Reached
<1>4. ManagedStop(t) = IF Reached(t, TrailStartTenths)
                       THEN Tighter(t.side, atLeast, Trail(t)) ELSE atLeast
  BY DEF ManagedStop
<1> HIDE DEF atLeast
<1>5. /\ Tighter(t.side, atLeast, Trail(t)) \in Int
      /\ t.side * Tighter(t.side, atLeast, Trail(t)) >= t.side * atLeast
      /\ t.side * Tighter(t.side, atLeast, Trail(t)) >= t.side * Trail(t)
  BY <1>1, <1>2, TighterIs
<1>6. 10 * t.mfe > TrailStartTenths * InitialRisk(t) => Reached(t, TrailStartTenths)
  BY DEF Reached
<1>7. 10 * t.mfe > BreakEvenTenths * InitialRisk(t)
        => t.side * ManagedStop(t) >= t.side * t.entry
  <2> SUFFICES ASSUME 10 * t.mfe > BreakEvenTenths * InitialRisk(t)
               PROVE  t.side * ManagedStop(t) >= t.side * t.entry
    OBVIOUS
  <2>1. CASE Reached(t, TrailStartTenths)
    BY <2>1, <1>1, <1>2, <1>3, <1>4, <1>5, SideTransitive
  <2>2. CASE ~Reached(t, TrailStartTenths)
    BY <2>2, <1>3, <1>4
  <2> QED BY <2>1, <2>2
<1> QED BY <1>4, <1>5, <1>6, <1>7

\* What managing a sound position leaves: the same trade, sound, its stop
\* following the excursion and at least as tight.
LEMMA ManagedIsSound ==
  ASSUME Assumptions, QuoteOK, row \in Trades, Seen \in Trades, Sound(row)
  PROVE  /\ Sound(Managed) /\ Follows(Managed)
         /\ Managed.status = row.status /\ Managed.side = row.side
         /\ row.side * row.sl <= row.side * Managed.sl
<1> DEFINE m == Managed
           stop == ManagedStop(Seen)
<1>1. /\ Seen.status = row.status /\ Seen.side = row.side /\ Seen.entry = row.entry
      /\ Seen.sl0 = row.sl0 /\ Seen.sl = row.sl /\ Seen.tp = row.tp /\ Seen.lot = row.lot
      /\ Seen.budget = row.budget
  BY DEF Seen, Trades
<1>2. /\ m.status = Seen.status /\ m.side = Seen.side /\ m.entry = Seen.entry
      /\ m.sl0 = Seen.sl0 /\ m.tp = Seen.tp /\ m.lot = Seen.lot /\ m.budget = Seen.budget
      /\ m.mfe = Seen.mfe /\ m.sl = Tighter(row.side, row.sl, stop)
  BY DEF Managed, Trades
<1>3. /\ row.side \in {1, -1} /\ row.sl \in Int /\ row.sl0 \in Int /\ row.entry \in Int
      /\ stop \in Int
  BY PriceTypes DEF Trades, Buy, Sell
<1> HIDE DEF m, stop
<1>4. m.sl \in Int /\ row.side * m.sl >= row.side * row.sl /\ row.side * m.sl >= row.side * stop
  BY <1>2, <1>3, TighterIs
<1>5. InitialRisk(m) = InitialRisk(Seen) /\ Trail(m) = Trail(Seen) /\ Trail(Seen) \in Int
  BY <1>2, PriceTypes DEF InitialRisk, Trail
<1>6. Sound(m)
  <2>1. row.side * m.sl >= row.side * row.sl0
    BY <1>3, <1>4, SideTransitive DEF Sound
  <2>2. RiskPerLot(m) = RiskPerLot(row)
    BY <1>1, <1>2 DEF RiskPerLot, InitialRisk
  <2> QED BY <1>1, <1>2, <1>3, <1>4, <2>1, <2>2 DEF Sound
<1>7. Follows(m)
  <2>1. /\ 10 * Seen.mfe > BreakEvenTenths * InitialRisk(Seen)
             => row.side * stop >= row.side * row.entry
        /\ 10 * Seen.mfe > TrailStartTenths * InitialRisk(Seen)
             => row.side * stop >= row.side * Trail(Seen)
    BY <1>1, ManagedStopFollows DEF stop
  <2>2. 10 * Seen.mfe > BreakEvenTenths * InitialRisk(Seen)
          => row.side * m.sl >= row.side * row.entry
    BY <1>3, <1>4, <2>1, SideTransitive
  <2>3. 10 * Seen.mfe > TrailStartTenths * InitialRisk(Seen)
          => row.side * m.sl >= row.side * Trail(Seen)
    BY <1>3, <1>4, <1>5, <2>1, SideTransitive
  <2> QED BY <1>1, <1>2, <1>5, <2>2, <2>3 DEF Follows
<1> QED BY <1>1, <1>2, <1>4, <1>6, <1>7 DEF m

-----------------------------------------------------------------------------
(* One lemma per action that touches the position.                         *)

LEMMA ManageStep ==
  ASSUME Assumptions, IInv, TypeOK', Manage
  PROVE  IInv'
<1>1. /\ row \in Trades /\ held' \in Trades /\ QuoteOK /\ held' = Managed
      /\ row.status = "open" /\ pc' = "judge" /\ quote' = quote
      /\ row' = held' \/ row' = row
  BY DEF IInv, TypeOK, QuoteOK, Manage, Goto
<1>2. Seen \in Trades
  BY <1>1, SeenType
<1>3. /\ Sound(held') /\ Follows(held') /\ held'.status = row.status
      /\ held'.side = row.side /\ row.side * row.sl <= row.side * held'.sl
  BY <1>1, <1>2, ManagedIsSound DEF IInv, RowSound
<1>4. row.side * row.sl \in Int /\ held'.side * held'.sl \in Int
  BY <1>1 DEF Trades, Buy, Sell
<1>5. RowSound'
  BY <1>1, <1>3 DEF RowSound, IInv
<1>6. HeldSound'
  BY <1>1, <1>3, <1>4 DEF HeldSound
<1>7. ExitNeverBetterThanMarket' /\ LossWithinBudget'
  BY <1>1, <1>3 DEF ExitNeverBetterThanMarket, LossWithinBudget
<1>8. ExitSound' /\ QuoteOrdered' /\ NothingYet' /\ LedgerCanMark'
  BY <1>1 DEF ExitSound, QuoteOrdered, NothingYet, LedgerCanMark, IInv
<1> QED BY <1>5, <1>6, <1>7, <1>8 DEF IInv

LEMMA JudgeStep ==
  ASSUME Assumptions, IInv, TypeOK', Judge
  PROVE  IInv'
<1>1. /\ held \in Trades /\ QuoteOK /\ pc = "judge" /\ row.status = "open"
      /\ held.status = "open" /\ held.side = row.side /\ Sound(held) /\ Follows(held)
      /\ row.side * row.sl <= row.side * held.sl
      /\ quote' = quote /\ exitMark' = exitMark
  BY DEF IInv, TypeOK, QuoteOK, Judge, HeldSound
<1>2. /\ held.side \in {1, -1} /\ held.sl \in Int /\ held.sl0 \in Int /\ held.tp \in Int
      /\ held.entry \in Int /\ Mark(held.side) \in Int
  BY <1>1, PriceTypes DEF Trades, Buy, Sell
<1>3. QuoteOrdered'
  BY <1>1 DEF QuoteOrdered, IInv
<1>4. ASSUME NEW reason, NEW base \in Int, CloseFor(reason, base),
             held.side * base <= held.side * Mark(held.side),
             held.side * Mark(held.side) >= held.side * held.sl0
               => held.side * base >= held.side * held.sl0
      PROVE  IInv'
  <2>1. row' = row /\ held' = held /\ pc' = "close" /\ exit'.base = base
    BY <1>4 DEF CloseFor, Goto
  <2>2. Mark(held.side)' = Mark(held.side)
    BY <1>1, <2>1 DEF Mark
  <2>3. ExitSound'
    BY <1>4, <2>1, <2>2 DEF ExitSound
  <2>4. HeldSound'
    BY <1>1, <2>1 DEF HeldSound
  <2>5. RowSound' /\ NothingYet' /\ LedgerCanMark'
    BY <2>1 DEF IInv, RowSound, NothingYet, LedgerCanMark
  <2>6. ExitNeverBetterThanMarket' /\ LossWithinBudget'
    BY <1>1, <2>1 DEF ExitNeverBetterThanMarket, LossWithinBudget
  <2> QED BY <1>3, <2>3, <2>4, <2>5, <2>6 DEF IInv
<1>5. CASE /\ StopHit
           /\ CloseFor(IF held.side * held.sl >= held.side * held.entry
                       THEN "BREAK_EVEN" ELSE "SL", StopBase(held))
  <2>1. /\ StopBase(held) \in {held.sl, Mark(held.side)}
        /\ held.side * StopBase(held) <= held.side * Mark(held.side)
    BY <1>2, WorseIs DEF StopBase
  <2>2. held.side * held.sl0 <= held.side * held.sl
    BY <1>1 DEF Sound
  <2>3. held.side * Mark(held.side) >= held.side * held.sl0
          => held.side * StopBase(held) >= held.side * held.sl0
    BY <1>2, <2>1, <2>2
  <2> QED BY <1>2, <1>4, <1>5, <2>1, <2>3
<1>6. CASE TargetHit /\ CloseFor("TP", held.tp)
  <2>1. held.side * held.tp <= held.side * Mark(held.side)
    BY <1>2, <1>6 DEF TargetHit
  <2>2. held.side * held.tp >= held.side * held.sl0
    <3>1. CASE held.side = 1
      BY <1>1, <1>2, <3>1 DEF Sound
    <3>2. CASE held.side = -1
      BY <1>1, <1>2, <3>2 DEF Sound
    <3> QED BY <1>2, <3>1, <3>2
  <2> QED BY <1>2, <1>4, <1>6, <2>1, <2>2
<1>7. CASE CloseFor("TIME_STOP", Mark(held.side))
  <2>1. held.side * Mark(held.side) \in Int
    BY <1>2
  <2> QED BY <1>2, <1>4, <1>7, <2>1
<1>8. CASE ~StopHit /\ ~TargetHit /\ row' = held /\ Forget /\ Goto("mark")
  <2>1. Inside(held)
    <3>1. CASE held.side = 1
      BY <1>2, <1>8, <3>1 DEF Inside, StopHit, TargetHit
    <3>2. CASE held.side = -1
      BY <1>2, <1>8, <3>2 DEF Inside, StopHit, TargetHit
    <3> QED BY <1>2, <3>1, <3>2
  <2>2. LedgerCanMark'
    BY <1>1, <1>8, <2>1 DEF LedgerCanMark, Inside, Mark
  <2>3. RowSound' /\ HeldSound' /\ ExitSound' /\ NothingYet'
    BY <1>1, <1>8 DEF RowSound, HeldSound, ExitSound, NothingYet, Goto
  <2>4. ExitNeverBetterThanMarket' /\ LossWithinBudget'
    BY <1>1, <1>8 DEF ExitNeverBetterThanMarket, LossWithinBudget
  <2> QED BY <1>3, <2>2, <2>3, <2>4 DEF IInv
<1> QED BY <1>5, <1>6, <1>7, <1>8 DEF Judge

LEMMA CloseStep ==
  ASSUME Assumptions, IInv, TypeOK', Close
  PROVE  IInv'
<1> DEFINE price == ExitFill(held.side, exit.base)
           closed == [held EXCEPT !.status = "closed", !.exit = price, !.reason = exit.reason]
<1>1. /\ held \in Trades /\ exit.base \in Int /\ QuoteOK /\ pc = "close"
      /\ row.status = "open" /\ Sound(held) /\ quote' = quote
  BY DEF IInv, TypeOK, QuoteOK, Close, HeldSound, Exits
<1>2. /\ held.side \in {1, -1} /\ held.sl0 \in Int /\ held.entry \in Int /\ held.lot \in Nat
      /\ Mark(held.side) \in Int /\ SlipTicks \in Nat /\ Commission \in Nat
      /\ held.budget \in Int
  BY <1>1, PriceTypes DEF Trades, Buy, Sell, Assumptions, CostAssumption
<1>3. \/ row' = closed /\ exitMark' = Mark(held.side) /\ pc' = "mark"
      \/ row' = row /\ pc' = "halted" /\ exitMark' = exitMark
  BY DEF Close, Goto
<1>4. QuoteOrdered'
  BY <1>1 DEF QuoteOrdered, IInv
<1>5. CASE row' = row /\ pc' = "halted" /\ exitMark' = exitMark
  <2>1. RowSound' /\ HeldSound' /\ ExitSound' /\ NothingYet' /\ LedgerCanMark'
    BY <1>5 DEF IInv, RowSound, HeldSound, ExitSound, NothingYet, LedgerCanMark
  <2>2. ExitNeverBetterThanMarket' /\ LossWithinBudget'
    BY <1>1, <1>5 DEF ExitNeverBetterThanMarket, LossWithinBudget
  <2> QED BY <1>4, <2>1, <2>2 DEF IInv
<1>6. CASE row' = closed /\ exitMark' = Mark(held.side) /\ pc' = "mark"
  <2>1. /\ closed.status = "closed" /\ closed.side = held.side /\ closed.exit = price
        /\ closed.entry = held.entry /\ closed.sl0 = held.sl0 /\ closed.lot = held.lot
        /\ closed.budget = held.budget
    BY <1>1 DEF Trades
  <2>2. price = exit.base - held.side * SlipTicks
    BY DEF ExitFill
  <2> HIDE DEF closed, price
  <2>3. /\ price \in Int
        /\ held.side * price = held.side * exit.base - SlipTicks
    <3>1. CASE held.side = 1
      BY <1>1, <1>2, <2>2, <3>1
    <3>2. CASE held.side = -1
      BY <1>1, <1>2, <2>2, <3>2
    <3> QED BY <1>2, <3>1, <3>2
  <2>4. /\ held.side * exit.base <= held.side * Mark(held.side)
        /\ held.side * Mark(held.side) >= held.side * held.sl0
             => held.side * exit.base >= held.side * held.sl0
    BY <1>1 DEF IInv, ExitSound
  <2>5. ExitNeverBetterThanMarket'
    <3>1. /\ held.side * price \in Int /\ held.side * exit.base \in Int
          /\ held.side * Mark(held.side) \in Int
      BY <1>1, <1>2, <2>3
    <3>2. held.side * price <= held.side * Mark(held.side) - SlipTicks
      BY <1>2, <2>3, <2>4, <3>1
    <3> QED BY <1>6, <2>1, <3>2 DEF ExitNeverBetterThanMarket
  <2>6. LossWithinBudget'
    <3> DEFINE perLot == held.side * (held.entry - price) + Commission
    <3>1. perLot \in Int /\ RiskPerLot(held) \in Int
      BY <1>2, <2>3 DEF RiskPerLot, InitialRisk
    <3>2. ASSUME held.side * Mark(held.side) >= held.side * held.sl0
          PROVE  perLot <= RiskPerLot(held)
      <4>1. held.side * exit.base >= held.side * held.sl0
        BY <2>4, <3>2
      <4>2. CASE held.side = 1
        BY <1>1, <1>2, <2>3, <4>1, <4>2 DEF RiskPerLot, InitialRisk
      <4>3. CASE held.side = -1
        BY <1>1, <1>2, <2>3, <4>1, <4>3 DEF RiskPerLot, InitialRisk
      <4> QED BY <1>2, <4>2, <4>3
    <3>3. Loss(closed) = held.lot * perLot
      BY <2>1 DEF Loss
    <3>4. held.lot * RiskPerLot(held) <= held.budget
      BY <1>1 DEF Sound
    <3> HIDE DEF perLot
    <3>5. ASSUME held.side * Mark(held.side) >= held.side * held.sl0
          PROVE  Loss(closed) <= closed.budget
      <4>1. held.lot * perLot <= held.lot * RiskPerLot(held)
        BY <1>2, <3>1, <3>2, <3>5, ScaledLoss
      <4>2. held.lot * perLot \in Int /\ held.lot * RiskPerLot(held) \in Int
        BY <1>2, <3>1
      <4> QED BY <1>2, <2>1, <3>3, <3>4, <4>1, <4>2
    <3> QED BY <1>6, <2>1, <3>5 DEF LossWithinBudget
  <2>7. RowSound' /\ HeldSound' /\ ExitSound' /\ NothingYet' /\ LedgerCanMark'
    BY <1>6, <2>1 DEF RowSound, HeldSound, ExitSound, NothingYet, LedgerCanMark
  <2> QED BY <1>4, <2>5, <2>6, <2>7 DEF IInv
<1> QED BY <1>3, <1>5, <1>6

\* What open_trade inserts: the candidate with its final volume.
Opened(side, d, a, ties, v) == [Candidate(side, d, a, ties) EXCEPT !.lot = v]

\* A candidate that passes the gates of open_trade is sound at any volume its
\* budget carries, and the quote that filled it stands inside its protections.
LEMMA CandidateIsSound ==
  ASSUME Assumptions, QuoteOK, QuoteOrdered,
         NEW side \in {Buy, Sell}, NEW d \in Distances, NEW a \in Approvals,
         NEW ties \in SUBSET Triggers,
         Acceptable(Candidate(side, d, a, ties), a),
         NEW v \in Affordable(Candidate(side, d, a, ties), a),
         NEW u \in Trades, u = Opened(side, d, a, ties, v)
  PROVE  u.status = "open" /\ Sound(u) /\ Follows(u) /\ Inside(u)
<1> DEFINE t == Candidate(side, d, a, ties)
           stop == d \div 10
<1>1. /\ t \in Trades /\ t.side = side /\ t.entry = EntryFill(side)
      /\ t.sl0 = t.sl /\ t.sl = Reference(side) - side * stop /\ t.mfe = 0
      /\ t.status = "open"
  BY CandidateType DEF Candidate
<1>2. /\ side \in {1, -1} /\ stop \in Nat /\ stop > MaxSpread /\ SlipTicks \in Nat
      /\ MaxSpread \in Nat /\ BreakEvenTenths \in Nat /\ TrailStartTenths \in Nat
      /\ quote.bid \in Nat /\ quote.ask \in Nat /\ quote.bid <= quote.ask
  BY DEF Assumptions, DistanceAssumption, MarketAssumption, CostAssumption,
         ManagementAssumption, QuoteOK, QuoteOrdered, Buy, Sell
<1>3. /\ side * t.sl < side * t.entry /\ side * t.entry < side * t.tp
      /\ quote.ask - quote.bid <= MaxSpread /\ v * RiskPerLot(t) <= t.budget
  BY <1>1 DEF Acceptable, Creatable, Fills, Spread, Affordable
<1>4. /\ t.entry \in Int /\ t.sl0 \in Int /\ t.sl \in Int /\ t.tp \in Int
  BY <1>1 DEF Trades
<1> HIDE DEF t, stop
<1>5. /\ u.status = t.status /\ u.side = side /\ u.entry = t.entry /\ u.sl0 = t.sl0
      /\ u.sl = t.sl /\ u.tp = t.tp /\ u.mfe = 0 /\ u.lot = v /\ u.budget = t.budget
  BY <1>1 DEF Trades, Opened, t
<1>6. Sound(u)
  <2>1. RiskPerLot(u) = RiskPerLot(t)
    BY <1>1, <1>5 DEF RiskPerLot, InitialRisk
  <2>2. side * t.sl \in Int
    BY <1>2, <1>4
  <2> QED BY <1>1, <1>3, <1>5, <2>1, <2>2 DEF Sound
<1>7. InitialRisk(u) \in Nat
  <2>1. CASE side = 1
    BY <1>1, <1>3, <1>4, <1>5, <2>1 DEF InitialRisk
  <2>2. CASE side = -1
    BY <1>1, <1>3, <1>4, <1>5, <2>2 DEF InitialRisk
  <2> QED BY <1>2, <2>1, <2>2
<1>8. Follows(u)
  BY <1>2, <1>5, <1>7, ThresholdNotPassed DEF Follows
<1>9. Inside(u)
  <2>1. CASE side = 1
    BY <1>1, <1>2, <1>3, <1>4, <1>5, <2>1 DEF Inside, Mark, Reference, EntryFill, Buy
  <2>2. CASE side = -1
    BY <1>1, <1>2, <1>3, <1>4, <1>5, <2>2 DEF Inside, Mark, Reference, EntryFill, Buy
  <2> QED BY <1>2, <2>1, <2>2
<1> QED BY <1>1, <1>5, <1>6, <1>8, <1>9

LEMMA OpenStep ==
  ASSUME Assumptions, IInv, TypeOK', Open
  PROVE  IInv'
<1>1. /\ pc = "candidate" /\ row.status = "none" /\ QuoteOK /\ QuoteOrdered
      /\ quote' = quote /\ held' = held /\ exit' = exit /\ exitMark' = exitMark
  BY DEF IInv, TypeOK, QuoteOK, NothingYet, Open
<1>2. QuoteOrdered'
  BY <1>1 DEF QuoteOrdered
<1>3. \/ /\ pc' = "mark" /\ row'.status = "open"
         /\ Sound(row') /\ Follows(row') /\ Inside(row')
      \/ pc' = "halted" /\ row' = row
  <2>1. ASSUME NEW side \in {Buy, Sell}, NEW d \in Distances, NEW a \in Approvals,
               NEW ties \in SUBSET Triggers,
               Acceptable(Candidate(side, d, a, ties), a), pc' = "mark",
               NEW v \in Affordable(Candidate(side, d, a, ties), a),
               row' = Opened(side, d, a, ties, v)
        PROVE  row'.status = "open" /\ Sound(row') /\ Follows(row') /\ Inside(row')
    <3>1. row' \in Trades
      BY DEF TypeOK
    <3> QED BY <1>1, <2>1, <3>1, CandidateIsSound
  <2> QED BY <2>1 DEF Open, Goto, Opened
<1>4. CASE pc' = "halted" /\ row' = row
  <2>1. RowSound' /\ HeldSound' /\ ExitSound' /\ NothingYet' /\ LedgerCanMark'
    BY <1>1, <1>4 DEF RowSound, HeldSound, ExitSound, NothingYet, LedgerCanMark
  <2>2. ExitNeverBetterThanMarket' /\ LossWithinBudget'
    BY <1>1, <1>4 DEF ExitNeverBetterThanMarket, LossWithinBudget
  <2> QED BY <1>2, <2>1, <2>2 DEF IInv
<1>5. CASE /\ pc' = "mark" /\ row'.status = "open"
           /\ Sound(row') /\ Follows(row') /\ Inside(row')
  <2>1. RowSound' /\ HeldSound' /\ ExitSound' /\ NothingYet'
    BY <1>5 DEF RowSound, HeldSound, ExitSound, NothingYet
  <2>2. LedgerCanMark'
    BY <1>1, <1>5 DEF LedgerCanMark, Inside, Mark
  <2>3. ExitNeverBetterThanMarket' /\ LossWithinBudget'
    BY <1>5 DEF ExitNeverBetterThanMarket, LossWithinBudget
  <2> QED BY <1>2, <2>1, <2>2, <2>3 DEF IInv
<1> QED BY <1>3, <1>4, <1>5

\* The steps that leave the row and the history of its close alone.
LEMMA OtherSteps ==
  ASSUME Assumptions, IInv, TypeOK',
         NewQuote \/ NothingOpen \/ MarkBook \/ Fails \/ UNCHANGED vars
  PROVE  IInv'
<1>1. row' = row /\ exitMark' = exitMark
  BY DEF NewQuote, NothingOpen, MarkBook, Fails, vars
<1>2. RowSound' /\ ExitNeverBetterThanMarket' /\ LossWithinBudget'
  BY <1>1 DEF IInv, RowSound, ExitNeverBetterThanMarket, LossWithinBudget
<1>3. CASE NewQuote
  <2>1. QuoteOrdered'
    BY <1>3 DEF NewQuote, QuoteOrdered, Assumptions, MarketAssumption
  <2>2. HeldSound' /\ ExitSound' /\ NothingYet' /\ LedgerCanMark'
    BY <1>3 DEF NewQuote, Goto, HeldSound, ExitSound, NothingYet, LedgerCanMark
  <2> QED BY <1>2, <2>1, <2>2 DEF IInv
<1>4. CASE NothingOpen \/ Fails
  <2>1. QuoteOrdered'
    BY <1>4 DEF IInv, NothingOpen, Fails, QuoteOrdered
  <2>2. HeldSound' /\ ExitSound' /\ NothingYet' /\ LedgerCanMark'
    BY <1>1, <1>4 DEF NothingOpen, Fails, Goto, HeldSound, ExitSound, NothingYet, LedgerCanMark
  <2> QED BY <1>2, <2>1, <2>2 DEF IInv
<1>5. CASE MarkBook
  <2>1. QuoteOrdered'
    BY <1>5 DEF IInv, MarkBook, QuoteOrdered, NoQuote
  <2>2. HeldSound' /\ ExitSound' /\ NothingYet' /\ LedgerCanMark'
    BY <1>1, <1>5 DEF MarkBook, Goto, HeldSound, ExitSound, NothingYet, LedgerCanMark
  <2> QED BY <1>2, <2>1, <2>2 DEF IInv
<1>6. CASE UNCHANGED vars
  <2>1. QuoteOrdered' /\ HeldSound' /\ NothingYet'
    BY <1>6 DEF vars, IInv, QuoteOrdered, HeldSound, NothingYet
  <2>2. ExitSound'
    BY <1>6 DEF vars, IInv, ExitSound, Mark
  <2>3. LedgerCanMark'
    BY <1>6 DEF vars, IInv, LedgerCanMark, Inside, Mark
  <2> QED BY <1>2, <2>1, <2>2, <2>3 DEF IInv
<1> QED BY <1>3, <1>4, <1>5, <1>6

LEMMA InvariantStep ==
  ASSUME Assumptions, IInv, [Next]_vars
  PROVE  IInv'
<1>1. TypeOK'
  BY TypeStep DEF IInv
<1> QED BY <1>1, ManageStep, JudgeStep, CloseStep, OpenStep, OtherSteps DEF Next

-----------------------------------------------------------------------------
(* The theorems.                                                           *)

\* The inductive invariant holds in every reachable state.
THEOREM Invariant == Spec => []IInv
<1>1. Init => IInv
  <2>1. Init => TypeOK
    BY NothingTypes DEF Init, TypeOK, NoQuote
  <2>2. Init => pc = "idle" /\ row.status = "none" /\ QuoteOrdered
    <3>1. NoTrade.status = "none" /\ NoQuote.bid <= NoQuote.ask
      BY DEF NoTrade, NoQuote
    <3> QED BY <3>1 DEF Init, QuoteOrdered
  <2> QED BY <2>1, <2>2 DEF IInv, RowSound, HeldSound, ExitSound, NothingYet,
                      ExitNeverBetterThanMarket, LossWithinBudget, LedgerCanMark
<1>2. Assumptions /\ IInv /\ [Next]_vars => IInv'
  BY InvariantStep
<1> QED BY <1>1, <1>2, ConstantsHold, PTL DEF Spec

\* The stop of the durable row follows the excursion of the same row, across a
\* process that dies at any point of an update (update_with_snapshot).
THEOREM StopFollows == Spec => []StopFollowsExcursion
<1>1. IInv => StopFollowsExcursion
  BY DEF IInv, RowSound, Follows, StopFollowsExcursion
<1> QED BY <1>1, Invariant, PTL

\* No close is better than the market less the slippage (close_trade).
THEOREM ExitIsNeverBetter == Spec => []ExitNeverBetterThanMarket
<1>1. IInv => ExitNeverBetterThanMarket
  BY DEF IInv
<1> QED BY <1>1, Invariant, PTL

\* Unless the market gapped beyond the initial stop, the loss is within the
\* approved budget (_reconcile_fill_risk).
THEOREM LossIsWithinBudget == Spec => []LossWithinBudget
<1>1. IInv => LossWithinBudget
  BY DEF IInv
<1> QED BY <1>1, Invariant, PTL

\* What a cycle has just managed or opened never stands beyond its protection
\* when the ledger marks it (build_paper_decision_state).
THEOREM LedgerMarks == Spec => []LedgerCanMark
<1>1. IInv => LedgerCanMark
  BY DEF IInv
<1> QED BY <1>1, Invariant, PTL

\* The protection of an open position never loosens (update_with_snapshot).
THEOREM StopNeverLoosens == Spec => StopNeverRetreats
<1> DEFINE Kept == row.status = "open" => row'.side * row'.sl >= row.side * row.sl
<1>1. Assumptions /\ IInv /\ [Next]_vars => [Kept]_vars
  <2> SUFFICES ASSUME Assumptions, IInv, Next, row.status = "open"
               PROVE  row'.side * row'.sl >= row.side * row.sl
    OBVIOUS
  <2>1. /\ row \in Trades /\ held \in Trades /\ QuoteOK /\ Sound(row)
        /\ row.side * row.sl \in Int
    <3>1. row \in Trades /\ held \in Trades
      BY DEF IInv, TypeOK
    <3>2. row.side \in {1, -1} /\ row.sl \in Int
      BY <3>1 DEF Trades, Buy, Sell
    <3> QED BY <3>1, <3>2 DEF IInv, TypeOK, QuoteOK, RowSound
  <2>2. CASE row' = row
    BY <2>1, <2>2
  <2>3. CASE Manage
    <3>1. row' = Managed \/ row' = row
      BY <2>3 DEF Manage
    <3>2. Managed.side = row.side /\ row.side * row.sl <= row.side * Managed.sl
      BY <2>1, ManagedIsSound, SeenType
    <3>3. Managed.sl \in Int /\ row.side \in {1, -1}
      <4>1. TypeOK'
        BY TypeStep DEF IInv
      <4> QED BY <2>1, <2>3, <4>1 DEF Manage, TypeOK, Trades, Buy, Sell
    <3>4. row.side * Managed.sl \in Int
      BY <3>3
    <3> QED BY <2>1, <2>2, <3>1, <3>2, <3>4
  <2>4. CASE pc \in {"judge", "close"} /\ row'.side = held.side /\ row'.sl = held.sl
    <3>1. held.side = row.side /\ row.side * row.sl <= row.side * held.sl
      BY <2>4 DEF IInv, HeldSound
    <3>2. held.side * held.sl \in Int
      <4>1. held.side \in {1, -1} /\ held.sl \in Int
        BY <2>1 DEF Trades, Buy, Sell
      <4> QED BY <4>1
    <3> QED BY <2>1, <2>4, <3>1, <3>2
  <2>5. CASE Judge
    BY <2>2, <2>4, <2>5 DEF Judge, CloseFor
  <2>6. CASE Close
    <3>1. \/ row' = row
          \/ pc = "close" /\ row' = [held EXCEPT !.status = "closed",
                                       !.exit = ExitFill(held.side, exit.base),
                                       !.reason = exit.reason]
      BY <2>6 DEF Close
    <3> QED BY <2>1, <2>2, <2>4, <3>1 DEF Trades
  <2>7. CASE Open
    BY <2>7 DEF Open, IInv, NothingYet
  <2> QED BY <2>2, <2>3, <2>5, <2>6, <2>7
        DEF Next, NewQuote, NothingOpen, MarkBook, Fails
<1> QED BY <1>1, Invariant, ConstantsHold, PTL DEF Spec, StopNeverRetreats

-----------------------------------------------------------------------------
(* The refinement of ProtectedPosition.  It needs more of the copy that an *)
(* update holds than the promises above: that Manage has written every     *)
(* stop it has moved, so that a close leaves from the stop of the row.     *)

\* The copy in memory has the terms and the stop of the row.
HeldIsRow ==
  pc \in {"judge", "close"} =>
    /\ held.side = row.side /\ held.entry = row.entry /\ held.sl0 = row.sl0
    /\ held.sl = row.sl /\ held.tp = row.tp /\ held.lot = row.lot
    /\ held.budget = row.budget /\ held.exit = row.exit

\* An exit is based on the market, or on a target that the market has reached.
ExitPrice ==
  pc = "close" =>
    \/ exit.base = Mark(held.side)
    \/ exit.base = held.tp /\ held.side * held.tp <= held.side * Mark(held.side)

\* What a close records is blank until there is one.
NoExitYet == row.status # "closed" => row.exit = 0 /\ exitMark = 0

Promise == HeldIsRow /\ ExitPrice /\ NoExitYet

\* What Manage holds is the row with its excursion and its stop moved.
LEMMA ManagedKeeps ==
  ASSUME row \in Trades
  PROVE  /\ Managed.status = row.status /\ Managed.side = row.side
         /\ Managed.entry = row.entry /\ Managed.sl0 = row.sl0 /\ Managed.tp = row.tp
         /\ Managed.lot = row.lot /\ Managed.budget = row.budget /\ Managed.exit = row.exit
<1>1. /\ Seen.status = row.status /\ Seen.side = row.side /\ Seen.entry = row.entry
      /\ Seen.sl0 = row.sl0 /\ Seen.tp = row.tp /\ Seen.lot = row.lot
      /\ Seen.budget = row.budget /\ Seen.exit = row.exit
  BY DEF Seen, Trades
<1>2. /\ Managed.status = Seen.status /\ Managed.side = Seen.side
      /\ Managed.entry = Seen.entry /\ Managed.sl0 = Seen.sl0 /\ Managed.tp = Seen.tp
      /\ Managed.lot = Seen.lot /\ Managed.budget = Seen.budget
      /\ Managed.exit = Seen.exit
  BY DEF Managed, Seen, Trades
<1> QED BY <1>1, <1>2

\* A stop that is hit is filled at the market: the market is the worse of the two.
LEMMA StopGetsMarket ==
  ASSUME held.side \in {1, -1}, held.sl \in Int, Mark(held.side) \in Int, StopHit
  PROVE  StopBase(held) = Mark(held.side)
<1>1. CASE held.side = 1
  BY <1>1 DEF StopHit, StopBase, Worse
<1>2. CASE held.side = -1
  BY <1>2 DEF StopHit, StopBase, Worse
<1> QED BY <1>1, <1>2

\* What open_trade inserts, field by field.
LEMMA CandidateFields ==
  ASSUME NEW side, NEW d, NEW a, NEW ties, NEW v
  PROVE  LET t == Candidate(side, d, a, ties)
             o == [t EXCEPT !.lot = v]
         IN  /\ o.status = "open" /\ o.exit = 0 /\ o.side = t.side /\ o.sl = t.sl
             /\ o.entry = t.entry /\ o.tp = t.tp
  BY DEF Candidate

\* Every step keeps the promise.
LEMMA PromiseStep ==
  ASSUME Assumptions, IInv, Promise, [Next]_vars
  PROVE  Promise'
<1>0. /\ row \in Trades /\ held \in Trades /\ QuoteOK
      /\ row.side \in {1, -1} /\ held.side \in {1, -1}
  BY DEF IInv, TypeOK, QuoteOK, Trades, Buy, Sell
<1>1. CASE NewQuote \/ NothingOpen \/ MarkBook \/ Fails
  <2>1. row' = row /\ exitMark' = exitMark /\ pc' \notin {"judge", "close"}
    BY <1>1 DEF NewQuote, NothingOpen, MarkBook, Fails, Goto
  <2> QED BY <2>1 DEF Promise, HeldIsRow, ExitPrice, NoExitYet
<1>2. CASE Manage
  <2>1. /\ row' = held' \/ (row' = row /\ held'.sl = row.sl)
        /\ held' = Managed /\ pc' = "judge" /\ exitMark' = exitMark /\ row.status = "open"
    BY <1>2 DEF Manage, Goto
  <2>2. NoExitYet' /\ ExitPrice'
    BY <1>0, <2>1, ManagedKeeps DEF Promise, NoExitYet, ExitPrice
  <2>3. HeldIsRow'
    BY <1>0, <2>1, ManagedKeeps DEF HeldIsRow
  <2> QED BY <2>2, <2>3 DEF Promise
<1>3. CASE Judge
  <2>1. /\ held.side = row.side /\ row.status = "open" /\ held.status = "open"
        /\ quote' = quote /\ exitMark' = exitMark /\ HeldIsRow /\ pc = "judge" /\ NoExitYet
    BY <1>3 DEF Judge, IInv, HeldSound, Promise
  <2>2. held.sl \in Int /\ held.tp \in Int /\ Mark(held.side) \in Int
    BY <1>0, PriceTypes DEF Trades
  <2>3. CASE row' = held /\ Forget /\ Goto("mark")
    BY <2>1, <2>3 DEF Goto, Promise, HeldIsRow, ExitPrice, NoExitYet
  <2>4. ASSUME NEW reason, NEW base, CloseFor(reason, base),
               \/ base = Mark(held.side)
               \/ base = held.tp /\ held.side * held.tp <= held.side * Mark(held.side)
        PROVE  Promise'
    <3>1. row' = row /\ held' = held /\ pc' = "close" /\ exit'.base = base
      BY <2>4 DEF CloseFor, Goto
    <3>2. Mark(held.side)' = Mark(held.side)
      BY <2>1, <3>1 DEF Mark
    <3> QED BY <2>1, <2>4, <3>1, <3>2 DEF Promise, HeldIsRow, ExitPrice, NoExitYet
  <2>5. CASE StopHit /\ CloseFor(IF held.side * held.sl >= held.side * held.entry
                                 THEN "BREAK_EVEN" ELSE "SL", StopBase(held))
    BY <1>0, <2>2, <2>4, <2>5, StopGetsMarket
  <2>6. CASE TargetHit /\ CloseFor("TP", held.tp)
    <3>1. held.side * held.tp <= held.side * Mark(held.side)
      BY <1>0, <2>2, <2>6 DEF TargetHit
    <3> QED BY <2>4, <2>6, <3>1
  <2>7. CASE CloseFor("TIME_STOP", Mark(held.side))
    BY <2>4, <2>7
  <2> QED BY <1>3, <2>3, <2>5, <2>6, <2>7 DEF Judge
<1>4. CASE Close
  <2>1. \/ row' = row /\ exitMark' = exitMark
        \/ row' = [held EXCEPT !.status = "closed", !.exit = ExitFill(held.side, exit.base),
                     !.reason = exit.reason]
    BY <1>4 DEF Close
  <2>2. pc' \notin {"judge", "close"}
    BY <1>4 DEF Close, Goto
  <2>3. NoExitYet'
    BY <1>0, <2>1 DEF Promise, NoExitYet, Trades
  <2> QED BY <2>2, <2>3 DEF Promise, HeldIsRow, ExitPrice
<1>5. CASE Open
  <2>1. pc' \notin {"judge", "close"} /\ exitMark' = exitMark /\ row.status = "none"
    BY <1>5 DEF Open, Goto, IInv, NothingYet
  <2>2. row' = row \/ (row'.status = "open" /\ row'.exit = 0)
    <3>1. PICK side \in {Buy, Sell}, d \in Distances, a \in Approvals, ties \in SUBSET Triggers :
            \/ row' = row
            \/ \E v \in Affordable(Candidate(side, d, a, ties), a) :
                 row' = [Candidate(side, d, a, ties) EXCEPT !.lot = v]
      BY <1>5 DEF Open
    <3>2. CASE row' # row
      <4>1. PICK v : row' = [Candidate(side, d, a, ties) EXCEPT !.lot = v]
        BY <3>1, <3>2
      <4> QED BY <4>1, CandidateFields
    <3> QED BY <3>2
  <2>3. NoExitYet'
    BY <2>1, <2>2 DEF Promise, NoExitYet
  <2> QED BY <2>1, <2>3 DEF Promise, HeldIsRow, ExitPrice
<1>6. CASE UNCHANGED vars
  BY <1>6 DEF vars, Promise, HeldIsRow, ExitPrice, NoExitYet, Mark
<1> QED BY <1>1, <1>2, <1>3, <1>4, <1>5, <1>6 DEF Next

\* Every step of the cycles is a step of the protected position or leaves it alone.
LEMMA ProtectedStep ==
  ASSUME Assumptions, IInv, Promise, [Next]_vars
  PROVE  [Protected!Next]_(Protected!positionVars)
<1>0. /\ row \in Trades /\ held \in Trades /\ QuoteOK /\ SlipTicks \in Nat
      /\ row.side \in {1, -1} /\ held.side \in {1, -1}
  BY DEF IInv, TypeOK, QuoteOK, Trades, Buy, Sell, Assumptions, CostAssumption
<1>1. CASE row' = row /\ exitMark' = exitMark
  BY <1>1 DEF Protected!positionVars
<1>2. CASE Manage
  <2>1. row' = Managed \/ row' = row
    BY <1>2 DEF Manage
  <2>2. row.status = "open" /\ exitMark' = exitMark
    BY <1>2 DEF Manage
  <2>3. row.side * row.sl <= row.side * Managed.sl
    BY <1>0, <2>2, ManagedIsSound, SeenType DEF IInv, RowSound
  <2>4. row.side * row.sl \in Int /\ row.side * Managed.sl \in Int
    <3>1. row.sl \in Int /\ row'.sl \in Int /\ held'.sl \in Int
      BY TypeStep DEF IInv, TypeOK, Trades
    <3> QED BY <1>0, <1>2, <3>1 DEF Manage
  <2>5. CASE row' = Managed
    BY <1>0, <2>2, <2>3, <2>4, <2>5, ManagedKeeps
       DEF Protected!Next, Protected!Tighten
  <2> QED BY <1>1, <2>1, <2>2, <2>5
<1>3. CASE Judge
  <2>1. /\ held.status = row.status /\ pc = "judge" /\ row.status = "open"
        /\ exitMark' = exitMark /\ (row' = row \/ row' = held)
    BY <1>3 DEF Judge, CloseFor, IInv, HeldSound
  <2>2. CASE row' = held
    BY <2>1, <2>2 DEF Promise, HeldIsRow, Protected!positionVars
  <2> QED BY <1>1, <2>1, <2>2
<1>4. CASE Close
  <2> DEFINE price == ExitFill(held.side, exit.base)
             closed == [held EXCEPT !.status = "closed", !.exit = price,
                          !.reason = exit.reason]
  <2>1. pc = "close" /\ row.status = "open" /\ exit.base \in Int
    BY <1>4 DEF Close, IInv, HeldSound, TypeOK, Exits
  <2>2. /\ held.side = row.side /\ held.entry = row.entry /\ held.sl0 = row.sl0
        /\ held.sl = row.sl /\ held.tp = row.tp /\ held.lot = row.lot
        /\ held.budget = row.budget
        /\ \/ exit.base = Mark(held.side)
           \/ exit.base = held.tp /\ held.side * held.tp <= held.side * Mark(held.side)
    BY <2>1 DEF Promise, HeldIsRow, ExitPrice
  <2>3. /\ closed.status = "closed" /\ closed.side = held.side /\ closed.exit = price
        /\ closed.entry = held.entry /\ closed.sl0 = held.sl0 /\ closed.sl = held.sl
        /\ closed.tp = held.tp /\ closed.lot = held.lot /\ closed.budget = held.budget
    BY <1>0 DEF Trades
  <2>4. price = exit.base - held.side * SlipTicks
    BY DEF ExitFill
  <2>5. Mark(held.side) \in Int
    BY <1>0, PriceTypes
  <2> HIDE DEF closed, price
  <2>6. held.side * price = held.side * exit.base - SlipTicks
    <3>1. CASE held.side = 1
      BY <1>0, <2>1, <2>4, <3>1
    <3>2. CASE held.side = -1
      BY <1>0, <2>1, <2>4, <3>2
    <3> QED BY <1>0, <3>1, <3>2
  <2>7. CASE row' = closed /\ exitMark' = Mark(held.side)
    <3> DEFINE base == held.side * exit.base
    <3>1. base \in {row.side * row.tp, row'.side * exitMark'} /\ base <= row'.side * exitMark'
      <4>1. held.side * Mark(held.side) \in Int
        BY <1>0, <2>5
      <4>2. row'.side = held.side
        BY <2>3, <2>7
      <4> HIDE DEF base
      <4>3. \/ base = held.side * Mark(held.side)
            \/ base = held.side * held.tp /\ held.side * held.tp <= held.side * Mark(held.side)
        BY <2>2 DEF base
      <4> QED BY <2>2, <2>7, <4>1, <4>2, <4>3
    <3>2. row'.side * row'.exit = base - SlipTicks
      BY <2>3, <2>6, <2>7
    <3> HIDE DEF base
    <3>3. /\ row'.status = "closed"
          /\ row'.side = row.side /\ row'.sl0 = row.sl0 /\ row'.lot = row.lot
          /\ row'.budget = row.budget /\ row'.entry = row.entry /\ row'.sl = row.sl
          /\ row'.tp = row.tp
      BY <2>2, <2>3, <2>7
    <3> QED BY <2>1, <3>1, <3>2, <3>3 DEF Protected!Next, Protected!Leave
  <2>8. CASE row' = row /\ exitMark' = exitMark
    BY <1>1, <2>8
  <2> QED BY <1>4, <2>7, <2>8 DEF Close, closed, price
<1>5. CASE Open
  <2>1. row.status = "none" /\ exitMark' = exitMark
    BY <1>5 DEF Open, IInv, NothingYet
  <2>2. CASE row' = row
    BY <1>1, <2>1, <2>2
  <2>3. CASE row' # row
    <3>1. /\ row'.status = "open" /\ row'.exit = 0
          /\ row'.side * row'.sl < row'.side * row'.entry
          /\ row'.side * row'.entry < row'.side * row'.tp
      <4>1. PICK side \in {Buy, Sell}, d \in Distances, a \in Approvals,
                 ties \in SUBSET Triggers, v \in Nat :
              LET t == Candidate(side, d, a, ties)
              IN  Acceptable(t, a) /\ row' = [t EXCEPT !.lot = v]
        BY <1>5, <2>3 DEF Open, Affordable, Volumes, Assumptions, LotAssumption
      <4> DEFINE t == Candidate(side, d, a, ties)
      <4>2. Creatable(t) /\ row' = [t EXCEPT !.lot = v]
        BY <4>1 DEF Acceptable
      <4> QED BY <4>2, CandidateFields DEF Creatable
    <3>2. row.exit = 0 /\ exitMark = 0 /\ row'.side \in {1, -1}
      BY <2>1, TypeStep DEF Promise, NoExitYet, IInv, TypeOK, Trades, Buy, Sell
    <3>3. /\ row.side * exitMark = 0 /\ row'.side * exitMark' = 0
          /\ row.side * row.exit = 0 /\ row'.side * row'.exit = 0
      BY <1>0, <2>1, <3>1, <3>2
    <3> QED BY <2>1, <3>1, <3>3 DEF Protected!Next, Protected!Enter
  <2> QED BY <2>2, <2>3
<1>6. CASE NewQuote \/ NothingOpen \/ MarkBook \/ Fails \/ UNCHANGED vars
  BY <1>1, <1>6 DEF NewQuote, NothingOpen, MarkBook, Fails, vars
<1> QED BY <1>2, <1>3, <1>4, <1>5, <1>6 DEF Next

\* The durable row (open_trade, update_with_snapshot, close_trade) implements the
\* protected position.
THEOREM ImplementsProtectedPosition == Spec => PositionIsProtected
<1>0. NoTrade.exit = 0 /\ NoTrade.status = "none"
  BY DEF NoTrade
<1>1. Init => Promise
  BY <1>0 DEF Init, Promise, HeldIsRow, ExitPrice, NoExitYet
<1>2. Assumptions /\ IInv /\ Promise /\ [Next]_vars => Promise'
  BY PromiseStep
<1>3. Init => row.status = "none"
  BY <1>0 DEF Init
<1>4. Assumptions /\ IInv /\ Promise /\ [Next]_vars =>
        [Protected!Next]_(Protected!positionVars)
  BY ProtectedStep
<1> QED BY <1>1, <1>2, <1>3, <1>4, Invariant, ConstantsHold, PTL
        DEF Spec, PositionIsProtected, Protected!Spec
=============================================================================
