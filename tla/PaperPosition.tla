--------------------------- MODULE PaperPosition ---------------------------
(***************************************************************************)
(* One paper position (paper_position_manager.py) through the steps of the *)
(* cycles that manage it: a quote is observed, the open position is        *)
(* managed and perhaps closed, the decision ledger marks the book, and a   *)
(* candidate may be filled.                                                *)
(*                                                                         *)
(* Prices are integers counted in ticks: the code refuses a price off the  *)
(* tick grid, rounds fills against the position to whole ticks and stops   *)
(* away from the market to whole ticks.  One tick is worth one unit of     *)
(* account currency per lot.                                               *)
(*                                                                         *)
(* The run is the only writer of the row here.  What an operator's         *)
(* paper-close-all makes of it, and a run that still has it in memory, is  *)
(* the subject of PaperLifecycle.                                          *)
(***************************************************************************)
EXTENDS Integers

CONSTANTS
  Bids,                \* bid prices the market may quote
  Spreads,             \* spreads the market may quote
  MaxSpread,           \* fill_model.max_spread_points
  Distances,           \* protection distance of a signal, in tenths of a tick
  RewardTenths,        \* reward/risk of a signal, in tenths
  SlipTicks,           \* slippage_points, rounded up to whole ticks
  Commission,          \* commission_per_lot_round_turn
  Approvals,           \* lots the risk engine may approve
  LotMin, LotStep,     \* volume_min, volume_step
  BreakEvenTenths,     \* break_even_trigger_r
  TrailStartTenths,    \* trailing_start_r
  TrailDistanceTenths  \* trailing_distance_r

ASSUME MarketAssumption ==
  /\ Bids \subseteq Nat \ {0} /\ Spreads \subseteq Nat /\ MaxSpread \in Nat
ASSUME CostAssumption == SlipTicks \in Nat /\ Commission \in Nat
\* build_signal_prices keeps the stop at 100 points or more; the configured
\* spread limit (25 points by default) is below it.
ASSUME DistanceAssumption ==
  /\ Distances \subseteq Nat /\ RewardTenths \in Nat /\ RewardTenths >= 10
  /\ \A d \in Distances : d \div 10 > MaxSpread
ASSUME LotAssumption ==
  /\ LotMin \in Nat \ {0} /\ LotStep \in Nat \ {0} /\ Approvals \subseteq Nat
ASSUME ManagementAssumption ==
  {BreakEvenTenths, TrailStartTenths, TrailDistanceTenths} \subseteq Nat

VARIABLES
  row,         \* the durable paper_trades row
  quote,       \* the quote of the cycle in progress
  pc,          \* where that cycle stands
  held,        \* the trade in memory while it is managed
  exit,        \* reason and base price of the close in progress
  exitMark     \* history: the closing side of the quote that closed the trade

vars == <<row, quote, pc, held, exit, exitMark>>

Buy  == 1
Sell == -1
NoTrade == [status |-> "none", side |-> Buy, entry |-> 0, sl0 |-> 0, sl |-> 0, tp |-> 0,
            mfe |-> 0, lot |-> 0, budget |-> 0, ties |-> {}, exit |-> 0, reason |-> ""]
NoQuote == [bid |-> 0, ask |-> 0]
NoExit  == [reason |-> "", base |-> 0]

Init ==
  /\ row = NoTrade /\ quote = NoQuote
  /\ pc = "idle" /\ held = NoTrade /\ exit = NoExit /\ exitMark = 0

-----------------------------------------------------------------------------
(* Prices.  t.side is +1 for BUY and -1 for SELL: side * p orders prices   *)
(* by how good they are for the position.                                  *)

Mark(side)      == IF side = Buy THEN quote.bid ELSE quote.ask
Reference(side) == IF side = Buy THEN quote.ask ELSE quote.bid
Spread          == quote.ask - quote.bid

\* The tighter of two stops, and the worse of two prices to get out at.
Tighter(side, a, b) == IF side * a >= side * b THEN a ELSE b
Worse(side, a, b)   == IF side * a <= side * b THEN a ELSE b

\* adverse_fill_price: slippage goes against the position.
EntryFill(side) == Reference(side) + side * SlipTicks
ExitFill(side, base) == base - side * SlipTicks

\* A fill needs an acceptable spread and a positive price.
Fills(price) == Spread <= MaxSpread /\ price > 0

InitialRisk(t) == t.side * (t.entry - t.sl0)
Excursion(t)   == t.side * (Mark(t.side) - t.entry)
Inside(t)      == t.side * t.sl < t.side * Mark(t.side) /\ t.side * Mark(t.side) < t.side * t.tp

Triggers == {BreakEvenTenths, TrailStartTenths}

\* mfe >= trigger * risk in binary floating point: on exact equality the outcome
\* depends on how the trade's two prices and the trigger are represented (t.ties).
Reached(t, trigger) ==
  \/ 10 * t.mfe > trigger * InitialRisk(t)
  \/ trigger \in t.ties /\ 10 * t.mfe = trigger * InitialRisk(t)

\* The excursion less the trailing distance, rounded to the tick grid away from
\* the market.
Trail(t) == t.entry + t.side * ((10 * t.mfe - TrailDistanceTenths * InitialRisk(t)) \div 10)

\* _managed_stop.
ManagedStop(t) ==
  LET atLeast == IF Reached(t, BreakEvenTenths) THEN Tighter(t.side, t.sl, t.entry) ELSE t.sl
  IN  IF Reached(t, TrailStartTenths) THEN Tighter(t.side, atLeast, Trail(t)) ELSE atLeast

\* Mutant of StopBase: a gap through the stop is filled at the stop.
StopBaseAtStop(t) == t.sl

\* A stop is filled at the stop or at the quote, whichever is worse.
StopBase(t) == Worse(t.side, t.sl, Mark(t.side))

-----------------------------------------------------------------------------
(* Volume.                                                                 *)

\* Mutant of RiskPerLot: no reserve for the slippage of the exit.
RiskPerLotNoReserve(t) == InitialRisk(t) + Commission

\* What one lot loses from the fill to the modelled fill of the initial stop.
RiskPerLot(t) == InitialRisk(t) + SlipTicks + Commission

\* normalize_lot_down: the lattice of volumes is anchored at the minimum.
Volumes(approved) == {v \in LotMin..approved : (v - LotMin) % LotStep = 0}
Affordable(t, approved) == {v \in Volumes(approved) : v * RiskPerLot(t) <= t.budget}

\* build_signal_prices and sizing: protections are brought to the grid towards
\* the reference; the budget is the approved volume's risk without costs.
Candidate(side, distance, approved, ties) ==
  LET stop   == distance \div 10
      reward == (distance * RewardTenths) \div 100
      sl     == Reference(side) - side * stop
  IN  [status |-> "open", side |-> side, entry |-> EntryFill(side), sl0 |-> sl, sl |-> sl,
       tp |-> Reference(side) + side * reward, mfe |-> 0, lot |-> 0,
       budget |-> approved * stop, ties |-> ties, exit |-> 0, reason |-> ""]

\* validate_paper_trade_creation and the sign of the protections.
Creatable(t) ==
  /\ t.side * t.sl < t.side * t.entry /\ t.side * t.entry < t.side * t.tp
  /\ t.sl > 0 /\ t.tp > 0

\* The gates of open_trade: the approved volume is one the broker takes, the
\* entry and the modelled stop are filled, and a volume fits the budget.
Acceptable(t, approved) ==
  /\ approved \in Volumes(approved)
  /\ Fills(t.entry) /\ Fills(ExitFill(t.side, t.sl)) /\ Creatable(t)
  /\ Affordable(t, approved) # {}

-----------------------------------------------------------------------------
(* The cycle.                                                              *)

Goto(p) == pc' = p

\* What the update keeps in memory is gone once it has returned or raised.
Forget == held' = NoTrade /\ exit' = NoExit

\* validate_quotes: a positive, ordered quote on the grid.  The market may gap.
\* The position is followed until it is closed.
NewQuote ==
  /\ pc = "idle" /\ row.status # "closed" /\ Goto("manage")
  /\ \E b \in Bids, s \in Spreads : quote' = [bid |-> b, ask |-> b + s]
  /\ UNCHANGED <<row, held, exit, exitMark>>

\* Mutant of Seen: the excursion of the last quote instead of the best one.
SeenLast == [row EXCEPT !.mfe = Excursion(row)]

\* The trade with the best excursion it has had.
Seen == [row EXCEPT !.mfe = IF Excursion(row) > @ THEN Excursion(row) ELSE @]

\* Mutant of Managed: the trailing stop follows the market instead of its best.
ManagedFollows ==
  LET now == [row EXCEPT !.mfe = Excursion(row)]
  IN  IF Reached(now, TrailStartTenths) THEN [Seen EXCEPT !.sl = Trail(now)] ELSE Seen

\* The stop moves to the managed stop, never back.
Managed == [Seen EXCEPT !.sl = Tighter(row.side, row.sl, ManagedStop(Seen))]

\* Mutant of Manage: the excursion is saved at once, the moved stop only when
\* the update ends.
ManageUnsaved ==
  /\ pc = "manage" /\ row.status = "open" /\ held' = Managed
  /\ row' = [row EXCEPT !.mfe = held'.mfe]
  /\ Goto("judge") /\ UNCHANGED <<quote, exit, exitMark>>

\* update_with_snapshot, first half: the excursion, the managed stop, and the
\* row written at once when the stop has moved.
Manage ==
  /\ pc = "manage" /\ row.status = "open" /\ held' = Managed
  /\ row' = IF held'.sl # row.sl THEN held' ELSE row
  /\ Goto("judge") /\ UNCHANGED <<quote, exit, exitMark>>

NothingOpen ==
  /\ pc = "manage" /\ row.status # "open" /\ Goto("mark")
  /\ UNCHANGED <<row, quote, held, exit, exitMark>>

\* Mutant of StopHit: a quote exactly at the stop does not close the position.
StopHitBeyond == held.side * Mark(held.side) < held.side * held.sl

\* _close_condition: the stop first, then the target.
StopHit   == held.side * Mark(held.side) <= held.side * held.sl
TargetHit == ~StopHit /\ held.side * Mark(held.side) >= held.side * held.tp

CloseFor(reason, base) ==
  Goto("close") /\ exit' = [reason |-> reason, base |-> base] /\ UNCHANGED <<row, held>>

\* Second half: neither hit, the age may close the position or it is saved.
Judge ==
  /\ pc = "judge" /\ UNCHANGED <<quote, exitMark>>
  /\ \/ /\ StopHit
        /\ CloseFor(IF held.side * held.sl >= held.side * held.entry
                    THEN "BREAK_EVEN" ELSE "SL", StopBase(held))
     \/ TargetHit /\ CloseFor("TP", held.tp)
     \/ ~StopHit /\ ~TargetHit /\ CloseFor("TIME_STOP", Mark(held.side))
     \/ ~StopHit /\ ~TargetHit /\ row' = held /\ Forget /\ Goto("mark")

\* close_trade: an exit the fill model rejects raises and halts the lifecycle.
Close ==
  /\ pc = "close" /\ Forget /\ UNCHANGED quote
  /\ LET price == ExitFill(held.side, exit.base)
     IN  \/ /\ Fills(price) /\ exitMark' = Mark(held.side) /\ Goto("mark")
            /\ row' = [held EXCEPT !.status = "closed", !.exit = price, !.reason = exit.reason]
         \/ ~Fills(price) /\ Goto("halted") /\ UNCHANGED <<row, exitMark>>

\* build_paper_decision_state refuses a mark at or beyond a protection.
\* MarkBook runs before the candidate and again after its fill.
MarkBook ==
  /\ pc = "mark" /\ UNCHANGED <<row, held, exit, exitMark>>
  /\ \/ row.status = "open" /\ ~Inside(row) /\ Goto("halted") /\ UNCHANGED quote
     \/ row.status = "none" /\ Goto("candidate") /\ UNCHANGED quote
     \/ ~(row.status = "open" /\ ~Inside(row)) /\ Goto("idle") /\ quote' = NoQuote

\* open_trade: the volume is reduced to what the budget carries at the fill; an
\* entry that cannot be filled, guarded or afforded raises and halts.
Open ==
  /\ pc = "candidate" /\ UNCHANGED <<quote, held, exit, exitMark>>
  /\ \E side \in {Buy, Sell}, d \in Distances, a \in Approvals, ties \in SUBSET Triggers :
       LET t == Candidate(side, d, a, ties)
       IN  \/ /\ Acceptable(t, a) /\ Goto("mark")
              /\ \E v \in Affordable(t, a) :
                   /\ \A w \in Affordable(t, a) : w <= v
                   /\ row' = [t EXCEPT !.lot = v]
           \/ ~Acceptable(t, a) /\ Goto("halted") /\ UNCHANGED row

\* A failing access or a kill: the lifecycle latches and manages nothing more.
Fails ==
  /\ pc \notin {"idle", "halted"} /\ Forget /\ Goto("halted")
  /\ UNCHANGED <<row, quote, exitMark>>

Next ==
  \/ NewQuote \/ Manage \/ NothingOpen \/ Judge \/ Close \/ MarkBook \/ Open \/ Fails

Spec == Init /\ [][Next]_vars

-----------------------------------------------------------------------------
(* Properties.                                                             *)

Reasons == {"", "SL", "BREAK_EVEN", "TP", "TIME_STOP"}
Trades == [status : {"none", "open", "closed"}, side : {Buy, Sell}, entry : Int, sl0 : Int,
           sl : Int, tp : Int, mfe : Nat, lot : Nat, budget : Int, ties : SUBSET Triggers,
           exit : Int, reason : Reasons]
Exits  == [reason : Reasons, base : Int]

\* Every variable has its type.
TypeOK ==
  /\ row \in Trades /\ held \in Trades
  /\ quote \in [bid : Nat, ask : Nat]
  /\ pc \in {"idle", "manage", "judge", "close", "mark", "candidate", "halted"}
  /\ exit \in Exits
  /\ exitMark \in Int

\* The protection of a position never loosens, whatever the market does, through
\* break-even, trailing and rounding (PAPER_TRADING_LIFECYCLE.md: "Trailing stop
\* must never retreat").
StopNeverRetreats ==
  [][row.status = "open" => row'.side * row'.sl >= row.side * row.sl]_vars

\* The durable row implements the protected position: its protection starts below
\* the fill and never loosens, through break-even, trailing and rounding; and the
\* run's close gets the market or the target less the slippage, from the terms and
\* the stop of the row (PAPER_TRADING_LIFECYCLE.md: "Trailing stop must never
\* retreat").  It is followed until then: whether a closed row stays closed is
\* ClosedStaysClosed of PaperLifecycle, which does not hold.
Protected == INSTANCE ProtectedPosition WITH
  Slip   <- SlipTicks, phase <- row.status,
  terms  <- <<row.side, row.sl0, row.lot, row.budget>>,
  paid   <- row.side * row.entry, stop <- row.side * row.sl,
  target <- row.side * row.tp, market <- row.side * exitMark, got <- row.side * row.exit
PositionIsProtected == Protected!Spec

\* The stop in the durable row follows the excursion in the same row, even when
\* the process dies between moving the stop and finishing the update.
StopFollowsExcursion ==
  row.status = "open" =>
    /\ 10 * row.mfe > BreakEvenTenths * InitialRisk(row)
         => row.side * row.sl >= row.side * row.entry
    /\ 10 * row.mfe > TrailStartTenths * InitialRisk(row)
         => row.side * row.sl >= row.side * Trail(row)

\* The manual's trigger (PAPER_TRADING_LIFECYCLE.md: "Break-even is triggered at
\* `0.6R`"): an open position whose best excursion has reached the trigger has
\* its stop at the entry or better.
BreakEvenAtTrigger ==
  row.status = "open" /\ 10 * row.mfe >= BreakEvenTenths * InitialRisk(row)
    => row.side * row.sl >= row.side * row.entry

\* No position is closed at a better price than the market offered, less the
\* slippage: neither at a stop the market has gapped through nor at a target.
ExitNeverBetterThanMarket ==
  row.status = "closed" => row.side * row.exit <= row.side * exitMark - SlipTicks

Loss(t) == t.lot * (t.side * (t.entry - t.exit) + Commission)

\* Unless the market gapped beyond the initial stop, a position loses at most the
\* budget it was approved with, slippage and commission of both sides included.
LossWithinBudget ==
  row.status = "closed" /\ row.side * exitMark >= row.side * row.sl0
    => Loss(row) <= row.budget

\* After management and after a fill the ledger can mark what is left open: a
\* live cycle never halts because a position it has just managed or opened
\* stands at or beyond its protection.
LedgerCanMark == pc = "mark" /\ row.status = "open" => Inside(row)
=============================================================================
