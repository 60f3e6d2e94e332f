--------------------------- MODULE DemoExecution ---------------------------
(***************************************************************************)
(* The demo executor (value_demo_executor.py): each run reconciles the     *)
(* broker's account with the open trades of the paper book, through orders *)
(* the broker may refuse, execute in part or execute without an answer,    *)
(* and keeps what it did in demo_state.json.                               *)
(*                                                                         *)
(* The account belongs to others too: stops are hit and manual positions   *)
(* come and go between any two steps.  The book does not change during a   *)
(* run, which the routine that seals it performs itself.                   *)
(***************************************************************************)
EXTENDS Integers, FiniteSets, FiniteSetsExt

CONSTANTS
  PaperTrades,     \* identities of the paper trades
  Manual,          \* owner of the positions that are not this book's
  MaxOpenTrades,   \* config.max_open_trades
  MaxOpenRisk,     \* config.max_open_risk_pct, in units of risk
  Unmeasured,      \* risk of a position without a stop: above every limit
  Equities,        \* equities the account may show
  Balance,         \* its balance
  FloatingLimit,   \* config.max_floating_drawdown_pct
  DailyLimit,      \* config.max_daily_drawdown_pct
  MaxTicket,       \* bound: positions ever opened on the account
  MaxDate,         \* bound: UTC days
  MaxMoves,        \* bound: changes of the book, the account and the market
  MaxMishaps       \* bound: failing calls, refused orders, dead runs

ASSUME ManualAssumption == Manual \notin PaperTrades
ASSUME LimitsAssumption ==
  /\ MaxOpenTrades \in Nat /\ MaxOpenRisk \in Nat /\ Unmeasured \in Nat
  /\ Unmeasured > MaxOpenRisk
ASSUME EquityAssumption ==
  /\ Equities \subseteq Nat \ {0} /\ Balance \in Nat \ {0} /\ Equities # {}
  /\ FloatingLimit \in Nat /\ DailyLimit \in Nat
ASSUME DemoBoundsAssumption ==
  /\ MaxTicket \in Nat /\ MaxDate \in Nat \ {0} /\ {MaxMoves, MaxMishaps} \subseteq Nat

VARIABLES
  paper,       \* the book: is the trade not there yet, open or closed
  level,       \* the protection level the book last gave the trade
  positions,   \* the account's open positions
  placed,      \* openings the broker accepted and has not executed yet
  ticket,      \* the last ticket the broker gave
  equity,      \* the account's equity
  date,        \* the UTC day
  state,       \* demo_state.json
  dpc,         \* where the run stands
  mem,         \* the state the run holds in memory
  account,     \* the equity the gate saw at the start of the run
  todo,        \* trades the current loop has not reached
  order,       \* the order being sent
  moves, mishaps,
  \* ----- history, read by properties only
  fills,       \* openings the broker accepted, per trade
  lostFill,    \* trades with an accepted opening that reached no state file
  blind,       \* a failing positions_get was read as an empty account
  unseen,      \* the most placed openings a check of the limits did not see
  firstEquity, \* what the first run of each day saw
  lostDay      \* days whose first equity was lost with a dead run

demoVars == <<paper, level, positions, placed, ticket, equity, date, state, dpc, mem, account,
              todo, order, moves, mishaps, fills, lostFill, blind, unseen, firstEquity,
              lostDay>>

NoRecord == [status |-> "none", ticket |-> 0]
NoOrder  == [kind |-> "none", trade |-> Manual, equity |-> 0]
Empty    == [trades |-> [t \in PaperTrades |-> NoRecord], date |-> 0, equity |-> 0]

DemoInit ==
  /\ paper = [t \in PaperTrades |-> "none"] /\ level = [t \in PaperTrades |-> 0]
  /\ positions = {} /\ placed = {} /\ ticket = 0 /\ equity \in Equities /\ date = 1
  /\ state = Empty /\ dpc = "idle" /\ mem = Empty /\ account = 0 /\ todo = {}
  /\ order = NoOrder /\ moves = 0 /\ mishaps = 0
  /\ fills = [t \in PaperTrades |-> 0] /\ lostFill = {} /\ blind = FALSE /\ unseen = 0
  /\ firstEquity = [d \in 1..MaxDate |-> 0] /\ lostDay = {}

bookVars  == <<paper, level>>
brokerVars == <<positions, placed, ticket, equity, date>>
pastVars  == <<fills, lostFill, blind, unseen, firstEquity, lostDay>>

DemoGoto(p) == dpc' = p
Mishap == mishaps < MaxMishaps /\ mishaps' = mishaps + 1

Known(s, t) == s.trades[t].status # "none"
Own == {p \in positions : p.of # Manual}
HasTicket(n) == \E p \in positions : p.ticket = n
Reads == {p.ticket : p \in Own}

-----------------------------------------------------------------------------
(* The run.                                                                *)

\* The gate releases the run; the state is loaded from its file.
BeginRun ==
  /\ dpc = "idle" /\ mem' = state /\ account' = equity /\ DemoGoto("reconcile")
  /\ UNCHANGED <<bookVars, brokerVars, state, todo, order, moves, mishaps, pastVars>>

\* A recorded position the account no longer shows was closed by the broker.
Reconciled(s, shown) ==
  [s EXCEPT !.trades = [t \in PaperTrades |->
     IF @[t].status = "open" /\ @[t].ticket \notin shown
     THEN [@[t] EXCEPT !.status = "byBroker"] ELSE @[t]]]

OpenRecords(s) == {t \in PaperTrades : s.trades[t].status = "open"}

\* positions_get answers, or fails and is read as an empty account; the marked
\* state is saved at once.
Reconcile ==
  /\ dpc = "reconcile" /\ DemoGoto("manage")
  /\ \/ mem' = Reconciled(mem, Reads) /\ UNCHANGED <<mishaps, blind>>
     \/ mem' = Reconciled(mem, {}) /\ Mishap /\ blind' = TRUE
  /\ state' = mem' /\ todo' = OpenRecords(mem')
  /\ UNCHANGED <<bookVars, brokerVars, account, order, moves, fills, lostFill, unseen,
                 firstEquity, lostDay>>

\* _send, up to the request in the journal.  The gate is asked again first.
Request(kind, t, seen) ==
  /\ todo' = todo \ {t}
  /\ \/ /\ order' = [kind |-> kind, trade |-> t, equity |-> seen]
        /\ DemoGoto("send") /\ UNCHANGED mishaps
     \/ Mishap /\ UNCHANGED <<order, dpc>>

Drifted(t) == \E p \in positions : p.ticket = mem.trades[t].ticket /\ p.level # level[t]

\* Mutant of ManageRecord: a trade that has left the book is not closed.
ManageRecordStillWanted ==
  /\ dpc = "manage" /\ \E t \in todo :
       \/ paper[t] = "open" /\ Drifted(t) /\ Request("SLTP", t, equity)
       \/ ~(paper[t] = "open" /\ Drifted(t)) /\ todo' = todo \ {t}
            /\ UNCHANGED <<dpc, order, mishaps>>
  /\ UNCHANGED <<bookVars, brokerVars, state, mem, account, moves, pastVars>>

\* Mutant of ManageRecord: a re-anchored position is closed instead of moved.
ManageRecordCloses ==
  /\ dpc = "manage" /\ \E t \in todo :
       \/ (paper[t] # "open" \/ Drifted(t)) /\ Request("CLOSE", t, equity)
       \/ /\ paper[t] = "open" /\ todo' = todo \ {t} /\ UNCHANGED <<dpc, order, mishaps>>
  /\ UNCHANGED <<bookVars, brokerVars, state, mem, account, moves, pastVars>>

\* An open record is closed when its trade has left the book, or its levels are
\* moved when the book re-anchored them and the price allows it.
ManageRecord ==
  /\ dpc = "manage" /\ \E t \in todo :
       \/ paper[t] # "open" /\ Request("CLOSE", t, equity)
       \/ paper[t] = "open" /\ Drifted(t) /\ Request("SLTP", t, equity)
       \/ /\ paper[t] = "open" /\ todo' = todo \ {t} /\ UNCHANGED <<dpc, order>>
          /\ IF Drifted(t) THEN Mishap ELSE UNCHANGED mishaps
  /\ UNCHANGED <<bookVars, brokerVars, state, mem, account, moves, pastVars>>

\* Mutant of Missing: a position the broker closed is opened again.
MissingStopped(s) == {t \in PaperTrades : paper[t] = "open" /\ s.trades[t].status # "open"}

\* The open paper trades the state has no record of, whatever its status.
Missing(s) == {t \in PaperTrades : paper[t] = "open" /\ ~Known(s, t)}

\* Mutant of RememberDay: every run starts the day anew.
RememberDayAlways ==
  /\ dpc = "manage" /\ todo = {} /\ DemoGoto("open")
  /\ mem' = [mem EXCEPT !.date = date, !.equity = account]
  /\ firstEquity' = IF firstEquity[date] = 0 THEN [firstEquity EXCEPT ![date] = account]
                    ELSE firstEquity
  /\ todo' = Missing(mem)
  /\ UNCHANGED <<bookVars, brokerVars, state, account, order, moves, mishaps, fills,
                 lostFill, blind, unseen, lostDay>>

\* _remember_day: the first run of a day keeps the equity its gate saw.
RememberDay ==
  /\ dpc = "manage" /\ todo = {} /\ DemoGoto("open")
  /\ mem' = IF mem.date = date THEN mem
            ELSE [mem EXCEPT !.date = date, !.equity = account]
  /\ firstEquity' = IF firstEquity[date] = 0 THEN [firstEquity EXCEPT ![date] = account]
                    ELSE firstEquity
  /\ todo' = Missing(mem)
  /\ UNCHANGED <<bookVars, brokerVars, state, account, order, moves, mishaps, fills,
                 lostFill, blind, unseen, lostDay>>

LossReaches(limit, from, now) == (from - now) * 100 >= limit * from

\* Mutant of Seen: only the positions of this book count.
SeenOwn == {p \in Own : \E t \in PaperTrades : mem.trades[t].ticket = p.ticket}

\* The positions that count against the limits are everybody's, those the broker
\* shows: an order it has only placed is none yet.
Seen == positions

RiskOf(seen) == MapThenSumSet(LAMBDA p : p.risk, seen)

Larger(a, b) == IF a < b THEN b ELSE a

\* The limits of _open on what the account shows.
WithinLimits(seen, risk) ==
  /\ ~LossReaches(FloatingLimit, Balance, equity)
  /\ ~LossReaches(DailyLimit, mem.equity, equity)
  /\ Cardinality(seen) + 1 <= MaxOpenTrades
  /\ RiskOf(seen) + risk <= MaxOpenRisk

\* _open: a trade the book holds and the state does not know.  Levels, symbol,
\* spread or sizing may skip it, and so do the limits.
TryOpen ==
  /\ dpc = "open" /\ \E t \in todo :
       \/ /\ WithinLimits(Seen, 1) /\ Request("OPEN", t, equity) /\ UNCHANGED blind
          /\ unseen' = Larger(unseen, Cardinality(placed))
       \/ /\ todo' = todo \ {t} /\ UNCHANGED <<dpc, order, mishaps, blind, unseen>>
       \/ /\ WithinLimits({}, 1) /\ todo' = todo \ {t} /\ Mishap /\ blind' = TRUE
          /\ order' = [kind |-> "OPEN", trade |-> t, equity |-> equity] /\ DemoGoto("send")
          /\ UNCHANGED unseen
  /\ UNCHANGED <<bookVars, brokerVars, state, mem, account, moves, fills, lostFill,
                 firstEquity, lostDay>>

\* Mutant of Back: the answered order is only half forgotten.
BackHalf == DemoGoto(IF order.kind = "OPEN" THEN "open" ELSE "manage")
            /\ order' = [order EXCEPT !.kind = "none"]

\* An answered order is forgotten and its loop goes on.
Back == DemoGoto(IF order.kind = "OPEN" THEN "open" ELSE "manage") /\ order' = NoOrder

\* The broker refuses (it has to where the bound leaves no ticket), or the position
\* is gone: nothing happens on either side.
Refused ==
  /\ dpc = "send" /\ Back
  /\ IF \/ order.kind = "OPEN" /\ ticket = MaxTicket
        \/ order.kind # "OPEN" /\ ~HasTicket(mem.trades[order.trade].ticket)
     THEN UNCHANGED mishaps ELSE Mishap
  /\ UNCHANGED <<bookVars, brokerVars, state, mem, account, todo, moves, pastVars>>

\* What the answer of the broker makes of the state in memory.
Remember(status, n) ==
  mem' = [mem EXCEPT !.trades[order.trade] = [status |-> status, ticket |-> n]]

\* The position an opening becomes, shown at once or only placed (retcode 10008
\* counts as done, and an order nobody answered may be executed later).
Enters(p) == \/ positions' = positions \cup {p} /\ UNCHANGED placed
             \/ placed' = placed \cup {p} /\ UNCHANGED positions

NewPosition(n) == [ticket |-> n, of |-> order.trade, level |-> level[order.trade], risk |-> 1]

\* Mutant of OpenAccepted: the record of an opening is forgotten although it was
\* accepted: it stays in no memory.
OpenAcceptedForgets ==
  /\ dpc = "send" /\ order.kind = "OPEN" /\ ticket < MaxTicket /\ Back
  /\ ticket' = ticket + 1 /\ Enters(NewPosition(ticket'))
  /\ fills' = [fills EXCEPT ![order.trade] = @ + 1]
  /\ UNCHANGED <<mem, mishaps, lostFill>>
  /\ UNCHANGED <<bookVars, equity, date, state, account, todo, moves, blind, unseen,
                 firstEquity, lostDay>>

\* An opening is accepted; its answer may never arrive.
OpenAccepted ==
  /\ dpc = "send" /\ order.kind = "OPEN" /\ ticket < MaxTicket /\ Back
  /\ ticket' = ticket + 1 /\ Enters(NewPosition(ticket'))
  /\ fills' = [fills EXCEPT ![order.trade] = @ + 1]
  /\ \/ Remember("open", ticket') /\ UNCHANGED <<mishaps, lostFill>>
     \/ Mishap /\ lostFill' = lostFill \cup {order.trade} /\ UNCHANGED mem
  /\ UNCHANGED <<bookVars, equity, date, state, account, todo, moves, blind, unseen,
                 firstEquity, lostDay>>

Target == {p \in positions : p.ticket = mem.trades[order.trade].ticket}

\* A close is executed in full; or in part or not yet (both count as done); or in
\* full and nobody learns of it.
CloseExecuted ==
  /\ dpc = "send" /\ order.kind = "CLOSE" /\ Target # {} /\ Back
  /\ \/ /\ positions' = positions \ Target /\ UNCHANGED mishaps
        /\ Remember("byBook", mem.trades[order.trade].ticket)
     \/ /\ UNCHANGED positions /\ Mishap
        /\ Remember("byBook", mem.trades[order.trade].ticket)
     \/ positions' = positions \ Target /\ Mishap /\ UNCHANGED mem
  /\ UNCHANGED <<bookVars, placed, ticket, equity, date, state, account, todo, moves, pastVars>>

\* The levels of a position are moved, answered or not.
LevelsMoved ==
  /\ dpc = "send" /\ order.kind = "SLTP" /\ Target # {} /\ Back
  /\ positions' = (positions \ Target)
                    \cup {[p EXCEPT !.level = level[order.trade]] : p \in Target}
  /\ \/ UNCHANGED mishaps
     \/ Mishap
  /\ UNCHANGED <<bookVars, placed, ticket, equity, date, state, mem, account, todo, moves,
                 pastVars>>

Rest == /\ mem' = Empty /\ account' = 0 /\ todo' = {} /\ order' = NoOrder

\* Only here is the state saved again.
EndRun ==
  /\ dpc = "open" /\ todo = {} /\ DemoGoto("idle") /\ state' = mem /\ Rest
  /\ UNCHANGED <<bookVars, brokerVars, moves, mishaps, pastVars>>

\* A call answers None where the code does not expect it and raises, or the
\* process is killed: what the run did since its first save is forgotten.
DeadRun ==
  /\ dpc # "idle" /\ Mishap /\ DemoGoto("idle") /\ Rest
  /\ lostFill' = lostFill \cup {t \in PaperTrades : Known(mem, t) /\ ~Known(state, t)}
  /\ lostDay' = IF mem.date # state.date THEN lostDay \cup {mem.date} ELSE lostDay
  /\ UNCHANGED <<bookVars, brokerVars, state, moves, fills, blind, unseen, firstEquity>>

-----------------------------------------------------------------------------
(* The book, the market and the other users of the account.                *)

Move == moves < MaxMoves /\ moves' = moves + 1

\* A sealed day opens, closes or re-anchors a paper trade, between runs.
BookMoves ==
  /\ dpc = "idle" /\ Move /\ \E t \in PaperTrades :
       \/ paper[t] = "none" /\ paper' = [paper EXCEPT ![t] = "open"] /\ UNCHANGED level
       \/ paper[t] = "open" /\ paper' = [paper EXCEPT ![t] = "closed"] /\ UNCHANGED level
       \/ paper[t] = "open" /\ level[t] = 0 /\ level' = [level EXCEPT ![t] = 1]
            /\ UNCHANGED paper
  /\ UNCHANGED <<brokerVars, state, dpc, mem, account, todo, order, mishaps, pastVars>>

\* A stop or target is hit, or somebody closes a position by hand.
PositionEnds ==
  /\ Move /\ \E p \in positions : positions' = positions \ {p}
  /\ UNCHANGED <<bookVars, placed, ticket, equity, date, state, dpc, mem, account, todo, order,
                 mishaps, pastVars>>

\* A placed opening is executed, or it expires.
PlacedExecutes ==
  /\ \E p \in placed : positions' = positions \cup {p} /\ placed' = placed \ {p}
  /\ UNCHANGED <<bookVars, ticket, equity, date, state, dpc, mem, account, todo, order, moves,
                 mishaps, pastVars>>

PlacedFails ==
  /\ Move /\ \E p \in placed : placed' = placed \ {p}
  /\ UNCHANGED <<bookVars, positions, ticket, equity, date, state, dpc, mem, account, todo,
                 order, mishaps, pastVars>>

\* Somebody opens a position, with or without a stop.
ManualOpens ==
  /\ Move /\ ticket < MaxTicket /\ ticket' = ticket + 1
  /\ \E r \in {1, Unmeasured} :
       positions' = positions \cup {[ticket |-> ticket', of |-> Manual, level |-> 0, risk |-> r]}
  /\ UNCHANGED <<bookVars, placed, equity, date, state, dpc, mem, account, todo, order,
                 mishaps, pastVars>>

EquityMoves ==
  /\ Move /\ equity' \in Equities \ {equity}
  /\ UNCHANGED <<bookVars, positions, placed, ticket, date, state, dpc, mem, account, todo, order,
                 mishaps, pastVars>>

DateTurns ==
  /\ date < MaxDate /\ date' = date + 1
  /\ UNCHANGED <<bookVars, positions, placed, ticket, equity, state, dpc, mem, account, todo, order,
                 moves, mishaps, pastVars>>

-----------------------------------------------------------------------------
RunSteps ==
  \/ Reconcile \/ ManageRecord \/ RememberDay \/ TryOpen \/ Refused \/ OpenAccepted
  \/ CloseExecuted \/ LevelsMoved \/ EndRun

Surroundings ==
  \/ BookMoves \/ PositionEnds \/ PlacedExecutes \/ PlacedFails \/ ManualOpens
  \/ EquityMoves \/ DateTurns

DemoNext == BeginRun \/ RunSteps \/ DeadRun \/ Surroundings

DemoSpec == DemoInit /\ [][DemoNext]_demoVars

\* The operator keeps scheduling the routine, the gate releases it, and a run
\* that lives keeps executing.
DemoFairness == WF_demoVars(BeginRun) /\ WF_demoVars(RunSteps)
FairDemo == DemoSpec /\ DemoFairness

-----------------------------------------------------------------------------
(* Properties.                                                             *)

Records  == [status : {"none", "open", "byBroker", "byBook"}, ticket : 0..MaxTicket]
StateFiles == [trades : [PaperTrades -> Records], date : 0..MaxDate, equity : Equities \cup {0}]
Positions == [ticket : 1..MaxTicket, of : PaperTrades \cup {Manual}, level : {0, 1},
              risk : {1, Unmeasured}]
Orders == [kind : {"OPEN", "CLOSE", "SLTP"}, trade : PaperTrades, equity : Equities]

\* Every variable of the executor has its type.
DemoTypeOK ==
  /\ paper \in [PaperTrades -> {"none", "open", "closed"}]
  /\ level \in [PaperTrades -> {0, 1}]
  /\ positions \subseteq Positions /\ ticket \in 0..MaxTicket
  /\ placed \subseteq Positions /\ IsFiniteSet(placed)
  /\ equity \in Equities /\ date \in 1..MaxDate
  /\ state \in StateFiles /\ mem \in StateFiles
  /\ dpc \in {"idle", "reconcile", "manage", "open", "send"}
  /\ account \in Equities \cup {0} /\ todo \subseteq PaperTrades
  /\ order \in Orders \cup {NoOrder}
  /\ moves \in 0..MaxMoves /\ mishaps \in 0..MaxMishaps
  /\ fills \in [PaperTrades -> Nat] /\ lostFill \subseteq PaperTrades /\ blind \in BOOLEAN
  /\ unseen \in Nat
  /\ firstEquity \in [1..MaxDate -> Equities \cup {0}] /\ lostDay \subseteq 0..MaxDate

\* A rerun never opens the same trade twice (value_demo_executor.py:34-35).
OpenedOnce == \A t \in PaperTrades : fills[t] <= 1

\* An opening of a trade is accepted a second time only if an earlier one reached no
\* state file: its answer was lost, or the run died before its last save.
SecondFillNeedsALostOne == \A t \in PaperTrades : fills[t] > 1 => t \in lostFill

\* A trade the state file knows, whatever became of its position, is never
\* opened again: not after a stop, a failed close or a dead run.
RecordedNeverReopened ==
  [][\A t \in PaperTrades : Known(state, t) => fills'[t] = fills[t] /\ Known(state', t)]_demoVars

\* As long as positions_get answers, this book exceeds its limit of positions, those
\* its state has lost sight of included, by no more than the openings the broker
\* had accepted and did not show yet when a limit was checked.
OwnPositionsBounded ==
  ~blind => Cardinality(Own) + Cardinality(placed) <= MaxOpenTrades + unseen

\* No opening is sent once the loss since the first run of the day the run
\* belongs to has reached the limit, unless the run that kept that first equity
\* died before saving it.
DailyLossStopsEntries ==
  dpc = "send" /\ order.kind = "OPEN" /\ mem.date \notin lostDay
    => ~LossReaches(DailyLimit, firstEquity[mem.date], order.equity)

\* On an account that belongs to others too, whatever was lost, stopped or read
\* blindly: no step of the executor ends a position but of a trade that has left
\* the book, or changes one but to the level the book last gave its trade.
AccountFollowsBook ==
  [][moves' = moves =>
       \A p \in positions \ positions' :
         /\ p.of # Manual
         /\ paper[p.of] # "open" \/ [p EXCEPT !.level = level[p.of]] \in positions']_demoVars

\* How far each location of a run is from its end.
Stage == [idle |-> 0, open |-> 1, manage |-> 2, reconcile |-> 3]

\* The loop the run is in, an order of it being sent or not.
LoopOf == IF dpc = "send" THEN IF order.kind = "OPEN" THEN "open" ELSE "manage" ELSE dpc

\* A later loop, or fewer trades to go in this one, or the order answered.
NearerToEnd ==
  \/ Stage[LoopOf'] < Stage[LoopOf]
  \/ LoopOf' = LoopOf /\ todo' \subseteq todo /\ todo' # todo
  \/ LoopOf' = LoopOf /\ todo' = todo /\ dpc = "send" /\ dpc' # "send"

\* No run goes on for ever: whatever the broker answers, each of its steps brings
\* it nearer to its end, and neither book, market nor account sets it back.
EveryRunEnds ==
  [][dpc # "idle" => NearerToEnd \/ (~RunSteps /\ UNCHANGED <<dpc, todo, order>>)]_demoVars

\* Once mishaps and moves are over, the recorded positions mirror the book: no
\* recorded position of a closed trade is kept, no level stays behind.
BookIsMirrored ==
  <>[](\A t \in OpenRecords(state) :
         /\ paper[t] = "open"
         /\ \A p \in positions : p.ticket = state.trades[t].ticket => p.level = level[t])
=============================================================================
