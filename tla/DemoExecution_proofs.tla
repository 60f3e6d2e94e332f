------------------------ MODULE DemoExecution_proofs ------------------------
(***************************************************************************)
(* What is proved of DemoExecution for every book, every limit and any     *)
(* number of runs, mishaps and moves of the market.                        *)
(***************************************************************************)
EXTENDS DemoExecution, FiniteSetTheorems, TLAPS

DemoAssumptions ==
  /\ ManualAssumption /\ LimitsAssumption /\ EquityAssumption /\ DemoBoundsAssumption

LEMMA DemoConstants == DemoAssumptions
  BY ManualAssumption, LimitsAssumption, EquityAssumption, DemoBoundsAssumption
     DEF DemoAssumptions

-----------------------------------------------------------------------------
(* Types.                                                                  *)

\* An order is being sent exactly when there is one.
OrderOK == dpc = "send" <=> order # NoOrder

LEMMA EmptyType == Empty \in StateFiles
  BY DemoConstants
     DEF Empty, NoRecord, StateFiles, Records, DemoAssumptions, DemoBoundsAssumption

LEMMA OrderType ==
  ASSUME DemoTypeOK, OrderOK, dpc = "send"
  PROVE  order.trade \in PaperTrades /\ order.kind \in {"OPEN", "CLOSE", "SLTP"}
         /\ order.equity \in Equities
  BY DEF DemoTypeOK, OrderOK, Orders

LEMMA NoOrderIsNone == NoOrder \notin Orders
  BY DEF NoOrder, Orders

LEMMA ReconciledType ==
  ASSUME NEW s \in StateFiles, NEW shown
  PROVE  Reconciled(s, shown) \in StateFiles
<1>1. s.trades \in [PaperTrades -> Records]
  BY DEF StateFiles
<1>2. ASSUME NEW t \in PaperTrades
      PROVE  (IF s.trades[t].status = "open" /\ s.trades[t].ticket \notin shown
              THEN [s.trades[t] EXCEPT !.status = "byBroker"] ELSE s.trades[t]) \in Records
  BY <1>1 DEF Records
<1> QED BY <1>1, <1>2 DEF Reconciled, StateFiles

LEMMA RememberType ==
  ASSUME DemoTypeOK, NEW t \in PaperTrades, NEW st \in {"none", "open", "byBroker", "byBook"},
         NEW n \in 0..MaxTicket
  PROVE  [mem EXCEPT !.trades[t] = [status |-> st, ticket |-> n]] \in StateFiles
<1>1. mem \in StateFiles /\ [status |-> st, ticket |-> n] \in Records
  BY DEF DemoTypeOK, Records
<1> QED BY <1>1 DEF StateFiles

LEMMA MishapType ==
  ASSUME DemoAssumptions, DemoTypeOK PROVE Mishap => mishaps' \in 0..MaxMishaps
  BY DEF DemoAssumptions, DemoBoundsAssumption, DemoTypeOK, Mishap

LEMMA MoveType ==
  ASSUME DemoAssumptions, DemoTypeOK PROVE Move => moves' \in 0..MaxMoves
  BY DEF DemoAssumptions, DemoBoundsAssumption, DemoTypeOK, Move

\* What _send leaves behind when it reaches the request.
LEMMA RequestType ==
  ASSUME DemoAssumptions, DemoTypeOK, OrderOK, dpc # "send",
         NEW kind \in {"OPEN", "CLOSE", "SLTP"}, NEW t \in todo, Request(kind, t, equity)
  PROVE  /\ todo' \subseteq PaperTrades /\ mishaps' \in 0..MaxMishaps
         /\ \/ order' \in Orders /\ dpc' = "send"
            \/ order' = NoOrder /\ dpc' = dpc
  BY MishapType DEF Request, DemoGoto, DemoTypeOK, OrderOK, Orders

\* What is placed can be counted, and a step that adds to it or takes from it one
\* order at most leaves it so.
LEMMA PlacedCounted ==
  ASSUME DemoTypeOK
  PROVE  /\ Cardinality(placed) \in Nat
         /\ \A p \in Positions : \A S \in {placed \cup {p}, placed \ {p}} :
              S \subseteq Positions /\ IsFiniteSet(S)
<1>1. placed \subseteq Positions /\ IsFiniteSet(placed)
  BY DEF DemoTypeOK
<1>2. \A p : IsFiniteSet(placed \cup {p}) /\ IsFiniteSet(placed \ {p})
  BY <1>1, FS_AddElement, FS_RemoveElement
<1> QED BY <1>1, <1>2, FS_CardinalityType

LEMMA DemoStart == DemoAssumptions /\ DemoInit => DemoTypeOK /\ OrderOK
<1> SUFFICES ASSUME DemoAssumptions, DemoInit PROVE DemoTypeOK /\ OrderOK
  OBVIOUS
<1>1. /\ MaxTicket \in Nat /\ MaxDate \in Nat \ {0} /\ MaxMoves \in Nat /\ MaxMishaps \in Nat
  BY DEF DemoAssumptions, DemoBoundsAssumption
<1>2. /\ paper \in [PaperTrades -> {"none", "open", "closed"}]
      /\ level \in [PaperTrades -> {0, 1}] /\ positions \subseteq Positions
      /\ placed \subseteq Positions /\ unseen \in Nat /\ equity \in Equities /\ fills \in [PaperTrades -> Nat]
      /\ firstEquity \in [1..MaxDate -> Equities \cup {0}]
  BY DEF DemoInit
<1>6. IsFiniteSet(placed)
  BY FS_EmptySet DEF DemoInit
<1>3. /\ ticket \in 0..MaxTicket /\ date \in 1..MaxDate /\ moves \in 0..MaxMoves
      /\ mishaps \in 0..MaxMishaps
  BY <1>1 DEF DemoInit
<1>4. state \in StateFiles /\ mem \in StateFiles
  BY EmptyType DEF DemoInit
<1>5. /\ dpc = "idle" /\ account \in Equities \cup {0} /\ todo \subseteq PaperTrades
      /\ order = NoOrder /\ lostFill \subseteq PaperTrades /\ blind \in BOOLEAN
      /\ lostDay \subseteq 0..MaxDate
  BY DEF DemoInit
<1> QED BY <1>2, <1>3, <1>4, <1>5, <1>6 DEF DemoTypeOK, OrderOK

LEMMA DemoTypeStep ==
  ASSUME DemoAssumptions, DemoTypeOK, OrderOK, [DemoNext]_demoVars
  PROVE  DemoTypeOK' /\ OrderOK'
<1> USE DEF DemoTypeOK, OrderOK, bookVars, brokerVars, pastVars, DemoGoto
<1>1. CASE UNCHANGED demoVars
  BY <1>1 DEF demoVars
<1>2. CASE BeginRun
  BY <1>2 DEF BeginRun
<1>3. CASE Reconcile
  <2>1. /\ mem' \in StateFiles /\ state' = mem' /\ todo' = OpenRecords(mem')
        /\ dpc = "reconcile" /\ dpc' = "manage" /\ mishaps' \in 0..MaxMishaps
        /\ blind' \in BOOLEAN
        /\ UNCHANGED <<paper, level, positions, placed, ticket, equity, date, account, order,
                       moves, fills, lostFill, unseen, firstEquity, lostDay>>
    <3>1. \A seen : Reconciled(mem, seen) \in StateFiles
      BY ReconciledType
    <3>2. Mishap => mishaps' \in 0..MaxMishaps
      BY MishapType
    <3> HIDE DEF OrderOK
    <3> QED BY <1>3, <3>1, <3>2 DEF Reconcile
  <2> QED BY <2>1 DEF OpenRecords
<1>4. CASE ManageRecord
  <2>1. /\ todo' \subseteq PaperTrades /\ mishaps' \in 0..MaxMishaps /\ dpc = "manage"
        /\ \/ order' \in Orders /\ dpc' = "send"
           \/ order' = NoOrder /\ dpc' = dpc
    BY <1>4, RequestType, MishapType DEF ManageRecord
  <2> QED BY <1>4, <2>1, NoOrderIsNone DEF ManageRecord
<1>5. CASE RememberDay
  <2>1. mem' \in StateFiles
    <3>1. /\ mem.trades \in [PaperTrades -> Records] /\ date \in 0..MaxDate
          /\ account \in Equities \cup {0}
      BY DemoConstants DEF StateFiles, DemoAssumptions, DemoBoundsAssumption
    <3>2. [mem EXCEPT !.date = date, !.equity = account] \in StateFiles
      BY <3>1 DEF StateFiles
    <3> QED BY <1>5, <3>2 DEF RememberDay
  <2>2. firstEquity' \in [1..MaxDate -> Equities \cup {0}]
    BY <1>5 DEF RememberDay
  <2> QED BY <1>5, <2>1, <2>2 DEF RememberDay, Missing
<1>6. CASE TryOpen
  <2>1. /\ todo' \subseteq PaperTrades /\ mishaps' \in 0..MaxMishaps /\ dpc = "open"
        /\ blind' \in BOOLEAN /\ unseen' \in Nat
        /\ \/ order' \in Orders /\ dpc' = "send"
           \/ order' = NoOrder /\ dpc' = dpc
    <3>1. dpc = "open" /\ order = NoOrder
      BY <1>6 DEF TryOpen
    <3>2. PICK t \in todo :
            \/ /\ Request("OPEN", t, equity) /\ UNCHANGED blind
               /\ unseen' = Larger(unseen, Cardinality(placed))
            \/ todo' = todo \ {t} /\ UNCHANGED <<dpc, order, mishaps, blind, unseen>>
            \/ /\ todo' = todo \ {t} /\ Mishap /\ blind' = TRUE /\ dpc' = "send"
               /\ order' = [kind |-> "OPEN", trade |-> t, equity |-> equity]
               /\ UNCHANGED unseen
      BY <1>6 DEF TryOpen
    <3>3. CASE /\ Request("OPEN", t, equity) /\ UNCHANGED blind
               /\ unseen' = Larger(unseen, Cardinality(placed))
      <4>1. unseen' \in Nat
        BY <3>3, PlacedCounted DEF Larger
      <4> QED BY <3>1, <3>3, <4>1, RequestType
    <3>4. CASE todo' = todo \ {t} /\ UNCHANGED <<dpc, order, mishaps, blind, unseen>>
      BY <3>1, <3>4
    <3>5. CASE /\ todo' = todo \ {t} /\ Mishap /\ blind' = TRUE /\ dpc' = "send"
               /\ order' = [kind |-> "OPEN", trade |-> t, equity |-> equity]
               /\ UNCHANGED unseen
      <4>1. order' \in Orders
        BY <3>5 DEF Orders
      <4> QED BY <3>1, <3>5, <4>1, MishapType
    <3> QED BY <3>2, <3>3, <3>4, <3>5
  <2> QED BY <1>6, <2>1, NoOrderIsNone DEF TryOpen
<1>7. CASE Refused
  <2>1. mishaps' \in 0..MaxMishaps
    BY <1>7, MishapType DEF Refused
  <2> QED BY <1>7, <2>1 DEF Refused, Back
<1>8. CASE OpenAccepted
  <2>1. order.trade \in PaperTrades /\ dpc = "send" /\ ticket' \in 1..MaxTicket
    BY <1>8, OrderType DEF OpenAccepted, DemoAssumptions, DemoBoundsAssumption
  <2>2. /\ positions' \subseteq Positions
        /\ placed' \subseteq Positions /\ IsFiniteSet(placed')
    <3>1. NewPosition(ticket') \in Positions
      BY <2>1 DEF NewPosition, Positions
    <3> QED BY <1>8, <3>1, PlacedCounted DEF OpenAccepted, Enters
  <2>3. mem' \in StateFiles /\ mishaps' \in 0..MaxMishaps /\ lostFill' \subseteq PaperTrades
    BY <1>8, <2>1, RememberType, MishapType DEF OpenAccepted, Remember
  <2>4. fills' \in [PaperTrades -> Nat]
    BY <1>8, <2>1 DEF OpenAccepted
  <2> QED BY <1>8, <2>1, <2>2, <2>3, <2>4 DEF OpenAccepted, Back
<1>9. CASE CloseExecuted
  <2>1. order.trade \in PaperTrades /\ mem.trades[order.trade].ticket \in 0..MaxTicket
    BY <1>9, OrderType DEF CloseExecuted, StateFiles, Records
  <2>2. mem' \in StateFiles /\ mishaps' \in 0..MaxMishaps
    BY <1>9, <2>1, RememberType, MishapType DEF CloseExecuted, Remember
  <2>3. positions' \subseteq Positions
    BY <1>9 DEF CloseExecuted
  <2> QED BY <1>9, <2>2, <2>3 DEF CloseExecuted, Back
<1>10. CASE LevelsMoved
  <2>1. mishaps' \in 0..MaxMishaps
    BY <1>10, MishapType DEF LevelsMoved
  <2>2. positions' \subseteq Positions
    <3>1. level[order.trade] \in {0, 1}
      BY <1>10, OrderType DEF LevelsMoved
    <3>2. \A p \in positions : [p EXCEPT !.level = level[order.trade]] \in Positions
      BY <3>1 DEF Positions
    <3> QED BY <1>10, <3>2 DEF LevelsMoved, Target
  <2> QED BY <1>10, <2>1, <2>2 DEF LevelsMoved, Back
<1>11. CASE EndRun
  BY <1>11, EmptyType DEF EndRun, Rest
<1>12. CASE DeadRun
  <2>1. /\ mishaps' \in 0..MaxMishaps /\ lostFill' \subseteq PaperTrades
        /\ lostDay' \subseteq 0..MaxDate
    BY <1>12, MishapType DEF DeadRun, StateFiles
  <2> QED BY <1>12, <2>1, EmptyType DEF DeadRun, Rest
<1>13. CASE BookMoves
  <2>1. /\ moves' \in 0..MaxMoves /\ paper' \in [PaperTrades -> {"none", "open", "closed"}]
        /\ level' \in [PaperTrades -> {0, 1}]
    BY <1>13, MoveType DEF BookMoves
  <2> QED BY <1>13, <2>1 DEF BookMoves
<1>14. CASE PositionEnds
  BY <1>14, MoveType DEF PositionEnds
<1>18. CASE PlacedExecutes
  <2>1. PICK p \in placed : positions' = positions \cup {p} /\ placed' = placed \ {p}
    BY <1>18 DEF PlacedExecutes
  <2>2. placed' \subseteq Positions /\ IsFiniteSet(placed') /\ positions' \subseteq Positions
    BY <2>1, PlacedCounted
  <2> QED BY <1>18, <2>2 DEF PlacedExecutes
<1>19. CASE PlacedFails
  <2>1. placed' \subseteq Positions /\ IsFiniteSet(placed')
    BY <1>19, PlacedCounted DEF PlacedFails
  <2>2. moves' \in 0..MaxMoves
    BY <1>19, MoveType DEF PlacedFails
  <2> QED BY <1>19, <2>1, <2>2 DEF PlacedFails
<1>15. CASE ManualOpens
  <2>1. ticket' \in 1..MaxTicket
    BY <1>15 DEF ManualOpens, DemoAssumptions, DemoBoundsAssumption
  <2>2. positions' \subseteq Positions
    BY <1>15, <2>1 DEF ManualOpens, Positions
  <2> QED BY <1>15, <2>1, <2>2, MoveType DEF ManualOpens
<1>16. CASE EquityMoves
  BY <1>16, MoveType DEF EquityMoves
<1>17. CASE DateTurns
  <2>1. date' \in 1..MaxDate
    BY <1>17 DEF DateTurns, DemoAssumptions, DemoBoundsAssumption
  <2> QED BY <1>17, <2>1 DEF DateTurns
<1> QED BY <1>1, <1>2, <1>3, <1>4, <1>5, <1>6, <1>7, <1>8, <1>9, <1>10, <1>11, <1>12,
           <1>13, <1>14, <1>15, <1>16, <1>17, <1>18, <1>19
        DEF DemoNext, RunSteps, Surroundings

-----------------------------------------------------------------------------
(* Fills.                                                                  *)

\* The state that knows what was done: the run's memory, or the file.
Current == IF dpc = "idle" THEN state ELSE mem

\* Where the run has turned to openings.
Opening == dpc = "open" \/ (dpc = "send" /\ order.kind = "OPEN")

FillsOK ==
  /\ dpc # "idle" => \A t \in PaperTrades : Known(state, t) => Known(mem, t)
  /\ \A t \in PaperTrades : fills[t] >= 1 /\ t \notin lostFill => Known(Current, t)
  /\ Opening => \A t \in todo : ~Known(mem, t)
  /\ dpc = "send" /\ order.kind = "OPEN" =>
       order.trade \notin todo /\ ~Known(mem, order.trade)
  /\ SecondFillNeedsALostOne

DemoTyped == DemoAssumptions /\ DemoTypeOK /\ OrderOK

\* Nothing that FillsOK reads changes.
LEMMA FillsUntouched ==
  ASSUME FillsOK, UNCHANGED <<state, mem, dpc, todo, order, fills, lostFill>>
  PROVE  FillsOK'
  BY DEF FillsOK, Current, Opening, Known, SecondFillNeedsALostOne

LEMMA ReconciledKnows ==
  ASSUME NEW s \in StateFiles, NEW seen, NEW t \in PaperTrades
  PROVE  Known(Reconciled(s, seen), t) <=> Known(s, t)
  BY DEF Known, Reconciled, StateFiles, Records

LEMMA RememberKnows ==
  ASSUME DemoTypeOK, NEW u \in PaperTrades, NEW st \in {"open", "byBroker", "byBook"}, NEW n
  PROVE  LET m == [mem EXCEPT !.trades[u] = [status |-> st, ticket |-> n]]
         IN  Known(m, u) /\ \A t \in PaperTrades : Known(mem, t) => Known(m, t)
  BY DEF DemoTypeOK, Known, StateFiles

LEMMA FillsStep ==
  ASSUME DemoTyped, FillsOK, [DemoNext]_demoVars
  PROVE  FillsOK'
<1> USE DEF DemoTyped, bookVars, brokerVars, pastVars, DemoGoto
<1>0. mem \in StateFiles /\ state \in StateFiles
  BY DEF DemoTypeOK
<1>1. CASE UNCHANGED demoVars
  BY <1>1, FillsUntouched DEF demoVars
<1>2. CASE Surroundings
  BY <1>2, FillsUntouched
     DEF Surroundings, BookMoves, PositionEnds, PlacedExecutes, PlacedFails, ManualOpens,
         EquityMoves, DateTurns
<1>3. CASE BeginRun
  BY <1>3 DEF BeginRun, FillsOK, Current, Opening, Known, SecondFillNeedsALostOne
<1>4. CASE Reconcile
  <2>1. PICK seen : mem' = Reconciled(mem, seen)
    BY <1>4 DEF Reconcile
  <2>2. \A t \in PaperTrades : Known(mem', t) <=> Known(mem, t)
    BY <1>0, <2>1, ReconciledKnows
  <2>3. /\ dpc = "reconcile" /\ dpc' = "manage" /\ state' = mem'
        /\ UNCHANGED <<fills, lostFill>>
    BY <1>4 DEF Reconcile
  <2>4. \A t \in PaperTrades : Known(state, t)' = Known(mem', t)
    BY <2>3 DEF Known
  <2>5. \A t \in PaperTrades : Known(Current, t)' = Known(mem', t)
    BY <2>3 DEF Known, Current
  <2>6. \A t \in PaperTrades : fills[t] >= 1 /\ t \notin lostFill => Known(mem, t)
    BY <2>3 DEF FillsOK, Current
  <2> QED BY <2>2, <2>3, <2>4, <2>5, <2>6 DEF FillsOK, Opening, Known, SecondFillNeedsALostOne
<1>5. CASE ManageRecord
  <2>1. /\ dpc = "manage" /\ dpc' \in {"manage", "send"}
        /\ dpc' = "send" => order'.kind # "OPEN"
        /\ UNCHANGED <<state, mem, fills, lostFill>>
    BY <1>5 DEF ManageRecord, Request
  <2> QED BY <2>1 DEF FillsOK, Current, Opening, Known, SecondFillNeedsALostOne
<1>6. CASE RememberDay
  <2>1. /\ dpc = "manage" /\ dpc' = "open" /\ todo' = Missing(mem) /\ mem'.trades = mem.trades
        /\ UNCHANGED <<state, fills, lostFill, order>>
    BY <1>0, <1>6 DEF RememberDay, StateFiles
  <2>2. \A t \in PaperTrades : Known(mem', t) <=> Known(mem, t)
    BY <2>1 DEF Known
  <2>3. \A t \in PaperTrades : Known(Current, t)' <=> Known(Current, t)
    BY <2>1 DEF Known, Current
  <2>4. \A t \in todo' : t \in PaperTrades /\ ~Known(mem', t)
    BY <2>1, <2>2 DEF Missing
  <2> QED BY <2>1, <2>2, <2>3, <2>4 DEF FillsOK, Opening, Known, SecondFillNeedsALostOne
<1>7. CASE TryOpen
  <2>1. PICK t \in todo : /\ todo' = todo \ {t} /\ dpc = "open"
                          /\ \/ dpc' = "open" /\ order' = order
                             \/ dpc' = "send" /\ order'.kind = "OPEN" /\ order'.trade = t
                          /\ UNCHANGED <<state, mem, fills, lostFill>>
    BY <1>7 DEF TryOpen, Request
  <2>2. dpc' = "send" => order'.trade \notin todo' /\ ~Known(mem, order'.trade)
    BY <2>1 DEF FillsOK, Opening
  <2>3. \A u \in todo' : ~Known(mem, u)
    BY <2>1 DEF FillsOK, Opening
  <2> QED BY <2>1, <2>2, <2>3 DEF FillsOK, Current, Opening, Known, SecondFillNeedsALostOne
\* An answer that changes the memory of a trade it already knows, or none at all.
<1>8. ASSUME dpc = "send", Back, UNCHANGED <<state, todo, fills, lostFill>>,
             \/ mem' = mem
             \/ order.kind # "OPEN" /\ \E n : Remember("byBook", n)
      PROVE  FillsOK'
  <2>1. order.trade \in PaperTrades /\ order.kind \in {"OPEN", "CLOSE", "SLTP"}
    BY <1>8, OrderType
  <2>2. /\ dpc' = IF order.kind = "OPEN" THEN "open" ELSE "manage"
        /\ dpc # "idle" /\ dpc' # "idle" /\ dpc' # "send"
    BY <1>8 DEF Back
  <2>3. \A t \in PaperTrades : Known(mem, t) => Known(mem', t)
    <3>1. CASE mem' = mem
      BY <3>1 DEF Known
    <3>2. ASSUME NEW n, Remember("byBook", n)
          PROVE  \A t \in PaperTrades : Known(mem, t) => Known(mem', t)
      BY <2>1, <3>2, RememberKnows DEF Remember
    <3> QED BY <1>8, <3>1, <3>2
  <2>4. dpc' = "open" => mem' = mem
    BY <1>8, <2>2
  <2>5. /\ \A t \in PaperTrades : Known(state, t) => Known(mem, t)
        /\ \A t \in PaperTrades : fills[t] >= 1 /\ t \notin lostFill => Known(mem, t)
        /\ SecondFillNeedsALostOne
    BY <1>8, <2>2 DEF FillsOK, Current
  <2>6. \A t \in PaperTrades : Known(state, t)' = Known(state, t) /\ Known(Current, t)' = Known(mem', t)
    BY <1>8, <2>2 DEF Known, Current
  <2>7. Opening' => \A t \in todo' : ~Known(mem, t)'
    BY <1>8, <2>2, <2>4 DEF FillsOK, Opening, Known
  <2>8. \A t \in PaperTrades : Known(mem, t)' = Known(mem', t)
    BY DEF Known
  <2> QED BY <1>8, <2>2, <2>3, <2>5, <2>6, <2>7, <2>8 DEF FillsOK, SecondFillNeedsALostOne
<1>9. CASE Refused
  BY <1>8, <1>9 DEF Refused
<1>10. CASE OpenAccepted
  <2> DEFINE t == order.trade
  <2>1. /\ dpc = "send" /\ order.kind = "OPEN" /\ dpc' = "open" /\ t \in PaperTrades
        /\ fills' = [fills EXCEPT ![t] = @ + 1] /\ UNCHANGED <<state, todo>>
        /\ \/ Remember("open", ticket') /\ lostFill' = lostFill
           \/ mem' = mem /\ lostFill' = lostFill \cup {t}
    BY <1>10, OrderType DEF OpenAccepted, Back
  <2>2. /\ \A u \in PaperTrades : Known(mem, u) => Known(mem', u)
        /\ t \in lostFill' \/ Known(mem', t)
    BY <2>1, RememberKnows DEF Remember
  <2>3. \A u \in PaperTrades \ {t} : Known(mem', u) = Known(mem, u)
    BY <1>0, <2>1 DEF Remember, Known, StateFiles
  <2>4. \A u \in PaperTrades : /\ Known(state, u)' = Known(state, u)
                               /\ Known(Current, u)' = Known(mem', u)
                               /\ Known(mem, u)' = Known(mem', u)
    BY <2>1 DEF Known, Current
  <2>5. \A u \in PaperTrades \ {t} : fills'[u] = fills[u]
    BY <2>1 DEF DemoTypeOK
  <2>6. fills[t] = 0 \/ t \in lostFill
    BY <2>1 DEF FillsOK, Current, DemoTypeOK
  <2>7. fills'[t] = fills[t] + 1 /\ lostFill \subseteq lostFill'
    BY <2>1 DEF DemoTypeOK
  <2>8. SecondFillNeedsALostOne'
    BY <2>5, <2>6, <2>7 DEF FillsOK, SecondFillNeedsALostOne
  <2>9. \A u \in PaperTrades : fills'[u] >= 1 /\ u \notin lostFill' => Known(mem', u)
    BY <2>1, <2>2, <2>3, <2>5, <2>7 DEF FillsOK, Current
  <2>10. \A u \in todo' : ~Known(mem, u)'
    <3>1. todo \subseteq PaperTrades /\ t \notin todo
      BY <2>1 DEF FillsOK, DemoTypeOK
    <3> QED BY <2>1, <2>3, <2>4, <3>1 DEF FillsOK, Opening
  <2>11. dpc' # "idle" => \A u \in PaperTrades : Known(state, u)' => Known(mem, u)'
    BY <2>1, <2>2, <2>4 DEF FillsOK
  <2> QED BY <2>1, <2>4, <2>8, <2>9, <2>10, <2>11 DEF FillsOK
<1>11. CASE CloseExecuted
  <2>1. /\ dpc = "send" /\ order.kind # "OPEN" /\ Back /\ UNCHANGED <<state, todo, fills, lostFill>>
        /\ mem' = mem \/ \E n : Remember("byBook", n)
    BY <1>11 DEF CloseExecuted
  <2> QED BY <1>8, <2>1
<1>12. CASE LevelsMoved
  BY <1>8, <1>12 DEF LevelsMoved
<1>13. CASE EndRun
  BY <1>13 DEF EndRun, Rest, FillsOK, Current, Opening, Known, SecondFillNeedsALostOne
<1>14. CASE DeadRun
  <2>1. /\ dpc # "idle" /\ dpc' = "idle" /\ UNCHANGED <<state, fills>>
        /\ lostFill' = lostFill \cup {t \in PaperTrades : Known(mem, t) /\ ~Known(state, t)}
    BY <1>14 DEF DeadRun
  <2>2. \A t \in PaperTrades : Known(Current, t)' = Known(state, t)
    BY <2>1 DEF Known, Current
  <2>3. \A t \in PaperTrades : fills[t] >= 1 /\ t \notin lostFill => Known(mem, t)
    BY <2>1 DEF FillsOK, Current
  <2> QED BY <2>1, <2>2, <2>3 DEF FillsOK, Opening, SecondFillNeedsALostOne
<1> QED BY <1>1, <1>2, <1>3, <1>4, <1>5, <1>6, <1>7, <1>9, <1>10, <1>11, <1>12, <1>13, <1>14
        DEF DemoNext, RunSteps

LEMMA FillsStart == DemoInit => FillsOK
<1> SUFFICES ASSUME DemoInit PROVE FillsOK
  OBVIOUS
<1>1. dpc = "idle" /\ \A t \in PaperTrades : fills[t] = 0
  BY DEF DemoInit
<1> QED BY <1>1 DEF FillsOK, Opening, SecondFillNeedsALostOne

LEMMA DemoTypedAlways == DemoSpec => []DemoTyped
<1>1. DemoInit => DemoTyped
  BY DemoConstants, DemoStart DEF DemoTyped
<1>2. DemoTyped /\ [DemoNext]_demoVars => DemoTyped'
  BY DemoConstants, DemoTypeStep DEF DemoTyped, DemoAssumptions, ManualAssumption,
     LimitsAssumption, EquityAssumption, DemoBoundsAssumption
<1> QED BY <1>1, <1>2, PTL DEF DemoSpec

LEMMA FillsAlways == DemoSpec => []FillsOK
<1>1. DemoInit => FillsOK
  BY FillsStart
<1>2. DemoTyped /\ FillsOK /\ [DemoNext]_demoVars => FillsOK'
  BY FillsStep
<1> QED BY <1>1, <1>2, DemoTypedAlways, PTL DEF DemoSpec

\* The variables of the executor keep their types, for every book and account.
THEOREM DemoTypes == DemoSpec => []DemoTypeOK
<1>1. DemoTyped => DemoTypeOK
  BY DEF DemoTyped
<1> QED BY <1>1, DemoTypedAlways, PTL

\* An opening of a trade is accepted again only if an earlier one was lost: its
\* answer never came, or the run died before it saved its state.
THEOREM SecondFill == DemoSpec => []SecondFillNeedsALostOne
<1>1. FillsOK => SecondFillNeedsALostOne
  BY DEF FillsOK
<1> QED BY <1>1, FillsAlways, PTL

LEMMA RecordedStep ==
  ASSUME DemoTyped, FillsOK, [DemoNext]_demoVars, NEW t \in PaperTrades, Known(state, t)
  PROVE  fills'[t] = fills[t] /\ Known(state', t)
<1> USE DEF DemoTyped, bookVars, brokerVars, pastVars
<1>0. mem \in StateFiles
  BY DEF DemoTypeOK
<1>1. CASE Reconcile
  <2>1. Known(mem, t) /\ UNCHANGED fills
    BY <1>1 DEF Reconcile, FillsOK
  <2>2. PICK seen : mem' = Reconciled(mem, seen) /\ state' = mem'
    BY <1>1 DEF Reconcile
  <2> QED BY <1>0, <2>1, <2>2, ReconciledKnows
<1>2. CASE OpenAccepted
  <2>1. order.trade # t /\ order.trade \in PaperTrades
    BY <1>2, OrderType DEF OpenAccepted, FillsOK
  <2>2. fills' = [fills EXCEPT ![order.trade] = @ + 1] /\ UNCHANGED state
    BY <1>2 DEF OpenAccepted
  <2> QED BY <2>1, <2>2 DEF DemoTypeOK
<1>3. CASE EndRun
  BY <1>3 DEF EndRun, FillsOK
<1>4. CASE ~(Reconcile \/ OpenAccepted \/ EndRun)
  <2>1. UNCHANGED <<state, fills>>
    BY <1>4 DEF DemoNext, RunSteps, Surroundings, demoVars, BeginRun, ManageRecord, RememberDay,
       TryOpen, Refused, CloseExecuted, LevelsMoved, DeadRun, BookMoves, PositionEnds,
       PlacedExecutes, PlacedFails, ManualOpens, EquityMoves, DateTurns
  <2> QED BY <2>1
<1> QED BY <1>1, <1>2, <1>3, <1>4

\* A trade the state file knows is never opened again, whatever became of its
\* position, and the file never forgets it.
THEOREM NeverReopened == DemoSpec => RecordedNeverReopened
<1>1. DemoTyped /\ FillsOK /\ [DemoNext]_demoVars
      => [\A t \in PaperTrades :
            Known(state, t) => fills'[t] = fills[t] /\ Known(state', t)]_demoVars
  BY RecordedStep
<1> QED BY <1>1, DemoTypedAlways, FillsAlways, PTL DEF DemoSpec, RecordedNeverReopened

-----------------------------------------------------------------------------
(* The account.                                                            *)

\* What the book has on the account: its positions, and its openings to come.
Exposure == Cardinality(Own) + Cardinality(placed)

\* An opening that is being sent still fits.
OwnOK ==
  /\ IsFiniteSet(positions)
  /\ OwnPositionsBounded
  /\ dpc = "send" /\ order.kind = "OPEN" /\ ~blind => Exposure + 1 <= MaxOpenTrades + unseen

\* Own positions are no more than all positions.
LEMMA OwnFinite ==
  ASSUME IsFiniteSet(positions)
  PROVE  /\ IsFiniteSet(Own) /\ Cardinality(Own) \in Nat /\ Cardinality(positions) \in Nat
         /\ Cardinality(Own) <= Cardinality(positions)
<1>1. Own \in SUBSET positions
  BY DEF Own
<1> QED BY <1>1, FS_Subset, FS_CardinalityType

\* No more on the account keeps the bounds.
LEMMA OwnFewer ==
  ASSUME DemoTyped, OwnOK, IsFiniteSet(positions'), Exposure' \in Nat, Exposure' <= Exposure,
         blind => blind', unseen' = unseen,
         dpc' = "send" /\ order'.kind = "OPEN" => dpc = "send" /\ order.kind = "OPEN"
  PROVE  OwnOK'
<1>1. Exposure \in Nat /\ MaxOpenTrades \in Nat /\ unseen \in Nat
  BY OwnFinite, PlacedCounted
     DEF OwnOK, Exposure, DemoTyped, DemoTypeOK, DemoAssumptions, LimitsAssumption
<1>2. \A n, m, a, b \in Nat : m <= n =>
        (n <= a + b => m <= a + b) /\ (n + 1 <= a + b => m + 1 <= a + b)
  OBVIOUS
<1>4. /\ Exposure <= MaxOpenTrades + unseen => Exposure' <= MaxOpenTrades + unseen
      /\ Exposure + 1 <= MaxOpenTrades + unseen => Exposure' + 1 <= MaxOpenTrades + unseen
  BY <1>1, <1>2, Zenon
<1>5. OwnPositionsBounded'
  <2>1. OwnPositionsBounded => (~blind => Exposure <= MaxOpenTrades + unseen)
    BY DEF OwnPositionsBounded, Exposure
  <2>2. (~blind' => Exposure' <= MaxOpenTrades + unseen') => OwnPositionsBounded'
    BY DEF OwnPositionsBounded, Exposure
  <2>3. unseen' = unseen /\ (blind => blind') /\ OwnPositionsBounded
    BY DEF OwnOK
  <2> QED BY <1>4, <2>1, <2>2, <2>3, Zenon
<1>6. dpc' = "send" /\ order'.kind = "OPEN" /\ ~blind'
      => Exposure' + 1 <= MaxOpenTrades + unseen'
  BY <1>4, Zenon DEF OwnOK
<1> QED BY <1>5, <1>6 DEF OwnOK

\* The positions S after those in T were given the level l.
Relevelled(S, T, l) == {IF p \in T THEN [p EXCEPT !.level = l] ELSE p : p \in S}

\* A set whose members are re-levelled does not grow.
LEMMA RelevelledBounded ==
  ASSUME NEW S, IsFiniteSet(S), NEW T, NEW l
  PROVE  /\ IsFiniteSet(Relevelled(S, T, l)) /\ Cardinality(Relevelled(S, T, l)) \in Nat
         /\ Cardinality(Relevelled(S, T, l)) <= Cardinality(S)
<1> DEFINE f == [p \in S |-> IF p \in T THEN [p EXCEPT !.level = l] ELSE p]
           R == Relevelled(S, T, l)
<1>1. f \in Surjection(S, R)
  BY DEF Surjection, Relevelled
<1> HIDE DEF f
<1>2. IsFiniteSet(R) /\ Cardinality(R) <= Cardinality(S)
  BY <1>1, FS_Surjection
<1> QED BY <1>2, FS_CardinalityType

LEMMA OwnStep ==
  ASSUME DemoTyped, OwnOK, [DemoNext]_demoVars
  PROVE  OwnOK'
<1> USE DEF DemoTyped, bookVars, brokerVars, pastVars, DemoGoto
<1>0. /\ IsFiniteSet(positions) /\ IsFiniteSet(Own) /\ Cardinality(Own) \in Nat
      /\ Cardinality(positions) \in Nat /\ Cardinality(Own) <= Cardinality(positions)
      /\ IsFiniteSet(placed) /\ Cardinality(placed) \in Nat
      /\ MaxOpenTrades \in Nat /\ unseen \in Nat
  BY OwnFinite, PlacedCounted DEF OwnOK, DemoAssumptions, LimitsAssumption, DemoTypeOK
\* The account keeps its positions, and no opening is sent by the step.
<1>1. ASSUME UNCHANGED <<positions, placed, unseen>>, blind => blind',
             dpc' = "send" /\ order'.kind = "OPEN" => dpc = "send" /\ order.kind = "OPEN"
      PROVE  OwnOK'
  <2>1. Exposure' = Exposure /\ Exposure \in Nat
    BY <1>0, <1>1 DEF Exposure, Own
  <2> QED BY <1>0, <1>1, <2>1, OwnFewer
<1>2. CASE UNCHANGED demoVars
  BY <1>1, <1>2 DEF demoVars
<1>3. CASE BeginRun \/ ManageRecord \/ RememberDay \/ EndRun \/ Refused
  BY <1>1, <1>3 DEF BeginRun, ManageRecord, Request, RememberDay, EndRun, Refused, Back, Rest
<1>4. CASE Reconcile
  BY <1>1, <1>4 DEF Reconcile
<1>5. CASE DeadRun
  BY <1>1, <1>5 DEF DeadRun, Rest
<1>6. CASE BookMoves \/ EquityMoves \/ DateTurns
  BY <1>1, <1>6 DEF BookMoves, EquityMoves, DateTurns
<1>7. CASE TryOpen
  <2>1. UNCHANGED <<positions, placed>> /\ Own' = Own /\ Exposure' = Exposure
    BY <1>7 DEF TryOpen, Own, Exposure
  \* What was shown keeps to the limit; what was placed is counted in unseen.
  <2>2. CASE /\ WithinLimits(Seen, 1) /\ UNCHANGED blind
             /\ unseen' = Larger(unseen, Cardinality(placed))
    <3>1. Cardinality(Own) + 1 <= MaxOpenTrades
      BY <1>0, <2>2 DEF WithinLimits, Seen
    <3>2. unseen' \in Nat /\ Cardinality(placed) <= unseen'
      BY <1>0, <2>2 DEF Larger
    <3>3. Exposure' + 1 <= MaxOpenTrades + unseen' /\ Exposure' \in Nat
      BY <1>0, <2>1, <3>1, <3>2 DEF Exposure
    <3>4. Exposure' <= MaxOpenTrades + unseen'
      BY <1>0, <2>1, <3>1, <3>2 DEF Exposure
    <3>5. OwnPositionsBounded'
      BY <3>4 DEF OwnPositionsBounded, Exposure
    <3> QED BY <1>0, <2>1, <3>3, <3>5 DEF OwnOK
  <2>3. CASE UNCHANGED <<dpc, order, mishaps, blind, unseen>>
    BY <1>1, <2>1, <2>3
  <2>4. CASE blind' = TRUE
    BY <1>0, <2>1, <2>4 DEF OwnOK, OwnPositionsBounded
  <2> QED BY <1>7, <2>2, <2>3, <2>4 DEF TryOpen
\* One more on the account, as the opening being sent has room for.
<1>8. CASE OpenAccepted
  <2> DEFINE p == NewPosition(ticket')
  <2>1. /\ blind' = blind /\ unseen' = unseen /\ dpc' # "send"
        /\ dpc = "send" /\ order.kind = "OPEN"
        /\ \/ positions' = positions \cup {p} /\ placed' = placed
           \/ placed' = placed \cup {p} /\ positions' = positions
    BY <1>8 DEF OpenAccepted, Back, Enters
  <2>2. order.trade # Manual
    BY <2>1, OrderType DEF DemoAssumptions, ManualAssumption
  <2>3. \/ Own' = Own \cup {p} /\ placed' = placed
        \/ placed' = placed \cup {p} /\ Own' = Own
    BY <2>1, <2>2 DEF Own, NewPosition
  <2> HIDE DEF p
  <2>4. IsFiniteSet(positions')
    BY <1>0, <2>1, FS_AddElement
  <2>5. /\ Cardinality(Own \cup {p}) \in {Cardinality(Own), Cardinality(Own) + 1}
        /\ Cardinality(placed \cup {p}) \in {Cardinality(placed), Cardinality(placed) + 1}
    BY <1>0, FS_AddElement
  <2>6. Exposure' \in Nat /\ Exposure' <= Exposure + 1 /\ Exposure \in Nat
    BY <1>0, <2>3, <2>5 DEF Exposure
  <2>7. ~blind' => Exposure' <= MaxOpenTrades + unseen'
    BY <1>0, <2>1, <2>6 DEF OwnOK
  <2>8. OwnPositionsBounded'
    BY <2>7 DEF OwnPositionsBounded, Exposure
  <2> QED BY <2>1, <2>4, <2>8 DEF OwnOK
\* The account only loses positions.
<1>9. ASSUME positions' \subseteq positions, placed' \subseteq placed, unseen' = unseen,
             blind => blind',
             dpc' = "send" /\ order'.kind = "OPEN" => dpc = "send" /\ order.kind = "OPEN"
      PROVE  OwnOK'
  <2>1. IsFiniteSet(positions')
    BY <1>0, <1>9, FS_Subset
  <2>2. Own' \in SUBSET Own
    BY <1>9 DEF Own
  <2>3. /\ IsFiniteSet(Own') /\ Cardinality(Own') <= Cardinality(Own)
        /\ IsFiniteSet(placed') /\ Cardinality(placed') <= Cardinality(placed)
    BY <1>0, <1>9, <2>2, FS_Subset
  <2>4. Cardinality(Own') \in Nat /\ Cardinality(placed') \in Nat
    BY <2>3, FS_CardinalityType
  <2>5. Exposure' \in Nat /\ Exposure' <= Exposure
    BY <1>0, <2>3, <2>4 DEF Exposure
  <2> QED BY <1>9, <2>1, <2>5, OwnFewer
<1>10. CASE CloseExecuted
  BY <1>9, <1>10 DEF CloseExecuted, Back
<1>11. CASE PositionEnds \/ PlacedFails
  BY <1>9, <1>11 DEF PositionEnds, PlacedFails
<1>12. CASE ManualOpens
  <2>1. PICK r : positions' = positions
                   \cup {[ticket |-> ticket', of |-> Manual, level |-> 0, risk |-> r]}
    BY <1>12 DEF ManualOpens
  <2>2. Own' = Own /\ placed' = placed
    BY <1>12, <2>1 DEF Own, ManualOpens
  <2>3. IsFiniteSet(positions')
    BY <1>0, <2>1, FS_AddElement
  <2>4. Exposure' = Exposure /\ Exposure \in Nat
    BY <1>0, <2>2 DEF Exposure
  <2> QED BY <1>0, <1>12, <2>3, <2>4, OwnFewer DEF ManualOpens
<1>13. CASE LevelsMoved
  <2> DEFINE l == level[order.trade]
  <2>1. positions' = Relevelled(positions, Target, l)
    BY <1>13 DEF LevelsMoved, Target, Relevelled
  <2>2. IsFiniteSet(positions')
    BY <1>0, <2>1, RelevelledBounded
  <2>3. \A p \in positions : [p EXCEPT !.level = l].of = p.of
    BY DEF DemoTypeOK, Positions
  <2>4. Own' = Relevelled(Own, Target, l)
    BY <2>1, <2>3 DEF Own, Relevelled
  <2>5. Cardinality(Own') \in Nat /\ Cardinality(Own') <= Cardinality(Own)
    BY <1>0, <2>4, RelevelledBounded
  <2>6. UNCHANGED <<blind, placed, unseen>> /\ dpc' # "send"
    BY <1>13 DEF LevelsMoved, Back
  <2>7. Exposure' \in Nat /\ Exposure' <= Exposure
    BY <1>0, <2>5, <2>6 DEF Exposure
  <2> QED BY <2>2, <2>6, <2>7, OwnFewer
\* What was placed becomes a position.
<1>14. CASE PlacedExecutes
  <2>1. PICK p \in placed : positions' = positions \cup {p} /\ placed' = placed \ {p}
    BY <1>14 DEF PlacedExecutes
  <2>2. IsFiniteSet(positions') /\ Own' \subseteq Own \cup {p}
    BY <1>0, <2>1, FS_AddElement DEF Own
  <2>3. /\ IsFiniteSet(Own \cup {p})
        /\ Cardinality(Own \cup {p}) \in {Cardinality(Own), Cardinality(Own) + 1}
    BY <1>0, FS_AddElement
  <2>4. Cardinality(Own') \in Nat /\ Cardinality(Own') <= Cardinality(Own \cup {p})
    BY <2>2, <2>3, FS_Subset, FS_CardinalityType
  <2>5. Cardinality(placed') = Cardinality(placed) - 1 /\ Cardinality(placed') \in Nat
    BY <1>0, <2>1, FS_RemoveElement, FS_CardinalityType
  <2>6. Cardinality(Own \cup {p}) \in Nat
    BY <2>3, FS_CardinalityType
  <2>7. Exposure' \in Nat /\ Exposure' <= Exposure
    BY <1>0, <2>3, <2>4, <2>5, <2>6 DEF Exposure
  <2> QED BY <1>14, <2>2, <2>7, OwnFewer DEF PlacedExecutes
<1> QED BY <1>2, <1>3, <1>4, <1>5, <1>6, <1>7, <1>8, <1>10, <1>11, <1>12, <1>13, <1>14
        DEF DemoNext, RunSteps, Surroundings

LEMMA OwnStart == DemoAssumptions /\ DemoInit => OwnOK
<1> SUFFICES ASSUME DemoAssumptions, DemoInit PROVE OwnOK
  OBVIOUS
<1>1. positions = {} /\ placed = {} /\ Own = {} /\ dpc = "idle" /\ unseen = 0
  BY DEF DemoInit, Own
<1>2. IsFiniteSet(positions) /\ Cardinality(Own) = 0 /\ Cardinality(placed) = 0
  BY <1>1, FS_EmptySet
<1>3. MaxOpenTrades \in Nat
  BY DEF DemoAssumptions, LimitsAssumption
<1> QED BY <1>1, <1>2, <1>3 DEF OwnOK, OwnPositionsBounded

\* While positions_get answers, the book's positions and accepted openings exceed
\* its limit by no more than the openings some check of the limit was not shown,
\* whatever its state has lost sight of.
THEOREM OwnBounded == DemoSpec => []OwnPositionsBounded
<1>1. DemoInit => OwnOK
  BY DemoConstants, OwnStart
<1>2. DemoTyped /\ OwnOK /\ [DemoNext]_demoVars => OwnOK'
  BY OwnStep
<1>3. OwnOK => OwnPositionsBounded
  BY DEF OwnOK
<1> QED BY <1>1, <1>2, <1>3, DemoTypedAlways, PTL DEF DemoSpec

-----------------------------------------------------------------------------
(* The loss of the day.                                                    *)

\* Before the run has remembered the day, its memory has the day of the file;
\* afterwards it has the first equity of a day nobody lost.  A first equity that
\* was kept by no run that died is the file's, or an older day's.
DayOK ==
  /\ dpc # "idle" => account \in Equities
  /\ state.date <= date /\ mem.date <= date
  /\ dpc # "idle" /\ ~Opening => mem.date = state.date /\ mem.equity = state.equity
  /\ Opening => mem.date # 0 /\ state.date <= mem.date
  /\ Opening /\ mem.date \notin lostDay =>
       firstEquity[mem.date] = mem.equity /\ mem.equity # 0
  /\ state.date # 0 /\ state.date \notin lostDay =>
       firstEquity[state.date] = state.equity /\ state.equity # 0
  /\ \A d \in 1..MaxDate : firstEquity[d] # 0 /\ d \notin lostDay =>
       d <= state.date \/ (Opening /\ d = mem.date)
  /\ dpc = "send" /\ order.kind = "OPEN" =>
       ~LossReaches(DailyLimit, mem.equity, order.equity)

\* A step that leaves the days of the file and of the memory alone.
LEMMA DayUntouched ==
  ASSUME DemoTypeOK, DayOK, date \in Nat, date' \in Nat, date <= date',
         state'.date = state.date, state'.equity = state.equity,
         mem'.date = mem.date, mem'.equity = mem.equity, mem.date \in Nat, state.date \in Nat,
         UNCHANGED <<account, firstEquity, lostDay>>,
         (dpc' = "idle") <=> (dpc = "idle"), Opening' <=> Opening,
         dpc' = "send" /\ order'.kind = "OPEN" =>
           ~LossReaches(DailyLimit, mem.equity, order'.equity)
  PROVE  DayOK'
<1>1. state'.date <= date' /\ mem'.date <= date'
  BY DEF DayOK
<1> QED BY <1>1 DEF DayOK

LEMMA DayStep ==
  ASSUME DemoTyped, DayOK, [DemoNext]_demoVars
  PROVE  DayOK'
<1> USE DEF DemoTyped, bookVars, brokerVars, pastVars, DemoGoto
<1>0. /\ state \in StateFiles /\ mem \in StateFiles /\ date \in 1..MaxDate /\ MaxDate \in Nat
      /\ state.date \in 0..MaxDate /\ mem.date \in 0..MaxDate
      /\ date \in Nat /\ state.date \in Nat /\ mem.date \in Nat
  BY DEF DemoTypeOK, StateFiles, DemoAssumptions, DemoBoundsAssumption
\* The day, the files and the openings stand still.
<1>1. ASSUME UNCHANGED <<state, mem, account, firstEquity, lostDay, date, dpc>>,
             dpc = "send" => UNCHANGED order
      PROVE  DayOK'
  <2>1. dpc' = "send" /\ order'.kind = "OPEN" =>
          ~LossReaches(DailyLimit, mem.equity, order'.equity)
    BY <1>1 DEF DayOK
  <2>2. Opening' <=> Opening
    BY <1>1 DEF Opening
  <2> QED BY <1>0, <1>1, <2>1, <2>2, DayUntouched
<1>2. CASE UNCHANGED demoVars
  BY <1>1, <1>2 DEF demoVars
<1>3. CASE BookMoves \/ PositionEnds \/ PlacedExecutes \/ PlacedFails \/ ManualOpens \/ EquityMoves
  BY <1>1, <1>3 DEF BookMoves, PositionEnds, PlacedExecutes, PlacedFails, ManualOpens, EquityMoves
<1>4. CASE DateTurns
  <2>1. /\ UNCHANGED <<state, mem, account, firstEquity, lostDay, dpc, order>>
        /\ date' \in Nat /\ date <= date'
    BY <1>0, <1>4 DEF DateTurns
  <2>2. dpc' = "send" /\ order'.kind = "OPEN" =>
          ~LossReaches(DailyLimit, mem.equity, order'.equity)
    BY <2>1 DEF DayOK
  <2>3. Opening' <=> Opening
    BY <2>1 DEF Opening
  <2> QED BY <1>0, <2>1, <2>2, <2>3, DayUntouched
<1>5. CASE BeginRun
  <2>1. /\ dpc = "idle" /\ dpc' = "reconcile" /\ mem' = state /\ account' \in Equities
        /\ UNCHANGED <<state, date, firstEquity, lostDay>>
    BY <1>5 DEF BeginRun, DemoTypeOK
  <2>2. ~Opening /\ ~Opening'
    BY <2>1 DEF Opening
  <2> QED BY <2>1, <2>2 DEF DayOK
<1>6. CASE Reconcile
  <2>1. PICK seen : mem' = Reconciled(mem, seen) /\ state' = mem'
    BY <1>6 DEF Reconcile
  <2>2. mem'.date = mem.date /\ mem'.equity = mem.equity
    BY <1>0, <2>1 DEF Reconciled, StateFiles
  <2>3. /\ dpc = "reconcile" /\ dpc' = "manage"
        /\ UNCHANGED <<date, account, firstEquity, lostDay>>
    BY <1>6 DEF Reconcile
  <2>4. ~Opening /\ ~Opening'
    BY <2>3 DEF Opening
  <2>5. state'.date = state.date /\ state'.equity = state.equity
    BY <2>1, <2>2, <2>3, <2>4 DEF DayOK
  <2> QED BY <1>0, <2>2, <2>3, <2>4, <2>5, DayUntouched
<1>7. CASE ManageRecord
  <2>1. /\ dpc = "manage" /\ dpc' \in {"manage", "send"} /\ (dpc' = "send" => order'.kind # "OPEN")
        /\ UNCHANGED <<state, mem, date, account, firstEquity, lostDay>>
    BY <1>7 DEF ManageRecord, Request
  <2>2. ~Opening /\ ~Opening'
    BY <2>1 DEF Opening
  <2> QED BY <1>0, <2>1, <2>2, DayUntouched
<1>8. CASE RememberDay
  <2>1. /\ dpc = "manage" /\ dpc' = "open" /\ account \in Equities
        /\ UNCHANGED <<state, date, account, lostDay>>
        /\ mem' = IF mem.date = date THEN mem
                  ELSE [mem EXCEPT !.date = date, !.equity = account]
        /\ firstEquity' = IF firstEquity[date] = 0 THEN [firstEquity EXCEPT ![date] = account]
                          ELSE firstEquity
    BY <1>8 DEF RememberDay, DayOK
  <2>2. ~Opening /\ Opening' /\ mem.date = state.date /\ mem.equity = state.equity
    BY <2>1 DEF Opening, DayOK
  <2>3. mem'.date = date /\ date # 0
    BY <1>0, <2>1 DEF StateFiles
  <2>4. account # 0
    BY <2>1 DEF DemoAssumptions, EquityAssumption
  <2>5. \A d \in 1..MaxDate : d # date => firstEquity'[d] = firstEquity[d]
    BY <2>1 DEF DemoTypeOK
  <2>6. date \notin lostDay => firstEquity'[date] = mem'.equity /\ mem'.equity # 0
    <3> SUFFICES ASSUME date \notin lostDay
                 PROVE  firstEquity'[date] = mem'.equity /\ mem'.equity # 0
      OBVIOUS
    <3>1. CASE mem.date = date
      <4>1. firstEquity[date] = mem.equity /\ mem.equity # 0
        BY <1>0, <2>2, <3>1 DEF DayOK
      <4> QED BY <2>1, <3>1, <4>1
    <3>2. CASE mem.date # date
      <4>1. state.date <= date /\ state.date # date
        BY <2>2, <3>2 DEF DayOK
      <4>2. firstEquity[date] = 0
        BY <1>0, <2>2, <4>1 DEF DayOK
      <4>3. mem'.equity = account
        BY <1>0, <2>1, <3>2 DEF StateFiles
      <4>4. firstEquity'[date] = account
        BY <1>0, <2>1, <4>2 DEF DemoTypeOK
      <4> QED BY <2>4, <4>3, <4>4
    <3> QED BY <3>1, <3>2
  <2>7. state.date # 0 /\ state.date \notin lostDay =>
          firstEquity'[state.date] = state.equity /\ state.equity # 0
    <3>1. CASE state.date = date
      BY <2>1, <2>2, <2>6, <3>1
    <3>2. CASE state.date # date
      BY <1>0, <2>5, <3>2 DEF DayOK
    <3> QED BY <3>1, <3>2
  <2>8. \A d \in 1..MaxDate : firstEquity'[d] # 0 /\ d \notin lostDay =>
          d <= state.date \/ d = date
    BY <2>2, <2>5 DEF DayOK
  <2>9. state.date <= date
    BY DEF DayOK
  <2> QED BY <1>0, <2>1, <2>2, <2>3, <2>6, <2>7, <2>8, <2>9 DEF DayOK
<1>9. CASE TryOpen
  <2>1. /\ dpc = "open" /\ UNCHANGED <<state, mem, date, account, firstEquity, lostDay>>
        /\ \/ dpc' = "open"
           \/ /\ dpc' = "send" /\ order'.kind = "OPEN" /\ order'.equity = equity
              /\ ~LossReaches(DailyLimit, mem.equity, equity)
    BY <1>9 DEF TryOpen, Request, WithinLimits
  <2>2. Opening /\ Opening'
    BY <2>1 DEF Opening
  <2> QED BY <1>0, <2>1, <2>2, DayUntouched
\* The answer to an order.
<1>10. ASSUME dpc = "send", Back, UNCHANGED <<state, date, account, firstEquity, lostDay>>,
              mem' = mem \/ \E st, n : Remember(st, n)
       PROVE  DayOK'
  <2>1. mem'.date = mem.date /\ mem'.equity = mem.equity
    BY <1>0, <1>10 DEF Remember, StateFiles
  <2>2. (Opening' <=> Opening) /\ dpc' \notin {"send", "idle"}
    BY <1>10 DEF Opening, Back
  <2> QED BY <1>0, <1>10, <2>1, <2>2, DayUntouched
<1>11. CASE Refused \/ LevelsMoved
  BY <1>10, <1>11 DEF Refused, LevelsMoved
<1>12. CASE OpenAccepted
  BY <1>10, <1>12 DEF OpenAccepted
<1>13. CASE CloseExecuted
  BY <1>10, <1>13 DEF CloseExecuted
<1>14. CASE EndRun
  <2>1. /\ dpc = "open" /\ dpc' = "idle" /\ state' = mem /\ mem'.date = 0
        /\ UNCHANGED <<date, firstEquity, lostDay>>
    BY <1>14 DEF EndRun, Rest, Empty
  <2>2. Opening /\ ~Opening'
    BY <2>1 DEF Opening
  <2>3. \A d \in 1..MaxDate : firstEquity[d] # 0 /\ d \notin lostDay => d <= mem.date
    BY <1>0, <2>2 DEF DayOK
  <2> QED BY <1>0, <2>1, <2>2, <2>3 DEF DayOK
<1>15. CASE DeadRun
  <2>1. /\ dpc # "idle" /\ dpc' = "idle" /\ mem'.date = 0
        /\ UNCHANGED <<state, date, firstEquity>>
        /\ lostDay' = IF mem.date # state.date THEN lostDay \cup {mem.date} ELSE lostDay
    BY <1>15 DEF DeadRun, Rest, Empty
  <2>2. ~Opening'
    BY <2>1 DEF Opening
  <2>3. \A d \in 1..MaxDate : firstEquity[d] # 0 /\ d \notin lostDay' => d <= state.date
    BY <1>0, <2>1 DEF DayOK
  <2> QED BY <1>0, <2>1, <2>2, <2>3 DEF DayOK
<1> QED BY <1>2, <1>3, <1>4, <1>5, <1>6, <1>7, <1>8, <1>9, <1>11, <1>12, <1>13, <1>14, <1>15
        DEF DemoNext, RunSteps, Surroundings

LEMMA DayStart == DemoInit => DayOK
<1> SUFFICES ASSUME DemoInit PROVE DayOK
  OBVIOUS
<1>1. /\ dpc = "idle" /\ state.date = 0 /\ mem.date = 0 /\ date = 1
      /\ \A d \in 1..MaxDate : firstEquity[d] = 0
  BY DEF DemoInit, Empty
<1> QED BY <1>1 DEF DayOK, Opening

\* No opening is sent after a day has lost its limit, measured from the first
\* equity of the day, on any day whose first equity was not lost.
THEOREM DailyLoss == DemoSpec => []DailyLossStopsEntries
<1>1. DemoInit => DayOK
  BY DayStart
<1>2. DemoTyped /\ DayOK /\ [DemoNext]_demoVars => DayOK'
  BY DayStep
<1>3. DayOK => DailyLossStopsEntries
  BY DEF DayOK, Opening, DailyLossStopsEntries
<1> QED BY <1>1, <1>2, <1>3, DemoTypedAlways, PTL DEF DemoSpec

-----------------------------------------------------------------------------
(* Whose the positions are.                                                *)

\* What the broker has given a ticket to, executed or not.
Given == positions \cup placed

\* A state names only tickets the broker has given, and a position only under
\* the trade it belongs to.
Names(s) ==
  \A t \in PaperTrades :
    /\ s.trades[t].ticket <= ticket
    /\ \A p \in Given : p.ticket = s.trades[t].ticket => p.of = t

TicketsOK ==
  /\ \A p \in Given : p.ticket <= ticket
  /\ Names(state) /\ Names(mem)
  /\ dpc = "send" /\ order.kind = "CLOSE" => paper[order.trade] # "open"

LEMMA TicketTypes ==
  ASSUME DemoTyped
  PROVE  /\ ticket \in Nat /\ \A p \in Given : p.ticket \in Nat \ {0}
         /\ \A s \in {state, mem} : /\ s.trades \in [PaperTrades -> Records]
                                    /\ \A t \in PaperTrades : s.trades[t].ticket \in Nat
<1>1. MaxTicket \in Nat
  BY DEF DemoTyped, DemoAssumptions, DemoBoundsAssumption
<1>2. /\ ticket \in 0..MaxTicket /\ Given \subseteq Positions
      /\ state \in StateFiles /\ mem \in StateFiles
  BY DEF DemoTyped, DemoTypeOK, Given
<1>3. \A s \in {state, mem} : s.trades \in [PaperTrades -> Records]
  BY <1>2 DEF StateFiles
<1>4. \A s \in {state, mem} : \A t \in PaperTrades : s.trades[t] \in Records
  BY <1>3
<1> QED BY <1>1, <1>2, <1>3, <1>4 DEF Positions, Records

\* A state whose tickets are an earlier one's, or none, names no other positions
\* when none was opened.
LEMMA NamesKept ==
  ASSUME DemoTyped, NEW s, Names(s), NEW r, ticket' = ticket,
         \A t \in PaperTrades : r.trades[t].ticket \in {0, s.trades[t].ticket},
         \A q \in Given' : \E p \in Given : p.ticket = q.ticket /\ p.of = q.of
  PROVE  \A t \in PaperTrades :
           /\ r.trades[t].ticket <= ticket'
           /\ \A q \in Given' : q.ticket = r.trades[t].ticket => q.of = t
<1> SUFFICES ASSUME NEW t \in PaperTrades
             PROVE  /\ r.trades[t].ticket <= ticket'
                    /\ \A q \in Given' : q.ticket = r.trades[t].ticket => q.of = t
  OBVIOUS
<1>1. /\ s.trades[t].ticket <= ticket
      /\ \A p \in Given : p.ticket = s.trades[t].ticket => p.of = t
  BY DEF Names
<1>2. ticket \in Nat /\ \A p \in Given : p.ticket # 0
  BY TicketTypes
<1>3. CASE r.trades[t].ticket = 0
  BY <1>2, <1>3
<1>4. CASE r.trades[t].ticket = s.trades[t].ticket
  BY <1>1, <1>4
<1> QED BY <1>3, <1>4

\* A state that learns at most the ticket just given, of the trade it was given
\* for, when that is the one position that has come.
LEMMA NamesGrow ==
  ASSUME DemoTyped, NEW s \in {state, mem}, Names(s), NEW r, NEW u, ticket' = ticket + 1,
         \A p \in Given : p.ticket <= ticket,
         \A t \in PaperTrades :
           \/ r.trades[t].ticket = s.trades[t].ticket
           \/ t = u /\ r.trades[t].ticket = ticket',
         \A q \in Given' : q \in Given \/ (q.ticket = ticket' /\ q.of = u)
  PROVE  \A t \in PaperTrades :
           /\ r.trades[t].ticket <= ticket'
           /\ \A q \in Given' : q.ticket = r.trades[t].ticket => q.of = t
<1> SUFFICES ASSUME NEW t \in PaperTrades
             PROVE  /\ r.trades[t].ticket <= ticket'
                    /\ \A q \in Given' : q.ticket = r.trades[t].ticket => q.of = t
  OBVIOUS
<1>1. /\ s.trades[t].ticket <= ticket
      /\ \A p \in Given : p.ticket = s.trades[t].ticket => p.of = t
  BY DEF Names
<1>2. /\ ticket \in Nat /\ s.trades[t].ticket \in Nat
      /\ \A p \in Given : p.ticket \in Nat
  BY TicketTypes
<1>3. CASE r.trades[t].ticket = s.trades[t].ticket
  BY <1>1, <1>2, <1>3
<1>4. CASE t = u /\ r.trades[t].ticket = ticket'
  BY <1>2, <1>4
<1> QED BY <1>3, <1>4

LEMMA TicketsStep ==
  ASSUME DemoTyped, TicketsOK, [DemoNext]_demoVars
  PROVE  TicketsOK'
<1> USE DEF bookVars, brokerVars, pastVars, DemoGoto
<1>0. /\ Names(state) /\ Names(mem) /\ \A p \in Given : p.ticket <= ticket
      /\ mem.trades \in [PaperTrades -> Records] /\ mem \in StateFiles
  BY TicketTypes DEF TicketsOK, DemoTyped, DemoTypeOK
\* Steps that open nothing: positions go or are levelled, states are copied.
<1>1. ASSUME ticket' = ticket,
             \A q \in Given' : \E p \in Given : p.ticket = q.ticket /\ p.of = q.of,
             \E s \in {state, mem} :
               \A t \in PaperTrades : state'.trades[t].ticket \in {0, s.trades[t].ticket},
             \E s \in {state, mem} :
               \A t \in PaperTrades : mem'.trades[t].ticket \in {0, s.trades[t].ticket},
             dpc' = "send" /\ order'.kind = "CLOSE" => paper'[order'.trade] # "open"
      PROVE  TicketsOK'
  <2>1. Names(state)'
    <3>1. PICK s \in {state, mem} :
            \A t \in PaperTrades : state'.trades[t].ticket \in {0, s.trades[t].ticket}
      BY <1>1
    <3>2. Names(s)
      BY <1>0
    <3>3. \A t \in PaperTrades :
            /\ state'.trades[t].ticket <= ticket'
            /\ \A q \in Given' : q.ticket = state'.trades[t].ticket => q.of = t
      BY <1>1, <3>1, <3>2, NamesKept
    <3> QED BY <3>3 DEF Names
  <2>2. Names(mem)'
    <3>1. PICK s \in {state, mem} :
            \A t \in PaperTrades : mem'.trades[t].ticket \in {0, s.trades[t].ticket}
      BY <1>1
    <3>2. Names(s)
      BY <1>0
    <3>3. \A t \in PaperTrades :
            /\ mem'.trades[t].ticket <= ticket'
            /\ \A q \in Given' : q.ticket = mem'.trades[t].ticket => q.of = t
      BY <1>1, <3>1, <3>2, NamesKept
    <3> QED BY <3>3 DEF Names
  <2>3. \A p \in Given' : p.ticket <= ticket'
    BY <1>0, <1>1
  <2> QED BY <1>1, <2>1, <2>2, <2>3 DEF TicketsOK
<1>2. CASE UNCHANGED demoVars
  BY <1>2, <1>1 DEF demoVars, TicketsOK, Given
<1>3. CASE BookMoves \/ PositionEnds \/ PlacedExecutes \/ PlacedFails \/ EquityMoves \/ DateTurns
  <2>1. /\ UNCHANGED <<ticket, state, mem, dpc, order>> /\ Given' \subseteq Given
        /\ dpc = "send" => paper' = paper
    BY <1>3 DEF BookMoves, PositionEnds, PlacedExecutes, PlacedFails, EquityMoves, DateTurns,
                Given
  <2> QED BY <2>1, <1>1 DEF TicketsOK
\* A ticket just given to somebody else is in no state.
<1>4. CASE ManualOpens
  <2>1. /\ UNCHANGED <<state, mem, dpc, order, paper>> /\ ticket' = ticket + 1
        /\ \A q \in Given' : q \in Given \/ (q.ticket = ticket' /\ q.of = Manual)
    BY <1>4 DEF ManualOpens, Given
  <2>2. ASSUME NEW s \in {state, mem}, NEW t \in PaperTrades
        PROVE  /\ s.trades[t].ticket <= ticket'
               /\ \A q \in Given' : q.ticket = s.trades[t].ticket => q.of = t
    <3>1. /\ s.trades[t].ticket <= ticket /\ s.trades[t].ticket \in Nat /\ ticket \in Nat
          /\ \A q \in Given : q.ticket = s.trades[t].ticket => q.of = t
      BY <1>0, TicketTypes DEF Names
    <3> QED BY <2>1, <3>1
  <2>3. Names(state)' /\ Names(mem)'
    BY <2>1, <2>2 DEF Names
  <2>4. \A p \in Given' : p.ticket <= ticket'
    BY <1>0, <2>1, TicketTypes
  <2> QED BY <2>1, <2>3, <2>4 DEF TicketsOK
<1>5. CASE BeginRun
  BY <1>5, <1>1 DEF BeginRun, Given
<1>6. CASE Reconcile
  <2>1. PICK seen : mem' = Reconciled(mem, seen)
    BY <1>6 DEF Reconcile
  <2>2. \A t \in PaperTrades : mem'.trades[t].ticket = mem.trades[t].ticket
    BY <1>0, <2>1 DEF Reconciled, StateFiles, Records
  <2> QED BY <1>6, <2>2, <1>1 DEF Reconcile, Given
<1>7. CASE ManageRecord
  <2>1. dpc' = "send" /\ order'.kind = "CLOSE" => paper[order'.trade] # "open"
    BY <1>7 DEF ManageRecord, Request
  <2> QED BY <1>7, <2>1, <1>1 DEF ManageRecord, Given
<1>8. CASE RememberDay
  <2>1. mem'.trades = mem.trades /\ dpc' = "open"
    BY <1>0, <1>8 DEF RememberDay, StateFiles
  <2> QED BY <1>8, <2>1, <1>1 DEF RememberDay, Given
<1>9. CASE TryOpen
  <2>1. dpc' = "send" => order'.kind = "OPEN"
    BY <1>9 DEF TryOpen, Request
  <2> QED BY <1>9, <2>1, <1>1 DEF TryOpen, Given
<1>10. CASE Refused
  <2>1. dpc' # "send"
    BY <1>10 DEF Refused, Back
  <2> QED BY <1>10, <2>1, <1>1 DEF Refused, Given
<1>11. CASE OpenAccepted
  <2>1. PICK u \in PaperTrades :
        /\ dpc' = "open" /\ state' = state /\ ticket' = ticket + 1
        /\ u = order.trade
        /\ \A q \in Given' : q \in Given \/ (q.ticket = ticket' /\ q.of = u)
        /\ Remember("open", ticket') \/ mem' = mem
    BY <1>11, OrderType DEF OpenAccepted, Enters, NewPosition, Back, DemoTyped, Given
  <2>2. Names(state)'
    <3>1. \A t \in PaperTrades : \/ state'.trades[t].ticket = state.trades[t].ticket
                                 \/ t = u /\ state'.trades[t].ticket = ticket'
      BY <2>1
    <3>2. \A t \in PaperTrades :
            /\ state'.trades[t].ticket <= ticket'
            /\ \A q \in Given' : q.ticket = state'.trades[t].ticket => q.of = t
      <4>1. state \in {state, mem} /\ Names(state) /\ \A p \in Given : p.ticket <= ticket
        BY <1>0
      <4>2. ticket' = ticket + 1
            /\ \A q \in Given' : q \in Given \/ (q.ticket = ticket' /\ q.of = u)
        BY <2>1
      <4> QED BY <4>1, <4>2, <3>1, NamesGrow
    <3> QED BY <3>2 DEF Names
  <2>3. \A t \in PaperTrades : \/ mem'.trades[t].ticket = mem.trades[t].ticket
                               \/ t = u /\ mem'.trades[t].ticket = ticket'
    BY <1>0, <2>1 DEF Remember, StateFiles
  <2>4. Names(mem)'
    <3>1. \A t \in PaperTrades : \/ mem'.trades[t].ticket = mem.trades[t].ticket
                                 \/ t = u /\ mem'.trades[t].ticket = ticket'
      BY <1>0, <2>1, <2>3
    <3>2. \A t \in PaperTrades :
            /\ mem'.trades[t].ticket <= ticket'
            /\ \A q \in Given' : q.ticket = mem'.trades[t].ticket => q.of = t
      <4>1. mem \in {state, mem} /\ Names(mem) /\ \A p \in Given : p.ticket <= ticket
        BY <1>0
      <4>2. ticket' = ticket + 1
            /\ \A q \in Given' : q \in Given \/ (q.ticket = ticket' /\ q.of = u)
        BY <2>1
      <4> QED BY <4>1, <4>2, <3>1, NamesGrow
    <3> QED BY <3>2 DEF Names
  <2>5. \A p \in Given' : p.ticket <= ticket'
    BY <1>0, <2>1, TicketTypes
  <2> QED BY <2>1, <2>2, <2>4, <2>5 DEF TicketsOK
<1>12. CASE CloseExecuted
  <2>1. /\ ticket' = ticket /\ Given' \subseteq Given /\ state' = state
        /\ dpc' # "send" /\ order.trade \in PaperTrades
        /\ mem' = mem \/ Remember("byBook", mem.trades[order.trade].ticket)
    BY <1>12, OrderType DEF CloseExecuted, Back, DemoTyped, Given
  <2>2. \A t \in PaperTrades : mem'.trades[t].ticket = mem.trades[t].ticket
    BY <1>0, <2>1 DEF Remember, StateFiles
  <2> QED BY <2>1, <2>2, <1>1
<1>13. CASE LevelsMoved
  <2>1. /\ ticket' = ticket /\ state' = state /\ mem' = mem /\ dpc' # "send"
        /\ positions' = (positions \ Target)
                          \cup {[p EXCEPT !.level = level[order.trade]] : p \in Target}
        /\ Target \subseteq positions /\ placed' = placed
    BY <1>13 DEF LevelsMoved, Back, Target
  <2>2. \A p \in Given : LET q == [p EXCEPT !.level = level[order.trade]]
                             IN  q.ticket = p.ticket /\ q.of = p.of
    BY DEF DemoTyped, DemoTypeOK, Positions, Given
  <2>3. \A q \in Given' : \E p \in Given : p.ticket = q.ticket /\ p.of = q.of
    BY <2>1, <2>2 DEF Given
  <2> QED BY <2>1, <2>3, <1>1
<1>14. CASE EndRun \/ DeadRun
  <2>1. /\ ticket' = ticket /\ Given' = Given /\ state' \in {state, mem}
        /\ mem' = Empty /\ dpc' = "idle"
    BY <1>14 DEF EndRun, DeadRun, Rest, Given
  <2>2. \A t \in PaperTrades : mem'.trades[t].ticket = 0
    BY <2>1 DEF Empty, NoRecord
  <2> QED BY <2>1, <2>2, <1>1
<1> QED BY <1>2, <1>3, <1>4, <1>5, <1>6, <1>7, <1>8, <1>9, <1>10, <1>11, <1>12, <1>13, <1>14
        DEF DemoNext, RunSteps, Surroundings

LEMMA TicketsStart == DemoInit => TicketsOK
<1> SUFFICES ASSUME DemoInit PROVE TicketsOK
  OBVIOUS
<1>1. /\ Given = {} /\ ticket = 0 /\ dpc = "idle"
      /\ \A t \in PaperTrades : state.trades[t].ticket = 0 /\ mem.trades[t].ticket = 0
  BY DEF DemoInit, Empty, NoRecord, Given
<1> QED BY <1>1 DEF TicketsOK, Names

\* A step that is not the market's, a colleague's or the broker's own.
LEMMA FollowsStep ==
  ASSUME DemoTyped, TicketsOK, [DemoNext]_demoVars, moves' = moves,
         NEW p \in positions \ positions'
  PROVE  /\ p.of # Manual
         /\ paper[p.of] # "open" \/ [p EXCEPT !.level = level[p.of]] \in positions'
<1>1. moves \in Nat /\ Manual \notin PaperTrades
  BY DEF DemoTyped, DemoTypeOK, DemoAssumptions, ManualAssumption, DemoBoundsAssumption
<1>2. ~PositionEnds /\ ~PlacedExecutes /\ ~PlacedFails
  <2>1. ~PositionEnds
    BY <1>1 DEF PositionEnds, Move
  <2>2. ~PlacedExecutes /\ ~PlacedFails
    <3>1. PlacedExecutes \/ PlacedFails => positions \subseteq positions'
      BY DEF PlacedExecutes, PlacedFails
    <3> QED BY <3>1
  <2> QED BY <2>1, <2>2
<1>3. CloseExecuted \/ LevelsMoved
  <2>1. \/ UNCHANGED demoVars \/ BeginRun \/ Reconcile \/ ManageRecord \/ RememberDay
        \/ TryOpen \/ Refused \/ OpenAccepted \/ EndRun \/ DeadRun \/ BookMoves
        \/ ManualOpens \/ EquityMoves \/ DateTurns
        => positions \subseteq positions'
    BY DEF demoVars, BeginRun, Reconcile, ManageRecord, RememberDay, TryOpen, Refused,
       OpenAccepted, Enters, EndRun, DeadRun, BookMoves, ManualOpens, EquityMoves, DateTurns,
       bookVars, brokerVars
  <2>2. ~(positions \subseteq positions')
    OBVIOUS
  <2> QED BY <1>2, <2>1, <2>2 DEF DemoNext, RunSteps, Surroundings
<1>4. dpc = "send" /\ p \in Target
  BY <1>3 DEF CloseExecuted, LevelsMoved
<1>5. p.of = order.trade /\ order.trade \in PaperTrades
  BY <1>4, OrderType DEF Target, TicketsOK, Names, DemoTyped, Given
<1>6. CASE CloseExecuted
  BY <1>1, <1>4, <1>5, <1>6 DEF CloseExecuted, TicketsOK
<1>7. CASE LevelsMoved
  BY <1>1, <1>4, <1>5, <1>7 DEF LevelsMoved
<1> QED BY <1>3, <1>6, <1>7

\* The executor ends and changes nothing on the account but positions of its own
\* book, and those only as the book says: for any other positions there, whatever
\* was filled without an answer, stopped out or read as an empty account.
THEOREM FollowsBook == DemoSpec => AccountFollowsBook
<1>1. DemoTyped /\ TicketsOK /\ [DemoNext]_demoVars => TicketsOK'
  BY TicketsStep
<1>2. DemoTyped /\ TicketsOK /\ [DemoNext]_demoVars
      => [moves' = moves =>
            \A p \in positions \ positions' :
              /\ p.of # Manual
              /\ paper[p.of] # "open" \/ [p EXCEPT !.level = level[p.of]] \in positions']_demoVars
  BY FollowsStep
<1> QED BY <1>1, <1>2, TicketsStart, DemoTypedAlways, PTL DEF DemoSpec, AccountFollowsBook

-----------------------------------------------------------------------------
(* The end of a run.                                                       *)

LEMMA RunAdvances ==
  ASSUME DemoTyped, RunSteps \/ DeadRun
  PROVE  NearerToEnd
<1> USE DEF DemoGoto, NearerToEnd, LoopOf, Stage
<1>1. dpc \in {"idle", "reconcile", "manage", "open", "send"}
  BY DEF DemoTyped, DemoTypeOK
<1>2. CASE Reconcile
  BY <1>2 DEF Reconcile
<1>3. CASE ManageRecord
  <2>1. /\ dpc = "manage" /\ \E t \in todo : todo' = todo \ {t}
        /\ dpc' = "manage" \/ (dpc' = "send" /\ order'.kind # "OPEN")
    BY <1>3 DEF ManageRecord, Request
  <2> QED BY <2>1
<1>4. CASE RememberDay
  BY <1>4 DEF RememberDay
<1>5. CASE TryOpen
  <2>1. /\ dpc = "open" /\ \E t \in todo : todo' = todo \ {t}
        /\ dpc' = "open" \/ (dpc' = "send" /\ order'.kind = "OPEN")
    BY <1>5 DEF TryOpen, Request
  <2> QED BY <2>1
<1>6. CASE Refused \/ OpenAccepted \/ CloseExecuted \/ LevelsMoved
  <2>1. dpc = "send" /\ Back /\ todo' = todo
    BY <1>6 DEF Refused, OpenAccepted, CloseExecuted, LevelsMoved
  <2> QED BY <2>1 DEF Back
<1>7. CASE EndRun
  BY <1>7 DEF EndRun
<1>8. CASE DeadRun
  BY <1>1, <1>8 DEF DeadRun
<1> QED BY <1>2, <1>3, <1>4, <1>5, <1>6, <1>7, <1>8 DEF RunSteps

\* Every step of a run brings it nearer to its end and nothing sets it back: the
\* half of BookIsMirrored that does not depend on the scheduler.
THEOREM RunsEnd == DemoSpec => EveryRunEnds
<1>1. DemoTyped /\ [DemoNext]_demoVars
      => [dpc # "idle" => NearerToEnd \/ (~RunSteps /\ UNCHANGED <<dpc, todo, order>>)]_demoVars
  <2> SUFFICES ASSUME DemoTyped, DemoNext, dpc # "idle", ~NearerToEnd
               PROVE  ~RunSteps /\ UNCHANGED <<dpc, todo, order>>
    OBVIOUS
  <2>1. ~RunSteps /\ ~DeadRun /\ ~BeginRun
    BY RunAdvances DEF BeginRun
  <2>2. Surroundings
    BY <2>1 DEF DemoNext
  <2> QED BY <2>1, <2>2
          DEF Surroundings, BookMoves, PositionEnds, PlacedExecutes, PlacedFails, ManualOpens,
              EquityMoves, DateTurns
<1> QED BY <1>1, DemoTypedAlways, PTL DEF DemoSpec, EveryRunEnds
=============================================================================
