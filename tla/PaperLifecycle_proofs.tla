----------------------- MODULE PaperLifecycle_proofs -----------------------
(***************************************************************************)
(* Theorems about PaperLifecycle, for every set of signals and all bounds. *)
(*                                                                         *)
(* The inductive invariant Inv is the conjunction of seven parts: typing   *)
(* (Flags for the Booleans, Data for the rest), who owns the cycle         *)
(* (CycleInv), what the book owes the audit (BookInv), the pause           *)
(* (PauseInv), the ledger's halt (LedgerInv), its pause (HaltedInv) and    *)
(* the final audit (AuditInv).  Each is preserved by every action (the     *)
(* ...Step lemmas).                                                        *)
(***************************************************************************)
EXTENDS PaperLifecycle, TLAPS

\* Every control location an action goes to is one of Control.
LEMMA Locations ==
  /\ "start" \in Control /\ "clearRead" \in Control /\ "clearWrite" \in Control
  /\ "recover" \in Control /\ "poll" \in Control /\ "begin" \in Control
  /\ "received" \in Control /\ "intent" \in Control /\ "manage" \in Control
  /\ "closeAudit" \in Control /\ "refresh" \in Control /\ "sync" \in Control
  /\ "pauseWrite" \in Control /\ "dayWrite" \in Control /\ "expire" \in Control
  /\ "resume" \in Control /\ "candidate" \in Control /\ "decide" \in Control
  /\ "fill" \in Control /\ "opened" \in Control /\ "complete" \in Control
  /\ "clearIntent" \in Control /\ "after" \in Control /\ "skip" \in Control
  /\ "skipAudit" \in Control /\ "skipped" \in Control /\ "integrity" \in Control
  /\ "stopped" \in Control /\ "halt" \in Control /\ "haltMark" \in Control
  /\ "haltPause" \in Control /\ "haltAudit" \in Control /\ "haltComplete" \in Control
  /\ "off" \in Control /\ "loop" \in Control /\ "acquire" \in Control
  /\ "stopping" \in Control /\ "decorate" \in Control
  BY DEF Control, Fallible, Halting

\* TypeOK, the Boolean variables.
Flags ==
  /\ latched \in BOOLEAN /\ intent \in BOOLEAN /\ dayHalted \in [Days -> BOOLEAN]
  /\ certain \in BOOLEAN /\ consume \in BOOLEAN /\ interrupted \in BOOLEAN
  /\ sawPause \in BOOLEAN /\ kill \in BOOLEAN /\ final \in BOOLEAN
  /\ opResume \in BOOLEAN /\ dirty \in BOOLEAN /\ orphan \in BOOLEAN /\ doubt \in BOOLEAN

\* TypeOK, the other variables; an evaluated candidate is a signal.
Data ==
  /\ book \in [Signals -> Statuses]
  /\ auditMark \in {"unset", "incomplete", "complete"}
  /\ pause \in {"none", "operator", "daily", "halt"} /\ haltDay \in 0..MaxDay
  /\ stopReq \in {"none", "stale", "fresh"}
  /\ decided \subseteq Signals /\ reported \subseteq Signals
  /\ pc \in Control /\ cause \in {"none", "storage", "latched", "other"}
  /\ todo \subseteq Signals /\ cands \subseteq Signals /\ sig \in Signals \cup {None}
  /\ sDay \in Days /\ day \in Days /\ faults \in 0..MaxFaults /\ crashes \in 0..MaxCrashes
  /\ starts \in 0..MaxStarts /\ commands \in 0..MaxCommands
  /\ opClose \subseteq Signals /\ lateOpens \in Nat /\ resumed \in BOOLEAN
  /\ pc \in {"decide", "fill", "decorate", "opened"} => sig \in Signals

\* What one observation of the ledger (build_paper_decision_state) changes.
LEMMA ObserveEffect ==
  ASSUME Flags, Data, Observe
  PROVE  /\ dayHalted' \in [Days -> BOOLEAN] /\ kill' \in BOOLEAN
         /\ sDay' = day /\ (kill' <=> dayHalted'[day])
         /\ \A d \in Days : d # day => (dayHalted'[d] <=> dayHalted[d])
  <1>1. PICK drawdown \in BOOLEAN : dayHalted' = [dayHalted EXCEPT ![day] = @ \/ drawdown]
    BY DEF Observe
  <1>2. dayHalted' \in [Days -> BOOLEAN]
    BY <1>1 DEF Flags, Data
  <1> QED BY <1>1, <1>2 DEF Flags, Data, Observe

\* Every step keeps the Booleans Boolean.
LEMMA FlagsStep == Flags /\ Data /\ [Next]_vars => Flags'
  <1> SUFFICES ASSUME Flags, Data, [Next]_vars PROVE Flags'
    OBVIOUS
  <1> USE DEF Flags, Goto, Raise, Forget, Exit, SetPause, OperatorSets, base, local, env,
        ghost
  <1>1. CASE Start BY <1>1, Zenon DEF Start
  <1>2. CASE Started BY <1>2, ZenonT(60) DEF Started
  <1>3. CASE ClearStaleRead BY <1>3, Zenon DEF ClearStaleRead
  <1>4. CASE ClearStaleWrite BY <1>4, Zenon DEF ClearStaleWrite
  <1>5. CASE Recover BY <1>5, Zenon DEF Recover
  <1>6. CASE LoopHead
    <2>1. consume' = TRUE \/ consume' = consume
      BY <1>6, Zenon DEF LoopHead
    <2>2. UNCHANGED <<latched, intent, dayHalted, certain, interrupted, sawPause,
                      kill, final, opResume, dirty, orphan, doubt>>
      BY <1>6, Zenon DEF LoopHead
    <2> QED BY <2>1, <2>2, Zenon
  <1>7. CASE PollTelegram BY <1>7, Zenon DEF PollTelegram
  <1>8. CASE Acquire BY <1>8, Zenon DEF Acquire
  <1>9. CASE IntegrityStop BY <1>9, Zenon DEF IntegrityStop
  <1>10. CASE Stopping BY <1>10, Zenon DEF Stopping
  <1>11. CASE Stopped BY <1>11, Zenon DEF Stopped
  <1>12. CASE AfterCycle BY <1>12, Zenon DEF AfterCycle
  <1>13. CASE CycleBegin BY <1>13, Zenon DEF CycleBegin
  <1>14. CASE CycleReceived BY <1>14, Zenon DEF CycleReceived
  <1>15. CASE WriteIntent BY <1>15, Zenon DEF WriteIntent, OpenTrades
  <1>16. CASE ManageTrade BY <1>16, Zenon DEF ManageTrade
  <1>17. CASE CloseAudited BY <1>17, Zenon DEF CloseAudited
  <1>18. CASE StaleObservation BY <1>18, Zenon DEF StaleObservation
  <1>19. CASE ManageDone BY <1>19, Zenon DEF ManageDone
  <1>20. CASE RefreshRiskState BY <1>20 DEF RefreshRiskState, Observe, Data
  <1>21. CASE LedgerRejects BY <1>21, Zenon DEF LedgerRejects
  <1>22. CASE SyncRead BY <1>22, Zenon DEF SyncRead
  <1>23. CASE PauseWrite BY <1>23, Zenon DEF PauseWrite
  <1>24. CASE DayWrite BY <1>24, Zenon DEF DayWrite
  <1>25. CASE ExpireRead BY <1>25, Zenon DEF ExpireRead, AfterSync
  <1>26. CASE ResumeWrite BY <1>26, Zenon DEF ResumeWrite, AfterSync
  <1>27. CASE TakeCandidate
    <2>1. kill' \in BOOLEAN /\ dayHalted' \in [Days -> BOOLEAN]
      <3>1. CASE UNCHANGED <<dayHalted, kill>> BY <3>1
      <3>2. CASE Observe BY <3>2, ObserveEffect
      <3> QED BY <1>27, <3>1, <3>2 DEF TakeCandidate
    <2>2. sawPause' \in BOOLEAN BY <1>27 DEF TakeCandidate
    <2> QED BY <1>27, <2>1, <2>2, Zenon DEF TakeCandidate
  <1>28. CASE Decide BY <1>28, Zenon DEF Decide
  <1>29. CASE Fill BY <1>29, Zenon DEF Fill
  <1>30. CASE OpenAudited BY <1>30, Zenon DEF OpenAudited
  <1>31. CASE CandidatesDone BY <1>31, Zenon DEF CandidatesDone
  <1>32. CASE CycleCompleted BY <1>32, Zenon DEF CycleCompleted
  <1>33. CASE ClearIntent BY <1>33, Zenon DEF ClearIntent
  <1>34. CASE SkipRead BY <1>34, Zenon DEF SkipRead
  <1>35. CASE SkipAudited BY <1>35, Zenon DEF SkipAudited
  <1>36. CASE Skipped BY <1>36, Zenon DEF Skipped
  <1>37. CASE HaltRead BY <1>37, Zenon DEF HaltRead
  <1>38. CASE HaltMark BY <1>38, Zenon DEF HaltMark
  <1>39. CASE HaltPause BY <1>39, Zenon DEF HaltPause
  <1>40. CASE HaltAudited BY <1>40, Zenon DEF HaltAudited
  <1>41. CASE HaltComplete BY <1>41, Zenon DEF HaltComplete
  <1>42. CASE StorageFails BY <1>42, Zenon DEF StorageFails, SpendFault
  <1>43. CASE HaltFails BY <1>43, Zenon DEF HaltFails, SpendFault
  <1>44. CASE Crash BY <1>44, Zenon DEF Crash
  <1>45. CASE Midnight BY <1>45, Zenon DEF Midnight
  <1>46. CASE PauseShadow BY <1>46, Zenon DEF PauseShadow, Issue
  <1>47. CASE ResumeClearsStop BY <1>47, Zenon DEF ResumeClearsStop, Issue
  <1>48. CASE ResumeClearsPause BY <1>48, Zenon DEF ResumeClearsPause
  <1>49. CASE RequestStop BY <1>49, Zenon DEF RequestStop, Issue
  <1>50. CASE Interrupt BY <1>50, Zenon DEF Interrupt, Issue
  <1>51. CASE CloseAllRead BY <1>51, Zenon DEF CloseAllRead, OpenTrades, Issue
  <1>52. CASE CloseAllRow BY <1>52, Zenon DEF CloseAllRow
  <1>53. CASE UNCHANGED vars BY <1>53, Zenon DEF vars
  <1>54. CASE Decorate BY <1>54, Zenon DEF Decorate
  <1> QED
      BY <1>1, <1>2, <1>3, <1>4, <1>5, <1>6, <1>7, <1>8, <1>9, <1>10, <1>11, <1>12,
         <1>13, <1>14, <1>15, <1>16, <1>17, <1>18, <1>19, <1>20, <1>21, <1>22, <1>23,
         <1>24, <1>25, <1>26, <1>27, <1>28, <1>29, <1>30, <1>31, <1>32, <1>33, <1>34,
         <1>35, <1>36, <1>37, <1>38, <1>39, <1>40, <1>41, <1>42, <1>43, <1>44, <1>45,
         <1>46, <1>47, <1>48, <1>49, <1>50, <1>51, <1>52, <1>53, <1>54, Zenon DEF Next,
         RunStep,
         Failure, Operator

\* Every step keeps the other variables in their types.
LEMMA DataStep == Flags /\ Data /\ [Next]_vars => Data'
  <1> SUFFICES ASSUME Data, [Next]_vars PROVE Data'
    OBVIOUS
  <1> USE BoundsAssumption, Locations DEF Data, Statuses, Days, Goto, Raise, Forget,
      Exit, SetPause, OperatorSets,
      base, local, env, ghost
  <1>1. CASE Start BY <1>1 DEF Start
  <1>2. CASE Started BY <1>2 DEF Started
  <1>3. CASE ClearStaleRead BY <1>3 DEF ClearStaleRead
  <1>4. CASE ClearStaleWrite BY <1>4 DEF ClearStaleWrite
  <1>5. CASE Recover BY <1>5 DEF Recover
  <1>6. CASE LoopHead BY <1>6 DEF LoopHead
  <1>7. CASE PollTelegram
    <2>1. resumed' \in BOOLEAN
      BY <1>7, Zenon DEF PollTelegram
    <2>2. pause' \in {"none", "operator", "daily", "halt"} /\ lateOpens' \in Nat
      BY <1>7 DEF PollTelegram
    <2> QED BY <1>7, <2>1, <2>2 DEF PollTelegram
  <1>8. CASE Acquire BY <1>8 DEF Acquire
  <1>9. CASE IntegrityStop BY <1>9 DEF IntegrityStop
  <1>10. CASE Stopping BY <1>10 DEF Stopping
  <1>11. CASE Stopped BY <1>11 DEF Stopped
  <1>12. CASE AfterCycle BY <1>12 DEF AfterCycle
  <1>13. CASE CycleBegin BY <1>13 DEF CycleBegin
  <1>14. CASE CycleReceived BY <1>14 DEF CycleReceived
  <1>15. CASE WriteIntent BY <1>15 DEF WriteIntent, OpenTrades
  <1>16. CASE ManageTrade BY <1>16 DEF ManageTrade
  <1>17. CASE CloseAudited BY <1>17 DEF CloseAudited
  <1>18. CASE StaleObservation BY <1>18 DEF StaleObservation
  <1>19. CASE ManageDone BY <1>19 DEF ManageDone
  <1>20. CASE RefreshRiskState BY <1>20 DEF RefreshRiskState, Observe
  <1>21. CASE LedgerRejects BY <1>21 DEF LedgerRejects
  <1>22. CASE SyncRead BY <1>22 DEF SyncRead
  <1>23. CASE PauseWrite BY <1>23 DEF PauseWrite
  <1>24. CASE DayWrite BY <1>24 DEF DayWrite
  <1>25. CASE ExpireRead BY <1>25 DEF ExpireRead, AfterSync
  <1>26. CASE ResumeWrite BY <1>26 DEF ResumeWrite, AfterSync
  <1>27. CASE TakeCandidate BY <1>27 DEF TakeCandidate, Observe
  <1>28. CASE Decide BY <1>28 DEF Decide
  <1>29. CASE Fill BY <1>29 DEF Fill
  <1>30. CASE OpenAudited BY <1>30 DEF OpenAudited
  <1>31. CASE CandidatesDone BY <1>31 DEF CandidatesDone
  <1>32. CASE CycleCompleted BY <1>32 DEF CycleCompleted
  <1>33. CASE ClearIntent BY <1>33 DEF ClearIntent
  <1>34. CASE SkipRead BY <1>34 DEF SkipRead
  <1>35. CASE SkipAudited BY <1>35 DEF SkipAudited
  <1>36. CASE Skipped BY <1>36 DEF Skipped
  <1>37. CASE HaltRead BY <1>37 DEF HaltRead
  <1>38. CASE HaltMark BY <1>38 DEF HaltMark
  <1>39. CASE HaltPause BY <1>39 DEF HaltPause
  <1>40. CASE HaltAudited BY <1>40 DEF HaltAudited
  <1>41. CASE HaltComplete BY <1>41 DEF HaltComplete
  <1>42. CASE StorageFails BY <1>42 DEF StorageFails, SpendFault
  <1>43. CASE HaltFails BY <1>43 DEF HaltFails, SpendFault
  <1>44. CASE Crash BY <1>44 DEF Crash
  <1>45. CASE Midnight BY <1>45 DEF Midnight
  <1>46. CASE PauseShadow BY <1>46 DEF PauseShadow, Issue
  <1>47. CASE ResumeClearsStop BY <1>47 DEF ResumeClearsStop, Issue
  <1>48. CASE ResumeClearsPause BY <1>48 DEF ResumeClearsPause
  <1>49. CASE RequestStop BY <1>49 DEF RequestStop, Issue
  <1>50. CASE Interrupt BY <1>50 DEF Interrupt, Issue
  <1>51. CASE CloseAllRead BY <1>51 DEF CloseAllRead, OpenTrades, Issue
  <1>52. CASE CloseAllRow BY <1>52 DEF CloseAllRow
  <1>53. CASE UNCHANGED vars BY <1>53 DEF vars
  <1>54. CASE Decorate BY <1>54 DEF Decorate
  <1> QED
      BY <1>1, <1>2, <1>3, <1>4, <1>5, <1>6, <1>7, <1>8, <1>9, <1>10, <1>11, <1>12,
         <1>13, <1>14, <1>15, <1>16, <1>17, <1>18, <1>19, <1>20, <1>21, <1>22, <1>23,
         <1>24, <1>25, <1>26, <1>27, <1>28, <1>29, <1>30, <1>31, <1>32, <1>33, <1>34,
         <1>35, <1>36, <1>37, <1>38, <1>39, <1>40, <1>41, <1>42, <1>43, <1>44, <1>45,
         <1>46, <1>47, <1>48, <1>49, <1>50, <1>51, <1>52, <1>53, <1>54 DEF Next, RunStep,
         Failure,
         Operator

\* Locations of a cycle that passed its first check and has written nothing.
Ready == {"received", "intent"}
\* Identities with a trade on the book.
Booked == {s \in Signals : book[s] # "none"}
\* Inside a cycle the intent is this run's own, on a base that is not latched.
CycleInv ==
  /\ pc \in InCycle => intent /\ ~latched /\ ~orphan
  /\ pc \in Ready => ~intent /\ ~latched /\ ~orphan
  /\ orphan => intent
  /\ dirty => intent
  /\ pc = "clearIntent" => ~dirty
\* A booked trade has its decision audited; only the one just filled, or an
\* unfinished cycle, may lack its opening event.
BookInv ==
  /\ Booked \subseteq decided
  /\ ~intent \/ pc \in InCycle \ {"decorate", "opened"} => Booked \subseteq reported
  /\ pc \in {"decorate", "opened"} => Booked \subseteq reported \cup {sig}
  /\ pc \in {"fill", "decorate", "opened"} => sig \in decided
  /\ pc \in {"decorate", "opened"} => sig \in Booked
  /\ todo \subseteq Booked /\ opClose \subseteq Booked
\* No candidate that read the row before the pause is left once one was filled.
PauseInv ==
  /\ lateOpens \in {0, 1} /\ (pause = "none" => lateOpens = 0)
  /\ pc = "fill" \/ (pc = "decide" /\ ~sawPause) => lateOpens = 0
\* The halt flag the run holds is the ledger's, for the day it observed.
LedgerInv ==
  /\ sDay <= day /\ \A d \in Days : dayHalted[d] => d <= sDay
  /\ pc \in {"sync", "pauseWrite", "dayWrite", "expire", "resume", "decide", "fill"} =>
       (kill <=> dayHalted[sDay])
  /\ pc = "fill" => ~(kill /\ day = sDay)
  /\ pc = "resume" => haltDay < sDay /\ ~kill /\ ~ManualResume
\* A halted day is not paused yet only between its observation and the write of the
\* pause, inside the cycle.
HaltedInv ==
  ~intent \/ pc \in {"dayWrite", "expire", "resume", "complete", "clearIntent"} =>
    (dayHalted[day] => pause # "none" \/ resumed)
\* A halt that will declare the audit complete has seen no failure.
AuditInv ==
  /\ certain => pc \in Halting \ {"halt"} /\ ~doubt /\ ~(cause = "latched" /\ intent)
  /\ pc = "haltComplete" => certain
  /\ doubt /\ pc \notin Halting \cup {"off"} => auditMark = "incomplete"
  /\ doubt /\ pc = "halt" => cause = "storage" \/ auditMark = "incomplete"
\* Every step keeps the cycle owned by the run that opened it.
LEMMA CycleStep == CycleInv /\ [Next]_vars => CycleInv'
  <1> SUFFICES ASSUME CycleInv, [Next]_vars PROVE CycleInv'
    OBVIOUS
  <1> USE DEF CycleInv, InCycle, Ready, Fallible, Halting, Goto, Raise, Forget, Exit,
      SetPause, OperatorSets, base, local, env, ghost
  <1>1. CASE Start BY <1>1 DEF Start
  <1>2. CASE Started BY <1>2 DEF Started
  <1>3. CASE ClearStaleRead BY <1>3 DEF ClearStaleRead
  <1>4. CASE ClearStaleWrite BY <1>4 DEF ClearStaleWrite
  <1>5. CASE Recover BY <1>5 DEF Recover
  <1>6. CASE LoopHead BY <1>6 DEF LoopHead
  <1>7. CASE PollTelegram BY <1>7 DEF PollTelegram
  <1>8. CASE Acquire BY <1>8 DEF Acquire
  <1>9. CASE IntegrityStop BY <1>9 DEF IntegrityStop
  <1>10. CASE Stopping BY <1>10 DEF Stopping
  <1>11. CASE Stopped BY <1>11 DEF Stopped
  <1>12. CASE AfterCycle BY <1>12 DEF AfterCycle
  <1>13. CASE CycleBegin BY <1>13 DEF CycleBegin
  <1>14. CASE CycleReceived BY <1>14 DEF CycleReceived
  <1>15. CASE WriteIntent BY <1>15 DEF WriteIntent, OpenTrades
  <1>16. CASE ManageTrade BY <1>16 DEF ManageTrade
  <1>17. CASE CloseAudited BY <1>17 DEF CloseAudited
  <1>18. CASE StaleObservation BY <1>18 DEF StaleObservation
  <1>19. CASE ManageDone BY <1>19 DEF ManageDone
  <1>20. CASE RefreshRiskState BY <1>20 DEF RefreshRiskState, Observe
  <1>21. CASE LedgerRejects BY <1>21 DEF LedgerRejects
  <1>22. CASE SyncRead BY <1>22 DEF SyncRead
  <1>23. CASE PauseWrite BY <1>23 DEF PauseWrite
  <1>24. CASE DayWrite BY <1>24 DEF DayWrite
  <1>25. CASE ExpireRead BY <1>25 DEF ExpireRead, AfterSync
  <1>26. CASE ResumeWrite BY <1>26 DEF ResumeWrite, AfterSync
  <1>27. CASE TakeCandidate BY <1>27 DEF TakeCandidate, Observe
  <1>28. CASE Decide BY <1>28 DEF Decide
  <1>29. CASE Fill BY <1>29 DEF Fill
  <1>30. CASE OpenAudited BY <1>30 DEF OpenAudited
  <1>31. CASE CandidatesDone BY <1>31 DEF CandidatesDone
  <1>32. CASE CycleCompleted BY <1>32 DEF CycleCompleted
  <1>33. CASE ClearIntent BY <1>33 DEF ClearIntent
  <1>34. CASE SkipRead BY <1>34 DEF SkipRead
  <1>35. CASE SkipAudited BY <1>35 DEF SkipAudited
  <1>36. CASE Skipped BY <1>36 DEF Skipped
  <1>37. CASE HaltRead BY <1>37 DEF HaltRead
  <1>38. CASE HaltMark BY <1>38 DEF HaltMark
  <1>39. CASE HaltPause BY <1>39 DEF HaltPause
  <1>40. CASE HaltAudited BY <1>40 DEF HaltAudited
  <1>41. CASE HaltComplete BY <1>41 DEF HaltComplete
  <1>42. CASE StorageFails BY <1>42 DEF StorageFails, SpendFault
  <1>43. CASE HaltFails BY <1>43 DEF HaltFails, SpendFault
  <1>44. CASE Crash BY <1>44 DEF Crash
  <1>45. CASE Midnight BY <1>45 DEF Midnight
  <1>46. CASE PauseShadow BY <1>46 DEF PauseShadow, Issue
  <1>47. CASE ResumeClearsStop BY <1>47 DEF ResumeClearsStop, Issue
  <1>48. CASE ResumeClearsPause BY <1>48 DEF ResumeClearsPause
  <1>49. CASE RequestStop BY <1>49 DEF RequestStop, Issue
  <1>50. CASE Interrupt BY <1>50 DEF Interrupt, Issue
  <1>51. CASE CloseAllRead BY <1>51 DEF CloseAllRead, OpenTrades, Issue
  <1>52. CASE CloseAllRow BY <1>52 DEF CloseAllRow
  <1>53. CASE UNCHANGED vars BY <1>53 DEF vars
  <1>54. CASE Decorate BY <1>54 DEF Decorate
  <1> QED
      BY <1>1, <1>2, <1>3, <1>4, <1>5, <1>6, <1>7, <1>8, <1>9, <1>10, <1>11, <1>12,
         <1>13, <1>14, <1>15, <1>16, <1>17, <1>18, <1>19, <1>20, <1>21, <1>22, <1>23,
         <1>24, <1>25, <1>26, <1>27, <1>28, <1>29, <1>30, <1>31, <1>32, <1>33, <1>34,
         <1>35, <1>36, <1>37, <1>38, <1>39, <1>40, <1>41, <1>42, <1>43, <1>44, <1>45,
         <1>46, <1>47, <1>48, <1>49, <1>50, <1>51, <1>52, <1>53, <1>54 DEF Next, RunStep,
         Failure,
         Operator

\* Every step keeps the book audited.
LEMMA BookStep == Data /\ CycleInv /\ BookInv /\ [Next]_vars => BookInv'
  <1> SUFFICES ASSUME Data, CycleInv, BookInv, [Next]_vars PROVE BookInv'
    OBVIOUS
  <1> USE DEF BookInv, Booked, InCycle, Ready, Fallible, Halting, CycleInv, Goto, Raise,
      Forget, Exit, SetPause, OperatorSets, base, local, env, ghost
  <1>1. CASE Start BY <1>1 DEF Start
  <1>2. CASE Started BY <1>2 DEF Started
  <1>3. CASE ClearStaleRead BY <1>3 DEF ClearStaleRead
  <1>4. CASE ClearStaleWrite BY <1>4 DEF ClearStaleWrite
  <1>5. CASE Recover BY <1>5 DEF Recover
  <1>6. CASE LoopHead BY <1>6 DEF LoopHead
  <1>7. CASE PollTelegram BY <1>7 DEF PollTelegram
  <1>8. CASE Acquire BY <1>8 DEF Acquire
  <1>9. CASE IntegrityStop BY <1>9 DEF IntegrityStop
  <1>10. CASE Stopping BY <1>10 DEF Stopping
  <1>11. CASE Stopped BY <1>11 DEF Stopped
  <1>12. CASE AfterCycle BY <1>12 DEF AfterCycle
  <1>13. CASE CycleBegin BY <1>13 DEF CycleBegin
  <1>14. CASE CycleReceived BY <1>14 DEF CycleReceived
  <1>15. CASE WriteIntent BY <1>15 DEF WriteIntent, OpenTrades
  <1>16. CASE ManageTrade
    <2>1. PICK s \in todo : /\ todo' = todo \ {s}
                             /\ \/ book' = [book EXCEPT ![s] = "open"] /\ UNCHANGED pc
                                \/ book' = [book EXCEPT ![s] = "closed"] /\ pc' = "closeAudit"
      BY <1>16 DEF ManageTrade
    <2>2. s \in Booked /\ Booked' = Booked
      BY <2>1, <1>16 DEF Data
    <2> QED BY <2>1, <2>2, <1>16 DEF ManageTrade
  <1>17. CASE CloseAudited BY <1>17 DEF CloseAudited
  <1>18. CASE StaleObservation BY <1>18 DEF StaleObservation
  <1>19. CASE ManageDone BY <1>19 DEF ManageDone
  <1>20. CASE RefreshRiskState BY <1>20 DEF RefreshRiskState, Observe
  <1>21. CASE LedgerRejects BY <1>21 DEF LedgerRejects
  <1>22. CASE SyncRead BY <1>22 DEF SyncRead
  <1>23. CASE PauseWrite BY <1>23 DEF PauseWrite
  <1>24. CASE DayWrite BY <1>24 DEF DayWrite
  <1>25. CASE ExpireRead BY <1>25 DEF ExpireRead, AfterSync
  <1>26. CASE ResumeWrite BY <1>26 DEF ResumeWrite, AfterSync
  <1>27. CASE TakeCandidate BY <1>27 DEF TakeCandidate, Observe
  <1>28. CASE Decide BY <1>28 DEF Decide
  <1>29. CASE Fill
    <2>1. pc = "fill" /\ sig \in Signals /\ pc' \in {"decorate", "opened"}
      BY <1>29 DEF Fill, Data
    <2>2. Booked' = Booked \cup {sig}
      BY <1>29, <2>1 DEF Fill, Data
    <2>3. UNCHANGED <<intent, reported, decided, todo, sig, opClose>>
      BY <1>29 DEF Fill
    <2> QED BY <2>1, <2>2, <2>3
  <1>30. CASE OpenAudited BY <1>30 DEF OpenAudited
  <1>31. CASE CandidatesDone BY <1>31 DEF CandidatesDone
  <1>32. CASE CycleCompleted BY <1>32 DEF CycleCompleted
  <1>33. CASE ClearIntent BY <1>33 DEF ClearIntent
  <1>34. CASE SkipRead BY <1>34 DEF SkipRead
  <1>35. CASE SkipAudited BY <1>35 DEF SkipAudited
  <1>36. CASE Skipped BY <1>36 DEF Skipped
  <1>37. CASE HaltRead BY <1>37 DEF HaltRead
  <1>38. CASE HaltMark BY <1>38 DEF HaltMark
  <1>39. CASE HaltPause BY <1>39 DEF HaltPause
  <1>40. CASE HaltAudited BY <1>40 DEF HaltAudited
  <1>41. CASE HaltComplete BY <1>41 DEF HaltComplete
  <1>42. CASE StorageFails BY <1>42 DEF StorageFails, SpendFault
  <1>43. CASE HaltFails BY <1>43 DEF HaltFails, SpendFault
  <1>44. CASE Crash BY <1>44 DEF Crash
  <1>45. CASE Midnight BY <1>45 DEF Midnight
  <1>46. CASE PauseShadow BY <1>46 DEF PauseShadow, Issue
  <1>47. CASE ResumeClearsStop BY <1>47 DEF ResumeClearsStop, Issue
  <1>48. CASE ResumeClearsPause BY <1>48 DEF ResumeClearsPause
  <1>49. CASE RequestStop BY <1>49 DEF RequestStop, Issue
  <1>50. CASE Interrupt BY <1>50 DEF Interrupt, Issue
  <1>51. CASE CloseAllRead BY <1>51 DEF CloseAllRead, OpenTrades, Issue
  <1>52. CASE CloseAllRow BY <1>52 DEF CloseAllRow
  <1>53. CASE UNCHANGED vars BY <1>53 DEF vars
  <1>54. CASE Decorate BY <1>54 DEF Decorate
  <1> QED
      BY <1>1, <1>2, <1>3, <1>4, <1>5, <1>6, <1>7, <1>8, <1>9, <1>10, <1>11, <1>12,
         <1>13, <1>14, <1>15, <1>16, <1>17, <1>18, <1>19, <1>20, <1>21, <1>22, <1>23,
         <1>24, <1>25, <1>26, <1>27, <1>28, <1>29, <1>30, <1>31, <1>32, <1>33, <1>34,
         <1>35, <1>36, <1>37, <1>38, <1>39, <1>40, <1>41, <1>42, <1>43, <1>44, <1>45,
         <1>46, <1>47, <1>48, <1>49, <1>50, <1>51, <1>52, <1>53, <1>54 DEF Next, RunStep,
         Failure,
         Operator

\* Every step keeps the count of late entries.
LEMMA PauseStep == PauseInv /\ [Next]_vars => PauseInv'
  <1> SUFFICES ASSUME PauseInv, [Next]_vars PROVE PauseInv'
    OBVIOUS
  <1> USE DEF PauseInv, Halting, Fallible, Goto, Raise, Forget, Exit, SetPause,
        OperatorSets, base,
      local, env, ghost
  <1>1. CASE Start BY <1>1 DEF Start
  <1>2. CASE Started BY <1>2 DEF Started
  <1>3. CASE ClearStaleRead BY <1>3 DEF ClearStaleRead
  <1>4. CASE ClearStaleWrite BY <1>4 DEF ClearStaleWrite
  <1>5. CASE Recover BY <1>5 DEF Recover
  <1>6. CASE LoopHead BY <1>6 DEF LoopHead
  <1>7. CASE PollTelegram BY <1>7 DEF PollTelegram
  <1>8. CASE Acquire BY <1>8 DEF Acquire
  <1>9. CASE IntegrityStop BY <1>9 DEF IntegrityStop
  <1>10. CASE Stopping BY <1>10 DEF Stopping
  <1>11. CASE Stopped BY <1>11 DEF Stopped
  <1>12. CASE AfterCycle BY <1>12 DEF AfterCycle
  <1>13. CASE CycleBegin BY <1>13 DEF CycleBegin
  <1>14. CASE CycleReceived BY <1>14 DEF CycleReceived
  <1>15. CASE WriteIntent BY <1>15 DEF WriteIntent, OpenTrades
  <1>16. CASE ManageTrade BY <1>16 DEF ManageTrade
  <1>17. CASE CloseAudited BY <1>17 DEF CloseAudited
  <1>18. CASE StaleObservation BY <1>18 DEF StaleObservation
  <1>19. CASE ManageDone BY <1>19 DEF ManageDone
  <1>20. CASE RefreshRiskState BY <1>20 DEF RefreshRiskState, Observe
  <1>21. CASE LedgerRejects BY <1>21 DEF LedgerRejects
  <1>22. CASE SyncRead BY <1>22 DEF SyncRead
  <1>23. CASE PauseWrite BY <1>23 DEF PauseWrite
  <1>24. CASE DayWrite BY <1>24 DEF DayWrite
  <1>25. CASE ExpireRead BY <1>25 DEF ExpireRead, AfterSync
  <1>26. CASE ResumeWrite BY <1>26 DEF ResumeWrite, AfterSync
  <1>27. CASE TakeCandidate BY <1>27 DEF TakeCandidate, Observe
  <1>28. CASE Decide BY <1>28 DEF Decide, Accepts
  <1>29. CASE Fill BY <1>29 DEF Fill
  <1>30. CASE OpenAudited BY <1>30 DEF OpenAudited
  <1>31. CASE CandidatesDone BY <1>31 DEF CandidatesDone
  <1>32. CASE CycleCompleted BY <1>32 DEF CycleCompleted
  <1>33. CASE ClearIntent BY <1>33 DEF ClearIntent
  <1>34. CASE SkipRead BY <1>34 DEF SkipRead
  <1>35. CASE SkipAudited BY <1>35 DEF SkipAudited
  <1>36. CASE Skipped BY <1>36 DEF Skipped
  <1>37. CASE HaltRead BY <1>37 DEF HaltRead
  <1>38. CASE HaltMark BY <1>38 DEF HaltMark
  <1>39. CASE HaltPause BY <1>39 DEF HaltPause
  <1>40. CASE HaltAudited BY <1>40 DEF HaltAudited
  <1>41. CASE HaltComplete BY <1>41 DEF HaltComplete
  <1>42. CASE StorageFails BY <1>42 DEF StorageFails, SpendFault
  <1>43. CASE HaltFails BY <1>43 DEF HaltFails, SpendFault
  <1>44. CASE Crash BY <1>44 DEF Crash
  <1>45. CASE Midnight BY <1>45 DEF Midnight
  <1>46. CASE PauseShadow BY <1>46 DEF PauseShadow, Issue
  <1>47. CASE ResumeClearsStop BY <1>47 DEF ResumeClearsStop, Issue
  <1>48. CASE ResumeClearsPause BY <1>48 DEF ResumeClearsPause
  <1>49. CASE RequestStop BY <1>49 DEF RequestStop, Issue
  <1>50. CASE Interrupt BY <1>50 DEF Interrupt, Issue
  <1>51. CASE CloseAllRead BY <1>51 DEF CloseAllRead, OpenTrades, Issue
  <1>52. CASE CloseAllRow BY <1>52 DEF CloseAllRow
  <1>53. CASE UNCHANGED vars BY <1>53 DEF vars
  <1>54. CASE Decorate BY <1>54 DEF Decorate
  <1> QED
      BY <1>1, <1>2, <1>3, <1>4, <1>5, <1>6, <1>7, <1>8, <1>9, <1>10, <1>11, <1>12,
         <1>13, <1>14, <1>15, <1>16, <1>17, <1>18, <1>19, <1>20, <1>21, <1>22, <1>23,
         <1>24, <1>25, <1>26, <1>27, <1>28, <1>29, <1>30, <1>31, <1>32, <1>33, <1>34,
         <1>35, <1>36, <1>37, <1>38, <1>39, <1>40, <1>41, <1>42, <1>43, <1>44, <1>45,
         <1>46, <1>47, <1>48, <1>49, <1>50, <1>51, <1>52, <1>53, <1>54 DEF Next, RunStep,
         Failure,
         Operator

\* Every step keeps the run's halt flag in step with the ledger.
LEMMA LedgerStep == Flags /\ Data /\ LedgerInv /\ [Next]_vars => LedgerInv'
  <1> SUFFICES ASSUME Flags, Data, LedgerInv, [Next]_vars PROVE LedgerInv'
    OBVIOUS
  <1> USE BoundsAssumption DEF LedgerInv, Days, Fallible, Halting, Goto, Raise, Forget,
      Exit, SetPause, OperatorSets, base, local, env, ghost
  <1>1. CASE Start BY <1>1 DEF Start
  <1>2. CASE Started BY <1>2 DEF Started
  <1>3. CASE ClearStaleRead BY <1>3 DEF ClearStaleRead
  <1>4. CASE ClearStaleWrite BY <1>4 DEF ClearStaleWrite
  <1>5. CASE Recover BY <1>5 DEF Recover
  <1>6. CASE LoopHead BY <1>6 DEF LoopHead
  <1>7. CASE PollTelegram BY <1>7 DEF PollTelegram
  <1>8. CASE Acquire BY <1>8 DEF Acquire
  <1>9. CASE IntegrityStop BY <1>9 DEF IntegrityStop
  <1>10. CASE Stopping BY <1>10 DEF Stopping
  <1>11. CASE Stopped BY <1>11 DEF Stopped
  <1>12. CASE AfterCycle BY <1>12 DEF AfterCycle
  <1>13. CASE CycleBegin BY <1>13 DEF CycleBegin
  <1>14. CASE CycleReceived BY <1>14 DEF CycleReceived
  <1>15. CASE WriteIntent BY <1>15 DEF WriteIntent, OpenTrades
  <1>16. CASE ManageTrade BY <1>16 DEF ManageTrade
  <1>17. CASE CloseAudited BY <1>17 DEF CloseAudited
  <1>18. CASE StaleObservation BY <1>18 DEF StaleObservation
  <1>19. CASE ManageDone BY <1>19 DEF ManageDone
  <1>20. CASE RefreshRiskState
    <2>1. Observe
      BY <1>20 DEF RefreshRiskState
    <2> QED
        BY <1>20, <2>1, ObserveEffect, day \in 1..MaxDay, sDay \in 1..MaxDay DEF
           RefreshRiskState, Data
  <1>21. CASE LedgerRejects BY <1>21 DEF LedgerRejects
  <1>22. CASE SyncRead BY <1>22 DEF SyncRead
  <1>23. CASE PauseWrite BY <1>23 DEF PauseWrite
  <1>24. CASE DayWrite BY <1>24 DEF DayWrite
  <1>25. CASE ExpireRead BY <1>25 DEF ExpireRead, AfterSync, MayExpire
  <1>26. CASE ResumeWrite BY <1>26 DEF ResumeWrite, AfterSync
  <1>27. CASE TakeCandidate
    <2>1. CASE UNCHANGED <<pc, dayHalted, kill, sDay>>
      BY <2>1, <1>27 DEF TakeCandidate
    <2>2. CASE Observe /\ pc' \in {"candidate", "decide"}
      BY <2>2, <1>27, ObserveEffect DEF TakeCandidate, Data
    <2> QED BY <2>1, <2>2, <1>27 DEF TakeCandidate
  <1>28. CASE Decide BY <1>28 DEF Decide, Accepts
  <1>29. CASE Fill BY <1>29 DEF Fill
  <1>30. CASE OpenAudited BY <1>30 DEF OpenAudited
  <1>31. CASE CandidatesDone BY <1>31 DEF CandidatesDone
  <1>32. CASE CycleCompleted BY <1>32 DEF CycleCompleted
  <1>33. CASE ClearIntent BY <1>33 DEF ClearIntent
  <1>34. CASE SkipRead BY <1>34 DEF SkipRead
  <1>35. CASE SkipAudited BY <1>35 DEF SkipAudited
  <1>36. CASE Skipped BY <1>36 DEF Skipped
  <1>37. CASE HaltRead BY <1>37 DEF HaltRead
  <1>38. CASE HaltMark BY <1>38 DEF HaltMark
  <1>39. CASE HaltPause BY <1>39 DEF HaltPause
  <1>40. CASE HaltAudited BY <1>40 DEF HaltAudited
  <1>41. CASE HaltComplete BY <1>41 DEF HaltComplete
  <1>42. CASE StorageFails BY <1>42 DEF StorageFails, SpendFault
  <1>43. CASE HaltFails BY <1>43 DEF HaltFails, SpendFault
  <1>44. CASE Crash BY <1>44 DEF Crash
  <1>45. CASE Midnight
    BY <1>45 DEF Midnight, Data
  <1>46. CASE PauseShadow BY <1>46 DEF PauseShadow, Issue
  <1>47. CASE ResumeClearsStop BY <1>47 DEF ResumeClearsStop, Issue
  <1>48. CASE ResumeClearsPause BY <1>48 DEF ResumeClearsPause
  <1>49. CASE RequestStop BY <1>49 DEF RequestStop, Issue
  <1>50. CASE Interrupt BY <1>50 DEF Interrupt, Issue
  <1>51. CASE CloseAllRead BY <1>51 DEF CloseAllRead, OpenTrades, Issue
  <1>52. CASE CloseAllRow BY <1>52 DEF CloseAllRow
  <1>53. CASE UNCHANGED vars BY <1>53 DEF vars
  <1>54. CASE Decorate BY <1>54 DEF Decorate
  <1> QED
      BY <1>1, <1>2, <1>3, <1>4, <1>5, <1>6, <1>7, <1>8, <1>9, <1>10, <1>11, <1>12,
         <1>13, <1>14, <1>15, <1>16, <1>17, <1>18, <1>19, <1>20, <1>21, <1>22, <1>23,
         <1>24, <1>25, <1>26, <1>27, <1>28, <1>29, <1>30, <1>31, <1>32, <1>33, <1>34,
         <1>35, <1>36, <1>37, <1>38, <1>39, <1>40, <1>41, <1>42, <1>43, <1>44, <1>45,
         <1>46, <1>47, <1>48, <1>49, <1>50, <1>51, <1>52, <1>53, <1>54 DEF Next, RunStep,
         Failure,
         Operator

\* Every step keeps the halted day paused.
LEMMA HaltedStep ==
  Flags /\ Data /\ CycleInv /\ LedgerInv /\ HaltedInv /\ [Next]_vars => HaltedInv'
  <1> SUFFICES ASSUME Flags, Data, CycleInv, LedgerInv, HaltedInv, [Next]_vars
               PROVE  HaltedInv'
    OBVIOUS
  <1> USE BoundsAssumption DEF HaltedInv, LedgerInv, Days, Fallible, Halting, Goto, Raise,
      Forget, Exit, SetPause, OperatorSets, base, local, env, ghost
  <1>1. CASE Start BY <1>1 DEF Start
  <1>2. CASE Started BY <1>2 DEF Started
  <1>3. CASE ClearStaleRead BY <1>3 DEF ClearStaleRead
  <1>4. CASE ClearStaleWrite BY <1>4 DEF ClearStaleWrite
  <1>5. CASE Recover BY <1>5 DEF Recover
  <1>6. CASE LoopHead BY <1>6 DEF LoopHead
  <1>7. CASE PollTelegram BY <1>7 DEF PollTelegram
  <1>8. CASE Acquire BY <1>8 DEF Acquire
  <1>9. CASE IntegrityStop BY <1>9 DEF IntegrityStop
  <1>10. CASE Stopping BY <1>10 DEF Stopping
  <1>11. CASE Stopped BY <1>11 DEF Stopped
  <1>12. CASE AfterCycle BY <1>12 DEF AfterCycle
  <1>13. CASE CycleBegin BY <1>13 DEF CycleBegin
  <1>14. CASE CycleReceived BY <1>14 DEF CycleReceived
  <1>15. CASE WriteIntent BY <1>15 DEF WriteIntent, OpenTrades
  <1>16. CASE ManageTrade BY <1>16 DEF ManageTrade
  <1>17. CASE CloseAudited BY <1>17 DEF CloseAudited
  <1>18. CASE StaleObservation BY <1>18 DEF StaleObservation
  <1>19. CASE ManageDone BY <1>19 DEF ManageDone
  <1>20. CASE RefreshRiskState BY <1>20 DEF RefreshRiskState, CycleInv, InCycle
  <1>21. CASE LedgerRejects BY <1>21 DEF LedgerRejects
  <1>22. CASE SyncRead
    <2>1. pc' = "dayWrite" => pause # "none"
      BY <1>22 DEF SyncRead
    <2>2. pc' = "expire" => ~dayHalted[day]
      BY <1>22 DEF SyncRead, Flags, Data
    <2>3. pc' \in {"expire", "pauseWrite", "dayWrite"} /\ intent'
      BY <1>22 DEF SyncRead, CycleInv, InCycle
    <2> QED BY <1>22, <2>1, <2>2, <2>3 DEF SyncRead
  <1>23. CASE PauseWrite BY <1>23 DEF PauseWrite
  <1>24. CASE DayWrite BY <1>24 DEF DayWrite
  <1>25. CASE ExpireRead BY <1>25 DEF ExpireRead, AfterSync
  <1>26. CASE ResumeWrite
    <2>1. ~dayHalted[day]
      BY <1>26 DEF ResumeWrite, Flags, Data
    <2> QED BY <1>26, <2>1 DEF ResumeWrite
  <1>27. CASE TakeCandidate BY <1>27 DEF TakeCandidate, CycleInv, InCycle
  <1>28. CASE Decide BY <1>28 DEF Decide, Accepts
  <1>29. CASE Fill BY <1>29 DEF Fill
  <1>30. CASE OpenAudited BY <1>30 DEF OpenAudited
  <1>31. CASE CandidatesDone BY <1>31 DEF CandidatesDone
  <1>32. CASE CycleCompleted BY <1>32 DEF CycleCompleted
  <1>33. CASE ClearIntent BY <1>33 DEF ClearIntent
  <1>34. CASE SkipRead BY <1>34 DEF SkipRead
  <1>35. CASE SkipAudited BY <1>35 DEF SkipAudited
  <1>36. CASE Skipped BY <1>36 DEF Skipped
  <1>37. CASE HaltRead BY <1>37 DEF HaltRead
  <1>38. CASE HaltMark BY <1>38 DEF HaltMark
  <1>39. CASE HaltPause BY <1>39 DEF HaltPause
  <1>40. CASE HaltAudited BY <1>40 DEF HaltAudited
  <1>41. CASE HaltComplete BY <1>41 DEF HaltComplete
  <1>42. CASE StorageFails BY <1>42 DEF StorageFails, SpendFault
  <1>43. CASE HaltFails BY <1>43 DEF HaltFails, SpendFault
  <1>44. CASE Crash BY <1>44 DEF Crash
  <1>45. CASE Midnight BY <1>45 DEF Midnight, Data
  <1>46. CASE PauseShadow BY <1>46 DEF PauseShadow, Issue
  <1>47. CASE ResumeClearsStop BY <1>47 DEF ResumeClearsStop, Issue
  <1>48. CASE ResumeClearsPause BY <1>48 DEF ResumeClearsPause
  <1>49. CASE RequestStop BY <1>49 DEF RequestStop, Issue
  <1>50. CASE Interrupt BY <1>50 DEF Interrupt, Issue
  <1>51. CASE CloseAllRead BY <1>51 DEF CloseAllRead, OpenTrades, Issue
  <1>52. CASE CloseAllRow BY <1>52 DEF CloseAllRow
  <1>53. CASE UNCHANGED vars BY <1>53 DEF vars
  <1>54. CASE Decorate BY <1>54 DEF Decorate
  <1> QED
      BY <1>1, <1>2, <1>3, <1>4, <1>5, <1>6, <1>7, <1>8, <1>9, <1>10, <1>11, <1>12,
         <1>13, <1>14, <1>15, <1>16, <1>17, <1>18, <1>19, <1>20, <1>21, <1>22, <1>23,
         <1>24, <1>25, <1>26, <1>27, <1>28, <1>29, <1>30, <1>31, <1>32, <1>33, <1>34,
         <1>35, <1>36, <1>37, <1>38, <1>39, <1>40, <1>41, <1>42, <1>43, <1>44, <1>45,
         <1>46, <1>47, <1>48, <1>49, <1>50, <1>51, <1>52, <1>53, <1>54 DEF Next, RunStep,
         Failure,
         Operator

\* Every step keeps what a certain halt has established.
LEMMA AuditStep == AuditInv /\ [Next]_vars => AuditInv'
  <1> SUFFICES ASSUME AuditInv, [Next]_vars PROVE AuditInv'
    OBVIOUS
  <1> USE DEF AuditInv, Fallible, Halting, Goto, Raise, Forget, Exit, SetPause,
        OperatorSets, base,
      local, env, ghost
  <1>1. CASE Start BY <1>1 DEF Start
  <1>2. CASE Started BY <1>2 DEF Started
  <1>3. CASE ClearStaleRead BY <1>3 DEF ClearStaleRead
  <1>4. CASE ClearStaleWrite BY <1>4 DEF ClearStaleWrite
  <1>5. CASE Recover BY <1>5 DEF Recover
  <1>6. CASE LoopHead BY <1>6 DEF LoopHead
  <1>7. CASE PollTelegram BY <1>7 DEF PollTelegram
  <1>8. CASE Acquire BY <1>8 DEF Acquire
  <1>9. CASE IntegrityStop BY <1>9 DEF IntegrityStop
  <1>10. CASE Stopping BY <1>10 DEF Stopping
  <1>11. CASE Stopped BY <1>11 DEF Stopped
  <1>12. CASE AfterCycle BY <1>12 DEF AfterCycle
  <1>13. CASE CycleBegin BY <1>13 DEF CycleBegin
  <1>14. CASE CycleReceived BY <1>14 DEF CycleReceived
  <1>15. CASE WriteIntent BY <1>15 DEF WriteIntent, OpenTrades
  <1>16. CASE ManageTrade BY <1>16 DEF ManageTrade
  <1>17. CASE CloseAudited BY <1>17 DEF CloseAudited
  <1>18. CASE StaleObservation BY <1>18 DEF StaleObservation
  <1>19. CASE ManageDone BY <1>19 DEF ManageDone
  <1>20. CASE RefreshRiskState BY <1>20 DEF RefreshRiskState, Observe
  <1>21. CASE LedgerRejects BY <1>21 DEF LedgerRejects
  <1>22. CASE SyncRead BY <1>22 DEF SyncRead
  <1>23. CASE PauseWrite BY <1>23 DEF PauseWrite
  <1>24. CASE DayWrite BY <1>24 DEF DayWrite
  <1>25. CASE ExpireRead BY <1>25 DEF ExpireRead, AfterSync
  <1>26. CASE ResumeWrite BY <1>26 DEF ResumeWrite, AfterSync
  <1>27. CASE TakeCandidate BY <1>27 DEF TakeCandidate, Observe
  <1>28. CASE Decide BY <1>28 DEF Decide
  <1>29. CASE Fill BY <1>29 DEF Fill
  <1>30. CASE OpenAudited BY <1>30 DEF OpenAudited
  <1>31. CASE CandidatesDone BY <1>31 DEF CandidatesDone
  <1>32. CASE CycleCompleted BY <1>32 DEF CycleCompleted
  <1>33. CASE ClearIntent BY <1>33 DEF ClearIntent
  <1>34. CASE SkipRead BY <1>34 DEF SkipRead
  <1>35. CASE SkipAudited BY <1>35 DEF SkipAudited
  <1>36. CASE Skipped BY <1>36 DEF Skipped
  <1>37. CASE HaltRead BY <1>37 DEF HaltRead
  <1>38. CASE HaltMark BY <1>38 DEF HaltMark
  <1>39. CASE HaltPause BY <1>39 DEF HaltPause
  <1>40. CASE HaltAudited BY <1>40 DEF HaltAudited
  <1>41. CASE HaltComplete BY <1>41 DEF HaltComplete
  <1>42. CASE StorageFails BY <1>42 DEF StorageFails, SpendFault
  <1>43. CASE HaltFails BY <1>43 DEF HaltFails, SpendFault
  <1>44. CASE Crash BY <1>44 DEF Crash
  <1>45. CASE Midnight BY <1>45 DEF Midnight
  <1>46. CASE PauseShadow BY <1>46 DEF PauseShadow, Issue
  <1>47. CASE ResumeClearsStop BY <1>47 DEF ResumeClearsStop, Issue
  <1>48. CASE ResumeClearsPause BY <1>48 DEF ResumeClearsPause
  <1>49. CASE RequestStop BY <1>49 DEF RequestStop, Issue
  <1>50. CASE Interrupt BY <1>50 DEF Interrupt, Issue
  <1>51. CASE CloseAllRead BY <1>51 DEF CloseAllRead, OpenTrades, Issue
  <1>52. CASE CloseAllRow BY <1>52 DEF CloseAllRow
  <1>53. CASE UNCHANGED vars BY <1>53 DEF vars
  <1>54. CASE Decorate BY <1>54 DEF Decorate
  <1> QED
      BY <1>1, <1>2, <1>3, <1>4, <1>5, <1>6, <1>7, <1>8, <1>9, <1>10, <1>11, <1>12,
         <1>13, <1>14, <1>15, <1>16, <1>17, <1>18, <1>19, <1>20, <1>21, <1>22, <1>23,
         <1>24, <1>25, <1>26, <1>27, <1>28, <1>29, <1>30, <1>31, <1>32, <1>33, <1>34,
         <1>35, <1>36, <1>37, <1>38, <1>39, <1>40, <1>41, <1>42, <1>43, <1>44, <1>45,
         <1>46, <1>47, <1>48, <1>49, <1>50, <1>51, <1>52, <1>53, <1>54 DEF Next, RunStep,
         Failure,
         Operator

\* The inductive invariant.
Inv ==
  Flags /\ Data /\ CycleInv /\ BookInv /\ PauseInv /\ LedgerInv /\ HaltedInv /\ AuditInv

\* An empty base with no process satisfies the invariant.
LEMMA InitInv == Init => Inv
  <1> SUFFICES ASSUME Init PROVE Inv
    OBVIOUS
  <1>1. Flags BY Zenon DEF Init, Flags, Halted
  <1>0. resumed \in BOOLEAN BY Zenon DEF Init
  <1>2. Data BY <1>0, BoundsAssumption, Locations, SMTT(30) DEF Init, Data, Statuses, Days
  <1>3. CycleInv BY DEF Init, CycleInv, InCycle, Ready
  <1>4. BookInv BY DEF Init, BookInv, Booked, InCycle
  <1>5. PauseInv /\ AuditInv BY DEF Init, PauseInv, AuditInv, Halting
  <1>6. LedgerInv /\ HaltedInv
    BY BoundsAssumption DEF Init, LedgerInv, HaltedInv, Halted, Days
  <1> QED BY <1>1, <1>2, <1>3, <1>4, <1>5, <1>6 DEF Inv

\* The inductive invariant holds in every reachable state.
THEOREM Invariance == Spec => []Inv
  <1>1. Inv /\ [Next]_vars => Inv'
    BY FlagsStep, DataStep, CycleStep, BookStep, PauseStep, LedgerStep, HaltedStep,
       AuditStep DEF Inv
  <1> QED BY <1>1, InitInv, PTL DEF Spec

\* Every variable keeps its type.
THEOREM TypeCorrect == Spec => []TypeOK
  <1>1. Inv => TypeOK
    BY DEF Inv, Flags, Data, TypeOK
  <1> QED BY <1>1, Invariance, PTL

\* A book changed in an unaudited cycle is always marked by the durable intent of
\* process_paper_cycle, through failures, crashes and restarts.
THEOREM Marked == Spec => []UnfinishedWorkIsMarked
  <1>1. Inv => UnfinishedWorkIsMarked
    BY DEF Inv, CycleInv, UnfinishedWorkIsMarked
  <1> QED BY <1>1, Invariance, PTL

\* A trade on the book has its accepted decision audited (_evaluate_paper_decision
\* before open_trade), and its opening event too unless its cycle is unfinished.
THEOREM Audited == Spec => []EveryEntryAudited
  <1>1. Inv => EveryEntryAudited
    BY DEF Inv, BookInv, Booked, EveryEntryAudited
  <1> QED BY <1>1, Invariance, PTL

\* After a pause (pause_shadow, the daily pause) at most one entry is filled.
THEOREM PauseStops == Spec => []PauseLetsAtMostOneThrough
  <1>1. Inv => PauseLetsAtMostOneThrough
    BY DEF Inv, PauseInv, PauseLetsAtMostOneThrough
  <1> QED BY <1>1, Invariance, PTL

\* The only steps that write paper_trades.
LEMMA BookWriters ==
  [Next]_vars => UNCHANGED book \/ ManageTrade \/ Fill \/ Decorate \/ CloseAllRow
  <1> USE DEF base
  <1>1. RunStep => UNCHANGED book \/ ManageTrade \/ Fill \/ Decorate \/ CloseAllRow
    BY DEF RunStep, Started, ClearStaleRead, ClearStaleWrite, Recover, LoopHead,
       PollTelegram, Acquire, IntegrityStop, Stopping, Stopped, AfterCycle, CycleBegin,
       CycleReceived, WriteIntent, CloseAudited, StaleObservation, ManageDone,
       RefreshRiskState, LedgerRejects, SyncRead, PauseWrite, DayWrite, ExpireRead,
       ResumeWrite, TakeCandidate, Decide, OpenAudited, CandidatesDone, CycleCompleted,
       ClearIntent, SkipRead, SkipAudited, Skipped, HaltRead, HaltMark, HaltPause,
       HaltAudited,
       HaltComplete
  <1>2. Failure => UNCHANGED book \/ ManageTrade \/ Fill \/ Decorate \/ CloseAllRow
    BY DEF Failure, StorageFails, HaltFails, Crash, SpendFault
  <1>3. Operator => UNCHANGED book \/ ManageTrade \/ Fill \/ Decorate \/ CloseAllRow
    BY DEF Operator, PauseShadow, ResumeClearsStop, ResumeClearsPause, RequestStop,
       Interrupt, CloseAllRead
  <1>4. Start \/ Midnight \/ UNCHANGED vars =>
        UNCHANGED book \/ ManageTrade \/ Fill \/ Decorate \/ CloseAllRow
    BY DEF Start, Midnight, vars
  <1> QED BY <1>1, <1>2, <1>3, <1>4 DEF Next

\* The run writes paper_trades only inside its own intent, on a base that is not
\* latched (process_paper_cycle).
THEOREM OwnCycle == Spec => MutatesOnlyInItsOwnCycle
  <1>1. Inv /\ [Next]_vars => [RunChangesBook => intent /\ ~latched /\ ~orphan]_vars
    <2> SUFFICES ASSUME Inv, [Next]_vars, RunChangesBook
                 PROVE  intent /\ ~latched /\ ~orphan
      OBVIOUS
    <2>1. ~ CloseAllRow BY DEF CloseAllRow, RunChangesBook
    <2>2. pc \in InCycle
        BY <2>1, BookWriters DEF RunChangesBook, ManageTrade, Fill, Decorate, InCycle
    <2> QED BY <2>2 DEF Inv, CycleInv
  <1> QED BY <1>1, Invariance, PTL DEF MutatesOnlyInItsOwnCycle, Spec

\* open_trade never fills on a day that the decision ledger has halted.
THEOREM HaltedDay == Spec => HaltedDayOpensNothing
  <1>1. Inv /\ [Next]_vars =>
          [\A s \in Signals : book[s] = "none" /\ book'[s] = "open" => ~dayHalted[day]]_vars
    <2> SUFFICES ASSUME Inv, [Next]_vars, NEW s \in Signals,
                        book[s] = "none", book'[s] = "open"
                 PROVE  ~dayHalted[day]
      BY DEF vars
    <2>1. ~ ManageTrade BY DEF ManageTrade, Inv, Data, BookInv, Booked
    <2>2. ~ CloseAllRow BY DEF CloseAllRow, Inv, Data
    <2>3. ~ Decorate BY DEF Decorate, Inv, Data, BookInv, Booked
    <2>4. Fill BY <2>1, <2>2, <2>3, BookWriters
    <2> QED BY <2>4 DEF Fill, Inv, Data, LedgerInv, Days
  <1> QED BY <1>1, Invariance, PTL DEF HaltedDayOpensNothing, Spec

\* Whatever _sync_daily_pause expired, failed or left to a restart, a day that the
\* decision ledger has halted is paused once its cycle is settled, but for an
\* operator who lifted the pause since.
THEOREM HaltedDayPaused == Spec => []HaltedDayIsPaused
  <1>1. Inv => HaltedDayIsPaused
    BY DEF Inv, HaltedInv, HaltedDayIsPaused
  <1> QED BY <1>1, Invariance, PTL

\* Only the last write of halt_paper_cycle declares the audit complete.
LEMMA Declared ==
  [Next]_vars /\ auditMark # "complete" /\ auditMark' = "complete" => HaltComplete
  <1> USE DEF base
  <1>1. RunStep => UNCHANGED auditMark \/ HaltMark \/ HaltComplete
    BY DEF RunStep, Started, ClearStaleRead, ClearStaleWrite, Recover, LoopHead,
       PollTelegram, Acquire, IntegrityStop, Stopping, Stopped, AfterCycle, CycleBegin,
       CycleReceived, WriteIntent, ManageTrade, CloseAudited, StaleObservation, ManageDone,
       RefreshRiskState, LedgerRejects, SyncRead, PauseWrite, DayWrite, ExpireRead,
       ResumeWrite, TakeCandidate, Decide, Fill, Decorate, OpenAudited, CandidatesDone,
       CycleCompleted,
       ClearIntent, SkipRead, SkipAudited, Skipped, HaltRead, HaltPause, HaltAudited
  <1>2. Failure => UNCHANGED auditMark \/ HaltMark \/ HaltComplete
    BY DEF Failure, StorageFails, HaltFails, Crash, SpendFault
  <1>3. Operator => UNCHANGED auditMark \/ HaltMark \/ HaltComplete
    BY DEF Operator, PauseShadow, ResumeClearsStop, ResumeClearsPause, RequestStop,
       Interrupt, CloseAllRead, CloseAllRow
  <1>4. Start \/ Midnight \/ UNCHANGED vars =>
        UNCHANGED auditMark \/ HaltMark \/ HaltComplete
    BY DEF Start, Midnight, vars
  <1> QED BY <1>1, <1>2, <1>3, <1>4 DEF Next, HaltMark

\* halt_paper_cycle declares the audit complete only when no storage or audit error
\* has reached it in this run, and never for the refusal of an unfinished cycle.
THEOREM Refusal == Spec => RefusalDoesNotHeal
  <1>1. Inv /\ [Next]_vars =>
          [auditMark # "complete" /\ auditMark' = "complete" =>
             ~doubt /\ (orphan => cause # "latched")]_vars
    <2> SUFFICES ASSUME Inv, [Next]_vars, auditMark # "complete", auditMark' = "complete"
                 PROVE  ~doubt /\ (orphan => cause # "latched")
      OBVIOUS
    <2>1. certain BY Declared DEF HaltComplete, Inv, AuditInv
    <2> QED BY <2>1 DEF Inv, AuditInv, CycleInv
  <1> QED BY <1>1, Invariance, PTL DEF RefusalDoesNotHeal, Spec

-----------------------------------------------------------------------------
(* The refinement of AuditedBook, and how far the findings reach.           *)

\* What is still to be managed is open or was closed by hand meanwhile, and the
\* opening under audit is on the book.
RowsInv ==
  /\ \A s \in todo : book[s] \in {"open", "manual"}
  /\ pc \in {"decorate", "opened"} => book[sig] \in {"open", "manual"}
\* Whoever has written the audit mark has latched the base before.
LatchInv ==
  /\ auditMark # "unset" => latched
  /\ pc \in {"haltPause", "haltAudit", "haltComplete"} => latched

\* Every step keeps the rows to manage as they were loaded, or closed by hand.
LEMMA RowsStep == Data /\ BookInv /\ RowsInv /\ [Next]_vars => RowsInv'
  <1> SUFFICES ASSUME Data, BookInv, RowsInv, [Next]_vars PROVE RowsInv'
    OBVIOUS
  <1> USE DEF RowsInv, BookInv, Booked, Data, Fallible, Goto, Raise, Forget, Exit,
        SetPause, OperatorSets,
      base, local, env, ghost
  <1>1. CASE Start BY <1>1 DEF Start
  <1>2. CASE Started BY <1>2 DEF Started
  <1>3. CASE ClearStaleRead BY <1>3 DEF ClearStaleRead
  <1>4. CASE ClearStaleWrite BY <1>4 DEF ClearStaleWrite
  <1>5. CASE Recover BY <1>5 DEF Recover
  <1>6. CASE LoopHead BY <1>6 DEF LoopHead
  <1>7. CASE PollTelegram BY <1>7 DEF PollTelegram
  <1>8. CASE Acquire BY <1>8 DEF Acquire
  <1>9. CASE IntegrityStop BY <1>9 DEF IntegrityStop
  <1>10. CASE Stopping BY <1>10 DEF Stopping
  <1>11. CASE Stopped BY <1>11 DEF Stopped
  <1>12. CASE AfterCycle BY <1>12 DEF AfterCycle
  <1>13. CASE CycleBegin BY <1>13 DEF CycleBegin
  <1>14. CASE CycleReceived BY <1>14 DEF CycleReceived
  <1>15. CASE WriteIntent BY <1>15 DEF WriteIntent, OpenTrades
  <1>16. CASE ManageTrade BY <1>16 DEF ManageTrade
  <1>17. CASE CloseAudited BY <1>17 DEF CloseAudited
  <1>18. CASE StaleObservation BY <1>18 DEF StaleObservation
  <1>19. CASE ManageDone BY <1>19 DEF ManageDone
  <1>20. CASE RefreshRiskState BY <1>20 DEF RefreshRiskState, Observe
  <1>21. CASE LedgerRejects BY <1>21 DEF LedgerRejects
  <1>22. CASE SyncRead BY <1>22 DEF SyncRead
  <1>23. CASE PauseWrite BY <1>23 DEF PauseWrite
  <1>24. CASE DayWrite BY <1>24 DEF DayWrite
  <1>25. CASE ExpireRead BY <1>25 DEF ExpireRead, AfterSync
  <1>26. CASE ResumeWrite BY <1>26 DEF ResumeWrite, AfterSync
  <1>27. CASE TakeCandidate BY <1>27 DEF TakeCandidate, Observe
  <1>28. CASE Decide BY <1>28 DEF Decide
  <1>29. CASE Fill BY <1>29 DEF Fill
  <1>30. CASE OpenAudited BY <1>30 DEF OpenAudited
  <1>31. CASE CandidatesDone BY <1>31 DEF CandidatesDone
  <1>32. CASE CycleCompleted BY <1>32 DEF CycleCompleted
  <1>33. CASE ClearIntent BY <1>33 DEF ClearIntent
  <1>34. CASE SkipRead BY <1>34 DEF SkipRead
  <1>35. CASE SkipAudited BY <1>35 DEF SkipAudited
  <1>36. CASE Skipped BY <1>36 DEF Skipped
  <1>37. CASE HaltRead BY <1>37 DEF HaltRead
  <1>38. CASE HaltMark BY <1>38 DEF HaltMark
  <1>39. CASE HaltPause BY <1>39 DEF HaltPause
  <1>40. CASE HaltAudited BY <1>40 DEF HaltAudited
  <1>41. CASE HaltComplete BY <1>41 DEF HaltComplete
  <1>42. CASE StorageFails BY <1>42 DEF StorageFails, SpendFault
  <1>43. CASE HaltFails BY <1>43 DEF HaltFails, SpendFault
  <1>44. CASE Crash BY <1>44 DEF Crash
  <1>45. CASE Midnight BY <1>45 DEF Midnight
  <1>46. CASE PauseShadow BY <1>46 DEF PauseShadow, Issue
  <1>47. CASE ResumeClearsStop BY <1>47 DEF ResumeClearsStop, Issue
  <1>48. CASE ResumeClearsPause BY <1>48 DEF ResumeClearsPause
  <1>49. CASE RequestStop BY <1>49 DEF RequestStop, Issue
  <1>50. CASE Interrupt BY <1>50 DEF Interrupt, Issue
  <1>51. CASE CloseAllRead BY <1>51 DEF CloseAllRead, Issue, OpenTrades
  <1>52. CASE CloseAllRow BY <1>52 DEF CloseAllRow
  <1>53. CASE UNCHANGED vars BY <1>53 DEF vars
  <1>54. CASE Decorate BY <1>54 DEF Decorate
  <1> QED
    BY <1>1, <1>2, <1>3, <1>4, <1>5, <1>6, <1>7, <1>8, <1>9, <1>10, <1>11, <1>12,
       <1>13, <1>14, <1>15, <1>16, <1>17, <1>18, <1>19, <1>20, <1>21, <1>22, <1>23,
       <1>24, <1>25, <1>26, <1>27, <1>28, <1>29, <1>30, <1>31, <1>32, <1>33, <1>34,
       <1>35, <1>36, <1>37, <1>38, <1>39, <1>40, <1>41, <1>42, <1>43, <1>44, <1>45,
       <1>46, <1>47, <1>48, <1>49, <1>50, <1>51, <1>52, <1>53, <1>54 DEF Next, RunStep,
       Failure,
       Operator

\* Every step keeps the latch behind the audit mark.
LEMMA LatchStep == LatchInv /\ [Next]_vars => LatchInv'
  <1> SUFFICES ASSUME LatchInv, [Next]_vars PROVE LatchInv'
    OBVIOUS
  <1> USE DEF LatchInv, Fallible, Halting, Goto, Raise, Forget, Exit, SetPause,
        OperatorSets, base, local,
      env, ghost
  <1>1. CASE Start BY <1>1 DEF Start
  <1>2. CASE Started BY <1>2 DEF Started
  <1>3. CASE ClearStaleRead BY <1>3 DEF ClearStaleRead
  <1>4. CASE ClearStaleWrite BY <1>4 DEF ClearStaleWrite
  <1>5. CASE Recover BY <1>5 DEF Recover
  <1>6. CASE LoopHead BY <1>6 DEF LoopHead
  <1>7. CASE PollTelegram BY <1>7 DEF PollTelegram
  <1>8. CASE Acquire BY <1>8 DEF Acquire
  <1>9. CASE IntegrityStop BY <1>9 DEF IntegrityStop
  <1>10. CASE Stopping BY <1>10 DEF Stopping
  <1>11. CASE Stopped BY <1>11 DEF Stopped
  <1>12. CASE AfterCycle BY <1>12 DEF AfterCycle
  <1>13. CASE CycleBegin BY <1>13 DEF CycleBegin
  <1>14. CASE CycleReceived BY <1>14 DEF CycleReceived
  <1>15. CASE WriteIntent BY <1>15 DEF WriteIntent, OpenTrades
  <1>16. CASE ManageTrade BY <1>16 DEF ManageTrade
  <1>17. CASE CloseAudited BY <1>17 DEF CloseAudited
  <1>18. CASE StaleObservation BY <1>18 DEF StaleObservation
  <1>19. CASE ManageDone BY <1>19 DEF ManageDone
  <1>20. CASE RefreshRiskState BY <1>20 DEF RefreshRiskState, Observe
  <1>21. CASE LedgerRejects BY <1>21 DEF LedgerRejects
  <1>22. CASE SyncRead BY <1>22 DEF SyncRead
  <1>23. CASE PauseWrite BY <1>23 DEF PauseWrite
  <1>24. CASE DayWrite BY <1>24 DEF DayWrite
  <1>25. CASE ExpireRead BY <1>25 DEF ExpireRead, AfterSync
  <1>26. CASE ResumeWrite BY <1>26 DEF ResumeWrite, AfterSync
  <1>27. CASE TakeCandidate BY <1>27 DEF TakeCandidate, Observe
  <1>28. CASE Decide BY <1>28 DEF Decide
  <1>29. CASE Fill BY <1>29 DEF Fill
  <1>30. CASE OpenAudited BY <1>30 DEF OpenAudited
  <1>31. CASE CandidatesDone BY <1>31 DEF CandidatesDone
  <1>32. CASE CycleCompleted BY <1>32 DEF CycleCompleted
  <1>33. CASE ClearIntent BY <1>33 DEF ClearIntent
  <1>34. CASE SkipRead BY <1>34 DEF SkipRead
  <1>35. CASE SkipAudited BY <1>35 DEF SkipAudited
  <1>36. CASE Skipped BY <1>36 DEF Skipped
  <1>37. CASE HaltRead BY <1>37 DEF HaltRead
  <1>38. CASE HaltMark BY <1>38 DEF HaltMark
  <1>39. CASE HaltPause BY <1>39 DEF HaltPause
  <1>40. CASE HaltAudited BY <1>40 DEF HaltAudited
  <1>41. CASE HaltComplete BY <1>41 DEF HaltComplete
  <1>42. CASE StorageFails BY <1>42 DEF StorageFails, SpendFault
  <1>43. CASE HaltFails BY <1>43 DEF HaltFails, SpendFault
  <1>44. CASE Crash BY <1>44 DEF Crash
  <1>45. CASE Midnight BY <1>45 DEF Midnight
  <1>46. CASE PauseShadow BY <1>46 DEF PauseShadow, Issue
  <1>47. CASE ResumeClearsStop BY <1>47 DEF ResumeClearsStop, Issue
  <1>48. CASE ResumeClearsPause BY <1>48 DEF ResumeClearsPause
  <1>49. CASE RequestStop BY <1>49 DEF RequestStop, Issue
  <1>50. CASE Interrupt BY <1>50 DEF Interrupt, Issue
  <1>51. CASE CloseAllRead BY <1>51 DEF CloseAllRead, Issue, OpenTrades
  <1>52. CASE CloseAllRow BY <1>52 DEF CloseAllRow
  <1>53. CASE UNCHANGED vars BY <1>53 DEF vars
  <1>54. CASE Decorate BY <1>54 DEF Decorate
  <1> QED
    BY <1>1, <1>2, <1>3, <1>4, <1>5, <1>6, <1>7, <1>8, <1>9, <1>10, <1>11, <1>12,
       <1>13, <1>14, <1>15, <1>16, <1>17, <1>18, <1>19, <1>20, <1>21, <1>22, <1>23,
       <1>24, <1>25, <1>26, <1>27, <1>28, <1>29, <1>30, <1>31, <1>32, <1>33, <1>34,
       <1>35, <1>36, <1>37, <1>38, <1>39, <1>40, <1>41, <1>42, <1>43, <1>44, <1>45,
       <1>46, <1>47, <1>48, <1>49, <1>50, <1>51, <1>52, <1>53, <1>54 DEF Next, RunStep,
       Failure,
       Operator

Traces == Inv /\ RowsInv /\ LatchInv

\* Both hold from the start and for good.
LEMMA TracesAlways == Spec => []Traces
  <1>1. Init => Traces
    BY InitInv DEF Init, Traces, RowsInv, LatchInv
  <1>2. Traces /\ [Next]_vars => Traces'
    BY FlagsStep, DataStep, CycleStep, BookStep, PauseStep, LedgerStep, HaltedStep,
       AuditStep, RowsStep,
       LatchStep DEF Inv, Traces
  <1> QED BY <1>1, <1>2, PTL DEF Spec

\* A cycle is entered only by its intent, and nobody changes who owns it.
LEMMA Entrances ==
  [Next]_vars => \/ WriteIntent \/ pc' \notin InCycle
                 \/ pc \in InCycle /\ UNCHANGED <<latched, orphan>>
  <1> SUFFICES ASSUME [Next]_vars
               PROVE  \/ WriteIntent \/ pc' \notin InCycle
                      \/ pc \in InCycle /\ UNCHANGED <<latched, orphan>>
    OBVIOUS
  <1> USE DEF InCycle, Fallible, Halting, Goto, Raise, Forget, Exit, SetPause,
        OperatorSets, base, local,
      env, ghost
  <1>1. CASE Start BY <1>1 DEF Start
  <1>2. CASE Started BY <1>2 DEF Started
  <1>3. CASE ClearStaleRead BY <1>3 DEF ClearStaleRead
  <1>4. CASE ClearStaleWrite BY <1>4 DEF ClearStaleWrite
  <1>5. CASE Recover BY <1>5 DEF Recover
  <1>6. CASE LoopHead BY <1>6 DEF LoopHead
  <1>7. CASE PollTelegram BY <1>7 DEF PollTelegram
  <1>8. CASE Acquire BY <1>8 DEF Acquire
  <1>9. CASE IntegrityStop BY <1>9 DEF IntegrityStop
  <1>10. CASE Stopping BY <1>10 DEF Stopping
  <1>11. CASE Stopped BY <1>11 DEF Stopped
  <1>12. CASE AfterCycle BY <1>12 DEF AfterCycle
  <1>13. CASE CycleBegin BY <1>13 DEF CycleBegin
  <1>14. CASE CycleReceived BY <1>14 DEF CycleReceived
  <1>15. CASE WriteIntent BY <1>15
  <1>16. CASE ManageTrade BY <1>16 DEF ManageTrade
  <1>17. CASE CloseAudited BY <1>17 DEF CloseAudited
  <1>18. CASE StaleObservation BY <1>18 DEF StaleObservation
  <1>19. CASE ManageDone BY <1>19 DEF ManageDone
  <1>20. CASE RefreshRiskState BY <1>20 DEF RefreshRiskState, Observe
  <1>21. CASE LedgerRejects BY <1>21 DEF LedgerRejects
  <1>22. CASE SyncRead BY <1>22 DEF SyncRead
  <1>23. CASE PauseWrite BY <1>23 DEF PauseWrite
  <1>24. CASE DayWrite BY <1>24 DEF DayWrite
  <1>25. CASE ExpireRead BY <1>25 DEF ExpireRead, AfterSync
  <1>26. CASE ResumeWrite BY <1>26 DEF ResumeWrite, AfterSync
  <1>27. CASE TakeCandidate BY <1>27 DEF TakeCandidate, Observe
  <1>28. CASE Decide BY <1>28 DEF Decide
  <1>29. CASE Fill BY <1>29 DEF Fill
  <1>30. CASE OpenAudited BY <1>30 DEF OpenAudited
  <1>31. CASE CandidatesDone BY <1>31 DEF CandidatesDone
  <1>32. CASE CycleCompleted BY <1>32 DEF CycleCompleted
  <1>33. CASE ClearIntent BY <1>33 DEF ClearIntent
  <1>34. CASE SkipRead BY <1>34 DEF SkipRead
  <1>35. CASE SkipAudited BY <1>35 DEF SkipAudited
  <1>36. CASE Skipped BY <1>36 DEF Skipped
  <1>37. CASE HaltRead BY <1>37 DEF HaltRead
  <1>38. CASE HaltMark BY <1>38 DEF HaltMark
  <1>39. CASE HaltPause BY <1>39 DEF HaltPause
  <1>40. CASE HaltAudited BY <1>40 DEF HaltAudited
  <1>41. CASE HaltComplete BY <1>41 DEF HaltComplete
  <1>42. CASE StorageFails BY <1>42 DEF StorageFails, SpendFault
  <1>43. CASE HaltFails BY <1>43 DEF HaltFails, SpendFault
  <1>44. CASE Crash BY <1>44 DEF Crash
  <1>45. CASE Midnight BY <1>45 DEF Midnight
  <1>46. CASE PauseShadow BY <1>46 DEF PauseShadow, Issue
  <1>47. CASE ResumeClearsStop BY <1>47 DEF ResumeClearsStop, Issue
  <1>48. CASE ResumeClearsPause BY <1>48 DEF ResumeClearsPause
  <1>49. CASE RequestStop BY <1>49 DEF RequestStop, Issue
  <1>50. CASE Interrupt BY <1>50 DEF Interrupt, Issue
  <1>51. CASE CloseAllRead BY <1>51 DEF CloseAllRead, Issue, OpenTrades
  <1>52. CASE CloseAllRow BY <1>52 DEF CloseAllRow
  <1>53. CASE UNCHANGED vars BY <1>53 DEF vars
  <1>54. CASE Decorate BY <1>54 DEF Decorate
  <1> QED
    BY <1>1, <1>2, <1>3, <1>4, <1>5, <1>6, <1>7, <1>8, <1>9, <1>10, <1>11, <1>12,
       <1>13, <1>14, <1>15, <1>16, <1>17, <1>18, <1>19, <1>20, <1>21, <1>22, <1>23,
       <1>24, <1>25, <1>26, <1>27, <1>28, <1>29, <1>30, <1>31, <1>32, <1>33, <1>34,
       <1>35, <1>36, <1>37, <1>38, <1>39, <1>40, <1>41, <1>42, <1>43, <1>44, <1>45,
       <1>46, <1>47, <1>48, <1>49, <1>50, <1>51, <1>52, <1>53, <1>54 DEF Next, RunStep,
       Failure,
       Operator

\* The only steps that write paper_cycle_in_progress or report an entry.
LEMMA MarkWriters ==
  [Next]_vars => UNCHANGED <<intent, reported>> \/ WriteIntent \/ OpenAudited \/ ClearIntent
  <1> USE DEF base
  <1>1. RunStep =>
          UNCHANGED <<intent, reported>> \/ WriteIntent \/ OpenAudited \/ ClearIntent
    BY DEF RunStep, Started, ClearStaleRead, ClearStaleWrite, Recover, LoopHead,
       PollTelegram, Acquire, IntegrityStop, Stopping, Stopped, AfterCycle,
       CycleBegin, CycleReceived, ManageTrade, CloseAudited, StaleObservation,
       ManageDone, RefreshRiskState, LedgerRejects, SyncRead, PauseWrite, DayWrite,
       ExpireRead, ResumeWrite, TakeCandidate, Decide, Fill, Decorate, CandidatesDone,
       CycleCompleted, SkipRead, SkipAudited, Skipped, HaltRead, HaltMark, HaltPause,
       HaltAudited, HaltComplete
  <1>2. Failure => UNCHANGED <<intent, reported>>
    BY DEF Failure, StorageFails, HaltFails, Crash, SpendFault
  <1>3. Operator => UNCHANGED <<intent, reported>>
    BY DEF Operator, PauseShadow, ResumeClearsStop, ResumeClearsPause, RequestStop,
       Interrupt, CloseAllRead, CloseAllRow
  <1>4. Start \/ Midnight \/ UNCHANGED vars => UNCHANGED <<intent, reported>>
    BY DEF Start, Midnight, vars
  <1> QED BY <1>1, <1>2, <1>3, <1>4 DEF Next

\* Every step of the lifecycle is a step of the audited book or leaves it alone.
LEMMA AuditedStep ==
  ASSUME Traces, [Next]_vars
  PROVE  [Audit!Next]_(Audit!bookVars)
  <1> USE DEF Traces, Inv
  <1>0. /\ book \in [Signals -> Statuses] /\ todo \subseteq Signals /\ opClose \subseteq Booked
        /\ intent \in BOOLEAN /\ intent' \in BOOLEAN
    BY FlagsStep DEF Data, Flags, BookInv
  <1>1. CASE WriteIntent
    <2>1. Phase = "settled" /\ Phase' = "working" /\ UNCHANGED <<book, reported>>
      BY <1>1 DEF WriteIntent, CycleInv, Ready, Phase, InCycle, Goto, ghost
    <2> QED BY <2>1 DEF Audit!Next, Audit!Begin, Audit!Turns
  <1>2. CASE ClearIntent
    <2>1. pc \in InCycle \ {"decorate", "opened"}
      BY <1>2 DEF ClearIntent, InCycle
    <2>2. Phase = "working"
      BY <2>1 DEF CycleInv, Phase
    <2>3. Booked \subseteq reported
      BY <2>1 DEF BookInv
    <2>4. Phase' = "settled" /\ UNCHANGED <<book, reported>>
      BY <1>2 DEF ClearIntent, Phase
    <2> QED BY <2>2, <2>3, <2>4 DEF Audit!Next, Audit!Settle, Audit!Turns, Audit!Entered,
    Booked
  <1>3. CASE OpenAudited
    <2>1. Phase = "working" /\ Phase' = "working" /\ sig \in Booked
      BY <1>3 DEF OpenAudited, CycleInv, RowsInv, Data, Booked, Phase, InCycle, Goto, ghost
    <2>2. reported' = reported \cup {sig} /\ UNCHANGED book
      BY <1>3 DEF OpenAudited
    <2>3. Audit!Report(sig)
      BY <2>1, <2>2 DEF Audit!Report, Audit!Entered, Booked
    <2> QED BY <2>1, <2>3 DEF Audit!Next, Booked
  <1>4. CASE ManageTrade
    <2>1. Phase = "working" /\ Phase' = "working" /\ UNCHANGED reported
      BY <1>4 DEF ManageTrade, CycleInv, Phase, InCycle, Goto
    <2>2. PICK s \in todo : \E to \in {"open", "closed"} : book' = [book EXCEPT ![s] = to]
      BY <1>4 DEF ManageTrade
    <2>3. Audit!Manage(s)
      BY <2>1, <2>2 DEF Audit!Manage, RowsInv
    <2> QED BY <1>0, <2>3 DEF Audit!Next
  <1>5. CASE Fill
    <2>1. Phase = "working" /\ Phase' = "working" /\ UNCHANGED reported
      BY <1>5 DEF Fill, CycleInv, Phase, InCycle, Goto
    <2>2. sig \in Signals /\ Booked \subseteq reported
      BY <1>5 DEF Fill, CycleInv, BookInv, Data, InCycle
    <2>3. Audit!Enter(sig)
      BY <1>5, <2>1, <2>2 DEF Fill, Audit!Enter, Audit!Entered, Booked
    <2> QED BY <2>2, <2>3 DEF Audit!Next
  <1>6. CASE CloseAllRow
    <2>1. UNCHANGED <<Phase, reported>>
      BY <1>6 DEF CloseAllRow, Phase, ghost
    <2>2. PICK s \in opClose : book' = [book EXCEPT ![s] = "manual"]
      BY <1>6 DEF CloseAllRow
    <2>3. s \in Signals /\ Audit!CloseByHand(s)
      BY <1>0, <2>1, <2>2 DEF Audit!CloseByHand, Audit!Entered, Booked
    <2> QED BY <2>3 DEF Audit!Next
  <1>7. CASE Decorate
    <2>1. Phase = "working" /\ Phase' = "working" /\ UNCHANGED reported
      BY <1>7 DEF Decorate, CycleInv, Phase, InCycle, Goto, ghost
    <2>2. sig \in Signals /\ book[sig] \in {"open", "manual"}
      BY <1>7 DEF Decorate, RowsInv, Data
    <2>3. Audit!Manage(sig)
      BY <1>7, <2>1, <2>2 DEF Decorate, Audit!Manage
    <2> QED BY <2>2, <2>3 DEF Audit!Next
  <1>8. CASE ~WriteIntent /\ ~ClearIntent /\ ~OpenAudited /\ UNCHANGED book
    <2>1. UNCHANGED <<book, intent, reported>>
      BY <1>8, MarkWriters
    <2>2. Phase' = Phase \/ (Phase = "working" /\ Phase' = "abandoned")
      BY <1>8, <2>1, Entrances DEF Phase
    <2> QED BY <2>1, <2>2 DEF Audit!Next, Audit!Abandon, Audit!Turns, Audit!bookVars
  <1> QED BY <1>1, <1>2, <1>3, <1>4, <1>5, <1>6, <1>7, <1>8, BookWriters

\* The lifecycle (process_paper_cycle, halt_paper_cycle and the operator's
\* close-all) implements the audited book.
THEOREM ImplementsAuditedBook == Spec => BookIsAudited
  <1>1. Init => Audit!Init
    BY DEF Init, Phase, Audit!Init
  <1>2. Traces /\ [Next]_vars => [Audit!Next]_(Audit!bookVars)
    BY AuditedStep
  <1> QED BY <1>1, <1>2, TracesAlways, PTL DEF Spec, BookIsAudited, Audit!Spec

\* A trade that the run has closed never comes back, one closed by hand only if the
\* run still holds its row: update_with_snapshot the one it loaded before, or
\* _decorate_stable_trade the one open_trade returned.
THEOREM ReopenedAtMost == Spec => ReopensOnlyRowsInHand
  <1>1. Traces /\ [Next]_vars =>
          [\A s \in Signals : book[s] \in {"closed", "manual"} /\ book'[s] = "open" =>
             /\ book[s] = "manual"
             /\ (pc = "manage" /\ s \in todo) \/ (pc = "decorate" /\ s = sig)]_vars
    <2> SUFFICES ASSUME Traces, [Next]_vars, NEW s \in Signals,
                        book[s] \in {"closed", "manual"}, book'[s] = "open"
                 PROVE  /\ book[s] = "manual"
                        /\ (pc = "manage" /\ s \in todo) \/ (pc = "decorate" /\ s = sig)
      OBVIOUS
    <2>0. book \in [Signals -> Statuses]
      BY DEF Traces, Inv, Data
    <2>1. ~CloseAllRow
      BY <2>0 DEF CloseAllRow
    <2>2. ~Fill
      BY <2>0 DEF Fill
    <2>3. CASE ManageTrade
      <3>1. pc = "manage" /\ s \in todo
        BY <2>0, <2>3 DEF ManageTrade
      <3> QED BY <3>1 DEF Traces, RowsInv
    <2>4. CASE Decorate
      <3>1. pc = "decorate" /\ s = sig
        BY <2>0, <2>4 DEF Decorate
      <3> QED BY <3>1 DEF Traces, RowsInv
    <2> QED BY <2>0, <2>1, <2>2, <2>3, <2>4, BookWriters
  <1> QED BY <1>1, TracesAlways, PTL DEF ReopensOnlyRowsInHand, Spec

\* A process ends only at the end of its stop or of its halt, or where it fails or
\* is killed.
LEMMA Endings ==
  [Next]_vars /\ pc # "off" /\ pc' = "off" =>
    Stopped \/ HaltAudited \/ HaltComplete \/ HaltFails \/ Crash
  <1> SUFFICES ASSUME [Next]_vars, pc # "off", pc' = "off"
               PROVE  Stopped \/ HaltAudited \/ HaltComplete \/ HaltFails \/ Crash
    OBVIOUS
  <1> USE DEF Fallible, Goto, Raise, SetPause, OperatorSets, base, local, env, ghost
  <1>1. CASE Start BY <1>1 DEF Start
  <1>2. CASE Started BY <1>2 DEF Started
  <1>3. CASE ClearStaleRead BY <1>3 DEF ClearStaleRead
  <1>4. CASE ClearStaleWrite BY <1>4 DEF ClearStaleWrite
  <1>5. CASE Recover BY <1>5 DEF Recover
  <1>6. CASE LoopHead BY <1>6 DEF LoopHead
  <1>7. CASE PollTelegram BY <1>7 DEF PollTelegram
  <1>8. CASE Acquire BY <1>8 DEF Acquire
  <1>9. CASE IntegrityStop BY <1>9 DEF IntegrityStop
  <1>10. CASE Stopping BY <1>10 DEF Stopping
  <1>11. CASE Stopped BY <1>11 DEF Stopped
  <1>12. CASE AfterCycle BY <1>12 DEF AfterCycle
  <1>13. CASE CycleBegin BY <1>13 DEF CycleBegin
  <1>14. CASE CycleReceived BY <1>14 DEF CycleReceived
  <1>15. CASE WriteIntent BY <1>15 DEF WriteIntent, OpenTrades
  <1>16. CASE ManageTrade BY <1>16 DEF ManageTrade
  <1>17. CASE CloseAudited BY <1>17 DEF CloseAudited
  <1>18. CASE StaleObservation BY <1>18 DEF StaleObservation
  <1>19. CASE ManageDone BY <1>19 DEF ManageDone
  <1>20. CASE RefreshRiskState BY <1>20 DEF RefreshRiskState, Observe
  <1>21. CASE LedgerRejects BY <1>21 DEF LedgerRejects
  <1>22. CASE SyncRead BY <1>22 DEF SyncRead
  <1>23. CASE PauseWrite BY <1>23 DEF PauseWrite
  <1>24. CASE DayWrite BY <1>24 DEF DayWrite
  <1>25. CASE ExpireRead BY <1>25 DEF ExpireRead, AfterSync
  <1>26. CASE ResumeWrite BY <1>26 DEF ResumeWrite, AfterSync
  <1>27. CASE TakeCandidate BY <1>27 DEF TakeCandidate, Observe
  <1>28. CASE Decide BY <1>28 DEF Decide
  <1>29. CASE Fill BY <1>29 DEF Fill
  <1>30. CASE OpenAudited BY <1>30 DEF OpenAudited
  <1>31. CASE CandidatesDone BY <1>31 DEF CandidatesDone
  <1>32. CASE CycleCompleted BY <1>32 DEF CycleCompleted
  <1>33. CASE ClearIntent BY <1>33 DEF ClearIntent
  <1>34. CASE SkipRead BY <1>34 DEF SkipRead
  <1>35. CASE SkipAudited BY <1>35 DEF SkipAudited
  <1>36. CASE Skipped BY <1>36 DEF Skipped
  <1>37. CASE HaltRead BY <1>37 DEF HaltRead
  <1>38. CASE HaltMark BY <1>38 DEF HaltMark
  <1>39. CASE HaltPause BY <1>39 DEF HaltPause
  <1>40. CASE HaltAudited BY <1>40 DEF HaltAudited
  <1>41. CASE HaltComplete BY <1>41 DEF HaltComplete
  <1>42. CASE StorageFails BY <1>42 DEF StorageFails, SpendFault
  <1>43. CASE HaltFails BY <1>43 DEF HaltFails, SpendFault
  <1>44. CASE Crash BY <1>44 DEF Crash
  <1>45. CASE Midnight BY <1>45 DEF Midnight
  <1>46. CASE PauseShadow BY <1>46 DEF PauseShadow, Issue
  <1>47. CASE ResumeClearsStop BY <1>47 DEF ResumeClearsStop, Issue
  <1>48. CASE ResumeClearsPause BY <1>48 DEF ResumeClearsPause
  <1>49. CASE RequestStop BY <1>49 DEF RequestStop, Issue
  <1>50. CASE Interrupt BY <1>50 DEF Interrupt, Issue
  <1>51. CASE CloseAllRead BY <1>51 DEF CloseAllRead, Issue, OpenTrades
  <1>52. CASE CloseAllRow BY <1>52 DEF CloseAllRow
  <1>53. CASE UNCHANGED vars BY <1>53 DEF vars
  <1>54. CASE Decorate BY <1>54 DEF Decorate
  <1> QED
    BY <1>1, <1>2, <1>3, <1>4, <1>5, <1>6, <1>7, <1>8, <1>9, <1>10, <1>11, <1>12,
       <1>13, <1>14, <1>15, <1>16, <1>17, <1>18, <1>19, <1>20, <1>21, <1>22, <1>23,
       <1>24, <1>25, <1>26, <1>27, <1>28, <1>29, <1>30, <1>31, <1>32, <1>33, <1>34,
       <1>35, <1>36, <1>37, <1>38, <1>39, <1>40, <1>41, <1>42, <1>43, <1>44, <1>45,
       <1>46, <1>47, <1>48, <1>49, <1>50, <1>51, <1>52, <1>53, <1>54 DEF Next, RunStep,
       Failure,
       Operator

\* A run in doubt leaves neither latch nor intent only if the latch write of
\* halt_paper_cycle fails itself, or the process is killed.
THEOREM LatchLost == Spec => LatchLostOnlyWithItsWrite
  <1>1. Traces /\ [Next]_vars =>
          [pc' = "off" /\ pc # "off" /\ doubt' =>
             \/ latched' \/ intent' \/ (pc = "haltMark" /\ faults' = faults + 1)
             \/ crashes' = crashes + 1]_vars
    <2> SUFFICES ASSUME Traces, [Next]_vars, pc' = "off", pc # "off", doubt'
                 PROVE  \/ latched' \/ intent' \/ (pc = "haltMark" /\ faults' = faults + 1)
                        \/ crashes' = crashes + 1
      OBVIOUS
    <2> USE DEF Traces, LatchInv, Inv
    <2>1. CASE Stopped
      <3>1. latched
        BY <2>1 DEF Stopped, ghost, AuditInv, Halting
      <3> QED BY <2>1, <3>1 DEF Stopped, base
    <2>2. CASE HaltAudited
      BY <2>2 DEF HaltAudited, base
    <2>3. CASE HaltComplete
      BY <2>3 DEF HaltComplete
    <2>4. CASE HaltFails
      <3>1. pc \in Halting \ {"halt"}
        BY <2>4 DEF HaltFails, Goto
      <3>2. CASE pc = "haltMark"
        BY <2>4, <3>2 DEF HaltFails, SpendFault
      <3>3. CASE pc # "haltMark"
        BY <2>4, <3>1, <3>3 DEF HaltFails, SpendFault, Halting, base
      <3> QED BY <3>2, <3>3
    <2>5. CASE Crash
      BY <2>5 DEF Crash
    <2> QED BY <2>1, <2>2, <2>3, <2>4, <2>5, Endings
  <1> QED BY <1>1, TracesAlways, PTL DEF LatchLostOnlyWithItsWrite, Spec

\* The only steps that write the stop request.
LEMMA StopWriters ==
  [Next]_vars => \/ UNCHANGED stopReq \/ Start \/ ClearStaleWrite \/ Stopping
                 \/ ResumeClearsStop \/ RequestStop
  <1> USE DEF base
  <1>1. RunStep => UNCHANGED stopReq \/ ClearStaleWrite \/ Stopping
    BY DEF RunStep, Started, ClearStaleRead, Recover, LoopHead, PollTelegram, Acquire,
       IntegrityStop, Stopped, AfterCycle, CycleBegin, CycleReceived, WriteIntent,
       ManageTrade, CloseAudited, StaleObservation, ManageDone, RefreshRiskState,
       LedgerRejects, SyncRead, PauseWrite, DayWrite, ExpireRead, ResumeWrite,
       TakeCandidate, Decide, Fill, Decorate, OpenAudited, CandidatesDone, CycleCompleted,
       ClearIntent, SkipRead, SkipAudited, Skipped, HaltRead, HaltMark, HaltPause,
       HaltAudited, HaltComplete
  <1>2. Failure => UNCHANGED stopReq
    BY DEF Failure, StorageFails, HaltFails, Crash, SpendFault
  <1>3. Operator => UNCHANGED stopReq \/ ResumeClearsStop \/ RequestStop
    BY DEF Operator, PauseShadow, ResumeClearsPause, Interrupt, CloseAllRead, CloseAllRow
  <1>4. Midnight \/ UNCHANGED vars => UNCHANGED stopReq
    BY DEF Midnight, vars
  <1> QED BY <1>1, <1>2, <1>3, <1>4 DEF Next

\* Past _clear_stale_stop_request a run loses no stop request: resume_shadow
\* withdraws it or the stop it asks for takes it.
THEOREM StopIsHeard == Spec => HeardOnceStarted
  <1>1. [Next]_vars =>
          [stopReq = "fresh" /\ stopReq' # "fresh" /\ pc \notin StartUp \cup {"off"} =>
             (opResume' /\ ~opResume) \/ (pc = "stopping" /\ pc' = "stopped")]_vars
    BY StopWriters DEF Start, ClearStaleWrite, Stopping, ResumeClearsStop, RequestStop,
       StartUp,
       Goto
  <1> QED BY <1>1, PTL DEF HeardOnceStarted, Spec

-----------------------------------------------------------------------------
(* Progress.                                                               *)

\* The places, location by location.
LEMMA Places ==
  /\ Place["off"] = 0 /\ Place["haltComplete"] = 1 /\ Place["haltAudit"] = 2
  /\ Place["haltPause"] = 3 /\ Place["haltMark"] = 4 /\ Place["halt"] = 5
  /\ Place["stopped"] = 6 /\ Place["stopping"] = 7 /\ Place["integrity"] = 8
  /\ Place["loop"] = 9 /\ Place["after"] = 10 /\ Place["skipped"] = 11
  /\ Place["skipAudit"] = 12 /\ Place["skip"] = 13 /\ Place["clearIntent"] = 14
  /\ Place["complete"] = 15 /\ Place["candidate"] = 16 /\ Place["resume"] = 17
  /\ Place["expire"] = 18 /\ Place["dayWrite"] = 19 /\ Place["pauseWrite"] = 20
  /\ Place["sync"] = 21 /\ Place["refresh"] = 22 /\ Place["opened"] = 23
  /\ Place["decorate"] = 24 /\ Place["fill"] = 25 /\ Place["decide"] = 26
  /\ Place["manage"] = 27 /\ Place["closeAudit"] = 28 /\ Place["intent"] = 29
  /\ Place["received"] = 30 /\ Place["begin"] = 31 /\ Place["acquire"] = 32
  /\ Place["poll"] = 33 /\ Place["recover"] = 34 /\ Place["clearWrite"] = 35
  /\ Place["clearRead"] = 36 /\ Place["start"] = 37
  BY DEF Place

\* At the candidates the last refresh is still to come.
FinalInv == pc \in {"candidate", "decide", "fill", "decorate", "opened"} => ~final

\* Every step keeps it.
LEMMA FinalStep == FinalInv /\ [Next]_vars => FinalInv'
  <1> SUFFICES ASSUME FinalInv, [Next]_vars PROVE FinalInv'
    OBVIOUS
  <1> USE DEF FinalInv, Fallible, Halting, Goto, Raise, Forget, Exit, SetPause,
        OperatorSets, base, local,
      env, ghost
  <1>1. CASE Start BY <1>1 DEF Start
  <1>2. CASE Started BY <1>2 DEF Started
  <1>3. CASE ClearStaleRead BY <1>3 DEF ClearStaleRead
  <1>4. CASE ClearStaleWrite BY <1>4 DEF ClearStaleWrite
  <1>5. CASE Recover BY <1>5 DEF Recover
  <1>6. CASE LoopHead BY <1>6 DEF LoopHead
  <1>7. CASE PollTelegram BY <1>7 DEF PollTelegram
  <1>8. CASE Acquire BY <1>8 DEF Acquire
  <1>9. CASE IntegrityStop BY <1>9 DEF IntegrityStop
  <1>10. CASE Stopping BY <1>10 DEF Stopping
  <1>11. CASE Stopped BY <1>11 DEF Stopped
  <1>12. CASE AfterCycle BY <1>12 DEF AfterCycle
  <1>13. CASE CycleBegin BY <1>13 DEF CycleBegin
  <1>14. CASE CycleReceived BY <1>14 DEF CycleReceived
  <1>15. CASE WriteIntent BY <1>15 DEF WriteIntent, OpenTrades
  <1>16. CASE ManageTrade BY <1>16 DEF ManageTrade
  <1>17. CASE CloseAudited BY <1>17 DEF CloseAudited
  <1>18. CASE StaleObservation BY <1>18 DEF StaleObservation
  <1>19. CASE ManageDone BY <1>19 DEF ManageDone
  <1>20. CASE RefreshRiskState BY <1>20 DEF RefreshRiskState, Observe
  <1>21. CASE LedgerRejects BY <1>21 DEF LedgerRejects
  <1>22. CASE SyncRead BY <1>22 DEF SyncRead
  <1>23. CASE PauseWrite BY <1>23 DEF PauseWrite
  <1>24. CASE DayWrite BY <1>24 DEF DayWrite
  <1>25. CASE ExpireRead BY <1>25 DEF ExpireRead, AfterSync
  <1>26. CASE ResumeWrite BY <1>26 DEF ResumeWrite, AfterSync
  <1>27. CASE TakeCandidate BY <1>27 DEF TakeCandidate, Observe
  <1>28. CASE Decide BY <1>28 DEF Decide
  <1>29. CASE Fill BY <1>29 DEF Fill
  <1>30. CASE OpenAudited BY <1>30 DEF OpenAudited
  <1>31. CASE CandidatesDone BY <1>31 DEF CandidatesDone
  <1>32. CASE CycleCompleted BY <1>32 DEF CycleCompleted
  <1>33. CASE ClearIntent BY <1>33 DEF ClearIntent
  <1>34. CASE SkipRead BY <1>34 DEF SkipRead
  <1>35. CASE SkipAudited BY <1>35 DEF SkipAudited
  <1>36. CASE Skipped BY <1>36 DEF Skipped
  <1>37. CASE HaltRead BY <1>37 DEF HaltRead
  <1>38. CASE HaltMark BY <1>38 DEF HaltMark
  <1>39. CASE HaltPause BY <1>39 DEF HaltPause
  <1>40. CASE HaltAudited BY <1>40 DEF HaltAudited
  <1>41. CASE HaltComplete BY <1>41 DEF HaltComplete
  <1>42. CASE StorageFails BY <1>42 DEF StorageFails, SpendFault
  <1>43. CASE HaltFails BY <1>43 DEF HaltFails, SpendFault
  <1>44. CASE Crash BY <1>44 DEF Crash
  <1>45. CASE Midnight BY <1>45 DEF Midnight
  <1>46. CASE PauseShadow BY <1>46 DEF PauseShadow, Issue
  <1>47. CASE ResumeClearsStop BY <1>47 DEF ResumeClearsStop, Issue
  <1>48. CASE ResumeClearsPause BY <1>48 DEF ResumeClearsPause
  <1>49. CASE RequestStop BY <1>49 DEF RequestStop, Issue
  <1>50. CASE Interrupt BY <1>50 DEF Interrupt, Issue
  <1>51. CASE CloseAllRead BY <1>51 DEF CloseAllRead, Issue, OpenTrades
  <1>52. CASE CloseAllRow BY <1>52 DEF CloseAllRow
  <1>53. CASE UNCHANGED vars BY <1>53 DEF vars
  <1>54. CASE Decorate BY <1>54 DEF Decorate
  <1> QED
    BY <1>1, <1>2, <1>3, <1>4, <1>5, <1>6, <1>7, <1>8, <1>9, <1>10, <1>11, <1>12,
       <1>13, <1>14, <1>15, <1>16, <1>17, <1>18, <1>19, <1>20, <1>21, <1>22, <1>23,
       <1>24, <1>25, <1>26, <1>27, <1>28, <1>29, <1>30, <1>31, <1>32, <1>33, <1>34,
       <1>35, <1>36, <1>37, <1>38, <1>39, <1>40, <1>41, <1>42, <1>43, <1>44, <1>45,
       <1>46, <1>47, <1>48, <1>49, <1>50, <1>51, <1>52, <1>53, <1>54 DEF Next, RunStep,
       Failure,
       Operator

\* Every step of the run, and every failure of it, makes its measure smaller or
\* begins a round.
LEMMA StepAdvances ==
  Data /\ FinalInv /\ (RunStep \/ Failure) => Nearer \/ NewRound \/ pc = "off"
  <1> SUFFICES ASSUME Data, FinalInv, RunStep \/ Failure, pc # "off"
               PROVE  Nearer \/ NewRound
    OBVIOUS
  <1>0. Place[pc] > 0
    BY Places DEF Data, Control, Fallible, Halting
  <1> USE Places DEF Nearer, NearerInCycle, NewRound, Fewer, InCycle, Data, FinalInv,
      Goto, Raise, Forget, Exit, SetPause, OperatorSets, Fallible, Halting, local, env
  <1>1. CASE Started BY <1>1 DEF Started
  <1>2. CASE ClearStaleRead BY <1>2 DEF ClearStaleRead
  <1>3. CASE ClearStaleWrite BY <1>3 DEF ClearStaleWrite
  <1>4. CASE Recover BY <1>4 DEF Recover
  <1>5. CASE LoopHead BY <1>5 DEF LoopHead
  <1>6. CASE PollTelegram BY <1>6 DEF PollTelegram
  <1>7. CASE Acquire BY <1>7 DEF Acquire
  <1>8. CASE IntegrityStop BY <1>8 DEF IntegrityStop
  <1>9. CASE Stopping BY <1>9 DEF Stopping
  <1>10. CASE Stopped BY <1>10 DEF Stopped
  <1>11. CASE AfterCycle BY <1>11 DEF AfterCycle
  <1>12. CASE CycleBegin BY <1>12 DEF CycleBegin
  <1>13. CASE CycleReceived BY <1>13 DEF CycleReceived
  <1>14. CASE WriteIntent BY <1>14 DEF WriteIntent, OpenTrades
  <1>15. CASE ManageTrade BY <1>15 DEF ManageTrade
  <1>16. CASE CloseAudited BY <1>16 DEF CloseAudited
  <1>17. CASE StaleObservation BY <1>17 DEF StaleObservation
  <1>18. CASE ManageDone BY <1>18 DEF ManageDone
  <1>19. CASE RefreshRiskState BY <1>19 DEF RefreshRiskState, Observe
  <1>20. CASE LedgerRejects BY <1>20 DEF LedgerRejects
  <1>21. CASE SyncRead BY <1>21 DEF SyncRead
  <1>22. CASE PauseWrite BY <1>22 DEF PauseWrite
  <1>23. CASE DayWrite BY <1>23 DEF DayWrite
  <1>24. CASE ExpireRead BY <1>24 DEF ExpireRead, AfterSync
  <1>25. CASE ResumeWrite BY <1>25 DEF ResumeWrite, AfterSync
  <1>26. CASE TakeCandidate BY <1>26 DEF TakeCandidate, Observe
  <1>27. CASE Decide BY <1>27 DEF Decide
  <1>28. CASE Fill BY <1>28 DEF Fill
  <1>29. CASE OpenAudited BY <1>29 DEF OpenAudited
  <1>30. CASE CandidatesDone BY <1>30 DEF CandidatesDone
  <1>31. CASE CycleCompleted BY <1>31 DEF CycleCompleted
  <1>32. CASE ClearIntent BY <1>32 DEF ClearIntent
  <1>33. CASE SkipRead BY <1>33 DEF SkipRead
  <1>34. CASE SkipAudited BY <1>34 DEF SkipAudited
  <1>35. CASE Skipped BY <1>35 DEF Skipped
  <1>36. CASE HaltRead BY <1>36 DEF HaltRead
  <1>37. CASE HaltMark BY <1>37 DEF HaltMark
  <1>38. CASE HaltPause BY <1>38 DEF HaltPause
  <1>39. CASE HaltAudited BY <1>39 DEF HaltAudited
  <1>40. CASE HaltComplete BY <1>40 DEF HaltComplete
  <1>41. CASE StorageFails BY <1>41 DEF StorageFails, SpendFault
  <1>42. CASE HaltFails
    <2>1. pc \in Halting /\ (pc' = "off" \/ (pc = "halt" /\ pc' = "haltMark"))
      BY <1>42 DEF HaltFails
    <2> QED BY <2>1
  <1>43. CASE Crash
    <2>1. pc' = "off" /\ Place[pc'] < Place[pc]
      BY <1>0, <1>43 DEF Crash
    <2> QED BY <2>1
  <1>44. CASE Decorate BY <1>44 DEF Decorate
  <1> QED
    BY <1>1, <1>2, <1>3, <1>4, <1>5, <1>6, <1>7, <1>8, <1>9, <1>10, <1>11, <1>12,
       <1>13, <1>14, <1>15, <1>16, <1>17, <1>18, <1>19, <1>20, <1>21, <1>22, <1>23,
       <1>24, <1>25, <1>26, <1>27, <1>28, <1>29, <1>30, <1>31, <1>32, <1>33, <1>34,
       <1>35, <1>36, <1>37, <1>38, <1>39, <1>40, <1>41, <1>42, <1>43, <1>44 DEF RunStep,
       Failure

\* Nobody but the run itself moves it, or touches what it still has to do.
LEMMA OthersStandAside ==
  Start \/ Midnight \/ Operator \/ UNCHANGED vars =>
    pc = "off" \/ UNCHANGED <<pc, todo, cands, final>>
  <1> USE DEF local, vars
  <1>1. Operator => UNCHANGED <<pc, todo, cands, final>>
    BY DEF Operator, PauseShadow, ResumeClearsStop, ResumeClearsPause, RequestStop,
       Interrupt, CloseAllRead, CloseAllRow, Issue
  <1> QED BY <1>1 DEF Start, Midnight

\* The round that ForwardShadowBot.run is in comes to an end, whatever fails and
\* whatever the operator does; run weakly fair, this is what CycleSettles and
\* StopEndsRun rest on.
THEOREM EveryRoundEnds == Spec => RunAdvances
  <1>1. Init => Inv /\ FinalInv
    BY InitInv DEF Init, FinalInv
  <1>2. Inv /\ FinalInv /\ [Next]_vars => (Inv /\ FinalInv)'
    BY FlagsStep, DataStep, CycleStep, BookStep, PauseStep, LedgerStep, HaltedStep,
       AuditStep, FinalStep
       DEF Inv
  <1>3. Inv /\ FinalInv /\ [Next]_vars =>
          [\/ Nearer \/ NewRound \/ pc = "off"
           \/ UNCHANGED <<pc, todo, cands, final>> /\ (~RunStep)]_vars
    BY StepAdvances, OthersStandAside DEF Inv, Next
  <1> QED BY <1>1, <1>2, <1>3, PTL DEF RunAdvances, Spec

=============================================================================
