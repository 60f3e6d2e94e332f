-------------------------- MODULE PaperLifecycle --------------------------
(***************************************************************************)
(* The forward-shadow run loop (forward_shadow_bot.py) driving the shared  *)
(* paper lifecycle (lifecycle.py) over one SQLite base, while an operator  *)
(* works on the same base from other processes (paper_state.py).           *)
(*                                                                         *)
(* Every action of the run is at most one storage access plus the local    *)
(* computation that follows it, so that an operator command, a storage     *)
(* failure or a crash may fall between any two accesses.  One run at a     *)
(* time owns a base (decision_state.py, module docstring).                 *)
(***************************************************************************)
EXTENDS Naturals, FiniteSets

CONSTANTS
  Signals,       \* closed-bar/profile identities, one possible paper trade each
  None,          \* no identity
  Commands,      \* what operators may do: subset of AllCommands
  ManualResume,  \* config.manual_resume_required
  StableProfile, \* config.signal_profile is one of the BALANCED_STABLE ones
  MaxDay,        \* bound: UTC days
  MaxFaults,     \* bound: failing storage accesses
  MaxCrashes,    \* bound: killed processes
  MaxStarts,     \* bound: launches of the run
  MaxCommands    \* bound: operator commands

AllCommands == {"pause", "resume", "stop", "interrupt", "telegram", "close"}

ASSUME BoundsAssumption ==
  /\ MaxDay \in Nat \ {0}
  /\ {MaxFaults, MaxCrashes, MaxStarts, MaxCommands} \subseteq Nat
ASSUME ConfigAssumption ==
  Commands \subseteq AllCommands /\ {ManualResume, StableProfile} \subseteq BOOLEAN
ASSUME NoneAssumption == None \notin Signals

VARIABLES
  \* ----- the SQLite base (survives the process)
  book,       \* paper_trades: status of the trade of each identity
  latched,    \* operational_state.paper_lifecycle_halted
  intent,     \* operational_state.paper_cycle_in_progress is set
  auditMark,  \* operational_state.paper_audit_complete
  pause,      \* shadow_paused with its reason and author
  haltDay,    \* paper_daily_halt_day (0: never written)
  stopReq,    \* forward_shadow_stop_requested, relative to the live process
  dayHalted,  \* daily_references[day].halted of the decision ledger
  decided,    \* identities whose accepted decision is durably audited
  reported,   \* identities whose PAPER_TRADE_OPENED event is durable
  \* ----- the process
  pc, cause, certain, consume, interrupted, todo, cands, sig, sawPause,
  sDay, kill, final,
  \* ----- the environment: calendar, budgets and the operator's own process
  day, faults, crashes, starts, commands, opResume, opClose,
  \* ----- history variables, read by properties only
  dirty,      \* the run changed the book in a cycle not yet audited complete
  orphan,     \* this run started on another run's unfinished cycle
  doubt,      \* a storage or audit error reached this run's halt, or it started on an
              \* incomplete audit
  lateOpens,  \* entries opened since the pause in force was set
  resumed     \* the operator lifted the pause after the run had last read it

base  == <<book, latched, intent, auditMark, pause, haltDay, stopReq, dayHalted,
           decided, reported>>
local == <<cause, certain, consume, interrupted, todo, cands, sig, sawPause,
           sDay, kill, final>>
env   == <<day, faults, crashes, starts, commands, opResume, opClose>>
ghost == <<dirty, orphan, doubt, lateOpens, resumed>>
vars  == <<base, pc, local, env, ghost>>

Statuses == {"none", "open", "closed", "manual"}
Days     == 1..MaxDay
StartUp  == {"start", "clearRead", "clearWrite", "recover"}
Halting  == {"halt", "haltMark", "haltPause", "haltAudit", "haltComplete"}
\* Accesses whose failure raises into halt_paper_cycle.
Fallible == {"start", "clearRead", "clearWrite", "recover", "poll", "begin", "received",
             "intent", "manage", "closeAudit", "refresh", "sync", "pauseWrite",
             "dayWrite", "expire", "resume", "candidate", "decide", "fill",
             "decorate", "opened", "complete", "clearIntent", "after", "skip",
             "skipAudit", "skipped", "integrity", "stopped"}
\* Accesses whose failure may be turned into a PaperStateError (decision_state.py:226
\* and 275) or into the RECOVERY_FAILED of the health check (db_health.py:55) before
\* the halt sees it.
Rewrapped == {"recover", "refresh", "candidate"}
Control  == Fallible \cup Halting \cup {"off", "loop", "acquire", "stopping"}

Halted == [d \in Days |-> FALSE]

Init ==
  /\ book = [s \in Signals |-> "none"] /\ latched = FALSE /\ intent = FALSE
  /\ auditMark = "unset" /\ pause = "none" /\ haltDay = 0 /\ stopReq = "none"
  /\ dayHalted = Halted /\ decided = {} /\ reported = {}
  /\ pc = "off" /\ cause = "none" /\ certain = FALSE /\ consume = FALSE
  /\ interrupted = FALSE /\ todo = {} /\ cands = {} /\ sig = None
  /\ sawPause = FALSE /\ sDay = 1 /\ kill = FALSE /\ final = FALSE
  /\ day = 1 /\ faults = 0 /\ crashes = 0 /\ starts = 0 /\ commands = 0
  /\ opResume = FALSE /\ opClose = {}
  /\ dirty = FALSE /\ orphan = FALSE /\ doubt = FALSE /\ lateOpens = 0 /\ resumed = FALSE

-----------------------------------------------------------------------------
(* Small steps shared by the actions below.                                *)

Goto(p) == pc' = p

\* A raised exception: the handler it reaches is halt_paper_cycle.
Raise(why) == pc' = "halt" /\ cause' = why

\* What a process forgets when it ends.
Forget ==
  /\ cause' = "none" /\ certain' = FALSE /\ consume' = FALSE /\ interrupted' = FALSE
  /\ todo' = {} /\ cands' = {} /\ sig' = None /\ sawPause' = FALSE /\ kill' = FALSE
  /\ final' = FALSE /\ UNCHANGED sDay
Exit == pc' = "off" /\ Forget

\* A pause written over an unpaused row starts a new count of late entries.
SetPause(p) ==
  /\ pause' = p
  /\ lateOpens' = IF pause = "none" \/ p = "none" THEN 0 ELSE lateOpens

\* An operator's hand on the pause.
OperatorSets(p) == SetPause(p) /\ resumed' = (p = "none")

OpenTrades == {s \in Signals : book[s] = "open"}

-----------------------------------------------------------------------------
(* Start-up and the loop of ForwardShadowBot.run.                          *)

\* A new process: requests written before it are older than _started_wall.
Start ==
  /\ pc = "off" /\ starts < MaxStarts
  /\ starts' = starts + 1
  /\ Goto("start")
  /\ stopReq' = IF stopReq = "fresh" THEN "stale" ELSE stopReq
  /\ orphan' = intent /\ doubt' = (auditMark = "incomplete")
  /\ UNCHANGED <<book, latched, intent, auditMark, pause, haltDay, dayHalted, decided,
                 reported, local, day, faults, crashes, commands, opResume, opClose,
                 dirty, lateOpens, resumed>>

Started == pc = "start" /\ Goto("clearRead") /\ UNCHANGED <<base, local, env, ghost>>

\* _clear_stale_stop_request: read and judge here, write in the next access.
ClearStaleRead ==
  /\ pc = "clearRead"
  /\ Goto(IF stopReq = "stale" THEN "clearWrite" ELSE "recover")
  /\ UNCHANGED <<base, local, env, ghost>>

ClearStaleWrite ==
  /\ pc = "clearWrite" /\ stopReq' = "none" /\ Goto("recover")
  /\ UNCHANGED <<book, latched, intent, auditMark, pause, haltDay, dayHalted, decided,
                 reported, local, env, ghost>>

\* RecoveryManager.recover: a health status other than OK raises.
Recover ==
  /\ pc = "recover"
  /\ \/ Goto("loop") /\ UNCHANGED cause
     \/ Raise("other")
  /\ UNCHANGED <<base, certain, consume, interrupted, todo, cands, sig, sawPause, sDay,
                 kill, final, env, ghost>>

\* Mutant of LoopHead: the durable request is never polled.
LoopHeadDeaf ==
  /\ pc = "loop"
  /\ IF interrupted THEN Goto("stopping") /\ consume' = TRUE
                    ELSE Goto("poll") /\ UNCHANGED consume
  /\ UNCHANGED <<base, cause, certain, interrupted, todo, cands, sig, sawPause, sDay, kill,
                 final, env, ghost>>

\* A bounded run may have used up max_cycles.  Stop requests are honoured only
\* here; a failing read is ignored.
LoopHead ==
  /\ pc = "loop"
  /\ \/ /\ interrupted \/ stopReq = "fresh"
        /\ Goto("stopping") /\ consume' = TRUE /\ UNCHANGED faults
     \/ Goto("stopping") /\ UNCHANGED <<consume, faults>>
     \/ /\ ~interrupted /\ stopReq # "fresh"
        /\ Goto("poll") /\ UNCHANGED <<consume, faults>>
     \/ /\ ~interrupted /\ faults < MaxFaults
        /\ Goto("poll") /\ faults' = faults + 1 /\ UNCHANGED consume
  /\ UNCHANGED <<base, cause, certain, interrupted, todo, cands, sig, sawPause, sDay, kill,
                 final, day, crashes, starts, commands, opResume, opClose, ghost>>

\* TelegramCommandCenter.poll_and_process runs inside the loop.
PollTelegram ==
  /\ pc = "poll" /\ Goto("acquire")
  /\ \/ UNCHANGED <<pause, lateOpens, resumed, commands>>
     \/ /\ "telegram" \in Commands /\ commands < MaxCommands
        /\ commands' = commands + 1
        /\ \E p \in {"operator", "none"} : OperatorSets(p)
  /\ UNCHANGED <<book, latched, intent, auditMark, haltDay, stopReq, dayHalted, decided,
                 reported, local, day, faults, crashes, starts, opResume, opClose, dirty,
                 orphan, doubt>>

\* Connect, observe the account and collect every quote.  It fails with a
\* skippable code, an integrity failure (stop without latching), or fatally.
Acquire ==
  /\ pc = "acquire"
  /\ \/ Goto("begin") /\ cands' \in SUBSET Signals /\ UNCHANGED cause
     \/ pc' \in {"skip", "integrity"} /\ UNCHANGED <<cands, cause>>
     \/ Raise("other") /\ UNCHANGED cands
  /\ UNCHANGED <<base, certain, consume, interrupted, todo, sig, sawPause, sDay, kill,
                 final, env, ghost>>

IntegrityStop == pc = "integrity" /\ Goto("stopping") /\ UNCHANGED <<base, local, env, ghost>>

\* _consume_stop_request clears whatever request is there; failing is tolerated.
Stopping ==
  /\ pc = "stopping" /\ Goto("stopped")
  /\ \/ /\ stopReq' = IF consume THEN "none" ELSE stopReq
        /\ UNCHANGED faults
     \/ consume /\ faults < MaxFaults /\ faults' = faults + 1 /\ UNCHANGED stopReq
  /\ UNCHANGED <<book, latched, intent, auditMark, pause, haltDay, dayHalted, decided,
                 reported, local, day, crashes, starts, commands, opResume, opClose, ghost>>

Stopped == pc = "stopped" /\ Exit /\ UNCHANGED <<base, env, ghost>>

\* Heartbeat, alerts and the per-cycle audit events after a completed cycle.
AfterCycle == pc = "after" /\ Goto("loop") /\ UNCHANGED <<base, local, env, ghost>>

-----------------------------------------------------------------------------
(* process_paper_cycle, before its intent: the book is untouched.          *)

\* Mutant of CycleBegin: an unfinished cycle found in the base is not refused.
CycleBeginOverIntent ==
  /\ pc = "begin"
  /\ IF latched THEN Raise("latched") ELSE Goto("received") /\ UNCHANGED cause
  /\ UNCHANGED <<base, certain, consume, interrupted, todo, cands, sig, sawPause, sDay, kill,
                 final, env, ghost>>

CycleBegin ==
  /\ pc = "begin"
  /\ IF latched \/ intent
     THEN Raise("latched") /\ cands' = {}
     ELSE \/ Goto("received") /\ UNCHANGED <<cause, cands>>
          \/ Goto("skip") /\ cands' = {} /\ UNCHANGED cause
          \/ Raise("other") /\ cands' = {}
  /\ UNCHANGED <<base, certain, consume, interrupted, todo, sig, sawPause, sDay, kill,
                 final, env, ghost>>

\* PAPER_CYCLE_RECEIVED is audited, then the quotes are validated.
CycleReceived ==
  /\ pc = "received"
  /\ \/ Goto("intent") /\ UNCHANGED <<cause, cands>>
     \/ Goto("skip") /\ cands' = {} /\ UNCHANGED cause
     \/ Raise("other") /\ cands' = {}
  /\ UNCHANGED <<base, certain, consume, interrupted, todo, sig, sawPause, sDay, kill,
                 final, env, ghost>>

\* Mutant of WriteIntent: management starts without the durable intent.
WriteIntentForgotten ==
  /\ pc = "intent" /\ todo' = OpenTrades /\ final' = FALSE /\ Goto("manage")
  /\ UNCHANGED <<base, cause, certain, consume, interrupted, cands, sig, sawPause, sDay,
                 kill, env, ghost>>

\* The intent is durable before the book is loaded for management.
WriteIntent ==
  /\ pc = "intent" /\ intent' = TRUE /\ todo' = OpenTrades /\ final' = FALSE
  /\ Goto("manage")
  /\ UNCHANGED <<book, latched, auditMark, pause, haltDay, stopReq, dayHalted, decided,
                 reported, cause, certain, consume, interrupted, cands, sig, sawPause,
                 sDay, kill, env, ghost>>

-----------------------------------------------------------------------------
(* Position management: update_with_snapshot rewrites the whole row of the *)
(* trade as it was loaded when the loop began.                             *)

ManageTrade ==
  /\ pc = "manage" /\ \E s \in todo :
       /\ todo' = todo \ {s}
       /\ \/ book' = [book EXCEPT ![s] = "open"] /\ UNCHANGED pc
          \/ book' = [book EXCEPT ![s] = "closed"] /\ Goto("closeAudit")
  /\ dirty' = TRUE
  /\ UNCHANGED <<latched, intent, auditMark, pause, haltDay, stopReq, dayHalted, decided,
                 reported, cause, certain, consume, interrupted, cands, sig, sawPause,
                 sDay, kill, final, env, orphan, doubt, lateOpens, resumed>>

CloseAudited == pc = "closeAudit" /\ Goto("manage") /\ UNCHANGED <<base, local, env, ghost>>

\* Quotes or accounts revalidated against the clock may have gone stale.
StaleObservation ==
  /\ pc \in {"manage", "candidate", "fill"} /\ Raise("other")
  /\ UNCHANGED <<base, certain, consume, interrupted, todo, cands, sig, sawPause, sDay,
                 kill, final, env, ghost>>

ManageDone ==
  /\ pc = "manage" /\ todo = {} /\ Goto("refresh")
  /\ UNCHANGED <<base, local, env, ghost>>

-----------------------------------------------------------------------------
(* The decision ledger and the daily pause.                                *)

\* Mutant of Observe: the caller keeps the halt flag it had read before.
ObserveStale ==
  /\ \A s \in Signals : book[s] # "manual"
  /\ \E drawdown \in IF \E s \in Signals : book[s] # "none" THEN BOOLEAN ELSE {FALSE} :
       dayHalted' = [dayHalted EXCEPT ![day] = @ \/ drawdown]
  /\ kill' = dayHalted[day] /\ sDay' = day

\* build_paper_decision_state: latch today's drawdown, persist, verify.
\* Drawdown needs exposure or a realized loss; a row closed by hand carries no
\* formula version, so the ledger rejects it.
Observe ==
  /\ \A s \in Signals : book[s] # "manual"
  /\ \E drawdown \in IF \E s \in Signals : book[s] # "none" THEN BOOLEAN ELSE {FALSE} :
       dayHalted' = [dayHalted EXCEPT ![day] = @ \/ drawdown]
  /\ kill' = dayHalted'[day] /\ sDay' = day

RefreshRiskState ==
  /\ pc = "refresh" /\ Observe /\ Goto("sync")
  /\ UNCHANGED <<book, latched, intent, auditMark, pause, haltDay, stopReq, decided,
                 reported, cause, certain, consume, interrupted, todo, cands, sig,
                 sawPause, final, env, ghost>>

\* Any validation of the ledger may reject the state (clock, provenance,
\* missing daily reference, a mark beyond its protection).
LedgerRejects ==
  /\ pc \in {"refresh", "candidate"} /\ Raise("other")
  /\ UNCHANGED <<base, certain, consume, interrupted, todo, cands, sig, sawPause, sDay,
                 kill, final, env, ghost>>

\* _sync_daily_pause reads the row, then writes it in later accesses.
SyncRead ==
  /\ pc = "sync"
  /\ Goto(IF ~kill THEN "expire" ELSE IF pause \in {"none", "daily"} THEN "pauseWrite"
          ELSE "dayWrite")
  /\ resumed' = FALSE
  /\ UNCHANGED <<base, local, env, dirty, orphan, doubt, lateOpens>>

PauseWrite ==
  /\ pc = "pauseWrite" /\ SetPause("daily") /\ Goto("dayWrite")
  /\ UNCHANGED <<book, latched, intent, auditMark, haltDay, stopReq, dayHalted, decided,
                 reported, local, env, dirty, orphan, doubt, resumed>>

\* Mutant of DayWrite: the halt is recorded for the following day.
DayWriteNext ==
  /\ pc = "dayWrite" /\ haltDay' = sDay + 1 /\ Goto("expire")
  /\ UNCHANGED <<book, latched, intent, auditMark, pause, stopReq, dayHalted, decided,
                 reported, local, env, ghost>>

DayWrite ==
  /\ pc = "dayWrite" /\ haltDay' = sDay /\ Goto("expire")
  /\ UNCHANGED <<book, latched, intent, auditMark, pause, stopReq, dayHalted, decided,
                 reported, local, env, ghost>>

AfterSync == IF final THEN "complete" ELSE "candidate"

MayExpire == pause = "daily" /\ haltDay < sDay /\ ~ManualResume /\ ~kill

ExpireRead ==
  /\ pc = "expire" /\ Goto(IF MayExpire THEN "resume" ELSE AfterSync)
  /\ UNCHANGED <<base, local, env, ghost>>

ResumeWrite ==
  /\ pc = "resume" /\ SetPause("none") /\ Goto(AfterSync)
  /\ UNCHANGED <<book, latched, intent, auditMark, haltDay, stopReq, dayHalted, decided,
                 reported, local, env, dirty, orphan, doubt, resumed>>

-----------------------------------------------------------------------------
(* Candidates: evaluate, fill, audit.                                      *)

\* Mutant of TakeCandidate: the candidate stays in the list.
TakeCandidateForever ==
  /\ pc = "candidate" /\ \E s \in cands :
       /\ book[s] = "none" /\ Observe
       /\ sig' = s /\ sawPause' = (pause # "none") /\ Goto("decide")
  /\ UNCHANGED <<book, latched, intent, auditMark, pause, haltDay, stopReq, decided,
                 reported, cause, certain, consume, interrupted, todo, cands, final, env,
                 ghost>>

\* A candidate without quote or evidence, or whose identity already has a trade,
\* is rejected and the cycle goes on; otherwise the ledger is observed again and
\* the pause is read.
TakeCandidate ==
  /\ pc = "candidate" /\ \E s \in cands :
       /\ cands' = cands \ {s}
       /\ \/ UNCHANGED <<pc, sig, sawPause, dayHalted, kill, sDay>>
          \/ book[s] # "none" /\ Observe /\ UNCHANGED <<pc, sig, sawPause>>
          \/ /\ book[s] = "none" /\ Observe
             /\ sig' = s /\ sawPause' = (pause # "none") /\ Goto("decide")
  /\ UNCHANGED <<book, latched, intent, auditMark, pause, haltDay, stopReq, decided,
                 reported, cause, certain, consume, interrupted, todo, final, env, ghost>>

\* Mutant of Accepts: the pause is left out of the decision.
AcceptsWhilePaused == ~(kill /\ day = sDay)

\* The halt of the ledger's day binds until the next midnight.
Accepts == ~sawPause /\ ~(kill /\ day = sDay)

\* SharedDecisionPipeline.evaluate with the audits around it.  A rejection for
\* any reason moves on to the next candidate.
Decide ==
  /\ pc = "decide"
  /\ \/ Goto("candidate") /\ sig' = None /\ UNCHANGED decided
     \/ Accepts /\ Goto("fill") /\ decided' = decided \cup {sig} /\ UNCHANGED sig
  /\ sawPause' = FALSE
  /\ UNCHANGED <<book, latched, intent, auditMark, pause, haltDay, stopReq, dayHalted,
                 reported, cause, certain, consume, interrupted, todo, cands, sDay, kill,
                 final, env, ghost>>

\* Mutant of Fill: the opening is never reported.
FillUnreported ==
  /\ pc = "fill" /\ book[sig] = "none"
  /\ book' = [book EXCEPT ![sig] = "open"] /\ dirty' = TRUE
  /\ lateOpens' = IF pause = "none" THEN 0 ELSE lateOpens + 1
  /\ Goto("refresh")
  /\ UNCHANGED <<latched, intent, auditMark, pause, haltDay, stopReq, dayHalted, decided,
                 reported, local, env, orphan, doubt, resumed>>

\* PaperPositionManager.open_trade: the insert is ignored on a known identity,
\* and an existing trade is either the same intent or an error.
Fill ==
  /\ pc = "fill" /\ book[sig] = "none"
  /\ book' = [book EXCEPT ![sig] = "open"] /\ dirty' = TRUE
  /\ lateOpens' = IF pause = "none" THEN 0 ELSE lateOpens + 1
  /\ Goto(IF StableProfile THEN "decorate" ELSE "opened")
  /\ UNCHANGED <<latched, intent, auditMark, pause, haltDay, stopReq, dayHalted, decided,
                 reported, local, env, orphan, doubt, resumed>>

\* _decorate_stable_trade: the whole row of the new trade is written once more, from
\* the copy open_trade returned.
Decorate ==
  /\ pc = "decorate" /\ book' = [book EXCEPT ![sig] = "open"] /\ Goto("opened")
  /\ UNCHANGED <<latched, intent, auditMark, pause, haltDay, stopReq, dayHalted, decided,
                 reported, local, env, ghost>>

\* PAPER_TRADE_OPENED is audited.
OpenAudited ==
  /\ pc = "opened" /\ reported' = reported \cup {sig} /\ sig' = None /\ Goto("refresh")
  /\ UNCHANGED <<book, latched, intent, auditMark, pause, haltDay, stopReq, dayHalted,
                 decided, cause, certain, consume, interrupted, todo, cands, sawPause,
                 sDay, kill, final, env, ghost>>

\* Mutant of CandidatesDone: the last refresh and sync are left out.
CandidatesDoneUnsynced ==
  /\ pc = "candidate" /\ cands = {} /\ final' = TRUE /\ Goto("complete")
  /\ UNCHANGED <<base, cause, certain, consume, interrupted, todo, cands, sig, sawPause,
                 sDay, kill, env, ghost>>

\* No candidate left: one last refresh and sync, then the closing audit.
CandidatesDone ==
  /\ pc = "candidate" /\ cands = {} /\ final' = TRUE /\ Goto("refresh")
  /\ UNCHANGED <<base, cause, certain, consume, interrupted, todo, cands, sig, sawPause,
                 sDay, kill, env, ghost>>

CycleCompleted ==
  /\ pc = "complete" /\ dirty' = FALSE /\ Goto("clearIntent")
  /\ UNCHANGED <<base, local, env, orphan, doubt, lateOpens, resumed>>

ClearIntent ==
  /\ pc = "clearIntent" /\ intent' = FALSE /\ Goto("after")
  /\ UNCHANGED <<book, latched, auditMark, pause, haltDay, stopReq, dayHalted, decided,
                 reported, local, env, ghost>>

-----------------------------------------------------------------------------
(* skip_paper_cycle and halt_paper_cycle.                                  *)

SkipRead ==
  /\ pc = "skip"
  /\ IF latched \/ intent THEN Raise("latched") ELSE Goto("skipAudit") /\ UNCHANGED cause
  /\ UNCHANGED <<base, certain, consume, interrupted, todo, cands, sig, sawPause, sDay,
                 kill, final, env, ghost>>

SkipAudited == pc = "skipAudit" /\ Goto("skipped") /\ UNCHANGED <<base, local, env, ghost>>

\* Heartbeat and back-off of a skipped cycle.
Skipped == pc = "skipped" /\ Goto("loop") /\ UNCHANGED <<base, local, env, ghost>>

\* Mutant of HaltRead: an unfinished cycle found at restart is not looked for.
HaltReadTrusting ==
  /\ pc = "halt"
  /\ certain' = (cause # "storage" /\ auditMark # "incomplete")
  /\ Goto("haltMark")
  /\ UNCHANGED <<base, cause, consume, interrupted, todo, cands, sig, sawPause, sDay,
                 kill, final, env, ghost>>

\* Is the audit known to be complete?  Read before the first write.
HaltRead ==
  /\ pc = "halt"
  /\ certain' = (cause # "storage" /\ auditMark # "incomplete"
                   /\ ~(cause = "latched" /\ intent))
  /\ Goto("haltMark")
  /\ UNCHANGED <<base, cause, consume, interrupted, todo, cands, sig, sawPause, sDay,
                 kill, final, env, ghost>>

HaltMark ==
  /\ pc = "haltMark" /\ latched' = TRUE /\ auditMark' = "incomplete" /\ Goto("haltPause")
  /\ UNCHANGED <<book, intent, pause, haltDay, stopReq, dayHalted, decided, reported,
                 local, env, ghost>>

HaltPause ==
  /\ pc = "haltPause" /\ SetPause("halt") /\ Goto("haltAudit")
  /\ UNCHANGED <<book, latched, intent, auditMark, haltDay, stopReq, dayHalted, decided,
                 reported, local, env, dirty, orphan, doubt, resumed>>

HaltAudited ==
  /\ pc = "haltAudit"
  /\ IF certain THEN Goto("haltComplete") /\ UNCHANGED local ELSE Exit
  /\ UNCHANGED <<base, env, ghost>>

HaltComplete ==
  /\ pc = "haltComplete" /\ auditMark' = "complete" /\ Exit
  /\ UNCHANGED <<book, latched, intent, pause, haltDay, stopReq, dayHalted, decided,
                 reported, env, ghost>>

-----------------------------------------------------------------------------
(* Failures.                                                               *)

SpendFault ==
  /\ faults < MaxFaults /\ faults' = faults + 1
  /\ UNCHANGED <<base, day, crashes, starts, commands, opResume, opClose, dirty, orphan,
                 lateOpens, resumed>>

\* An access fails and its error reaches halt_paper_cycle: as what it is, or as an
\* error of the state it was reading, which the halt takes for no storage failure.
\* (Failures the code absorbs are alternatives of the steps: LoopHead, Stopping,
\* the rejection in Decide.)
StorageFails ==
  /\ pc \in Fallible /\ SpendFault
  /\ \/ Raise("storage") /\ doubt' = TRUE
     \/ pc \in Rewrapped /\ Raise("other") /\ UNCHANGED doubt
  /\ UNCHANGED <<certain, consume, interrupted, todo, cands, sig, sawPause, sDay, kill,
                 final>>

\* Inside the halt itself a failing access only loses what comes after it.
HaltFails ==
  /\ SpendFault /\ doubt' = TRUE
  /\ \/ /\ pc = "halt" /\ certain' = FALSE /\ Goto("haltMark")
        /\ UNCHANGED <<cause, consume, interrupted, todo, cands, sig, sawPause, sDay, kill,
                       final>>
     \/ pc \in Halting \ {"halt"} /\ Exit

\* The process is killed (or a second Ctrl+C aborts it).
Crash ==
  /\ pc # "off" /\ crashes < MaxCrashes /\ crashes' = crashes + 1 /\ Exit
  /\ UNCHANGED <<base, day, faults, starts, commands, opResume, opClose, ghost>>

Midnight ==
  /\ day < MaxDay /\ day' = day + 1
  /\ UNCHANGED <<base, pc, local, faults, crashes, starts, commands, opResume, opClose,
                 ghost>>

-----------------------------------------------------------------------------
(* The operator's commands, each a process of its own on the same base.    *)

Issue(c) ==
  /\ c \in Commands /\ commands < MaxCommands /\ commands' = commands + 1
  /\ UNCHANGED <<pc, day, faults, crashes, starts, dirty, orphan, doubt>>

PauseShadow ==
  /\ Issue("pause") /\ OperatorSets("operator")
  /\ UNCHANGED <<book, latched, intent, auditMark, haltDay, stopReq, dayHalted, decided,
                 reported, local, opResume, opClose>>

\* resume_shadow first clears a pending stop request, then the pause.
ResumeClearsStop ==
  /\ Issue("resume") /\ ~opResume /\ opResume' = TRUE /\ stopReq' = "none"
  /\ UNCHANGED <<book, latched, intent, auditMark, pause, haltDay, dayHalted, decided,
                 reported, local, opClose, lateOpens, resumed>>

ResumeClearsPause ==
  /\ opResume /\ opResume' = FALSE /\ OperatorSets("none")
  /\ UNCHANGED <<book, latched, intent, auditMark, haltDay, stopReq, dayHalted, decided,
                 reported, pc, local, day, faults, crashes, starts, commands, opClose,
                 dirty, orphan, doubt>>

RequestStop ==
  /\ Issue("stop") /\ stopReq' = "fresh"
  /\ UNCHANGED <<book, latched, intent, auditMark, pause, haltDay, dayHalted, decided,
                 reported, local, opResume, opClose, lateOpens, resumed>>

Interrupt ==
  /\ Issue("interrupt") /\ pc # "off" /\ interrupted' = TRUE
  /\ UNCHANGED <<base, cause, certain, consume, todo, cands, sig, sawPause, sDay, kill,
                 final, opResume, opClose, lateOpens, resumed>>

\* close_all_paper_trades lists the open rows, then rewrites them one by one.
CloseAllRead ==
  /\ Issue("close") /\ opClose = {} /\ opClose' = OpenTrades
  /\ UNCHANGED <<base, local, opResume, lateOpens, resumed>>

CloseAllRow ==
  /\ \E s \in opClose : opClose' = opClose \ {s} /\ book' = [book EXCEPT ![s] = "manual"]
  /\ UNCHANGED <<latched, intent, auditMark, pause, haltDay, stopReq, dayHalted, decided,
                 reported, pc, local, day, faults, crashes, starts, commands, opResume,
                 ghost>>

-----------------------------------------------------------------------------
RunStep ==
  \/ Started \/ ClearStaleRead \/ ClearStaleWrite \/ Recover \/ LoopHead \/ PollTelegram
  \/ Acquire \/ IntegrityStop \/ Stopping \/ Stopped \/ AfterCycle \/ CycleBegin
  \/ CycleReceived \/ WriteIntent \/ ManageTrade \/ CloseAudited \/ StaleObservation
  \/ ManageDone \/ RefreshRiskState \/ LedgerRejects \/ SyncRead \/ PauseWrite \/ DayWrite
  \/ ExpireRead \/ ResumeWrite \/ TakeCandidate \/ Decide \/ Fill \/ Decorate
  \/ OpenAudited \/ CandidatesDone \/ CycleCompleted \/ ClearIntent \/ SkipRead \/ SkipAudited \/ Skipped
  \/ HaltRead \/ HaltMark \/ HaltPause \/ HaltAudited \/ HaltComplete

Failure == StorageFails \/ HaltFails \/ Crash

Operator ==
  \/ PauseShadow \/ ResumeClearsStop \/ ResumeClearsPause \/ RequestStop \/ Interrupt
  \/ CloseAllRead \/ CloseAllRow

Next == Start \/ RunStep \/ Failure \/ Midnight \/ Operator

Spec == Init /\ [][Next]_vars

\* A live process keeps executing; launches, failures, the calendar and the
\* operator owe nothing.
FairSpec == Spec /\ WF_vars(RunStep)

-----------------------------------------------------------------------------
(* Properties.                                                             *)

\* Every variable keeps its type and every budget its bound.
TypeOK ==
  /\ book \in [Signals -> Statuses] /\ latched \in BOOLEAN /\ intent \in BOOLEAN
  /\ auditMark \in {"unset", "incomplete", "complete"}
  /\ pause \in {"none", "operator", "daily", "halt"} /\ haltDay \in 0..MaxDay
  /\ stopReq \in {"none", "stale", "fresh"} /\ dayHalted \in [Days -> BOOLEAN]
  /\ decided \subseteq Signals /\ reported \subseteq Signals
  /\ pc \in Control /\ cause \in {"none", "storage", "latched", "other"}
  /\ certain \in BOOLEAN /\ consume \in BOOLEAN /\ interrupted \in BOOLEAN
  /\ todo \subseteq Signals /\ cands \subseteq Signals /\ sig \in Signals \cup {None}
  /\ sawPause \in BOOLEAN /\ sDay \in Days /\ kill \in BOOLEAN /\ final \in BOOLEAN
  /\ day \in Days /\ faults \in 0..MaxFaults /\ crashes \in 0..MaxCrashes
  /\ starts \in 0..MaxStarts /\ commands \in 0..MaxCommands
  /\ opResume \in BOOLEAN /\ opClose \subseteq Signals
  /\ dirty \in BOOLEAN /\ orphan \in BOOLEAN /\ doubt \in BOOLEAN /\ lateOpens \in Nat
  /\ resumed \in BOOLEAN

\* A book changed by a cycle that was never audited complete is marked durably,
\* whatever failed, crashed or was restarted, so that the next start finds it
\* (lifecycle.py: "a crash or inaccessible store after fill cannot become an
\* apparently clean restart").
UnfinishedWorkIsMarked == dirty => intent

\* A trade is on the book only if its accepted decision was durably audited, and
\* only an unfinished cycle may still owe its opening event
\* (_evaluate_paper_decision: "durable result audit precedes every paper fill").
EveryEntryAudited ==
  \A s \in Signals : book[s] # "none" => s \in decided /\ (s \in reported \/ intent)

\* The run changes the book only inside a cycle it opened itself: never without
\* its own durable intent, never on a latched base, never in a cycle it found
\* unfinished.
RunChangesBook == book' # book /\ UNCHANGED opClose
MutatesOnlyInItsOwnCycle == [][RunChangesBook => intent /\ ~latched /\ ~orphan]_vars

\* Auditing the refusal of a restart does not heal the earlier failure: a run that
\* found the audit incomplete, that latches because it found an unfinished cycle, or
\* whose halt a storage or audit error has reached never declares it complete.  A
\* failed access that was turned into an error of the ledger or of the health check
\* on its way to the halt is no such error to the code, and nothing is said of it.
RefusalDoesNotHeal ==
  [][auditMark # "complete" /\ auditMark' = "complete" =>
        ~doubt /\ (orphan => cause # "latched")]_vars

\* A pause stops new entries: at most the one candidate that had already read
\* the row before the pause was written may still be filled.
PauseLetsAtMostOneThrough == lateOpens <= 1

\* Nothing is filled on a UTC day that the decision ledger has halted, even when
\* the halting observation came between two candidates of the same cycle.
HaltedDayOpensNothing ==
  [][\A s \in Signals : book[s] = "none" /\ book'[s] = "open" => ~dayHalted[day]]_vars

\* A day the decision ledger has halted is paused for whoever opens the base after
\* the cycle, unless an operator lifted the pause since the run last read it: not the
\* expiry of an older daily pause, a midnight inside the cycle, an entry that brought
\* the halt about, a failure or a restart loses the pause of that day.
HaltedDayIsPaused == dayHalted[day] /\ ~intent => pause # "none" \/ resumed

\* A run that ends after a failed access leaves a durable latch or an open
\* intent: the base does not look clean to the next start.
LostAuditIsLatched == pc = "off" /\ doubt => latched \/ intent

\* Nobody else's pause is ever replaced or cleared by the daily pause
\* (2026-10-05-shared-paper-cycle-lifecycle.md:58).
ForeignPauseKept ==
  [][pause = "operator" /\ pc \in {"pauseWrite", "resume"} /\ pc' # pc /\ pc' \notin {"halt", "off"}
        => pause' = "operator"]_vars

\* A stop request made to the live run is dropped only by resume-shadow or by
\* the stop it asks for (paper_state.py:123-124).
FreshStopKept ==
  [][stopReq = "fresh" /\ stopReq' = "none" => pc = "stopping" \/ opResume']_vars

\* The audit is declared complete only when nothing before it was uncertain:
\* no failed access, no unfinished cycle of an earlier run
\* (2026-10-05-shared-paper-cycle-lifecycle.md:50-52).
CompleteMeansCertain ==
  [][auditMark # "complete" /\ auditMark' = "complete" => ~doubt /\ ~orphan]_vars

\* A closed trade is history: it never reopens (decision_state.py:189).
ClosedStaysClosed ==
  [][\A s \in Signals : book[s] \in {"closed", "manual"} => book'[s] # "open"]_vars

\* Locations between a cycle's intent and its clearing.
InCycle == {"manage", "closeAudit", "refresh", "sync", "pauseWrite", "dayWrite", "expire",
            "resume", "candidate", "decide", "fill", "decorate", "opened", "complete",
            "clearIntent"}

\* What the base and the process show of the cycle: an intent without its run is
\* an abandoned cycle.
Phase ==
  IF ~intent THEN "settled"
  ELSE IF pc \in InCycle /\ ~latched /\ ~orphan THEN "working" ELSE "abandoned"

Audit == INSTANCE AuditedBook WITH phase <- Phase

\* The lifecycle implements the audited book: it writes trades only inside its own
\* unlatched cycle, enters one only when all earlier ones are reported, and takes
\* up no abandoned cycle (lifecycle.py: "a crash or inaccessible store after fill
\* cannot become an apparently clean restart").
BookIsAudited == Audit!Spec

\* How far each location is from the end of the run.
Place ==
  [off |-> 0, haltComplete |-> 1, haltAudit |-> 2, haltPause |-> 3, haltMark |-> 4,
   halt |-> 5, stopped |-> 6, stopping |-> 7, integrity |-> 8, loop |-> 9, after |-> 10,
   skipped |-> 11, skipAudit |-> 12, skip |-> 13, clearIntent |-> 14, complete |-> 15,
   candidate |-> 16, resume |-> 17, expire |-> 18, dayWrite |-> 19, pauseWrite |-> 20,
   sync |-> 21, refresh |-> 22, opened |-> 23, decorate |-> 24, fill |-> 25,
   decide |-> 26, manage |-> 27, closeAudit |-> 28, intent |-> 29, received |-> 30,
   begin |-> 31, acquire |-> 32, poll |-> 33, recover |-> 34, clearWrite |-> 35,
   clearRead |-> 36, start |-> 37]

Fewer(S, T) == S \subseteq T /\ S # T

\* Inside a cycle: fewer trades to manage, then fewer candidates, then the last
\* refresh instead of an earlier one, then a later location.
NearerInCycle ==
  \/ Fewer(todo', todo)
  \/ todo' = todo /\ Fewer(cands', cands)
  \/ UNCHANGED <<todo, cands>> /\ ~final /\ final'
  \/ UNCHANGED <<todo, cands, final>> /\ Place[pc'] < Place[pc]

Nearer ==
  IF pc \in InCycle /\ pc' \in InCycle THEN NearerInCycle ELSE Place[pc'] < Place[pc]

\* A run that is asked to stop begins another round only when it cannot read that.
NewRound ==
  /\ pc = "loop" /\ pc' = "poll"
  /\ faults' = faults + 1 \/ (~interrupted /\ stopReq # "fresh")

\* No round goes on for ever: every step of a run, failing ones included, brings it
\* nearer to the loop head and from there, once it is asked to stop, to its end;
\* nobody else sets it back.
RunAdvances ==
  [][\/ Nearer \/ NewRound \/ pc = "off"
     \/ UNCHANGED <<pc, todo, cands, final>> /\ (~RunStep)]_vars

\* How far a closed trade may come back (decision_state.py:189 says never): only one
\* closed by hand, written back by the run that had its row in memory before, in the
\* management loop or in the decoration of the entry it just made.
ReopensOnlyRowsInHand ==
  [][\A s \in Signals : book[s] \in {"closed", "manual"} /\ book'[s] = "open" =>
        /\ book[s] = "manual"
        /\ (pc = "manage" /\ s \in todo) \/ (pc = "decorate" /\ s = sig)]_vars

\* How a run in doubt may leave a base that looks clean: only if the write of the
\* latch itself fails, or the process is killed.
LatchLostOnlyWithItsWrite ==
  [][pc' = "off" /\ pc # "off" /\ doubt' =>
       \/ latched' \/ intent'
       \/ pc = "haltMark" /\ faults' = faults + 1
       \/ crashes' = crashes + 1]_vars

\* Past its start-up a run loses no stop request: it is withdrawn by resume-shadow
\* or taken by the stop it asks for.
HeardOnceStarted ==
  [][stopReq = "fresh" /\ stopReq' # "fresh" /\ pc \notin StartUp \cup {"off"} =>
       (opResume' /\ ~opResume) \/ (pc = "stopping" /\ pc' = "stopped")]_vars

\* Once past its start-up, a run that is asked to stop does end, unless
\* resume-shadow withdraws the request.
StopEndsRun ==
  (stopReq = "fresh" /\ pc \notin StartUp \cup {"off"}) ~> (pc = "off" \/ stopReq = "none")

\* Every cycle that opened its intent is settled: it completes, or the run ends.
CycleSettles == (pc = "manage") ~> (pc \in {"after", "off"})

=============================================================================
