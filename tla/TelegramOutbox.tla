--------------------------- MODULE TelegramOutbox ---------------------------
(***************************************************************************)
(* The durable Telegram outbox: the notifier of the bot                    *)
(* (telegram_notifier.py), the retry worker (telegram_outbox_worker.py),   *)
(* started by hand or by the /outbox command, and the rows they share      *)
(* (telemetry/database.py).  Between the answer of the Bot API and the row *)
(* that records it there is room for a crash and for another sender.       *)
(***************************************************************************)
EXTENDS Integers, FiniteSets

CONSTANTS
  Keys,         \* idempotency keys of messages
  NoKey,        \* none of them
  Poison,       \* messages the Bot API always refuses
  Flushers,     \* processes that may flush the outbox
  Limit,        \* rows one flush looks at
  MaxNotices,   \* bound: notifications
  MaxTroubles   \* bound: failing sends, lost answers, crashes

ASSUME OutboxAssumption ==
  /\ NoKey \notin Keys /\ Poison \subseteq Keys
  /\ {Limit, MaxNotices, MaxTroubles} \subseteq Nat
\* As many refused messages as a flush has rows would hold up every other.
ASSUME PoisonAssumption == IsFiniteSet(Keys) /\ Cardinality(Poison) < Limit

VARIABLES
  place,      \* the notification that queued each key's row; 0: no row
  status,     \* the status of each row
  due,        \* next_retry_at_utc has passed
  sending,    \* the key the notifier delivers
  answer,     \* what it has been answered and not yet recorded
  batch,      \* the rows a flush has read and not yet reached
  reply,      \* the key and answer a flush has not yet recorded
  enabled,    \* telegram_enabled of the bot's configuration
  notices, troubles,
  \* ----- history, read by properties only
  appearances, \* how often the channel shows each message: 0, 1, or more
  doubted     \* messages delivered under doubt: see Doubtful

outboxVars == <<place, status, due, sending, answer, batch, reply, enabled, notices,
                troubles, appearances, doubted>>

NoReply == [key |-> NoKey, status |-> "none"]

OutboxInit ==
  /\ place = [k \in Keys |-> 0] /\ status = [k \in Keys |-> "none"]
  /\ due = [k \in Keys |-> TRUE]
  /\ sending = NoKey /\ answer = "none" /\ batch = [f \in Flushers |-> {}]
  /\ reply = [f \in Flushers |-> NoReply] /\ enabled \in BOOLEAN /\ notices = 0
  /\ troubles = 0 /\ appearances = [k \in Keys |-> 0] /\ doubted = {}

notifierVars == <<sending, answer>>
flushVars    == <<batch, reply>>
rowVars      == <<place, status, due>>
Trouble == troubles < MaxTroubles /\ troubles' = troubles + 1

-----------------------------------------------------------------------------
(* What both senders share.                                                *)

\* Somebody has been told that the message arrived and has not written it down,
\* or the row says so already.
Doubtful(k) ==
  \/ status[k] = "SENT" \/ (sending = k /\ answer = "SENT")
  \/ \E f \in Flushers : reply[f] = [key |-> k, status |-> "SENT"]

\* The channel shows the message once more; the history counts to two.
Shows(k) == appearances' = [appearances EXCEPT ![k] = IF @ = 0 THEN 1 ELSE 2]

Appears(k) ==
  /\ Shows(k)
  /\ doubted' = IF Doubtful(k) THEN doubted \cup {k} ELSE doubted

\* One call of sendMessage and what the sender makes of it: delivered, delivered
\* without an answer, or not.
Answered(k, result) ==
  \/ k \notin Poison /\ result = "SENT" /\ Appears(k) /\ UNCHANGED troubles
  \/ /\ k \notin Poison /\ result = "FAILED" /\ Trouble
     /\ Shows(k) /\ doubted' = doubted \cup {k}
  \/ /\ result = "FAILED" /\ UNCHANGED <<appearances, doubted>>
     /\ IF k \in Poison THEN UNCHANGED troubles ELSE Trouble

\* Mutant of Attempt: an attempt closes the row whatever came of it.
AttemptCloses(k, result, retry) ==
  /\ status' = [status EXCEPT ![k] = "SENT"] /\ due' = [due EXCEPT ![k] = retry]
  /\ UNCHANGED <<place, doubted>>

\* record_delivery_attempt: the row takes the status of the attempt that is
\* recorded last, whatever it says by then.
Attempt(k, result, retry) ==
  /\ status' = [status EXCEPT ![k] = result] /\ due' = [due EXCEPT ![k] = retry]
  /\ doubted' = IF result = "FAILED" /\ Doubtful(k) THEN doubted \cup {k} ELSE doubted
  /\ UNCHANGED place

-----------------------------------------------------------------------------
(* The notifier.                                                           *)

NewRow(k, at) ==
  /\ place' = [place EXCEPT ![k] = at] /\ status' = [status EXCEPT ![k] = "PENDING"]
  /\ UNCHANGED due

\* Mutant of Enqueue: no look for a row under the same key.
EnqueueAgain(k) == NewRow(k, notices + 1)

\* Mutant of Enqueue: the row is sorted before the last one.
EnqueueBefore(k) == IF status[k] # "none" THEN UNCHANGED rowVars ELSE NewRow(k, notices)

\* enqueue_telegram_message: a key that has a row keeps it as it is.
Enqueue(k) == IF status[k] # "none" THEN UNCHANGED rowVars ELSE NewRow(k, notices + 1)

\* notify_event: the row is there before anything is sent.
Notify ==
  /\ sending = NoKey /\ notices < MaxNotices /\ notices' = notices + 1
  /\ \E k \in Keys : sending' = k /\ Enqueue(k)
  /\ UNCHANGED <<answer, flushVars, enabled, troubles, appearances, doubted>>

\* With Telegram off the row is closed, also one that has been sent.
Disable ==
  /\ sending # NoKey /\ ~enabled /\ sending' = NoKey
  /\ status' = [status EXCEPT ![sending] = "DISABLED"]
  /\ due' = [due EXCEPT ![sending] = TRUE]
  /\ doubted' = IF Doubtful(sending) THEN doubted \cup {sending} ELSE doubted
  /\ UNCHANGED <<place, answer, flushVars, enabled, notices, troubles, appearances>>

Send ==
  /\ sending # NoKey /\ enabled /\ answer = "none"
  /\ answer' \in {"SENT", "FAILED"} /\ Answered(sending, answer')
  /\ UNCHANGED <<rowVars, sending, flushVars, enabled, notices>>

\* A failed attempt waits for its retry time.
Record ==
  /\ answer # "none" /\ Attempt(sending, answer, answer = "SENT")
  /\ sending' = NoKey /\ answer' = "none"
  /\ UNCHANGED <<flushVars, enabled, notices, troubles, appearances>>

-----------------------------------------------------------------------------
(* The retry worker.                                                       *)

Retried(k) == status[k] \in {"PENDING", "FAILED"}

Older(k) == {l \in Keys : place[l] # 0 /\ place[l] < place[k]}

\* Mutant of Batch: the limit counts rows of every status.
BatchOfAll == {k \in Keys : Retried(k) /\ due[k] /\ Cardinality(Older(k)) < Limit}

\* The oldest rows not yet delivered; those not due take up room in the limit.
Batch ==
  {k \in Keys : /\ Retried(k) /\ due[k]
                /\ Cardinality({l \in Older(k) : Retried(l)}) < Limit}

BeginFlush(f) ==
  /\ batch[f] = {} /\ reply[f] = NoReply /\ Batch # {}
  /\ batch' = [batch EXCEPT ![f] = Batch]
  /\ UNCHANGED <<rowVars, notifierVars, reply, enabled, notices, troubles, appearances,
                 doubted>>

\* Row by row; the list was read once, and the row may say something else by now.
FlushOne(f) ==
  /\ reply[f] = NoReply
  /\ \E k \in batch[f], result \in {"SENT", "FAILED"} :
       /\ \A l \in batch[f] : place[k] <= place[l]
       /\ Answered(k, result) /\ batch' = [batch EXCEPT ![f] = @ \ {k}]
       /\ reply' = [reply EXCEPT ![f] = [key |-> k, status |-> result]]
  /\ UNCHANGED <<rowVars, notifierVars, enabled, notices>>

\* The worker's failed rows are due at once.
FlushRecord(f) ==
  /\ reply[f] # NoReply /\ Attempt(reply[f].key, reply[f].status, TRUE)
  /\ reply' = [reply EXCEPT ![f] = NoReply]
  /\ UNCHANGED <<notifierVars, batch, enabled, notices, troubles, appearances>>

-----------------------------------------------------------------------------
(* Crashes and time.                                                       *)

\* Whoever dies forgets what it was answered.
NotifierDies ==
  /\ sending # NoKey /\ Trouble /\ sending' = NoKey /\ answer' = "none"
  /\ doubted' = IF answer = "SENT" THEN doubted \cup {sending} ELSE doubted
  /\ enabled' \in BOOLEAN
  /\ UNCHANGED <<rowVars, flushVars, notices, appearances>>

FlusherDies(f) ==
  /\ (batch[f] # {} \/ reply[f] # NoReply) /\ Trouble
  /\ batch' = [batch EXCEPT ![f] = {}] /\ reply' = [reply EXCEPT ![f] = NoReply]
  /\ doubted' = IF reply[f].status = "SENT" THEN doubted \cup {reply[f].key} ELSE doubted
  /\ UNCHANGED <<rowVars, notifierVars, enabled, notices, appearances>>

RetryTime(k) ==
  /\ ~due[k] /\ due' = [due EXCEPT ![k] = TRUE]
  /\ UNCHANGED <<place, status, notifierVars, flushVars, enabled, notices, troubles,
                 appearances, doubted>>

FlushStep(f) == BeginFlush(f) \/ FlushOne(f) \/ FlushRecord(f)

OutboxNext ==
  \/ Notify \/ Disable \/ Send \/ Record \/ NotifierDies
  \/ \E f \in Flushers : FlushStep(f) \/ FlusherDies(f)
  \/ \E k \in Keys : RetryTime(k)

OutboxSpec == OutboxInit /\ [][OutboxNext]_outboxVars

\* The bot's notification is a straight call, the operator keeps flushing
\* (telegram-outbox-flush or the /outbox command), and clocks run.
OutboxFairness ==
  /\ WF_outboxVars(Disable \/ Send \/ Record)
  /\ \A f \in Flushers : WF_outboxVars(FlushStep(f))
  /\ \A k \in Keys : WF_outboxVars(RetryTime(k))

FairOutbox == OutboxSpec /\ OutboxFairness

-----------------------------------------------------------------------------
(* Properties.                                                             *)

Statuses == {"none", "PENDING", "SENT", "FAILED", "DISABLED"}

\* Every variable has its type; each row has a place of its own.
OutboxTypeOK ==
  /\ place \in [Keys -> 0..notices] /\ status \in [Keys -> Statuses]
  /\ \A k \in Keys : place[k] = 0 <=> status[k] = "none"
  /\ \A k, l \in Keys : place[k] = place[l] /\ place[k] # 0 => k = l
  /\ due \in [Keys -> BOOLEAN]
  /\ sending \in Keys \cup {NoKey} /\ answer \in {"none", "SENT", "FAILED"}
  /\ batch \in [Flushers -> SUBSET Keys]
  /\ reply \in [Flushers -> [key : Keys, status : {"SENT", "FAILED"}] \cup {NoReply}]
  /\ enabled \in BOOLEAN /\ notices \in 0..MaxNotices /\ troubles \in 0..MaxTroubles
  /\ appearances \in [Keys -> 0..2] /\ doubted \subseteq Keys

\* A row that says SENT is a message the channel shows, whoever wrote it and
\* however late.
SentIsShown == \A k \in Keys : status[k] = "SENT" => appearances[k] > 0

\* A message is repeated only when its delivery was in doubt: the answer was
\* lost, its sender died before recording it, another sender was at it, or the
\* notification itself was repeated.  Retries alone never repeat one.
RepeatedOnlyInDoubt == \A k \in Keys : appearances[k] > 1 => k \in doubted

\* The queue is worked off in the order it was filled: whatever is queued, closed,
\* retried or reopened, nothing gets ahead of a message that is waiting.
NobodyOvertakes ==
  [][\A k \in Keys : place[k] # 0 => place'[k] = place[k] /\ Older(k)' = Older(k)]_outboxVars

\* Messages the Bot API always refuses keep nobody out of a flush: the first of
\* the others is in the next one as soon as it is due.
PoisonKeepsNobodyOut ==
  \A k \in Keys : Retried(k) /\ due[k] /\ {l \in Older(k) : Retried(l)} \subseteq Poison
                    => k \in Batch

Flushing(f) == batch[f] # {} \/ reply[f] # NoReply

\* A flush works off the rows it has read and no more: whatever is queued or
\* answered meanwhile, each of its steps brings it nearer to its end.
EveryFlushEnds ==
  [][\A f \in Flushers : Flushing(f) =>
       \/ batch'[f] \subseteq batch[f] /\ batch'[f] # batch[f]
       \/ batch'[f] = batch[f] /\ reply[f] # NoReply /\ reply'[f] = NoReply
       \/ ~FlushStep(f) /\ batch'[f] = batch[f] /\ reply'[f] = reply[f]]_outboxVars

\* While somebody keeps flushing, every queued message that the Bot API accepts
\* arrives, whatever failed or died before, unless Telegram was switched off.
QueuedArrives ==
  \A k \in Keys \ Poison :
    Retried(k) ~> (appearances[k] > 0 \/ status[k] = "DISABLED")
=============================================================================
