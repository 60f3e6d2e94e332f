------------------------ MODULE TelegramOutbox_proofs ------------------------
(***************************************************************************)
(* What is proved of TelegramOutbox for every set of messages and any      *)
(* number of flushers.                                                     *)
(***************************************************************************)
EXTENDS TelegramOutbox, FiniteSetTheorems, TLAPS

Numbers == MaxNotices \in Nat /\ MaxTroubles \in Nat /\ NoKey \notin Keys

LEMMA NumbersHold == Numbers
  BY OutboxAssumption DEF Numbers

\* A positive answer not yet recorded, or a row that says SENT, is a message the
\* channel shows.
ShownOK ==
  /\ SentIsShown
  /\ answer = "SENT" => appearances[sending] > 0
  /\ \A f \in Flushers : reply[f].status = "SENT" => appearances[reply[f].key] > 0

\* A message shown without any doubt is one that somebody vouches for.
VouchedOK == \A k \in Keys : appearances[k] > 0 /\ k \notin doubted => Doubtful(k)

\* Whoever sends a message sends one that has a row.
QueuedOK ==
  /\ answer # "none" => sending # NoKey /\ enabled
  /\ sending # NoKey => status[sending] # "none"
  /\ \A f \in Flushers : /\ \A k \in batch[f] : status[k] # "none"
                         /\ reply[f] # NoReply => status[reply[f].key] # "none"

\* The inductive invariant.
OutboxInv == OutboxTypeOK /\ QueuedOK /\ ShownOK /\ VouchedOK /\ RepeatedOnlyInDoubt

LEMMA ReplyTypes ==
  ASSUME Numbers, OutboxTypeOK, NEW f \in Flushers
  PROVE  /\ reply[f] \in [key : Keys, status : {"SENT", "FAILED"}] \cup {NoReply}
         /\ reply[f] # NoReply => reply[f].key \in Keys /\ reply[f].status \in {"SENT", "FAILED"}
         /\ NoReply.status = "none" /\ NoReply.key = NoKey
  BY DEF OutboxTypeOK, NoReply, Numbers

-----------------------------------------------------------------------------
(* Types.                                                                  *)

LEMMA TroubleType ==
  ASSUME Numbers, OutboxTypeOK PROVE Trouble => troubles' \in 0..MaxTroubles
  BY DEF Numbers, OutboxTypeOK, Trouble

LEMMA AnsweredTypes ==
  ASSUME Numbers, OutboxTypeOK, NEW k \in Keys, NEW result, Answered(k, result)
  PROVE  /\ appearances' \in [Keys -> 0..2] /\ doubted' \subseteq Keys
         /\ troubles' \in 0..MaxTroubles
<1>1. [appearances EXCEPT ![k] = IF @ = 0 THEN 1 ELSE 2] \in [Keys -> 0..2]
  BY DEF OutboxTypeOK
<1>2. Shows(k) => appearances' \in [Keys -> 0..2]
  BY <1>1 DEF Shows
<1>3. appearances' \in [Keys -> 0..2]
  BY <1>2 DEF Answered, Appears, OutboxTypeOK
<1>4. doubted' \subseteq Keys
  BY DEF Answered, Appears, OutboxTypeOK
<1>5. troubles' \in 0..MaxTroubles
  BY TroubleType DEF Answered, OutboxTypeOK
<1> QED BY <1>3, <1>4, <1>5

\* Rows are where they were and exist as they did.
RowsKept(s) ==
  /\ place' = place /\ notices' = notices /\ s \in [Keys -> Statuses]
  /\ \A k \in Keys : s[k] = "none" <=> status[k] = "none"

RowsOK ==
  /\ place \in [Keys -> 0..notices] /\ status \in [Keys -> Statuses]
  /\ \A k \in Keys : place[k] = 0 <=> status[k] = "none"
  /\ \A k, l \in Keys : place[k] = place[l] /\ place[k] # 0 => k = l
  /\ notices \in 0..MaxNotices

LEMMA RowsFromType == OutboxTypeOK => RowsOK
  BY DEF OutboxTypeOK, RowsOK

LEMMA KeptRows ==
  ASSUME RowsOK, RowsKept(status') PROVE RowsOK'
  BY DEF RowsOK, RowsKept

\* Writing a status other than "none" to a row that exists.
LEMMA StatusWritten ==
  ASSUME RowsOK, NEW k \in Keys, status[k] # "none", NEW st \in Statuses \ {"none"},
         status' = [status EXCEPT ![k] = st], place' = place, notices' = notices
  PROVE  RowsOK'
<1>1. RowsKept(status')
  BY DEF RowsOK, RowsKept
<1> QED BY <1>1, KeptRows

\* A new row.
LEMMA RowAdded ==
  ASSUME Numbers, RowsOK, NEW k \in Keys, status[k] = "none", notices < MaxNotices,
         notices' = notices + 1, NewRow(k, notices + 1)
  PROVE  RowsOK'
<1>1. notices \in Nat /\ notices + 1 \in 1..MaxNotices
  BY DEF Numbers, RowsOK
<1>2. /\ place' = [place EXCEPT ![k] = notices + 1]
      /\ status' = [status EXCEPT ![k] = "PENDING"]
  BY DEF NewRow
<1>3. place' \in [Keys -> 0..notices'] /\ status' \in [Keys -> Statuses]
  <2>1. \A l \in Keys : place'[l] \in 0..notices + 1
    BY <1>1, <1>2 DEF RowsOK
  <2> QED BY <1>2, <2>1 DEF RowsOK, Statuses
<1>4. \A l \in Keys : place'[l] = 0 <=> status'[l] = "none"
  BY <1>1, <1>2 DEF RowsOK
<1>5. \A l, m \in Keys : place'[l] = place'[m] /\ place'[l] # 0 => l = m
  <2>1. \A l \in Keys : place[l] # notices + 1
    BY <1>1 DEF RowsOK
  <2> QED BY <1>2, <2>1 DEF RowsOK
<1> QED BY <1>1, <1>3, <1>4, <1>5 DEF RowsOK

\* What is not a row has its type.
HandsOK ==
  /\ due \in [Keys -> BOOLEAN]
  /\ sending \in Keys \cup {NoKey} /\ answer \in {"none", "SENT", "FAILED"}
  /\ batch \in [Flushers -> SUBSET Keys]
  /\ reply \in [Flushers -> [key : Keys, status : {"SENT", "FAILED"}] \cup {NoReply}]
  /\ enabled \in BOOLEAN /\ troubles \in 0..MaxTroubles
  /\ appearances \in [Keys -> 0..2] /\ doubted \subseteq Keys

LEMMA TypeSplit == OutboxTypeOK <=> RowsOK /\ HandsOK
  BY DEF OutboxTypeOK, RowsOK, HandsOK

LEMMA TypeSplitNext == RowsOK' /\ HandsOK' => OutboxTypeOK'
  BY DEF OutboxTypeOK, RowsOK, HandsOK

LEMMA OutboxStart == Numbers /\ OutboxInit => OutboxInv
<1> SUFFICES ASSUME Numbers, OutboxInit PROVE OutboxInv
  OBVIOUS
<1>1. RowsOK
  BY DEF OutboxInit, RowsOK, Statuses, Numbers
<1>2. HandsOK
  BY DEF OutboxInit, HandsOK, Numbers
<1>3. QueuedOK
  BY DEF OutboxInit, QueuedOK
<1>4. ShownOK
  BY DEF OutboxInit, ShownOK, SentIsShown, NoReply
<1>5. VouchedOK /\ RepeatedOnlyInDoubt
  BY DEF OutboxInit, VouchedOK, RepeatedOnlyInDoubt
<1> QED BY <1>1, <1>2, <1>3, <1>4, <1>5, TypeSplit DEF OutboxInv

\* A step that keeps rows and statuses.
LEMMA SameRows ==
  ASSUME RowsOK, UNCHANGED <<place, status, notices>> PROVE RowsOK'
  BY DEF RowsOK

LEMMA TypeStep ==
  ASSUME Numbers, OutboxTypeOK, QueuedOK, [OutboxNext]_outboxVars
  PROVE  OutboxTypeOK' /\ QueuedOK'
<1>0. RowsOK /\ HandsOK
  BY TypeSplit
<1> USE DEF Numbers
<1>1. CASE UNCHANGED outboxVars
  <2>1. RowsOK' /\ HandsOK'
    BY <1>0, <1>1, SameRows DEF outboxVars, HandsOK
  <2>2. QueuedOK'
    BY <1>1 DEF outboxVars, QueuedOK
  <2> QED BY <2>1, <2>2, TypeSplitNext
<1>2. CASE Notify
  <2>1. PICK k \in Keys : sending' = k /\ Enqueue(k)
    BY <1>2 DEF Notify
  <2>2. /\ notices < MaxNotices /\ notices' = notices + 1
        /\ UNCHANGED <<answer, batch, reply, enabled, troubles, appearances, doubted>>
    BY <1>2 DEF Notify, flushVars
  <2>3. CASE status[k] # "none"
    <3>1. UNCHANGED <<place, status, due>>
      BY <2>1, <2>3 DEF Enqueue, rowVars
    <3>2. RowsOK'
      BY <1>0, <2>2, <3>1 DEF RowsOK, Numbers
    <3>3. HandsOK'
      BY <1>0, <2>1, <2>2, <3>1 DEF HandsOK
    <3>4. QueuedOK'
      BY <2>1, <2>2, <2>3, <3>1 DEF QueuedOK
    <3> QED BY <3>2, <3>3, <3>4, TypeSplitNext
  <2>4. CASE status[k] = "none"
    <3>1. NewRow(k, notices + 1)
      BY <2>1, <2>4 DEF Enqueue
    <3>2. RowsOK'
      BY <1>0, <2>2, <2>4, <3>1, RowAdded
    <3>3. HandsOK'
      BY <1>0, <2>1, <2>2, <3>1 DEF HandsOK, NewRow
    <3>4. status' = [status EXCEPT ![k] = "PENDING"]
      BY <3>1 DEF NewRow
    <3>5. QueuedOK'
      <4>1. \A l \in Keys : status[l] # "none" => status'[l] # "none"
        BY <1>0, <3>4 DEF RowsOK
      <4>2. status'[k] # "none"
        BY <1>0, <3>4 DEF RowsOK
      <4> QED BY <1>0, <2>1, <2>2, <4>1, <4>2, ReplyTypes DEF QueuedOK, HandsOK
    <3> QED BY <3>2, <3>3, <3>5, TypeSplitNext
  <2> QED BY <2>3, <2>4
<1>3. ASSUME NEW k \in Keys, NEW st \in {"SENT", "FAILED", "DISABLED"}, status[k] # "none",
             status' = [status EXCEPT ![k] = st], UNCHANGED <<place, notices>>
      PROVE  RowsOK' /\ \A l \in Keys : status[l] # "none" => status'[l] # "none"
  <2>1. st \in Statuses \ {"none"}
    BY DEF Statuses
  <2>2. \A l \in Keys : status[l] # "none" => status'[l] # "none"
    BY <1>0, <1>3 DEF RowsOK
  <2> QED BY <1>0, <1>3, <2>1, <2>2, StatusWritten
<1>4. CASE Disable
  <2>1. /\ sending \in Keys /\ status[sending] # "none" /\ sending' = NoKey
        /\ answer = "none"
        /\ status' = [status EXCEPT ![sending] = "DISABLED"]
        /\ due' = [due EXCEPT ![sending] = TRUE]
        /\ doubted' \in {doubted, doubted \cup {sending}}
        /\ UNCHANGED <<place, answer, batch, reply, enabled, notices, troubles, appearances>>
    BY <1>0, <1>4 DEF Disable, flushVars, QueuedOK, HandsOK
  <2>2. RowsOK' /\ \A l \in Keys : status[l] # "none" => status'[l] # "none"
    BY <1>3, <2>1
  <2>3. HandsOK'
    BY <1>0, <2>1 DEF HandsOK
  <2>4. QueuedOK'
    BY <1>0, <2>1, <2>2, ReplyTypes DEF QueuedOK, HandsOK
  <2> QED BY <2>2, <2>3, <2>4, TypeSplitNext
<1>5. CASE Send
  <2>1. /\ sending \in Keys /\ answer' \in {"SENT", "FAILED"} /\ Answered(sending, answer')
        /\ enabled
        /\ UNCHANGED <<place, status, due, sending, batch, reply, enabled, notices>>
    BY <1>0, <1>5 DEF Send, rowVars, flushVars, HandsOK
  <2>2. /\ appearances' \in [Keys -> 0..2] /\ doubted' \subseteq Keys
        /\ troubles' \in 0..MaxTroubles
    BY <2>1, AnsweredTypes
  <2>3. RowsOK'
    BY <1>0, <2>1, SameRows
  <2>4. HandsOK'
    BY <1>0, <2>1, <2>2 DEF HandsOK
  <2>5. QueuedOK'
    BY <2>1 DEF QueuedOK
  <2> QED BY <2>3, <2>4, <2>5, TypeSplitNext
<1>6. CASE Record
  <2>1. /\ answer \in {"SENT", "FAILED"} /\ sending \in Keys /\ status[sending] # "none"
        /\ status' = [status EXCEPT ![sending] = answer]
        /\ due' = [due EXCEPT ![sending] = (answer = "SENT")]
        /\ doubted' \in {doubted, doubted \cup {sending}} /\ sending' = NoKey
        /\ answer' = "none"
        /\ UNCHANGED <<place, batch, reply, enabled, notices, troubles, appearances>>
    BY <1>0, <1>6 DEF Record, flushVars, HandsOK, QueuedOK, Attempt
  <2>2. RowsOK' /\ \A l \in Keys : status[l] # "none" => status'[l] # "none"
    BY <1>3, <2>1
  <2>3. HandsOK'
    BY <1>0, <2>1 DEF HandsOK
  <2>4. QueuedOK'
    BY <1>0, <2>1, <2>2, ReplyTypes DEF QueuedOK, HandsOK
  <2> QED BY <2>2, <2>3, <2>4, TypeSplitNext
<1>7. CASE NotifierDies
  <2>1. /\ sending' = NoKey /\ answer' = "none" /\ enabled' \in BOOLEAN
        /\ doubted' \in {doubted, doubted \cup {sending}} /\ sending \in Keys
        /\ troubles' \in 0..MaxTroubles
        /\ UNCHANGED <<place, status, due, batch, reply, notices, appearances>>
    BY <1>0, <1>7, TroubleType DEF NotifierDies, rowVars, flushVars, HandsOK
  <2>2. RowsOK'
    BY <1>0, <2>1, SameRows
  <2>3. HandsOK'
    BY <1>0, <2>1 DEF HandsOK
  <2>4. QueuedOK'
    BY <2>1 DEF QueuedOK
  <2> QED BY <2>2, <2>3, <2>4, TypeSplitNext
<1>8. ASSUME NEW f \in Flushers, BeginFlush(f) PROVE OutboxTypeOK' /\ QueuedOK'
  <2>1. /\ batch' = [batch EXCEPT ![f] = Batch]
        /\ UNCHANGED <<place, status, due, sending, answer, reply, enabled, notices,
                       troubles, appearances, doubted>>
    BY <1>8 DEF BeginFlush, rowVars, notifierVars
  <2>2. Batch \subseteq Keys /\ \A k \in Batch : status[k] # "none"
    BY DEF Batch, Retried
  <2>3. RowsOK'
    BY <1>0, <2>1, SameRows
  <2>4. HandsOK'
    BY <1>0, <2>1, <2>2 DEF HandsOK
  <2>5. QueuedOK'
    <3>1. \A g \in Flushers : batch'[g] = batch[g] \/ batch'[g] = Batch
      BY <1>0, <2>1 DEF HandsOK
    <3> QED BY <2>1, <2>2, <3>1 DEF QueuedOK
  <2> QED BY <2>3, <2>4, <2>5, TypeSplitNext
<1>9. ASSUME NEW f \in Flushers, FlushOne(f) PROVE OutboxTypeOK' /\ QueuedOK'
  <2>1. PICK k \in batch[f], result \in {"SENT", "FAILED"} :
          /\ Answered(k, result) /\ batch' = [batch EXCEPT ![f] = @ \ {k}]
          /\ reply' = [reply EXCEPT ![f] = [key |-> k, status |-> result]]
    BY <1>9 DEF FlushOne
  <2>2. /\ k \in Keys /\ status[k] # "none"
        /\ UNCHANGED <<place, status, due, sending, answer, enabled, notices>>
    BY <1>0, <1>9 DEF FlushOne, rowVars, notifierVars, HandsOK, QueuedOK
  <2>3. /\ appearances' \in [Keys -> 0..2] /\ doubted' \subseteq Keys
        /\ troubles' \in 0..MaxTroubles
    BY <2>1, <2>2, AnsweredTypes
  <2>4. RowsOK'
    BY <1>0, <2>2, SameRows
  <2>5. HandsOK'
    <3>1. batch' \in [Flushers -> SUBSET Keys]
      BY <1>0, <2>1 DEF HandsOK
    <3>2. [key |-> k, status |-> result] \in [key : Keys, status : {"SENT", "FAILED"}]
      BY <2>2
    <3>3. reply' \in [Flushers -> [key : Keys, status : {"SENT", "FAILED"}] \cup {NoReply}]
      BY <1>0, <2>1, <3>2 DEF HandsOK
    <3> QED BY <1>0, <2>2, <2>3, <3>1, <3>3 DEF HandsOK
  <2>6. QueuedOK'
    <3>1. \A g \in Flushers : batch'[g] \subseteq batch[g]
      BY <1>0, <2>1 DEF HandsOK
    <3>2. \A g \in Flushers : reply'[g] = reply[g] \/ reply'[g].key = k
      BY <1>0, <2>1 DEF HandsOK
    <3> QED BY <2>2, <3>1, <3>2 DEF QueuedOK
  <2> QED BY <2>4, <2>5, <2>6, TypeSplitNext
<1>10. ASSUME NEW f \in Flushers, FlushRecord(f) PROVE OutboxTypeOK' /\ QueuedOK'
  <2>1. /\ reply[f] # NoReply /\ reply[f].key \in Keys /\ reply[f].status \in {"SENT", "FAILED"}
        /\ status[reply[f].key] # "none"
    BY <1>10, ReplyTypes DEF FlushRecord, QueuedOK
  <2>2. /\ status' = [status EXCEPT ![reply[f].key] = reply[f].status]
        /\ due' = [due EXCEPT ![reply[f].key] = TRUE]
        /\ doubted' \in {doubted, doubted \cup {reply[f].key}}
        /\ reply' = [reply EXCEPT ![f] = NoReply]
        /\ UNCHANGED <<place, sending, answer, batch, enabled, notices, troubles, appearances>>
    BY <1>10 DEF FlushRecord, Attempt, notifierVars
  <2>3. RowsOK' /\ \A l \in Keys : status[l] # "none" => status'[l] # "none"
    BY <1>3, <2>1, <2>2
  <2>4. HandsOK'
    BY <1>0, <2>1, <2>2 DEF HandsOK
  <2>5. QueuedOK'
    <3>1. \A g \in Flushers : reply'[g] = reply[g] \/ reply'[g] = NoReply
      BY <1>0, <2>2 DEF HandsOK
    <3> QED BY <1>0, <2>2, <2>3, <3>1, ReplyTypes DEF QueuedOK, HandsOK
  <2> QED BY <2>3, <2>4, <2>5, TypeSplitNext
<1>11. ASSUME NEW f \in Flushers, FlusherDies(f) PROVE OutboxTypeOK' /\ QueuedOK'
  <2>1. /\ batch' = [batch EXCEPT ![f] = {}] /\ reply' = [reply EXCEPT ![f] = NoReply]
        /\ troubles' \in 0..MaxTroubles
        /\ UNCHANGED <<place, status, due, sending, answer, enabled, notices, appearances>>
    BY <1>11, TroubleType DEF FlusherDies, rowVars, notifierVars
  <2>2. doubted' \subseteq Keys
    <3>1. reply[f].status = "SENT" => reply[f].key \in Keys
      BY ReplyTypes
    <3> QED BY <1>0, <1>11, <3>1 DEF FlusherDies, HandsOK
  <2>3. RowsOK'
    BY <1>0, <2>1, SameRows
  <2>4. HandsOK'
    BY <1>0, <2>1, <2>2 DEF HandsOK
  <2>5. QueuedOK'
    <3>1. \A g \in Flushers : /\ reply'[g] = reply[g] \/ reply'[g] = NoReply
                              /\ batch'[g] \subseteq batch[g]
      BY <1>0, <2>1 DEF HandsOK
    <3> QED BY <2>1, <3>1 DEF QueuedOK
  <2> QED BY <2>3, <2>4, <2>5, TypeSplitNext
<1>12. ASSUME NEW k \in Keys, RetryTime(k) PROVE OutboxTypeOK' /\ QueuedOK'
  <2>1. /\ due' = [due EXCEPT ![k] = TRUE]
        /\ UNCHANGED <<place, status, sending, answer, batch, reply, enabled, notices,
                       troubles, appearances, doubted>>
    BY <1>12 DEF RetryTime, notifierVars, flushVars
  <2>2. RowsOK' /\ HandsOK'
    BY <1>0, <2>1, SameRows DEF HandsOK
  <2>3. QueuedOK'
    BY <2>1 DEF QueuedOK
  <2> QED BY <2>2, <2>3, TypeSplitNext
<1> QED BY <1>1, <1>2, <1>4, <1>5, <1>6, <1>7, <1>8, <1>9, <1>10, <1>11, <1>12
        DEF OutboxNext, FlushStep

-----------------------------------------------------------------------------
(* Deliveries.                                                             *)

\* One attempt: what it shows, and whom it leaves in doubt.
LEMMA AnsweredEffect ==
  ASSUME HandsOK, VouchedOK, NEW k \in Keys, NEW result, Answered(k, result)
  PROVE  /\ \A l \in Keys \ {k} : appearances'[l] = appearances[l]
         /\ appearances[k] > 0 => appearances'[k] > 0
         /\ result = "SENT" => appearances'[k] > 0
         /\ doubted \subseteq doubted' /\ doubted' \subseteq doubted \cup {k}
         /\ appearances'[k] > 0 /\ k \notin doubted' => result = "SENT" \/ appearances[k] > 0
         /\ appearances'[k] > 1 => k \in doubted' \/ appearances[k] > 1
<1>1. CASE UNCHANGED <<appearances, doubted>> /\ result = "FAILED"
  BY <1>1
<1>2. CASE Shows(k) /\ result = "FAILED" /\ doubted' = doubted \cup {k}
  BY <1>2 DEF Shows, HandsOK
<1>3. CASE Appears(k) /\ result = "SENT"
  <2>1. /\ appearances' = [appearances EXCEPT ![k] = IF @ = 0 THEN 1 ELSE 2]
        /\ doubted' = IF Doubtful(k) THEN doubted \cup {k} ELSE doubted
    BY <1>3 DEF Appears, Shows
  <2>2. /\ \A l \in Keys \ {k} : appearances'[l] = appearances[l]
        /\ appearances'[k] = IF appearances[k] = 0 THEN 1 ELSE 2
        /\ appearances[k] \in 0..2
    BY <2>1 DEF HandsOK
  <2>3. appearances[k] > 0 => k \in doubted'
    BY <2>1 DEF VouchedOK
  <2> QED BY <1>3, <2>1, <2>2, <2>3
<1> QED BY <1>1, <1>2, <1>3 DEF Answered

\* Statuses, answers and replies are kept, except for k, or lead to doubt.
LEMMA DeliveryStep ==
  ASSUME Numbers, OutboxInv, [OutboxNext]_outboxVars
  PROVE  ShownOK' /\ VouchedOK' /\ RepeatedOnlyInDoubt'
<1>0. /\ RowsOK /\ HandsOK /\ QueuedOK /\ ShownOK /\ VouchedOK /\ RepeatedOnlyInDoubt
      /\ OutboxTypeOK
  BY TypeSplit DEF OutboxInv
<1> USE DEF Numbers
\* What a step must do to a state in which nothing new is shown.
<1>1. ASSUME appearances' = appearances, doubted \subseteq doubted',
             \A k \in Keys : Doubtful(k) => k \in doubted' \/ Doubtful(k)'
      PROVE  VouchedOK' /\ RepeatedOnlyInDoubt'
  <2>1. VouchedOK'
    BY <1>0, <1>1 DEF VouchedOK
  <2>2. RepeatedOnlyInDoubt'
    BY <1>0, <1>1 DEF RepeatedOnlyInDoubt
  <2> QED BY <2>1, <2>2
<1>2. CASE UNCHANGED outboxVars
  <2>1. ShownOK'
    BY <1>0, <1>2 DEF outboxVars, ShownOK, SentIsShown
  <2>2. \A k \in Keys : Doubtful(k)' = Doubtful(k)
    BY <1>2 DEF outboxVars, Doubtful
  <2> QED BY <1>1, <1>2, <2>1, <2>2 DEF outboxVars
<1>3. CASE Notify
  <2>1. PICK k \in Keys : sending' = k /\ Enqueue(k)
    BY <1>3 DEF Notify
  <2>2. /\ answer = "none" /\ UNCHANGED <<answer, reply, appearances, doubted>>
    BY <1>0, <1>3 DEF Notify, flushVars, QueuedOK, HandsOK
  <2>3. \A l \in Keys : status'[l] = "SENT" <=> status[l] = "SENT"
    <3>1. \/ status[k] = "none" /\ status' = [status EXCEPT ![k] = "PENDING"]
          \/ status' = status
      BY <2>1 DEF Enqueue, NewRow, rowVars
    <3> QED BY <1>0, <3>1 DEF RowsOK
  <2>4. ShownOK'
    BY <1>0, <2>2, <2>3 DEF ShownOK, SentIsShown
  <2>5. \A l \in Keys : Doubtful(l) => Doubtful(l)'
    BY <2>2, <2>3 DEF Doubtful
  <2> QED BY <1>1, <2>2, <2>4, <2>5
<1>4. CASE Disable
  <2>1. /\ sending \in Keys /\ answer = "none"
        /\ status' = [status EXCEPT ![sending] = "DISABLED"]
        /\ doubted' = IF Doubtful(sending) THEN doubted \cup {sending} ELSE doubted
        /\ UNCHANGED <<answer, reply, appearances>>
    BY <1>0, <1>4 DEF Disable, flushVars, QueuedOK, HandsOK
  <2>2. \A l \in Keys : status'[l] = IF l = sending THEN "DISABLED" ELSE status[l]
    BY <1>0, <2>1 DEF RowsOK
  <2>3. ShownOK'
    BY <1>0, <2>1, <2>2 DEF ShownOK, SentIsShown
  <2>4. \A l \in Keys : Doubtful(l) => l \in doubted' \/ Doubtful(l)'
    <3>1. SUFFICES ASSUME NEW l \in Keys, Doubtful(l), l # sending PROVE Doubtful(l)'
      BY <2>1
    <3> QED BY <2>1, <2>2, <3>1 DEF Doubtful
  <2> QED BY <1>1, <2>1, <2>3, <2>4
<1>5. CASE Send
  <2>1. /\ sending \in Keys /\ answer = "none" /\ answer' \in {"SENT", "FAILED"}
        /\ Answered(sending, answer') /\ UNCHANGED <<status, sending, reply>>
    BY <1>0, <1>5 DEF Send, rowVars, flushVars, HandsOK
  <2>2. /\ \A l \in Keys \ {sending} : appearances'[l] = appearances[l]
        /\ appearances[sending] > 0 => appearances'[sending] > 0
        /\ answer' = "SENT" => appearances'[sending] > 0
        /\ doubted \subseteq doubted'
        /\ appearances'[sending] > 0 /\ sending \notin doubted' =>
             answer' = "SENT" \/ appearances[sending] > 0
        /\ appearances'[sending] > 1 => sending \in doubted' \/ appearances[sending] > 1
    BY <1>0, <2>1, AnsweredEffect
  <2>3. \A l \in Keys : appearances[l] > 0 => appearances'[l] > 0
    BY <2>2
  <2>4. ShownOK'
    <3>1. \A f \in Flushers : reply[f].status = "SENT" => reply[f].key \in Keys
      BY <1>0, ReplyTypes
    <3> QED BY <1>0, <2>1, <2>2, <2>3, <3>1 DEF ShownOK, SentIsShown
  <2>5. VouchedOK'
    <3>1. \A l \in Keys : Doubtful(l) => Doubtful(l)'
      BY <2>1 DEF Doubtful
    <3>2. SUFFICES ASSUME NEW l \in Keys, appearances'[l] > 0, l \notin doubted'
                   PROVE  Doubtful(l)'
      BY DEF VouchedOK
    <3>3. CASE appearances[l] > 0
      BY <1>0, <2>2, <3>1, <3>2, <3>3 DEF VouchedOK
    <3>4. CASE l = sending /\ answer' = "SENT"
      BY <2>1, <3>4 DEF Doubtful
    <3> QED BY <2>2, <3>2, <3>3, <3>4
  <2>6. RepeatedOnlyInDoubt'
    BY <1>0, <2>2 DEF RepeatedOnlyInDoubt
  <2> QED BY <2>4, <2>5, <2>6
<1>6. CASE Record
  <2>1. /\ answer \in {"SENT", "FAILED"} /\ sending \in Keys
        /\ status' = [status EXCEPT ![sending] = answer] /\ answer' = "none"
        /\ doubted' = IF answer = "FAILED" /\ Doubtful(sending) THEN doubted \cup {sending}
                      ELSE doubted
        /\ UNCHANGED <<reply, appearances>>
    BY <1>0, <1>6 DEF Record, flushVars, HandsOK, QueuedOK, Attempt
  <2>2. \A l \in Keys : status'[l] = IF l = sending THEN answer ELSE status[l]
    BY <1>0, <2>1 DEF RowsOK
  <2>3. ShownOK'
    BY <1>0, <2>1, <2>2 DEF ShownOK, SentIsShown
  <2>4. \A l \in Keys : Doubtful(l) => l \in doubted' \/ Doubtful(l)'
    <3>1. SUFFICES ASSUME NEW l \in Keys, Doubtful(l), l \notin doubted' PROVE Doubtful(l)'
      OBVIOUS
    <3>2. CASE l = sending
      BY <2>1, <2>2, <3>1, <3>2 DEF Doubtful
    <3>3. CASE l # sending
      BY <2>1, <2>2, <3>1, <3>3 DEF Doubtful
    <3> QED BY <3>2, <3>3
  <2> QED BY <1>1, <2>1, <2>3, <2>4
<1>7. CASE NotifierDies
  <2>1. /\ answer' = "none" /\ UNCHANGED <<status, reply, appearances>>
        /\ doubted' = IF answer = "SENT" THEN doubted \cup {sending} ELSE doubted
    BY <1>7 DEF NotifierDies, rowVars, flushVars
  <2>2. ShownOK'
    BY <1>0, <2>1 DEF ShownOK, SentIsShown
  <2>3. \A l \in Keys : Doubtful(l) => l \in doubted' \/ Doubtful(l)'
    BY <2>1 DEF Doubtful
  <2> QED BY <1>1, <2>1, <2>2, <2>3
<1>8. ASSUME NEW f \in Flushers, BeginFlush(f)
      PROVE  ShownOK' /\ VouchedOK' /\ RepeatedOnlyInDoubt'
  <2>1. UNCHANGED <<status, sending, answer, reply, appearances, doubted>>
    BY <1>8 DEF BeginFlush, rowVars, notifierVars
  <2>2. ShownOK'
    BY <1>0, <2>1 DEF ShownOK, SentIsShown
  <2>3. \A l \in Keys : Doubtful(l) => Doubtful(l)'
    BY <2>1 DEF Doubtful
  <2> QED BY <1>1, <2>1, <2>2, <2>3
<1>9. ASSUME NEW f \in Flushers, FlushOne(f)
      PROVE  ShownOK' /\ VouchedOK' /\ RepeatedOnlyInDoubt'
  <2>1. PICK k \in batch[f], result \in {"SENT", "FAILED"} :
          /\ Answered(k, result)
          /\ reply' = [reply EXCEPT ![f] = [key |-> k, status |-> result]]
    BY <1>9 DEF FlushOne
  <2>2. k \in Keys /\ reply[f] = NoReply /\ UNCHANGED <<status, sending, answer>>
    BY <1>0, <1>9 DEF FlushOne, rowVars, notifierVars, HandsOK
  <2>3. /\ \A l \in Keys \ {k} : appearances'[l] = appearances[l]
        /\ appearances[k] > 0 => appearances'[k] > 0
        /\ result = "SENT" => appearances'[k] > 0
        /\ doubted \subseteq doubted'
        /\ appearances'[k] > 0 /\ k \notin doubted' => result = "SENT" \/ appearances[k] > 0
        /\ appearances'[k] > 1 => k \in doubted' \/ appearances[k] > 1
    BY <1>0, <2>1, <2>2, AnsweredEffect
  <2>4. /\ reply'[f] = [key |-> k, status |-> result]
        /\ \A g \in Flushers \ {f} : reply'[g] = reply[g]
    BY <1>0, <2>1 DEF HandsOK
  <2>5. \A l \in Keys : appearances[l] > 0 => appearances'[l] > 0
    BY <2>3
  <2>6. ShownOK'
    <3>1. \A g \in Flushers : reply[g].status = "SENT" => reply[g].key \in Keys
      BY <1>0, ReplyTypes
    <3>2. \A g \in Flushers : reply'[g].status = "SENT" => appearances'[reply'[g].key] > 0
      BY <1>0, <2>3, <2>4, <2>5, <3>1 DEF ShownOK
    <3>3. answer = "SENT" => sending \in Keys
      BY <1>0 DEF QueuedOK, HandsOK
    <3> QED BY <1>0, <2>2, <2>5, <3>2, <3>3 DEF ShownOK, SentIsShown
  <2>7. VouchedOK'
    <3>1. \A l \in Keys : Doubtful(l) => Doubtful(l)'
      <4>1. \A l : reply[f] # [key |-> l, status |-> "SENT"]
        BY <2>2 DEF NoReply
      <4> QED BY <2>2, <2>4, <4>1 DEF Doubtful
    <3>2. result = "SENT" => Doubtful(k)'
      BY <2>4 DEF Doubtful
    <3>3. SUFFICES ASSUME NEW l \in Keys, appearances'[l] > 0, l \notin doubted'
                   PROVE  Doubtful(l)'
      BY DEF VouchedOK
    <3>4. CASE appearances[l] > 0
      BY <1>0, <2>3, <3>1, <3>3, <3>4 DEF VouchedOK
    <3>5. CASE l = k /\ result = "SENT"
      BY <3>2, <3>5
    <3> QED BY <2>3, <3>3, <3>4, <3>5
  <2>8. RepeatedOnlyInDoubt'
    BY <1>0, <2>3 DEF RepeatedOnlyInDoubt
  <2> QED BY <2>6, <2>7, <2>8
<1>10. ASSUME NEW f \in Flushers, FlushRecord(f)
       PROVE  ShownOK' /\ VouchedOK' /\ RepeatedOnlyInDoubt'
  <2> DEFINE k == reply[f].key
             st == reply[f].status
  <2>1. reply[f] # NoReply /\ k \in Keys /\ st \in {"SENT", "FAILED"}
    BY <1>0, <1>10, ReplyTypes DEF FlushRecord
  <2>2. /\ status' = [status EXCEPT ![k] = st] /\ reply' = [reply EXCEPT ![f] = NoReply]
        /\ doubted' = IF st = "FAILED" /\ Doubtful(k) THEN doubted \cup {k} ELSE doubted
        /\ UNCHANGED <<sending, answer, appearances>>
    BY <1>10 DEF FlushRecord, Attempt, notifierVars
  <2>3. /\ \A l \in Keys : status'[l] = IF l = k THEN st ELSE status[l]
        /\ reply'[f] = NoReply /\ \A g \in Flushers \ {f} : reply'[g] = reply[g]
    BY <1>0, <2>2 DEF RowsOK, HandsOK
  <2>4. ShownOK'
    BY <1>0, <2>1, <2>2, <2>3 DEF ShownOK, SentIsShown, NoReply
  <2>5. \A l \in Keys : Doubtful(l) => l \in doubted' \/ Doubtful(l)'
    <3>1. SUFFICES ASSUME NEW l \in Keys, Doubtful(l), l \notin doubted' PROVE Doubtful(l)'
      OBVIOUS
    <3>2. CASE l = k
      BY <2>1, <2>2, <2>3, <3>1, <3>2 DEF Doubtful
    <3>3. CASE l # k
      <4>1. reply[f] # [key |-> l, status |-> "SENT"]
        BY <3>3
      <4> QED BY <2>2, <2>3, <3>1, <3>3, <4>1 DEF Doubtful
    <3> QED BY <3>2, <3>3
  <2> QED BY <1>1, <2>2, <2>4, <2>5
<1>11. ASSUME NEW f \in Flushers, FlusherDies(f)
       PROVE  ShownOK' /\ VouchedOK' /\ RepeatedOnlyInDoubt'
  <2>1. /\ reply' = [reply EXCEPT ![f] = NoReply]
        /\ UNCHANGED <<status, sending, answer, appearances>>
        /\ doubted' = IF reply[f].status = "SENT" THEN doubted \cup {reply[f].key} ELSE doubted
    BY <1>11 DEF FlusherDies, rowVars, notifierVars
  <2>2. reply'[f] = NoReply /\ \A g \in Flushers \ {f} : reply'[g] = reply[g]
    BY <1>0, <2>1 DEF HandsOK
  <2>3. ShownOK'
    BY <1>0, <2>1, <2>2 DEF ShownOK, SentIsShown, NoReply
  <2>4. \A l \in Keys : Doubtful(l) => l \in doubted' \/ Doubtful(l)'
    <3>1. SUFFICES ASSUME NEW l \in Keys, Doubtful(l), l \notin doubted' PROVE Doubtful(l)'
      OBVIOUS
    <3>2. reply[f] # [key |-> l, status |-> "SENT"]
      BY <2>1, <3>1
    <3> QED BY <2>1, <2>2, <3>1, <3>2 DEF Doubtful
  <2> QED BY <1>1, <2>1, <2>3, <2>4
<1>12. ASSUME NEW k \in Keys, RetryTime(k)
       PROVE  ShownOK' /\ VouchedOK' /\ RepeatedOnlyInDoubt'
  <2>1. UNCHANGED <<status, sending, answer, reply, appearances, doubted>>
    BY <1>12 DEF RetryTime, notifierVars, flushVars
  <2>2. ShownOK'
    BY <1>0, <2>1 DEF ShownOK, SentIsShown
  <2>3. \A l \in Keys : Doubtful(l) => Doubtful(l)'
    BY <2>1 DEF Doubtful
  <2> QED BY <1>1, <2>1, <2>2, <2>3
<1> QED BY <1>2, <1>3, <1>4, <1>5, <1>6, <1>7, <1>8, <1>9, <1>10, <1>11, <1>12
        DEF OutboxNext, FlushStep

LEMMA OutboxInvariant == OutboxSpec => []OutboxInv
<1>1. Numbers /\ OutboxInv /\ [OutboxNext]_outboxVars => OutboxInv'
  BY TypeStep, DeliveryStep DEF OutboxInv
<1> QED BY <1>1, OutboxStart, NumbersHold, PTL DEF OutboxSpec

-----------------------------------------------------------------------------
\* Every variable of the outbox has its type, and rows keep distinct places.
THEOREM OutboxTypes == OutboxSpec => []OutboxTypeOK
<1>1. OutboxInv => OutboxTypeOK
  BY DEF OutboxInv
<1> QED BY <1>1, OutboxInvariant, PTL

\* A row that says SENT was delivered (record_delivery_attempt).
THEOREM SentWasShown == OutboxSpec => []SentIsShown
<1>1. OutboxInv => SentIsShown
  BY DEF OutboxInv, ShownOK
<1> QED BY <1>1, OutboxInvariant, PTL

\* However many flushers share the rows, a message is repeated only in doubt
\* ("without duplicating delivered rows", telegram_outbox_worker.py:27).
THEOREM RetriesDoNotRepeat == OutboxSpec => []RepeatedOnlyInDoubt
<1>1. OutboxInv => RepeatedOnlyInDoubt
  BY DEF OutboxInv
<1> QED BY <1>1, OutboxInvariant, PTL

-----------------------------------------------------------------------------
(* The queue.                                                              *)

\* A step that adds at most one row, behind all others, leaves the rows before
\* each row what they were.
LEMMA QueueStep ==
  ASSUME OutboxInv, [OutboxNext]_outboxVars, NEW k \in Keys, place[k] # 0
  PROVE  place'[k] = place[k] /\ Older(k)' = Older(k)
<1>1. place \in [Keys -> 0..notices] /\ notices \in 0..MaxNotices /\ MaxNotices \in Nat
  BY NumbersHold DEF OutboxInv, OutboxTypeOK, Numbers
<1>2. \A l \in Keys : place[l] = 0 <=> status[l] = "none"
  BY DEF OutboxInv, OutboxTypeOK
<1>3. CASE place' = place
  BY <1>3 DEF Older
<1>4. CASE Notify
  <2>1. PICK n \in Keys : Enqueue(n)
    BY <1>4 DEF Notify
  <2>2. CASE status[n] # "none"
    BY <1>3, <2>1, <2>2 DEF Enqueue, rowVars
  <2>3. CASE status[n] = "none"
    <3>1. place' = [place EXCEPT ![n] = notices + 1] /\ place[n] = 0 /\ n # k
      BY <1>2, <2>1, <2>3 DEF Enqueue, NewRow
    <3>2. place'[k] = place[k] /\ place[k] <= notices /\ notices \in Nat
      BY <1>1, <3>1
    <3>3. \A l \in Keys : (place'[l] # 0 /\ place'[l] < place'[k])
                            <=> (place[l] # 0 /\ place[l] < place[k])
      BY <1>1, <3>1, <3>2
    <3> QED BY <3>2, <3>3 DEF Older
  <2> QED BY <2>2, <2>3
<1>5. CASE ~Notify
  <2>1. place' = place
    BY <1>5 DEF OutboxNext, outboxVars, FlushStep, Disable, Send, Record, NotifierDies, BeginFlush,
       FlushOne, FlushRecord, FlusherDies, RetryTime, Attempt, rowVars
  <2> QED BY <1>3, <2>1
<1> QED BY <1>4, <1>5

\* Rows keep their place in the queue, and nothing comes to stand before one that
\* waits: not a message that failed, and not one that is queued again.
THEOREM QueueIsFair == OutboxSpec => NobodyOvertakes
<1>1. OutboxInv /\ [OutboxNext]_outboxVars
      => [\A k \in Keys : place[k] # 0 => place'[k] = place[k] /\ Older(k)' = Older(k)]_outboxVars
  BY QueueStep
<1> QED BY <1>1, OutboxInvariant, PTL DEF OutboxSpec, NobodyOvertakes

\* As long as fewer messages are refused for good than a flush has rows, no
\* number of them keeps the first of the others out.
THEOREM FirstIsTaken == OutboxSpec => []PoisonKeepsNobodyOut
<1>1. PoisonKeepsNobodyOut
  <2> SUFFICES ASSUME NEW k \in Keys, Retried(k), due[k],
                      {l \in Older(k) : Retried(l)} \subseteq Poison
               PROVE  Cardinality({l \in Older(k) : Retried(l)}) < Limit
    BY DEF PoisonKeepsNobodyOut, Batch
  <2>1. /\ IsFiniteSet(Poison) /\ Cardinality(Poison) \in Nat /\ Cardinality(Poison) < Limit
        /\ Limit \in Nat
    BY OutboxAssumption, PoisonAssumption, FS_Subset, FS_CardinalityType
  <2>2. /\ Cardinality({l \in Older(k) : Retried(l)}) \in Nat
        /\ Cardinality({l \in Older(k) : Retried(l)}) <= Cardinality(Poison)
    BY <2>1, FS_Subset, FS_CardinalityType
  <2> QED BY <2>1, <2>2
<1> QED BY <1>1, PTL

-----------------------------------------------------------------------------
(* The end of a flush.                                                     *)

LEMMA FlushStepAdvances ==
  ASSUME OutboxInv, [OutboxNext]_outboxVars, NEW f \in Flushers, Flushing(f)
  PROVE  \/ batch'[f] \subseteq batch[f] /\ batch'[f] # batch[f]
         \/ batch'[f] = batch[f] /\ reply[f] # NoReply /\ reply'[f] = NoReply
         \/ ~FlushStep(f) /\ batch'[f] = batch[f] /\ reply'[f] = reply[f]
<1>1. batch \in [Flushers -> SUBSET Keys] /\ DOMAIN reply = Flushers
  BY DEF OutboxInv, OutboxTypeOK
<1>2. ~BeginFlush(f)
  BY DEF BeginFlush, Flushing
<1>3. CASE FlushOne(f)
  BY <1>1, <1>3 DEF FlushOne
<1>4. CASE FlushRecord(f)
  BY <1>1, <1>4 DEF FlushRecord
<1>5. CASE FlusherDies(f)
  BY <1>1, <1>5 DEF FlusherDies
<1>6. CASE ~FlushStep(f) /\ ~FlusherDies(f)
  <2>1. CASE \E g \in Flushers : FlushStep(g) \/ FlusherDies(g)
    <3>1. PICK g \in Flushers : FlushStep(g) \/ FlusherDies(g)
      BY <2>1
    <3>2. g # f
      BY <1>6, <3>1
    <3> QED BY <1>1, <1>6, <3>1, <3>2 DEF FlushStep, BeginFlush, FlushOne, FlushRecord, FlusherDies
  <2>2. CASE UNCHANGED flushVars
    BY <1>6, <2>2 DEF flushVars
  <2> QED BY <2>1, <2>2
          DEF OutboxNext, outboxVars, Notify, Disable, Send, Record, NotifierDies, RetryTime, flushVars
<1> QED BY <1>2, <1>3, <1>4, <1>5, <1>6 DEF FlushStep

\* A flush ends after the rows it has read, whatever they are answered and
\* whatever is queued meanwhile: the part of QueuedArrives that owes nothing to the
\* scheduler.
THEOREM FlushesEnd == OutboxSpec => EveryFlushEnds
<1>1. OutboxInv /\ [OutboxNext]_outboxVars =>
        [\A f \in Flushers : Flushing(f) =>
           \/ batch'[f] \subseteq batch[f] /\ batch'[f] # batch[f]
           \/ batch'[f] = batch[f] /\ reply[f] # NoReply /\ reply'[f] = NoReply
           \/ ~FlushStep(f) /\ batch'[f] = batch[f] /\ reply'[f] = reply[f]]_outboxVars
  BY FlushStepAdvances
<1> QED BY <1>1, OutboxInvariant, PTL DEF OutboxSpec, EveryFlushEnds
=============================================================================
