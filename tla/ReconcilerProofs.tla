-------------------------- MODULE ReconcilerProofs --------------------------
(***************************************************************************)
(* Proofs about Reconciler, for any number of invoices, payments, faults   *)
(* and, where SingleInstance is not assumed, of reconciler processes.      *)
(***************************************************************************)
EXTENDS Reconciler, FiniteSetTheorems, TLAPS

\* The actions of the API, the payers and Redis, which leave the processes
\* and payment_events alone.
Others ==
    \/ \E p \in PaymentKinds : Pay(p)
    \/ \E i \in Invoices : Cancel(i)
    \/ Crons
    \/ Screening

\* Next by cases.
LEMMA NextCases ==
    ASSUME Next
    PROVE  \/ \E r \in Reconcilers :
                \/ Boot(r) \/ Connect(r) \/ ReadBody(r) \/ EndOfBody(r)
                \/ MalformedLine(r) \/ Fail(r) \/ CheckEvent(r)
                \/ ScreenCached(r) \/ ScreenFresh(r) \/ Match(r)
                \/ InsertPaymentEvent(r) \/ CommitCredit(r) \/ Publish(r)
                \/ SaveCursor(r)
           \/ Others
BY DEF Next, BookingSide, Work, Process, Others

\* Horizon's history only grows.
LEMMA HorizonGrows ==
    ASSUME TypeOK, [Next]_vars
    PROVE  /\ Len(horizon) <= Len(horizon')
           /\ \A t \in 1..Len(horizon) : horizon'[t] = horizon[t]
<1>1. CASE UNCHANGED horizon
  BY <1>1 DEF TypeOK
<1>2. ASSUME NEW p \in PaymentKinds, Pay(p)
      PROVE  /\ Len(horizon) <= Len(horizon')
             /\ \A t \in 1..Len(horizon) : horizon'[t] = horizon[t]
  BY <1>2 DEF Pay, TypeOK
<1>3. UNCHANGED horizon \/ \E p \in PaymentKinds : Pay(p)
  BY DEF Next, BookingSide, Work, Process, Crons, Screening, vars, Boot, Connect, ReadBody,
         EndOfBody, MalformedLine, Fail, CheckEvent, ScreenCached, ScreenFresh,
         Match, InsertPaymentEvent, CommitCredit, Publish, SaveCursor, Cancel,
         ExpireInvoices, AutoCancelUnpaid, AnnounceCancelled, AnnouncingFails,
         ApiLookup, ApiAnswer, CacheExpires
<1>4. QED
  BY <1>1, <1>2, <1>3

\* A row of payment_events is never changed.
LEMMA EventsKept ==
    ASSUME TypeOK, [Next]_vars
    PROVE  \A t \in Tokens : EventExists(t) => event'[t] = event[t]
<1>1. CASE UNCHANGED event
  BY <1>1
<1>2. ASSUME NEW r \in Reconcilers, InsertPaymentEvent(r)
      PROVE  \A t \in Tokens : EventExists(t) => event'[t] = event[t]
  BY <1>2 DEF InsertPaymentEvent, Conflicts, TypeOK
<1>3. UNCHANGED event \/ \E r \in Reconcilers : InsertPaymentEvent(r)
  BY DEF Next, BookingSide, Work, Process, Crons, Screening, vars, dbVars, Boot, Connect, ReadBody,
         EndOfBody, MalformedLine, Fail, CheckEvent, ScreenCached, ScreenFresh,
         Match, CommitCredit, Publish, SaveCursor, Cancel, Pay,
         ExpireInvoices, AutoCancelUnpaid, AnnounceCancelled, AnnouncingFails,
         ApiLookup, ApiAnswer, CacheExpires
<1>4. QED
  BY <1>1, <1>2, <1>3
-----------------------------------------------------------------------------
(* Type correctness.  The types of the ledger, of the deliveries and of the *)
(* saved cursor need to know where a process is (ProcessOK).                *)

\* The tables and the processes start well typed, with empty locals.
LEMMA TypeInit == ConstantsAssumption /\ Init => TypeOK /\ ProcessOK
BY DEF ConstantsAssumption, Init, TypeOK, ProcessOK, LocalsOK, Statuses, Steps,
       NOW, Handling, Tokens

\* The payment a process works on is one Horizon delivered, and has a token.
LEMMA CurrentPayment ==
    ASSUME ConstantsAssumption, TypeOK, ProcessOK, NEW r \in Reconcilers,
           pc[r] \in Handling
    PROVE  /\ next[r] \in Tokens /\ next[r] <= Len(horizon)
           /\ Current(r) \in PaymentKinds /\ Current(r).from \in Payers
BY DEF ConstantsAssumption, TypeOK, ProcessOK, LocalsOK, Current, Tokens

\* The types again, without those of the variables only processes change.
LEMMA TypeNextOthers ==
    ASSUME ConstantsAssumption, TypeOK, Others \/ UNCHANGED vars
    PROVE  TypeOK'
<1> USE DEF TypeOK, Statuses, vars, dbVars, apiVars, procVars
<1>1. ASSUME NEW p \in PaymentKinds, Pay(p) PROVE TypeOK'
  BY <1>1 DEF Pay, NOW
<1>2. ASSUME NEW i \in Invoices, Cancel(i) PROVE TypeOK'
  BY <1>2 DEF Cancel
<1>3. CASE Crons
  BY <1>3 DEF Crons, ExpireInvoices, AutoCancelUnpaid, AnnounceCancelled,
              AnnouncingFails, DeliveryRows, ConstantsAssumption
<1>4. CASE Screening
  BY <1>4 DEF Screening, ApiLookup, ApiAnswer, CacheExpires
<1>5. CASE UNCHANGED vars
  BY <1>5
<1>6. QED
  BY <1>1, <1>2, <1>3, <1>4, <1>5 DEF Others

\* A step of a reconciler, a fault included, leaves every variable well typed.
LEMMA TypeNextProcess ==
    ASSUME ConstantsAssumption, TypeOK, ProcessOK, NEW r \in Reconcilers,
           Process(r) \/ Fail(r)
    PROVE  TypeOK'
<1> USE DEF TypeOK, Steps, NOW, dbVars, apiVars, Goto
<1>1. CASE Boot(r)
  BY <1>1 DEF Boot
<1>2. CASE Connect(r)
  BY <1>2 DEF Connect, ResumeAfter
<1>3. CASE ReadBody(r)
  BY <1>3 DEF ReadBody
<1>4. CASE EndOfBody(r)
  BY <1>4 DEF EndOfBody, LeaveStream
<1>5. CASE MalformedLine(r)
  BY <1>5 DEF MalformedLine, Retry, LeaveStream
<1>6. CASE Fail(r)
  BY <1>6 DEF Fail, Retry, LeaveStream, ConstantsAssumption
<1>7. CASE CheckEvent(r)
  <2>1. \/ NextLine(r)
        \/ Goto(r, "screen") /\ UNCHANGED <<next, verdict, matched>>
    BY <1>7 DEF CheckEvent
  <2>2. UNCHANGED <<horizon, published, cache, faults, dbVars, apiVars, boot, last>>
    BY <1>7 DEF CheckEvent
  <2>3. CASE NextLine(r)
    BY <2>2, <2>3 DEF NextLine
  <2>4. CASE Goto(r, "screen") /\ UNCHANGED <<next, verdict, matched>>
    BY <2>2, <2>4
  <2>5. QED
    BY <2>1, <2>3, <2>4
<1>8. CASE ScreenCached(r)
  <2> DEFINE cached == cache[Current(r).from]
  <2>1. cached \in {"none", "clear", "review", "blocked"}
    BY <1>8, CurrentPayment DEF ScreenCached, Handling
  <2>2. /\ UNCHANGED <<horizon, published, cache, faults, dbVars, apiVars, boot, next, last, matched>>
        /\ \/ Goto(r, "cache") /\ UNCHANGED verdict
           \/ cached # "none" /\ Screened(r, cached)
    BY <1>8 DEF ScreenCached
  <2>3. CASE Goto(r, "cache") /\ UNCHANGED verdict
    BY <2>2, <2>3
  <2>4. CASE cached # "none" /\ Screened(r, cached)
    <3>1. verdict' \in [Reconcilers -> Booking!Verdicts \cup {"none"}]
      BY <2>1, <2>4 DEF Screened, Booking!Verdicts
    <3>2. pc' \in [Reconcilers -> Steps]
      BY <2>4 DEF Screened
    <3>3. QED
      BY <2>2, <3>1, <3>2
  <2>5. QED
    BY <2>2, <2>3, <2>4
<1>9. CASE ScreenFresh(r)
  BY <1>9, CurrentPayment
     DEF ScreenFresh, Screened, Handling, ConstantsAssumption, Booking!Verdicts
<1>10. CASE Match(r)
  <2>1. MatchInvoice(Current(r)) \subseteq Invoices \cup {None}
    BY DEF MatchInvoice, PendingByMuxedId, PendingByMemo
  <2>2. QED
    BY <1>10, <2>1 DEF Match, Booking!Verdicts
<1>11. CASE InsertPaymentEvent(r)
  <2>1. pc[r] = "record" /\ verdict[r] # "none"
    BY <1>11 DEF InsertPaymentEvent, ProcessOK, LocalsOK
  <2>2. next[r] \in Tokens
    BY <2>1, CurrentPayment DEF Handling
  <2>3. EventRow(r) \in EventRows
    BY <2>1 DEF EventRow, EventRows, Booking!EventRows, Booking!Verdicts
  <2>4. UNCHANGED <<horizon, published, cache, faults, apiVars, status, ledger,
                    deliveries, cursor>>
    BY <1>11 DEF InsertPaymentEvent
  <2>5. \/ Retry(r) /\ UNCHANGED event
        \/ /\ event' = [event EXCEPT ![next[r]] = EventRow(r)]
           /\ Goto(r, AfterEvent(EventRow(r)))
           /\ UNCHANGED <<boot, next, last, verdict, matched>>
    BY <1>11 DEF InsertPaymentEvent
  <2>6. CASE Retry(r) /\ UNCHANGED event
    BY <2>4, <2>6 DEF Retry, LeaveStream
  <2>7. CASE /\ event' = [event EXCEPT ![next[r]] = EventRow(r)]
             /\ Goto(r, AfterEvent(EventRow(r)))
             /\ UNCHANGED <<boot, next, last, verdict, matched>>
    <3>1. event' \in [Tokens -> EventRows \cup {NoEvent}]
      BY <2>2, <2>3, <2>7
    <3>2. pc' \in [Reconcilers -> Steps]
      BY <2>7 DEF AfterEvent
    <3>3. QED
      BY <2>4, <2>7, <3>1, <3>2
  <2>8. QED
    BY <2>5, <2>6, <2>7
<1>12. CASE CommitCredit(r)
  <2>1. pc[r] = "credit" /\ matched[r] \in Invoices
    BY <1>12 DEF CommitCredit, ProcessOK, LocalsOK, Creditable,
                 Booking!Creditable, EventRow
  <2>2. next[r] \in Tokens
    BY <2>1, CurrentPayment DEF Handling
  <2>3. ledger' \in Seq([invoice : Invoices, event : Tokens])
    BY <1>12, <2>1, <2>2 DEF CommitCredit
  <2>4. deliveries' \subseteq DeliveryRows
    BY <1>12, <2>1, <2>2 DEF CommitCredit, DeliveryRows
  <2>5. status' \in [Invoices -> Statuses]
    BY <1>12, <2>1 DEF CommitCredit, MarkPaid, Statuses
  <2>6. QED
    BY <1>12, <2>3, <2>4, <2>5 DEF CommitCredit
<1>13. CASE Publish(r)
  <2>1. matched[r] \in Invoices
    BY <1>13 DEF Publish, ProcessOK, LocalsOK, Creditable, Booking!Creditable,
                 EventRow
  <2>2. QED
    BY <1>13, <2>1 DEF Publish
<1>14. CASE SaveCursor(r)
  <2>1. next[r] \in Nat /\ next[r] <= Len(horizon)
    BY <1>14, CurrentPayment DEF SaveCursor, Handling
  <2>2. QED
    BY <1>14, <2>1 DEF SaveCursor, NextLine, CursorToSave
<1>15. QED
  BY <1>1, <1>2, <1>3, <1>4, <1>5, <1>6, <1>7, <1>8, <1>9, <1>10, <1>11, <1>12,
     <1>13, <1>14 DEF Process, Work

\* A step of somebody else leaves the locals of a process sound.
LEMMA LocalsKept ==
    ASSUME ConstantsAssumption, TypeOK, TypeOK', [Next]_vars, ProcessOK,
           NEW s \in Reconcilers,
           UNCHANGED <<pc[s], boot[s], next[s], last[s], verdict[s], matched[s]>>
    PROVE  LocalsOK(s)'
<1>1. LocalsOK(s)
  BY DEF ProcessOK
<1>2. EventRow(s)' = EventRow(s)
  BY DEF EventRow
<1>3. last[s] \in Nat /\ next[s] \in Nat /\ boot[s] \in Int /\ boot'[s] \in Int
      /\ Len(horizon) \in Nat /\ Len(horizon') \in Nat
  BY DEF TypeOK, NOW
<1>4. Len(horizon) <= Len(horizon')
  BY HorizonGrows
<1>5. ASSUME pc[s] \in {"credit", "publish", "save"}
      PROVE  event'[next[s]] = EventRow(s)
  <2>1. next[s] \in Tokens
    BY <1>5, CurrentPayment DEF Handling
  <2>2. EventExists(next[s])
    BY <1>1, <1>5 DEF LocalsOK, EventRow, EventExists, NoEvent, Booking!NoEvent
  <2>3. QED
    BY <2>1, <2>2, EventsKept, <1>1, <1>5 DEF LocalsOK
<1>6. QED
  BY <1>1, <1>2, <1>3, <1>4, <1>5 DEF LocalsOK, Creditable, Booking!Creditable

\* A step of a process leaves its own locals fit for the step it goes to.
LEMMA ProcessNextSelf ==
    ASSUME ConstantsAssumption, TypeOK, TypeOK', ProcessOK, NEW r \in Reconcilers,
           Process(r) \/ Fail(r)
    PROVE  LocalsOK(r)'
<1> USE DEF TypeOK, Steps, NOW, dbVars, apiVars, Goto, Handling
<1>0. LocalsOK(r)
  BY DEF ProcessOK
<1>1. CASE Boot(r)
  BY <1>0, <1>1 DEF Boot, LocalsOK
<1>2. CASE Connect(r)
  BY <1>0, <1>2 DEF Connect, ResumeAfter, LocalsOK
<1>3. CASE ReadBody(r)
  BY <1>0, <1>3 DEF ReadBody, LocalsOK
<1>4. ASSUME NEW step \in {"connect", "down"}, LeaveStream(r, step), UNCHANGED horizon
      PROVE  LocalsOK(r)'
  BY <1>0, <1>4 DEF LeaveStream, LocalsOK
<1>5. CASE EndOfBody(r) \/ MalformedLine(r) \/ Fail(r)
  BY <1>4, <1>5 DEF EndOfBody, MalformedLine, Fail, Retry
<1>6. ASSUME NextLine(r), next[r] <= last[r], UNCHANGED <<horizon, boot, last>>
      PROVE  LocalsOK(r)'
  BY <1>0, <1>6 DEF NextLine, LocalsOK
<1>7. CASE CheckEvent(r)
  <2>1. \/ NextLine(r)
        \/ Goto(r, "screen") /\ UNCHANGED <<next, verdict, matched>>
    BY <1>7 DEF CheckEvent
  <2>2. UNCHANGED <<horizon, boot, last>> /\ next[r] <= last[r]
    BY <1>7 DEF CheckEvent
  <2>3. CASE Goto(r, "screen") /\ UNCHANGED <<next, verdict, matched>>
    <3>1. pc[r] = "line" /\ pc'[r] = "screen"
      BY <1>7, <2>3 DEF CheckEvent
    <3>2. QED
      BY <1>0, <2>2, <2>3, <3>1 DEF LocalsOK
  <2>4. QED
    BY <1>6, <2>1, <2>2, <2>3
<1>8. CASE ScreenCached(r)
  BY <1>0, <1>8, CurrentPayment DEF ScreenCached, Screened, LocalsOK
<1>9. CASE ScreenFresh(r)
  BY <1>0, <1>9 DEF ScreenFresh, Screened, LocalsOK, ConstantsAssumption
<1>10. CASE Match(r)
  BY <1>0, <1>10 DEF Match, LocalsOK
<1>11. CASE InsertPaymentEvent(r)
  <2>1. next[r] \in Tokens /\ pc[r] = "record" /\ UNCHANGED horizon
    BY <1>11, CurrentPayment DEF InsertPaymentEvent
  <2>2. CASE Retry(r)
    BY <1>4, <2>1, <2>2 DEF Retry
  <2>3. CASE /\ event' = [event EXCEPT ![next[r]] = EventRow(r)]
             /\ Goto(r, AfterEvent(EventRow(r)))
             /\ UNCHANGED <<boot, next, last, verdict, matched>>
    <3>1. event'[next[r]] = EventRow(r) /\ EventRow(r)' = EventRow(r)
      BY <2>1, <2>3 DEF EventRow
    <3>2. Creditable(EventRow(r))' <=> Creditable(EventRow(r))
      BY <2>3 DEF Creditable, Booking!Creditable, EventRow
    <3>3. \/ pc'[r] = "credit" /\ Creditable(EventRow(r))
          \/ pc'[r] = "save"
      BY <2>3 DEF AfterEvent
    <3>4. QED
      BY <1>0, <2>1, <2>3, <3>1, <3>2, <3>3 DEF LocalsOK
  <2>4. QED
    BY <1>11, <2>2, <2>3 DEF InsertPaymentEvent
<1>12. CASE CommitCredit(r)
  BY <1>0, <1>12 DEF CommitCredit, LocalsOK, Creditable, Booking!Creditable, EventRow
<1>13. CASE Publish(r)
  BY <1>0, <1>13 DEF Publish, LocalsOK, Creditable, Booking!Creditable, EventRow
<1>14. CASE SaveCursor(r)
  BY <1>0, <1>6, <1>14 DEF SaveCursor, LocalsOK
<1>15. QED
  BY <1>1, <1>2, <1>3, <1>5, <1>7, <1>8, <1>9, <1>10, <1>11, <1>12, <1>13, <1>14
     DEF Process, Work

\* A step of one process, or of the rest of the system, leaves the locals of
\* the other processes alone.
LEMMA LocalsFrame ==
    ASSUME TypeOK
    PROVE  /\ \A r, s \in Reconcilers : (Process(r) \/ Fail(r)) /\ s # r =>
                 UNCHANGED <<pc[s], boot[s], next[s], last[s], verdict[s], matched[s]>>
           /\ Others \/ UNCHANGED vars => UNCHANGED procVars
<1>1. ASSUME NEW r \in Reconcilers, NEW s \in Reconcilers, s # r,
             Process(r) \/ Fail(r)
      PROVE  UNCHANGED <<pc[s], boot[s], next[s], last[s], verdict[s], matched[s]>>
  <2> USE DEF TypeOK, Goto
  <2>1. CASE \/ Boot(r) \/ Connect(r) \/ ReadBody(r) \/ Match(r) \/ CommitCredit(r)
             \/ Publish(r) \/ SaveCursor(r)
    BY <1>1, <2>1 DEF Boot, Connect, ReadBody, Match, CommitCredit, Publish,
                      SaveCursor, NextLine
  <2>2. CASE EndOfBody(r) \/ MalformedLine(r) \/ Fail(r)
    BY <1>1, <2>2 DEF EndOfBody, MalformedLine, Fail, Retry, LeaveStream
  <2>3. CASE ScreenCached(r) \/ ScreenFresh(r)
    BY <1>1, <2>3 DEF ScreenCached, ScreenFresh, Screened
  <2>4. CASE CheckEvent(r)
    BY <1>1, <2>4 DEF CheckEvent, NextLine
  <2>5. CASE InsertPaymentEvent(r)
    BY <1>1, <2>5 DEF InsertPaymentEvent, Retry, LeaveStream
  <2>6. QED
    BY <1>1, <2>1, <2>2, <2>3, <2>4, <2>5 DEF Process, Work
<1>2. ASSUME Others \/ UNCHANGED vars PROVE UNCHANGED procVars
  BY <1>2 DEF Others, Pay, Cancel, Crons, ExpireInvoices, AutoCancelUnpaid,
              AnnounceCancelled, AnnouncingFails, Screening, ApiLookup, ApiAnswer,
              CacheExpires, vars
<1>3. QED
  BY <1>1, <1>2

\* No step of the system breaks the types or the locals of a process.
LEMMA TypeNext ==
    ASSUME ConstantsAssumption, TypeOK, ProcessOK, [Next]_vars
    PROVE  TypeOK' /\ ProcessOK'
<1>1. CASE Others \/ UNCHANGED vars
  <2>1. TypeOK'
    BY <1>1, TypeNextOthers
  <2>2. \A s \in Reconcilers :
          UNCHANGED <<pc[s], boot[s], next[s], last[s], verdict[s], matched[s]>>
    BY <1>1, LocalsFrame DEF procVars
  <2>3. QED
    BY <2>1, <2>2, LocalsKept DEF ProcessOK
<1>2. ASSUME NEW r \in Reconcilers, Process(r) \/ Fail(r)
      PROVE  TypeOK' /\ ProcessOK'
  <2>1. TypeOK'
    BY <1>2, TypeNextProcess
  <2>2. ASSUME NEW s \in Reconcilers PROVE LocalsOK(s)'
    <3>1. CASE s = r
      BY <1>2, <2>1, <3>1, ProcessNextSelf
    <3>2. CASE s # r
      BY <1>2, <2>1, <3>2, LocalsFrame, LocalsKept
    <3>3. QED
      BY <3>1, <3>2
  <2>3. QED
    BY <2>1, <2>2 DEF ProcessOK
<1>3. QED
  BY <1>1, <1>2 DEF Next, BookingSide, Process, Others

\* Every variable keeps its type, and every process the locals that fit its
\* step, in all behaviours.
THEOREM TypeCorrect == Spec => [](TypeOK /\ ProcessOK)
<1>1. Init => TypeOK /\ ProcessOK
  BY ConstantsAssumption, TypeInit
<1>2. TypeOK /\ ProcessOK /\ [Next]_vars => (TypeOK /\ ProcessOK)'
  BY ConstantsAssumption, TypeNext
<1>3. QED
  BY <1>1, <1>2, PTL DEF Spec

-----------------------------------------------------------------------------
(* The saved cursor, when the history is followed from its beginning.       *)

\* A payment that is recorded, or of no interest to the filter, stays so.
LEMMA SettledKept ==
    ASSUME ConstantsAssumption, TypeOK, [Next]_vars,
           NEW t \in 1..Len(horizon), Settled(t)
    PROVE  Settled(t)'
<1>1. t \in Tokens
  BY DEF ConstantsAssumption, TypeOK, Tokens
<1>2. horizon'[t] = horizon[t]
  BY HorizonGrows
<1>3. EventExists(t) => EventExists(t)'
  BY <1>1, EventsKept DEF EventExists
<1>4. QED
  BY <1>2, <1>3 DEF Settled

\* The cursor invariant: "now" is never read when the history is followed from
\* its beginning.
CursorInv ==
    /\ CursorSafe
    /\ ProgressOK
    /\ cursor # NOW
    /\ \A r \in Reconcilers : boot[r] # NOW

\* What a step of a process does to what it has behind it: nothing, forget it,
\* start from the saved cursor, or add the current line, now settled.
LEMMA CursorCases ==
    ASSUME ConstantsAssumption, TypeOK, ProcessOK, CursorInv, NEW r \in Reconcilers,
           Process(r) \/ Fail(r)
    PROVE  /\ \/ cursor' = cursor
              \/ cursor' = next[r] /\ Settled(next[r]) /\ pc[r] = "save"
           /\ boot'[r] \in {boot[r], cursor}
           /\ \/ next'[r] \in {1, next[r], boot[r] + 1}
              \/ next'[r] = next[r] + 1 /\ next[r] <= last[r] /\ Settled(next[r])
<1> USE DEF TypeOK, Goto, dbVars, NOW
<1>1. CASE \/ Boot(r) \/ ReadBody(r) \/ ScreenCached(r) \/ ScreenFresh(r)
           \/ Match(r) \/ CommitCredit(r) \/ Publish(r)
  BY <1>1 DEF Boot, ReadBody, ScreenCached, ScreenFresh, Match, CommitCredit, Publish
<1>2. CASE Connect(r)
  BY <1>2 DEF Connect, ResumeAfter, CursorInv
<1>3. CASE EndOfBody(r) \/ MalformedLine(r) \/ Fail(r)
  BY <1>3 DEF EndOfBody, MalformedLine, Fail, Retry, LeaveStream
<1>4. CASE InsertPaymentEvent(r)
  BY <1>4 DEF InsertPaymentEvent, Retry, LeaveStream
<1>5. CASE CheckEvent(r)
  <2>1. /\ next[r] <= last[r] /\ UNCHANGED <<cursor, boot>>
        /\ \/ /\ EventExists(next[r]) \/ ~IsAcceptedAsset(Current(r))
              /\ NextLine(r)
           \/ UNCHANGED next
    BY <1>5 DEF CheckEvent
  <2>2. EventExists(next[r]) \/ ~IsAcceptedAsset(Current(r)) => Settled(next[r])
    BY DEF Settled, Current
  <2>3. QED
    BY <2>1, <2>2 DEF NextLine
<1>6. CASE SaveCursor(r)
  <2>1. pc[r] = "save" /\ next[r] <= last[r] /\ event[next[r]] = EventRow(r)
        /\ verdict[r] # "none"
    BY <1>6 DEF SaveCursor, ProcessOK, LocalsOK, Handling
  <2>2. Settled(next[r])
    BY <2>1 DEF Settled, EventExists, EventRow, NoEvent, Booking!NoEvent
  <2>3. QED
    BY <1>6, <2>1, <2>2 DEF SaveCursor, NextLine, CursorToSave
<1>7. QED
  BY <1>1, <1>2, <1>3, <1>4, <1>5, <1>6 DEF Process, Work

\* No step leaves something to record behind the saved cursor or behind a
\* process: a cursor is saved only for a payment whose event is in the table.
LEMMA CursorStep ==
    ASSUME ConstantsAssumption, TypeOK, ProcessOK, CursorInv, [Next]_vars
    PROVE  CursorInv'
<1> DEFINE Passed(n) == \A t \in 1..n : t \in 1..Len(horizon) /\ Settled(t)
<1>1. /\ Passed(cursor)
      /\ \A r \in Reconcilers : Passed(boot[r]) /\ Passed(next[r] - 1)
  BY DEF CursorInv, CursorSafe, ProgressOK, ProcessOK, LocalsOK, TypeOK, NOW
<1>2. ASSUME NEW n \in Int, Passed(n) PROVE \A t \in 1..n : Settled(t)'
  BY <1>2, SettledKept
<1>3. SUFFICES /\ cursor' \in Nat /\ Passed(cursor')
               /\ \A s \in Reconcilers :
                     /\ boot'[s] \in Nat /\ Passed(boot'[s])
                     /\ next'[s] - 1 \in Int /\ Passed(next'[s] - 1)
  <2>1. CursorSafe'
    BY <1>2, <1>3 DEF CursorSafe
  <2>2. ASSUME NEW s \in Reconcilers, NEW t \in 1..boot'[s] \cup 1..(next'[s] - 1)
        PROVE  Settled(t)'
    <3>1. ASSUME NEW n \in Int, n = boot'[s] \/ n = next'[s] - 1 PROVE \A u \in 1..n : Settled(u)'
      <4>1. Passed(n)
        BY <1>3, <3>1
      <4> HIDE DEF Passed
      <4> QED
        BY <1>2, <4>1
    <3>2. boot'[s] \in Int /\ next'[s] - 1 \in Int
      BY <1>3
    <3> QED
      BY <3>1, <3>2
  <2>3. QED
    BY <1>3, <2>1, <2>2 DEF CursorInv, ProgressOK, NOW
<1>4. CASE Others \/ UNCHANGED vars
  <2>1. UNCHANGED <<boot, next>>
    BY <1>4, LocalsFrame DEF procVars
  <2>2. UNCHANGED cursor
    BY <1>4 DEF Others, Pay, Cancel, Crons, ExpireInvoices, AutoCancelUnpaid,
                AnnounceCancelled, AnnouncingFails, Screening, ApiLookup,
                ApiAnswer, CacheExpires, vars, dbVars
  <2>3. QED
    BY <1>1, <2>1, <2>2 DEF TypeOK, CursorInv, NOW
<1>5. ASSUME NEW r \in Reconcilers, Process(r) \/ Fail(r)
      PROVE  /\ cursor' \in Nat /\ Passed(cursor')
             /\ \A s \in Reconcilers :
                   /\ boot'[s] \in Nat /\ Passed(boot'[s])
                   /\ next'[s] - 1 \in Int /\ Passed(next'[s] - 1)
  <2>1. /\ cursor \in Nat
        /\ \A s \in Reconcilers : boot[s] \in Nat /\ next[s] \in Nat
    BY DEF TypeOK, CursorInv, NOW
  <2>2. ASSUME Settled(next[r]), next[r] \in 1..Len(horizon) PROVE Passed(next[r])
    BY <1>1, <2>1, <2>2
  <2>3. Passed(cursor') /\ cursor' \in Nat
    <3>1. CASE cursor' = cursor
      BY <1>1, <2>1, <3>1
    <3>2. CASE cursor' = next[r] /\ Settled(next[r]) /\ pc[r] = "save"
      BY <2>1, <2>2, <3>2 DEF ProcessOK, LocalsOK, Handling, TypeOK
    <3>3. QED
      BY <1>5, <3>1, <3>2, CursorCases
  <2>4. boot'[r] \in Nat /\ Passed(boot'[r])
    BY <1>1, <1>5, <2>1, CursorCases
  <2>5. next'[r] - 1 \in Int /\ Passed(next'[r] - 1)
    <3>1. CASE next'[r] \in {1, next[r], boot[r] + 1}
      BY <1>1, <2>1, <3>1
    <3>2. CASE next'[r] = next[r] + 1 /\ next[r] <= last[r] /\ Settled(next[r])
      BY <2>1, <2>2, <3>2 DEF ProcessOK, LocalsOK, TypeOK
    <3>3. QED
      BY <1>5, <3>1, <3>2, CursorCases
  <2>6. \A s \in Reconcilers : s # r => boot'[s] = boot[s] /\ next'[s] = next[s]
    BY <1>5, LocalsFrame
  <2>7. ASSUME NEW s \in Reconcilers
        PROVE  /\ boot'[s] \in Nat /\ Passed(boot'[s])
               /\ next'[s] - 1 \in Int /\ Passed(next'[s] - 1)
    <3>1. CASE s = r
      BY <2>4, <2>5, <3>1
    <3>2. CASE s # r
      <4>1. boot'[s] = boot[s] /\ next'[s] = next[s]
        BY <2>6, <3>2
      <4>2. QED
        BY <1>1, <2>1, <4>1
    <3>3. QED
      BY <3>1, <3>2
  <2>8. QED
    BY <2>3, <2>7
<1>6. QED
  BY <1>4, <1>5 DEF Next, BookingSide, Process, Others

\* Followed from its beginning, by any number of instances and over any
\* failures, Horizon's history has no payment behind the saved cursor that is
\* still to be recorded.
THEOREM CursorIsSafe == ASSUME StartCursor = 0 PROVE Spec => []CursorSafe
<1>1. Init => CursorInv
  BY DEF Init, CursorInv, CursorSafe, ProgressOK, NOW
<1>2. TypeOK /\ ProcessOK /\ CursorInv /\ [Next]_vars => CursorInv'
  BY ConstantsAssumption, CursorStep
<1>3. CursorInv => CursorSafe
  BY DEF CursorInv
<1>4. QED
  BY <1>1, <1>2, <1>3, TypeCorrect, PTL DEF Spec

\* A single instance works on a payment beyond the saved cursor, whatever
\* cursor its boot had.
LEMMA OrderStep ==
    ASSUME ConstantsAssumption, SingleInstance, TypeOK, ProcessOK, CursorInv,
           OrderOK, [Next]_vars
    PROVE  OrderOK' /\ cursor' >= cursor
<1> USE DEF TypeOK, Goto, dbVars, NOW
<1>0. cursor \in Nat
  BY DEF CursorInv
<1>1. CASE Others \/ UNCHANGED vars
  <2>1. UNCHANGED <<pc, next>>
    BY <1>1, LocalsFrame DEF procVars
  <2>2. UNCHANGED cursor
    BY <1>1 DEF Others, Pay, Cancel, Crons, ExpireInvoices, AutoCancelUnpaid,
                AnnounceCancelled, AnnouncingFails, Screening, ApiLookup,
                ApiAnswer, CacheExpires, vars
  <2>3. QED
    BY <1>0, <2>1, <2>2 DEF OrderOK
<1>2. ASSUME NEW r \in Reconcilers, Process(r) \/ Fail(r)
      PROVE  OrderOK' /\ cursor' >= cursor
  <2>1. SUFFICES (pc'[r] \in Handling => cursor' < next'[r]) /\ cursor' >= cursor
    BY DEF OrderOK, SingleInstance
  <2>2. pc[r] \in Handling => cursor < next[r]
    BY DEF OrderOK
  <2>3. CASE \/ Boot(r) \/ Connect(r) \/ ReadBody(r)
    BY <1>0, <2>3 DEF Boot, Connect, ReadBody, Handling
  <2>4. CASE EndOfBody(r) \/ MalformedLine(r) \/ Fail(r)
    BY <1>0, <2>4 DEF EndOfBody, MalformedLine, Fail, Retry, LeaveStream, Handling
  <2>5. CASE CheckEvent(r)
    <3>1. /\ UNCHANGED cursor /\ Current(r).wellFormed
          /\ \/ NextLine(r)
             \/ /\ ~EventExists(next[r]) /\ IsAcceptedAsset(Current(r))
                /\ UNCHANGED next
      BY <2>5 DEF CheckEvent
    <3>2. CASE NextLine(r)
      BY <1>0, <3>1, <3>2 DEF NextLine, Handling
    <3>3. CASE /\ ~EventExists(next[r]) /\ IsAcceptedAsset(Current(r))
               /\ UNCHANGED next
      <4>1. ~Settled(next[r])
        BY <3>1, <3>3 DEF Settled, Current
      <4>2. next[r] >= 1 /\ next[r] \in Nat
        BY DEF ProcessOK, LocalsOK
      <4>3. cursor < next[r]
        BY <1>0, <4>1, <4>2 DEF CursorInv, CursorSafe
      <4>4. QED
        BY <1>0, <3>1, <3>3, <4>3
    <3>4. QED
      BY <3>1, <3>2, <3>3
  <2>6. CASE ScreenCached(r) \/ ScreenFresh(r) \/ Match(r)
    BY <1>0, <2>2, <2>6 DEF ScreenCached, ScreenFresh, Match, Handling
  <2>7. CASE InsertPaymentEvent(r)
    BY <1>0, <2>2, <2>7 DEF InsertPaymentEvent, Retry, LeaveStream, Handling
  <2>8. CASE CommitCredit(r) \/ Publish(r)
    BY <1>0, <2>2, <2>8 DEF CommitCredit, Publish, Handling
  <2>9. CASE SaveCursor(r)
    BY <1>0, <2>2, <2>9 DEF SaveCursor, CursorToSave, NextLine, Handling
  <2>10. QED
    BY <1>2, <2>3, <2>4, <2>5, <2>6, <2>7, <2>8, <2>9 DEF Process, Work
<1>3. QED
  BY <1>1, <1>2 DEF Next, BookingSide, Process, Others

\* One instance that follows the history from its beginning never moves the
\* saved cursor back, however often it replays what it has recorded.
THEOREM CursorAdvances ==
    ASSUME StartCursor = 0, SingleInstance
    PROVE  Spec => CursorNeverRegresses
<1>1. Init => CursorInv /\ OrderOK
  BY DEF Init, CursorInv, CursorSafe, ProgressOK, OrderOK, Handling, NOW
<1>2. TypeOK /\ ProcessOK /\ CursorInv /\ OrderOK /\ [Next]_vars
        => CursorInv' /\ OrderOK' /\ [cursor' >= cursor]_cursor
  BY ConstantsAssumption, CursorStep, OrderStep
<1>3. QED
  BY <1>1, <1>2, TypeCorrect, PTL DEF Spec, CursorNeverRegresses

-----------------------------------------------------------------------------
(* The ledger.                                                              *)

\* Only two statements write payment_events and ledger_entries.
LEMMA BookingWrites ==
    ASSUME [Next]_vars
    PROVE  \/ UNCHANGED <<event, ledger>>
           \/ \E r \in Reconcilers : CommitCredit(r)
           \/ \E r \in Reconcilers : InsertPaymentEvent(r) /\ ~Conflicts(next[r])
<1>1. ASSUME NEW r \in Reconcilers, InsertPaymentEvent(r), Conflicts(next[r])
      PROVE  UNCHANGED <<event, ledger>>
  BY <1>1 DEF InsertPaymentEvent
<1>2. ASSUME NEW r \in Reconcilers, Process(r) \/ Fail(r), ~InsertPaymentEvent(r),
             ~CommitCredit(r)
      PROVE  UNCHANGED <<event, ledger>>
  BY <1>2 DEF Process, Work, dbVars, Boot, Connect, ReadBody, EndOfBody, MalformedLine,
              Fail, CheckEvent, ScreenCached, ScreenFresh, Match, Publish, SaveCursor
<1>3. CASE Others \/ UNCHANGED vars
  BY <1>3 DEF Others, Pay, Cancel, Crons, ExpireInvoices, AutoCancelUnpaid,
              AnnounceCancelled, AnnouncingFails, Screening, ApiLookup, ApiAnswer,
              CacheExpires, vars, dbVars
<1>4. QED
  BY <1>1, <1>2, <1>3 DEF Next, BookingSide, Process, Others

\* A process reaches the transaction only by inserting the event itself.
LEMMA CreditEntry ==
    ASSUME TypeOK, NEW r \in Reconcilers, Process(r) \/ Fail(r),
           pc'[r] = "credit"
    PROVE  InsertPaymentEvent(r) /\ ~Conflicts(next[r]) /\ UNCHANGED next
<1> USE DEF TypeOK, Goto
<1>1. CASE \/ Boot(r) \/ Connect(r) \/ ReadBody(r) \/ Match(r) \/ CommitCredit(r)
           \/ Publish(r) \/ SaveCursor(r)
  BY <1>1 DEF Boot, Connect, ReadBody, Match, CommitCredit, Publish,
              SaveCursor, NextLine
<1>2. CASE EndOfBody(r) \/ MalformedLine(r) \/ Fail(r)
  BY <1>2 DEF EndOfBody, MalformedLine, Fail, Retry, LeaveStream
<1>3. CASE ScreenCached(r) \/ ScreenFresh(r)
  BY <1>3 DEF ScreenCached, ScreenFresh, Screened
<1>4. CASE CheckEvent(r)
  BY <1>4 DEF CheckEvent, NextLine
<1>5. CASE InsertPaymentEvent(r)
  BY <1>5 DEF InsertPaymentEvent, Retry, LeaveStream
<1>6. QED
  BY <1>1, <1>2, <1>3, <1>4, <1>5 DEF Process, Work

\* The row a process credits: a token and an invoice, not yet in the ledger.
LEMMA CreditRow ==
    ASSUME ConstantsAssumption, TypeOK, ProcessOK, LedgerOK, NEW r \in Reconcilers,
           CommitCredit(r)
    PROVE  /\ next[r] \in Tokens
           /\ matched[r] \in Invoices
           /\ event[next[r]].invoice = matched[r]
           /\ Creditable(event[next[r]])
           /\ \A k \in DOMAIN ledger : ledger[k].event # next[r]
           /\ ledger' = Append(ledger, [invoice |-> matched[r], event |-> next[r]])
<1>1. pc[r] = "credit" /\ ledger' = Append(ledger, [invoice |-> matched[r], event |-> next[r]])
  BY DEF CommitCredit
<1>2. next[r] \in Tokens
  BY <1>1, CurrentPayment DEF Handling
<1>3. Creditable(EventRow(r)) /\ event[next[r]] = EventRow(r)
  BY <1>1 DEF ProcessOK, LocalsOK
<1>4. matched[r] \in Invoices /\ event[next[r]].invoice = matched[r]
  BY <1>3 DEF Creditable, Booking!Creditable, EventRow, TypeOK
<1>5. QED
  BY <1>1, <1>2, <1>3, <1>4 DEF LedgerOK

\* The columns of a ledger entry.
LEMMA LedgerTypes ==
    ASSUME TypeOK, NEW k \in DOMAIN ledger
    PROVE  ledger[k].event \in Tokens /\ ledger[k].invoice \in Invoices
<1>1. \A S : ledger \in Seq(S) => ledger[k] \in S
  OBVIOUS
<1>2. ledger[k] \in [invoice : Invoices, event : Tokens]
  BY <1>1 DEF TypeOK
<1>3. QED
  BY <1>2

\* LedgerOK in two parts: what it says of the ledger, and of the processes.
LedgerRowsOK ==
    /\ \A j, k \in DOMAIN ledger : ledger[j].event = ledger[k].event => j = k
    /\ \A k \in DOMAIN ledger :
          /\ Creditable(event[ledger[k].event])
          /\ event[ledger[k].event].invoice = ledger[k].invoice

\* No step breaks what ties the ledger to payment_events: a new entry comes
\* from the event its process inserted, and has the event's invoice.
LEMMA LedgerRowsStep ==
    ASSUME ConstantsAssumption, TypeOK, ProcessOK, LedgerOK, [Next]_vars
    PROVE  LedgerRowsOK'
<1> USE DEF TypeOK
<1>1. \A k \in DOMAIN ledger : ledger[k].event \in Tokens /\ ledger[k].invoice \in Invoices
  BY LedgerTypes
<1>2. \A t \in Tokens : Creditable(event[t]) => event'[t] = event[t]
  BY EventsKept DEF Creditable, Booking!Creditable, EventExists, NoEvent, Booking!NoEvent
<1>3. CASE UNCHANGED ledger
  BY <1>1, <1>2, <1>3 DEF LedgerOK, LedgerRowsOK, Creditable, Booking!Creditable
<1>4. ASSUME NEW r \in Reconcilers, CommitCredit(r) PROVE LedgerRowsOK'
  <2> DEFINE row == [invoice |-> matched[r], event |-> next[r]]
  <2>1. /\ ledger' = Append(ledger, row)
        /\ next[r] \in Tokens /\ matched[r] \in Invoices
        /\ event[next[r]].invoice = matched[r] /\ Creditable(event[next[r]])
        /\ \A k \in DOMAIN ledger : ledger[k].event # next[r]
    BY <1>4, CreditRow
  <2>2. UNCHANGED event
    BY <1>4 DEF CommitCredit
  <2>3. /\ DOMAIN ledger' = 1..(Len(ledger) + 1)
        /\ DOMAIN ledger = 1..Len(ledger)
        /\ \A k \in DOMAIN ledger : ledger'[k] = ledger[k]
        /\ ledger'[Len(ledger) + 1] = row
    BY <2>1
  <2>4. \A k \in DOMAIN ledger' : k \in DOMAIN ledger \/ k = Len(ledger) + 1
    BY <2>3
  <2>5. row.event = next[r] /\ row.invoice = matched[r]
    OBVIOUS
  <2> HIDE DEF row
  <2>6. /\ \A j, k \in DOMAIN ledger : ledger[j].event = ledger[k].event => j = k
        /\ \A k \in DOMAIN ledger : /\ Creditable(event[ledger[k].event])
                                    /\ event[ledger[k].event].invoice = ledger[k].invoice
    BY DEF LedgerOK
  <2> HIDE DEF TypeOK
  <2>7. \A j, k \in DOMAIN ledger' : ledger'[j].event = ledger'[k].event => j = k
    <3>1. \A k \in DOMAIN ledger : ledger'[k].event = ledger[k].event /\ ledger[k].event # next[r]
      BY <2>1, <2>3
    <3>2. ledger'[Len(ledger) + 1].event = next[r]
      BY <2>3, <2>5
    <3>3. \A j, k \in DOMAIN ledger : ledger[j].event = ledger[k].event => j = k
      BY <2>6
    <3> QED
      BY <2>4, <3>1, <3>2, <3>3, Zenon
  <2>8. \A k \in DOMAIN ledger' : /\ Creditable(event[ledger'[k].event])
                                  /\ event[ledger'[k].event].invoice = ledger'[k].invoice
    <3>1. ASSUME NEW k \in DOMAIN ledger
          PROVE  /\ Creditable(event[ledger'[k].event])
                 /\ event[ledger'[k].event].invoice = ledger'[k].invoice
      <4>1. ledger'[k] = ledger[k]
        BY <2>3
      <4>2. /\ Creditable(event[ledger[k].event])
            /\ event[ledger[k].event].invoice = ledger[k].invoice
        BY <2>6
      <4> QED
        BY <4>1, <4>2, Zenon
    <3>2. /\ ledger'[Len(ledger) + 1].event = next[r]
          /\ ledger'[Len(ledger) + 1].invoice = matched[r]
      BY <2>3, <2>5
    <3>3. Creditable(event[next[r]]) /\ event[next[r]].invoice = matched[r]
      BY <2>1
    <3> QED
      BY <2>4, <3>1, <3>2, <3>3, Zenon
  <2>9. QED
    BY <2>2, <2>7, <2>8 DEF LedgerRowsOK, Creditable, Booking!Creditable
<1>5. QED
  BY <1>3, <1>4, BookingWrites DEF InsertPaymentEvent

\* The same with the claims of the processes: two of them never hold the same
\* payment for crediting, since one of the insertions would have failed.
LEMMA LedgerStep ==
    ASSUME ConstantsAssumption, TypeOK, ProcessOK, LedgerOK, [Next]_vars
    PROVE  LedgerOK'
<1>1. LedgerRowsOK'
  BY LedgerRowsStep
<1>2. SUFFICES ASSUME NEW s \in Reconcilers, pc'[s] = "credit"
               PROVE  /\ \A k \in DOMAIN ledger' : ledger'[k].event # next'[s]
                      /\ \A q \in Reconcilers :
                            pc'[q] = "credit" /\ next'[q] = next'[s] => q = s
  BY <1>1 DEF LedgerOK, LedgerRowsOK
<1>3. CASE Others \/ UNCHANGED vars
  <2>1. UNCHANGED <<pc, next>>
    BY <1>3, LocalsFrame DEF procVars
  <2>2. UNCHANGED ledger
    BY <1>3 DEF Others, Pay, Cancel, Crons, ExpireInvoices, AutoCancelUnpaid,
                AnnounceCancelled, AnnouncingFails, Screening, ApiLookup, ApiAnswer,
                CacheExpires, vars, dbVars
  <2>3. QED
    BY <1>2, <2>1, <2>2 DEF LedgerOK
<1>4. ASSUME NEW r \in Reconcilers, Process(r) \/ Fail(r)
      PROVE  /\ \A k \in DOMAIN ledger' : ledger'[k].event # next'[s]
             /\ \A q \in Reconcilers :
                   pc'[q] = "credit" /\ next'[q] = next'[s] => q = s
  <2>1. \A q \in Reconcilers : q # r => pc'[q] = pc[q] /\ next'[q] = next[q]
    BY <1>4, LocalsFrame
  <2>2. CASE pc'[r] = "credit"
    <3>1. /\ InsertPaymentEvent(r) /\ ~Conflicts(next[r]) /\ next' = next
          /\ event[next[r]] = NoEvent /\ ledger' = ledger
      BY <1>4, <2>2, CreditEntry DEF InsertPaymentEvent, Conflicts, EventExists
    <3>2. \A k \in DOMAIN ledger : ledger[k].event # next[r]
      BY <3>1 DEF LedgerOK, NoEvent, Booking!NoEvent, Creditable, Booking!Creditable
    <3>3. ASSUME NEW q \in Reconcilers, pc[q] = "credit" PROVE next[q] # next[r]
      <4>1. Creditable(EventRow(q)) /\ event[next[q]] = EventRow(q)
        BY <3>3 DEF ProcessOK, LocalsOK
      <4>2. ~Creditable(NoEvent)
        BY DEF Creditable, Booking!Creditable, NoEvent, Booking!NoEvent
      <4>3. QED
        BY <3>1, <4>1, <4>2
    <3>4. QED
      BY <1>2, <2>1, <3>1, <3>2, <3>3 DEF LedgerOK
  <2>3. CASE pc'[r] # "credit"
    <3>1. s # r /\ pc[s] = "credit" /\ next'[s] = next[s]
      BY <1>2, <2>1, <2>3
    <3>2. \A q \in Reconcilers : pc'[q] = "credit" /\ next'[q] = next'[s] => q = s
      BY <2>1, <2>3, <3>1 DEF LedgerOK
    <3>3. CASE UNCHANGED ledger
      BY <3>1, <3>2, <3>3 DEF LedgerOK
    <3>4. CASE CommitCredit(r)
      <4>1. ledger' = Append(ledger, [invoice |-> matched[r], event |-> next[r]])
            /\ pc[r] = "credit"
        BY <3>4 DEF CommitCredit
      <4>2. next[r] # next[s]
        BY <3>1, <4>1 DEF LedgerOK
      <4>3. \A k \in DOMAIN ledger' : ledger'[k].event # next[s]
        <5> DEFINE row == [invoice |-> matched[r], event |-> next[r]]
        <5>1. /\ DOMAIN ledger' = 1..(Len(ledger) + 1)
              /\ DOMAIN ledger = 1..Len(ledger)
              /\ \A k \in DOMAIN ledger : ledger'[k] = ledger[k]
              /\ ledger'[Len(ledger) + 1] = row
          BY <4>1 DEF TypeOK
        <5>2. \A k \in DOMAIN ledger' : k \in DOMAIN ledger \/ k = Len(ledger) + 1
          BY <5>1
        <5>3. \A k \in DOMAIN ledger : ledger[k].event # next[s]
          BY <3>1 DEF LedgerOK
        <5>4. QED
          BY <4>2, <5>1, <5>2, <5>3
      <4>4. QED
        BY <3>1, <3>2, <4>3
    <3>5. UNCHANGED ledger \/ CommitCredit(r)
      BY <1>4 DEF Process, Work, dbVars, Boot, Connect, ReadBody, EndOfBody, MalformedLine,
                  Fail, CheckEvent, ScreenCached, ScreenFresh, Match, Publish,
                  SaveCursor, InsertPaymentEvent
    <3>6. QED
      BY <3>3, <3>4, <3>5
  <2>4. QED
    BY <2>2, <2>3
<1>5. QED
  BY <1>3, <1>4 DEF Next, BookingSide, Process, Others

-----------------------------------------------------------------------------
(* One instance credits an invoice once.                                    *)

\* No step makes an invoice pending.
LEMMA NeverPendingAgain ==
    ASSUME TypeOK, [Next]_vars, NEW i \in Invoices, status[i] # "pending"
    PROVE  status'[i] # "pending"
<1> USE DEF TypeOK
<1>1. CASE UNCHANGED status
  BY <1>1
<1>2. ASSUME NEW r \in Reconcilers, CommitCredit(r) PROVE status'[i] # "pending"
  BY <1>2 DEF CommitCredit, MarkPaid
<1>3. ASSUME NEW j \in Invoices, Cancel(j) PROVE status'[i] # "pending"
  BY <1>3 DEF Cancel
<1>4. ASSUME NEW due \in SUBSET Invoices, ExpireInvoices(due) \/ AutoCancelUnpaid(due)
      PROVE  status'[i] # "pending"
  BY <1>4 DEF ExpireInvoices, AutoCancelUnpaid
<1>5. \/ UNCHANGED status
      \/ \E r \in Reconcilers : CommitCredit(r)
      \/ \E j \in Invoices : Cancel(j)
      \/ \E due \in SUBSET Invoices : ExpireInvoices(due) \/ AutoCancelUnpaid(due)
  BY DEF Next, BookingSide, Work, Process, Crons, Screening, vars, dbVars, Boot, Connect, ReadBody,
         EndOfBody, MalformedLine, Fail, CheckEvent, ScreenCached, ScreenFresh,
         Match, InsertPaymentEvent, Publish, SaveCursor, Pay, AnnounceCancelled,
         AnnouncingFails, ApiLookup, ApiAnswer, CacheExpires
<1>6. QED
  BY <1>1, <1>2, <1>3, <1>4, <1>5

\* What a process holds for crediting was pending when it matched it.
LEMMA MatchedEntry ==
    ASSUME TypeOK, ProcessOK, NEW r \in Reconcilers, Process(r) \/ Fail(r),
           pc'[r] \in {"record", "credit"}
    PROVE  /\ \/ matched'[r] = None
              \/ matched'[r] \in Invoices /\ status[matched'[r]] = "pending"
              \/ matched'[r] = matched[r] /\ pc[r] = "record"
           /\ UNCHANGED <<status, ledger>>
<1> USE DEF TypeOK, Goto, dbVars
<1>1. CASE \/ Boot(r) \/ Connect(r) \/ ReadBody(r) \/ CommitCredit(r)
           \/ Publish(r) \/ SaveCursor(r)
  BY <1>1 DEF Boot, Connect, ReadBody, CommitCredit, Publish, SaveCursor, NextLine
<1>2. CASE EndOfBody(r) \/ MalformedLine(r) \/ Fail(r)
  BY <1>2 DEF EndOfBody, MalformedLine, Fail, Retry, LeaveStream
<1>3. CASE ScreenCached(r) \/ ScreenFresh(r)
  <2>1. matched[r] = None
    BY <1>3 DEF ScreenCached, ScreenFresh, ProcessOK, LocalsOK
  <2>2. QED
    BY <1>3, <2>1 DEF ScreenCached, ScreenFresh, Screened
<1>4. CASE CheckEvent(r)
  BY <1>4 DEF CheckEvent, NextLine
<1>5. CASE Match(r)
  <2>1. MatchInvoice(Current(r)) \subseteq
            {None} \cup {i \in Invoices : status[i] = "pending"}
    BY DEF MatchInvoice, PendingByMuxedId, PendingByMemo
  <2>2. QED
    BY <1>5, <2>1 DEF Match
<1>6. CASE InsertPaymentEvent(r)
  BY <1>6 DEF InsertPaymentEvent, Retry, LeaveStream
<1>7. QED
  BY <1>1, <1>2, <1>3, <1>4, <1>5, <1>6 DEF Process, Work

\* With one instance, a credited invoice never becomes pending again, and what
\* has been matched has not been credited.
LEMMA OnceStep ==
    ASSUME ConstantsAssumption, SingleInstance, TypeOK, ProcessOK, LedgerOK, OnceOK,
           [Next]_vars
    PROVE  OnceOK'
<1>1. \A k \in DOMAIN ledger : status'[ledger[k].invoice] # "pending"
  BY NeverPendingAgain, LedgerTypes DEF OnceOK
<1>2. CASE Others \/ UNCHANGED vars
  <2>1. UNCHANGED <<pc, matched>>
    BY <1>2, LocalsFrame DEF procVars
  <2>2. UNCHANGED ledger
    BY <1>2 DEF Others, Pay, Cancel, Crons, ExpireInvoices, AutoCancelUnpaid,
                AnnounceCancelled, AnnouncingFails, Screening, ApiLookup, ApiAnswer,
                CacheExpires, vars, dbVars
  <2>3. QED
    BY <1>1, <2>1, <2>2 DEF OnceOK
<1>3. ASSUME NEW r \in Reconcilers, CommitCredit(r) PROVE OnceOK'
  <2> DEFINE row == [invoice |-> matched[r], event |-> next[r]]
  <2>1. ledger' = Append(ledger, row) /\ matched[r] \in Invoices
    BY <1>3, CreditRow
  <2>2. status'[matched[r]] # "pending"
    BY <1>3, <2>1 DEF CommitCredit, MarkPaid, TypeOK
  <2>3. /\ DOMAIN ledger' = 1..(Len(ledger) + 1)
        /\ DOMAIN ledger = 1..Len(ledger)
        /\ \A k \in DOMAIN ledger : ledger'[k] = ledger[k]
        /\ ledger'[Len(ledger) + 1] = row
    BY <2>1 DEF TypeOK
  <2>4. \A k \in DOMAIN ledger' : k \in DOMAIN ledger \/ k = Len(ledger) + 1
    BY <2>3
  <2>5. \A k \in DOMAIN ledger' : status'[ledger'[k].invoice] # "pending"
    BY <1>1, <2>2, <2>3, <2>4
  <2>6. pc'[r] = "publish"
    BY <1>3 DEF CommitCredit, Goto, TypeOK
  <2>7. QED
    BY <2>5, <2>6 DEF OnceOK, SingleInstance
<1>4. ASSUME NEW r \in Reconcilers, Process(r) \/ Fail(r), ~CommitCredit(r)
      PROVE  OnceOK'
  <2>1. UNCHANGED ledger
    BY <1>4 DEF Process, Work, dbVars, Boot, Connect, ReadBody, EndOfBody, MalformedLine,
                Fail, CheckEvent, ScreenCached, ScreenFresh, Match, Publish,
                SaveCursor, InsertPaymentEvent
  <2>2. ASSUME pc'[r] \in {"record", "credit"}, NEW k \in DOMAIN ledger
        PROVE  ledger[k].invoice # matched'[r]
    <3>1. ledger[k].invoice \in Invoices /\ status[ledger[k].invoice] # "pending"
      BY LedgerTypes DEF OnceOK
    <3>2. None \notin Invoices
      BY DEF ConstantsAssumption
    <3>3. pc[r] = "record" => ledger[k].invoice # matched[r]
      BY DEF OnceOK
    <3>4. QED
      BY <1>4, <2>2, <3>1, <3>2, <3>3, MatchedEntry
  <2>3. QED
    BY <1>1, <2>1, <2>2 DEF OnceOK, SingleInstance
<1>5. QED
  BY <1>2, <1>3, <1>4 DEF Next, BookingSide, Process, Others

\* A credit never goes to an invoice that has one.
LEMMA CreditIsNew ==
    ASSUME OnceOK, NEW r \in Reconcilers, CommitCredit(r), NEW k \in DOMAIN ledger
    PROVE  ledger[k].invoice # matched[r]
BY DEF OnceOK, CommitCredit

\* Hence a new ledger entry goes to an invoice that has none.
LEMMA OncePerInvoiceStep ==
    ASSUME ConstantsAssumption, TypeOK, ProcessOK, LedgerOK, OnceOK,
           LedgerOncePerInvoice, [Next]_vars
    PROVE  LedgerOncePerInvoice'
<1>1. CASE UNCHANGED ledger
  BY <1>1 DEF LedgerOncePerInvoice
<1>2. ASSUME NEW r \in Reconcilers, CommitCredit(r) PROVE LedgerOncePerInvoice'
  <2> DEFINE row == [invoice |-> matched[r], event |-> next[r]]
  <2>1. ledger' = Append(ledger, row)
    BY <1>2, CreditRow
  <2>2. \A k \in DOMAIN ledger : ledger[k].invoice # matched[r]
    BY <1>2, CreditIsNew
  <2>3. /\ DOMAIN ledger' = 1..(Len(ledger) + 1)
        /\ DOMAIN ledger = 1..Len(ledger)
        /\ \A k \in DOMAIN ledger : ledger'[k] = ledger[k]
        /\ ledger'[Len(ledger) + 1] = row
    BY <2>1 DEF TypeOK
  <2>4. \A k \in DOMAIN ledger' : k \in DOMAIN ledger \/ k = Len(ledger) + 1
    BY <2>3
  <2>5. QED
    BY <2>2, <2>3, <2>4 DEF LedgerOncePerInvoice
<1>3. QED
  BY <1>1, <1>2, BookingWrites DEF InsertPaymentEvent

\* Every step of a single instance is a step of the abstract booking, or
\* changes nothing of it.
LEMMA BookingStep ==
    ASSUME ConstantsAssumption, TypeOK, ProcessOK, LedgerOK, OnceOK, [Next]_vars
    PROVE  [Booking!BookNext]_(Booking!bookVars)
<1>1. CASE UNCHANGED <<event, ledger>>
  BY <1>1 DEF Booking!bookVars
<1>2. ASSUME NEW r \in Reconcilers, CommitCredit(r) PROVE Booking!BookNext
  <2>1. /\ next[r] \in Tokens
        /\ event[next[r]].invoice = matched[r] /\ Creditable(event[next[r]])
        /\ \A k \in DOMAIN ledger : ledger[k].event # next[r]
        /\ ledger' = Append(ledger, [invoice |-> matched[r], event |-> next[r]])
    BY <1>2, CreditRow
  <2>2. \A k \in DOMAIN ledger : ledger[k].invoice # matched[r]
    BY <1>2, CreditIsNew
  <2>3. UNCHANGED event
    BY <1>2 DEF CommitCredit
  <2>4. Booking!Credit(next[r])
    BY <2>1, <2>2, <2>3 DEF Booking!Credit, Creditable
  <2>5. QED
    BY <2>1, <2>4 DEF Booking!BookNext
<1>3. ASSUME NEW r \in Reconcilers, InsertPaymentEvent(r), ~Conflicts(next[r])
      PROVE  Booking!BookNext
  <2>1. pc[r] = "record" /\ verdict[r] # "none"
    BY <1>3 DEF InsertPaymentEvent, ProcessOK, LocalsOK
  <2>2. next[r] \in Tokens
    BY <2>1, CurrentPayment DEF Handling
  <2>3. EventRow(r) \in Booking!EventRows
    BY <2>1 DEF TypeOK, EventRow, Booking!EventRows, Booking!Verdicts
  <2>4. /\ event[next[r]] = NoEvent
        /\ event' = [event EXCEPT ![next[r]] = EventRow(r)]
        /\ UNCHANGED ledger
    BY <1>3 DEF InsertPaymentEvent, Conflicts, EventExists
  <2>5. Booking!Book(next[r])
    BY <2>3, <2>4 DEF Booking!Book, NoEvent
  <2>6. QED
    BY <2>2, <2>5 DEF Booking!BookNext
<1>4. QED
  BY <1>1, <1>2, <1>3, BookingWrites

\* Whatever the number of instances, each ledger entry has a payment of its
\* own, recorded as paying that invoice.
THEOREM CreditsHavePayments == Spec => []LedgerOK
<1>1. Init => LedgerOK
  BY DEF Init, LedgerOK
<1>2. TypeOK /\ ProcessOK /\ LedgerOK /\ [Next]_vars => LedgerOK'
  BY ConstantsAssumption, LedgerStep
<1>3. QED
  BY <1>1, <1>2, TypeCorrect, PTL DEF Spec

\* The invariant of a single instance.
LEMMA SingleInvariant ==
    ASSUME SingleInstance
    PROVE  Spec => [](TypeOK /\ ProcessOK /\ LedgerOK /\ OnceOK)
<1>1. Init => OnceOK
  BY DEF Init, OnceOK
<1>2. TypeOK /\ ProcessOK /\ LedgerOK /\ OnceOK /\ [Next]_vars => OnceOK'
  BY ConstantsAssumption, OnceStep
<1>3. QED
  BY <1>1, <1>2, TypeCorrect, CreditsHavePayments, PTL DEF Spec

\* One reconciler never credits an invoice a second time, whatever is paid,
\* cancelled, expired, retried or replayed.
THEOREM CreditedOnce ==
    ASSUME SingleInstance
    PROVE  Spec => []LedgerOncePerInvoice
<1>1. Init => LedgerOncePerInvoice
  BY DEF Init, LedgerOncePerInvoice
<1>2. TypeOK /\ ProcessOK /\ LedgerOK /\ OnceOK /\ LedgerOncePerInvoice /\ [Next]_vars
        => LedgerOncePerInvoice'
  BY ConstantsAssumption, OncePerInvoiceStep
<1>3. QED
  BY <1>1, <1>2, SingleInvariant, PTL DEF Spec

\* One reconciler implements the abstract booking: payments are judged once,
\* and credited at most once, to an invoice that is credited at most once.
THEOREM ImplementsBooking ==
    ASSUME SingleInstance
    PROVE  Spec => BookSpec
<1>1. Init => Booking!BookInit
  BY DEF Init, Booking!BookInit, NoEvent
<1>2. TypeOK /\ ProcessOK /\ LedgerOK /\ OnceOK /\ [Next]_vars
        => [Booking!BookNext]_(Booking!bookVars)
  BY ConstantsAssumption, BookingStep
<1>3. QED
  BY <1>1, <1>2, SingleInvariant, PTL DEF Spec, BookSpec, Booking!BookSpec

-----------------------------------------------------------------------------
(* What backs a ledger entry, for any number of instances.                  *)

\* The payment p is found to be for invoice i, and has its currency.
Fits(p, i) == FoundBy(p, i) /\ SameCurrency(i, p)

\* What a process has matched fits the payment it works on, and the amount
\* agrees unless the verdict says that it does not.
MatchOK ==
    \A r \in Reconcilers :
        pc[r] \in {"record", "credit"} /\ matched[r] # None =>
            /\ Fits(Current(r), matched[r])
            /\ verdict[r] # "amount_mismatch" => AmountAgrees(matched[r], Current(r))

\* Every entry of the ledger fits its payment, in the full amount.
RowsFit ==
    \A k \in DOMAIN ledger :
        /\ Fits(horizon[ledger[k].event], ledger[k].invoice)
        /\ AmountAgrees(ledger[k].invoice, horizon[ledger[k].event])
        /\ ledger[k].event <= Len(horizon)

\* What match_invoice answers fits the payment.
LEMMA MatchFits ==
    ASSUME ConstantsAssumption, NEW p \in PaymentKinds,
           NEW i \in MatchInvoice(p), i # None
    PROVE  i \in Invoices /\ Fits(p, i)
<1>1. /\ i \in PendingByMuxedId(p) \cup PendingByMemo(p)
      /\ SameCurrency(i, p)
  BY DEF MatchInvoice
<1>2. i \in Invoices /\ FoundBy(p, i)
  BY <1>1 DEF PendingByMuxedId, PendingByMemo, FoundBy
<1>3. QED
  BY <1>1, <1>2 DEF Fits

\* The facts about a match hold on: they are made by match_invoice and used by
\* the next two steps of the same process.
LEMMA MatchStep ==
    ASSUME ConstantsAssumption, TypeOK, ProcessOK, MatchOK, [Next]_vars
    PROVE  MatchOK'
<1>1. SUFFICES ASSUME NEW s \in Reconcilers, pc'[s] \in {"record", "credit"},
                      matched'[s] # None
               PROVE  /\ Fits(Current(s)', matched'[s])
                      /\ verdict'[s] # "amount_mismatch" =>
                            AmountAgrees(matched'[s], Current(s)')
  BY DEF MatchOK, Fits, FoundBy, DecodeMuxedId, SameCurrency, AmountAgrees
<1>2. ASSUME UNCHANGED <<next[s], matched[s], verdict[s]>>, pc[s] \in {"record", "credit"}
      PROVE  /\ Fits(Current(s)', matched'[s])
             /\ verdict'[s] # "amount_mismatch" => AmountAgrees(matched'[s], Current(s)')
  <2>1. next[s] \in 1..Len(horizon)
    BY <1>2, CurrentPayment DEF Handling, Tokens
  <2>2. Current(s)' = Current(s)
    BY <1>2, <2>1, HorizonGrows DEF Current
  <2>3. QED
    BY <1>1, <1>2, <2>2 DEF MatchOK
<1>3. CASE Others \/ UNCHANGED vars
  BY <1>1, <1>2, <1>3, LocalsFrame DEF procVars
<1>4. ASSUME NEW r \in Reconcilers, Process(r) \/ Fail(r), s # r
      PROVE  /\ Fits(Current(s)', matched'[s])
             /\ verdict'[s] # "amount_mismatch" => AmountAgrees(matched'[s], Current(s)')
  BY <1>1, <1>2, <1>4, LocalsFrame
<1>5. ASSUME Process(s) \/ Fail(s)
      PROVE  /\ Fits(Current(s)', matched'[s])
             /\ verdict'[s] # "amount_mismatch" => AmountAgrees(matched'[s], Current(s)')
  <2> USE DEF TypeOK, Goto
  <2>1. CASE Match(s)
    <3>1. Current(s)' = Current(s) /\ Current(s) \in PaymentKinds
      BY <2>1, CurrentPayment DEF Match, Current, Handling
    <3>2. PICK found \in MatchInvoice(Current(s)) :
             /\ matched' = [matched EXCEPT ![s] = found]
             /\ verdict' = IF found = None \/ AmountAgrees(found, Current(s))
                           THEN verdict
                           ELSE [verdict EXCEPT ![s] = "amount_mismatch"]
      BY <2>1 DEF Match
    <3>3. found # None /\ matched'[s] = found
      BY <1>1, <3>2
    <3>4. Fits(Current(s), found)
      BY <3>1, <3>3, MatchFits
    <3>5. verdict'[s] # "amount_mismatch" => AmountAgrees(found, Current(s))
      BY <3>2, <3>3
    <3>6. QED
      BY <3>1, <3>3, <3>4, <3>5
  <2>2. CASE InsertPaymentEvent(s)
    <3>1. pc[s] = "record" /\ UNCHANGED <<next[s], matched[s], verdict[s]>>
      BY <1>1, <2>2 DEF InsertPaymentEvent, Retry, LeaveStream
    <3>2. QED
      BY <1>2, <3>1
  <2>3. CASE ScreenCached(s) \/ ScreenFresh(s)
    <3>1. matched[s] = None /\ UNCHANGED matched
      BY <2>3 DEF ScreenCached, ScreenFresh, ProcessOK, LocalsOK
    <3>2. QED
      BY <1>1, <3>1
  <2>4. CASE \/ Boot(s) \/ Connect(s) \/ ReadBody(s) \/ CommitCredit(s)
             \/ Publish(s) \/ SaveCursor(s)
    BY <1>1, <2>4 DEF Boot, Connect, ReadBody, CommitCredit, Publish, SaveCursor, NextLine
  <2>5. CASE EndOfBody(s) \/ MalformedLine(s) \/ Fail(s)
    BY <1>1, <2>5 DEF EndOfBody, MalformedLine, Fail, Retry, LeaveStream
  <2>6. CASE CheckEvent(s)
    BY <1>1, <2>6 DEF CheckEvent, NextLine
  <2>7. QED
    BY <1>5, <2>1, <2>2, <2>3, <2>4, <2>5, <2>6 DEF Process, Work
<1>6. QED
  BY <1>3, <1>4, <1>5 DEF Next, BookingSide, Process, Others

\* What an appended row adds to the ledger.
LEMMA AppendedRow ==
    ASSUME TypeOK, NEW row \in [invoice : Invoices, event : Tokens],
           ledger' = Append(ledger, row)
    PROVE  /\ \A k \in DOMAIN ledger : k \in DOMAIN ledger' /\ ledger'[k] = ledger[k]
           /\ \A k \in DOMAIN ledger' : k \in DOMAIN ledger \/ ledger'[k] = row
           /\ \E k \in DOMAIN ledger' : ledger'[k] = row
<1>1. /\ DOMAIN ledger' = 1..(Len(ledger) + 1)
      /\ DOMAIN ledger = 1..Len(ledger)
      /\ \A k \in DOMAIN ledger : ledger'[k] = ledger[k]
      /\ ledger'[Len(ledger) + 1] = row
      /\ Len(ledger) \in Nat
  BY DEF TypeOK
<1>2. \A k \in DOMAIN ledger' : k \in DOMAIN ledger \/ k = Len(ledger) + 1
  BY <1>1
<1>3. Len(ledger) + 1 \in DOMAIN ledger'
  BY <1>1
<1>4. QED
  BY <1>1, <1>2, <1>3

\* A new entry is what its process had matched.
LEMMA RowsFitStep ==
    ASSUME ConstantsAssumption, TypeOK, ProcessOK, LedgerOK, MatchOK, RowsFit, [Next]_vars
    PROVE  RowsFit'
<1>0. \A k \in DOMAIN ledger :
         /\ ledger[k].event \in 1..Len(horizon)
         /\ horizon'[ledger[k].event] = horizon[ledger[k].event]
  <2>1. Len(horizon) \in Nat /\ \A k \in DOMAIN ledger : ledger[k].event \in Tokens
    BY LedgerTypes DEF TypeOK
  <2>2. \A k \in DOMAIN ledger : ledger[k].event \in 1..Len(horizon)
    BY <2>1 DEF RowsFit, Tokens
  <2>3. QED
    BY <2>2, HorizonGrows
<1>1. \A k \in DOMAIN ledger : ledger[k].event <= Len(horizon')
  <2>1. TypeOK'
    BY TypeNext
  <2>2. Len(horizon) \in Nat /\ Len(horizon') \in Nat
    BY <2>1 DEF TypeOK
  <2>3. Len(horizon) <= Len(horizon')
    BY HorizonGrows
  <2>4. \A k \in DOMAIN ledger : ledger[k].event \in Nat /\ ledger[k].event <= Len(horizon)
    BY <1>0, <2>2
  <2>5. QED
    BY <2>2, <2>3, <2>4
<1>2. CASE UNCHANGED ledger
  <2>1. \A k \in DOMAIN ledger :
           /\ Fits(horizon'[ledger[k].event], ledger[k].invoice)
           /\ AmountAgrees(ledger[k].invoice, horizon'[ledger[k].event])
           /\ ledger[k].event <= Len(horizon')
    BY <1>0, <1>1 DEF RowsFit
  <2>2. QED
    BY <1>2, <2>1 DEF RowsFit, Fits, FoundBy, DecodeMuxedId, SameCurrency, AmountAgrees
<1>3. ASSUME NEW r \in Reconcilers, CommitCredit(r) PROVE RowsFit'
  <2> DEFINE row == [invoice |-> matched[r], event |-> next[r]]
  <2>1. /\ ledger' = Append(ledger, row) /\ row \in [invoice : Invoices, event : Tokens]
        /\ matched[r] \in Invoices
    BY <1>3, CreditRow
  <2>2. pc[r] = "credit" /\ UNCHANGED horizon
    BY <1>3 DEF CommitCredit
  <2>3. next[r] <= Len(horizon)
    BY <2>2, CurrentPayment DEF Handling
  <2>4. verdict[r] # "amount_mismatch"
    BY <2>2 DEF ProcessOK, LocalsOK, Creditable, Booking!Creditable, EventRow
  <2>5. Fits(horizon[next[r]], matched[r]) /\ AmountAgrees(matched[r], horizon[next[r]])
    BY <2>1, <2>2, <2>4 DEF MatchOK, Current, ConstantsAssumption
  <2>6. \A k \in DOMAIN ledger' : \/ k \in DOMAIN ledger /\ ledger'[k] = ledger[k]
                                  \/ ledger'[k] = row
    BY <2>1, AppendedRow
  <2>7. \A k \in DOMAIN ledger' :
           /\ Fits(horizon[ledger'[k].event], ledger'[k].invoice)
           /\ AmountAgrees(ledger'[k].invoice, horizon[ledger'[k].event])
           /\ ledger'[k].event <= Len(horizon)
    BY <2>3, <2>5, <2>6 DEF RowsFit
  <2>8. QED
    BY <2>2, <2>7 DEF RowsFit, Fits, FoundBy, DecodeMuxedId, SameCurrency, AmountAgrees
<1>4. QED
  BY <1>2, <1>3, BookingWrites DEF InsertPaymentEvent

\* With any number of instances, every ledger entry is backed by a recorded
\* payment of its own that was not blocked, was found for its invoice by the id
\* the matcher decodes, faithfully or not, or by memo, and has the invoice's
\* currency and full amount (match_invoice, process_payment).
THEOREM CreditsAreBacked == Spec => []LedgerBacked
<1>1. Init => MatchOK /\ RowsFit
  BY DEF Init, MatchOK, RowsFit
<1>2. TypeOK /\ ProcessOK /\ LedgerOK /\ MatchOK /\ RowsFit /\ [Next]_vars
        => MatchOK' /\ RowsFit'
  BY ConstantsAssumption, MatchStep, RowsFitStep
<1>3. LedgerOK /\ RowsFit => LedgerBacked
  BY DEF LedgerOK, RowsFit, LedgerBacked, Fits, SameCurrency, AmountAgrees
<1>4. QED
  BY <1>1, <1>2, <1>3, TypeCorrect, CreditsHavePayments, PTL DEF Spec

-----------------------------------------------------------------------------
(* The status, the ledger, the deliveries and the announcements agree.      *)

\* The credits for which the merchant's 'invoice.paid' is queued.
Told == {[invoice |-> d.invoice, event |-> d.event] :
            d \in {x \in deliveries : x.type = "invoice.paid"}}

CreditRows == {ledger[k] : k \in DOMAIN ledger}

Credited(i) == \E k \in DOMAIN ledger : ledger[k].invoice = i

\* BooksAgree, made inductive: no invoice is 'partial', and what a process is
\* about to publish is in the ledger.
BooksInv ==
    /\ BooksAgree
    /\ \A i \in Invoices : status[i] # "partial"
    /\ \A r \in Reconcilers : pc[r] = "publish" => LedgerOf(matched[r]) # {}

\* Only the transaction and autoCancelUnpaidInvoices queue deliveries, and only
\* the former pays.
LEMMA BooksFrame ==
    ASSUME TypeOK, [Next]_vars, \A r \in Reconcilers : ~CommitCredit(r)
    PROVE  /\ UNCHANGED ledger
           /\ \A i \in Invoices : status'[i] \in {status[i], "cancelled", "expired"}
           /\ Told' = Told
           /\ \/ UNCHANGED published
              \/ \E r \in Reconcilers : pc[r] = "publish" /\ published' = published \cup {matched[r]}
<1> USE DEF TypeOK, Told, dbVars
<1>1. ASSUME NEW r \in Reconcilers, Process(r) \/ Fail(r)
      PROVE  /\ UNCHANGED <<status, ledger, deliveries>>
             /\ \/ UNCHANGED published
                \/ pc[r] = "publish" /\ published' = published \cup {matched[r]}
  BY <1>1 DEF Process, Work, Boot, Connect, ReadBody, EndOfBody, MalformedLine, Fail,
              CheckEvent, ScreenCached, ScreenFresh, Match, InsertPaymentEvent,
              Publish, SaveCursor
<1>2. ASSUME NEW i \in Invoices, AnnounceCancelled(i)
      PROVE  UNCHANGED <<status, ledger, published>> /\ Told' = Told
  BY <1>2 DEF AnnounceCancelled
<1>3. CASE Others \/ UNCHANGED vars
  <2>1. UNCHANGED <<ledger, published>>
    BY <1>3 DEF Others, Pay, Cancel, Crons, ExpireInvoices, AutoCancelUnpaid,
                AnnounceCancelled, AnnouncingFails, Screening, ApiLookup, ApiAnswer,
                CacheExpires, vars
  <2>2. \A i \in Invoices : status'[i] \in {status[i], "cancelled", "expired"}
    BY <1>3 DEF Others, Pay, Cancel, Crons, ExpireInvoices, AutoCancelUnpaid,
                AnnounceCancelled, AnnouncingFails, Screening, ApiLookup, ApiAnswer,
                CacheExpires, vars
  <2>3. UNCHANGED deliveries \/ \E i \in Invoices : AnnounceCancelled(i)
    BY <1>3 DEF Others, Pay, Cancel, Crons, ExpireInvoices, AutoCancelUnpaid,
                AnnouncingFails, Screening, ApiLookup, ApiAnswer, CacheExpires, vars
  <2>4. QED
    BY <1>2, <2>1, <2>2, <2>3
<1>4. QED
  BY <1>1, <1>3 DEF Next, BookingSide, Process, Others

\* Two ways to say that an invoice has a credit.
LEMMA CreditedLedger == \A i : LedgerOf(i) # {} <=> Credited(i)
BY DEF LedgerOf, Credited

\* The transaction writes all of the books at once.
LEMMA BooksCommit ==
    ASSUME ConstantsAssumption, TypeOK, ProcessOK, LedgerOK, BooksInv,
           NEW r \in Reconcilers, CommitCredit(r)
    PROVE  BooksInv'
<1> DEFINE row == [invoice |-> matched[r], event |-> next[r]]
<1>1. /\ ledger' = Append(ledger, row) /\ row \in [invoice : Invoices, event : Tokens]
      /\ matched[r] \in Invoices
  BY CreditRow
<1>2. /\ \A k \in DOMAIN ledger : k \in DOMAIN ledger' /\ ledger'[k] = ledger[k]
      /\ \A k \in DOMAIN ledger' : k \in DOMAIN ledger \/ ledger'[k] = row
      /\ \E k \in DOMAIN ledger' : ledger'[k] = row
  BY <1>1, AppendedRow
<1>3. \A i : Credited(i)' <=> Credited(i) \/ i = matched[r]
  BY <1>2 DEF Credited
<1>4. /\ status' = MarkPaid(matched[r]) /\ UNCHANGED <<published, matched>>
      /\ deliveries' = deliveries \cup
            {[type |-> "invoice.paid", invoice |-> matched[r], event |-> next[r]]}
      /\ pc' = [pc EXCEPT ![r] = "publish"]
  BY DEF CommitCredit, Goto
<1>5. \A i \in Invoices : /\ i # matched[r] => status'[i] = status[i]
                          /\ status[i] # "pending" => status'[i] = status[i]
                          /\ status[matched[r]] = "pending" => status'[matched[r]] = "paid"
  BY <1>1, <1>4 DEF MarkPaid, TypeOK
<1>6. \A i \in Invoices : status'[i] # "partial"
  BY <1>1, <1>5 DEF BooksInv
<1>7. \A i \in Invoices :
         /\ status'[i] = "paid" => Credited(i)'
         /\ Credited(i)' => status'[i] \in {"paid", "expired", "cancelled"}
         /\ i \in published' => Credited(i)'
  <2>1. status[matched[r]] \in Statuses
    BY <1>1 DEF TypeOK
  <2>2. \A i \in Invoices :
           /\ status[i] = "paid" => Credited(i)
           /\ Credited(i) => status[i] \in {"paid", "expired", "cancelled"}
           /\ i \in published => Credited(i)
    BY CreditedLedger DEF BooksInv, BooksAgree
  <2>3. QED
    BY <1>1, <1>3, <1>4, <1>5, <1>6, <2>1, <2>2 DEF Statuses
<1>8. Told' = Told \cup {row}
  <2> DEFINE d0 == [type |-> "invoice.paid", invoice |-> matched[r], event |-> next[r]]
  <2>1. Told' \subseteq Told \cup {row}
    BY <1>4 DEF Told
  <2>2. Told \subseteq Told'
    BY <1>4 DEF Told
  <2>3. d0 \in deliveries' /\ d0.type = "invoice.paid" /\ d0.invoice = matched[r]
        /\ d0.event = next[r]
    BY <1>4
  <2>4. row \in Told'
    BY <2>3 DEF Told
  <2>5. QED
    BY <2>1, <2>2, <2>4
<1>9. CreditRows' = CreditRows \cup {row}
  BY <1>2 DEF CreditRows
<1>10. \A s \in Reconcilers : pc'[s] = "publish" => Credited(matched[s])'
  <2>1. \A s \in Reconcilers : pc[s] = "publish" => Credited(matched[s])
    BY CreditedLedger DEF BooksInv
  <2>2. matched' = matched /\ \A s \in Reconcilers : s # r => pc'[s] = pc[s]
    BY <1>4 DEF TypeOK
  <2>3. ASSUME NEW s \in Reconcilers, pc'[s] = "publish" PROVE Credited(matched[s])'
    <3>1. Credited(matched[s]) \/ s = r
      BY <2>1, <2>2, <2>3
    <3>2. PICK k \in DOMAIN ledger' : ledger'[k].invoice = matched[s]
      BY <1>2, <3>1 DEF Credited
    <3>3. QED
      BY <2>2, <3>2 DEF Credited
  <2>4. QED
    BY <2>3
<1>11. \A i : LedgerOf(i)' # {} <=> Credited(i)'
  BY DEF LedgerOf, Credited
<1>12. Told = CreditRows
  BY DEF BooksInv, BooksAgree, Told, CreditRows
<1>13. Told' = CreditRows'
  BY <1>8, <1>9, <1>12
<1>14. BooksAgree'
  BY <1>7, <1>11, <1>13 DEF BooksAgree, Told, CreditRows
<1>15. \A s \in Reconcilers : pc'[s] = "publish" => LedgerOf(matched[s])' # {}
  BY <1>10 DEF LedgerOf, Credited
<1>16. QED
  BY <1>6, <1>14, <1>15 DEF BooksInv

\* A process comes to publish only from its transaction.
LEMMA PublishEntry ==
    ASSUME TypeOK, NEW r \in Reconcilers, Process(r) \/ Fail(r), ~CommitCredit(r)
    PROVE  pc'[r] # "publish"
<1> USE DEF TypeOK, Goto
<1>1. CASE \/ Boot(r) \/ Connect(r) \/ ReadBody(r) \/ Match(r)
           \/ Publish(r) \/ SaveCursor(r)
  BY <1>1 DEF Boot, Connect, ReadBody, Match, Publish, SaveCursor, NextLine
<1>2. CASE EndOfBody(r) \/ MalformedLine(r) \/ Fail(r)
  BY <1>2 DEF EndOfBody, MalformedLine, Fail, Retry, LeaveStream
<1>3. CASE ScreenCached(r) \/ ScreenFresh(r)
  BY <1>3 DEF ScreenCached, ScreenFresh, Screened
<1>4. CASE CheckEvent(r)
  BY <1>4 DEF CheckEvent, NextLine
<1>5. CASE InsertPaymentEvent(r)
  BY <1>5 DEF InsertPaymentEvent, Retry, LeaveStream, AfterEvent
<1>6. QED
  BY <1>1, <1>2, <1>3, <1>4, <1>5 DEF Process, Work

\* No step makes the books disagree.
LEMMA BooksStep ==
    ASSUME ConstantsAssumption, TypeOK, ProcessOK, LedgerOK, BooksInv, [Next]_vars
    PROVE  BooksInv'
<1>1. CASE \E r \in Reconcilers : CommitCredit(r)
  BY <1>1, BooksCommit
<1>2. CASE \A r \in Reconcilers : ~CommitCredit(r)
  <2>1. /\ UNCHANGED ledger
        /\ \A i \in Invoices : status'[i] \in {status[i], "cancelled", "expired"}
        /\ Told' = Told
        /\ \/ UNCHANGED published
           \/ \E r \in Reconcilers : pc[r] = "publish" /\ published' = published \cup {matched[r]}
    BY <1>2, BooksFrame
  <2>2. \A i : LedgerOf(i)' = LedgerOf(i)
    BY <2>1 DEF LedgerOf
  <2>3. CreditRows' = CreditRows
    BY <2>1 DEF CreditRows
  <2>4. \A i \in Invoices : i \in published' => LedgerOf(i) # {}
    BY <2>1 DEF BooksInv, BooksAgree
  <2>5. \A s \in Reconcilers : pc'[s] = "publish" => LedgerOf(matched'[s]) # {}
    <3>1. CASE Others \/ UNCHANGED vars
      BY <3>1, LocalsFrame DEF procVars, BooksInv
    <3>2. ASSUME NEW r \in Reconcilers, Process(r) \/ Fail(r)
          PROVE  \A s \in Reconcilers : pc'[s] = "publish" => LedgerOf(matched'[s]) # {}
      BY <1>2, <3>2, PublishEntry, LocalsFrame DEF BooksInv
    <3>3. QED
      BY <3>1, <3>2 DEF Next, BookingSide, Process, Others
  <2>6. QED
    BY <2>1, <2>2, <2>3, <2>4, <2>5 DEF BooksInv, BooksAgree, Told, CreditRows
<1>3. QED
  BY <1>1, <1>2

\* With any number of instances, and whatever is cancelled, expired or retried
\* meanwhile: a paid invoice has a credit, a credited one is closed, each
\* credit has queued its webhooks, and nothing else is announced as paid.
THEOREM BooksAlwaysAgree == Spec => []BooksAgree
<1>1. Init => BooksInv
  <2>1. Init => LedgerOf(None) = {} /\ Told = {} /\ CreditRows = {}
    BY DEF Init, LedgerOf, Told, CreditRows
  <2>2. QED
    BY <2>1 DEF Init, BooksInv, BooksAgree, LedgerOf, Told, CreditRows
<1>2. TypeOK /\ ProcessOK /\ LedgerOK /\ BooksInv /\ [Next]_vars => BooksInv'
  BY ConstantsAssumption, BooksStep
<1>3. BooksInv => BooksAgree
  BY DEF BooksInv
<1>4. QED
  BY <1>1, <1>2, <1>3, TypeCorrect, CreditsHavePayments, PTL DEF Spec

-----------------------------------------------------------------------------
(* Lost credits are counted by the faults.                                  *)

\* Orphans are among finitely many payments.
LEMMA OrphansFinite ==
    ASSUME ConstantsAssumption
    PROVE  IsFiniteSet(Orphans) /\ Cardinality(Orphans) \in Nat
<1>1. IsFiniteSet(Tokens)
  BY FS_Interval DEF Tokens, ConstantsAssumption
<1>2. Orphans \subseteq Tokens
  BY DEF Orphans
<1>3. QED
  BY <1>1, <1>2, FS_Subset, FS_CardinalityType

\* A step makes an orphan only by failing between the two writes, and then only
\* of the payment its process works on.
LEMMA NewOrphans ==
    ASSUME ConstantsAssumption, TypeOK, ProcessOK, LedgerOK, [Next]_vars
    PROVE  \/ Orphans' \subseteq Orphans /\ faults' \in {faults, faults + 1}
           \/ /\ \E r \in Reconcilers : Orphans' \subseteq Orphans \cup {next[r]}
              /\ faults' = faults + 1
<1> USE DEF TypeOK
<1>1. \A t \in Tokens : EventExists(t) => event'[t] = event[t]
  BY EventsKept
<1>2. CASE Others \/ UNCHANGED vars
  <2>1. UNCHANGED <<pc, next>>
    BY <1>2, LocalsFrame DEF procVars
  <2>2. UNCHANGED <<event, ledger>> /\ faults' \in {faults, faults + 1}
    BY <1>2 DEF Others, Pay, Cancel, Crons, ExpireInvoices, AutoCancelUnpaid,
                AnnounceCancelled, AnnouncingFails, Screening, ApiLookup, ApiAnswer,
                CacheExpires, vars, dbVars
  <2>3. Orphans' \subseteq Orphans
    BY <2>1, <2>2 DEF Orphans, Payable, Creditable, Booking!Creditable
  <2>4. QED
    BY <2>2, <2>3
<1>3. ASSUME NEW r \in Reconcilers, Process(r) \/ Fail(r)
      PROVE  \/ Orphans' \subseteq Orphans /\ faults' \in {faults, faults + 1}
             \/ Orphans' \subseteq Orphans \cup {next[r]} /\ faults' = faults + 1
  <2>1. \A s \in Reconcilers : s # r => pc'[s] = pc[s] /\ next'[s] = next[s]
    BY <1>3, LocalsFrame
  <2>2. CASE CommitCredit(r)
    <3> HIDE DEF TypeOK
    <3>1. /\ UNCHANGED <<event, faults>>
          /\ ledger' = Append(ledger, [invoice |-> matched[r], event |-> next[r]])
          /\ [invoice |-> matched[r], event |-> next[r]] \in [invoice : Invoices, event : Tokens]
      BY <2>2, CreditRow DEF CommitCredit
    <3>2. \A k \in DOMAIN ledger : k \in DOMAIN ledger' /\ ledger'[k] = ledger[k]
      BY <3>1, AppendedRow
    <3>3. PICK k \in DOMAIN ledger' : ledger'[k] = [invoice |-> matched[r], event |-> next[r]]
      BY <3>1, AppendedRow
    <3>4. ASSUME NEW t \in Orphans' PROVE t \in Orphans
      <4>1. t \in Tokens /\ Payable(t) /\ t # next[r]
        BY <3>1, <3>3 DEF Orphans, Payable, Creditable, Booking!Creditable
      <4>2. \A j \in DOMAIN ledger : ledger[j].event # t
        BY <3>2 DEF Orphans
      <4>3. \A s \in Reconcilers : ~(pc[s] = "credit" /\ next[s] = t)
        BY <2>1, <4>1 DEF Orphans
      <4>4. QED
        BY <4>1, <4>2, <4>3 DEF Orphans
    <3>5. QED
      BY <3>1, <3>4
  <2>3. CASE InsertPaymentEvent(r)
    <3>1. /\ UNCHANGED <<faults, ledger>> /\ pc[r] = "record" /\ next[r] \in Tokens
          /\ \/ UNCHANGED event
             \/ /\ event' = [event EXCEPT ![next[r]] = EventRow(r)]
                /\ pc' = [pc EXCEPT ![r] = AfterEvent(EventRow(r))]
                /\ UNCHANGED next
      BY <2>3, CurrentPayment DEF InsertPaymentEvent, Goto, Handling
    <3>2. CASE UNCHANGED event
      BY <2>1, <3>1, <3>2 DEF Orphans, Payable, Creditable, Booking!Creditable
    <3>3. CASE /\ event' = [event EXCEPT ![next[r]] = EventRow(r)]
               /\ pc' = [pc EXCEPT ![r] = AfterEvent(EventRow(r))]
               /\ UNCHANGED next
      <4>1. ASSUME NEW t \in Orphans', t = next[r] PROVE FALSE
        <5>1. Creditable(EventRow(r))
          BY <3>1, <3>3, <4>1 DEF Orphans, Payable, Creditable, Booking!Creditable
        <5>2. pc'[r] = "credit" /\ next'[r] = t
          BY <3>3, <4>1, <5>1 DEF AfterEvent
        <5>3. QED
          BY <4>1, <5>2 DEF Orphans
      <4>2. ASSUME NEW t \in Orphans', t # next[r] PROVE t \in Orphans
        BY <2>1, <3>1, <3>3, <4>2 DEF Orphans, Payable, Creditable, Booking!Creditable
      <4>3. QED
        BY <3>1, <4>1, <4>2
    <3>4. QED
      BY <3>1, <3>2, <3>3
  <2>4. CASE Fail(r)
    <3>1. UNCHANGED <<event, ledger>> /\ faults' = faults + 1
      BY <2>4 DEF Fail, dbVars
    <3>2. Orphans' \subseteq Orphans \cup {next[r]}
      BY <2>1, <3>1 DEF Orphans, Payable, Creditable, Booking!Creditable
    <3>3. QED
      BY <3>1, <3>2
  <2>5. CASE Process(r) /\ ~CommitCredit(r) /\ ~InsertPaymentEvent(r)
    <3>1. UNCHANGED <<event, ledger, faults>> /\ pc[r] # "credit"
      BY <2>5 DEF Process, Work, dbVars, Boot, Connect, ReadBody, EndOfBody, MalformedLine,
                  CheckEvent, ScreenCached, ScreenFresh, Match, Publish, SaveCursor
    <3>2. Orphans' \subseteq Orphans
      BY <2>1, <3>1 DEF Orphans, Payable, Creditable, Booking!Creditable
    <3>3. QED
      BY <3>1, <3>2
  <2>6. QED
    BY <1>3, <2>2, <2>3, <2>4, <2>5
<1>4. QED
  BY <1>2, <1>3 DEF Next, BookingSide, Process, Others

\* Hence their number is bounded by that of the failures.
LEMMA OrphansStep ==
    ASSUME ConstantsAssumption, TypeOK, ProcessOK, LedgerOK, OrphansAreFaults, [Next]_vars
    PROVE  OrphansAreFaults'
<1>1. IsFiniteSet(Orphans) /\ Cardinality(Orphans) \in Nat /\ faults \in Nat
  BY OrphansFinite DEF TypeOK, ConstantsAssumption
<1>2. CASE Orphans' \subseteq Orphans /\ faults' \in {faults, faults + 1}
  <2>1. Cardinality(Orphans') <= Cardinality(Orphans) /\ Cardinality(Orphans') \in Nat
    BY <1>1, <1>2, FS_Subset, FS_CardinalityType
  <2>2. QED
    BY <1>1, <1>2, <2>1 DEF OrphansAreFaults
<1>3. ASSUME NEW r \in Reconcilers, Orphans' \subseteq Orphans \cup {next[r]},
             faults' = faults + 1
      PROVE  OrphansAreFaults'
  <2>0. /\ IsFiniteSet(Orphans \cup {next[r]})
        /\ Cardinality(Orphans \cup {next[r]}) \in {Cardinality(Orphans), Cardinality(Orphans) + 1}
    BY <1>1, FS_AddElement, Zenon
  <2>1. /\ IsFiniteSet(Orphans \cup {next[r]})
        /\ Cardinality(Orphans \cup {next[r]}) \in Nat
        /\ Cardinality(Orphans \cup {next[r]}) <= Cardinality(Orphans) + 1
    BY <1>1, <2>0
  <2>2. Cardinality(Orphans') <= Cardinality(Orphans \cup {next[r]})
        /\ Cardinality(Orphans') \in Nat
    BY <1>3, <2>1, FS_Subset, FS_CardinalityType
  <2>3. QED
    BY <1>1, <1>3, <2>1, <2>2 DEF OrphansAreFaults
<1>4. QED
  BY <1>2, <1>3, NewOrphans

\* With any number of instances, no more payments of cleared payers are
\* recorded and never credited than calls have failed.
THEOREM LossesAreFaults == Spec => []OrphansAreFaults
<1>1. ASSUME Init PROVE OrphansAreFaults
  <2>1. Orphans = {} /\ faults = 0
    BY <1>1 DEF Init, Orphans, Payable, Creditable, Booking!Creditable, NoEvent, Booking!NoEvent
  <2>2. Cardinality(Orphans) = 0
    BY <2>1, FS_EmptySet
  <2>3. QED
    BY <2>1, <2>2 DEF OrphansAreFaults
<1>2. TypeOK /\ ProcessOK /\ LedgerOK /\ OrphansAreFaults /\ [Next]_vars => OrphansAreFaults'
  BY ConstantsAssumption, OrphansStep
<1>3. QED
  BY <1>1, <1>2, ConstantsAssumption, TypeCorrect, CreditsHavePayments, PTL DEF Spec

-----------------------------------------------------------------------------
(* A closed invoice stays closed.                                           *)

LEMMA OutcomeKept ==
    ASSUME TypeOK, [Next]_vars, NEW i \in Invoices, status[i] \notin Active
    PROVE  status'[i] = status[i]
<1> USE DEF TypeOK, Active
<1>1. CASE UNCHANGED status
  BY <1>1
<1>2. ASSUME NEW r \in Reconcilers, CommitCredit(r) PROVE status'[i] = status[i]
  BY <1>2 DEF CommitCredit, MarkPaid
<1>3. ASSUME NEW j \in Invoices, Cancel(j) PROVE status'[i] = status[i]
  BY <1>3 DEF Cancel
<1>4. ASSUME NEW due \in SUBSET Invoices, ExpireInvoices(due) \/ AutoCancelUnpaid(due)
      PROVE  status'[i] = status[i]
  BY <1>4 DEF ExpireInvoices, AutoCancelUnpaid
<1>5. \/ UNCHANGED status
      \/ \E r \in Reconcilers : CommitCredit(r)
      \/ \E j \in Invoices : Cancel(j)
      \/ \E due \in SUBSET Invoices : ExpireInvoices(due) \/ AutoCancelUnpaid(due)
  BY DEF Next, BookingSide, Work, Process, Crons, Screening, vars, dbVars, Boot, Connect, ReadBody,
         EndOfBody, MalformedLine, Fail, CheckEvent, ScreenCached, ScreenFresh,
         Match, InsertPaymentEvent, Publish, SaveCursor, Pay, AnnounceCancelled,
         AnnouncingFails, ApiLookup, ApiAnswer, CacheExpires
<1>6. QED
  BY <1>1, <1>2, <1>3, <1>4, <1>5

\* No process reopens a paid, expired or cancelled invoice or turns one
\* outcome into another: each UPDATE of invoices.status asks for the status
\* it leaves, however many reconcilers, crons and cancellations overlap
\* (processor.rs: AND status='pending'; invoices.service.ts: status IN
\* ('pending','partial')).
THEOREM OutcomeStays == Spec => OutcomeIsFinal
<1>1. TypeOK /\ [Next]_vars
        => [\A i \in Invoices : status[i] \notin Active => status'[i] = status[i]]_status
  BY OutcomeKept
<1>2. QED
  BY <1>1, TypeCorrect, PTL DEF Spec, OutcomeIsFinal
=============================================================================
