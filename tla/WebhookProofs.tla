---------------------------- MODULE WebhookProofs ----------------------------
(***************************************************************************)
(* Proofs about WebhookDelivery, for any number of overlapping runs of the *)
(* delivery cron, of webhooks, deliveries, attempts, resets and faults.    *)
(***************************************************************************)
EXTENDS WebhookDelivery, SequenceTheorems, FiniteSetTheorems, TLAPS

-----------------------------------------------------------------------------
(* The table of deliveries.                                                *)

\* The rows there are, by their ids.
LEMMA RowIds ==
    ASSUME TableOK, MaxDeliveries \in Nat
    PROVE  /\ Len(delivery) \in Nat /\ Rows = 1..Len(delivery)
           /\ Rows \subseteq Ids
           /\ \A d \in Rows : delivery[d] \in DeliveryRows
<1>1. delivery \in Seq(DeliveryRows) /\ Len(delivery) <= MaxDeliveries
  BY DEF TableOK
<1>2. Len(delivery) \in Nat /\ Rows = 1..Len(delivery)
  BY <1>1, LenProperties DEF Rows
<1>3. QED
  BY <1>1, <1>2, ElementOfSeq DEF Ids, Rows

\* An open row with attempts left, or a final one.
GoodRow(row) ==
    row \in DeliveryRows /\ (row.status = "pending" => row.attempts < MaxAttempts)

\* Writing one row leaves the others and the ids as they are.
LEMMA WriteRow ==
    ASSUME DeliveryAssumption, TableOK, NEW d \in Rows, NEW row, GoodRow(row),
           delivery' = [delivery EXCEPT ![d] = row]
    PROVE  /\ TableOK' /\ Rows' = Rows
           /\ delivery'[d] = row
           /\ \A e \in Rows : e # d => delivery'[e] = delivery[e]
<1>1. /\ delivery \in Seq(DeliveryRows) /\ Len(delivery) <= MaxDeliveries
      /\ row \in DeliveryRows
  BY DEF TableOK, GoodRow
<1>2. d \in 1..Len(delivery) /\ Len(delivery) \in Nat /\ Rows = 1..Len(delivery)
  BY <1>1, LenProperties DEF Rows
<1>3. /\ delivery' \in Seq(DeliveryRows) /\ Len(delivery') = Len(delivery)
      /\ delivery'[d] = row
      /\ \A e \in 1..Len(delivery) : e # d => delivery'[e] = delivery[e]
  BY <1>1, <1>2, ExceptSeq
<1>4. Rows' = Rows
  BY <1>2, <1>3, LenProperties DEF Rows
<1>5. \A e \in Rows : delivery'[e].status = "pending" => delivery'[e].attempts < MaxAttempts
  BY <1>2, <1>3 DEF TableOK, GoodRow
<1>6. QED
  BY <1>1, <1>2, <1>3, <1>4, <1>5 DEF TableOK

\* An attempt leaves an open row only while there are attempts left.
LEMMA OutcomeRow ==
    ASSUME DeliveryAssumption, NEW row \in DeliveryRows,
           NEW n \in 0..(MaxAttempts - 1), NEW ok \in BOOLEAN
    PROVE  /\ GoodRow(Outcome(row, n + 1, ok))
           /\ Outcome(row, n + 1, ok).attempts = n + 1
           /\ Outcome(row, n + 1, ok).status = "delivered" => ok
           /\ Outcome(row, n + 1, ok).status = "dead" => n + 1 = MaxAttempts
<1> DEFINE status == IF ok THEN "delivered"
                     ELSE IF n + 1 >= MaxAttempts THEN "dead" ELSE "pending"
<1>1. Outcome(row, n + 1, ok)
        = [row EXCEPT !.status = status, !.attempts = n + 1,
                      !.waiting = (status = "pending")]
  BY DEF Outcome
<1>2. /\ status \in {"pending", "delivered", "dead"} /\ n + 1 \in 0..MaxAttempts
      /\ status = "pending" => n + 1 < MaxAttempts
      /\ status = "delivered" => ok
      /\ status = "dead" => n + 1 = MaxAttempts
  BY DEF DeliveryAssumption
<1>3. (status = "pending") \in BOOLEAN
  OBVIOUS
<1> HIDE DEF status
<1>4. QED
  BY <1>1, <1>2, <1>3 DEF GoodRow, DeliveryRows

\* A reset row has all its attempts left.
LEMMA ResetRowGood ==
    ASSUME DeliveryAssumption, NEW row \in DeliveryRows
    PROVE  GoodRow(ResetRow(row)) /\ ResetRow(row).attempts = 0
                                  /\ ResetRow(row).status = "pending"
<1>1. /\ 0 \in 0..MaxAttempts /\ 0 < MaxAttempts
      /\ FALSE \in BOOLEAN /\ "pending" \in {"pending", "delivered", "dead"}
  BY DEF DeliveryAssumption
<1>2. QED
  BY <1>1 DEF ResetRow, GoodRow, DeliveryRows

\* New rows are open, and come after those there are.
LEMMA AppendRows ==
    ASSUME DeliveryAssumption, TableOK,
           NEW hooks \in Seq(Hooks), Len(delivery) + Len(hooks) <= MaxDeliveries,
           delivery' = delivery \o [i \in DOMAIN hooks |-> NewRow(hooks[i])]
    PROVE  /\ TableOK' /\ Rows \subseteq Rows'
           /\ \A d \in Rows' : 
                 \/ d \in Rows /\ delivery'[d] = delivery[d]
                 \/ delivery'[d].status = "pending" /\ delivery'[d].attempts = 0
           /\ \A d \in Rows : delivery'[d] = delivery[d]
<1> DEFINE new == [i \in DOMAIN hooks |-> NewRow(hooks[i])]
<1>1. delivery \in Seq(DeliveryRows) /\ Len(delivery) \in Nat
      /\ Rows = 1..Len(delivery)
  BY RowIds DEF TableOK, DeliveryAssumption
<1>2. /\ Len(hooks) \in Nat /\ DOMAIN hooks = 1..Len(hooks)
      /\ \A i \in 1..Len(hooks) : hooks[i] \in Hooks
  BY LenProperties, ElementOfSeq
<1>3. \A h \in Hooks : /\ NewRow(h) \in DeliveryRows
                       /\ NewRow(h).status = "pending" /\ NewRow(h).attempts = 0
  BY DEF NewRow, DeliveryRows, DeliveryAssumption
<1>4. /\ new \in [1..Len(hooks) -> DeliveryRows]
      /\ \A i \in 1..Len(hooks) : new[i].status = "pending" /\ new[i].attempts = 0
  BY <1>2, <1>3
<1>5. new \in Seq(DeliveryRows) /\ Len(new) = Len(hooks)
  <2>1. new \in Seq(DeliveryRows)
    BY <1>2, <1>4, SeqDef
  <2>2. DOMAIN new = 1..Len(hooks) /\ DOMAIN new = 1..Len(new) /\ Len(new) \in Nat
    BY <1>2, <2>1, LenProperties
  <2>3. QED
    BY <1>2, <2>1, <2>2
<1> HIDE DEF new
<1>6. delivery' = delivery \o new
  BY DEF new
<1>7. /\ delivery' \in Seq(DeliveryRows)
      /\ Len(delivery') = Len(delivery) + Len(hooks)
      /\ \A d \in 1..(Len(delivery) + Len(hooks)) :
            delivery'[d] = IF d <= Len(delivery) THEN delivery[d]
                                                 ELSE new[d - Len(delivery)]
  <2>1. /\ delivery' \in Seq(DeliveryRows)
        /\ Len(delivery') = Len(delivery) + Len(new)
        /\ \A d \in 1..(Len(delivery) + Len(new)) :
              delivery'[d] = IF d <= Len(delivery) THEN delivery[d]
                                                   ELSE new[d - Len(delivery)]
    <3>1. delivery \in Seq(DeliveryRows) /\ new \in Seq(DeliveryRows)
      BY <1>1, <1>5
    <3> HIDE <1>1, <1>5
    <3>2. QED
      BY <1>6, <3>1, ConcatProperties, ZenonT(60)
  <2>2. QED
    BY <1>5, <2>1
<1>8. Rows' = 1..(Len(delivery) + Len(hooks))
  BY <1>1, <1>2, <1>7, LenProperties DEF Rows
<1>9. \A d \in Rows' : 
          \/ d \in Rows /\ delivery'[d] = delivery[d]
          \/ delivery'[d].status = "pending" /\ delivery'[d].attempts = 0
  <2> TAKE d \in Rows'
  <2>1. CASE d <= Len(delivery)
    BY <1>1, <1>2, <1>7, <1>8, <2>1
  <2>2. CASE ~(d <= Len(delivery))
    <3>1. d - Len(delivery) \in 1..Len(hooks)
      BY <1>1, <1>2, <1>8, <2>2
    <3>2. QED
      BY <1>4, <1>7, <1>8, <2>2, <3>1
  <2>3. QED
    BY <2>1, <2>2
<1>10. Rows \subseteq Rows' /\ \A d \in Rows : delivery'[d] = delivery[d]
  BY <1>1, <1>2, <1>7, <1>8
<1>11. TableOK'
  <2>1. Len(delivery') <= MaxDeliveries
    BY <1>7
  <2>2. \A d \in Rows' : delivery'[d].status = "pending" => delivery'[d].attempts < MaxAttempts
    <3>1. 0 < MaxAttempts
      BY DEF DeliveryAssumption
    <3>2. ASSUME NEW d \in Rows', delivery'[d].status = "pending"
          PROVE  delivery'[d].attempts < MaxAttempts
      <4>1. CASE d \in Rows /\ delivery'[d] = delivery[d]
        BY <3>2, <4>1 DEF TableOK
      <4>2. CASE delivery'[d].attempts = 0
        BY <3>1, <4>2
      <4>3. QED
        BY <1>9, <4>1, <4>2
    <3>3. QED
      BY <3>2
  <2>3. QED
    BY <1>7, <2>1, <2>2 DEF TableOK
<1>12. QED
  BY <1>9, <1>10, <1>11

-----------------------------------------------------------------------------
(* Type correctness, with any number of runs.                              *)

\* All of the type invariant but the table and the locals of the runs.
OthersOK ==
    /\ hook \in [Hooks -> {"absent", "active", "inactive"}]
    /\ dispatching \subseteq Hooks
    /\ posts \in [Ids -> 0..MaxAttempts]
    /\ accepted \in [Ids -> Nat]
    /\ lost \in [Ids -> 0..MaxLost]
    /\ resets \in [Ids -> 0..MaxResets]
    /\ faults \in 0..MaxFaults

LocalsOK ==
    /\ pc \in [Runs -> {"idle", "post", "answered", "caught"}]
    /\ answer \in [Runs -> {"none", "ok", "refused"}]
    /\ DOMAIN batch = Runs
    /\ \A r \in Runs : RunOK(r)

\* The parts of the type invariant.
LEMMA TypeParts ==
    /\ DeliveryTypeOK <=> TableOK /\ OthersOK /\ LocalsOK
    /\ TableOK' /\ OthersOK' /\ LocalsOK' => DeliveryTypeOK'
BY DEF DeliveryTypeOK, OthersOK, LocalsOK

\* The steps by what they write: nothing a run reads, new rows, or one row.
Elsewhere ==
    \/ \E h \in Hooks : Create(h) \/ Deactivate(h)
    \/ DispatchRead \/ DispatchFails

Extends == Emit \/ \E h \in Hooks : DispatchInsert(h)

RunStep(r) ==
    \/ Select(r) \/ Fail(r)
    \/ \E d \in DOMAIN batch[r] :
          Post(r, d) \/ Record(r, d) \/ RecordCaught(r, d) \/ RecordFails(r, d)

LEMMA DeliveryNextByWrites ==
    ASSUME DeliveryNext
    PROVE  \/ Elsewhere \/ Extends
           \/ \E d \in Rows : Reset(d) \/ BackoffEnds(d)
           \/ \E r \in Runs : RunStep(r)
BY DEF DeliveryNext, Elsewhere, Extends, RetryDead, Replay, Run, RunStep

\* What the extending steps do to the table.
LEMMA ExtendsTable ==
    ASSUME DeliveryAssumption, DeliveryTypeOK, Extends
    PROVE  /\ TableOK' /\ Rows \subseteq Rows'
           /\ \A d \in Rows' : 
                 \/ d \in Rows /\ delivery'[d] = delivery[d]
                 \/ delivery'[d].status = "pending" /\ delivery'[d].attempts = 0
           /\ \A d \in Rows : delivery'[d] = delivery[d]
<1>1. PICK hooks \in Seq(Hooks) :
          /\ Len(delivery) + Len(hooks) <= MaxDeliveries
          /\ delivery' = delivery \o [i \in DOMAIN hooks |-> NewRow(hooks[i])]
  <2>1. CASE Emit
    <3>1. PICK S \in (SUBSET Active) \ {{}} :
              /\ Len(delivery) + Cardinality(dispatching) + Cardinality(S) <= MaxDeliveries
              /\ \E hooks \in SetToSeqs(S) :
                    delivery' = delivery \o [i \in DOMAIN hooks |-> NewRow(hooks[i])]
      BY <2>1 DEF Emit
    <3>2. PICK hooks \in SetToSeqs(S) :
              delivery' = delivery \o [i \in DOMAIN hooks |-> NewRow(hooks[i])]
      BY <3>1
    <3>3. S \subseteq Hooks /\ Cardinality(S) \in Nat /\ Cardinality(dispatching) \in Nat
      BY <3>1, FS_Subset, FS_CardinalityType DEF Active, DeliveryAssumption, DeliveryTypeOK
    <3>4. hooks \in [1..Cardinality(S) -> S]
      BY <3>2 DEF SetToSeqs
    <3>5. hooks \in Seq(Hooks)
      BY <3>3, <3>4, SeqDef
    <3>6. Len(hooks) = Cardinality(S)
      <4>1. DOMAIN hooks = 1..Cardinality(S) /\ DOMAIN hooks = 1..Len(hooks)
            /\ Len(hooks) \in Nat
        BY <3>4, <3>5, LenProperties
      <4>2. QED
        BY <3>3, <4>1
    <3>7. Len(delivery) + Len(hooks) <= MaxDeliveries
      <4>1. Len(delivery) \in Nat
        BY DEF DeliveryTypeOK, TableOK
      <4>2. QED
        BY <3>1, <3>3, <3>6, <4>1 DEF DeliveryAssumption
    <3>8. QED
      BY <3>2, <3>5, <3>7
  <2>2. ASSUME NEW h \in Hooks, DispatchInsert(h)
        PROVE  \E hooks \in Seq(Hooks) :
                  /\ Len(delivery) + Len(hooks) <= MaxDeliveries
                  /\ delivery' = delivery \o [i \in DOMAIN hooks |-> NewRow(hooks[i])]
    <3> DEFINE hooks == <<h>>
    <3>1. hooks \in Seq(Hooks) /\ Len(hooks) = 1
      OBVIOUS
    <3>2. [i \in DOMAIN hooks |-> NewRow(hooks[i])] = <<NewRow(h)>>
      OBVIOUS
    <3>3. delivery' = Append(delivery, NewRow(h)) /\ Len(delivery) < MaxDeliveries
      BY <2>2 DEF DispatchInsert
    <3>4. delivery' = delivery \o <<NewRow(h)>>
      <4>1. delivery \in Seq(DeliveryRows)
        BY TypeParts DEF TableOK
      <4>2. NewRow(h) \in DeliveryRows
        BY DEF NewRow, DeliveryRows, DeliveryAssumption
      <4>3. QED
        BY <3>3, <4>1, <4>2, AppendIsConcat
    <3>5. Len(delivery) \in Nat
      BY RowIds, TypeParts DEF DeliveryAssumption
    <3>6. Len(delivery) + Len(hooks) <= MaxDeliveries
      BY <3>1, <3>3, <3>5 DEF DeliveryAssumption
    <3>7. delivery' = delivery \o [i \in DOMAIN hooks |-> NewRow(hooks[i])]
      BY <3>2, <3>4
    <3> HIDE DEF hooks
    <3>8. QED
      BY <3>1, <3>6, <3>7, Zenon
  <2>3. QED
    BY <2>1, <2>2 DEF Extends
<1>2. TableOK
  BY TypeParts
<1>3. QED
  BY <1>1, <1>2, AppendRows

\* The locals stay as they are while the table keeps its rows.
LEMMA LocalsKept ==
    ASSUME LocalsOK, Rows \subseteq Rows', UNCHANGED runVars
    PROVE  LocalsOK'
BY DEF LocalsOK, RunOK, runVars, RunAt

\* The steps outside the runs keep the types.
LEMMA DeliveryTypeOutside ==
    ASSUME DeliveryAssumption, DeliveryTypeOK,
           \/ Elsewhere \/ Extends
           \/ \E d \in Rows : Reset(d) \/ BackoffEnds(d)
    PROVE  DeliveryTypeOK'
<1>1. TableOK /\ OthersOK /\ LocalsOK
  BY TypeParts
<1>2. CASE Elsewhere
  <2>1. UNCHANGED delivery /\ UNCHANGED runVars
    BY <1>2 DEF Elsewhere, Create, Deactivate, DispatchRead, DispatchFails
  <2>2. TableOK' /\ Rows \subseteq Rows'
    BY <1>1, <2>1 DEF TableOK, Rows
  <2>3. OthersOK'
    <3>1. CASE DispatchRead
      BY <1>1, <3>1 DEF OthersOK, DispatchRead, Active, history
    <3>2. CASE DispatchFails
      BY <1>1, <3>2 DEF OthersOK, DispatchFails, history, DeliveryAssumption
    <3>3. ASSUME NEW h \in Hooks, Create(h) \/ Deactivate(h)
          PROVE  OthersOK'
      BY <1>1, <3>3 DEF OthersOK, Create, Deactivate, history
    <3>4. QED
      BY <1>2, <3>1, <3>2, <3>3 DEF Elsewhere
  <2>4. QED
    BY <1>1, <2>1, <2>2, <2>3, LocalsKept, TypeParts
<1>3. CASE Extends
  <2>1. TableOK' /\ Rows \subseteq Rows'
    BY <1>3, ExtendsTable
  <2>2. OthersOK' /\ UNCHANGED runVars
    BY <1>1, <1>3 DEF OthersOK, Extends, Emit, DispatchInsert, history
  <2>3. QED
    BY <1>1, <2>1, <2>2, LocalsKept, TypeParts
<1>4. ASSUME NEW d \in Rows, Reset(d)
      PROVE  DeliveryTypeOK'
  <2>1. delivery[d] \in DeliveryRows /\ d \in Ids
    BY <1>1, RowIds DEF DeliveryAssumption
  <2>2. TableOK' /\ Rows' = Rows
    BY <1>1, <1>4, <2>1, ResetRowGood, WriteRow DEF Reset
  <2>3. OthersOK' /\ UNCHANGED runVars
    BY <1>1, <1>4, <2>1 DEF OthersOK, Reset, DeliveryAssumption
  <2>4. QED
    BY <1>1, <2>2, <2>3, LocalsKept, TypeParts
<1>5. ASSUME NEW d \in Rows, BackoffEnds(d)
      PROVE  DeliveryTypeOK'
  <2> DEFINE row == [delivery[d] EXCEPT !.waiting = FALSE]
  <2>1. delivery[d] \in DeliveryRows
    BY <1>1, RowIds DEF DeliveryAssumption
  <2>2. GoodRow(row)
    BY <1>1, <2>1 DEF GoodRow, DeliveryRows, TableOK
  <2>3. delivery' = [delivery EXCEPT ![d] = row]
    BY <1>5 DEF BackoffEnds
  <2> HIDE DEF row
  <2>4. TableOK' /\ Rows' = Rows
    BY <1>1, <2>2, <2>3, WriteRow
  <2>5. OthersOK' /\ UNCHANGED runVars
    BY <1>1, <1>5 DEF OthersOK, BackoffEnds, history
  <2>6. QED
    BY <1>1, <2>4, <2>5, LocalsKept, TypeParts
<1>6. QED
  BY <1>2, <1>3, <1>4, <1>5

\* What the steps of a run do to the table: they write the outcome of the
\* attempt that was read, or nothing.
LEMMA RunTable ==
    ASSUME DeliveryAssumption, DeliveryTypeOK, NEW r \in Runs, RunStep(r)
    PROVE  /\ TableOK' /\ Rows' = Rows
           /\ \/ UNCHANGED delivery
              \/ \E d \in DOMAIN batch[r], ok \in BOOLEAN :
                    /\ \/ Record(r, d) \/ RecordCaught(r, d) \/ RecordFails(r, d)
                    /\ ok => RunAt(r, "answered") /\ Current(r, d) /\ answer[r] = "ok"
                    /\ delivery'[d] = Outcome(delivery[d], batch[r][d] + 1, ok)
                    /\ \A e \in Rows : e # d => delivery'[e] = delivery[e]
<1>1. TableOK /\ RunOK(r)
  BY DEF DeliveryTypeOK
<1>2. ASSUME NEW d \in DOMAIN batch[r], NEW ok \in BOOLEAN, Update(r, d, ok)
      PROVE  /\ TableOK' /\ Rows' = Rows
             /\ delivery'[d] = Outcome(delivery[d], batch[r][d] + 1, ok)
             /\ \A e \in Rows : e # d => delivery'[e] = delivery[e]
  <2>1. d \in Rows /\ batch[r][d] \in 0..(MaxAttempts - 1)
    BY <1>1 DEF RunOK
  <2>2. delivery[d] \in DeliveryRows
    BY <1>1, <2>1, RowIds DEF DeliveryAssumption
  <2>3. GoodRow(Outcome(delivery[d], batch[r][d] + 1, ok))
    BY <2>1, <2>2, OutcomeRow
  <2>4. delivery' = [delivery EXCEPT ![d] = Outcome(delivery[d], batch[r][d] + 1, ok)]
    BY <1>2 DEF Update
  <2>5. QED
    BY <1>1, <2>1, <2>3, <2>4, WriteRow
<1>3. CASE UNCHANGED delivery
  BY <1>1, <1>3 DEF TableOK, Rows
<1>4. ASSUME NEW d \in DOMAIN batch[r], Record(r, d)
      PROVE  Update(r, d, answer[r] = "ok") /\ RunAt(r, "answered") /\ Current(r, d)
  BY <1>4 DEF Record
<1>5. ASSUME NEW d \in DOMAIN batch[r], RecordFails(r, d)
      PROVE  /\ Update(r, d, answer[r] = "ok") \/ UNCHANGED delivery
             /\ RunAt(r, "answered") /\ Current(r, d)
  BY <1>5 DEF RecordFails
<1>6. ASSUME NEW d \in DOMAIN batch[r], RecordCaught(r, d)
      PROVE  Update(r, d, FALSE)
  BY <1>6 DEF RecordCaught
<1>7. (answer[r] = "ok") \in BOOLEAN /\ FALSE \in BOOLEAN
  OBVIOUS
<1>8. CASE Select(r) \/ Fail(r) \/ \E d \in DOMAIN batch[r] : Post(r, d)
  BY <1>3, <1>8 DEF Select, Fail, Post
<1>9. QED
  BY <1>2, <1>3, <1>4, <1>5, <1>6, <1>7, <1>8 DEF RunStep

\* The end of a row: the run goes on with the rest of its batch.
LEMMA NextRowLocals ==
    ASSUME LocalsOK, NEW r \in Runs, NEW d \in DOMAIN batch[r], NextRow(r, d)
    PROVE  /\ pc' = [pc EXCEPT ![r] = IF DOMAIN batch[r] = {d} THEN "idle" ELSE "post"]
           /\ answer' = [answer EXCEPT ![r] = "none"]
           /\ DOMAIN batch' = Runs
           /\ \A q \in Runs : q # r => batch'[q] = batch[q]
           /\ DOMAIN batch'[r] = DOMAIN batch[r] \ {d}
           /\ \A e \in DOMAIN batch'[r] : batch'[r][e] = batch[r][e]
<1>1. batch' = [batch EXCEPT ![r] = Restrict(batch[r], DOMAIN batch[r] \ {d})]
  BY DEF NextRow
<1>2. DOMAIN batch' = Runs /\ \A q \in Runs : q # r => batch'[q] = batch[q]
  BY <1>1 DEF LocalsOK
<1>3. batch'[r] = Restrict(batch[r], DOMAIN batch[r] \ {d})
  BY <1>1 DEF LocalsOK
<1>4. batch'[r] = [e \in DOMAIN batch[r] \ {d} |-> batch[r][e]]
  BY <1>3 DEF Restrict
<1>5. QED
  BY <1>2, <1>4 DEF NextRow, Goto

\* The locals of run r fit its next step, and those of the others are kept.
RunGoesOn(r) ==
    /\ pc' \in [Runs -> {"idle", "post", "answered", "caught"}]
    /\ answer' \in [Runs -> {"none", "ok", "refused"}]
    /\ DOMAIN batch' = Runs
    /\ DOMAIN batch'[r] \subseteq Rows
    /\ \A d \in DOMAIN batch'[r] : batch'[r][d] \in 0..(MaxAttempts - 1)
    /\ pc'[r] = "idle" <=> DOMAIN batch'[r] = {}
    /\ pc'[r] = "answered" <=> answer'[r] # "none"
    /\ \A q \in Runs : q # r => /\ batch'[q] = batch[q] /\ pc'[q] = pc[q]
                                /\ answer'[q] = answer[q]

\* A step of one run leaves the locals of the others, and its own fit the step
\* it goes to.
LEMMA LocalsRun ==
    ASSUME DeliveryAssumption, DeliveryTypeOK, NEW r \in Runs, RunStep(r)
    PROVE  LocalsOK'
<1>1. TableOK /\ LocalsOK /\ Rows' = Rows
  BY RunTable, TypeParts
<1>2. RunGoesOn(r) => LocalsOK'
  BY <1>1 DEF RunGoesOn, LocalsOK, RunOK, RunAt
<1>3. ASSUME Select(r) PROVE RunGoesOn(r)
  <2>1. PICK S \in (SUBSET DueRows) \ {{}} :
            batch' = [batch EXCEPT ![r] = [d \in S |-> delivery[d].attempts]]
    BY <1>3 DEF Select
  <2>2. \A d \in S : d \in Rows /\ delivery[d].attempts \in 0..(MaxAttempts - 1)
    <3> TAKE d \in S
    <3>1. d \in Rows /\ delivery[d].status = "pending"
      BY DEF DueRows, Due
    <3>2. delivery[d] \in DeliveryRows
      BY <1>1, <3>1, RowIds DEF DeliveryAssumption
    <3>3. delivery[d].attempts \in 0..MaxAttempts /\ delivery[d].attempts < MaxAttempts
      BY <1>1, <3>1, <3>2 DEF TableOK, DeliveryRows
    <3>4. QED
      BY <3>1, <3>3 DEF DeliveryAssumption
  <2>3. batch'[r] = [d \in S |-> delivery[d].attempts]
    BY <1>1, <2>1 DEF LocalsOK
  <2>4. pc' = [pc EXCEPT ![r] = "post"] /\ UNCHANGED answer /\ pc[r] = "idle"
    BY <1>3 DEF Select, Goto, RunAt
  <2>5. /\ DOMAIN batch' = Runs
        /\ \A q \in Runs : q # r => batch'[q] = batch[q]
    BY <1>1, <2>1 DEF LocalsOK
  <2>6. S # {} /\ DOMAIN batch'[r] = S
    BY <2>1, <2>3
  <2>7. answer[r] = "none"
    BY <1>1, <2>4 DEF LocalsOK, RunOK, RunAt
  <2>8. QED
    BY <1>1, <2>2, <2>3, <2>4, <2>5, <2>6, <2>7 DEF LocalsOK, RunGoesOn
<1>4. ASSUME Fail(r) PROVE RunGoesOn(r)
  <2>1. /\ batch' = [batch EXCEPT ![r] = NoBatch]
        /\ answer' = [answer EXCEPT ![r] = "none"]
        /\ pc' = [pc EXCEPT ![r] = "idle"]
    BY <1>4 DEF Fail, Goto
  <2>2. batch'[r] = NoBatch /\ DOMAIN NoBatch = {}
    BY <1>1, <2>1 DEF LocalsOK, NoBatch
  <2>3. QED
    BY <1>1, <2>1, <2>2 DEF LocalsOK, RunGoesOn
<1>5. ASSUME NEW d \in DOMAIN batch[r], Post(r, d) PROVE RunGoesOn(r)
  BY <1>1, <1>5 DEF LocalsOK, RunOK, Post, Goto, RunAt, RunGoesOn
<1>6. ASSUME NEW d \in DOMAIN batch[r], NextRow(r, d) PROVE RunGoesOn(r)
  <2>1. /\ pc' = [pc EXCEPT ![r] = IF DOMAIN batch[r] = {d} THEN "idle" ELSE "post"]
        /\ answer' = [answer EXCEPT ![r] = "none"]
        /\ DOMAIN batch' = Runs
        /\ \A q \in Runs : q # r => batch'[q] = batch[q]
        /\ DOMAIN batch'[r] = DOMAIN batch[r] \ {d}
        /\ \A e \in DOMAIN batch'[r] : batch'[r][e] = batch[r][e]
    BY <1>1, <1>6, NextRowLocals
  <2>2. QED
    BY <1>1, <2>1 DEF LocalsOK, RunOK, RunGoesOn
<1>7. ASSUME NEW d \in DOMAIN batch[r], RecordFails(r, d) PROVE RunGoesOn(r)
  <2>1. /\ pc' = [pc EXCEPT ![r] = "caught"] /\ pc[r] = "answered"
        /\ answer' = [answer EXCEPT ![r] = "none"] /\ UNCHANGED batch
    BY <1>7 DEF RecordFails, Goto, RunAt
  <2>2. QED
    BY <1>1, <2>1 DEF LocalsOK, RunOK, RunAt, RunGoesOn
<1>8. ASSUME NEW d \in DOMAIN batch[r], Record(r, d) \/ RecordCaught(r, d)
      PROVE  RunGoesOn(r)
  BY <1>6, <1>8 DEF Record, RecordCaught
<1>9. QED
  BY <1>2, <1>3, <1>4, <1>5, <1>7, <1>8 DEF RunStep

\* No step of a run breaks the types.
LEMMA DeliveryTypeRun ==
    ASSUME DeliveryAssumption, DeliveryTypeOK, NEW r \in Runs, RunStep(r)
    PROVE  DeliveryTypeOK'
<1>1. TableOK /\ OthersOK /\ RunOK(r)
  BY TypeParts DEF LocalsOK
<1>2. ASSUME Select(r) \/ Fail(r)
      PROVE  OthersOK'
  BY <1>1, <1>2 DEF OthersOK, Select, Fail, history, DeliveryAssumption
<1>3. ASSUME NEW d \in DOMAIN batch[r], Post(r, d)
      PROVE  OthersOK'
  <2>1. d \in Ids
    BY <1>1, RowIds DEF RunOK, DeliveryAssumption
  <2>2. posts[d] \in 0..MaxAttempts /\ accepted[d] \in Nat
    BY <1>1, <2>1 DEF OthersOK
  <2>3. posts' \in [Ids -> 0..MaxAttempts]
    BY <1>1, <1>3, <2>1, <2>2 DEF OthersOK, Post, DeliveryAssumption
  <2>4. accepted' \in [Ids -> Nat] /\ lost' \in [Ids -> 0..MaxLost]
    <3>1. accepted' = accepted \/ accepted' = [accepted EXCEPT ![d] = @ + 1]
      BY <1>3 DEF Post
    <3>2. lost' = lost \/ (lost[d] < MaxLost /\ lost' = [lost EXCEPT ![d] = @ + 1])
      BY <1>3 DEF Post
    <3>3. QED
      BY <1>1, <2>1, <2>2, <3>1, <3>2 DEF OthersOK, DeliveryAssumption
  <2>5. QED
    BY <1>1, <1>3, <2>3, <2>4 DEF OthersOK, Post
<1>4. ASSUME NEW d \in DOMAIN batch[r],
             Record(r, d) \/ RecordCaught(r, d) \/ RecordFails(r, d)
      PROVE  OthersOK'
  <2>1. UNCHANGED <<hook, dispatching, posts, accepted, lost, resets>>
    BY <1>4 DEF Record, RecordCaught, RecordFails, history
  <2>2. faults' \in 0..MaxFaults
    <3>1. faults' = faults \/ (faults < MaxFaults /\ faults' = faults + 1)
      BY <1>4 DEF Record, RecordCaught, RecordFails
    <3>2. QED
      BY <1>1, <3>1 DEF OthersOK, DeliveryAssumption
  <2>3. QED
    BY <1>1, <2>1, <2>2 DEF OthersOK
<1>5. OthersOK'
  BY <1>2, <1>3, <1>4 DEF RunStep
<1>6. QED
  BY <1>5, RunTable, LocalsRun, TypeParts

\* The tables and the runs keep their types under any interleaving of runs,
\* resets, deactivations, faults and crashes.
THEOREM DeliveryTypeCorrect == DeliverySpec => []DeliveryTypeOK
<1>1. DeliveryInit => DeliveryTypeOK
  BY DeliveryAssumption DEF DeliveryInit, DeliveryTypeOK, TableOK, RunOK, RunAt,
                            NoBatch, Rows, DeliveryAssumption
<1>2. DeliveryTypeOK /\ [DeliveryNext]_deliveryVars => DeliveryTypeOK'
  <2>1. DeliveryTypeOK /\ DeliveryNext => DeliveryTypeOK'
    BY DeliveryAssumption, DeliveryNextByWrites, DeliveryTypeOutside, DeliveryTypeRun
  <2>2. DeliveryTypeOK /\ UNCHANGED deliveryVars => DeliveryTypeOK'
    BY DEF DeliveryTypeOK, TableOK, RunOK, RunAt, Rows, deliveryVars, runVars, history
  <2>3. QED
    BY <2>1, <2>2
<1>3. QED
  BY <1>1, <1>2, PTL DEF DeliverySpec

-----------------------------------------------------------------------------
(* What the rows say of the posts that were really made.                   *)

\* The attempts of a row never exceed its posts, and a final status was earned.
RowTrue(d) ==
    /\ delivery[d].attempts <= posts[d]
    /\ delivery[d].status = "dead" => posts[d] = MaxAttempts
    /\ delivery[d].status = "delivered" => accepted[d] > 0

\* The same of the attempts a run has read, and of the attempt it is making.
ReadTrue(r, d) ==
    /\ batch[r][d] <= posts[d]
    /\ (RunAt(r, "answered") \/ RunAt(r, "caught")) /\ Current(r, d) => batch[r][d] < posts[d]
    /\ answer[r] = "ok" /\ Current(r, d) => accepted[d] > 0

HistoryOK ==
    /\ \A d \in Rows : RowTrue(d)
    /\ \A r \in Runs : \A d \in DOMAIN batch[r] : ReadTrue(r, d)

\* The steps outside the runs keep it: they make no post, and what they write
\* into a row claims none.
LEMMA HistoryOutside ==
    ASSUME DeliveryAssumption, DeliveryTypeOK, HistoryOK,
           \/ Elsewhere \/ Extends
           \/ \E d \in Rows : Reset(d) \/ BackoffEnds(d)
    PROVE  HistoryOK'
<1>1. UNCHANGED <<pc, batch, answer, posts, accepted>>
  BY DEF Elsewhere, Create, Deactivate, DispatchRead, DispatchFails, Extends, Emit,
         DispatchInsert, Reset, BackoffEnds, runVars, history
<1>2. \A r \in Runs : \A d \in DOMAIN batch'[r] : ReadTrue(r, d)'
  BY <1>1 DEF HistoryOK, ReadTrue, RunAt, Current
<1>3. TableOK /\ posts \in [Ids -> 0..MaxAttempts]
  BY DEF DeliveryTypeOK
<1>4. \A d \in Rows' :
          \/ d \in Rows /\ delivery'[d].attempts = delivery[d].attempts
                        /\ delivery'[d].status = delivery[d].status
          \/ d \in Ids /\ delivery'[d].attempts = 0 /\ delivery'[d].status = "pending"
  <2>1. CASE Elsewhere
    BY <2>1 DEF Elsewhere, Create, Deactivate, DispatchRead, DispatchFails, Rows
  <2>2. CASE Extends
    <3>1. TableOK' /\ \A d \in Rows' : 
              \/ d \in Rows /\ delivery'[d] = delivery[d]
              \/ delivery'[d].status = "pending" /\ delivery'[d].attempts = 0
      BY <2>2, ExtendsTable
    <3>2. delivery' \in Seq(DeliveryRows) /\ Len(delivery') <= MaxDeliveries
      BY <3>1 DEF TableOK
    <3>3. Rows' = 1..Len(delivery') /\ Len(delivery') \in Nat
      BY <3>2, LenProperties DEF Rows
    <3>4. Rows' \subseteq Ids
      BY <3>2, <3>3 DEF Ids, DeliveryAssumption
    <3>5. QED
      BY <3>1, <3>4
  <2>3. ASSUME NEW e \in Rows, Reset(e)
        PROVE  \A d \in Rows' :
                  \/ d \in Rows /\ delivery'[d].attempts = delivery[d].attempts
                                /\ delivery'[d].status = delivery[d].status
                  \/ d \in Ids /\ delivery'[d].attempts = 0 /\ delivery'[d].status = "pending"
    <3>1. delivery[e] \in DeliveryRows /\ e \in Ids
      BY <1>3, RowIds DEF DeliveryAssumption
    <3>2. /\ GoodRow(ResetRow(delivery[e]))
          /\ ResetRow(delivery[e]).attempts = 0 /\ ResetRow(delivery[e]).status = "pending"
      BY <3>1, ResetRowGood
    <3>3. delivery' = [delivery EXCEPT ![e] = ResetRow(delivery[e])]
      BY <2>3 DEF Reset
    <3>4. /\ Rows' = Rows /\ delivery'[e] = ResetRow(delivery[e])
          /\ \A d \in Rows : d # e => delivery'[d] = delivery[d]
      BY <1>3, <3>2, <3>3, WriteRow
    <3>5. QED
      BY <3>1, <3>2, <3>4
  <2>4. ASSUME NEW e \in Rows, BackoffEnds(e)
        PROVE  \A d \in Rows' :
                  d \in Rows /\ delivery'[d].attempts = delivery[d].attempts
                            /\ delivery'[d].status = delivery[d].status
    <3> DEFINE row == [delivery[e] EXCEPT !.waiting = FALSE]
    <3>1. delivery[e] \in DeliveryRows
      BY <1>3, RowIds DEF DeliveryAssumption
    <3>2. /\ GoodRow(row) /\ row.attempts = delivery[e].attempts
          /\ row.status = delivery[e].status
      BY <1>3, <3>1 DEF GoodRow, DeliveryRows, TableOK
    <3>3. delivery' = [delivery EXCEPT ![e] = row]
      BY <2>4 DEF BackoffEnds
    <3> HIDE DEF row
    <3>4. /\ Rows' = Rows /\ delivery'[e] = row
          /\ \A d \in Rows : d # e => delivery'[d] = delivery[d]
      BY <1>3, <3>2, <3>3, WriteRow
    <3>5. QED
      BY <3>2, <3>4
  <2>5. QED
    BY <2>1, <2>2, <2>3, <2>4
<1>5. ASSUME NEW d \in Rows' PROVE RowTrue(d)'
  <2>1. CASE /\ d \in Rows /\ delivery'[d].attempts = delivery[d].attempts
             /\ delivery'[d].status = delivery[d].status
    BY <1>1, <2>1 DEF HistoryOK, RowTrue
  <2>2. CASE d \in Ids /\ delivery'[d].attempts = 0 /\ delivery'[d].status = "pending"
    BY <1>1, <1>3, <2>2 DEF RowTrue, DeliveryAssumption
  <2>3. QED
    BY <1>4, <2>1, <2>2
<1>6. QED
  BY <1>2, <1>5 DEF HistoryOK

\* Posts and acceptances are only ever added.
LEMMA HistoryGrows ==
    ASSUME DeliveryAssumption, DeliveryTypeOK, NEW r \in Runs, RunStep(r), NEW d \in Rows
    PROVE  /\ posts[d] \in 0..MaxAttempts /\ posts'[d] \in 0..MaxAttempts
           /\ accepted[d] \in Nat /\ accepted'[d] \in Nat
           /\ posts[d] <= posts'[d] /\ accepted[d] <= accepted'[d]
<1>1. /\ d \in Ids
      /\ posts \in [Ids -> 0..MaxAttempts] /\ accepted \in [Ids -> Nat]
      /\ posts' \in [Ids -> 0..MaxAttempts] /\ accepted' \in [Ids -> Nat]
  BY RowIds, DeliveryTypeRun DEF DeliveryTypeOK, DeliveryAssumption
<1>2. \/ UNCHANGED <<posts, accepted>>
      \/ \E e \in DOMAIN batch[r] : Post(r, e)
  BY DEF RunStep, Select, Fail, Record, RecordCaught, RecordFails, history
<1>3. CASE UNCHANGED <<posts, accepted>>
  BY <1>1, <1>3 DEF DeliveryAssumption
<1>4. ASSUME NEW e \in DOMAIN batch[r], Post(r, e)
      PROVE  posts[d] <= posts'[d] /\ accepted[d] <= accepted'[d]
  <2>1. posts' = [posts EXCEPT ![e] = IF @ < MaxAttempts THEN @ + 1 ELSE @]
    BY <1>4 DEF Post
  <2>2. accepted' = [accepted EXCEPT ![e] = @ + 1] \/ accepted' = accepted
    BY <1>4 DEF Post
  <2>3. posts[d] <= posts'[d]
    BY <1>1, <2>1 DEF DeliveryAssumption
  <2>4. accepted[d] <= accepted'[d]
    BY <1>1, <2>2
  <2>5. QED
    BY <2>3, <2>4
<1>5. QED
  BY <1>1, <1>2, <1>3, <1>4

\* A run writes into a row what its attempt was.
LEMMA RowsRun ==
    ASSUME DeliveryAssumption, DeliveryTypeOK, HistoryOK, NEW r \in Runs, RunStep(r)
    PROVE  \A e \in Rows' : RowTrue(e)'
<1>1. /\ TableOK /\ RunOK(r) /\ Rows' = Rows
      /\ \A e \in Rows : delivery[e] \in DeliveryRows
  BY RunTable, RowIds DEF DeliveryTypeOK, DeliveryAssumption
<1>2. ASSUME NEW e \in Rows, delivery'[e] = delivery[e]
      PROVE  RowTrue(e)'
  <2>1. RowTrue(e) /\ delivery[e].attempts \in 0..MaxAttempts
    BY <1>1 DEF HistoryOK, DeliveryRows
  <2>2. delivery'[e].attempts <= posts'[e]
    BY <1>2, <2>1, HistoryGrows DEF RowTrue, DeliveryAssumption
  <2>3. delivery'[e].status = "dead" => posts'[e] = MaxAttempts
    BY <1>2, <2>1, HistoryGrows DEF RowTrue, DeliveryAssumption
  <2>4. delivery'[e].status = "delivered" => accepted'[e] > 0
    BY <1>2, <2>1, HistoryGrows DEF RowTrue
  <2>5. QED
    BY <2>2, <2>3, <2>4 DEF RowTrue
<1>3. ASSUME NEW d \in DOMAIN batch[r], NEW ok \in BOOLEAN,
             Record(r, d) \/ RecordCaught(r, d) \/ RecordFails(r, d),
             ok => RunAt(r, "answered") /\ Current(r, d) /\ answer[r] = "ok",
             delivery'[d] = Outcome(delivery[d], batch[r][d] + 1, ok)
      PROVE  RowTrue(d)'
  <2>1. d \in Rows /\ batch[r][d] \in 0..(MaxAttempts - 1)
    BY <1>1 DEF RunOK
  <2>2. UNCHANGED <<posts, accepted>>
    BY <1>3 DEF Record, RecordCaught, RecordFails, history
  <2>3. batch[r][d] < posts[d] /\ (ok => accepted[d] > 0)
    BY <1>3 DEF HistoryOK, ReadTrue, Record, RecordCaught, RecordFails
  <2>4. /\ delivery'[d].attempts = batch[r][d] + 1
        /\ delivery'[d].status = "delivered" => ok
        /\ delivery'[d].status = "dead" => batch[r][d] + 1 = MaxAttempts
    BY <1>1, <1>3, <2>1, OutcomeRow
  <2>5. posts[d] \in 0..MaxAttempts
    BY <2>1, HistoryGrows
  <2>6. batch[r][d] + 1 <= posts[d] /\ (batch[r][d] + 1 = MaxAttempts => posts[d] = MaxAttempts)
    BY <2>1, <2>3, <2>5 DEF DeliveryAssumption
  <2>7. QED
    BY <2>2, <2>3, <2>4, <2>6 DEF RowTrue
<1>4. QED
  <2>1. CASE UNCHANGED delivery
    BY <1>1, <1>2, <2>1
  <2>2. CASE ~UNCHANGED delivery
    <3>1. PICK d \in DOMAIN batch[r], ok \in BOOLEAN :
              /\ Record(r, d) \/ RecordCaught(r, d) \/ RecordFails(r, d)
              /\ ok => RunAt(r, "answered") /\ Current(r, d) /\ answer[r] = "ok"
              /\ delivery'[d] = Outcome(delivery[d], batch[r][d] + 1, ok)
              /\ \A e \in Rows : e # d => delivery'[e] = delivery[e]
      BY <2>2, RunTable
    <3>2. RowTrue(d)'
      BY <1>3, <3>1
    <3>3. ASSUME NEW e \in Rows, e # d PROVE RowTrue(e)'
      BY <1>2, <3>1, <3>3
    <3>4. QED
      BY <1>1, <3>2, <3>3
  <2>3. QED
    BY <2>1, <2>2

\* What a run has read stays true of its rows, and a post makes its attempt.
LEMMA ReadsRun ==
    ASSUME DeliveryAssumption, DeliveryTypeOK, HistoryOK, NEW r \in Runs, RunStep(r)
    PROVE  \A q \in Runs : \A e \in DOMAIN batch'[q] : ReadTrue(q, e)'
<1>1. TableOK /\ LocalsOK /\ RunOK(r)
  BY TypeParts DEF LocalsOK
<1>2. ASSUME NEW q \in Runs, NEW e \in DOMAIN batch[q]
      PROVE  /\ e \in Rows /\ batch[q][e] \in 0..(MaxAttempts - 1) /\ e \in Int
             /\ ReadTrue(q, e)
             /\ batch[q][e] <= posts'[e]
             /\ batch[q][e] < posts[e] => batch[q][e] < posts'[e]
             /\ accepted[e] > 0 => accepted'[e] > 0
  <2>1. e \in Rows /\ batch[q][e] \in 0..(MaxAttempts - 1) /\ ReadTrue(q, e)
    BY <1>1 DEF LocalsOK, RunOK, HistoryOK
  <2>2. e \in Int
    BY <1>1, <2>1, RowIds DEF DeliveryAssumption
  <2>3. /\ posts[e] \in 0..MaxAttempts /\ posts'[e] \in 0..MaxAttempts
        /\ accepted[e] \in Nat /\ accepted'[e] \in Nat
        /\ posts[e] <= posts'[e] /\ accepted[e] <= accepted'[e]
    BY <2>1, HistoryGrows
  <2>4. batch[q][e] <= posts[e]
    BY <2>1 DEF ReadTrue
  <2>5. QED
    BY <2>1, <2>2, <2>3, <2>4 DEF DeliveryAssumption
<1>3. ASSUME NEW q \in Runs, NEW e \in DOMAIN batch'[q], batch'[q] = batch[q],
             pc'[q] = pc[q], answer'[q] = answer[q]
      PROVE  ReadTrue(q, e)'
  BY <1>2, <1>3 DEF ReadTrue, RunAt, Current
<1>4. ASSUME NEW e \in DOMAIN batch'[r], e \in DOMAIN batch[r],
             batch'[r][e] = batch[r][e],
             pc'[r] \notin {"answered", "caught"}, answer'[r] = "none"
      PROVE  ReadTrue(r, e)'
  BY <1>2, <1>4 DEF ReadTrue, RunAt
<1>5. ASSUME Select(r), NEW e \in DOMAIN batch'[r]
      PROVE  ReadTrue(r, e)'
  <2>1. PICK S \in (SUBSET DueRows) \ {{}} :
            batch' = [batch EXCEPT ![r] = [d \in S |-> delivery[d].attempts]]
    BY <1>5 DEF Select
  <2>2. batch'[r] = [d \in S |-> delivery[d].attempts]
    BY <1>1, <2>1 DEF LocalsOK
  <2>3. e \in Rows /\ batch'[r][e] = delivery[e].attempts
    BY <1>5, <2>2 DEF DueRows
  <2>4. UNCHANGED posts /\ pc'[r] = "post" /\ answer'[r] = "none"
    BY <1>1, <1>5 DEF Select, Goto, RunAt, LocalsOK, RunOK, history
  <2>5. delivery[e].attempts <= posts[e]
    BY <2>3 DEF HistoryOK, RowTrue
  <2>6. QED
    BY <2>3, <2>4, <2>5 DEF ReadTrue, RunAt
<1>6. ASSUME NEW d \in DOMAIN batch[r], Post(r, d), NEW e \in DOMAIN batch'[r]
      PROVE  ReadTrue(r, e)'
  <2>1. UNCHANGED batch /\ Current(r, d) /\ answer[r] = "none"
    BY <1>1, <1>6 DEF Post, RunOK, RunAt, LocalsOK
  <2>2. d \in Ids /\ posts \in [Ids -> 0..MaxAttempts] /\ accepted \in [Ids -> Nat]
    BY <1>1, <1>2, RowIds DEF DeliveryTypeOK, DeliveryAssumption
  <2>3. batch[r][d] < posts'[d]
    <3>1. posts'[d] = IF posts[d] < MaxAttempts THEN posts[d] + 1 ELSE posts[d]
      BY <1>6, <2>2 DEF Post
    <3>2. batch[r][d] <= posts[d] /\ batch[r][d] \in 0..(MaxAttempts - 1)
          /\ posts[d] \in 0..MaxAttempts
      BY <1>2, <2>2 DEF ReadTrue
    <3>3. QED
      BY <3>1, <3>2 DEF DeliveryAssumption
  <2>4. answer'[r] = "ok" => accepted'[d] > 0
    <3>1. \/ accepted' = [accepted EXCEPT ![d] = @ + 1]
          \/ answer'[r] = "refused"
          \/ answer'[r] = answer[r]
      BY <1>1, <1>6 DEF Post, LocalsOK
    <3>2. QED
      BY <2>1, <2>2, <3>1
  <2>5. Current(r, e)' => e = d
    BY <1>2, <1>6, <2>1 DEF Current
  <2>6. batch'[r][e] <= posts'[e]
    BY <1>2, <2>1
  <2>7. QED
    BY <2>1, <2>3, <2>4, <2>5, <2>6 DEF ReadTrue, RunAt
<1>7. ASSUME NEW d \in DOMAIN batch[r], RecordFails(r, d), NEW e \in DOMAIN batch'[r]
      PROVE  ReadTrue(r, e)'
  <2>1. UNCHANGED batch /\ RunAt(r, "answered") /\ answer'[r] = "none"
    BY <1>1, <1>7 DEF RecordFails, LocalsOK
  <2>2. Current(r, e)' => Current(r, e)
    BY <2>1 DEF Current
  <2>3. QED
    BY <1>2, <2>1, <2>2 DEF ReadTrue
<1>8. ASSUME NEW d \in DOMAIN batch[r], Record(r, d) \/ RecordCaught(r, d),
             NEW e \in DOMAIN batch'[r]
      PROVE  ReadTrue(r, e)'
  <2>1. NextRow(r, d)
    BY <1>8 DEF Record, RecordCaught
  <2>2. /\ pc' = [pc EXCEPT ![r] = IF DOMAIN batch[r] = {d} THEN "idle" ELSE "post"]
        /\ answer' = [answer EXCEPT ![r] = "none"]
        /\ DOMAIN batch'[r] = DOMAIN batch[r] \ {d}
        /\ \A x \in DOMAIN batch'[r] : batch'[r][x] = batch[r][x]
    BY <1>1, <2>1, NextRowLocals
  <2>3. pc'[r] \notin {"answered", "caught"} /\ answer'[r] = "none"
    BY <1>1, <2>2 DEF LocalsOK
  <2>4. QED
    BY <1>4, <1>8, <2>2, <2>3
<1>9. ASSUME Fail(r), NEW e \in DOMAIN batch'[r] PROVE ReadTrue(r, e)'
  BY <1>1, <1>9 DEF Fail, LocalsOK, NoBatch
<1>10. ASSUME NEW e \in DOMAIN batch'[r] PROVE ReadTrue(r, e)'
  BY <1>5, <1>6, <1>7, <1>8, <1>9, <1>10 DEF RunStep
<1>11. \A q \in Runs : q # r => /\ batch'[q] = batch[q] /\ pc'[q] = pc[q]
                               /\ answer'[q] = answer[q]
  <2>1. CASE Select(r) \/ Fail(r)
    BY <1>1, <2>1 DEF Select, Fail, Goto, LocalsOK
  <2>2. ASSUME NEW d \in DOMAIN batch[r], Post(r, d) \/ RecordFails(r, d)
        PROVE  \A q \in Runs : q # r => /\ batch'[q] = batch[q] /\ pc'[q] = pc[q]
                                       /\ answer'[q] = answer[q]
    BY <1>1, <2>2 DEF Post, RecordFails, Goto, LocalsOK
  <2>3. ASSUME NEW d \in DOMAIN batch[r], Record(r, d) \/ RecordCaught(r, d)
        PROVE  \A q \in Runs : q # r => /\ batch'[q] = batch[q] /\ pc'[q] = pc[q]
                                       /\ answer'[q] = answer[q]
    <3>1. NextRow(r, d)
      BY <2>3 DEF Record, RecordCaught
    <3>2. QED
      BY <1>1, <3>1, NextRowLocals DEF LocalsOK
  <2>4. QED
    BY <2>1, <2>2, <2>3 DEF RunStep
<1>12. QED
  BY <1>3, <1>10, <1>11

\* The history behind the rows, in every behaviour.
LEMMA HistoryCorrect == DeliverySpec => []HistoryOK
<1>1. DeliveryInit => HistoryOK
  BY DEF DeliveryInit, HistoryOK, NoBatch, Rows
<1>2. DeliveryTypeOK /\ HistoryOK /\ [DeliveryNext]_deliveryVars => HistoryOK'
  <2>1. DeliveryTypeOK /\ HistoryOK /\ DeliveryNext => HistoryOK'
    <3> SUFFICES ASSUME DeliveryTypeOK, HistoryOK, DeliveryNext PROVE HistoryOK'
      OBVIOUS
    <3>1. ASSUME NEW r \in Runs, RunStep(r) PROVE HistoryOK'
      BY <3>1, DeliveryAssumption, RowsRun, ReadsRun DEF HistoryOK
    <3>2. QED
      BY <3>1, DeliveryAssumption, DeliveryNextByWrites, HistoryOutside
  <2>2. HistoryOK /\ UNCHANGED deliveryVars => HistoryOK'
    BY DEF HistoryOK, RowTrue, ReadTrue, RunAt, Current, Rows, deliveryVars, runVars, history
  <2>3. QED
    BY <2>1, <2>2
<1>3. QED
  BY <1>1, <1>2, DeliveryTypeCorrect, PTL DEF DeliverySpec

\* No delivery dies before MaxAttempts posts, however many runs overlap and
\* overwrite each other's attempts.
THEOREM DeadIsExhausted == DeliverySpec => []NotDeadEarly
<1>1. HistoryOK => NotDeadEarly
  BY DEF HistoryOK, RowTrue, NotDeadEarly
<1>2. QED
  BY <1>1, HistoryCorrect, PTL

\* A delivery shown as delivered has been accepted by its endpoint, however many
\* runs overlap.
THEOREM DeliveredIsAccepted == DeliverySpec => []DeliveredWasAccepted
<1>1. HistoryOK => DeliveredWasAccepted
  BY DEF HistoryOK, RowTrue, DeliveredWasAccepted
<1>2. QED
  BY <1>1, HistoryCorrect, PTL

-----------------------------------------------------------------------------
(* Repeated acceptances, when runs do not overlap.                          *)

\* The resets, the answers not heard and the faults that may explain a repetition.
Budget(d) == resets[d] + lost[d] + faults

\* Run r has the acceptance of d and has not recorded it.
Holds(r, d) == answer[r] = "ok" /\ Current(r, d)

\* A row that may still be posted has an acceptance in reserve: it is pending,
\* or in the batch, and its last acceptance is not about to be recorded.
Repostable(r, d) ==
    ~Holds(r, d) /\ (delivery[d].status = "pending" \/ d \in DOMAIN batch[r])

DuplicatesInv ==
    /\ \A d \in Ids \ Rows : accepted[d] = 0
    /\ \A d \in Rows : accepted[d] <= 1 + Budget(d)
    /\ \A r \in Runs : \A d \in Rows : Repostable(r, d) => accepted[d] <= Budget(d)

\* The numbers the invariant compares.
LEMMA Counts ==
    ASSUME DeliveryAssumption, DeliveryTypeOK
    PROVE  /\ Rows \subseteq Ids
           /\ \A d \in Ids : /\ accepted[d] \in Nat /\ resets[d] \in Nat /\ lost[d] \in Nat
                             /\ Budget(d) \in Nat
           /\ faults \in Nat
BY RowIds DEF DeliveryTypeOK, DeliveryAssumption, Budget

\* Outside the runs nothing is accepted, and a row becomes pending again only by
\* a reset.
LEMMA DuplicatesOutside ==
    ASSUME DeliveryAssumption, DeliveryTypeOK, DuplicatesInv,
           \/ Elsewhere \/ Extends
           \/ \E d \in Rows : Reset(d) \/ BackoffEnds(d)
    PROVE  DuplicatesInv'
<1>1. UNCHANGED <<pc, batch, answer, accepted>>
  BY DEF Elsewhere, Create, Deactivate, DispatchRead, DispatchFails, Extends, Emit,
         DispatchInsert, Reset, BackoffEnds, runVars, history
<1>2. DeliveryTypeOK' /\ TableOK
  BY DeliveryTypeOutside DEF DeliveryTypeOK
<1>3. /\ Rows \subseteq Ids /\ Rows' \subseteq Ids
      /\ \A d \in Ids : accepted[d] \in Nat /\ Budget(d) \in Nat /\ Budget(d)' \in Nat
  <2>1. Rows' \subseteq Ids
    <3>1. delivery' \in Seq(DeliveryRows) /\ Len(delivery') <= MaxDeliveries
      BY <1>2 DEF DeliveryTypeOK, TableOK
    <3>2. Rows' = 1..Len(delivery') /\ Len(delivery') \in Nat
      BY <3>1, LenProperties DEF Rows
    <3>3. QED
      BY <3>1, <3>2 DEF Ids, DeliveryAssumption
  <2>2. \A d \in Ids : Budget(d)' \in Nat
    BY <1>2 DEF DeliveryTypeOK, Budget, DeliveryAssumption
  <2>3. QED
    BY <2>1, <2>2, Counts
<1>4. /\ Rows \subseteq Rows'
      /\ \A d \in Ids : Budget(d) <= Budget(d)'
      /\ \A d \in Rows : \/ delivery'[d].status = delivery[d].status
                         \/ Budget(d)' = Budget(d) + 1
  <2>1. CASE Elsewhere
    <3>1. UNCHANGED <<delivery, resets, lost>> /\ faults' \in {faults, faults + 1}
      BY <2>1 DEF Elsewhere, Create, Deactivate, DispatchRead, DispatchFails, history
    <3>2. QED
      BY <3>1, Counts DEF Rows, Budget
  <2>2. CASE Extends
    <3>1. UNCHANGED <<resets, lost, faults>>
      BY <2>2 DEF Extends, Emit, DispatchInsert, history
    <3>2. QED
      BY <2>2, <3>1, Counts, ExtendsTable DEF Budget
  <2>3. ASSUME NEW e \in Rows, Reset(e)
        PROVE  /\ Rows \subseteq Rows'
               /\ \A d \in Ids : Budget(d) <= Budget(d)'
               /\ \A d \in Rows : \/ delivery'[d].status = delivery[d].status
                                  \/ Budget(d)' = Budget(d) + 1
    <3>1. delivery[e] \in DeliveryRows /\ e \in Ids
      BY <1>2, RowIds DEF DeliveryAssumption
    <3>2. delivery' = [delivery EXCEPT ![e] = ResetRow(delivery[e])]
      BY <2>3 DEF Reset
    <3>3. /\ Rows' = Rows
          /\ \A d \in Rows : d # e => delivery'[d] = delivery[d]
      BY <1>2, <3>1, <3>2, ResetRowGood, WriteRow
    <3>4. /\ resets' = [resets EXCEPT ![e] = @ + 1] /\ UNCHANGED <<lost, faults>>
          /\ resets \in [Ids -> 0..MaxResets]
      BY <2>3 DEF Reset, DeliveryTypeOK
    <3>5. \A d \in Ids : Budget(d)' = IF d = e THEN Budget(d) + 1 ELSE Budget(d)
      <4>1. \A d \in Ids : /\ resets'[d] = IF d = e THEN resets[d] + 1 ELSE resets[d]
                           /\ lost'[d] = lost[d] /\ faults' = faults
        BY <3>1, <3>4
      <4>2. QED
        BY <4>1, Counts DEF Budget
    <3>6. QED
      BY <1>3, <3>3, <3>5
  <2>4. ASSUME NEW e \in Rows, BackoffEnds(e)
        PROVE  /\ Rows \subseteq Rows'
               /\ \A d \in Ids : Budget(d) <= Budget(d)'
               /\ \A d \in Rows : delivery'[d].status = delivery[d].status
    <3>1. UNCHANGED <<resets, lost, faults>>
      BY <2>4 DEF BackoffEnds, history
    <3>2. delivery' = [delivery EXCEPT ![e] = [delivery[e] EXCEPT !.waiting = FALSE]]
      BY <2>4 DEF BackoffEnds
    <3>3. \A d \in Rows : delivery[d] \in DeliveryRows
      BY <1>2, RowIds DEF DeliveryAssumption
    <3>4. Rows' = Rows /\ \A d \in Rows : delivery'[d].status = delivery[d].status
      BY <3>2, <3>3 DEF Rows, DeliveryRows
    <3>5. QED
      BY <3>1, <3>4, Counts DEF Budget
  <2>5. QED
    BY <2>1, <2>2, <2>3, <2>4
<1>5. \A r \in Runs : \A d : Holds(r, d)' <=> Holds(r, d)
  BY <1>1 DEF Holds, Current
<1>6. \A d \in Ids \ Rows' : accepted'[d] = 0
  BY <1>1, <1>4 DEF DuplicatesInv
<1>7. ASSUME NEW d \in Rows'
      PROVE  /\ accepted'[d] <= 1 + Budget(d)'
             /\ \A r \in Runs : Repostable(r, d)' => accepted'[d] <= Budget(d)'
  <2>1. CASE d \notin Rows
    <3>1. accepted'[d] = 0
      BY <1>1, <1>3, <2>1 DEF DuplicatesInv
    <3>2. QED
      BY <1>3, <3>1
  <2>2. CASE d \in Rows
    <3>1. accepted[d] \in Nat /\ Budget(d) \in Nat /\ Budget(d)' \in Nat
          /\ Budget(d) <= Budget(d)'
      BY <1>3, <1>4, <2>2
    <3>2. accepted[d] <= 1 + Budget(d)
      BY <2>2 DEF DuplicatesInv
    <3>3. ASSUME NEW r \in Runs, Repostable(r, d)' PROVE accepted[d] <= Budget(d)'
      <4>1. CASE Budget(d)' = Budget(d) + 1
        BY <3>1, <3>2, <4>1
      <4>2. CASE delivery'[d].status = delivery[d].status
        <5>1. Repostable(r, d)
          BY <1>1, <1>5, <3>3, <4>2 DEF Repostable
        <5>2. accepted[d] <= Budget(d)
          BY <2>2, <5>1 DEF DuplicatesInv
        <5>3. QED
          BY <3>1, <5>2
      <4>3. QED
        BY <1>4, <2>2, <4>1, <4>2
    <3>4. QED
      BY <1>1, <3>1, <3>2, <3>3
  <2>3. QED
    BY <2>1, <2>2
<1>8. QED
  BY <1>6, <1>7 DEF DuplicatesInv

\* A single run posts what may be posted, and records what was accepted before
\* it reads the table again; a fault pays for one more post.
LEMMA DuplicatesRun ==
    ASSUME DeliveryAssumption, SingleRun, DeliveryTypeOK, DuplicatesInv,
           NEW r \in Runs, RunStep(r)
    PROVE  DuplicatesInv'
<1>1. /\ TableOK /\ LocalsOK /\ RunOK(r) /\ Rows' = Rows /\ \A q \in Runs : q = r
      /\ Rows \subseteq Ids /\ faults \in Nat
      /\ \A d \in Ids : /\ accepted[d] \in Nat /\ resets[d] \in Nat /\ lost[d] \in Nat
                        /\ Budget(d) \in Nat
  BY TypeParts, RunTable, Counts DEF LocalsOK, SingleRun
<1>2. ASSUME \A d \in Ids : accepted'[d] = accepted[d] /\ Budget(d)' = Budget(d) + 1
      PROVE  DuplicatesInv'
  BY <1>1, <1>2 DEF DuplicatesInv
<1>3. ASSUME UNCHANGED <<accepted, lost, resets, faults>>,
             \A d \in Rows : Repostable(r, d)' => Repostable(r, d)
      PROVE  DuplicatesInv'
  BY <1>1, <1>3 DEF DuplicatesInv, Budget
<1>4. CASE Select(r)
  <2>1. PICK S \in (SUBSET DueRows) \ {{}} :
            batch' = [batch EXCEPT ![r] = [d \in S |-> delivery[d].attempts]]
    BY <1>4 DEF Select
  <2>2. DOMAIN batch'[r] = S /\ answer[r] = "none"
    BY <1>1, <1>4, <2>1 DEF LocalsOK, Select, RunOK, RunAt
  <2>3. \A d \in S : delivery[d].status = "pending"
    BY DEF DueRows, Due
  <2>4. UNCHANGED <<delivery, accepted, lost, resets, faults>>
    BY <1>4 DEF Select, history
  <2>5. \A d \in Rows : Repostable(r, d)' => Repostable(r, d)
    BY <2>2, <2>3, <2>4 DEF Repostable, Holds
  <2>6. QED
    BY <1>3, <2>4, <2>5
<1>5. CASE Fail(r)
  <2>1. UNCHANGED <<accepted, lost, resets>> /\ faults' = faults + 1
    BY <1>5 DEF Fail, history
  <2>2. QED
    BY <1>1, <1>2, <2>1 DEF Budget
<1>6. ASSUME NEW d \in DOMAIN batch[r], RecordFails(r, d) PROVE DuplicatesInv'
  <2>1. UNCHANGED <<accepted, lost, resets>> /\ faults' = faults + 1
    BY <1>6 DEF RecordFails, history
  <2>2. QED
    BY <1>1, <1>2, <2>1 DEF Budget
<1>7. ASSUME NEW d \in DOMAIN batch[r], Record(r, d) \/ RecordCaught(r, d)
      PROVE  DuplicatesInv'
  <2>1. /\ NextRow(r, d) /\ Current(r, d) /\ UNCHANGED <<accepted, lost, resets, faults>>
        /\ d \in Rows
    BY <1>1, <1>7 DEF Record, RecordCaught, history, RunOK
  <2>2. /\ answer' = [answer EXCEPT ![r] = "none"]
        /\ DOMAIN batch'[r] = DOMAIN batch[r] \ {d}
    BY <1>1, <2>1, NextRowLocals
  <2>3. /\ \A e \in Rows : e # d => delivery'[e] = delivery[e]
        /\ Holds(r, d) => delivery'[d].status = "delivered"
    <3>1. delivery[d] \in DeliveryRows /\ batch[r][d] \in 0..(MaxAttempts - 1)
      BY <1>1, <2>1, RowIds DEF RunOK, DeliveryAssumption
    <3>2. ASSUME NEW ok \in BOOLEAN, Update(r, d, ok)
          PROVE  /\ \A e \in Rows : e # d => delivery'[e] = delivery[e]
                 /\ delivery'[d] = Outcome(delivery[d], batch[r][d] + 1, ok)
      <4>1. GoodRow(Outcome(delivery[d], batch[r][d] + 1, ok))
        BY <3>1, OutcomeRow
      <4>2. delivery' = [delivery EXCEPT ![d] = Outcome(delivery[d], batch[r][d] + 1, ok)]
        BY <3>2 DEF Update
      <4>3. QED
        BY <1>1, <2>1, <4>1, <4>2, WriteRow
    <3>3. CASE Record(r, d)
      <4>1. Update(r, d, answer[r] = "ok") /\ (answer[r] = "ok") \in BOOLEAN
        BY <3>3 DEF Record
      <4>2. Holds(r, d) => Outcome(delivery[d], batch[r][d] + 1, answer[r] = "ok").status = "delivered"
        BY <3>1 DEF Holds, Outcome, DeliveryRows
      <4>3. QED
        BY <3>2, <4>1, <4>2
    <3>4. CASE RecordCaught(r, d)
      <4>1. Update(r, d, FALSE) /\ answer[r] = "none"
        BY <1>1, <3>4 DEF RecordCaught, RunOK, RunAt, LocalsOK
      <4>2. ~Holds(r, d)
        BY <4>1 DEF Holds
      <4>3. QED
        BY <3>2, <4>1, <4>2
    <3>5. QED
      BY <1>7, <3>3, <3>4
  <2>4. \A e \in Rows : Repostable(r, e)' => Repostable(r, e)
    <3>1. ASSUME NEW e \in Rows, e # d, Repostable(r, e)' PROVE Repostable(r, e)
      <4>1. ~Current(r, e)
        BY <1>1, <2>1, <3>1 DEF Current, Ids
      <4>2. QED
        BY <2>2, <2>3, <3>1, <4>1 DEF Repostable, Holds
    <3>2. Repostable(r, d)' => Repostable(r, d)
      BY <2>2, <2>3 DEF Repostable
    <3>3. QED
      BY <3>1, <3>2
  <2>5. QED
    BY <1>3, <2>1, <2>4
<1>8. ASSUME NEW d \in DOMAIN batch[r], Post(r, d) PROVE DuplicatesInv'
  <2>1. /\ UNCHANGED <<delivery, batch, resets, faults>> /\ Current(r, d)
        /\ answer[r] = "none" /\ d \in Rows
    BY <1>1, <1>8 DEF Post, RunOK, RunAt, LocalsOK
  <2>2. \A e \in Rows : ~Holds(r, e) /\ (Current(r, e) => e = d)
    <3>1. \A e \in DOMAIN batch[r] : e \in Int
      <4>1. DOMAIN batch[r] \subseteq Ids
        BY <1>1 DEF RunOK
      <4>2. Ids \subseteq Int
        BY DEF Ids
      <4>3. QED
        BY <4>1, <4>2
    <3>2. \A e \in DOMAIN batch[r] : Current(r, e) => e = d
      BY <2>1, <3>1 DEF Current
    <3>3. QED
      BY <2>1, <3>2 DEF Holds, Current
  <2>3. CASE UNCHANGED <<accepted, lost>>
    <3>1. \A e \in Rows : Repostable(r, e)' => Repostable(r, e)
      BY <2>1, <2>2 DEF Repostable
    <3>2. QED
      BY <1>3, <2>1, <2>3, <3>1
  <2>4. CASE /\ answer' = [answer EXCEPT ![r] = "ok"] /\ UNCHANGED lost
             /\ accepted' = [accepted EXCEPT ![d] = @ + 1]
    <3>1. accepted[d] <= Budget(d)
      BY <1>1, <2>1, <2>2 DEF DuplicatesInv, Repostable
    <3>2. Holds(r, d)'
      BY <1>1, <2>1, <2>4 DEF Holds, Current, LocalsOK
    <3>3. /\ accepted'[d] = accepted[d] + 1
          /\ \A e \in Ids : e # d => accepted'[e] = accepted[e]
      BY <1>1, <2>1, <2>4 DEF DeliveryTypeOK
    <3>4. \A e \in Rows : e # d => (Repostable(r, e)' => Repostable(r, e))
      BY <2>1, <2>2 DEF Repostable
    <3>5. \A e \in Ids : Budget(e)' = Budget(e)
      BY <2>1, <2>4 DEF Budget
    <3>6. \A e \in Rows : accepted'[e] <= 1 + Budget(e)
      BY <1>1, <3>1, <3>3 DEF DuplicatesInv
    <3>7. \A e \in Rows : Repostable(r, e)' => accepted'[e] <= Budget(e)
      BY <1>1, <3>2, <3>3, <3>4 DEF DuplicatesInv, Repostable
    <3>8. \A e \in Ids \ Rows : accepted'[e] = 0
      BY <2>1, <3>3 DEF DuplicatesInv
    <3>9. QED
      BY <1>1, <3>5, <3>6, <3>7, <3>8 DEF DuplicatesInv
  <2>5. CASE /\ UNCHANGED answer
             /\ accepted' = [accepted EXCEPT ![d] = @ + 1] /\ lost' = [lost EXCEPT ![d] = @ + 1]
    <3>1. /\ \A e \in Ids : IF e = d THEN accepted'[e] = accepted[e] + 1 /\ lost'[e] = lost[e] + 1
                            ELSE accepted'[e] = accepted[e] /\ lost'[e] = lost[e]
      BY <2>5, TypeParts DEF OthersOK
    <3>2. \A e \in Ids : Budget(e)' = IF e = d THEN Budget(e) + 1 ELSE Budget(e)
      <4>1. \A e \in Ids : /\ lost'[e] = IF e = d THEN lost[e] + 1 ELSE lost[e]
                           /\ resets'[e] = resets[e] /\ faults' = faults
        BY <2>1, <3>1
      <4>2. QED
        BY <1>1, <4>1 DEF Budget
    <3>3. \A e \in Rows : Repostable(r, e)' => Repostable(r, e)
      BY <2>1, <2>2 DEF Repostable
    <3>4. \A e \in Rows : /\ accepted'[e] <= 1 + Budget(e)'
                          /\ Repostable(r, e) => accepted'[e] <= Budget(e)'
      BY <1>1, <3>1, <3>2 DEF DuplicatesInv
    <3>5. \A e \in Ids \ Rows : accepted'[e] = 0
      BY <2>1, <3>1 DEF DuplicatesInv
    <3>6. QED
      BY <1>1, <3>3, <3>4, <3>5 DEF DuplicatesInv
  <2>6. QED
    BY <1>8, <2>3, <2>4, <2>5 DEF Post
<1>9. QED
  BY <1>4, <1>5, <1>6, <1>7, <1>8 DEF RunStep

\* Where runs do not overlap, an endpoint accepts a delivery once, and once more
\* for each retry or replay of it, each acceptance the worker did not hear of
\* and each fault.
THEOREM RepetitionsAreExplained ==
    ASSUME SingleRun
    PROVE  DeliverySpec => []DuplicatesExplained
<1>1. DeliveryInit => DuplicatesInv
  BY DEF DeliveryInit, DuplicatesInv, Rows, Ids
<1>2. DeliveryTypeOK /\ DuplicatesInv /\ [DeliveryNext]_deliveryVars => DuplicatesInv'
  <2>1. DeliveryTypeOK /\ DuplicatesInv /\ DeliveryNext => DuplicatesInv'
    BY DeliveryAssumption, DeliveryNextByWrites, DuplicatesOutside, DuplicatesRun
  <2>2. DuplicatesInv /\ UNCHANGED deliveryVars => DuplicatesInv'
    BY DEF DuplicatesInv, Repostable, Holds, Budget, Current, Rows, deliveryVars,
           runVars, history
  <2>3. QED
    BY <2>1, <2>2
<1>3. ASSUME DeliveryTypeOK, DuplicatesInv PROVE DuplicatesExplained
  <2>1. \A d \in Rows : accepted[d] <= 1 + (resets[d] + lost[d] + faults)
    BY <1>3 DEF DuplicatesInv, Budget
  <2>2. \A d \in Rows : /\ resets[d] \in Nat /\ lost[d] \in Nat
                         /\ faults \in Nat /\ accepted[d] \in Nat
    BY <1>3, Counts, DeliveryAssumption
  <2>3. QED
    BY <2>1, <2>2 DEF DuplicatesExplained
<1>4. QED
  BY <1>1, <1>2, <1>3, DeliveryTypeCorrect, PTL DEF DeliverySpec

-----------------------------------------------------------------------------
(* Final deliveries, when runs do not overlap.                              *)

\* What a run still has to handle is pending, but for the row whose UPDATE may
\* have taken effect before it was reported as failed.
BatchPending ==
    \A r \in Runs : \A d \in DOMAIN batch[r] :
        delivery[d].status = "pending" \/ (RunAt(r, "caught") /\ Current(r, d))

\* Outside the runs, only a reset changes the status of a row, to pending.
LEMMA StatusOutside ==
    ASSUME DeliveryAssumption, DeliveryTypeOK,
           \/ Elsewhere \/ Extends
           \/ \E d \in Rows : Reset(d) \/ BackoffEnds(d),
           NEW d \in Rows
    PROVE  \/ delivery'[d].status = delivery[d].status
           \/ delivery'[d].status = "pending" /\ resets'[d] > resets[d]
<1>1. TableOK /\ d \in Ids /\ \A e \in Rows : delivery[e] \in DeliveryRows
  BY RowIds, TypeParts DEF DeliveryAssumption
<1>2. CASE Elsewhere
  BY <1>2 DEF Elsewhere, Create, Deactivate, DispatchRead, DispatchFails
<1>3. CASE Extends
  BY <1>3, ExtendsTable
<1>4. ASSUME NEW e \in Rows, Reset(e)
      PROVE  \/ delivery'[d].status = delivery[d].status
             \/ delivery'[d].status = "pending" /\ resets'[d] > resets[d]
  <2>1. delivery' = [delivery EXCEPT ![e] = ResetRow(delivery[e])]
    BY <1>4 DEF Reset
  <2>2. /\ delivery'[e] = ResetRow(delivery[e])
        /\ \A c \in Rows : c # e => delivery'[c] = delivery[c]
    BY <1>1, <2>1, ResetRowGood, WriteRow
  <2>3. ResetRow(delivery[e]).status = "pending"
    BY <1>1, ResetRowGood
  <2>4. d = e => resets'[d] > resets[d]
    BY <1>1, <1>4 DEF Reset, DeliveryTypeOK, DeliveryAssumption
  <2>5. QED
    BY <2>2, <2>3, <2>4
<1>5. ASSUME NEW e \in Rows, BackoffEnds(e) PROVE delivery'[d].status = delivery[d].status
  <2>1. delivery' = [delivery EXCEPT ![e] = [delivery[e] EXCEPT !.waiting = FALSE]]
    BY <1>5 DEF BackoffEnds
  <2>2. QED
    BY <1>1, <2>1 DEF Rows, DeliveryRows
<1>6. QED
  BY <1>2, <1>3, <1>4, <1>5

LEMMA BatchPendingOutside ==
    ASSUME DeliveryAssumption, DeliveryTypeOK, BatchPending,
           \/ Elsewhere \/ Extends
           \/ \E d \in Rows : Reset(d) \/ BackoffEnds(d)
    PROVE  BatchPending'
<1>1. UNCHANGED <<pc, batch>>
  BY DEF Elsewhere, Create, Deactivate, DispatchRead, DispatchFails, Extends, Emit,
         DispatchInsert, Reset, BackoffEnds, runVars
<1>2. \A r \in Runs : DOMAIN batch[r] \subseteq Rows
  BY DEF DeliveryTypeOK, RunOK
<1>3. \A r \in Runs : \A d \in DOMAIN batch[r] :
         delivery'[d].status = delivery[d].status \/ delivery'[d].status = "pending"
  BY <1>2, StatusOutside
<1>4. QED
  BY <1>1, <1>3 DEF BatchPending, RunAt, Current

LEMMA BatchPendingRun ==
    ASSUME DeliveryAssumption, SingleRun, DeliveryTypeOK, BatchPending,
           NEW r \in Runs, RunStep(r)
    PROVE  BatchPending'
<1>1. /\ LocalsOK /\ DOMAIN batch[r] \subseteq Rows /\ \A q \in Runs : q = r
      /\ \A d \in DOMAIN batch[r] : d \in Int
  <2>1. LocalsOK /\ TableOK /\ RunOK(r)
    BY TypeParts DEF LocalsOK
  <2>2. Rows \subseteq Int
    BY <2>1, RowIds DEF DeliveryAssumption
  <2>3. QED
    BY <2>1, <2>2 DEF RunOK, SingleRun
<1>2. CASE Select(r)
  <2>1. PICK S \in (SUBSET DueRows) \ {{}} :
            batch' = [batch EXCEPT ![r] = [d \in S |-> delivery[d].attempts]]
    BY <1>2 DEF Select
  <2>2. DOMAIN batch'[r] = S /\ delivery' = delivery
    BY <1>1, <1>2, <2>1 DEF LocalsOK, Select
  <2>3. QED
    BY <1>1, <2>2 DEF BatchPending, DueRows, Due
<1>3. CASE Fail(r)
  <2>1. DOMAIN batch'[r] = {}
    BY <1>1, <1>3 DEF Fail, LocalsOK, NoBatch
  <2>2. QED
    BY <1>1, <2>1 DEF BatchPending
<1>4. ASSUME NEW d \in DOMAIN batch[r], Post(r, d) PROVE BatchPending'
  <2>1. delivery' = delivery /\ batch' = batch /\ ~RunAt(r, "caught")
    BY <1>4 DEF Post, RunAt
  <2>2. QED
    BY <1>1, <2>1 DEF BatchPending
<1>5. ASSUME NEW d \in DOMAIN batch[r], Current(r, d)
      PROVE  \A e \in DOMAIN batch[r] \ {d} : delivery[e].status = "pending"
  <2>1. \A e \in DOMAIN batch[r] \ {d} : ~Current(r, e)
    BY <1>1, <1>5 DEF Current
  <2>2. QED
    BY <2>1 DEF BatchPending
<1>6. ASSUME NEW d \in DOMAIN batch[r], NEW ok \in BOOLEAN, Update(r, d, ok)
      PROVE  \A e \in DOMAIN batch[r] \ {d} : delivery'[e] = delivery[e]
  <2>1. TableOK /\ delivery[d] \in DeliveryRows /\ batch[r][d] \in 0..(MaxAttempts - 1)
    BY <1>1, RowIds, TypeParts DEF RunOK, LocalsOK, DeliveryAssumption
  <2>2. GoodRow(Outcome(delivery[d], batch[r][d] + 1, ok))
    BY <2>1, OutcomeRow
  <2>3. delivery' = [delivery EXCEPT ![d] = Outcome(delivery[d], batch[r][d] + 1, ok)]
    BY <1>6 DEF Update
  <2>4. QED
    BY <1>1, <2>1, <2>2, <2>3, WriteRow
<1>7. (answer[r] = "ok") \in BOOLEAN /\ FALSE \in BOOLEAN
  OBVIOUS
<1>8. ASSUME NEW d \in DOMAIN batch[r], Record(r, d) \/ RecordCaught(r, d)
      PROVE  BatchPending'
  <2>1. DOMAIN batch'[r] = DOMAIN batch[r] \ {d} /\ Current(r, d)
    BY <1>1, <1>8, NextRowLocals DEF Record, RecordCaught
  <2>2. \A e \in DOMAIN batch[r] \ {d} : delivery'[e] = delivery[e]
    BY <1>6, <1>7, <1>8 DEF Record, RecordCaught
  <2>3. QED
    BY <1>1, <1>5, <2>1, <2>2 DEF BatchPending
<1>9. ASSUME NEW d \in DOMAIN batch[r], RecordFails(r, d) PROVE BatchPending'
  <2>1. batch' = batch /\ Current(r, d) /\ pc' = [pc EXCEPT ![r] = "caught"]
    BY <1>9 DEF RecordFails, Goto
  <2>2. \A e \in DOMAIN batch[r] \ {d} : delivery'[e] = delivery[e]
    BY <1>6, <1>7, <1>9 DEF RecordFails
  <2>3. Current(r, d)' /\ RunAt(r, "caught")'
    BY <1>1, <2>1 DEF Current, RunAt, LocalsOK
  <2>4. QED
    BY <1>1, <1>5, <2>1, <2>2, <2>3 DEF BatchPending
<1>10. QED
  BY <1>2, <1>3, <1>4, <1>8, <1>9 DEF RunStep

\* Where runs do not overlap, a delivered or dead delivery is given another
\* status by a retry or a replay, or by the catch of the run whose own UPDATE
\* took effect and was reported as failed (webhook-delivery.worker.ts deliver:
\* both UPDATEs are by id alone).
THEOREM FinalStays ==
    ASSUME SingleRun
    PROVE  DeliverySpec => FinalUntilReset
<1> DEFINE Final ==
             \A d \in Rows :
                /\ delivery[d].status # "pending"
                /\ delivery'[d].status # delivery[d].status
                => \/ resets'[d] > resets[d]
                   \/ \E r \in Runs : RunAt(r, "caught") /\ Current(r, d)
<1>1. DeliveryInit => BatchPending
  BY DEF DeliveryInit, BatchPending, NoBatch
<1>2. DeliveryTypeOK /\ BatchPending /\ [DeliveryNext]_deliveryVars => BatchPending'
  <2>1. DeliveryTypeOK /\ BatchPending /\ DeliveryNext => BatchPending'
    BY DeliveryAssumption, DeliveryNextByWrites, BatchPendingOutside, BatchPendingRun
  <2>2. BatchPending /\ UNCHANGED deliveryVars => BatchPending'
    BY DEF BatchPending, RunAt, Current, deliveryVars, runVars
  <2>3. QED
    BY <2>1, <2>2
<1>3. DeliveryTypeOK /\ BatchPending /\ [DeliveryNext]_deliveryVars => [Final]_delivery
  <2> SUFFICES ASSUME DeliveryTypeOK, BatchPending, DeliveryNext, NEW d \in Rows,
                      delivery[d].status # "pending",
                      delivery'[d].status # delivery[d].status,
                      ~(resets'[d] > resets[d])
               PROVE  \E r \in Runs : RunAt(r, "caught") /\ Current(r, d)
    BY DEF deliveryVars
  <2>1. ~(\/ Elsewhere \/ Extends \/ \E e \in Rows : Reset(e) \/ BackoffEnds(e))
    BY DeliveryAssumption, StatusOutside
  <2>2. PICK r \in Runs : RunStep(r)
    BY <2>1, DeliveryNextByWrites
  <2>3. d \in DOMAIN batch[r]
    BY <2>2, DeliveryAssumption, RunTable
  <2>4. QED
    BY <2>3 DEF BatchPending
<1>4. QED
  BY <1>1, <1>2, <1>3, DeliveryTypeCorrect, PTL DEF DeliverySpec, FinalUntilReset
=============================================================================
