-------------------------- MODULE SettlementProofs --------------------------
(***************************************************************************)
(* Proofs about Settlement, for any number of merchants, ledger entries    *)
(* and failures and, where SingleWorker is not assumed, of crons; then     *)
(* about the settlement and the reconciler together (Payday).              *)
(***************************************************************************)
EXTENDS Payday, ReconcilerProofs, SequenceTheorems, SumLemmas

EntryRows == [merchant : Merchants, net : Nets, settlement : Nat]
SettlementRows == [merchant : Merchants, summed : SUBSET Nat, status : PayoutStatuses]

\* The steps that write neither ledger_entries nor settlements.
Quiet ==
    \/ \E w \in Workers :
          \/ SumUnsettled(w) \/ ReadPending(w) \/ Announce(w) \/ JobFails(w)
          \/ \E m \in Merchants : CheckPending(w, m)
    \/ \E m \in Merchants : Defer(m)

\* The next-state relation by what it writes.
LEMMA NextByWrites ==
    ASSUME SettlementNext
    PROVE  \/ Quiet
           \/ \E w \in Workers, m \in Merchants : CommitSettlement(w, m)
           \/ \E m \in Merchants, net \in Nets : Credit(m, net)
           \/ \E s \in DOMAIN settlement : Payout(s)
BY DEF SettlementNext, PayoutSide, Cron, Quiet

\* A quiet step leaves both tables as they are.
LEMMA QuietTables ==
    ASSUME Quiet
    PROVE  UNCHANGED <<entry, settlement>>
BY DEF Quiet, SumUnsettled, ReadPending, Announce, JobFails, CheckPending, Defer

\* The transaction's writes, as the rows they leave behind.
Committed(w, m) ==
    /\ entry' \in Seq(EntryRows)
    /\ Len(entry') = Len(entry) /\ DOMAIN entry' = DOMAIN entry
    /\ \A k \in DOMAIN entry :
          entry'[k] = IF k \in UnsettledOf(m)
                      THEN [entry[k] EXCEPT !.settlement = Len(settlement) + 1]
                      ELSE entry[k]
    /\ settlement' \in Seq(SettlementRows)
    /\ Len(settlement) \in Nat
    /\ DOMAIN settlement = 1..Len(settlement)
    /\ DOMAIN settlement' = 1..(Len(settlement) + 1)
    /\ \A s \in DOMAIN settlement : settlement'[s] = settlement[s]
    /\ settlement'[Len(settlement) + 1] =
          [merchant |-> m, summed |-> due[w][m], status |-> "pending"]

\* That is what the transaction does.
LEMMA CommitWrites ==
    ASSUME SettlementTypeOK, NEW w \in Workers, NEW m \in Merchants,
           CommitSettlement(w, m)
    PROVE  Committed(w, m)
<1> DEFINE row(k) == IF k \in UnsettledOf(m)
                     THEN [entry[k] EXCEPT !.settlement = Len(settlement) + 1]
                     ELSE entry[k]
           new == [merchant |-> m, summed |-> due[w][m], status |-> "pending"]
<1>1. /\ entry \in Seq(EntryRows) /\ settlement \in Seq(SettlementRows)
      /\ new \in SettlementRows
  BY DEF SettlementTypeOK, EntryRows, SettlementRows, PayoutStatuses
<1>2. /\ Len(entry) \in Nat /\ DOMAIN entry = 1..Len(entry)
      /\ entry \in [1..Len(entry) -> EntryRows]
      /\ Len(settlement) \in Nat /\ DOMAIN settlement = 1..Len(settlement)
  BY <1>1, LenProperties
<1>3. \A k \in 1..Len(entry) : row(k) \in EntryRows
  BY <1>2 DEF EntryRows
<1>4. entry' = [k \in 1..Len(entry) |-> row(k)]
  BY <1>2 DEF CommitSettlement, ToMark, Entries
<1>5. entry' \in [1..Len(entry) -> EntryRows]
  BY <1>3, <1>4
<1>6. entry' \in Seq(EntryRows)
  BY <1>2, <1>5, SeqDef
<1>7. Len(entry') \in Nat /\ 1..Len(entry') = 1..Len(entry)
  BY <1>4, <1>6, LenProperties
<1>8. Len(entry') = Len(entry)
  BY <1>2, <1>7
<1>9. settlement' = Append(settlement, new)
  BY DEF CommitSettlement
<1>10. /\ settlement' \in Seq(SettlementRows)
       /\ Len(settlement') = Len(settlement) + 1
       /\ DOMAIN settlement' = 1..(Len(settlement) + 1)
       /\ \A s \in DOMAIN settlement : settlement'[s] = settlement[s]
       /\ settlement'[Len(settlement) + 1] = new
  BY <1>1, <1>2, <1>9
<1>11. QED
  BY <1>2, <1>4, <1>6, <1>8, <1>10 DEF Committed

\* Nothing is marked with a settlement that does not exist yet.
LEMMA NotYetMarked ==
    ASSUME SettlementTypeOK
    PROVE  /\ Len(settlement) \in Nat
           /\ DOMAIN settlement = 1..Len(settlement)
           /\ \A k \in Entries : entry[k].settlement # Len(settlement) + 1
<1>1. settlement \in Seq(SettlementRows)
  BY DEF SettlementTypeOK, SettlementRows
<1>2. Len(settlement) \in Nat /\ DOMAIN settlement = 1..Len(settlement)
  BY <1>1, LenProperties
<1>3. QED
  BY <1>2 DEF SettlementTypeOK, NoSettlement

\* The transaction changes no merchant and no net of an entry.
LEMMA CommittedKeeps ==
    ASSUME SettlementTypeOK, NEW w \in Workers, NEW m \in Merchants, Committed(w, m)
    PROVE  \A k \in Entries : /\ entry'[k].merchant = entry[k].merchant
                             /\ entry'[k].net = entry[k].net
<1>1. entry \in Seq(EntryRows)
  BY DEF SettlementTypeOK, EntryRows
<1>2. \A k \in Entries : entry[k] \in EntryRows
  BY <1>1, LenProperties, ElementOfSeq DEF Entries
<1>3. QED
  BY <1>2 DEF Committed, Entries, EntryRows

-----------------------------------------------------------------------------
(* Type correctness and the foreign keys.                                  *)

\* The tables start empty, the crons idle.
LEMMA SettlementTypeInit ==
    SettlementAssumption /\ SettlementInit => SettlementTypeOK
BY DEF SettlementAssumption, SettlementInit, SettlementTypeOK, Entries

\* The steps that write neither table keep the locals of the crons typed: the
\* ids they hold are ids of rows that exist.
LEMMA SettlementTypeQuiet ==
    ASSUME SettlementAssumption, SettlementTypeOK, Quiet
    PROVE  SettlementTypeOK'
<1> DEFINE ids == DOMAIN settlement
           locals == /\ job \in [Workers -> {"idle", "merchant", "create", "announce"}]
                     /\ due \in [Workers -> [Merchants -> SUBSET Nat]]
                     /\ current \in [Workers -> SUBSET Merchants]
                     /\ toAnnounce \in [Workers -> SUBSET ids]
                     /\ announced \subseteq ids
                     /\ deferred \subseteq Merchants
                     /\ failures \in 0..MaxFailures
<1>1. UNCHANGED <<entry, settlement>>
  BY QuietTables
<1>2. locals /\ ids' = ids
  BY <1>1 DEF SettlementTypeOK
<1>3. \A m \in Merchants : UnsettledOf(m) \subseteq Nat /\ PendingOf(m) \subseteq ids
  <2>1. entry \in Seq(EntryRows)
    BY DEF SettlementTypeOK, EntryRows
  <2>2. Entries \subseteq Nat
    BY <2>1, LenProperties DEF Entries
  <2>3. QED
    BY <2>2 DEF UnsettledOf, PendingOf
<1>4. ASSUME NEW w \in Workers, NEW m \in Merchants, CheckPending(w, m)
      PROVE  locals'
  <2> HIDE DEF ids
  <2>1. due[w] \in [Merchants -> SUBSET Nat]
    BY <1>2
  <2>2. [due[w] EXCEPT ![m] = {}] \in [Merchants -> SUBSET Nat]
    BY <2>1
  <2>3. [due EXCEPT ![w][m] = {}] \in [Workers -> [Merchants -> SUBSET Nat]]
    BY <1>2, <2>2
  <2>4. CASE HasPending(m)
    BY <1>2, <1>4, <2>3, <2>4 DEF CheckPending
  <2>5. CASE ~HasPending(m)
    <3>1. current' \in [Workers -> SUBSET Merchants]
      BY <1>2, <1>4, <2>5 DEF CheckPending
    <3>2. job' \in [Workers -> {"idle", "merchant", "create", "announce"}]
      BY <1>2, <1>4, <2>5 DEF CheckPending, JobGoes
    <3>3. QED
      BY <1>2, <1>4, <2>5, <3>1, <3>2 DEF CheckPending
  <2>6. QED
    BY <2>4, <2>5
<1>5. ASSUME NEW w \in Workers, SumUnsettled(w) PROVE locals'
  <2> HIDE DEF ids
  <2>1. PICK amounts \in [Merchants -> SUBSET Nat] : due' = [due EXCEPT ![w] = amounts]
    BY <1>3, <1>5 DEF SumUnsettled
  <2>2. QED
    BY <1>2, <1>5, <2>1 DEF SumUnsettled, JobGoes
<1>6. ASSUME NEW w \in Workers, ReadPending(w) PROVE locals'
  <2> HIDE DEF ids
  <2>1. PICK recent \in SUBSET UNION {PendingOf(m) : m \in Merchants} :
            toAnnounce' = [toAnnounce EXCEPT ![w] = recent]
    BY <1>6 DEF ReadPending
  <2>2. recent \in SUBSET ids
    BY <1>3
  <2>3. QED
    BY <1>2, <1>6, <2>1, <2>2 DEF ReadPending, JobGoes
<1>7. ASSUME NEW w \in Workers, Announce(w) PROVE locals'
  <2> HIDE DEF ids
  <2>1. CASE toAnnounce[w] = {}
    BY <1>2, <1>7, <2>1 DEF Announce, JobGoes
  <2>2. CASE toAnnounce[w] # {}
    <3>1. PICK s \in toAnnounce[w] :
              /\ announced' = announced \cup {s}
              /\ toAnnounce' = [toAnnounce EXCEPT ![w] = @ \ {s}]
      BY <1>7, <2>2 DEF Announce
    <3>2. s \in ids /\ toAnnounce[w] \ {s} \in SUBSET ids
      BY <1>2
    <3>3. QED
      BY <1>2, <1>7, <2>2, <3>1, <3>2 DEF Announce
  <2>3. QED
    BY <2>1, <2>2
<1>8. ASSUME NEW w \in Workers, JobFails(w) PROVE locals'
  <2> HIDE DEF ids
  <2>1. QED
    BY <1>2, <1>8 DEF JobFails, JobGoes, SettlementAssumption
<1>9. ASSUME NEW m \in Merchants, Defer(m) PROVE locals'
  <2> HIDE DEF ids
  <2>1. QED
    BY <1>2, <1>9 DEF Defer, cronVars
<1>10. locals'
  BY <1>4, <1>5, <1>6, <1>7, <1>8, <1>9 DEF Quiet
<1>11. QED
  BY <1>1, <1>10 DEF SettlementTypeOK, Entries

\* The transaction marks entries of the merchant with the settlement it adds.
LEMMA SettlementTypeCommit ==
    ASSUME SettlementTypeOK, NEW w \in Workers, NEW m \in Merchants,
           CommitSettlement(w, m)
    PROVE  SettlementTypeOK'
<1>1. Committed(w, m)
  BY CommitWrites
<1>2. DOMAIN settlement \subseteq DOMAIN settlement'
  BY <1>1 DEF Committed
<1>3. ASSUME NEW k \in DOMAIN entry', entry'[k].settlement # NoSettlement
      PROVE  /\ entry'[k].settlement \in DOMAIN settlement'
             /\ settlement'[entry'[k].settlement].merchant = entry'[k].merchant
  <2>1. k \in Entries
    BY <1>1 DEF Committed, Entries
  <2>2. entry \in Seq(EntryRows) /\ entry[k] \in EntryRows
    BY <2>1, LenProperties, ElementOfSeq DEF SettlementTypeOK, EntryRows, Entries
  <2>3. CASE k \in UnsettledOf(m)
    <3>1. entry'[k] = [entry[k] EXCEPT !.settlement = Len(settlement) + 1]
      BY <1>1, <2>1, <2>3 DEF Committed, Entries
    <3>2. entry'[k].settlement = Len(settlement) + 1 /\ entry'[k].merchant = m
      BY <2>2, <2>3, <3>1 DEF EntryRows, UnsettledOf
    <3>3. QED
      BY <1>1, <3>2 DEF Committed
  <2>4. CASE k \notin UnsettledOf(m)
    <3>1. entry'[k] = entry[k]
      BY <1>1, <2>1, <2>4 DEF Committed, Entries
    <3>2. QED
      BY <1>1, <1>2, <1>3, <2>1, <3>1 DEF Committed, SettlementTypeOK
  <2>5. QED
    BY <2>3, <2>4
<1> DEFINE ids == DOMAIN settlement'
<1>4. /\ job' \in [Workers -> {"idle", "merchant", "create", "announce"}]
      /\ current' \in [Workers -> SUBSET Merchants]
      /\ toAnnounce' \in [Workers -> SUBSET ids]
      /\ deferred' \subseteq Merchants /\ announced' \subseteq ids
      /\ failures' \in 0..MaxFailures
  BY <1>2 DEF SettlementTypeOK, CommitSettlement, JobGoes
<1>5. due' \in [Workers -> [Merchants -> SUBSET Nat]]
  <2>1. due[w] \in [Merchants -> SUBSET Nat]
    BY DEF SettlementTypeOK
  <2>2. [due[w] EXCEPT ![m] = {}] \in [Merchants -> SUBSET Nat]
    BY <2>1
  <2>3. QED
    BY <2>2 DEF SettlementTypeOK, CommitSettlement
<1>6. QED
  BY <1>1, <1>3, <1>4, <1>5 DEF Committed, SettlementTypeOK, Entries, EntryRows,
                                SettlementRows

\* An entry the reconciler adds is not marked.
LEMMA SettlementTypeCredit ==
    ASSUME SettlementAssumption, SettlementTypeOK,
           NEW m \in Merchants, NEW net \in Nets, Credit(m, net)
    PROVE  SettlementTypeOK'
<1> DEFINE new == [merchant |-> m, net |-> net, settlement |-> NoSettlement]
<1>1. entry \in Seq(EntryRows) /\ new \in EntryRows
  BY DEF SettlementTypeOK, EntryRows, NoSettlement
<1>2. entry' = Append(entry, new)
  BY DEF Credit
<1>3. /\ entry' \in Seq(EntryRows)
      /\ \A k \in DOMAIN entry' : 
            \/ entry'[k] = new
            \/ k \in DOMAIN entry /\ entry'[k] = entry[k]
  BY <1>1, <1>2, LenProperties
<1>4. QED
  BY <1>3 DEF SettlementTypeOK, Credit, cronVars, Entries, EntryRows

\* What a payout leaves of the settlements: all but a status, and a settlement
\* never becomes pending again.
PaidOut ==
    /\ settlement' \in Seq(SettlementRows)
    /\ DOMAIN settlement' = DOMAIN settlement
    /\ \A t \in DOMAIN settlement :
          /\ settlement'[t].merchant = settlement[t].merchant
          /\ settlement'[t].summed = settlement[t].summed
          /\ settlement'[t].status = "pending" => settlement[t].status = "pending"
    /\ UNCHANGED <<entry, deferred, announced, failures, cronVars>>

\* A payout changes the status of a settlement and nothing else.
LEMMA PayoutWrites ==
    ASSUME SettlementTypeOK, NEW s \in DOMAIN settlement, Payout(s)
    PROVE  PaidOut
<1>1. settlement \in Seq(SettlementRows)
  BY DEF SettlementTypeOK, SettlementRows
<1>2. /\ DOMAIN settlement = 1..Len(settlement) /\ Len(settlement) \in Nat
      /\ \A t \in DOMAIN settlement : settlement[t] \in SettlementRows
  BY <1>1, LenProperties, ElementOfSeq
<1>3. PICK to \in PayoutStatuses \ {"pending"} :
          settlement' = [settlement EXCEPT ![s].status = to]
  BY <1>2 DEF Payout, PayoutStatuses, SettlementRows
<1> DEFINE new == [settlement[s] EXCEPT !.status = to]
<1>4. /\ new \in SettlementRows /\ new.merchant = settlement[s].merchant
      /\ new.summed = settlement[s].summed /\ new.status = to
  BY <1>2 DEF SettlementRows
<1>5. settlement' = [settlement EXCEPT ![s] = new]
  BY <1>3
<1>6. settlement' \in Seq(SettlementRows)
  BY <1>1, <1>2, <1>4, <1>5, ExceptSeq
<1>7. QED
  BY <1>2, <1>4, <1>5, <1>6 DEF Payout, PaidOut

\* No step breaks the types or the foreign keys.
LEMMA SettlementTypeNext ==
    ASSUME SettlementAssumption, SettlementTypeOK, [SettlementNext]_settlementVars
    PROVE  SettlementTypeOK'
<1>1. CASE Quiet
  BY <1>1, SettlementTypeQuiet
<1>2. ASSUME NEW w \in Workers, NEW m \in Merchants, CommitSettlement(w, m)
      PROVE  SettlementTypeOK'
  BY <1>2, SettlementTypeCommit
<1>3. ASSUME NEW m \in Merchants, NEW net \in Nets, Credit(m, net)
      PROVE  SettlementTypeOK'
  BY <1>3, SettlementTypeCredit
<1>4. ASSUME NEW s \in DOMAIN settlement, Payout(s)
      PROVE  SettlementTypeOK'
  <2>1. entry \in Seq(EntryRows)
    BY DEF SettlementTypeOK, EntryRows
  <2>2. PaidOut
    BY <1>4, PayoutWrites
  <2>3. QED
    BY <2>1, <2>2 DEF PaidOut, SettlementTypeOK, Entries, SettlementRows, EntryRows, cronVars
<1>5. CASE UNCHANGED settlementVars
  BY <1>5 DEF SettlementTypeOK, settlementVars, cronVars, Entries
<1>6. QED
  BY <1>1, <1>2, <1>3, <1>4, <1>5, NextByWrites

\* The settlement tables are well typed and linked in every behaviour: an
\* entry carries the id of a settlement of its own merchant.
THEOREM SettlementTypeCorrect == SettlementSpec => []SettlementTypeOK
<1>1. SettlementInit => SettlementTypeOK
  BY SettlementAssumption, SettlementTypeInit
<1>2. SettlementTypeOK /\ [SettlementNext]_settlementVars => SettlementTypeOK'
  BY SettlementAssumption, SettlementTypeNext
<1>3. QED
  BY <1>1, <1>2, PTL DEF SettlementSpec

-----------------------------------------------------------------------------
(* One cron: nothing is paid out twice.                                    *)

\* What one cron has summed and not yet handled is still unsettled, which is
\* why the amount of a settlement has no entry of an earlier one.
DueUnsettled ==
    \A w \in Workers, m \in Merchants : due[w][m] \subseteq UnsettledOf(m)

PaidInv == PaidIsMarked /\ DueUnsettled

\* A quiet step sums unsettled entries, or forgets some.
LEMMA PaidQuiet ==
    ASSUME SettlementAssumption, SettlementTypeOK, PaidInv, Quiet
    PROVE  PaidInv'
<1>1. UNCHANGED <<entry, settlement>>
  BY QuietTables
<1>2. PaidIsMarked' /\ \A m \in Merchants : UnsettledOf(m)' = UnsettledOf(m)
  BY <1>1 DEF PaidInv, PaidIsMarked, MarkedBy, UnsettledOf, Entries
<1>3. /\ due \in [Workers -> [Merchants -> SUBSET Nat]]
      /\ \A w \in Workers, m \in Merchants : due[w][m] \subseteq UnsettledOf(m)
  BY DEF SettlementTypeOK, PaidInv, DueUnsettled
<1>4. \A w \in Workers, m \in Merchants : due'[w][m] \subseteq UnsettledOf(m)
  <2>1. ASSUME NEW v \in Workers, SumUnsettled(v)
        PROVE  \A w \in Workers, m \in Merchants : due'[w][m] \subseteq UnsettledOf(m)
    <3> DEFINE amounts == [m \in Merchants |->
                             IF Enough(UnsettledOf(m)) THEN UnsettledOf(m) ELSE {}]
    <3>1. due' = [due EXCEPT ![v] = amounts]
      BY <2>1 DEF SumUnsettled
    <3>2. \A m \in Merchants : amounts[m] \subseteq UnsettledOf(m)
      OBVIOUS
    <3> HIDE DEF amounts
    <3>3. QED
      BY <1>3, <3>1, <3>2
  <2>2. ASSUME NEW v \in Workers, NEW n \in Merchants, CheckPending(v, n)
        PROVE  \A w \in Workers, m \in Merchants : due'[w][m] \subseteq UnsettledOf(m)
    <3>1. due' = due \/ due' = [due EXCEPT ![v][n] = {}]
      BY <2>2 DEF CheckPending
    <3>2. QED
      BY <1>3, <3>1
  <2>3. ASSUME NEW v \in Workers, JobFails(v)
        PROVE  \A w \in Workers, m \in Merchants : due'[w][m] \subseteq UnsettledOf(m)
    <3>1. due' = [due EXCEPT ![v] = [m \in Merchants |-> {}]]
      BY <2>3 DEF JobFails
    <3>2. QED
      BY <1>3, <3>1
  <2>4. CASE UNCHANGED due
    BY <1>3, <2>4
  <2>5. QED
    BY <2>1, <2>2, <2>3, <2>4 DEF Quiet, ReadPending, Announce, Defer, cronVars
<1>5. QED
  BY <1>2, <1>4 DEF PaidInv, DueUnsettled

\* The transaction marks all it has summed; the entries of other merchants are
\* not touched.
LEMMA PaidCommit ==
    ASSUME SettlementTypeOK, PaidInv, SingleWorker,
           NEW w \in Workers, NEW m \in Merchants, CommitSettlement(w, m)
    PROVE  PaidInv'
<1>1. Committed(w, m)
  BY CommitWrites
<1> DEFINE new == Len(settlement) + 1
<1>2. /\ due[w][m] \subseteq UnsettledOf(m)
      /\ \A n \in Merchants : due[w][n] \subseteq UnsettledOf(n)
      /\ due \in [Workers -> [Merchants -> SUBSET Nat]]
      /\ new \in Nat
  BY <1>1 DEF PaidInv, DueUnsettled, SettlementTypeOK, Committed
<1>3. \A k \in UnsettledOf(m) : k \in DOMAIN entry' /\ entry'[k].settlement = new
  <2>1. entry \in Seq(EntryRows)
    BY DEF SettlementTypeOK, EntryRows
  <2>2. \A k \in Entries : entry[k] \in EntryRows
    BY <2>1, LenProperties, ElementOfSeq DEF Entries
  <2>3. QED
    BY <1>1, <2>2 DEF Committed, UnsettledOf, Entries, EntryRows
<1>4. \A k \in Entries : k \notin UnsettledOf(m) => k \in DOMAIN entry' /\ entry'[k] = entry[k]
  BY <1>1 DEF Committed, Entries
<1>5. \A s \in DOMAIN settlement' : settlement'[s].summed \subseteq MarkedBy(s)'
  <2>1. ASSUME NEW s \in DOMAIN settlement, NEW k \in settlement[s].summed
        PROVE  k \in MarkedBy(s)'
    <3>1. s # NoSettlement
      BY <1>1 DEF Committed, NoSettlement
    <3>2. k \in Entries /\ entry[k].settlement = s
      BY DEF PaidInv, PaidIsMarked, MarkedBy
    <3>3. QED
      BY <1>4, <3>1, <3>2 DEF UnsettledOf, MarkedBy, Entries
  <2>2. due[w][m] \subseteq {k \in DOMAIN entry' : entry'[k].settlement = new}
    BY <1>2, <1>3
  <2>3. ASSUME NEW s \in DOMAIN settlement'
        PROVE  settlement'[s].summed \subseteq {k \in DOMAIN entry' : entry'[k].settlement = s}
    <3>1. CASE s \in DOMAIN settlement
      BY <1>1, <2>1, <3>1 DEF Committed, MarkedBy, Entries
    <3>2. CASE s = new
      BY <1>1, <2>2, <3>2 DEF Committed
    <3>3. QED
      BY <1>1, <3>1, <3>2 DEF Committed
  <2>4. QED
    BY <2>3 DEF MarkedBy, Entries
<1>6. ASSUME NEW v \in Workers, NEW n \in Merchants
      PROVE  due'[v][n] \subseteq UnsettledOf(n)'
  <2>1. v = w
    BY DEF SingleWorker
  <2>2. due' = [due EXCEPT ![w][m] = {}]
    BY DEF CommitSettlement
  <2>3. CASE n = m
    BY <1>2, <2>1, <2>2, <2>3
  <2>4. CASE n # m
    <3>1. due'[v][n] = due[w][n]
      BY <1>2, <2>1, <2>2, <2>4
    <3>2. \A k \in UnsettledOf(n) : k \in Entries /\ k \notin UnsettledOf(m)
      BY <2>4 DEF UnsettledOf
    <3>3. UnsettledOf(n) \subseteq UnsettledOf(n)'
      BY <1>4, <3>2 DEF UnsettledOf, Entries
    <3>4. QED
      BY <1>2, <3>1, <3>3
  <2>5. QED
    BY <2>3, <2>4
<1>7. QED
  BY <1>5, <1>6 DEF PaidInv, PaidIsMarked, DueUnsettled

\* A new ledger entry belongs to no settlement and to no sum.
LEMMA PaidCredit ==
    ASSUME SettlementAssumption, SettlementTypeOK, PaidInv,
           NEW n \in Merchants, NEW net \in Nets, Credit(n, net)
    PROVE  PaidInv'
<1>1. entry \in Seq(EntryRows)
  BY DEF SettlementTypeOK, EntryRows
<1>2. PICK new \in EntryRows : entry' = Append(entry, new)
  BY DEF Credit, EntryRows, NoSettlement
<1>3. \A k \in DOMAIN entry : k \in DOMAIN entry' /\ entry'[k] = entry[k]
  BY <1>1, <1>2, LenProperties
<1>4. /\ \A s : MarkedBy(s) \subseteq MarkedBy(s)'
      /\ \A m \in Merchants : UnsettledOf(m) \subseteq UnsettledOf(m)'
  BY <1>3 DEF MarkedBy, UnsettledOf, Entries
<1>5. UNCHANGED <<settlement, due>>
  BY DEF Credit, cronVars
<1>6. QED
  BY <1>4, <1>5 DEF PaidInv, PaidIsMarked, DueUnsettled

\* No step pays for what it does not mark.
LEMMA PaidNext ==
    ASSUME SettlementAssumption, SettlementTypeOK, PaidInv, SingleWorker,
           [SettlementNext]_settlementVars
    PROVE  PaidInv'
<1>1. CASE Quiet
  BY <1>1, PaidQuiet
<1>2. ASSUME NEW w \in Workers, NEW m \in Merchants, CommitSettlement(w, m)
      PROVE  PaidInv'
  BY <1>2, PaidCommit
<1>3. ASSUME NEW m \in Merchants, NEW net \in Nets, Credit(m, net)
      PROVE  PaidInv'
  BY <1>3, PaidCredit
<1>4. ASSUME NEW s \in DOMAIN settlement, Payout(s)
      PROVE  PaidInv'
  <2>1. PaidOut
    BY <1>4, PayoutWrites
  <2>2. QED
    BY <2>1 DEF PaidOut, PaidInv, PaidIsMarked, DueUnsettled, MarkedBy,
                UnsettledOf, Entries, cronVars
<1>5. CASE UNCHANGED settlementVars
  BY <1>5 DEF settlementVars, cronVars, PaidInv, PaidIsMarked, DueUnsettled,
              MarkedBy, UnsettledOf, Entries
<1>6. QED
  BY <1>1, <1>2, <1>3, <1>4, <1>5, NextByWrites

\* With one cron every entry a settlement pays for is marked with it, and so is
\* in the amount of no other settlement, although the sum is older than the
\* transaction.
THEOREM PaidOnce ==
    ASSUME SingleWorker
    PROVE  SettlementSpec => []PaidIsMarked
<1>1. SettlementInit => PaidInv
  BY DEF SettlementInit, PaidInv, PaidIsMarked, DueUnsettled
<1>2. SettlementTypeOK /\ PaidInv /\ [SettlementNext]_settlementVars
        => PaidInv'
  BY SettlementAssumption, PaidNext
<1>3. PaidInv => PaidIsMarked
  BY DEF PaidInv
<1>4. QED
  BY <1>1, <1>2, <1>3, SettlementTypeCorrect, PTL DEF SettlementSpec

-----------------------------------------------------------------------------
(* One cron: one settlement of a merchant waits for its payout.            *)

\* Between the check and the writes nobody else makes a settlement pending.
NoneMeanwhile ==
    \A w \in Workers, m \in Merchants :
        At(w, "create") /\ m \in current[w] => PendingOf(m) = {}

PendingInv == OnePendingPerMerchant /\ NoneMeanwhile

\* No step makes a second settlement of a merchant pending.
LEMMA PendingNext ==
    ASSUME SettlementAssumption, SettlementTypeOK, PendingInv, SingleWorker,
           [SettlementNext]_settlementVars
    PROVE  PendingInv'
<1>1. CASE Quiet
  <2>1. UNCHANGED settlement /\ \A m \in Merchants : PendingOf(m)' = PendingOf(m)
    BY <1>1, QuietTables DEF PendingOf
  <2>2. job \in [Workers -> {"idle", "merchant", "create", "announce"}]
    BY DEF SettlementTypeOK
  <2>3. ASSUME NEW w \in Workers, NEW m \in Merchants,
               job'[w] = "create", m \in current'[w]
        PROVE  PendingOf(m) = {}
    <3>1. ASSUME NEW v \in Workers, NEW n \in Merchants, CheckPending(v, n)
          PROVE  PendingOf(m) = {}
      <4>1. v = w
        BY DEF SingleWorker
      <4>2. CASE HasPending(n)
        BY <2>2, <2>3, <3>1, <4>1, <4>2 DEF CheckPending, At
      <4>3. CASE ~HasPending(n)
        <5>1. current' = [current EXCEPT ![w] = {n}]
          BY <3>1, <4>1, <4>3 DEF CheckPending
        <5>2. m = n
          BY <2>3, <5>1 DEF SettlementTypeOK
        <5>3. QED
          BY <4>3, <5>2 DEF HasPending
      <4>4. QED
        BY <4>2, <4>3
    <3>2. ASSUME NEW v \in Workers,
                 \/ SumUnsettled(v) \/ ReadPending(v) \/ Announce(v) \/ JobFails(v)
          PROVE  PendingOf(m) = {}
      <4>1. v = w
        BY DEF SingleWorker
      <4>2. job'[w] # "create"
        <5>1. CASE SumUnsettled(v)
          BY <2>2, <4>1, <5>1 DEF SumUnsettled, JobGoes
        <5>2. CASE ReadPending(v)
          BY <2>2, <4>1, <5>2 DEF ReadPending, JobGoes
        <5>3. CASE Announce(v)
          BY <2>2, <4>1, <5>3 DEF Announce, JobGoes, At
        <5>4. CASE JobFails(v)
          BY <2>2, <4>1, <5>4 DEF JobFails, JobGoes
        <5>5. QED
          BY <3>2, <5>1, <5>2, <5>3, <5>4
      <4>3. QED
        BY <2>3, <4>2
    <3>3. ASSUME NEW n \in Merchants, Defer(n)
          PROVE  PendingOf(m) = {}
      BY <2>3, <3>3 DEF Defer, cronVars, PendingInv, NoneMeanwhile, At
    <3>4. QED
      BY <1>1, <3>1, <3>2, <3>3 DEF Quiet
  <2>4. QED
    BY <2>1, <2>3 DEF PendingInv, OnePendingPerMerchant, NoneMeanwhile, At
<1>2. ASSUME NEW w \in Workers, NEW m \in Merchants, CommitSettlement(w, m)
      PROVE  PendingInv'
  <2>1. Committed(w, m)
    BY <1>2, CommitWrites
  <2>2. PendingOf(m) = {}
    BY <1>2 DEF CommitSettlement, PendingInv, NoneMeanwhile
  <2>3. \A n \in Merchants : \A s \in PendingOf(n)' :
            s \in PendingOf(n) \/ (n = m /\ s = Len(settlement) + 1)
    BY <2>1 DEF Committed, PendingOf
  <2>4. OnePendingPerMerchant'
    BY <2>2, <2>3 DEF PendingInv, OnePendingPerMerchant
  <2>5. \A v \in Workers : job'[v] = "merchant"
    BY <1>2 DEF CommitSettlement, JobGoes, SettlementTypeOK, SingleWorker
  <2>6. QED
    BY <2>4, <2>5 DEF PendingInv, NoneMeanwhile, At
<1>3. ASSUME NEW m \in Merchants, NEW net \in Nets, Credit(m, net)
      PROVE  PendingInv'
  BY <1>3 DEF Credit, cronVars, PendingInv, OnePendingPerMerchant, NoneMeanwhile,
              PendingOf, At
<1>4. ASSUME NEW s \in DOMAIN settlement, Payout(s)
      PROVE  PendingInv'
  <2>1. PaidOut
    BY <1>4, PayoutWrites
  <2>2. \A m \in Merchants : PendingOf(m)' \subseteq PendingOf(m)
    BY <2>1 DEF PaidOut, PendingOf
  <2>3. QED
    BY <2>1, <2>2 DEF PaidOut, cronVars, PendingInv, OnePendingPerMerchant,
                      NoneMeanwhile, At
<1>5. CASE UNCHANGED settlementVars
  BY <1>5 DEF settlementVars, cronVars, PendingInv, OnePendingPerMerchant,
              NoneMeanwhile, PendingOf, At
<1>6. QED
  BY <1>1, <1>2, <1>3, <1>4, <1>5, NextByWrites

\* With one cron the duplicate-pending guard holds, although it only looks at
\* committed rows and no constraint backs it.
THEOREM OneWaits ==
    ASSUME SingleWorker
    PROVE  SettlementSpec => []OnePendingPerMerchant
<1>1. SettlementInit => PendingInv
  BY DEF SettlementInit, PendingInv, OnePendingPerMerchant, NoneMeanwhile, PendingOf, At
<1>2. SettlementTypeOK /\ PendingInv /\ [SettlementNext]_settlementVars
        => PendingInv'
  BY SettlementAssumption, PendingNext
<1>3. PendingInv => OnePendingPerMerchant
  BY DEF PendingInv
<1>4. QED
  BY <1>1, <1>2, <1>3, SettlementTypeCorrect, PTL DEF SettlementSpec
-----------------------------------------------------------------------------
(* One cron: the settlements are the payouts of the abstract specification. *)

NetsTotal(e, S) == MapThenSumSet(LAMBDA k : e[k].net, S)

\* The sum of the nets is the last value of a function of SumLemmas.
LEMMA NetSums ==
    ASSUME NEW S, IsFiniteSet(S), NEW e, NEW w, w = [k \in S |-> e[k].net]
    PROVE  \E g : Sums(g, w, S) /\ NetsTotal(e, S) = g[S]
<1> DEFINE IsSum(g) == g = [s \in SUBSET S |->
                              IF s = {} THEN 0 ELSE e[AnyOf(s)].net + g[s \ {AnyOf(s)}]]
<1>1. ASSUME NEW g PROVE IsSum(g) <=> Sums(g, w, S)
  <2>1. \A s \in SUBSET S : (IF s = {} THEN 0 ELSE e[AnyOf(s)].net + g[s \ {AnyOf(s)}])
                              = (IF s = {} THEN 0 ELSE w[AnyOf(s)] + g[s \ {AnyOf(s)}])
    BY AnyOfIn
  <2> QED
    BY <2>1 DEF Sums
<1>2. NetsTotal(e, S) = (CHOOSE g : IsSum(g))[S]
  BY DEF NetsTotal, MapThenSumSet, MapThenFoldSet, AnyOf
<1>3. IsSum(CHOOSE g : IsSum(g))
  <2>1. \E g : IsSum(g)
    BY <1>1, SumsExist
  <2> HIDE DEF IsSum
  <2> QED
    BY <2>1
<1> QED
  BY <1>1, <1>2, <1>3

\* It depends on the nets of the set alone.
LEMMA NetsAgree ==
    ASSUME NEW S, IsFiniteSet(S), NEW e, NEW f, \A k \in S : e[k].net = f[k].net
    PROVE  NetsTotal(e, S) = NetsTotal(f, S)
<1>0. PICK v, w : v = [k \in S |-> e[k].net] /\ w = [k \in S |-> f[k].net]
  OBVIOUS
<1>1. PICK g : Sums(g, v, S) /\ NetsTotal(e, S) = g[S]
  BY <1>0, NetSums
<1>2. PICK h : Sums(h, w, S) /\ NetsTotal(f, S) = h[S]
  BY <1>0, NetSums
<1>3. g[S] = h[S]
  BY <1>0, <1>1, <1>2, SumsAgree
<1> QED
  BY <1>1, <1>2, <1>3

LEMMA EnoughIs ==
    ASSUME NEW S
    PROVE  Enough(S) <=> NetsTotal(entry, S) >= MinSettlement
BY DEF Enough, Net, NetsTotal

\* What a cron has summed adds up to the minimum until it is settled: the rows
\* keep their nets.  The merchant of an open transaction has been summed.
Worth(S) == S # {} => NetsTotal(entry, S) >= MinSettlement

DueWorth ==
    /\ \A w \in Workers, m \in Merchants : Worth(due[w][m])
    /\ \A w \in Workers : ~At(w, "create") => current[w] = {}
    /\ \A w \in Workers : \A m \in current[w] : due[w][m] # {}

\* The ids of the ledger are finitely many, so a sum is of a finite set.
LEMMA DueFinite ==
    ASSUME SettlementTypeOK, PaidInv, NEW w \in Workers, NEW m \in Merchants
    PROVE  due[w][m] \subseteq Entries /\ IsFiniteSet(due[w][m])
<1>1. entry \in Seq(EntryRows)
  BY DEF SettlementTypeOK, EntryRows
<1>2. Entries = 1..Len(entry) /\ Len(entry) \in Nat
  BY <1>1, LenProperties DEF Entries
<1>3. due[w][m] \subseteq Entries
  BY DEF PaidInv, DueUnsettled, UnsettledOf
<1>4. IsFiniteSet(1..Len(entry))
  BY <1>2, FS_Interval
<1>5. QED
  BY <1>2, <1>3, <1>4, FS_Subset

\* A step that keeps the nets of the entries keeps the worth of what is due.
LEMMA WorthKept ==
    ASSUME SettlementTypeOK, PaidInv, DueWorth,
           \A k \in Entries : entry'[k].net = entry[k].net,
           NEW w \in Workers, NEW m \in Merchants
    PROVE  due[w][m] # {} => NetsTotal(entry', due[w][m]) >= MinSettlement
<1>1. due[w][m] \subseteq Entries /\ IsFiniteSet(due[w][m])
  BY DueFinite
<1>2. PICK S, e, f : S = due[w][m] /\ e = entry /\ f = entry'
  OBVIOUS
<1>3. NetsTotal(e, S) = NetsTotal(f, S)
  BY <1>1, <1>2, NetsAgree
<1>4. QED
  BY <1>2, <1>3 DEF DueWorth, Worth

\* No step leaves a cron with a sum below the minimum.
LEMMA WorthNext ==
    ASSUME SettlementAssumption, SettlementTypeOK, PaidInv, DueWorth, SingleWorker,
           [SettlementNext]_settlementVars
    PROVE  DueWorth'
<1> DEFINE InHand(w, jobs, open, sums) ==
               /\ jobs[w] # "create" => open[w] = {}
               /\ \A m \in open[w] : sums[w][m] # {}
<1>1. /\ job \in [Workers -> {"idle", "merchant", "create", "announce"}]
      /\ due \in [Workers -> [Merchants -> SUBSET Nat]]
      /\ current \in [Workers -> SUBSET Merchants]
      /\ \A w \in Workers : InHand(w, job, current, due)
      /\ \A w \in Workers, m \in Merchants :
            due[w][m] # {} => NetsTotal(entry, due[w][m]) >= MinSettlement
  BY DEF SettlementTypeOK, DueWorth, Worth, At
<1>2. SUFFICES ASSUME NEW w \in Workers
               PROVE  /\ InHand(w, job', current', due')
                      /\ \A m \in Merchants :
                            due'[w][m] # {} => NetsTotal(entry', due'[w][m]) >= MinSettlement
  BY DEF DueWorth, Worth, At
<1>3. CASE Quiet
  <2>1. UNCHANGED entry
    BY <1>3, QuietTables
  <2>2. CASE SumUnsettled(w)
    <3> DEFINE amounts == [m \in Merchants |->
                             IF Enough(UnsettledOf(m)) THEN UnsettledOf(m) ELSE {}]
    <3>1. /\ due' = [due EXCEPT ![w] = amounts]
          /\ job' = [job EXCEPT ![w] = "merchant"] /\ UNCHANGED current
      BY <2>2 DEF SumUnsettled, JobGoes
    <3>2. ASSUME NEW m \in Merchants, amounts[m] # {}
          PROVE  NetsTotal(entry, amounts[m]) >= MinSettlement
      <4>1. amounts[m] = UnsettledOf(m) /\ Enough(UnsettledOf(m))
        BY <3>2
      <4>2. QED
        BY <4>1, EnoughIs
    <3>3. current[w] = {}
      BY <1>1, <2>2 DEF SumUnsettled, At
    <3> HIDE DEF amounts
    <3>4. due'[w] = amounts /\ job'[w] = "merchant" /\ current'[w] = {}
      BY <1>1, <3>1, <3>3
    <3>5. QED
      BY <2>1, <3>2, <3>4
  <2>3. ASSUME NEW n \in Merchants, CheckPending(w, n)
        PROVE  /\ InHand(w, job', current', due')
               /\ \A m \in Merchants : due'[w][m] = {} \/ due'[w][m] = due[w][m]
    <3>1. job[w] = "merchant" /\ current[w] = {} /\ due[w][n] # {}
      BY <1>1, <2>3 DEF CheckPending, At
    <3>2. CASE HasPending(n)
      BY <1>1, <2>3, <3>1, <3>2 DEF CheckPending
    <3>3. CASE ~HasPending(n)
      BY <1>1, <2>3, <3>1, <3>3 DEF CheckPending, JobGoes
    <3>4. QED
      BY <3>2, <3>3
  <2>4. ASSUME ReadPending(w) \/ Announce(w) \/ JobFails(w)
        PROVE  /\ InHand(w, job', current', due')
               /\ \A m \in Merchants : due'[w][m] = {} \/ due'[w][m] = due[w][m]
    <3>1. CASE ReadPending(w)
      BY <1>1, <3>1 DEF ReadPending, JobGoes, At
    <3>2. CASE Announce(w)
      BY <1>1, <3>2 DEF Announce, JobGoes, At
    <3>3. CASE JobFails(w)
      BY <1>1, <3>3 DEF JobFails, JobGoes, At
    <3>4. QED
      BY <2>4, <3>1, <3>2, <3>3
  <2>5. CASE UNCHANGED <<job, due, current>>
    BY <1>1, <2>1, <2>5
  <2>6. \/ SumUnsettled(w)
        \/ \E n \in Merchants : CheckPending(w, n)
        \/ ReadPending(w) \/ Announce(w) \/ JobFails(w)
        \/ UNCHANGED <<job, due, current>>
    BY <1>3 DEF Quiet, Defer, cronVars, SingleWorker
  <2>7. QED
    BY <1>1, <2>1, <2>2, <2>3, <2>4, <2>5, <2>6
<1>4. ASSUME NEW v \in Workers, NEW n \in Merchants, CommitSettlement(v, n)
      PROVE  /\ InHand(w, job', current', due')
             /\ \A m \in Merchants :
                   due'[w][m] # {} => NetsTotal(entry', due'[w][m]) >= MinSettlement
  <2>1. v = w
    BY DEF SingleWorker
  <2>2. \A k \in Entries : entry'[k].net = entry[k].net
    <3>1. Committed(v, n)
      BY <1>4, CommitWrites
    <3>2. QED
      BY <3>1, CommittedKeeps
  <2>3. /\ job' = [job EXCEPT ![w] = "merchant"]
        /\ current' = [current EXCEPT ![w] = {}]
        /\ due' = [due EXCEPT ![w][n] = {}]
    BY <1>4, <2>1 DEF CommitSettlement, JobGoes
  <2>4. \A m \in Merchants : due'[w][m] = {} \/ due'[w][m] = due[w][m]
    BY <1>1, <2>3
  <2>5. InHand(w, job', current', due')
    BY <1>1, <2>3
  <2>6. \A m \in Merchants : due[w][m] # {} => NetsTotal(entry', due[w][m]) >= MinSettlement
    BY <2>2, WorthKept
  <2>7. QED
    BY <2>4, <2>5, <2>6
<1>5. ASSUME NEW n \in Merchants, NEW net \in Nets, Credit(n, net)
      PROVE  /\ InHand(w, job', current', due')
             /\ \A m \in Merchants :
                   due'[w][m] # {} => NetsTotal(entry', due'[w][m]) >= MinSettlement
  <2>1. \A k \in Entries : entry'[k].net = entry[k].net
    <3>1. entry \in Seq(EntryRows)
      BY DEF SettlementTypeOK, EntryRows
    <3>2. PICK new \in EntryRows : entry' = Append(entry, new)
      BY <1>5 DEF Credit, EntryRows, NoSettlement
    <3>3. QED
      BY <3>1, <3>2, LenProperties DEF Entries
  <2>2. \A m \in Merchants : due[w][m] # {} => NetsTotal(entry', due[w][m]) >= MinSettlement
    BY <2>1, WorthKept
  <2>3. QED
    BY <1>1, <1>5, <2>2 DEF Credit, cronVars
<1>6. ASSUME NEW s \in DOMAIN settlement, Payout(s)
      PROVE  UNCHANGED <<entry, job, due, current>>
  BY <1>6 DEF Payout, cronVars
<1>7. CASE UNCHANGED settlementVars
  BY <1>1, <1>7 DEF settlementVars, cronVars
<1>8. QED
  BY <1>1, <1>3, <1>4, <1>5, <1>6, <1>7, NextByWrites

\* The rows the abstract specification sees.
EarnedRow(e, k) == [merchant |-> e[k].merchant, net |-> e[k].net]
EarnedRows(e) == [k \in DOMAIN e |-> EarnedRow(e, k)]

PayoutInv == PaidInv /\ PendingInv /\ DueWorth

\* A settlement is a payout of what its merchant has earned.
LEMMA CommitPaysOut ==
    ASSUME SettlementAssumption, SettlementTypeOK, PayoutInv, SingleWorker,
           NEW w \in Workers, NEW m \in Merchants, CommitSettlement(w, m)
    PROVE  Paying!PayOut(m, due[w][m]) /\ due[w][m] \in SUBSET Paying!EarnedBy(m)
<1>1. Committed(w, m)
  BY CommitWrites
<1>2. PICK S : S = due[w][m]
  OBVIOUS
<1>3. S \subseteq UnsettledOf(m) /\ S \subseteq Entries /\ IsFiniteSet(S)
  BY <1>2, DueFinite DEF PayoutInv, PaidInv, DueUnsettled
<1>4. S \subseteq Paying!EarnedBy(m)
  BY <1>3 DEF Paying!EarnedBy, UnsettledOf, Entries
<1>5. Paying!MapThenSumSet(Paying!Earning, S) >= MinSettlement
  <2>1. PICK e, f : e = entry /\ f = EarnedRows(entry)
    OBVIOUS
  <2>2. \A k \in S : f[k].net = e[k].net
    BY <1>3, <2>1 DEF EarnedRows, EarnedRow, Entries
  <2>3. NetsTotal(f, S) = NetsTotal(e, S)
    BY <1>3, <2>2, NetsAgree
  <2>4. NetsTotal(e, S) >= MinSettlement
    BY <1>2, <2>1 DEF CommitSettlement, PayoutInv, DueWorth, Worth
  <2>5. Paying!MapThenSumSet(Paying!Earning, S) = NetsTotal(f, S)
    BY <2>1 DEF Paying!Earning, NetsTotal, EarnedRows, EarnedRow, Entries,
                Paying!MapThenSumSet, Paying!MapThenFoldSet, MapThenSumSet, MapThenFoldSet
  <2>6. QED
    BY <2>3, <2>4, <2>5
<1>6. ASSUME NEW p \in DOMAIN settlement
      PROVE  /\ settlement[p].summed \intersect S = {}
             /\ settlement[p].merchant = m => settlement[p].status # "pending"
  <2>1. p # NoSettlement
    BY <1>1 DEF Committed, NoSettlement
  <2>2. settlement[p].summed \subseteq MarkedBy(p)
    BY DEF PayoutInv, PaidInv, PaidIsMarked
  <2>3. settlement[p].summed \intersect S = {}
    BY <1>3, <2>1, <2>2 DEF MarkedBy, UnsettledOf
  <2>4. PendingOf(m) = {}
    BY DEF CommitSettlement, PayoutInv, PendingInv, NoneMeanwhile
  <2>5. QED
    BY <2>3, <2>4 DEF PendingOf
<1>7. EarnedRows(entry') = EarnedRows(entry)
  <2>1. \A k \in DOMAIN entry : EarnedRow(entry', k) = EarnedRow(entry, k)
    BY <1>1, CommittedKeeps DEF EarnedRow, Entries
  <2>2. DOMAIN entry' = DOMAIN entry
    BY <1>1 DEF Committed
  <2>3. QED
    BY <2>1, <2>2 DEF EarnedRows
<1>8. settlement' = Append(settlement, [merchant |-> m, summed |-> S, status |-> "pending"])
  BY <1>2 DEF CommitSettlement
<1>9. UNCHANGED [k \in Entries |-> [merchant |-> entry[k].merchant, net |-> entry[k].net]]
  BY <1>7 DEF EarnedRows, EarnedRow, Entries
<1>10. Paying!PayOut(m, S)
  BY <1>4, <1>5, <1>6, <1>8, <1>9 DEF Paying!PayOut
<1>11. QED
  BY <1>2, <1>4, <1>10

LEMMA ByItems ==
    ASSUME NEW T, NEW s \in Seq(T)
    PROVE  s = [k \in DOMAIN s |-> s[k]]
BY LenProperties

\* A new ledger entry is something the merchant earns.
LEMMA CreditEarns ==
    ASSUME SettlementTypeOK, NEW m \in Merchants, NEW net \in Nets, Credit(m, net)
    PROVE  Paying!Earn(m, net)
<1> DEFINE new == [merchant |-> m, net |-> net, settlement |-> NoSettlement]
           row == [merchant |-> m, net |-> net]
<1>1. entry \in Seq(EntryRows) /\ new \in EntryRows
  BY DEF SettlementTypeOK, EntryRows, NoSettlement
<1>2. /\ Len(entry) \in Nat /\ DOMAIN entry = 1..Len(entry)
      /\ DOMAIN entry' = 1..(Len(entry) + 1)
      /\ \A k \in DOMAIN entry : entry'[k] = entry[k]
      /\ entry'[Len(entry) + 1] = new
  BY <1>1, LenProperties DEF Credit
<1> DEFINE Rows == [merchant : Merchants, net : Nets]
<1>3. row \in Rows /\ \A k \in DOMAIN entry : EarnedRow(entry, k) \in Rows
  <2>1. \A k \in DOMAIN entry : entry[k] \in EntryRows
    BY <1>1, ElementOfSeq, <1>2
  <2>2. QED
    BY <2>1 DEF EarnedRow, EntryRows
<1>4. EarnedRows(entry) \in Seq(Rows) /\ Len(EarnedRows(entry)) = Len(entry)
  <2>1. EarnedRows(entry) \in [1..Len(entry) -> Rows]
    BY <1>2, <1>3 DEF EarnedRows
  <2>2. EarnedRows(entry) \in Seq(Rows)
    BY <1>2, <2>1, SeqDef
  <2>3. DOMAIN EarnedRows(entry) = 1..Len(entry)
    BY <1>2 DEF EarnedRows
  <2>4. QED
    BY <1>2, <2>2, <2>3, LenProperties
<1>5. EarnedRows(entry') = Append(EarnedRows(entry), row)
  <2> DEFINE old == EarnedRows(entry)
             app == Append(old, row)
  <2>1. /\ app \in Seq(Rows) /\ DOMAIN app = 1..(Len(entry) + 1)
        /\ \A k \in 1..Len(entry) : app[k] = old[k]
        /\ app[Len(entry) + 1] = row
    <3> HIDE DEF old, Rows, row
    <3>1. old \in Seq(Rows) /\ row \in Rows /\ Len(old) = Len(entry)
      BY <1>3, <1>4 DEF old
    <3>2. /\ app \in Seq(Rows) /\ Len(app) = Len(old) + 1
          /\ \A k \in 1..Len(old) : app[k] = old[k]
          /\ app[Len(old) + 1] = row
      BY <3>1, AppendProperties
    <3>3. DOMAIN app = 1..Len(app)
      BY <3>2, LenProperties
    <3>4. QED
      BY <3>1, <3>2, <3>3
  <2>2. app = [k \in 1..(Len(entry) + 1) |-> app[k]]
    <3> HIDE DEF app, Rows
    <3>1. QED
      BY <2>1, ByItems
  <2>3. \A k \in 1..(Len(entry) + 1) : app[k] = EarnedRow(entry', k)
    <3>1. \A k \in 1..Len(entry) : old[k] = EarnedRow(entry', k)
      BY <1>2 DEF EarnedRows, EarnedRow
    <3>2. row = EarnedRow(entry', Len(entry) + 1)
      BY <1>2 DEF EarnedRow
    <3>3. \A k \in 1..(Len(entry) + 1) : k \in 1..Len(entry) \/ k = Len(entry) + 1
      BY <1>2
    <3> HIDE DEF old, app, row
    <3>4. QED
      BY <2>1, <3>1, <3>2, <3>3
  <2>4. EarnedRows(entry') = [k \in 1..(Len(entry) + 1) |-> EarnedRow(entry', k)]
    BY <1>2 DEF EarnedRows
  <2> HIDE DEF app
  <2>5. EarnedRows(entry') = app
    BY <2>2, <2>3, <2>4
  <2>6. QED
    BY <2>5 DEF app
<1>6. UNCHANGED settlement
  BY DEF Credit
<1>7. QED
  BY <1>5, <1>6 DEF Paying!Earn, EarnedRows, EarnedRow, Entries

\* A payout's status moves as the abstract specification says.
LEMMA PayoutMovesOn ==
    ASSUME NEW s \in DOMAIN settlement, Payout(s)
    PROVE  Paying!MoveOn(s)
<1>1. PICK to \in CASE settlement[s].status = "pending"   -> {"submitted", "failed"}
                    [] settlement[s].status = "submitted" -> {"confirmed", "failed"}
                    [] OTHER -> {} :
          settlement' = [settlement EXCEPT ![s].status = to]
  BY DEF Payout
<1>2. <<settlement[s].status, to>> \in Paying!Moves
  BY <1>1 DEF Paying!Moves
<1>3. UNCHANGED [k \in Entries |-> [merchant |-> entry[k].merchant, net |-> entry[k].net]]
  BY DEF Payout, Entries
<1>4. QED
  BY <1>1, <1>2, <1>3 DEF Paying!MoveOn

\* Every step of the settlement is a step of the payouts, or none.
LEMMA PayoutStep ==
    ASSUME SettlementAssumption, SettlementTypeOK, PayoutInv, SingleWorker,
           [SettlementNext]_settlementVars
    PROVE  [Paying!PayoutNext]_Paying!payoutVars
<1>1. CASE Quiet
  BY <1>1, QuietTables DEF Paying!payoutVars, Entries
<1>2. ASSUME NEW w \in Workers, NEW m \in Merchants, CommitSettlement(w, m)
      PROVE  Paying!PayoutNext
  BY <1>2, CommitPaysOut DEF Paying!PayoutNext
<1>3. ASSUME NEW m \in Merchants, NEW net \in Nets, Credit(m, net)
      PROVE  Paying!PayoutNext
  BY <1>3, CreditEarns DEF Paying!PayoutNext
<1>4. ASSUME NEW s \in DOMAIN settlement, Payout(s)
      PROVE  Paying!PayoutNext
  BY <1>4, PayoutMovesOn DEF Paying!PayoutNext
<1>5. CASE UNCHANGED settlementVars
  BY <1>5 DEF settlementVars, Paying!payoutVars, Entries
<1>6. QED
  BY <1>1, <1>2, <1>3, <1>4, <1>5, NextByWrites

\* With one cron the settlement implements the payouts: each is made of entries
\* of its merchant that no other pays for, adds up to the minimum although it was
\* summed before the transaction began, and is made while no other of its
\* merchant waits.
THEOREM ImplementsPayouts ==
    ASSUME SingleWorker
    PROVE  SettlementSpec => PayoutSpec
<1>1. SettlementInit => Paying!PayoutInit
  <2>1. SUFFICES ASSUME SettlementInit PROVE Paying!PayoutInit
    OBVIOUS
  <2>2. [k \in Entries |-> [merchant |-> entry[k].merchant, net |-> entry[k].net]] = <<>>
    BY <2>1 DEF SettlementInit, Entries
  <2>3. QED
    BY <2>1, <2>2 DEF SettlementInit, Paying!PayoutInit
<1>2. SettlementInit => PayoutInv
  <2>1. SUFFICES ASSUME SettlementInit PROVE PayoutInv
    OBVIOUS
  <2>2. PaidInv /\ PendingInv
    BY <2>1 DEF SettlementInit, PaidInv, PaidIsMarked, DueUnsettled, PendingInv,
                OnePendingPerMerchant, NoneMeanwhile, PendingOf, At
  <2>3. DueWorth
    BY <2>1 DEF SettlementInit, DueWorth, Worth
  <2>4. QED
    BY <2>2, <2>3 DEF PayoutInv
<1>3. SettlementTypeOK /\ PayoutInv /\ [SettlementNext]_settlementVars => PayoutInv'
  BY SettlementAssumption, PaidNext, PendingNext, WorthNext DEF PayoutInv
<1>4. SettlementTypeOK /\ PayoutInv /\ [SettlementNext]_settlementVars
        => [Paying!PayoutNext]_Paying!payoutVars
  BY SettlementAssumption, PayoutStep
<1>5. QED
  BY <1>1, <1>2, <1>3, <1>4, SettlementTypeCorrect, PTL
     DEF SettlementSpec, PayoutSpec, Paying!PayoutSpec

-----------------------------------------------------------------------------
(* The reconciler and the settlement on one ledger (Payday).               *)

\* The ledger is written by the credit alone.
LEMMA BookingKeepsLedger ==
    ASSUME BookingSide
    PROVE  UNCHANGED ledger
<1>1. ASSUME NEW r \in Reconcilers, Work(r) \/ Fail(r)
      PROVE  UNCHANGED ledger
  BY <1>1 DEF Work, dbVars, Boot, Connect, ReadBody, EndOfBody, MalformedLine, Fail,
              CheckEvent, ScreenCached, ScreenFresh, Match, InsertPaymentEvent, Publish,
              SaveCursor
<1>2. CASE Others
  BY <1>2 DEF Others, Pay, Cancel, Crons, ExpireInvoices, AutoCancelUnpaid,
              AnnounceCancelled, AnnouncingFails, Screening, ApiLookup, ApiAnswer,
              CacheExpires, dbVars
<1>3. QED
  BY <1>1, <1>2 DEF BookingSide, Others

\* The invoice a process is about to credit has a merchant and a net.
LEMMA CreditedInvoice ==
    ASSUME TypeOK, ProcessOK, NEW r \in Reconcilers, CommitCredit(r)
    PROVE  matched[r] \in Invoices /\ next[r] \in Tokens
<1>1. /\ matched[r] \in Invoices \cup {None} /\ next[r] \in Nat
      /\ Len(horizon) \in Nat /\ Len(horizon) <= MaxPayments
  <2>1. horizon \in Seq(PaymentKinds)
    BY DEF TypeOK
  <2>2. QED
    BY <2>1, LenProperties DEF TypeOK
<1>2. LocalsOK(r) /\ pc[r] = "credit"
  BY DEF ProcessOK, CommitCredit
<1>3. matched[r] # None
  BY <1>2 DEF LocalsOK, Creditable, Booking!Creditable, EventRow
<1>4. next[r] >= 1 /\ next[r] <= last[r] /\ last[r] <= Len(horizon) /\ last[r] \in Nat
  BY <1>2 DEF LocalsOK, Handling, TypeOK
<1>5. QED
  BY <1>1, <1>3, <1>4, ConstantsAssumption DEF Tokens, ConstantsAssumption

\* Each step of the whole is a step of either side or leaves it alone.
LEMMA BothSides ==
    ASSUME TypeOK, ProcessOK, [PaydayNext]_paydayVars
    PROVE  [Next]_vars /\ [SettlementNext]_settlementVars
<1>1. ASSUME NEW r \in Reconcilers, CreditInvoice(r)
      PROVE  Next /\ SettlementNext
  <2>1. matched[r] \in Invoices
    BY <1>1, CreditedInvoice DEF CreditInvoice
  <2>2. Owner[matched[r]] \in Merchants /\ NetOf[matched[r]] \in Nets
    BY <2>1, PaydayAssumption DEF PaydayAssumption
  <2>3. QED
    BY <1>1, <2>2 DEF CreditInvoice, Next, SettlementNext
<1>2. CASE BookingSide /\ UNCHANGED settlementVars
  BY <1>2 DEF Next
<1>3. CASE PayoutSide /\ UNCHANGED vars
  BY <1>3 DEF SettlementNext
<1>4. CASE UNCHANGED paydayVars
  BY <1>4 DEF paydayVars
<1>5. QED
  BY <1>1, <1>2, <1>3, <1>4 DEF PaydayNext

\* The reconciler beside a settlement is the reconciler: all that is proved of
\* its specification holds of the whole.
THEOREM PaydayReconciles == PaydaySpec => Spec
<1>1. PaydayInit => Init /\ TypeOK /\ ProcessOK
  BY ConstantsAssumption, TypeInit DEF PaydayInit
<1>2. TypeOK /\ ProcessOK /\ [PaydayNext]_paydayVars
        => [Next]_vars /\ (TypeOK /\ ProcessOK)'
  BY ConstantsAssumption, BothSides, TypeNext
<1>3. QED
  BY <1>1, <1>2, PTL DEF PaydaySpec, Spec

\* The settlement beside a reconciler is the settlement: the credits it is given
\* are of merchants it knows.
THEOREM PaydaySettles == PaydaySpec => SettlementSpec
<1>1. PaydayInit => SettlementInit
  BY DEF PaydayInit
<1>2. TypeOK /\ ProcessOK /\ [PaydayNext]_paydayVars => [SettlementNext]_settlementVars
  BY BothSides
<1>3. QED
  BY <1>1, <1>2, PaydayReconciles, TypeCorrect, PTL DEF PaydaySpec, SettlementSpec

\* The entries the settlement sees are the rows the reconciler writes.
LEMMA OneTableNext ==
    ASSUME TypeOK, ProcessOK, SettlementTypeOK, OneTable, [PaydayNext]_paydayVars
    PROVE  OneTable'
<1>1. /\ entry \in Seq(EntryRows) /\ ledger \in Seq([invoice : Invoices, event : Tokens])
      /\ Len(entry) \in Nat /\ Len(ledger) \in Nat
      /\ DOMAIN entry = 1..Len(entry) /\ DOMAIN ledger = 1..Len(ledger)
  <2>1. entry \in Seq(EntryRows) /\ ledger \in Seq([invoice : Invoices, event : Tokens])
    BY DEF SettlementTypeOK, EntryRows, TypeOK
  <2>2. QED
    BY <2>1, LenProperties
<1>2. ASSUME NEW r \in Reconcilers, CreditInvoice(r)
      PROVE  OneTable'
  <2> DEFINE i == matched[r]
             new == [merchant |-> Owner[i], net |-> NetOf[i], settlement |-> NoSettlement]
             row == [invoice |-> i, event |-> next[r]]
  <2>1. i \in Invoices /\ next[r] \in Tokens
    BY <1>2, CreditedInvoice DEF CreditInvoice
  <2>2. /\ new \in EntryRows /\ row \in [invoice : Invoices, event : Tokens]
        /\ new.merchant = Owner[i] /\ new.net = NetOf[i] /\ row.invoice = i
    BY <2>1, PaydayAssumption DEF PaydayAssumption, EntryRows, NoSettlement
  <2>3. entry' = Append(entry, new) /\ ledger' = Append(ledger, row)
    BY <1>2 DEF CreditInvoice, CommitCredit, Credit
  <2> HIDE DEF new, row
  <2>4. /\ Len(entry') = Len(entry) + 1 /\ Len(ledger') = Len(ledger) + 1
        /\ DOMAIN ledger' = 1..(Len(ledger) + 1)
        /\ \A k \in 1..Len(entry) : entry'[k] = entry[k]
        /\ \A k \in 1..Len(ledger) : ledger'[k] = ledger[k]
        /\ entry'[Len(entry) + 1] = new /\ ledger'[Len(ledger) + 1] = row
    BY <1>1, <2>2, <2>3, AppendProperties, LenProperties
  <2>5. ASSUME NEW k \in DOMAIN ledger'
        PROVE  /\ entry'[k].merchant = Owner[ledger'[k].invoice]
               /\ entry'[k].net = NetOf[ledger'[k].invoice]
    <3>1. CASE k \in 1..Len(ledger)
      BY <1>1, <2>4, <3>1 DEF OneTable
    <3>2. CASE k = Len(ledger) + 1
      BY <2>2, <2>4, <3>2 DEF OneTable
    <3>3. QED
      BY <1>1, <2>4, <3>1, <3>2
  <2>6. QED
    BY <2>4, <2>5 DEF OneTable
<1>3. CASE BookingSide /\ UNCHANGED settlementVars
  BY <1>3, BookingKeepsLedger DEF OneTable, settlementVars
<1>4. CASE PayoutSide /\ UNCHANGED vars
  <2>1. UNCHANGED ledger
    BY <1>4 DEF vars, dbVars
  <2>2. CASE Quiet \/ \E s \in DOMAIN settlement : Payout(s)
    BY <2>1, <2>2, QuietTables DEF OneTable, Payout
  <2>3. ASSUME NEW w \in Workers, NEW m \in Merchants, CommitSettlement(w, m)
        PROVE  OneTable'
    <3>1. Committed(w, m)
      BY <2>3, CommitWrites
    <3>2. /\ Len(entry') = Len(entry)
          /\ \A k \in Entries : /\ entry'[k].merchant = entry[k].merchant
                                /\ entry'[k].net = entry[k].net
      BY <3>1, CommittedKeeps DEF Committed
    <3>3. QED
      BY <1>1, <2>1, <3>2 DEF OneTable, Entries
  <2>4. QED
    BY <1>4, <2>2, <2>3 DEF PayoutSide, Cron, Quiet
<1>5. CASE UNCHANGED paydayVars
  BY <1>5 DEF paydayVars, vars, dbVars, settlementVars, OneTable
<1>6. QED
  BY <1>2, <1>3, <1>4, <1>5 DEF PaydayNext

\* What the two components keep, put together.
LEMMA PaidOutFromLedger ==
    ASSUME TypeOK, LedgerOK, LedgerOncePerInvoice, BooksAgree,
           SettlementTypeOK, PaidIsMarked, OneTable
    PROVE  InvoicesPaidOutOnce
<1>1. DOMAIN entry = DOMAIN ledger /\ 0 \notin DOMAIN settlement
  <2>1. /\ entry \in Seq(EntryRows) /\ settlement \in Seq(SettlementRows)
        /\ ledger \in Seq([invoice : Invoices, event : Tokens])
    BY DEF SettlementTypeOK, EntryRows, SettlementRows, TypeOK
  <2>2. QED
    BY <2>1, LenProperties DEF OneTable
<1>2. ASSUME NEW s \in DOMAIN settlement, NEW k \in settlement[s].summed
      PROVE  k \in DOMAIN ledger /\ k \in Entries /\ entry[k].settlement = s
  BY <1>1 DEF PaidIsMarked, MarkedBy, Entries
<1>3. ASSUME NEW s \in DOMAIN settlement, NEW k \in settlement[s].summed
      PROVE  /\ Owner[ledger[k].invoice] = settlement[s].merchant
             /\ NetOf[ledger[k].invoice] = entry[k].net
  <2>1. k \in DOMAIN ledger /\ k \in Entries /\ entry[k].settlement = s /\ s # NoSettlement
    BY <1>1, <1>2 DEF NoSettlement
  <2>2. settlement[s].merchant = entry[k].merchant
    BY <2>1 DEF SettlementTypeOK
  <2>3. QED
    BY <2>1, <2>2 DEF OneTable
<1>4. ASSUME NEW k \in DOMAIN ledger
      PROVE  /\ event[ledger[k].event].invoice = ledger[k].invoice
             /\ Creditable(event[ledger[k].event])
             /\ status[ledger[k].invoice] \notin Active
  <2>1. ledger[k].invoice \in Invoices
    <3>1. ledger \in Seq([invoice : Invoices, event : Tokens])
      BY DEF TypeOK
    <3>2. DOMAIN ledger = 1..Len(ledger)
      BY <3>1, LenProperties
    <3>3. ledger[k] \in [invoice : Invoices, event : Tokens]
      BY <3>1, <3>2, ElementOfSeq
    <3>4. QED
      BY <3>3
  <2>2. LedgerOf(ledger[k].invoice) # {}
    BY DEF LedgerOf
  <2>3. status[ledger[k].invoice] \in {"paid", "expired", "cancelled"}
    BY <2>1, <2>2 DEF BooksAgree
  <2>4. QED
    BY <2>3 DEF LedgerOK, Active
<1>5. ASSUME NEW s \in DOMAIN settlement, NEW k \in settlement[s].summed,
             NEW t \in DOMAIN settlement, NEW j \in settlement[t].summed,
             ledger[j].invoice = ledger[k].invoice
      PROVE  t = s /\ j = k
  <2>1. j = k
    BY <1>2, <1>5 DEF LedgerOncePerInvoice
  <2>2. QED
    BY <1>2, <2>1
<1>6. QED
  BY <1>2, <1>3, <1>4, <1>5 DEF InvoicesPaidOutOnce

\* With one reconciler and one cron, what a merchant is paid is the net of its
\* invoices that have been paid, and no invoice is paid out twice, whatever the
\* two and the API do at the same time and wherever they fail.
THEOREM PaidOutOnce ==
    ASSUME SingleInstance, SingleWorker
    PROVE  PaydaySpec => []InvoicesPaidOutOnce
<1>1. PaydayInit => OneTable
  BY LenProperties DEF PaydayInit, Init, SettlementInit, OneTable
<1>2. TypeOK /\ ProcessOK /\ SettlementTypeOK /\ OneTable /\ [PaydayNext]_paydayVars
        => OneTable'
  BY OneTableNext
<1>3. PaydaySpec => [](TypeOK /\ ProcessOK) /\ []SettlementTypeOK
  BY PaydayReconciles, PaydaySettles, TypeCorrect, SettlementTypeCorrect, PTL
<1>4. PaydaySpec => []LedgerOK /\ []LedgerOncePerInvoice /\ []BooksAgree /\ []PaidIsMarked
  BY PaydayReconciles, PaydaySettles, CreditsHavePayments, CreditedOnce, BooksAlwaysAgree,
     PaidOnce, PTL
<1>5. TypeOK /\ LedgerOK /\ LedgerOncePerInvoice /\ BooksAgree /\ SettlementTypeOK
        /\ PaidIsMarked /\ OneTable => InvoicesPaidOutOnce
  BY PaidOutFromLedger
<1>6. QED
  BY <1>1, <1>2, <1>3, <1>4, <1>5, PTL DEF PaydaySpec

\* Together they implement both abstract specifications: each payment is booked
\* and credited once, and each payout is made of credits.
THEOREM PaydayImplements ==
    ASSUME SingleInstance, SingleWorker
    PROVE  PaydaySpec => BookSpec /\ PayoutSpec
BY PaydayReconciles, PaydaySettles, ImplementsBooking, ImplementsPayouts, PTL
=============================================================================
