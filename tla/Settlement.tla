----------------------------- MODULE Settlement -----------------------------
(***************************************************************************)
(* The daily settlement (settlement.service.ts, settlement.worker.ts): a   *)
(* cron of every API process sums the unsettled ledger entries of each     *)
(* merchant and, merchant by merchant, creates a settlement and marks the  *)
(* entries with it.  The sum is read before the transaction that marks,    *)
(* while the reconciler keeps adding entries.                              *)
(*                                                                         *)
(* Abstractions.  The amount of a settlement is kept as the set of entries *)
(* it sums up.  A transaction is two actions: its first query, and its     *)
(* writes with the COMMIT, since the rows they touch stay locked in        *)
(* between (READ COMMITTED: the query sees what others have committed).    *)
(* No code of the repository moves a settlement out of 'pending': that is  *)
(* the payout, an external action.                                         *)
(***************************************************************************)
EXTENDS Integers, Sequences, FiniteSetsExt

CONSTANTS
    Workers,       \* the API processes, each with the cron
    Merchants,
    Nets,          \* the values of ledger_entries.net_usdc
    MinSettlement, \* HAVING SUM(net_usdc) >= 1.00
    MaxEntries,    \* bound: entries the reconciler will ever write
    MaxFailures    \* bound: failed calls and crashes of the cron

ASSUME SettlementAssumption ==
    /\ Nets \subseteq Nat
    /\ MinSettlement \in Nat \ {0}
    /\ MaxEntries \in Nat
    /\ MaxFailures \in Nat

VARIABLES
    entry,       \* ledger_entries, in order of their id
    settlement,  \* settlements, in the order of their creation
    deferred,    \* merchants whose settlement_scheduled_at is not NULL
    announced,   \* settlements published on their Redis channel
    failures,    \* failed calls and crashes of the cron so far
    job,         \* what each cron does next
    due,         \* merchants.rows not yet handled: the entries summed for each
    current,     \* the merchant whose transaction is open
    toAnnounce   \* pending.rows not yet published

cronVars == <<job, due, current, toAnnounce>>
settlementVars == <<entry, settlement, deferred, announced, failures, cronVars>>

NoSettlement == 0   \* settlement_id IS NULL

Entries == DOMAIN entry
UnsettledOf(m) ==
    {k \in Entries : entry[k].merchant = m /\ entry[k].settlement = NoSettlement}
MarkedBy(s) == {k \in Entries : entry[k].settlement = s}
PendingOf(m) ==
    {s \in DOMAIN settlement : settlement[s].merchant = m /\ settlement[s].status = "pending"}

Net(k) == entry[k].net
Enough(S) == MapThenSumSet(Net, S) >= MinSettlement

SettlementInit ==
    /\ entry = <<>>
    /\ settlement = <<>>
    /\ deferred = {}
    /\ announced = {}
    /\ failures = 0
    /\ job = [w \in Workers |-> "idle"]
    /\ due = [w \in Workers |-> [m \in Merchants |-> {}]]
    /\ current = [w \in Workers |-> {}]
    /\ toAnnounce = [w \in Workers |-> {}]

-----------------------------------------------------------------------------
(* The cron.                                                               *)

At(w, step) == job[w] = step
JobGoes(w, step) == job' = [job EXCEPT ![w] = step]

\* createDailySettlements: one query over all merchants, outside any
\* transaction.  Nobody due: the cron returns.
SumUnsettled(w) ==
    LET amounts == [m \in Merchants |->
                      IF Enough(UnsettledOf(m)) THEN UnsettledOf(m) ELSE {}]
    IN  /\ At(w, "idle")
        /\ \E m \in Merchants : amounts[m] # {}
        /\ due' = [due EXCEPT ![w] = amounts]
        /\ JobGoes(w, "merchant")
        /\ UNCHANGED <<entry, settlement, deferred, announced, failures,
                       current, toAnnounce>>

\* Mutants: the check for a pending settlement is forgotten, or finds the
\* settlements of any status.
NoGuard(m) == FALSE
AnySettlement(m) == \E s \in DOMAIN settlement : settlement[s].merchant = m

HasPending(m) == PendingOf(m) # {}

\* The next merchant: BEGIN, and skip it if a settlement of it is pending.
CheckPending(w, m) ==
    /\ At(w, "merchant")
    /\ due[w][m] # {}
    /\ IF HasPending(m)
       THEN /\ due' = [due EXCEPT ![w][m] = {}]
            /\ UNCHANGED <<job, current>>
       ELSE /\ current' = [current EXCEPT ![w] = {m}]
            /\ JobGoes(w, "create")
            /\ UNCHANGED due
    /\ UNCHANGED <<entry, settlement, deferred, announced, failures, toAnnounce>>

\* Mutants: the update forgets one of its two conditions.
EveryEntry(m) == {k \in Entries : entry[k].merchant = m}
EveryMerchant(m) == MarkedBy(NoSettlement)

ToMark(m) == UnsettledOf(m)

\* The writes of the transaction: the settlement with the amount summed
\* earlier, the deferred schedule, and every entry unsettled by now.
CommitSettlement(w, m) ==
    /\ At(w, "create")
    /\ m \in current[w]
    /\ settlement' = Append(settlement,
           [merchant |-> m, summed |-> due[w][m], status |-> "pending"])
    /\ entry' = [k \in Entries |->
           IF k \in ToMark(m) THEN [entry[k] EXCEPT !.settlement = Len(settlement) + 1]
                              ELSE entry[k]]
    /\ deferred' = deferred \ {m}
    /\ due' = [due EXCEPT ![w][m] = {}]
    /\ current' = [current EXCEPT ![w] = {}]
    /\ JobGoes(w, "merchant")
    /\ UNCHANGED <<announced, failures, toAnnounce>>

\* runDailySettlement reads the pending settlements of the last minute: of a
\* long run, or of a quick earlier one, any of the pending ones.
ReadPending(w) ==
    /\ At(w, "merchant")
    /\ \A m \in Merchants : due[w][m] = {}
    /\ \E recent \in SUBSET UNION {PendingOf(m) : m \in Merchants} :
          toAnnounce' = [toAnnounce EXCEPT ![w] = recent]
    /\ JobGoes(w, "announce")
    /\ UNCHANGED <<entry, settlement, deferred, announced, failures, due, current>>

Announce(w) ==
    /\ At(w, "announce")
    /\ IF toAnnounce[w] = {}
       THEN JobGoes(w, "idle") /\ UNCHANGED <<announced, toAnnounce>>
       ELSE \E s \in toAnnounce[w] :
              /\ announced' = announced \cup {s}
              /\ toAnnounce' = [toAnnounce EXCEPT ![w] = @ \ {s}]
              /\ UNCHANGED job
    /\ UNCHANGED <<entry, settlement, deferred, failures, due, current>>

\* A failed call or a crash: ROLLBACK, and the error ends the whole run, the
\* merchants not yet handled included.
JobFails(w) ==
    /\ ~At(w, "idle")
    /\ failures < MaxFailures
    /\ failures' = failures + 1
    /\ due' = [due EXCEPT ![w] = [m \in Merchants |-> {}]]
    /\ current' = [current EXCEPT ![w] = {}]
    /\ toAnnounce' = [toAnnounce EXCEPT ![w] = {}]
    /\ JobGoes(w, "idle")
    /\ UNCHANGED <<entry, settlement, deferred, announced>>

-----------------------------------------------------------------------------
(* The reconciler, the merchants and the payout.                           *)

\* The ledger entry of a paid invoice (Reconciler!CommitCredit).
Credit(m, net) ==
    /\ Len(entry) < MaxEntries
    /\ entry' = Append(entry, [merchant |-> m, net |-> net, settlement |-> NoSettlement])
    /\ UNCHANGED <<settlement, deferred, announced, failures, cronVars>>

\* MerchantsService.update with a settlement_scheduled_at.
Defer(m) ==
    /\ deferred' = deferred \cup {m}
    /\ UNCHANGED <<entry, settlement, announced, failures, cronVars>>

\* The payout of a settlement, by the statuses of settlements.status.
Payout(s) ==
    /\ \E to \in CASE settlement[s].status = "pending"   -> {"submitted", "failed"}
                   [] settlement[s].status = "submitted" -> {"confirmed", "failed"}
                   [] OTHER -> {} :
          settlement' = [settlement EXCEPT ![s].status = to]
    /\ UNCHANGED <<entry, deferred, announced, failures, cronVars>>

Cron(w) ==
    \/ SumUnsettled(w) \/ ReadPending(w) \/ Announce(w)
    \/ \E m \in Merchants : CheckPending(w, m) \/ CommitSettlement(w, m)

\* Every step but the credit, which is the reconciler's.
PayoutSide ==
    \/ \E w \in Workers : Cron(w) \/ JobFails(w)
    \/ \E m \in Merchants : Defer(m)
    \/ \E s \in DOMAIN settlement : Payout(s)

SettlementNext ==
    \/ PayoutSide
    \/ \E m \in Merchants, net \in Nets : Credit(m, net)

SettlementSpec == SettlementInit /\ [][SettlementNext]_settlementVars

\* The cron runs daily in a process that is kept running.  Of the payout
\* nothing is assumed: no code here takes up what is pending.
SettlementFairness == \A w \in Workers : WF_settlementVars(Cron(w))

-----------------------------------------------------------------------------
(* Properties.                                                             *)

SingleWorker == \A v, w \in Workers : v = w

PayoutStatuses == {"pending", "submitted", "confirmed", "failed"}

\* The type invariant of the tables and of the cron's locals, with the foreign
\* keys: an entry is marked with an existing settlement of its own merchant.
SettlementTypeOK ==
    /\ entry \in Seq([merchant : Merchants, net : Nets, settlement : Nat])
    /\ settlement \in Seq([merchant : Merchants, summed : SUBSET Nat, status : PayoutStatuses])
    /\ deferred \subseteq Merchants
    /\ announced \subseteq DOMAIN settlement
    /\ failures \in 0..MaxFailures
    /\ job \in [Workers -> {"idle", "merchant", "create", "announce"}]
    /\ due \in [Workers -> [Merchants -> SUBSET Nat]]
    /\ current \in [Workers -> SUBSET Merchants]
    /\ toAnnounce \in [Workers -> SUBSET DOMAIN settlement]
    /\ \A k \in Entries : entry[k].settlement # NoSettlement =>
          /\ entry[k].settlement \in DOMAIN settlement
          /\ settlement[entry[k].settlement].merchant = entry[k].merchant

\* A settlement pays for no entry it has not marked: the sum read before the
\* transaction holds no entry that was settled meanwhile, so with one cron
\* nothing is paid out twice.
PaidIsMarked ==
    \A s \in DOMAIN settlement : settlement[s].summed \subseteq MarkedBy(s)

\* At most one settlement of a merchant waits for its payout.
OnePendingPerMerchant ==
    \A m \in Merchants : \A s, t \in PendingOf(m) : s = t

\* One cron implements the abstract payouts.
Paying == INSTANCE Payouts WITH
    earned  <- [k \in Entries |-> [merchant |-> entry[k].merchant, net |-> entry[k].net]],
    payouts <- settlement

\* With one cron, whatever is credited between the SUM and the transaction, a
\* payout is made of entries of its merchant that no other pays for, that add
\* up to the minimum, and while no other of the merchant waits
\* (createDailySettlements).
PayoutSpec == Paying!PayoutSpec

\* A merchant that is owed enough is settled or has a settlement waiting for
\* its payout, over failed runs and whatever became of its settlements before.
EventuallySettled ==
    \A m \in Merchants :
        Enough(UnsettledOf(m)) ~> (~Enough(UnsettledOf(m)) \/ PendingOf(m) # {})

\* CHANGELOG.md: ledger entries are marked correctly.  A settlement marks no
\* entry whose net is not part of its amount.
MarkedIsPaid ==
    \A s \in DOMAIN settlement : MarkedBy(s) \subseteq settlement[s].summed
=============================================================================
