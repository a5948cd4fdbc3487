----------------------------- MODULE Reconciler -----------------------------
(***************************************************************************)
(* The payment reconciler (reconciler/src): a process that follows the     *)
(* payments of the treasury account on Stellar Horizon, matches each one   *)
(* to an invoice, and books it in Postgres.  The invoices it matches are   *)
(* changed at the same time by the API process (cancel and the two crons   *)
(* of invoices.service.ts), and the screening cache it reads in Redis is   *)
(* shared with the API's ComplianceService.                                *)
(*                                                                         *)
(* One action is one awaited statement (a query, a Redis command, an HTTP  *)
(* call) together with the synchronous code up to the next await; the      *)
(* transaction that credits an invoice is one action.  Every await may     *)
(* fail: the error leaves process_payment and run_stream through `?`, and  *)
(* the stream is retried or the process exits.                             *)
(*                                                                         *)
(* Abstractions.  A paging token is the position of a payment in Horizon's *)
(* history.  Clocks are nondeterministic: a cron finds any set of active   *)
(* invoices due, a cache entry expires at any time.  A row of webhook_     *)
(* deliveries stands for the rows of all webhooks of the merchant that     *)
(* subscribe to the event, and a ledger row stands also for the            *)
(* 'conversion' row of payment_link_events its transaction inserts.        *)
(* Invoice creation is not modelled here: all invoices exist from the      *)
(* start, pending.                                                         *)
(***************************************************************************)
EXTENDS Integers, Sequences, FiniteSets

CONSTANTS
    Reconcilers,     \* the running instances of the stargate-reconciler binary
    Invoices, None,
    MuxedId,         \* invoices.muxed_id
    Memo, NoMemo,    \* invoices.memo, NULL for every invoice the API creates
    Currency, Gross, \* invoices.currency and invoices.gross_usdc
    Payers,          \* the source accounts of payments
    PaymentKinds,    \* the records Horizon may deliver
    EurcIssuerSet,   \* is EURC_ASSET_ISSUER configured?
    FreshVerdict,    \* what an uncached screening answers (see ScreenFresh)
    StartCursor,     \* reconciler_state.cursor when the model starts
    MaxPayments,     \* bound: payments Horizon will ever deliver
    MaxFaults        \* bound: failed calls and crashes

NOW == -1            \* the cursor "now", which migration 007 seeds
NoId == -1           \* decode_muxed_id answers None

Tokens == 1..MaxPayments

Currencies == {"USDC", "EURC", "XLM"}

\* The destination of a payment, as far as its last ten characters tell:
\* a G... account, an M... address in Stellar's base-32 (what
\* stellar.service.ts builds, whose tail is not a decimal number), or
\* "M" followed by the id in decimal, as the reconciler's tests write it.
Destinations == [form : {"account", "strkey", "decimal"}, id : Nat]

ASSUME ConstantsAssumption ==
    /\ None \notin Invoices
    /\ MuxedId \in [Invoices -> Nat]
    /\ \A i, j \in Invoices : MuxedId[i] = MuxedId[j] => i = j
    /\ Currency \in [Invoices -> Currencies]
    /\ Gross \in [Invoices -> Nat]
    /\ FreshVerdict \in {"clear", "review"}
    /\ EurcIssuerSet \in BOOLEAN
    /\ StartCursor \in {0, NOW}
    /\ MaxPayments \in Nat
    /\ MaxFaults \in Nat
    /\ \A p \in PaymentKinds :
          /\ p.from \in Payers
          /\ p.to \in Destinations
          /\ p.amount \in Nat

VARIABLES
    horizon,      \* the payments of the treasury account, oldest first
    status,       \* invoices.status
    event,        \* payment_events, by paging_token (UNIQUE)
    ledger,       \* ledger_entries, in order of their id
    deliveries,   \* webhook_deliveries queued for the invoices
    published,    \* invoices announced as paid on the Redis channel
    cursor,       \* reconciler_state.cursor
    cache,        \* Redis: ofac:<address>
    lookups,      \* addresses the API is asking TRM Labs about
    announcing,   \* rows returned to autoCancelUnpaidInvoices, not yet announced
    faults,       \* calls that failed so far
    pc,           \* what each reconciler does next
    boot,         \* the cursor it read when its process started
    next, last,   \* the lines of the response body still to handle
    verdict,      \* `ofac` and `invoice` of process_payment
    matched

dbVars   == <<status, event, ledger, deliveries, cursor>>
apiVars  == <<lookups, announcing>>
procVars == <<pc, boot, next, last, verdict, matched>>
vars     == <<horizon, published, cache, faults, dbVars, apiVars, procVars>>

-----------------------------------------------------------------------------
(* payment_events and ledger_entries, shared with the abstract booking.    *)

Booking == INSTANCE PaymentBooking WITH booked <- event, credited <- ledger

NoEvent == Booking!NoEvent
EventRows == Booking!EventRows
Creditable(row) == Booking!Creditable(row)

Statuses == {"pending", "partial", "paid", "expired", "cancelled"}
Active == {"pending", "partial"}

DeliveryRows ==
    [type : {"invoice.paid"}, invoice : Invoices, event : Tokens]
      \cup [type : {"invoice.cancelled"}, invoice : Invoices, event : {0}]

Steps == {"down", "connect", "reading", "line", "screen", "cache", "match",
          "record", "credit", "publish", "save"}

\* The steps inside process_payment, past the duplicate check.
Handling == {"screen", "cache", "match", "record", "credit", "publish", "save"}

-----------------------------------------------------------------------------
(* The pure part of the reconciler: asset filter and invoice matching.     *)

\* The accepted assets: native XLM, USDC and EURC of the configured issuers.
IsAcceptedAsset(p) ==
    \/ p.asset = "native"
    \/ p.asset = "USDC" /\ p.issuer = "configured"
    \/ p.asset = "EURC" /\ (EurcIssuerSet => p.issuer = "configured")

PaymentAssetCurrency(p) == IF p.asset = "native" THEN "XLM" ELSE p.asset

\* n's decimal digits read backwards: `chars().rev().take(10)` collects the
\* characters in reverse.  Ids of at most ten digits.
ReversedDigits(n) ==
    LET rev[m \in Nat, acc \in Nat] ==
          IF m = 0 THEN acc ELSE rev[m \div 10, (10 * acc) + (m % 10)]
    IN  rev[n, 0]

DecodeMuxedId(to) == IF to.form = "decimal" THEN ReversedDigits(to.id) ELSE NoId

\* Mutant: the query by muxed id forgets status='pending'.
AnyByMuxedId(p) == {i \in Invoices : MuxedId[i] = DecodeMuxedId(p.to)}

PendingByMuxedId(p) ==
    {i \in Invoices : status[i] = "pending" /\ MuxedId[i] = DecodeMuxedId(p.to)}

PendingByMemo(p) ==
    {i \in Invoices : /\ status[i] = "pending"
                      /\ p.memo # NoMemo
                      /\ Memo[i] = p.memo}

\* Mutant: the currency of the invoice is not looked at.
AnyCurrency(i, p) == TRUE

SameCurrency(i, p) == Currency[i] = PaymentAssetCurrency(p)

\* The possible answers of match_invoice.  The muxed id takes precedence: an
\* invoice found by it with another currency hides one that has the memo.
\* No invoice becomes pending between the two queries, so they are one step.
MatchInvoice(p) ==
    LET found == IF PendingByMuxedId(p) # {} THEN PendingByMuxedId(p)
                                             ELSE PendingByMemo(p)
    IN  IF found = {} THEN {None}
        ELSE {IF SameCurrency(i, p) THEN i ELSE None : i \in found}

\* Mutant: an underpayment is accepted.
AmountWithin(i, p) == p.amount <= Gross[i]

AmountAgrees(i, p) == p.amount = Gross[i]

-----------------------------------------------------------------------------
Init ==
    /\ horizon = <<>>
    /\ status = [i \in Invoices |-> "pending"]
    /\ event = [t \in Tokens |-> NoEvent]
    /\ ledger = <<>>
    /\ deliveries = {}
    /\ published = {}
    /\ cursor = StartCursor
    /\ cache = [a \in Payers |-> "none"]
    /\ lookups = {}
    /\ announcing = {}
    /\ faults = 0
    /\ pc = [r \in Reconcilers |-> "down"]
    /\ boot = [r \in Reconcilers |-> StartCursor]
    /\ next = [r \in Reconcilers |-> 1]
    /\ last = [r \in Reconcilers |-> 0]
    /\ verdict = [r \in Reconcilers |-> "none"]
    /\ matched = [r \in Reconcilers |-> None]

-----------------------------------------------------------------------------
(* The reconciler's process: boot, stream, retry (main.rs, stream.rs).     *)

Current(r) == horizon[next[r]]

Goto(r, step) == pc' = [pc EXCEPT ![r] = step]

\* The process reads the saved cursor once, when it starts.
Boot(r) ==
    /\ pc[r] = "down"
    /\ boot' = [boot EXCEPT ![r] = cursor]
    /\ Goto(r, "connect")
    /\ UNCHANGED <<horizon, published, cache, faults, dbVars, apiVars,
                   next, last, verdict, matched>>

\* Mutant: every request asks for what is new.
ResumeAtEnd(c) == Len(horizon)

\* The payment after which Horizon answers: "now" is the end of the history
\* at the time of the request.
ResumeAfter(c) == IF c = NOW THEN Len(horizon) ELSE c

\* run_stream sends the request with the cursor of the boot, in every retry.
Connect(r) ==
    /\ pc[r] = "connect"
    /\ next' = [next EXCEPT ![r] = ResumeAfter(boot[r]) + 1]
    /\ Goto(r, "reading")
    /\ UNCHANGED <<horizon, published, cache, faults, dbVars, apiVars,
                   boot, last, verdict, matched>>

\* `.text()` answers when Horizon closes the stream: the body holds every
\* payment since the request.
ReadBody(r) ==
    /\ pc[r] = "reading"
    /\ last' = [last EXCEPT ![r] = Len(horizon)]
    /\ Goto(r, "line")
    /\ UNCHANGED <<horizon, published, cache, faults, dbVars, apiVars,
                   boot, next, verdict, matched>>

\* Leave run_stream.  After a success or fifteen minutes of retries the
\* process exits, otherwise the stream is opened again.
LeaveStream(r, step) ==
    /\ Goto(r, step)
    /\ next' = [next EXCEPT ![r] = 1]
    /\ last' = [last EXCEPT ![r] = 0]
    /\ verdict' = [verdict EXCEPT ![r] = "none"]
    /\ matched' = [matched EXCEPT ![r] = None]
    /\ UNCHANGED boot

Retry(r) == \E step \in {"connect", "down"} : LeaveStream(r, step)

EndOfBody(r) ==
    /\ pc[r] = "line"
    /\ next[r] > last[r]
    /\ LeaveStream(r, "down")
    /\ UNCHANGED <<horizon, published, cache, faults, dbVars, apiVars>>

\* A line that is not a payment record (Horizon's /payments also lists account
\* creations and merges) fails to parse and ends the batch.
MalformedLine(r) ==
    /\ pc[r] = "line"
    /\ next[r] <= last[r]
    /\ ~Current(r).wellFormed
    /\ Retry(r)
    /\ UNCHANGED <<horizon, published, cache, faults, dbVars, apiVars>>

\* A failed call, or the death of the process.
Fail(r) ==
    /\ pc[r] # "down"
    /\ faults < MaxFaults
    /\ faults' = faults + 1
    /\ Retry(r)
    /\ UNCHANGED <<horizon, published, cache, dbVars, apiVars>>

-----------------------------------------------------------------------------
(* process_payment (processor.rs), one awaited call after the other.       *)

\* Mutant: no duplicate check, and an upsert instead of the constraint.
NeverExists(t) == FALSE

EventExists(t) == event[t] # NoEvent

\* Mutant: the table has no such constraint.
NoConstraint(t) == FALSE

\* The row would violate UNIQUE (paging_token).
Conflicts(t) == EventExists(t)

NextLine(r) ==
    /\ next' = [next EXCEPT ![r] = @ + 1]
    /\ verdict' = [verdict EXCEPT ![r] = "none"]
    /\ matched' = [matched EXCEPT ![r] = None]
    /\ Goto(r, "line")

\* A known payment and one in a foreign asset are skipped: no event, and the
\* cursor stays.
CheckEvent(r) ==
    /\ pc[r] = "line"
    /\ next[r] <= last[r]
    /\ Current(r).wellFormed
    /\ IF EventExists(next[r]) \/ ~IsAcceptedAsset(Current(r))
       THEN NextLine(r)
       ELSE Goto(r, "screen") /\ UNCHANGED <<next, verdict, matched>>
    /\ UNCHANGED <<horizon, published, cache, faults, dbVars, apiVars, boot, last>>

\* The screening has answered v: a blocked payment is recorded without being
\* matched, any other goes on to match_invoice.
Screened(r, v) ==
    /\ verdict' = [verdict EXCEPT ![r] = v]
    /\ Goto(r, IF v = "blocked" THEN "record" ELSE "match")

ScreenCached(r) ==
    LET cached == cache[Current(r).from] IN
    /\ pc[r] = "screen"
    /\ IF cached = "none"
       THEN Goto(r, "cache") /\ UNCHANGED verdict
       ELSE Screened(r, cached)
    /\ UNCHANGED <<horizon, published, cache, faults, dbVars, apiVars,
                   boot, next, last, matched>>

\* A miss: "clear" when the screening is disabled or an API key is set,
\* "review" without a key.  TRM Labs is never asked, and the answer
\* replaces what the API may have cached meanwhile.
ScreenFresh(r) ==
    /\ pc[r] = "cache"
    /\ cache' = [cache EXCEPT ![Current(r).from] = FreshVerdict]
    /\ Screened(r, FreshVerdict)
    /\ UNCHANGED <<horizon, published, faults, dbVars, apiVars,
                   boot, next, last, matched>>

\* match_invoice, and the comparison of the amount with gross_usdc.
Match(r) ==
    /\ pc[r] = "match"
    /\ \E found \in MatchInvoice(Current(r)) :
          /\ matched' = [matched EXCEPT ![r] = found]
          /\ verdict' = IF found = None \/ AmountAgrees(found, Current(r))
                        THEN verdict
                        ELSE [verdict EXCEPT ![r] = "amount_mismatch"]
    /\ Goto(r, "record")
    /\ UNCHANGED <<horizon, published, cache, faults, dbVars, apiVars,
                   boot, next, last>>

EventRow(r) == [invoice |-> matched[r], verdict |-> verdict[r]]

\* What follows the insertion of the event: the transaction for a payment
\* that pays an invoice, the cursor for any other.
\* Mutants: the subscribers are told first, and the transaction is forgotten;
\* the status is looked at once more, and no credit written for an invoice that
\* was closed meanwhile.
PublishFirst(row) == IF Creditable(row) THEN "publish" ELSE "save"
IfStillPending(row) ==
    IF Creditable(row) /\ status[row.invoice] = "pending" THEN "credit" ELSE "save"

AfterEvent(row) == IF Creditable(row) THEN "credit" ELSE "save"

\* insert_payment_event, at its three call sites: a statement of its own,
\* outside the transaction that credits the invoice.  The UNIQUE constraint
\* on paging_token turns a second row into an error.
InsertPaymentEvent(r) ==
    /\ pc[r] = "record"
    /\ IF Conflicts(next[r])
       THEN Retry(r) /\ UNCHANGED event
       ELSE /\ event' = [event EXCEPT ![next[r]] = EventRow(r)]
            /\ Goto(r, AfterEvent(EventRow(r)))
            /\ UNCHANGED <<boot, next, last, verdict, matched>>
    /\ UNCHANGED <<horizon, published, cache, faults, apiVars,
                   status, ledger, deliveries, cursor>>

\* Mutant: the update has no status guard.
MarkPaidAnyway(i) == [status EXCEPT ![i] = "paid"]

\* UPDATE invoices SET status='paid' ... AND status='pending': no row is
\* updated when the invoice has left "pending", and nobody looks.
MarkPaid(i) == IF status[i] = "pending" THEN [status EXCEPT ![i] = "paid"] ELSE status

\* The transaction: ledger entry, status, deliveries, conversion.
CommitCredit(r) ==
    LET i == matched[r] IN
    /\ pc[r] = "credit"
    /\ ledger' = Append(ledger, [invoice |-> i, event |-> next[r]])
    /\ status' = MarkPaid(i)
    /\ deliveries' = deliveries
          \cup {[type |-> "invoice.paid", invoice |-> i, event |-> next[r]]}
    /\ Goto(r, "publish")
    /\ UNCHANGED <<horizon, published, cache, faults, apiVars, event, cursor,
                   boot, next, last, verdict, matched>>

Publish(r) ==
    /\ pc[r] = "publish"
    /\ published' = published \cup {matched[r]}
    /\ Goto(r, "save")
    /\ UNCHANGED <<horizon, cache, faults, dbVars, apiVars,
                   boot, next, last, verdict, matched>>

\* Mutants: the cursor is saved once for the whole body; an off-by-one.
EndOfBatch(r) == last[r]
OnePast(r) == next[r] + 1

CursorToSave(r) == next[r]

SaveCursor(r) ==
    /\ pc[r] = "save"
    /\ cursor' = CursorToSave(r)
    /\ NextLine(r)
    /\ UNCHANGED <<horizon, published, cache, faults, apiVars,
                   status, event, ledger, deliveries, boot, last>>

-----------------------------------------------------------------------------
(* The API process and the payers.                                         *)

Pay(p) ==
    /\ Len(horizon) < MaxPayments
    /\ horizon' = Append(horizon, p)
    /\ UNCHANGED <<published, cache, faults, dbVars, apiVars, procVars>>

\* InvoicesService.cancel.
Cancel(i) ==
    /\ status[i] \in Active
    /\ status' = [status EXCEPT ![i] = "cancelled"]
    /\ UNCHANGED <<horizon, published, cache, faults, event, ledger, deliveries,
                   cursor, apiVars, procVars>>

\* expireInvoices: one UPDATE over the invoices whose expires_at has passed.
\* Its event type cannot be subscribed to, so announcing it queues nothing.
ExpireInvoices(due) ==
    /\ due \subseteq {i \in Invoices : status[i] \in Active}
    /\ status' = [i \in Invoices |-> IF i \in due THEN "expired" ELSE status[i]]
    /\ UNCHANGED <<horizon, published, cache, faults, event, ledger, deliveries,
                   cursor, apiVars, procVars>>

\* autoCancelUnpaidInvoices: one UPDATE, then the rows it returned are
\* announced one by one; an error or a crash drops the rest.
AutoCancelUnpaid(due) ==
    /\ due \subseteq {i \in Invoices : status[i] \in Active}
    /\ status' = [i \in Invoices |-> IF i \in due THEN "cancelled" ELSE status[i]]
    /\ announcing' = announcing \cup due
    /\ UNCHANGED <<horizon, published, cache, faults, event, ledger, deliveries,
                   cursor, lookups, procVars>>

AnnounceCancelled(i) ==
    /\ i \in announcing
    /\ announcing' = announcing \ {i}
    /\ deliveries' = deliveries
          \cup {[type |-> "invoice.cancelled", invoice |-> i, event |-> 0]}
    /\ UNCHANGED <<horizon, published, cache, faults, status, event, ledger,
                   cursor, lookups, procVars>>

AnnouncingFails ==
    /\ announcing # {}
    /\ faults < MaxFaults
    /\ faults' = faults + 1
    /\ announcing' = {}
    /\ UNCHANGED <<horizon, published, cache, dbVars, lookups, procVars>>

\* ComplianceService.screenAddress: a miss, the question to TRM Labs, and the
\* answer, which goes to the same key the reconciler reads.
ApiLookup(a) ==
    /\ cache[a] = "none"
    /\ a \notin lookups
    /\ lookups' = lookups \cup {a}
    /\ UNCHANGED <<horizon, published, cache, faults, dbVars, announcing, procVars>>

ApiAnswer(a) ==
    /\ a \in lookups
    /\ lookups' = lookups \ {a}
    /\ \E v \in {"clear", "review", "blocked"} : cache' = [cache EXCEPT ![a] = v]
    /\ UNCHANGED <<horizon, published, faults, dbVars, announcing, procVars>>

\* Redis drops the key after its 3600 seconds.
CacheExpires(a) ==
    /\ cache[a] # "none"
    /\ cache' = [cache EXCEPT ![a] = "none"]
    /\ UNCHANGED <<horizon, published, faults, dbVars, apiVars, procVars>>

-----------------------------------------------------------------------------
Work(r) ==
    \/ Boot(r) \/ Connect(r) \/ ReadBody(r) \/ EndOfBody(r) \/ MalformedLine(r)
    \/ CheckEvent(r) \/ ScreenCached(r) \/ ScreenFresh(r) \/ Match(r)
    \/ InsertPaymentEvent(r) \/ Publish(r) \/ SaveCursor(r)

Process(r) == Work(r) \/ CommitCredit(r)

Crons ==
    \/ \E due \in (SUBSET Invoices) \ {{}} : ExpireInvoices(due) \/ AutoCancelUnpaid(due)
    \/ \E i \in Invoices : AnnounceCancelled(i)
    \/ AnnouncingFails

Screening == \E a \in Payers : ApiLookup(a) \/ ApiAnswer(a) \/ CacheExpires(a)

\* Every step but the credit, which alone writes the ledger.
BookingSide ==
    \/ \E r \in Reconcilers : Work(r) \/ Fail(r)
    \/ \E p \in PaymentKinds : Pay(p)
    \/ \E i \in Invoices : Cancel(i)
    \/ Crons
    \/ Screening

Next == BookingSide \/ \E r \in Reconcilers : CommitCredit(r)

Spec == Init /\ [][Next]_vars

\* The process is scheduled, Horizon answers and closes its streams, and the
\* supervisor (a sidecar's pod, RECONCILER.md) restarts it when it exits.
ProcessFairness == \A r \in Reconcilers : WF_vars(Process(r))

-----------------------------------------------------------------------------
(* Properties.                                                             *)

SingleInstance == \A r, s \in Reconcilers : r = s

LedgerOf(i) == {k \in DOMAIN ledger : ledger[k].invoice = i}

\* Recorded, or of no interest to the reconciler.
Settled(t) ==
    EventExists(t) \/ (horizon[t].wellFormed => ~IsAcceptedAsset(horizon[t]))

\* match_invoice finds this invoice for the payment: by the id it decodes the
\* destination to, or by the memo.
FoundBy(p, i) ==
    \/ DecodeMuxedId(p.to) = MuxedId[i]
    \/ p.memo # NoMemo /\ p.memo = Memo[i]

\* The payer sent the payment to this invoice: to its muxed id or its memo.
Addressed(p, i) ==
    \/ p.to.form = "decimal" /\ p.to.id = MuxedId[i]
    \/ p.memo # NoMemo /\ p.memo = Memo[i]

\* The type invariant: every column and every local of the process has a value
\* the code can put there.
TypeOK ==
    /\ horizon \in Seq(PaymentKinds) /\ Len(horizon) <= MaxPayments
    /\ status \in [Invoices -> Statuses]
    /\ event \in [Tokens -> EventRows \cup {NoEvent}]
    /\ ledger \in Seq([invoice : Invoices, event : Tokens])
    /\ deliveries \subseteq DeliveryRows
    /\ published \subseteq Invoices
    /\ cursor \in Nat \cup {NOW} /\ cursor <= Len(horizon)
    /\ cache \in [Payers -> {"none", "clear", "review", "blocked"}]
    /\ lookups \subseteq Payers
    /\ announcing \subseteq Invoices
    /\ faults \in 0..MaxFaults
    /\ pc \in [Reconcilers -> Steps]
    /\ boot \in [Reconcilers -> Nat \cup {NOW}]
    /\ next \in [Reconcilers -> Nat]
    /\ last \in [Reconcilers -> Nat]
    /\ verdict \in [Reconcilers -> Booking!Verdicts \cup {"none"}]
    /\ matched \in [Reconcilers -> Invoices \cup {None}]

\* match_invoice reads "pending" several awaits before the transaction, whose
\* UPDATE does not look at its row count; still an invoice is credited once.
LedgerOncePerInvoice ==
    \A j, k \in DOMAIN ledger : ledger[j].invoice = ledger[k].invoice => j = k

\* A ledger entry is backed by its own recorded payment, which was screened and
\* not blocked, was found to be for this invoice, and has its currency and its
\* full amount, whatever else was paid to it, decoded to it or changed it
\* between the match and the transaction.
LedgerBacked ==
    /\ \A j, k \in DOMAIN ledger : ledger[j].event = ledger[k].event => j = k
    /\ \A k \in DOMAIN ledger :
          LET row == ledger[k]
              p   == horizon[row.event]
          IN  /\ Creditable(event[row.event])
              /\ event[row.event].invoice = row.invoice
              /\ FoundBy(p, row.invoice)
              /\ Currency[row.invoice] = PaymentAssetCurrency(p)
              /\ p.amount = Gross[row.invoice]

\* Invoice status, ledger, deliveries and the Redis announcement tell the same
\* story at every moment: a paid invoice has been credited, a credited one is
\* no longer pending, each credit has queued its 'invoice.paid', and nothing
\* is published before its transaction has committed.
BooksAgree ==
    /\ \A i \in Invoices :
          /\ status[i] = "paid" => LedgerOf(i) # {}
          /\ LedgerOf(i) # {} => status[i] \in {"paid", "expired", "cancelled"}
          /\ i \in published => LedgerOf(i) # {}
    /\ {[invoice |-> d.invoice, event |-> d.event] :
           d \in {x \in deliveries : x.type = "invoice.paid"}}
       = {ledger[k] : k \in DOMAIN ledger}

\* Nothing at or before the saved cursor still waits to be recorded, so the
\* next process, which resumes after the cursor, misses no payment.
CursorSafe == \A t \in 1..cursor : Settled(t)

\* The saved cursor never moves backwards, although a retry replays the
\* history from the cursor of the boot.
CursorNeverRegresses == [][cursor' >= cursor]_cursor

\* Recorded as paying an invoice, from a cleared payer.
Payable(t) == Creditable(event[t]) /\ event[t].verdict = "clear"

\* Payable, without a ledger entry, and nobody about to write it: the duplicate
\* check makes every replay skip such a payment.
Orphans ==
    {t \in Tokens :
        /\ Payable(t)
        /\ \A k \in DOMAIN ledger : ledger[k].event # t
        /\ \A r \in Reconcilers : ~(pc[r] = "credit" /\ next[r] = t)}

\* A recorded payment of a cleared payer loses its credit only to a failure
\* between its two statements, and one failure loses at most one.
OrphansAreFaults == Cardinality(Orphans) <= faults

\* A closed invoice keeps its status: no cron, cancellation or late payment
\* reopens it or turns one outcome into another.
OutcomeIsFinal ==
    [][\A i \in Invoices : status[i] \notin Active => status'[i] = status[i]]_status

\* One instance implements the abstract booking.
BookSpec == Booking!BookSpec

\* A record before t that does not parse: run_stream leaves at it, and the next
\* request starts before it again.
BehindUnparsed(t) == \E u \in DOMAIN horizon : u < t /\ ~horizon[u].wellFormed

\* Every payment Horizon delivers in an accepted asset is eventually recorded,
\* over failed calls, retries and restarts, unless a record that does not parse
\* comes before it.
EventuallyRecorded ==
    \A t \in Tokens :
        (t <= Len(horizon) /\ horizon[t].wellFormed /\ IsAcceptedAsset(horizon[t]))
            ~> (EventExists(t) \/ BehindUnparsed(t))

\* A payment of a cleared payer recorded for an invoice is credited to it, unless
\* some call failed: nothing else can come between process_payment's two writes
\* for ever.
RecordedIsCredited ==
    \A t \in Tokens :
        Payable(t) ~> (faults > 0 \/ \E k \in DOMAIN ledger : ledger[k].event = t)

-----------------------------------------------------------------------------
(* The inductive invariant behind the proofs (ReconcilerProofs).           *)

\* The locals of a process fit the step it is at: the current line is within
\* the body, and past the insertion its row is in payment_events.
LocalsOK(r) ==
    /\ next[r] >= 1 /\ next[r] <= Len(horizon) + 1
    /\ last[r] <= Len(horizon)
    /\ boot[r] <= Len(horizon)
    /\ pc[r] \in Handling => next[r] <= last[r]
    /\ pc[r] \in {"match", "record", "credit", "publish", "save"} => verdict[r] # "none"
    /\ pc[r] \notin {"record", "credit", "publish", "save"} => matched[r] = None
    /\ pc[r] \in {"credit", "publish"} => Creditable(EventRow(r))
    /\ pc[r] \in {"credit", "publish", "save"} => event[next[r]] = EventRow(r)

ProcessOK == \A r \in Reconcilers : LocalsOK(r)

\* Why the saved cursor is safe: whatever a process has behind it, its boot
\* cursor or the lines it has passed, is settled.
ProgressOK ==
    \A r \in Reconcilers : \A t \in 1..boot[r] \cup 1..(next[r] - 1) : Settled(t)

\* Why it never moves back: the payment being handled is not settled, hence it
\* is beyond a cursor that only this process saves.
OrderOK == \A r \in Reconcilers : pc[r] \in Handling => cursor < next[r]

\* Each ledger entry has its own payment, recorded for its invoice, and no
\* other process holds a payment that is about to be credited.
LedgerOK ==
    /\ \A j, k \in DOMAIN ledger : ledger[j].event = ledger[k].event => j = k
    /\ \A k \in DOMAIN ledger :
          /\ Creditable(event[ledger[k].event])
          /\ event[ledger[k].event].invoice = ledger[k].invoice
    /\ \A r \in Reconcilers : pc[r] = "credit" =>
          /\ \A k \in DOMAIN ledger : ledger[k].event # next[r]
          /\ \A s \in Reconcilers : pc[s] = "credit" /\ next[s] = next[r] => s = r

\* Why one instance credits once: a credited invoice is not pending, so it is
\* not matched again, and what is matched is not credited by anybody else.
OnceOK ==
    /\ \A k \in DOMAIN ledger : status[ledger[k].invoice] # "pending"
    /\ \A r \in Reconcilers :
          pc[r] \in {"record", "credit"} =>
              \A k \in DOMAIN ledger : ledger[k].invoice # matched[r]

-----------------------------------------------------------------------------
(* What documents and tests say, and the code does not do (README).        *)

\* INVOICE_PAYMENT_FLOW.md, section 3: the payment_events row and the ledger
\* entry are inserted by the same transaction, so that a failure leaves both
\* or neither.
NoCreditLost == Orphans = {}

\* matcher.rs, above match_invoice: "The destination must be the invoice's muxed
\* address (by muxed_id) or memo."  decode_muxed_id reads the digits backwards,
\* so that a payment may be credited to an invoice it was not sent to.
CreditsAddressee ==
    \A k \in DOMAIN ledger : Addressed(horizon[ledger[k].event], ledger[k].invoice)

\* COMPLIANCE_INTEGRATION.md: a payment under review is held for a manual review,
\* and only a clear one proceeds to settlement.  process_payment stops for
\* "blocked" alone.
OnlyClearIsCredited ==
    \A k \in DOMAIN ledger : event[ledger[k].event].verdict = "clear"

=============================================================================
