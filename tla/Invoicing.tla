----------------------------- MODULE Invoicing -----------------------------
(***************************************************************************)
(* Creating invoices (invoices.service.ts, idempotency.service.ts): each   *)
(* request makes its queries one by one and any other request may run in   *)
(* between.  A single request takes a connection of the pool for one query *)
(* at a time; a bulk request holds one for its transaction and takes       *)
(* others for the queries that go to the pool.                             *)
(*                                                                         *)
(* Abstractions.  A request's body is the amount it asks for, already in   *)
(* units of USDC (fx-rate.service.ts is left out, one currency).  An id is *)
(* the request and the position of the invoice in it.  Queries that read   *)
(* what nothing changes are joined with the step before.  A failed query   *)
(* and the death of the process are the same to a request: it never        *)
(* answers, and an open transaction is rolled back.  Either may also come  *)
(* after a write took effect and before its caller is answered.  Every     *)
(* merchant has registered before; no merchant is ever deleted.            *)
(***************************************************************************)
EXTENDS Integers, Sequences, FiniteSetsExt

CONSTANTS
    Merchants,
    Requests,       \* the calls of POST /invoices and POST /invoices/bulk
    Amounts,
    Keys, NoKey,    \* Idempotency-Key headers; NoKey when there is none
    Bulks,          \* the arrays a bulk request may carry
    CreatedAt,      \* merchants.created_at
    Span,           \* muxed ids reserved for a merchant: 16_777_216
    FeeBps, FixedFee,   \* what calculateFee takes, by merchant
    Smallest, Largest,  \* min_invoice_usdc, max_invoice_usdc
    Limits, NoLimit,    \* values of the spend limits; NoLimit is NULL
    Conns,          \* connections of the pool
    MaxDay          \* bound: days that pass

Periods == {"day", "month"}
Ids == Requests \X (Nat \ {0})

ASSUME InvoicingAssumption ==
    /\ Span \in Nat \ {0} /\ Conns \in Nat \ {0} /\ MaxDay \in Nat \ {0}
    /\ Amounts \subseteq Nat \ {0} /\ Limits \subseteq Nat \ {0}
    /\ Bulks \subseteq Seq(Amounts) \ {<<>>}
    /\ NoKey \notin Keys /\ NoLimit \notin Nat
    /\ CreatedAt \in [Merchants -> Nat] /\ IsFiniteSet(Merchants) /\ Merchants # {}
    /\ {FeeBps, FixedFee, Smallest, Largest} \subseteq [Merchants -> Nat]

VARIABLES
    rows,       \* invoices that are committed
    cancelled,  \* ids of those whose status is 'cancelled'
    idem,       \* idempotency_keys
    base, seq,  \* merchants.muxed_base_id (0 is NULL) and invoice_seq
    limit,      \* the two spend limits of each merchant
    today,
    conns,      \* connections nobody holds
    req,        \* what each request is doing, and what it has read
    held,       \* rows of each open bulk transaction
    raced       \* merchants whose limits were checked beside another invoice

invoicingVars ==
    <<rows, cancelled, idem, base, seq, limit, today, conns, req, held, raced>>
tables == <<rows, cancelled, idem, base, seq, limit>>

Idle == [pc |-> "idle", m |-> CHOOSE m \in Merchants : TRUE, key |-> NoKey, bulk |-> FALSE,
         items |-> <<>>, i |-> 1, began |-> 1, lim |-> [p \in Periods |-> NoLimit],
         muxed |-> 0, answer |-> {}]

Open(r) == req[r].pc \notin {"idle", "done", "overlimit", "failed", "unheard"}
Amount(r) == req[r].items[req[r].i]
Fee(m, a) == (a * FeeBps[m]) \div 10000 + FixedFee[m]
Row(r) == [id |-> <<r, req[r].i>>, m |-> req[r].m, key |-> req[r].key, amount |-> Amount(r),
           gross |-> Amount(r) + Fee(req[r].m, Amount(r)), muxed |-> req[r].muxed,
           day |-> IF req[r].bulk THEN req[r].began ELSE today]

Gross(row) == row.gross
Spent(m, period) ==
    MapThenSumSet(Gross, {x \in rows : /\ x.m = m /\ x.id \notin cancelled
                                       /\ period = "day" => x.day = today})

\* merchants created no later than m
Index(m) == Cardinality({n \in Merchants : CreatedAt[n] <= CreatedAt[m]})

InvoicingInit ==
    /\ rows = {} /\ cancelled = {} /\ idem = {} /\ raced = {}
    /\ base = [m \in Merchants |-> 0] /\ seq = [m \in Merchants |-> 0]
    /\ limit = [m \in Merchants |-> [p \in Periods |-> NoLimit]]
    /\ today = 1 /\ conns = Conns
    /\ req = [r \in Requests |-> Idle] /\ held = [r \in Requests |-> {}]

\* A request moves on, with what it has just read.
Goto(r, pc) == req' = [req EXCEPT ![r].pc = pc]
Arrival(m, key, bulk, items, pc) ==
    [Idle EXCEPT !.pc = pc, !.m = m, !.key = key, !.bulk = bulk, !.items = items]
\* What is kept of a request that has ended.
Ended(r, pc, answer) ==
    [Arrival(req[r].m, req[r].key, req[r].bulk,
             IF pc \in {"done", "unheard"} THEN req[r].items ELSE <<>>, pc)
        EXCEPT !.answer = answer]
\* Mutant: every request releases a connection when it ends.
EndReleasing(r, pc, answer) ==
    /\ req' = [req EXCEPT ![r] = Ended(r, pc, answer)]
    /\ held' = [held EXCEPT ![r] = {}]
    /\ conns' = conns + 1

\* It ends; a bulk request rolls back and releases its connection.
End(r, pc, answer) ==
    /\ req' = [req EXCEPT ![r] = Ended(r, pc, answer)]
    /\ held' = [held EXCEPT ![r] = {}]
    /\ conns' = IF req[r].bulk THEN conns + 1 ELSE conns
\* Its last write has taken effect; whether it is answered is another matter:
\* the reply of the INSERT or the COMMIT is lost, or the process dies.
Answer(r, ids) == End(r, "done", ids) \/ End(r, "unheard", {})
\* this.pool.query waits for a connection, without a timeout.
PoolQuery(r, pc) == req[r].pc = pc /\ conns > 0

-----------------------------------------------------------------------------
(* create: idempotency.check and the row an earlier request has left.      *)

Arrive(r, m, key, a) ==
    /\ PoolQuery(r, "idle")
    /\ LET used == {k \in idem : k.m = m /\ k.key = key}
           new == Arrival(m, key, FALSE, <<a>>, "existing")
       IN req' = [req EXCEPT ![r] =
             IF key = NoKey THEN [new EXCEPT !.pc = "merchant"]
             ELSE IF used = {} THEN new
             ELSE IF \E k \in used : k.body = a
                  THEN [new EXCEPT !.pc = "done", !.answer = {k.id : k \in used}]
                  ELSE [new EXCEPT !.pc = "failed"]]
    /\ UNCHANGED <<tables, today, conns, held, raced>>

FindExisting(r) ==
    /\ PoolQuery(r, "existing")
    /\ LET found == {x \in rows : x.m = req[r].m /\ x.key = req[r].key}
       IN IF found = {} THEN Goto(r, "merchant") /\ UNCHANGED <<conns, held>>
          ELSE End(r, "done", {x.id : x \in found})
    /\ UNCHANGED <<tables, today, raced>>

\* createBulk: pool.connect() and BEGIN, whose time is the created_at of the rows.
BulkBegin(r, m, items) ==
    /\ PoolQuery(r, "idle")
    /\ req' = [req EXCEPT ![r] = [Arrival(m, NoKey, TRUE, items, "merchant") EXCEPT !.began = today]]
    /\ conns' = conns - 1
    /\ UNCHANGED <<tables, today, held, raced>>

-----------------------------------------------------------------------------
(* create: the merchant, the limits and the bounds.                        *)

\* Only a limit that is set is summed.
NextCheck(lim, pc) ==
    IF pc = "merchant" /\ lim["day"] # NoLimit THEN "day"
    ELSE IF pc # "month" /\ lim["month"] # NoLimit THEN "month" ELSE "base"

\* merchants.findOne
LoadMerchant(r) ==
    LET lim == limit[req[r].m] IN
    /\ PoolQuery(r, "merchant")
    /\ req' = [req EXCEPT ![r].pc = NextCheck(lim, "merchant"), ![r].lim = lim]
    /\ UNCHANGED <<tables, today, conns, held, raced>>

\* Another request of the merchant is under way.
Beside(r) == \E q \in Requests \ {r} : Open(q) /\ req[q].m = req[r].m

\* Mutant: the amount alone is compared with the limit.
LimitIgnoresTotal(total, lim, a) == total > 0 /\ a <= lim

\* enforceSpendLimits for one period.  toUnits refuses a total of zero.
LimitAllows(total, lim, a) == total > 0 /\ total + a <= lim

CheckLimit(r, period) ==
    LET total == Spent(req[r].m, period)
        lim == req[r].lim
    IN /\ PoolQuery(r, period)
       /\ raced' = IF Beside(r) THEN raced \union {req[r].m} ELSE raced
       /\ IF LimitAllows(total, lim[period], Amount(r))
          THEN Goto(r, NextCheck(lim, period)) /\ UNCHANGED <<conns, held>>
          ELSE /\ req' = [req EXCEPT ![r].pc = "overlimit"]
               /\ held' = [held EXCEPT ![r] = {}]
               /\ conns' = IF req[r].bulk THEN conns + 1 ELSE conns
       /\ UNCHANGED <<tables, today>>

-----------------------------------------------------------------------------
(* create: the muxed id, the row, the saved answer.                        *)

\* min_invoice_usdc, max_invoice_usdc, and a net that is not negative
WithinBounds(m, a) ==
    /\ Smallest[m] = 0 \/ a >= Smallest[m]
    /\ Largest[m] = 0 \/ a <= Largest[m]
    /\ a >= FixedFee[m]

\* The bounds; then ensureMuxedBase: SELECT, and the COUNT of the merchants before
EnsureMuxedBase(r) ==
    /\ PoolQuery(r, "base")
    /\ IF WithinBounds(req[r].m, Amount(r))
       THEN /\ Goto(r, IF base[req[r].m] # 0 THEN "seq" ELSE "setbase")
            /\ UNCHANGED <<conns, held>>
       ELSE End(r, "failed", {})
    /\ UNCHANGED <<tables, today, raced>>

\* ensureMuxedBase: UPDATE, muxed_base_id being UNIQUE
SetMuxedBase(r) ==
    LET b == Index(req[r].m) * Span IN
    /\ PoolQuery(r, "setbase")
    /\ IF \E n \in Merchants \ {req[r].m} : base[n] = b
       THEN End(r, "failed", {}) /\ UNCHANGED base
       ELSE /\ base' = [base EXCEPT ![req[r].m] = b]
            /\ Goto(r, "seq") /\ UNCHANGED <<conns, held>>
    /\ UNCHANGED <<rows, cancelled, idem, seq, limit, today, raced>>

\* Mutant: the sequence is counted from the rows, not taken from the UPDATE.
SequenceFromRows(r) ==
    LET m == req[r].m
        n == Cardinality({x \in rows : x.m = m}) + 1
    IN /\ PoolQuery(r, "seq")
       /\ seq' = [seq EXCEPT ![m] = n]
       /\ req' = [req EXCEPT ![r].pc = "insert", ![r].muxed = base[m] + n]
       /\ UNCHANGED <<rows, cancelled, idem, base, limit, today, conns, held, raced>>

NextInvoiceSequence(r) ==
    LET m == req[r].m IN
    /\ PoolQuery(r, "seq")
    /\ seq' = [seq EXCEPT ![m] = @ + 1]
    /\ req' = [req EXCEPT ![r].pc = "insert", ![r].muxed = base[m] + seq[m] + 1]
    /\ UNCHANGED <<rows, cancelled, idem, base, limit, today, conns, held, raced>>

\* Mutant: there is no unique index on the idempotency key.
RefusedForMuxed(row) ==
    \E x \in rows \union UNION {held[q] : q \in Requests} : x.muxed = row.muxed

\* muxed_id is UNIQUE, and so is (merchant_id, idempotency_key) where not NULL.
Refused(row) ==
    \E x \in rows \union UNION {held[q] : q \in Requests} :
        \/ x.muxed = row.muxed
        \/ row.key # NoKey /\ x.m = row.m /\ x.key = row.key

Insert(r) ==
    /\ PoolQuery(r, "insert") /\ ~req[r].bulk
    /\ IF Refused(Row(r)) THEN End(r, "failed", {}) /\ UNCHANGED rows
       ELSE /\ rows' = rows \union {Row(r)}
            /\ IF req[r].key = NoKey THEN Answer(r, {Row(r).id})
               ELSE Goto(r, "save") /\ UNCHANGED <<conns, held>>
    /\ UNCHANGED <<cancelled, idem, base, seq, limit, today, raced>>

\* Mutant: the rows of a bulk are inserted through the pool.
BulkInsertOutside(r) ==
    /\ req[r].pc = "insert" /\ req[r].bulk
    /\ IF Refused(Row(r)) THEN End(r, "failed", {}) /\ UNCHANGED rows
       ELSE /\ rows' = rows \union {Row(r)}
            /\ IF req[r].i < Len(req[r].items)
               THEN req' = [req EXCEPT ![r].i = @ + 1, ![r].pc = "merchant"]
               ELSE Goto(r, "commit")
            /\ UNCHANGED <<conns, held>>
    /\ UNCHANGED <<cancelled, idem, base, seq, limit, today, raced>>

\* The same on the client of the bulk's transaction.
BulkInsert(r) ==
    /\ req[r].pc = "insert" /\ req[r].bulk
    /\ IF Refused(Row(r)) THEN End(r, "failed", {})
       ELSE /\ held' = [held EXCEPT ![r] = @ \union {Row(r)}]
            /\ req' = [req EXCEPT ![r].i = IF @ < Len(req[r].items) THEN @ + 1 ELSE @,
                                  ![r].pc = IF req[r].i < Len(req[r].items) THEN "merchant"
                                            ELSE "commit"]
            /\ UNCHANGED conns
    /\ UNCHANGED <<tables, today, raced>>

BulkCommit(r) ==
    /\ req[r].pc = "commit"
    /\ rows' = rows \union held[r]
    /\ Answer(r, {x.id : x \in held[r]})
    /\ UNCHANGED <<cancelled, idem, base, seq, limit, today, raced>>

\* idempotency.save: ON CONFLICT DO NOTHING
Save(r) ==
    LET m == req[r].m
        key == req[r].key
    IN /\ PoolQuery(r, "save")
       /\ idem' = IF \E k \in idem : k.m = m /\ k.key = key THEN idem
                  ELSE idem \union {[m |-> m, key |-> key, body |-> Amount(r), id |-> <<r, 1>>]}
       /\ Answer(r, {<<r, 1>>})
       /\ UNCHANGED <<rows, cancelled, base, seq, limit, today, raced>>

\* A query fails, or the process dies.
Abort(r) ==
    /\ Open(r)
    /\ End(r, "failed", {})
    /\ UNCHANGED <<tables, today, raced>>

Create(r) ==
    \/ FindExisting(r) \/ LoadMerchant(r) \/ CheckLimit(r, "day")
    \/ CheckLimit(r, "month") \/ EnsureMuxedBase(r) \/ SetMuxedBase(r) \/ NextInvoiceSequence(r)
    \/ Insert(r) \/ BulkInsert(r) \/ BulkCommit(r) \/ Save(r)

-----------------------------------------------------------------------------
(* What happens around the requests.                                       *)

\* merchants.update: COALESCE, so a limit can be changed and never removed.
SetLimit(m, period, l) ==
    /\ limit[m][period] # l
    /\ limit' = [limit EXCEPT ![m][period] = l]
    /\ raced' = IF \E r \in Requests : Open(r) /\ req[r].m = m THEN raced \union {m} ELSE raced
    /\ UNCHANGED <<rows, cancelled, idem, base, seq, today, conns, req, held>>

Cancel(x) ==
    /\ x.id \notin cancelled
    /\ cancelled' = cancelled \union {x.id}
    /\ UNCHANGED <<rows, idem, base, seq, limit, today, conns, req, held, raced>>

NextDay ==
    /\ today < MaxDay
    /\ today' = today + 1
    /\ UNCHANGED <<tables, conns, req, held, raced>>

InvoicingNext ==
    \/ \E r \in Requests, m \in Merchants :
          \/ \E key \in Keys \union {NoKey}, a \in Amounts : Arrive(r, m, key, a)
          \/ \E items \in Bulks : BulkBegin(r, m, items)
    \/ \E r \in Requests : Create(r) \/ Abort(r)
    \/ \E m \in Merchants, period \in Periods, l \in Limits : SetLimit(m, period, l)
    \/ \E x \in rows : Cancel(x)
    \/ NextDay

InvoicingSpec == InvoicingInit /\ [][InvoicingNext]_invoicingVars

-----------------------------------------------------------------------------
(* What callers see: each creation is one step.                            *)

Creation == INSTANCE InvoiceCreation WITH
    made <- {[id |-> x.id, m |-> x.m, key |-> x.key, amount |-> x.amount] : x \in rows},
    answered <- [r \in Requests |->
                    IF req[r].pc = "done"
                    THEN {[m |-> req[r].m, key |-> req[r].key, ids |-> req[r].answer]} ELSE {}]

\* Over several queries, with others in between and failures anywhere, a
\* request creates its invoices in one step or none, under a key that has no
\* other, and is answered with them or with the invoice of its key (create,
\* createBulk, idempotency check and save).
CreationSpec == Creation!CreationSpec

-----------------------------------------------------------------------------
InvoicingTypeOK ==
    /\ \A x \in rows \union UNION {held[r] : r \in Requests} :
          /\ x.id \in Ids /\ x.m \in Merchants /\ x.key \in Keys \union {NoKey}
          /\ x.muxed \in Nat
    /\ base \in [Merchants -> Nat] /\ seq \in [Merchants -> Nat]
    /\ conns \in 0..Conns /\ raced \subseteq Merchants
    /\ \A r \in Requests :
          /\ req[r].m \in Merchants /\ req[r].key \in Keys \union {NoKey}
          /\ req[r].muxed \in Nat

\* All answers given for one Idempotency-Key of a merchant name the same
\* invoice, however its requests overlap and wherever one of them fails
\* (create, lines 65-75 and 153: the key's row, the saved answer and the
\* unique index must agree).
OneInvoicePerKey ==
    \A r, q \in Requests :
        (/\ req[r].pc = "done" /\ req[q].pc = "done"
         /\ req[r].key = req[q].key /\ req[r].key # NoKey /\ req[r].m = req[q].m)
        => req[r].answer = req[q].answer

\* While no merchant has used up its Span, no two invoices, stored or about
\* to be, have one muxed id: a payment names one invoice (nextInvoiceSequence,
\* ensureMuxedBase).  Beyond the Span the ids of the next merchant begin.
Allocated ==
    {[id |-> x.id, muxed |-> x.muxed] : x \in rows \union UNION {held[r] : r \in Requests}}
        \union {[id |-> <<r, req[r].i>>, muxed |-> req[r].muxed] :
                r \in {q \in Requests : req[q].pc = "insert"}}
MuxedIdsDistinct ==
    (\A m \in Merchants : seq[m] <= Span) =>
        \A x, y \in Allocated : x.muxed = y.muxed => x.id = y.id

\* A bulk request leaves all of its invoices or none, each in the position it
\* was asked for and none before it has ended, whatever fails and also when the
\* COMMIT takes effect and is reported as failed; an answer means all.  It
\* gives its connection back on every path (createBulk).  Only bulk requests
\* keep a connection, so the pool is exhausted for good only when Conns of
\* them are open at once, each waiting for another.
BulkEndsClean ==
    /\ \A r \in Requests : req[r].bulk =>
          LET created == {x \in rows : x.id[1] = r} IN
          /\ created # {} =>
                /\ ~Open(r)
                /\ {x.id[2] : x \in created} = 1..Len(req[r].items)
                /\ \A x \in created : x.amount = req[r].items[x.id[2]]
          /\ req[r].pc = "done" => created # {}
    /\ conns + Cardinality({r \in Requests : req[r].bulk /\ Open(r)}) = Conns

\* Each invoice that is inserted while no other request of its merchant is
\* under way fits under every limit beside what is there, although the sum was
\* read several queries before (enforceSpendLimits).  It does not say more:
\* the limit is compared with the amount and the sum is made of gross amounts,
\* and the sum of a bulk's invoice is read on the pool, where the others of
\* the bulk are not to be seen, so that together they may pass the limit.
SpendBounded ==
    [][\A m \in Merchants \ raced', period \in Periods :
          limit[m][period] # NoLimit =>
              \A x \in rows' \ rows :
                  x.m = m => Spent(m, period) + x.amount <= limit[m][period]
      ]_invoicingVars
=============================================================================
