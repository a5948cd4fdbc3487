--------------------------- MODULE InvoiceCreation ---------------------------
(***************************************************************************)
(* What POST /invoices and POST /invoices/bulk promise to their callers,   *)
(* whatever the queries behind them, the requests that overlap and the     *)
(* failures in between:                                                    *)
(*                                                                         *)
(*  - the invoices of a request come into being in one step, all of them   *)
(*    or none, and no request makes a second set;                          *)
(*  - an Idempotency-Key of a merchant has one invoice;                    *)
(*  - a request is answered once at most, with what it made or with the    *)
(*    invoice of its key; a request without a key in the very step that    *)
(*    makes it or never, for the answer may be lost.                       *)
(*                                                                         *)
(* Invoicing implements this specification.                                *)
(***************************************************************************)
EXTENDS Integers, Sequences

CONSTANTS Merchants, Requests, Amounts, Keys, NoKey, Bulks

VARIABLES made,     \* the invoices there are
          answered  \* the answer each request was given, if any

creationVars == <<made, answered>>

Invoice(r, j, m, key, a) == [id |-> <<r, j>>, m |-> m, key |-> key, amount |-> a]

CreationInit ==
    /\ made = {}
    /\ answered = [r \in Requests |-> {}]

Reply(r, m, key, ids) ==
    /\ answered[r] = {}
    /\ answered' = [answered EXCEPT ![r] = {[m |-> m, key |-> key, ids |-> ids]}]

\* The answer of what is made now reaches the caller or is lost.
ReplyOrNot(r, m, key, ids) ==
    \/ Reply(r, m, key, ids)
    \/ answered[r] = {} /\ UNCHANGED answered

\* Nothing that request r made exists.
MadeNothing(r) == \A x \in made : x.id[1] # r

CreateOne(r, m, a) ==
    /\ MadeNothing(r)
    /\ made' = made \union {Invoice(r, 1, m, NoKey, a)}
    /\ ReplyOrNot(r, m, NoKey, {<<r, 1>>})

\* The answer is given later, to this request or to another.
CreateUnderKey(r, m, key, a) ==
    /\ MadeNothing(r)
    /\ \A x \in made : ~(x.m = m /\ x.key = key)
    /\ made' = made \union {Invoice(r, 1, m, key, a)}
    /\ answered[r] = {} /\ UNCHANGED answered

CreateBulk(r, m, items) ==
    /\ MadeNothing(r)
    /\ made' = made \union {Invoice(r, j, m, NoKey, items[j]) : j \in 1..Len(items)}
    /\ ReplyOrNot(r, m, NoKey, {<<r, j>> : j \in 1..Len(items)})

\* A request that made an invoice is answered for the key of that one.
AnswerForKey(r, m, key) ==
    /\ \A x \in made : x.id[1] = r => x.m = m /\ x.key = key
    /\ \E x \in made : x.m = m /\ x.key = key /\ Reply(r, m, key, {x.id})
    /\ UNCHANGED made

CreationNext ==
    \E r \in Requests, m \in Merchants :
        \/ \E a \in Amounts : CreateOne(r, m, a)
        \/ \E key \in Keys, a \in Amounts : CreateUnderKey(r, m, key, a)
        \/ \E items \in Bulks : CreateBulk(r, m, items)
        \/ \E key \in Keys : AnswerForKey(r, m, key)

CreationSpec == CreationInit /\ [][CreationNext]_creationVars
=============================================================================
