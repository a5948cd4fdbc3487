----------------------------- MODULE Listings ------------------------------
(***************************************************************************)
(* Reading a list page by page while rows are added to it: the audit log   *)
(* (audit-logs.service.ts), the analytics of payment links                 *)
(* (payment-links.service.ts) and a merchant's invoices                    *)
(* (invoices.service.ts).  The first two take a page number and skip       *)
(* (page - 1) * limit rows, newest first with nothing to break a tie; the  *)
(* third takes a cursor made of the last row's created_at and id.          *)
(*                                                                         *)
(* Abstractions.  One table of one merchant stands for the three.  A row   *)
(* has the time of its created_at, which is that of its transaction's      *)
(* beginning and so may be before that of rows already there (rows of one  *)
(* bulk share it), and an action to be filtered by.  A limit that is no    *)
(* number makes the query fail and is left out.                            *)
(***************************************************************************)
EXTENDS Integers, FiniteSets

CONSTANTS
    Readers,            \* clients that page through a list
    Actions, AnyAction, \* audit_logs.action; AnyAction is a query without it
    PageLimits,           \* the `limit's that clients ask for
    MaxLimit,           \* 100
    MaxRows, MaxTime    \* bounds

ASSUME ListingsAssumption ==
    /\ PageLimits \subseteq Int /\ MaxLimit \in Nat \ {0}
    /\ AnyAction \notin Actions /\ MaxRows \in Nat /\ MaxTime \in Nat \ {0}

VARIABLES
    entries,    \* the rows
    time,       \* NOW()
    reader      \* each client: what it asks for, where it is, what it has read

listingsVars == <<entries, time, reader>>

EntryRows == [id : 1 .. MaxRows, at : 1 .. MaxTime, action : Actions]
Unread == [pc |-> "idle", list |-> "audit", asked |-> 1, action |-> AnyAction, page |-> 1,
           had |-> {}, read |-> {}]

ListingsInit == entries = {} /\ time = 1 /\ reader = [r \in Readers |-> Unread]

-----------------------------------------------------------------------------
\* Math.min(Math.max(Number(query.limit ?? 20), 1), 100)
Limit(asked) == IF asked < 1 THEN 1 ELSE IF asked > MaxLimit THEN MaxLimit ELSE asked

\* Mutant: the offset counts the rows the client asked for, not those it got.
OffsetAsked(page, asked) == (page - 1) * asked

Offset(page, asked) == (page - 1) * Limit(asked)

\* ORDER BY created_at DESC LIMIT limit OFFSET offset: the answers it may
\* have, in every order of the rows with one created_at.
Slices(found, offset, limit) ==
    {slice \in SUBSET found : \E before \in SUBSET (found \ slice) :
        LET after == found \ (before \union slice) IN
        /\ Cardinality(before) = offset \/ (Cardinality(before) < offset /\ before = found)
        /\ Cardinality(slice) = limit \/ (Cardinality(slice) < limit /\ after = {})
        /\ \A x \in before, y \in slice \union after : x.at >= y.at
        /\ \A x \in slice, y \in after : x.at >= y.at}

\* WHERE merchant_id=$1 [AND action=$n]
Found(action) == {x \in entries : action \in {x.action, AnyAction}}

\* A row: AuditLogsService.log, or one or two invoices in a transaction
Write(action, at) ==
    /\ at \in {time - 1, time} \ {0}
    /\ Cardinality(entries) < MaxRows
    /\ entries' = entries \union {[id |-> Cardinality(entries) + 1, at |-> at, action |-> action]}
    /\ UNCHANGED <<time, reader>>

Tick == time < MaxTime /\ time' = time + 1 /\ UNCHANGED <<entries, reader>>

StartPaging(r, list, asked, action) ==
    /\ reader[r].pc = "idle"
    /\ list # "audit" => action = AnyAction
    /\ reader' = [reader EXCEPT ![r] = [Unread EXCEPT !.pc = "reading", !.list = list,
                                                      !.asked = asked, !.action = action]]
    /\ UNCHANGED <<entries, time>>

\* The client has a page of `found' and goes on while `more'.
Got(r, slice, found, more) ==
    reader' = [reader EXCEPT ![r].read = @ \union slice,
                             ![r].had = IF reader[r].page = 1 THEN found ELSE @,
                             ![r].page = IF more THEN @ + 1 ELSE @,
                             ![r].pc = IF more THEN "reading" ELSE "done"]

\* COUNT(*) OVER() is on the rows of the page: on an empty one it is 0.
TotalOf(slice, found) == IF slice = {} THEN 0 ELSE Cardinality(found)

\* AuditLogsService.list; the client goes on until page * limit is the total
AuditPage(r) ==
    LET found == Found(reader[r].action)
        asked == reader[r].asked
        page == reader[r].page
    IN  /\ reader[r].pc = "reading" /\ reader[r].list = "audit"
        /\ \E slice \in Slices(found, Offset(page, asked), Limit(asked)) :
              Got(r, slice, found, page * Limit(asked) < TotalOf(slice, found))
        /\ UNCHANGED <<entries, time>>

\* PaymentLinksService.listAnalytics
LinksPage(r) ==
    LET asked == reader[r].asked
        page == reader[r].page
    IN  /\ reader[r].pc = "reading" /\ reader[r].list = "links"
        /\ \E slice \in Slices(entries, Offset(page, asked), Limit(asked)) :
              Got(r, slice, entries, page * Limit(asked) < TotalOf(slice, entries))
        /\ UNCHANGED <<entries, time>>

\* InvoicesService.list.  A cursor is split at every ':', those of its own
\* time included, so what is passed for the id is "00" and the query fails.
InvoicesPage(r) ==
    /\ reader[r].pc = "reading" /\ reader[r].list = "invoices"
    /\ IF reader[r].page = 1
       THEN \E slice \in Slices(entries, 0, Limit(reader[r].asked)) :
               Got(r, slice, entries, Cardinality(entries) > Limit(reader[r].asked))
       ELSE reader' = [reader EXCEPT ![r].pc = "refused"]
    /\ UNCHANGED <<entries, time>>

ListingsNext ==
    \/ \E action \in Actions, at \in 1 .. MaxTime : Write(action, at)
    \/ Tick
    \/ \E r \in Readers :
          \/ \E list \in {"audit", "links", "invoices"}, asked \in PageLimits,
                action \in Actions \union {AnyAction} : StartPaging(r, list, asked, action)
          \/ AuditPage(r) \/ LinksPage(r) \/ InvoicesPage(r)

ListingsSpec == ListingsInit /\ [][ListingsNext]_listingsVars

-----------------------------------------------------------------------------
ListingsTypeOK ==
    /\ entries \subseteq EntryRows /\ time \in 1 .. MaxTime
    /\ \A r \in Readers :
          /\ reader[r].pc \in {"idle", "reading", "done", "refused"}
          /\ reader[r].asked \in PageLimits \union {1} /\ reader[r].page \in 1 .. MaxRows + 1
          /\ reader[r].read \subseteq entries /\ reader[r].had \subseteq entries

Untied(x) == \A y \in entries \ {x} : y.at # x.at

\* A client that reads to the end has every row that was there when it began
\* and shares its created_at with no other: rows added meanwhile, at the
\* front or a tick behind it, push the others to later pages, so one may come
\* twice but none is passed over, whatever limit is asked for and whatever
\* limit is given (audit-logs 40-76, payment-links 65-92, invoices.list).
NothingMissed ==
    \A r \in Readers : reader[r].pc = "done" =>
        \A x \in reader[r].had : Untied(x) => x \in reader[r].read
=============================================================================
