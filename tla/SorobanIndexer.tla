--------------------------- MODULE SorobanIndexer ---------------------------
(***************************************************************************)
(* The Soroban event indexer (soroban_indexer.rs and its loop in main.rs): *)
(* every six seconds it asks the RPC server for the contract's events from *)
(* a ledger on, stores those of one page and moves to the ledger before    *)
(* the latest of the answer.                                               *)
(*                                                                         *)
(* Abstractions.  An event is its place in the chain's history, which is   *)
(* the order of a page; its topics, and the invoice they resolve to, are   *)
(* left out.  The SELECT and the INSERT ... ON CONFLICT DO NOTHING of one  *)
(* event are one step: whatever comes between, the row is there after it.  *)
(* An answer without a result or with an error leaves the cursor.          *)
(***************************************************************************)
EXTENDS Integers, Sequences, FiniteSets

CONSTANTS
    Indexers,   \* reconciler processes with the indexer configured
    PageSize,   \* 200
    MaxLedger, MaxEvents    \* bounds: ledgers closed, events emitted

ASSUME IndexerAssumption ==
    PageSize \in Nat \ {0} /\ MaxLedger \in Nat \ {0} /\ MaxEvents \in Nat

VARIABLES
    ledger,     \* the latest ledger
    chain,      \* the ledger of each event, in order
    stored,     \* rows of soroban_contract_events
    start,      \* start_ledger of each indexer
    page, latest,   \* events of the answer still to store, and its latestLedger
    asked,      \* indexers that have an answer
    cut         \* events a full page left out

indexerVars == <<ledger, chain, stored, start, page, latest, asked, cut>>

IndexerInit ==
    /\ ledger = 1 /\ chain = <<>> /\ stored = {} /\ cut = {} /\ asked = {}
    /\ start = [i \in Indexers |-> 0]
    /\ page = [i \in Indexers |-> {}] /\ latest = [i \in Indexers |-> 0]

CloseLedger ==
    /\ ledger < MaxLedger /\ ledger' = ledger + 1
    /\ UNCHANGED <<chain, stored, start, page, latest, asked, cut>>

\* The server may still be taking in the events of the latest ledger.
Emit ==
    /\ Len(chain) < MaxEvents /\ chain' = Append(chain, ledger)
    /\ UNCHANGED <<ledger, stored, start, page, latest, asked, cut>>

From(n) == {e \in DOMAIN chain : chain[e] >= n}
Page(n) == {e \in From(n) : Cardinality({d \in From(n) : d < e}) < PageSize}

\* getEvents
Ask(i) ==
    /\ i \notin asked
    /\ asked' = asked \union {i}
    /\ page' = [page EXCEPT ![i] = Page(start[i])]
    /\ cut' = cut \union (From(start[i]) \ Page(start[i]))
    /\ latest' = [latest EXCEPT ![i] = ledger]
    /\ UNCHANGED <<ledger, chain, stored, start>>

Store(i) == \E e \in page[i] :
    /\ \A d \in page[i] : e <= d
    /\ stored' = stored \union {e}
    /\ page' = [page EXCEPT ![i] = @ \ {e}]
    /\ UNCHANGED <<ledger, chain, start, latest, asked, cut>>

\* Mutant: the cursor moves past the latest ledger.
StartAfter(n) == n + 1

\* latest.saturating_sub(1)
NextStart(n) == IF n = 0 THEN 0 ELSE n - 1

Advance(i) ==
    /\ i \in asked /\ page[i] = {}
    /\ start' = [start EXCEPT ![i] = NextStart(latest[i])]
    /\ asked' = asked \ {i}
    /\ UNCHANGED <<ledger, chain, stored, page, latest, cut>>

\* A query fails: the next round asks from the same ledger.
RoundFails(i) ==
    /\ i \in asked
    /\ asked' = asked \ {i} /\ page' = [page EXCEPT ![i] = {}]
    /\ UNCHANGED <<ledger, chain, stored, start, latest, cut>>

\* The cursor is a local variable.
Restart(i) ==
    /\ start' = [start EXCEPT ![i] = 0] /\ page' = [page EXCEPT ![i] = {}]
    /\ asked' = asked \ {i}
    /\ UNCHANGED <<ledger, chain, stored, latest, cut>>

IndexerNext ==
    \/ CloseLedger \/ Emit
    \/ \E i \in Indexers : Ask(i) \/ Store(i) \/ Advance(i) \/ RoundFails(i) \/ Restart(i)

IndexerSpec == IndexerInit /\ [][IndexerNext]_indexerVars

-----------------------------------------------------------------------------
IndexerTypeOK ==
    /\ ledger \in Nat /\ chain \in Seq(Nat)
    /\ start \in [Indexers -> Nat] /\ latest \in [Indexers -> Nat]
    /\ page \in [Indexers -> SUBSET DOMAIN chain]
    /\ stored \subseteq DOMAIN chain /\ cut \subseteq DOMAIN chain

\* Every event before an indexer's cursor is stored, unless a full page left
\* it out, whichever rounds failed half-way, however late the events of the
\* latest ledger come and however many indexers run (main.rs line 70: the
\* next round asks again from before the latest ledger of the answer, whose
\* events may not all have been there).
IndexedBelowCursor ==
    \A i \in Indexers : \A e \in DOMAIN chain :
        chain[e] < start[i] => e \in stored \union cut
=============================================================================
