--------------------------- MODULE ServicesProofs ---------------------------
(***************************************************************************)
(* Proofs about the smaller components of the API, about refunds and       *)
(* disputes, and about the Soroban indexer, for any number of indexers,    *)
(* viewers, updates, checks, readers, deliveries under way, invoices and   *)
(* calls.                                                                  *)
(***************************************************************************)
EXTENDS SorobanIndexer, LiveFeeds, Schedules, Compliance, Listings, WebhookSecrets,
        AfterSale, HealthChecks, SumLemmas

-----------------------------------------------------------------------------
(* SorobanIndexer: the inductive invariant.  An indexer's cursor and the    *)
(* ledger it has been answered with are never ahead of the chain, so an     *)
(* event that comes later is at neither; and what lies before the ledger of *)
(* an answer is stored, left out by a full page, or in the page that is     *)
(* still being stored.                                                      *)

IndexerTypes ==
    /\ ledger \in Nat /\ chain \in Seq(Nat)
    /\ start \in [Indexers -> Nat] /\ latest \in [Indexers -> Nat]
    /\ page \in [Indexers -> SUBSET DOMAIN chain]
    /\ stored \subseteq DOMAIN chain /\ cut \subseteq DOMAIN chain

NotAhead == \A i \in Indexers : start[i] <= ledger /\ latest[i] <= ledger

PageAnswered(i) ==
    i \in asked => \A e \in DOMAIN chain :
        chain[e] < latest[i] => e \in stored \union cut \union page[i]

IndexerInv ==
    /\ IndexerTypes
    /\ NotAhead
    /\ \A i \in Indexers : PageAnswered(i)
    /\ IndexedBelowCursor

-----------------------------------------------------------------------------
LEMMA InitIndexer == IndexerInit => IndexerInv
  BY DEF IndexerInit, IndexerInv, IndexerTypes, NotAhead, PageAnswered, IndexedBelowCursor

\* A ledger that closes moves no event and no cursor.
LEMMA CloseLedgerKeeps == IndexerInv /\ CloseLedger => IndexerInv'
  BY DEF CloseLedger, IndexerInv, IndexerTypes, NotAhead, PageAnswered, IndexedBelowCursor

\* A new event is in the latest ledger, which no cursor has passed.
LEMMA EmitKeeps == IndexerInv /\ Emit => IndexerInv'
<1> SUFFICES ASSUME IndexerInv, Emit PROVE IndexerInv'
  OBVIOUS
<1> USE DEF IndexerInv, IndexerTypes, NotAhead, Emit
<1>1. /\ DOMAIN chain' = 1..(Len(chain) + 1) /\ DOMAIN chain = 1..Len(chain)
      /\ chain' \in Seq(Nat)
      /\ \A e \in DOMAIN chain : chain'[e] = chain[e]
      /\ chain'[Len(chain) + 1] = ledger
  OBVIOUS
<1>2. DOMAIN chain \subseteq DOMAIN chain'
  BY <1>1
<1>3. IndexerTypes' /\ NotAhead'
  BY <1>1, <1>2
<1>4. \A e \in DOMAIN chain' : e \in DOMAIN chain \/ chain'[e] = ledger
  BY <1>1
<1>5. ASSUME NEW i \in Indexers PROVE PageAnswered(i)'
  BY <1>1, <1>4 DEF PageAnswered
<1>6. IndexedBelowCursor'
  BY <1>1, <1>4 DEF IndexedBelowCursor
<1>7. QED
  BY <1>3, <1>5, <1>6

\* What an answer covers is in its page or was left out by it, and what lies
\* before it was there already.
LEMMA AskKeeps == ASSUME NEW i \in Indexers PROVE IndexerInv /\ Ask(i) => IndexerInv'
<1> SUFFICES ASSUME IndexerInv, Ask(i) PROVE IndexerInv'
  OBVIOUS
<1> USE DEF IndexerInv, IndexerTypes, NotAhead, Ask
<1>1. /\ Page(start[i]) \subseteq From(start[i]) /\ From(start[i]) \subseteq DOMAIN chain
      /\ \A e \in DOMAIN chain : chain[e] >= start[i] => e \in From(start[i])
  BY DEF Page, From
<1>2. IndexerTypes' /\ NotAhead'
  BY <1>1
<1>3. ASSUME NEW k \in Indexers PROVE PageAnswered(k)'
  <2> SUFFICES ASSUME k \in asked', NEW e \in DOMAIN chain, chain[e] < latest'[k]
               PROVE e \in stored \union cut' \union page'[k]
    BY DEF PageAnswered
  <2>1. CASE k = i
    <3>1. CASE chain[e] < start[i]
      BY <2>1, <3>1 DEF IndexedBelowCursor
    <3>2. CASE ~(chain[e] < start[i])
      <4>1. chain[e] \in Nat /\ start[i] \in Nat
        OBVIOUS
      <4>2. e \in From(start[i])
        BY <1>1, <3>2, <4>1
      <4> QED
        BY <2>1, <4>2
    <3> QED
      BY <3>1, <3>2
  <2>2. CASE k # i
    BY <2>2 DEF PageAnswered
  <2> QED
    BY <2>1, <2>2
<1>4. IndexedBelowCursor'
  BY DEF IndexedBelowCursor
<1> QED
  BY <1>2, <1>3, <1>4

LEMMA StoreKeeps == ASSUME NEW i \in Indexers PROVE IndexerInv /\ Store(i) => IndexerInv'
<1> SUFFICES ASSUME IndexerInv, Store(i) PROVE IndexerInv'
  OBVIOUS
<1> USE DEF IndexerInv, IndexerTypes, NotAhead
<1>1. PICK e \in page[i] : /\ stored' = stored \union {e}
                           /\ page' = [page EXCEPT ![i] = @ \ {e}]
                           /\ UNCHANGED <<ledger, chain, start, latest, asked, cut>>
  BY DEF Store
<1>2. IndexerTypes' /\ NotAhead'
  BY <1>1
<1>3. ASSUME NEW k \in Indexers PROVE PageAnswered(k)'
  BY <1>1 DEF PageAnswered
<1>4. IndexedBelowCursor'
  BY <1>1 DEF IndexedBelowCursor
<1> QED
  BY <1>2, <1>3, <1>4

\* The next cursor is not past the answer, whose page is stored by now.
LEMMA AdvanceKeeps == ASSUME NEW i \in Indexers PROVE IndexerInv /\ Advance(i) => IndexerInv'
<1> SUFFICES ASSUME IndexerInv, Advance(i) PROVE IndexerInv'
  OBVIOUS
<1> USE DEF IndexerInv, IndexerTypes, NotAhead, Advance
<1>1. NextStart(latest[i]) \in Nat /\ NextStart(latest[i]) <= latest[i]
  BY DEF NextStart
<1>2. IndexerTypes' /\ NotAhead'
  BY <1>1
<1>3. ASSUME NEW k \in Indexers PROVE PageAnswered(k)'
  BY DEF PageAnswered
<1>4. ASSUME NEW k \in Indexers, NEW e \in DOMAIN chain, chain[e] < start'[k]
      PROVE e \in stored \union cut
  <2>1. CASE k = i
    <3>1. chain[e] < latest[i]
      BY <1>1, <1>4, <2>1
    <3> QED
      BY <2>1, <3>1 DEF PageAnswered
  <2>2. CASE k # i
    BY <1>4, <2>2 DEF IndexedBelowCursor
  <2> QED
    BY <2>1, <2>2
<1>5. IndexedBelowCursor'
  BY <1>4 DEF IndexedBelowCursor
<1> QED
  BY <1>2, <1>3, <1>5

LEMMA RoundFailsKeeps == ASSUME NEW i \in Indexers PROVE IndexerInv /\ RoundFails(i) => IndexerInv'
  BY DEF RoundFails, IndexerInv, IndexerTypes, NotAhead, PageAnswered, IndexedBelowCursor

\* A process that starts again asks from ledger 0, before which there is nothing.
LEMMA RestartKeeps == ASSUME NEW i \in Indexers PROVE IndexerInv /\ Restart(i) => IndexerInv'
<1> SUFFICES ASSUME IndexerInv, Restart(i) PROVE IndexerInv'
  OBVIOUS
<1> USE DEF IndexerInv, IndexerTypes, NotAhead, Restart
<1>1. IndexerTypes' /\ NotAhead'
  OBVIOUS
<1>2. ASSUME NEW k \in Indexers PROVE PageAnswered(k)'
  BY DEF PageAnswered
<1>3. \A e \in DOMAIN chain : ~(chain[e] < 0)
  OBVIOUS
<1>4. IndexedBelowCursor'
  BY <1>3 DEF IndexedBelowCursor
<1> QED
  BY <1>1, <1>2, <1>4

-----------------------------------------------------------------------------
LEMMA IndexerStep == IndexerInv /\ [IndexerNext]_indexerVars => IndexerInv'
<1> SUFFICES ASSUME IndexerInv, [IndexerNext]_indexerVars PROVE IndexerInv'
  OBVIOUS
<1>1. CASE CloseLedger \/ Emit
  BY <1>1, CloseLedgerKeeps, EmitKeeps
<1>2. ASSUME NEW i \in Indexers,
             Ask(i) \/ Store(i) \/ Advance(i) \/ RoundFails(i) \/ Restart(i)
      PROVE IndexerInv'
  BY <1>2, AskKeeps, StoreKeeps, AdvanceKeeps, RoundFailsKeeps, RestartKeeps
<1>3. CASE UNCHANGED indexerVars
  BY <1>3 DEF indexerVars, IndexerInv, IndexerTypes, NotAhead, PageAnswered, IndexedBelowCursor
<1> QED
  BY <1>1, <1>2, <1>3 DEF IndexerNext

\* However many indexers run, wherever their rounds fail and however late the
\* events of a ledger appear, every event before an indexer's cursor is in
\* soroban_contract_events unless a full page left it out.
THEOREM NothingBelowTheCursor == IndexerSpec => []IndexedBelowCursor
<1>1. IndexerInv => IndexedBelowCursor
  BY DEF IndexerInv
<1> QED
  BY InitIndexer, IndexerStep, <1>1, PTL DEF IndexerSpec

\* The type invariant: a page and the table hold events of the chain.
THEOREM IndexerTypeCorrect == IndexerSpec => []IndexerTypeOK
<1>1. IndexerInv => IndexerTypeOK
  BY DEF IndexerInv, IndexerTypes, IndexerTypeOK
<1> QED
  BY InitIndexer, IndexerStep, <1>1, PTL DEF IndexerSpec

-----------------------------------------------------------------------------
(* Schedules: the inductive invariant.  Until two updates overlap, an       *)
(* update that is about to write has read the interval the row still has.   *)

UpdateKnows == \A u \in Updates :
    update[u].pc = "write" =>
        update[u].read \in Intervals /\ (overlapped \/ update[u].read = interval)

SchedulesInv == SchedulesTypeOK /\ UpdateKnows /\ DateFollowsInterval

LEMMA SchedulesStep == SchedulesInv /\ [SchedulesNext]_schedulesVars => SchedulesInv'
<1> SUFFICES ASSUME SchedulesInv, [SchedulesNext]_schedulesVars PROVE SchedulesInv'
  OBVIOUS
<1> USE DEF SchedulesInv, SchedulesTypeOK, UpdateKnows, DateFollowsInterval
<1> DEFINE UpdateStates == [pc : {"idle", "write", "done"}, interval : Intervals \union {Kept},
                            status : ScheduleStatuses \union {"kept"},
                            read : Intervals \union {Kept}]
<1>1. ASSUME NEW u \in Updates, NEW i \in Intervals \union {Kept},
             NEW s \in ScheduleStatuses \union {"kept"}, ReadSchedule(u, i, s)
      PROVE  SchedulesInv'
  <2>1. [pc |-> "write", interval |-> i, status |-> s, read |-> interval] \in UpdateStates
    OBVIOUS
  <2> QED
    BY <1>1, <2>1 DEF ReadSchedule
<1>2. ASSUME NEW u \in Updates, WriteSchedule(u) PROVE SchedulesInv'
  <2>1. /\ update[u] \in UpdateStates /\ [update[u] EXCEPT !.pc = "done"] \in UpdateStates
        /\ update[u].pc = "write" /\ update'[u].pc = "done"
        /\ \A v \in Updates \ {u} : update'[v] = update[v]
        /\ update' \in [Updates -> UpdateStates]
    BY <1>2 DEF WriteSchedule
  <2>2. SchedulesTypeOK' /\ UpdateKnows'
    <3>1. interval' \in Intervals
      <4>1. CASE update[u].interval = Kept
        BY <1>2, <2>1, <4>1 DEF WriteSchedule
      <4>2. CASE update[u].interval # Kept
        BY <1>2, <2>1, <4>2 DEF WriteSchedule
      <4> QED
        BY <4>1, <4>2
    <3> QED
      BY <1>2, <2>1, <3>1 DEF WriteSchedule
  <2>3. DateFollowsInterval'
    BY <1>2, <2>1 DEF WriteSchedule
  <2> QED
    BY <2>2, <2>3
<1>3. ASSUME NEW u \in Updates, UpdateFails(u) PROVE SchedulesInv'
  BY <1>3 DEF UpdateFails
<1>4. CASE RemoveSchedule
  BY <1>4 DEF RemoveSchedule, ScheduleStatuses
<1>5. CASE UNCHANGED schedulesVars
  BY <1>5 DEF schedulesVars
<1> QED
  BY <1>1, <1>2, <1>3, <1>4, <1>5 DEF SchedulesNext

LEMMA InitSchedules == SchedulesInit => SchedulesInv
<1>1. NoUpdate \in [pc : {"idle", "write", "done"}, interval : Intervals \union {Kept},
                    status : ScheduleStatuses \union {"kept"},
                    read : Intervals \union {Kept}]
  BY DEF NoUpdate
<1> QED
  BY <1>1 DEF SchedulesInit, SchedulesInv, SchedulesTypeOK, UpdateKnows, DateFollowsInterval,
              NoUpdate, ScheduleStatuses

\* Whatever updates bring and however many there are, the next run is dated
\* by the interval of the schedule until two of them overlap.
THEOREM DateFollows == SchedulesSpec => []DateFollowsInterval
<1>1. SchedulesInv => DateFollowsInterval
  BY DEF SchedulesInv
<1> QED
  BY InitSchedules, SchedulesStep, <1>1, PTL DEF SchedulesSpec

\* The type invariant: an update never writes "nothing given" for an interval.
THEOREM SchedulesTypeCorrect == SchedulesSpec => []SchedulesTypeOK
<1>1. SchedulesInv => SchedulesTypeOK
  BY DEF SchedulesInv
<1> QED
  BY InitSchedules, SchedulesStep, <1>1, PTL DEF SchedulesSpec

-----------------------------------------------------------------------------
(* LiveFeeds: the inductive invariant is the property itself, with the      *)
(* types and that only finitely many streams are open at a time.            *)

\* What Redis will do with the channel once it has taken every command.
WillSend == IF wire = <<>> THEN subscribed ELSE wire[Len(wire)] = "subscribe"

FeedsInv == FeedsTypeOK /\ IsFiniteSet(Viewing) /\ SubscriptionMatchesStreams

ViewerStates == {"idle", "open", "told", "closed"}
Commands == {"subscribe", "unsubscribe"}

\* A command that is sent is the last; one that is taken leaves the last.
LEMMA WireEnds ==
    ASSUME NEW w \in Seq(Commands)
    PROVE  /\ \A c \in Commands : /\ Append(w, c) \in Seq(Commands) /\ Append(w, c) # <<>>
                                  /\ Append(w, c)[Len(Append(w, c))] = c
           /\ w # <<>> => /\ Tail(w) \in Seq(Commands) /\ Head(w) \in Commands
                          /\ Tail(w) = <<>> => Head(w) = w[Len(w)]
                          /\ Tail(w) # <<>> => Tail(w)[Len(Tail(w))] = w[Len(w)]
<1>1. ASSUME NEW c \in Commands
      PROVE  /\ Append(w, c) \in Seq(Commands) /\ Append(w, c) # <<>>
             /\ Append(w, c)[Len(Append(w, c))] = c
  OBVIOUS
<1>2. ASSUME w # <<>>
      PROVE  /\ Tail(w) \in Seq(Commands) /\ Head(w) \in Commands
             /\ Tail(w) = <<>> => Head(w) = w[Len(w)]
             /\ Tail(w) # <<>> => Tail(w)[Len(Tail(w))] = w[Len(w)]
  <2>1. Len(Tail(w)) = Len(w) - 1 /\ Len(w) \in Nat
    BY <1>2
  <2>2. /\ Tail(w) \in Seq(Commands) /\ Head(w) \in Commands /\ Head(w) = w[1]
        /\ \A i \in 1 .. Len(Tail(w)) : Tail(w)[i] = w[i + 1]
    BY <1>2
  <2>3. CASE Tail(w) = <<>>
    <3>1. Len(<<>>) = 0
      OBVIOUS
    <3>2. Len(Tail(w)) = 0
      BY <2>3, <3>1, Zenon
    <3>3. \A n \in Nat : 0 = n - 1 => n = 1
      OBVIOUS
    <3>4. Len(w) = 1
      BY <2>1, <3>2, <3>3, Zenon
    <3> QED
      BY <2>2, <2>3, <3>4
  <2>4. CASE Tail(w) # <<>>
    <3>1. Len(Tail(w)) \in 1 .. Len(Tail(w))
      BY <2>2, <2>4
    <3> QED
      BY <2>1, <2>2, <2>4, <3>1
  <2> QED
    BY <2>2, <2>3, <2>4
<1> QED
  BY <1>1, <1>2

\* Where neither the wire nor the streams change, nothing does.
LEMMA FeedsElsewhere ==
    ASSUME FeedsInv, FeedsTypeOK', UNCHANGED <<listeners, wire, subscribed, viewer>>
    PROVE  FeedsInv'
  BY DEF FeedsInv, SubscriptionMatchesStreams, Viewing

LEMMA OpenStreamKeeps == ASSUME FeedsInv, NEW v \in Viewers, OpenStream(v) PROVE FeedsInv'
<1> USE DEF FeedsInv
<1>1. /\ viewer[v] = "idle" /\ viewer' = [viewer EXCEPT ![v] = "open"]
      /\ listeners' = listeners + 1
      /\ wire' = IF listeners = 0 THEN Append(wire, "subscribe") ELSE wire
      /\ UNCHANGED <<paid, announced, subscribed, inbox, heard, settlementFeed>>
  BY DEF OpenStream
<1>2. wire \in Seq(Commands) /\ listeners \in Nat
  BY DEF FeedsTypeOK, Commands
<1>3. FeedsTypeOK'
  BY <1>1, <1>2, WireEnds DEF FeedsTypeOK, settlementFeed, Commands
<1>4. Viewing' = Viewing \union {v} /\ v \notin Viewing
  BY <1>1 DEF Viewing, FeedsTypeOK
<1>5. IsFiniteSet(Viewing') /\ listeners' = Cardinality(Viewing')
  BY <1>1, <1>4, FS_AddElement DEF SubscriptionMatchesStreams
<1>6. WillSend'
  <2>1. CASE listeners = 0
    BY <1>1, <1>2, <2>1, WireEnds DEF WillSend, Commands
  <2>2. CASE listeners # 0
    <3>1. Viewing # {}
      BY <2>2, FS_EmptySet DEF SubscriptionMatchesStreams
    <3> QED
      BY <1>1, <2>2, <3>1 DEF WillSend, SubscriptionMatchesStreams, FeedsTypeOK
  <2> QED
    BY <2>1, <2>2
<1> QED
  BY <1>3, <1>4, <1>5, <1>6 DEF SubscriptionMatchesStreams, WillSend

\* Some of the open streams end: those of one that closes, or all of them.
LEMMA TeardownKeeps ==
    ASSUME FeedsInv, NEW Ending \in SUBSET Viewing, Viewing' = Viewing \ Ending,
           Teardown(Cardinality(Ending)),
           viewer' \in [Viewers -> ViewerStates], inbox' \in Seq({"paid"}),
           UNCHANGED <<paid, announced, subscribed, heard, settlementFeed>>
    PROVE  FeedsInv'
<1> USE DEF FeedsInv
<1> DEFINE n == Cardinality(Ending)
<1>1. /\ IsFiniteSet(Ending) /\ n \in Nat /\ Cardinality(Viewing) \in Nat /\ n <= listeners
      /\ n > 0 <=> Ending # {}
  BY FS_Subset, FS_CardinalityType, FS_EmptySet DEF SubscriptionMatchesStreams
<1>2. IsFiniteSet(Viewing') /\ Cardinality(Viewing') = listeners - n
  <2>1. Viewing \cap Ending = Ending
    OBVIOUS
  <2>2. IsFiniteSet(Viewing \ Ending)
        /\ Cardinality(Viewing \ Ending) = Cardinality(Viewing) - Cardinality(Ending)
    BY <2>1, FS_Difference
  <2>3. listeners = Cardinality(Viewing)
    BY DEF SubscriptionMatchesStreams
  <2> QED
    BY <2>2, <2>3
<1>3. /\ listeners' = listeners - n
      /\ wire' = IF n > 0 /\ listeners - n <= 0 THEN Append(wire, "unsubscribe") ELSE wire
  BY DEF Teardown
<1>4. listeners' \in Nat /\ listeners' = Cardinality(Viewing') /\ (listeners' = 0 <=> Viewing' = {})
  <2>1. Cardinality(Viewing') = 0 <=> Viewing' = {}
    BY <1>2, FS_EmptySet
  <2>2. Cardinality(Viewing') \in Nat
    BY <1>2, FS_CardinalityType
  <2> QED
    BY <1>2, <1>3, <2>1, <2>2
<1>5. wire \in Seq(Commands)
  BY DEF FeedsTypeOK, Commands
<1>6. FeedsTypeOK'
  BY <1>3, <1>4, <1>5, WireEnds DEF FeedsTypeOK, settlementFeed, Commands, ViewerStates
<1> HIDE DEF n
<1>7. WillSend' = (Viewing' # {})
  <2>1. CASE n > 0 /\ listeners - n <= 0
    <3>1. Viewing' = {}
      BY <1>1, <1>3, <1>4, <2>1
    <3>2. wire' # <<>> /\ wire'[Len(wire')] = "unsubscribe"
      BY <1>3, <1>5, <2>1, WireEnds DEF Commands
    <3> QED
      BY <3>1, <3>2 DEF WillSend
  <2>2. CASE ~(n > 0 /\ listeners - n <= 0)
    <3>1. wire' = wire /\ subscribed' = subscribed
      BY <1>3, <2>2
    <3>2. Viewing' # {} <=> Viewing # {}
      BY <1>1, <1>3, <1>4, <2>2
    <3>3. WillSend = (Viewing # {})
      BY DEF SubscriptionMatchesStreams, WillSend
    <3> QED
      BY <3>1, <3>2, <3>3 DEF WillSend
  <2> QED
    BY <2>1, <2>2
<1> QED
  BY <1>2, <1>4, <1>6, <1>7 DEF SubscriptionMatchesStreams, WillSend

LEMMA CloseStreamKeeps == ASSUME FeedsInv, NEW v \in Viewers, CloseStream(v) PROVE FeedsInv'
<1>1. viewer \in [Viewers -> ViewerStates]
  BY DEF FeedsInv, FeedsTypeOK, ViewerStates
<1>2. /\ v \in Viewing /\ Viewing' = Viewing \ {v}
      /\ viewer' \in [Viewers -> ViewerStates]
  BY <1>1 DEF CloseStream, Viewing, ViewerStates
<1>3. Teardown(Cardinality({v}))
  BY FS_Singleton DEF CloseStream
<1>4. /\ inbox' \in Seq({"paid"})
      /\ UNCHANGED <<paid, announced, subscribed, heard, settlementFeed>>
  BY DEF CloseStream, FeedsInv, FeedsTypeOK
<1> QED
  BY <1>2, <1>3, <1>4, TeardownKeeps

LEMMA ReceiveKeeps == ASSUME FeedsInv, Receive PROVE FeedsInv'
<1>1. viewer \in [Viewers -> ViewerStates] /\ inbox \in Seq({"paid"}) /\ inbox # <<>>
  BY DEF FeedsInv, FeedsTypeOK, ViewerStates, Receive, OnMessage
<1>2. Viewing' = Viewing \ Viewing /\ viewer' \in [Viewers -> ViewerStates]
  BY <1>1 DEF Receive, Viewing, ViewerStates
<1>3. /\ Tail(inbox) \in Seq({"paid"}) /\ inbox' = Tail(inbox)
      /\ Teardown(Cardinality(Viewing))
      /\ UNCHANGED <<paid, announced, subscribed, heard, settlementFeed>>
  BY <1>1 DEF Receive, OnMessage
<1> QED
  BY <1>2, <1>3, TeardownKeeps

LEMMA RedisTakesKeeps == ASSUME FeedsInv, RedisTakes PROVE FeedsInv'
<1> USE DEF FeedsInv
<1>1. /\ wire # <<>> /\ wire \in Seq(Commands)
      /\ subscribed' = (Head(wire) = "subscribe") /\ wire' = Tail(wire)
      /\ UNCHANGED <<paid, announced, listeners, inbox, viewer, heard, settlementFeed>>
  BY DEF RedisTakes, FeedsTypeOK, Commands
<1>2. FeedsTypeOK'
  BY <1>1, WireEnds DEF FeedsTypeOK, settlementFeed, Commands
<1>3. WillSend' = WillSend
  BY <1>1, WireEnds DEF WillSend
<1>4. Viewing' = Viewing
  BY <1>1 DEF Viewing
<1> QED
  BY <1>1, <1>2, <1>3, <1>4 DEF SubscriptionMatchesStreams, WillSend

LEMMA FeedsStep == FeedsInv /\ [FeedsNext]_feedsVars => FeedsInv'
<1> SUFFICES ASSUME FeedsInv, [FeedsNext]_feedsVars PROVE FeedsInv'
  OBVIOUS
<1>1. ASSUME NEW v \in Viewers, OpenStream(v) \/ CloseStream(v) PROVE FeedsInv'
  BY <1>1, OpenStreamKeeps, CloseStreamKeeps
<1>2. CASE RedisTakes \/ Receive
  BY <1>2, RedisTakesKeeps, ReceiveKeeps
<1>3. CASE CommitPaid \/ Publish \/ PublisherDies
  <2>1. Append(inbox, "paid") \in Seq({"paid"}) /\ Viewing \subseteq Viewers
    BY DEF FeedsInv, FeedsTypeOK, Viewing
  <2>2. FeedsTypeOK' /\ UNCHANGED <<listeners, wire, subscribed, viewer>>
    <3>1. CASE CommitPaid
      BY <2>1, <3>1 DEF FeedsInv, CommitPaid, FeedsTypeOK, settlementFeed
    <3>2. CASE Publish
      BY <2>1, <3>2 DEF FeedsInv, Publish, FeedsTypeOK, settlementFeed
    <3>3. CASE PublisherDies
      BY <3>3 DEF FeedsInv, PublisherDies, FeedsTypeOK, settlementFeed
    <3> QED
      BY <1>3, <3>1, <3>2, <3>3
  <2> QED
    BY <2>2, FeedsElsewhere
<1>4. ASSUME NEW w \in Watchers, OpenWatch(w) \/ Query(w) \/ Subscribed(w) \/ CloseWatch(w)
      PROVE  FeedsInv'
  <2>1. FeedsTypeOK' /\ UNCHANGED <<listeners, wire, subscribed, viewer>>
    BY <1>4 DEF FeedsInv, OpenWatch, Query, Subscribed, CloseWatch, Watch, FeedsTypeOK, invoiceFeed
  <2> QED
    BY <2>1, FeedsElsewhere
<1>5. CASE Settle \/ PublishStatusChange \/ UNCHANGED feedsVars
  <2>1. FeedsTypeOK' /\ UNCHANGED <<listeners, wire, subscribed, viewer>>
    BY <1>5 DEF FeedsInv, Settle, PublishStatusChange, FeedsTypeOK, invoiceFeed, feedsVars
  <2> QED
    BY <2>1, FeedsElsewhere
<1> QED
  BY <1>1, <1>2, <1>3, <1>4, <1>5 DEF FeedsNext

LEMMA InitFeeds == FeedsInit => FeedsInv
<1> SUFFICES ASSUME FeedsInit PROVE FeedsInv
  OBVIOUS
<1>1. Viewing = {} /\ wire = <<>> /\ subscribed = FALSE /\ listeners = 0
  BY DEF FeedsInit, Viewing
<1>2. <<>> \in Seq({"subscribe", "unsubscribe"}) /\ <<>> \in Seq({"paid"})
  OBVIOUS
<1>3. FeedsTypeOK
  BY <1>2 DEF FeedsInit, FeedsTypeOK
<1>4. IsFiniteSet(Viewing) /\ listeners = Cardinality(Viewing)
  BY <1>1, FS_EmptySet
<1> QED
  BY <1>1, <1>3, <1>4 DEF FeedsInv, SubscriptionMatchesStreams

\* In whatever order any number of streams open, close and complete, and
\* however long Redis takes, the channel ends up subscribed exactly while a
\* stream is open.
THEOREM ChannelFollowsStreams == FeedsSpec => []SubscriptionMatchesStreams
<1>1. FeedsInv => SubscriptionMatchesStreams
  BY DEF FeedsInv
<1> QED
  BY InitFeeds, FeedsStep, <1>1, PTL DEF FeedsSpec

\* The type invariant: in particular the count of streams never falls below 0.
THEOREM FeedsTypeCorrect == FeedsSpec => []FeedsTypeOK
<1>1. FeedsInv => FeedsTypeOK
  BY DEF FeedsInv
<1> QED
  BY InitFeeds, FeedsStep, <1>1, PTL DEF FeedsSpec

-----------------------------------------------------------------------------
(* Compliance: the inductive invariant.  What a check counts against the    *)
(* limit it has added to the set of its hour before, and the set only       *)
(* grows, so the last check that was found within the limit has counted     *)
(* every other one.                                                         *)

LEMMA TotalSums ==
    ASSUME NEW S, IsFiniteSet(S), NEW w, w = [x \in S |-> x]
    PROVE  \E g : Sums(g, w, S) /\ Total(S) = g[S]
<1> DEFINE Def(g) == g = [s \in SUBSET S |-> IF s = {} THEN 0 ELSE AnyOf(s) + g[s \ {AnyOf(s)}]]
<1>1. ASSUME NEW g PROVE Def(g) <=> Sums(g, w, S)
  <2>1. \A s \in SUBSET S : (IF s = {} THEN 0 ELSE AnyOf(s) + g[s \ {AnyOf(s)}])
                                = (IF s = {} THEN 0 ELSE w[AnyOf(s)] + g[s \ {AnyOf(s)}])
    BY AnyOfIn
  <2> QED
    BY <2>1 DEF Sums
<1>2. Total(S) = (CHOOSE g : Def(g))[S]
  BY DEF Total, Identity, MapThenSumSet, MapThenFoldSet, AnyOf
<1>3. Def(CHOOSE g : Def(g))
  <2>1. \E g : Def(g)
    BY <1>1, SumsExist
  <2> HIDE DEF Def
  <2> QED
    BY <2>1
<1> QED
  BY <1>1, <1>2, <1>3

\* The total of a set of amounts is one, and a larger set has no smaller one.
LEMMA TotalGrows ==
    ASSUME NEW B \in SUBSET Nat, IsFiniteSet(B), NEW A \in SUBSET B
    PROVE  Total(A) \in Int /\ Total(B) \in Int /\ Total(A) <= Total(B)
<1>0. PICK v, w : v = [x \in A |-> x] /\ w = [x \in B |-> x]
  OBVIOUS
<1>1. IsFiniteSet(A)
  BY FS_Subset
<1>2. PICK g : Sums(g, v, A) /\ Total(A) = g[A]
  BY <1>0, <1>1, TotalSums
<1>3. PICK h : Sums(h, w, B) /\ Total(B) = h[B]
  BY <1>0, TotalSums
<1>4. w \in [B -> Nat] /\ w \in [B -> Int] /\ \A x \in A : w[x] = v[x]
  BY <1>0
<1>5. h[B] \in Int /\ g[A] \in Int /\ g[A] <= h[B]
  BY <1>2, <1>3, <1>4, SumsPart
<1> QED
  BY <1>2, <1>3, <1>5

LEMMA TotalOfNone == Total({}) = 0
<1>1. PICK g : Sums(g, [x \in {} |-> x], {}) /\ Total({}) = g[{}]
  BY FS_EmptySet, TotalSums
<1>2. g[{}] = 0
  BY <1>1, SumsStep
<1> QED
  BY <1>1, <1>2

Counted(c) == check[c].vel \in {"read", "within", "over"}
Within(h) == {check[c].cents : c \in {d \in Checks : check[d].hour = h /\ check[d].vel = "within"}}

CountedFirst ==
    /\ \A c \in Checks : check[c].vel # "idle" =>
          check[c].hour \in 1..MaxClock /\ check[c].cents \in Cents
    /\ \A c \in Checks : Counted(c) => check[c].cents \in velocity[check[c].hour]
    /\ \A h \in 1..MaxClock : IsFiniteSet(velocity[h])

WithinLimit == \A h \in 1..MaxClock : Total(Within(h)) <= VelocityLimit

ComplianceInv == ComplianceTypeOK /\ CountedFirst /\ WithinLimit

CheckStates == [vel : {"idle", "add", "read", "within", "over"},
                screen : {"idle", "get", "ask"} \union Verdicts,
                payer : Payers, cents : Cents \union {0}, hour : 0..MaxClock]

LEMMA InitCompliance == ComplianceInit => ComplianceInv
<1> SUFFICES ASSUME ComplianceInit PROVE ComplianceInv
  OBVIOUS
<1>1. NoCheck \in CheckStates /\ NoCheck.vel = "idle"
  BY ComplianceAssumption DEF NoCheck, CheckStates
<1>2. ComplianceTypeOK
  BY <1>1, ComplianceAssumption DEF ComplianceInit, ComplianceTypeOK, CheckStates
<1>3. \A h \in 1..MaxClock : Within(h) = {} /\ velocity[h] = {}
  BY <1>1 DEF ComplianceInit, Within
<1>4. CountedFirst
  BY <1>1, <1>3, FS_EmptySet DEF ComplianceInit, CountedFirst, Counted
<1>5. WithinLimit
  BY <1>3, TotalOfNone, ComplianceAssumption DEF WithinLimit
<1> QED
  BY <1>2, <1>4, <1>5 DEF ComplianceInv

\* A step that counts nothing as within the limit that was not before.
LEMMA NoneWithin ==
    ASSUME ComplianceInv, ComplianceTypeOK', CountedFirst',
           \A h \in 1..MaxClock : Within(h)' \subseteq Within(h)
    PROVE  ComplianceInv'
<1> SUFFICES ASSUME NEW h \in 1..MaxClock PROVE Total(Within(h)') <= VelocityLimit
  BY DEF ComplianceInv, WithinLimit
<1>1. Within(h) \subseteq velocity[h] /\ IsFiniteSet(velocity[h]) /\ velocity[h] \subseteq Nat
  <2>1. Within(h) \subseteq velocity[h] /\ IsFiniteSet(velocity[h])
    BY DEF ComplianceInv, CountedFirst, Counted, Within
  <2>2. velocity[h] \subseteq Cents
    BY DEF ComplianceInv, ComplianceTypeOK
  <2> QED
    BY <2>1, <2>2, ComplianceAssumption
<1>2. IsFiniteSet(Within(h)) /\ Within(h) \in SUBSET Nat
  BY <1>1, FS_Subset
<1>3. /\ Total(Within(h)') \in Int /\ Total(Within(h)) \in Int
      /\ Total(Within(h)') <= Total(Within(h))
  BY <1>2, TotalGrows
<1> QED
  BY <1>3, ComplianceAssumption DEF ComplianceInv, WithinLimit

LEMMA ReadVolumeKeeps == ASSUME ComplianceInv, NEW c \in Checks, ReadVolume(c) PROVE ComplianceInv'
<1>1. ComplianceTypeOK /\ CountedFirst /\ WithinLimit
  BY DEF ComplianceInv
<1>2. PICK v \in {"within", "over"} :
         /\ check' = [check EXCEPT ![c].vel = v]
         /\ v = "within" <=> Total(velocity[check[c].hour]) <= VelocityLimit
  BY DEF ReadVolume
<1>3. check[c].vel = "read" /\ UNCHANGED <<clock, velocity, cached>>
  BY DEF ReadVolume
<1>4. /\ check[c] \in CheckStates /\ [check[c] EXCEPT !.vel = v] \in CheckStates
      /\ check'[c].vel = v /\ check'[c].hour = check[c].hour /\ check'[c].cents = check[c].cents
      /\ \A d \in Checks \ {c} : check'[d] = check[d]
  BY <1>1, <1>2 DEF ComplianceTypeOK, CheckStates
<1>5. ComplianceTypeOK'
  BY <1>1, <1>2, <1>3, <1>4 DEF ComplianceTypeOK, CheckStates
<1>6. CountedFirst'
  BY <1>1, <1>3, <1>4 DEF CountedFirst, Counted
<1>7. ASSUME NEW h \in 1..MaxClock PROVE Total(Within(h)') <= VelocityLimit
  <2>1. Within(h)' \subseteq velocity[h] /\ IsFiniteSet(velocity[h]) /\ velocity[h] \subseteq Nat
    <3>1. \A d \in Checks : check'[d].hour = h /\ check'[d].vel = "within"
                              => check'[d].cents \in velocity[h]
      BY <1>3, <1>6 DEF CountedFirst, Counted
    <3>2. Within(h)' \subseteq velocity[h]
      BY <3>1 DEF Within
    <3>3. IsFiniteSet(velocity[h])
      BY <1>1 DEF CountedFirst
    <3>4. velocity[h] \subseteq Nat
      BY <1>1, ComplianceAssumption DEF ComplianceTypeOK
    <3> QED
      BY <3>2, <3>3, <3>4
  <2>2. CASE h = check[c].hour /\ v = "within"
    <3>1. /\ Total(Within(h)') \in Int /\ Total(velocity[h]) \in Int
          /\ Total(Within(h)') <= Total(velocity[h])
      BY <2>1, TotalGrows
    <3> QED
      BY <1>2, <2>2, <3>1, ComplianceAssumption
  <2>3. CASE ~(h = check[c].hour /\ v = "within")
    <3>1. Within(h)' \subseteq Within(h)
      BY <1>3, <1>4, <2>3 DEF Within
    <3>2. Within(h) \subseteq velocity[h]
      BY <1>1 DEF CountedFirst, Counted, Within
    <3>3. IsFiniteSet(Within(h)) /\ Within(h) \in SUBSET Nat
      BY <2>1, <3>2, FS_Subset
    <3>4. /\ Total(Within(h)') \in Int /\ Total(Within(h)) \in Int
          /\ Total(Within(h)') <= Total(Within(h))
      BY <3>1, <3>3, TotalGrows
    <3> QED
      BY <1>1, <3>4, ComplianceAssumption DEF WithinLimit
  <2> QED
    BY <2>2, <2>3
<1> QED
  BY <1>5, <1>6, <1>7 DEF ComplianceInv, WithinLimit

LEMMA AddVolumeKeeps == ASSUME ComplianceInv, NEW c \in Checks, AddVolume(c) PROVE ComplianceInv'
<1>1. ComplianceTypeOK /\ CountedFirst /\ WithinLimit
  BY DEF ComplianceInv
<1>2. /\ check[c].vel = "add" /\ check' = [check EXCEPT ![c].vel = "read"]
      /\ velocity' = [velocity EXCEPT ![check[c].hour] = @ \union {check[c].cents}]
      /\ UNCHANGED <<clock, cached>>
  BY DEF AddVolume
<1>3. /\ check[c] \in CheckStates /\ [check[c] EXCEPT !.vel = "read"] \in CheckStates
      /\ check'[c].vel = "read" /\ check'[c].hour = check[c].hour /\ check'[c].cents = check[c].cents
      /\ \A d \in Checks \ {c} : check'[d] = check[d]
      /\ check[c].hour \in 1..MaxClock
  BY <1>1, <1>2 DEF ComplianceTypeOK, CheckStates, CountedFirst
<1>4. \A h \in 1..MaxClock :
         velocity'[h] = IF h = check[c].hour THEN velocity[h] \union {check[c].cents}
                        ELSE velocity[h]
  BY <1>1, <1>2 DEF ComplianceTypeOK
<1>5. ComplianceTypeOK'
  <2>1. velocity' \in [1..MaxClock -> SUBSET Cents]
    BY <1>1, <1>2 DEF ComplianceTypeOK, CountedFirst
  <2> QED
    BY <1>1, <1>2, <1>3, <2>1 DEF ComplianceTypeOK, CheckStates
<1>6. CountedFirst'
  <2>1. \A h \in 1..MaxClock : IsFiniteSet(velocity'[h])
    <3>1. \A h \in 1..MaxClock : IsFiniteSet(velocity[h] \union {check[c].cents})
      BY <1>1, FS_AddElement DEF CountedFirst
    <3> QED
      BY <1>1, <1>4, <3>1 DEF CountedFirst
  <2>2. \A d \in Checks : Counted(d)' => check'[d].cents \in velocity'[check'[d].hour]
    <3> SUFFICES ASSUME NEW d \in Checks, Counted(d)'
                 PROVE  check'[d].cents \in velocity'[check'[d].hour]
      OBVIOUS
    <3>1. CASE d = c
      BY <1>3, <1>4, <3>1
    <3>2. CASE d # c
      BY <1>1, <1>3, <1>4, <3>2 DEF CountedFirst, Counted
    <3> QED
      BY <3>1, <3>2
  <2> QED
    BY <1>1, <1>2, <1>3, <2>1, <2>2 DEF CountedFirst
<1>7. \A h \in 1..MaxClock : Within(h)' \subseteq Within(h)
  BY <1>3 DEF Within
<1> QED
  BY <1>5, <1>6, <1>7, NoneWithin

LEMMA OthersOfCheckKeep ==
    ASSUME ComplianceInv, NEW c \in Checks,
           \/ \E p \in Payers, cents \in Cents : BeginCheck(c, p, cents)
           \/ GetVerdict(c)
           \/ \E verdict \in Verdicts : AskProvider(c, verdict)
    PROVE  ComplianceInv'
<1>1. ComplianceTypeOK /\ CountedFirst
  BY DEF ComplianceInv
<1>2. ASSUME NEW p \in Payers, NEW cents \in Cents, BeginCheck(c, p, cents)
      PROVE  ComplianceInv'
  <2> DEFINE new == [vel |-> "add", screen |-> "get", payer |-> p, cents |-> cents, hour |-> clock]
  <2>1. new \in CheckStates /\ new.vel = "add" /\ new.hour \in 1..MaxClock /\ new.cents \in Cents
    BY <1>1 DEF CheckStates, ComplianceTypeOK
  <2>2. /\ check' = [check EXCEPT ![c] = new] /\ UNCHANGED <<clock, velocity, cached>>
    BY <1>2 DEF BeginCheck
  <2> HIDE DEF new
  <2>3. check'[c] = new /\ \A d \in Checks \ {c} : check'[d] = check[d]
    BY <1>1, <2>2 DEF ComplianceTypeOK
  <2>4. ComplianceTypeOK' /\ CountedFirst'
    BY <1>1, <2>1, <2>2, <2>3 DEF ComplianceTypeOK, CheckStates, CountedFirst, Counted
  <2>5. \A h \in 1..MaxClock : Within(h)' \subseteq Within(h)
    BY <2>1, <2>3 DEF Within
  <2> QED
    BY <2>4, <2>5, NoneWithin
<1>3. ASSUME NEW s \in {"ask"} \union Verdicts, check' = [check EXCEPT ![c].screen = s],
             UNCHANGED <<clock, velocity>>, cached' \in [Payers -> SUBSET Verdicts]
      PROVE  ComplianceInv'
  <2>1. /\ check[c] \in CheckStates /\ [check[c] EXCEPT !.screen = s] \in CheckStates
        /\ check'[c].vel = check[c].vel /\ check'[c].hour = check[c].hour
        /\ check'[c].cents = check[c].cents
        /\ \A d \in Checks \ {c} : check'[d] = check[d]
    BY <1>1, <1>3 DEF ComplianceTypeOK, CheckStates
  <2>2. ComplianceTypeOK' /\ CountedFirst'
    BY <1>1, <1>3, <2>1 DEF ComplianceTypeOK, CheckStates, CountedFirst, Counted
  <2>3. \A h \in 1..MaxClock : Within(h)' \subseteq Within(h)
    BY <2>1 DEF Within
  <2> QED
    BY <2>2, <2>3, NoneWithin
<1>4. CASE GetVerdict(c)
  <2> DEFINE found == cached[check[c].payer]
  <2>1. found \subseteq Verdicts
    BY <1>1 DEF ComplianceTypeOK
  <2>2. (IF found = {} THEN "ask" ELSE CHOOSE v \in found : TRUE) \in {"ask"} \union Verdicts
    BY <2>1
  <2> QED
    BY <1>1, <1>3, <1>4, <2>2 DEF GetVerdict, ComplianceTypeOK
<1>5. ASSUME NEW verdict \in Verdicts, AskProvider(c, verdict) PROVE ComplianceInv'
  BY <1>1, <1>3, <1>5 DEF AskProvider, ComplianceTypeOK
<1> QED
  BY <1>2, <1>4, <1>5

LEMMA ComplianceStep == ComplianceInv /\ [ComplianceNext]_complianceVars => ComplianceInv'
<1> SUFFICES ASSUME ComplianceInv, [ComplianceNext]_complianceVars PROVE ComplianceInv'
  OBVIOUS
<1>1. CASE NextHour \/ (\E p \in Payers : VerdictExpires(p)) \/ UNCHANGED complianceVars
  <2>1. UNCHANGED <<velocity, check>>
    BY <1>1 DEF NextHour, VerdictExpires, complianceVars
  <2>2. ComplianceTypeOK'
    BY <1>1, <2>1, ComplianceAssumption
       DEF NextHour, VerdictExpires, complianceVars, ComplianceInv, ComplianceTypeOK
  <2> QED
    BY <2>1, <2>2 DEF ComplianceInv, CountedFirst, Counted, WithinLimit, Within
<1>2. ASSUME NEW c \in Checks,
             \/ \E p \in Payers, cents \in Cents : BeginCheck(c, p, cents)
             \/ AddVolume(c) \/ ReadVolume(c) \/ GetVerdict(c)
             \/ \E verdict \in Verdicts : AskProvider(c, verdict)
      PROVE  ComplianceInv'
  BY <1>2, AddVolumeKeeps, ReadVolumeKeeps, OthersOfCheckKeep
<1> QED
  BY <1>1, <1>2 DEF ComplianceNext

\* However many checks of one hour overlap, the distinct amounts found clear
\* in it are together within the limit.
THEOREM VolumeStaysWithin == ComplianceSpec => []VelocityHolds
<1>1. ComplianceInv => VelocityHolds
  <2> SUFFICES ASSUME ComplianceInv, NEW h \in 1..MaxClock
               PROVE  Total({check[c].cents : c \in {d \in Checks :
                         check[d].hour = h /\ Answered(d) /\ Combined(d) = "clear"}}) <= VelocityLimit
    BY DEF VelocityHolds
  <2> DEFINE clear == {check[c].cents : c \in {d \in Checks :
                         check[d].hour = h /\ Answered(d) /\ Combined(d) = "clear"}}
  <2>1. clear \in SUBSET Within(h)
    BY DEF Within, Answered, Combined
  <2>2. Within(h) \subseteq velocity[h] /\ IsFiniteSet(velocity[h])
    BY DEF ComplianceInv, CountedFirst, Counted, Within
  <2>3. velocity[h] \subseteq Nat
    BY ComplianceAssumption DEF ComplianceInv, ComplianceTypeOK
  <2>4. IsFiniteSet(Within(h)) /\ Within(h) \in SUBSET Nat
    BY <2>2, <2>3, FS_Subset
  <2>5. Total(clear) \in Int /\ Total(Within(h)) \in Int /\ Total(clear) <= Total(Within(h))
    <3> HIDE DEF clear
    <3> QED
      BY <2>1, <2>4, TotalGrows
  <2> QED
    BY <2>5, ComplianceAssumption DEF ComplianceInv, WithinLimit
<1> QED
  BY InitCompliance, ComplianceStep, <1>1, PTL DEF ComplianceSpec

\* The type invariant of the checks.
THEOREM ComplianceTypeCorrect == ComplianceSpec => []ComplianceTypeOK
<1>1. ComplianceInv => ComplianceTypeOK
  BY DEF ComplianceInv
<1> QED
  BY InitCompliance, ComplianceStep, <1>1, PTL DEF ComplianceSpec

-----------------------------------------------------------------------------
(* Listings: the inductive invariant.  A row a client should have and has   *)
(* not read yet has all the rows of the pages so far in front of it.        *)

Newer(x, found) == {y \in found : y.at > x.at}

ReaderStates == [pc : {"idle", "reading", "done", "refused"}, list : {"audit", "links", "invoices"},
                 asked : Int, action : Actions \union {AnyAction}, page : Nat \ {0},
                 had : SUBSET EntryRows, read : SUBSET EntryRows]

ListingsTypes ==
    /\ entries \subseteq EntryRows /\ IsFiniteSet(entries) /\ time \in 1 .. MaxTime
    /\ reader \in [Readers -> ReaderStates]

Owed(r) == {x \in reader[r].had : Untied(x) /\ x \notin reader[r].read}

ReaderKnows(r) ==
    /\ reader[r].pc = "idle" => reader[r].had = {}
    /\ reader[r].had \subseteq Found(reader[r].action)
    /\ reader[r].list # "audit" => reader[r].action = AnyAction
    /\ reader[r].pc = "reading" /\ reader[r].page = 1 => reader[r].had = {}
    /\ reader[r].pc = "reading" => \A x \in Owed(r) :
          Cardinality(Newer(x, Found(reader[r].action)))
              >= (reader[r].page - 1) * Limit(reader[r].asked)
    /\ reader[r].pc = "done" => Owed(r) = {}

ListingsInv == ListingsTypes /\ \A r \in Readers : ReaderKnows(r)

LEMMA PageArithmetic ==
    \A p \in Nat \ {0}, l \in Nat : (p - 1) * l \in Nat /\ (p - 1) * l + l = p * l /\ p * l \in Nat
  OBVIOUS

LEMMA LimitPositive == ASSUME NEW wanted \in Int PROVE Limit(wanted) \in Nat \ {0}
  BY ListingsAssumption DEF Limit

\* A row without its like that a page does not show, and that has no fewer
\* rows in front than the page skips, comes after it: the page is full, and
\* what it skips and shows is all in front of the row.
LEMMA PageCovers ==
    ASSUME NEW found, IsFiniteSet(found), \A y \in found : y.at \in Int,
           NEW offset \in Nat, NEW limit \in Nat \ {0},
           NEW slice \in Slices(found, offset, limit),
           NEW x \in found, x \notin slice, \A y \in found \ {x} : y.at # x.at,
           Cardinality(Newer(x, found)) >= offset
    PROVE  /\ Cardinality(Newer(x, found)) >= offset + limit
           /\ slice # {}
           /\ Cardinality(found) >= offset + limit + 1
<1> DEFINE newer == Newer(x, found)
<1>1. PICK before \in SUBSET (found \ slice) :
         LET after == found \ (before \union slice) IN
         /\ Cardinality(before) = offset \/ (Cardinality(before) < offset /\ before = found)
         /\ Cardinality(slice) = limit \/ (Cardinality(slice) < limit /\ after = {})
         /\ \A z \in before, y \in slice \union after : z.at >= y.at
         /\ \A z \in slice, y \in after : z.at >= y.at
  BY DEF Slices
<1>2. slice \in SUBSET found
  BY DEF Slices
<1>3. /\ newer \in SUBSET found /\ x \notin newer /\ IsFiniteSet(newer)
      /\ IsFiniteSet(before) /\ IsFiniteSet(slice)
      /\ Cardinality(newer) \in Nat /\ Cardinality(before) \in Nat /\ Cardinality(slice) \in Nat
      /\ Cardinality(found) \in Nat
  <2>1. newer \in SUBSET found /\ x \notin newer /\ before \in SUBSET found
    BY DEF Newer
  <2>2. IsFiniteSet(newer) /\ IsFiniteSet(before) /\ IsFiniteSet(slice)
    BY <1>2, <2>1, FS_Subset
  <2> QED
    BY <2>1, <2>2, FS_CardinalityType
<1>4. newer \union {x} \in SUBSET found /\ Cardinality(newer \union {x}) = Cardinality(newer) + 1
  BY <1>3, FS_AddElement
<1>5. x \notin before
  <2> SUFFICES ASSUME x \in before PROVE FALSE
    OBVIOUS
  <2>1. \A y \in found : y.at > x.at => y \in before
    <3> SUFFICES ASSUME NEW y \in found, y.at > x.at, y \notin before PROVE FALSE
      OBVIOUS
    <3>1. x.at >= y.at
      BY <1>1
    <3> QED
      BY <3>1
  <2>2. newer \union {x} \in SUBSET before
    BY <2>1 DEF Newer
  <2>3. Cardinality(newer \union {x}) <= Cardinality(before)
    <3> HIDE DEF newer
    <3> QED
      BY <1>3, <2>2, FS_Subset
  <2> HIDE DEF newer
  <2>4. Cardinality(newer) >= offset
    BY DEF newer
  <2> QED
    BY <1>1, <1>3, <1>4, <2>3, <2>4
<1>6. /\ Cardinality(slice) = limit /\ Cardinality(before) = offset
      /\ before \union slice \in SUBSET newer
  <2>1. x \in found \ (before \union slice)
    BY <1>5
  <2>2. \A z \in before \union slice : z \in found /\ z # x /\ z.at >= x.at
    BY <1>1, <1>2, <2>1
  <2>3. \A z \in before \union slice : z.at > x.at
    BY <2>2
  <2> QED
    BY <1>1, <2>1, <2>2, <2>3 DEF Newer
<1>7. Cardinality(before \union slice) = offset + limit
  <2>1. before \cap slice = {}
    OBVIOUS
  <2>2. Cardinality(before \cap slice) = 0
    BY <2>1, FS_EmptySet
  <2>3. Cardinality(before \union slice)
            = Cardinality(before) + Cardinality(slice) - Cardinality(before \cap slice)
    BY <1>3, FS_Union
  <2> QED
    BY <1>3, <1>6, <2>2, <2>3
<1> HIDE DEF newer
<1>8. Cardinality(before \union slice) <= Cardinality(newer)
  BY <1>3, <1>6, FS_Subset
<1>9. Cardinality(newer \union {x}) <= Cardinality(found)
  BY <1>4, FS_Subset
<1>10. slice # {}
  BY <1>6, FS_EmptySet
<1> QED
  BY <1>3, <1>4, <1>7, <1>8, <1>9, <1>10 DEF newer

\* Rows are added and none is taken away: no client is owed more.
LEMMA WriteKeeps ==
    ASSUME ListingsInv, NEW row \in EntryRows, entries' = entries \union {row},
           time' \in 1 .. MaxTime, UNCHANGED reader
    PROVE  ListingsInv'
<1>1. ListingsTypes'
  BY FS_AddElement DEF ListingsInv, ListingsTypes
<1>2. ASSUME NEW r \in Readers PROVE ReaderKnows(r)'
  <2> DEFINE found == Found(reader[r].action)
  <2>1. ReaderKnows(r) /\ reader'[r] = reader[r]
    BY DEF ListingsInv
  <2>2. found \subseteq found' /\ found' \subseteq entries'
    BY <2>1 DEF Found
  <2>3. Owed(r)' \subseteq Owed(r)
    BY <2>1 DEF Owed, Untied
  <2>4. \A x \in Owed(r)' : Cardinality(Newer(x, found)) <= Cardinality(Newer(x, found'))
    <3> SUFFICES ASSUME NEW x \in Owed(r)'
                 PROVE  Cardinality(Newer(x, found)) <= Cardinality(Newer(x, found'))
      OBVIOUS
    <3>1. Newer(x, found) \subseteq Newer(x, found') /\ Newer(x, found') \subseteq entries'
      BY <2>2 DEF Newer
    <3>2. IsFiniteSet(Newer(x, found'))
      BY <1>1, <3>1, FS_Subset DEF ListingsTypes
    <3> QED
      BY <3>1, <3>2, FS_Subset
  <2>5. \A x \in Owed(r)' : /\ Cardinality(Newer(x, found)) \in Nat
                            /\ Cardinality(Newer(x, found')) \in Nat
    <3> SUFFICES ASSUME NEW x \in Owed(r)'
                 PROVE  /\ Cardinality(Newer(x, found)) \in Nat
                        /\ Cardinality(Newer(x, found')) \in Nat
      OBVIOUS
    <3>1. Newer(x, found) \subseteq entries' /\ Newer(x, found') \subseteq entries'
      BY <2>2 DEF Newer
    <3>2. IsFiniteSet(Newer(x, found)) /\ IsFiniteSet(Newer(x, found'))
      BY <1>1, <3>1, FS_Subset DEF ListingsTypes
    <3> QED
      BY <3>2, FS_CardinalityType
  <2>6. (reader[r].page - 1) * Limit(reader[r].asked) \in Nat
    BY LimitPositive, PageArithmetic DEF ListingsInv, ListingsTypes, ReaderStates
  <2>7. reader[r].pc = "reading" => \A x \in Owed(r)' :
            Cardinality(Newer(x, found')) >= (reader[r].page - 1) * Limit(reader[r].asked)
    <3> SUFFICES ASSUME reader[r].pc = "reading", NEW x \in Owed(r)'
                 PROVE  Cardinality(Newer(x, found')) >= (reader[r].page - 1) * Limit(reader[r].asked)
      OBVIOUS
    <3>1. Cardinality(Newer(x, found)) >= (reader[r].page - 1) * Limit(reader[r].asked)
      BY <2>1, <2>3 DEF ReaderKnows
    <3> HIDE DEF found
    <3> QED
      BY <2>4, <2>5, <2>6, <3>1
  <2> QED
    BY <2>1, <2>2, <2>3, <2>7 DEF ReaderKnows
<1> QED
  BY <1>1, <1>2 DEF ListingsInv

LEMMA StartPagingKeeps ==
    ASSUME ListingsInv, NEW r \in Readers, NEW list \in {"audit", "links", "invoices"},
           NEW wanted \in PageLimits, NEW action \in Actions \union {AnyAction},
           StartPaging(r, list, wanted, action)
    PROVE  ListingsInv'
<1> DEFINE new == [Unread EXCEPT !.pc = "reading", !.list = list, !.asked = wanted, !.action = action]
<1>1. /\ new \in ReaderStates /\ new.had = {} /\ new.pc = "reading" /\ new.page = 1
      /\ new.list = list /\ new.action = action
  <2>1. Unread \in ReaderStates /\ Unread.had = {} /\ Unread.page = 1
    BY DEF Unread, ReaderStates
  <2>2. wanted \in Int
    BY ListingsAssumption
  <2> QED
    BY <2>1, <2>2 DEF ReaderStates
<1>2. /\ list # "audit" => action = AnyAction
      /\ reader' = [reader EXCEPT ![r] = new] /\ UNCHANGED <<entries, time>>
  BY DEF StartPaging
<1> HIDE DEF new
<1>3. reader'[r] = new /\ \A q \in Readers \ {r} : reader'[q] = reader[q]
  BY <1>2 DEF ListingsInv, ListingsTypes
<1>4. ListingsTypes'
  BY <1>1, <1>2 DEF ListingsInv, ListingsTypes
<1>5. ReaderKnows(r)'
  BY <1>1, <1>2, <1>3 DEF ReaderKnows, Owed
<1>6. ASSUME NEW q \in Readers \ {r} PROVE ReaderKnows(q)'
  BY <1>2, <1>3 DEF ListingsInv, ReaderKnows, Owed, Untied, Found
<1> QED
  BY <1>4, <1>5, <1>6 DEF ListingsInv

\* A page of the rows a client asks for, and whether it goes on.
LEMMA GotKeeps ==
    ASSUME ListingsInv, NEW r \in Readers, reader[r].pc = "reading",
           NEW found, found = Found(reader[r].action),
           NEW slice \in Slices(found, (reader[r].page - 1) * Limit(reader[r].asked),
                                Limit(reader[r].asked)),
           NEW more \in BOOLEAN,
           more <=> reader[r].page * Limit(reader[r].asked) < TotalOf(slice, found),
           Got(r, slice, found, more), UNCHANGED <<entries, time>>
    PROVE  ListingsInv'
<1> DEFINE limit == Limit(reader[r].asked)
           offset == (reader[r].page - 1) * limit
           had == IF reader[r].page = 1 THEN found ELSE reader[r].had
           read == reader[r].read \union slice
           nextPage == IF more THEN reader[r].page + 1 ELSE reader[r].page
           pc == IF more THEN "reading" ELSE "done"
<1>1. /\ ListingsTypes /\ ReaderKnows(r) /\ reader[r] \in ReaderStates
  BY DEF ListingsInv, ListingsTypes
<1>2. found \subseteq entries /\ slice \subseteq found /\ found \subseteq EntryRows /\ IsFiniteSet(found)
  BY <1>1, FS_Subset DEF Found, Slices, ListingsTypes
<1>3. reader' = [reader EXCEPT ![r] = [reader[r] EXCEPT !.read = read, !.had = had,
                                                        !.page = nextPage, !.pc = pc]]
  BY <1>1 DEF Got, ListingsTypes, ReaderStates
<1>4. had \in SUBSET EntryRows /\ read \in SUBSET EntryRows /\ nextPage \in Nat \ {0}
      /\ pc \in {"reading", "done"} /\ had \subseteq found
  BY <1>1, <1>2 DEF ReaderStates, ReaderKnows
<1>5. limit \in Nat \ {0} /\ offset \in Nat /\ offset + limit = reader[r].page * limit
      /\ reader[r].page * limit \in Nat
  BY <1>1, LimitPositive, PageArithmetic DEF ReaderStates
<1>6. \A x \in had : Untied(x) /\ x \notin read =>
         /\ Cardinality(Newer(x, found)) >= offset + limit
         /\ slice # {} /\ Cardinality(found) >= offset + limit + 1
  <2> SUFFICES ASSUME NEW x \in had, Untied(x), x \notin read
               PROVE  /\ Cardinality(Newer(x, found)) >= offset + limit
                      /\ slice # {} /\ Cardinality(found) >= offset + limit + 1
    OBVIOUS
  <2>1. Cardinality(Newer(x, found)) >= offset
    <3>1. CASE reader[r].page = 1
      <4>1. Newer(x, found) \subseteq found
        BY DEF Newer
      <4>2. Cardinality(Newer(x, found)) \in Nat
        BY <1>2, <4>1, FS_Subset, FS_CardinalityType
      <4>3. offset = 0
        BY <1>5, <3>1
      <4> QED
        BY <4>2, <4>3
    <3>2. CASE reader[r].page # 1
      BY <1>1, <3>2 DEF ReaderKnows, Owed
    <3> QED
      BY <3>1, <3>2
  <2>2. x \in found /\ x \notin slice /\ \A y \in found \ {x} : y.at # x.at
    BY <1>2, <1>4 DEF Untied
  <2>3. \A y \in found : y.at \in Int
    BY <1>2 DEF EntryRows
  <2> HIDE DEF offset, limit
  <2>4. slice \in Slices(found, offset, limit)
    BY DEF offset, limit
  <2> QED
    BY <1>2, <1>5, <2>1, <2>2, <2>3, <2>4, PageCovers
<1> HIDE DEF had, read, nextPage, pc
<1>7. /\ reader'[r].had = had /\ reader'[r].read = read /\ reader'[r].page = nextPage
      /\ reader'[r].pc = pc /\ reader'[r].list = reader[r].list
      /\ reader'[r].action = reader[r].action /\ reader'[r].asked = reader[r].asked
      /\ \A q \in Readers \ {r} : reader'[q] = reader[q]
      /\ reader' \in [Readers -> ReaderStates]
  BY <1>1, <1>3, <1>4 DEF ListingsTypes, ReaderStates
<1>8. ListingsTypes'
  BY <1>1, <1>7 DEF ListingsTypes
<1>9. Owed(r)' = {x \in had : Untied(x) /\ x \notin read} /\ Found(reader[r].action)' = found
  BY <1>7 DEF Owed, Untied, Found
<1>10. CASE more
  <2>1. nextPage = reader[r].page + 1 /\ pc = "reading"
    BY <1>10 DEF nextPage, pc
  <2>2. nextPage - 1 = reader[r].page /\ nextPage # 1
    BY <1>1, <2>1 DEF ReaderStates
  <2> HIDE DEF limit, offset
  <2>3. (nextPage - 1) * limit = offset + limit
    BY <1>5, <2>2
  <2> USE DEF limit, offset
  <2>4. ReaderKnows(r)'
    BY <1>1, <1>4, <1>6, <1>7, <1>9, <2>1, <2>2, <2>3 DEF ReaderKnows
  <2> QED
    BY <1>7, <1>8, <2>4 DEF ListingsInv, ReaderKnows, Owed, Untied, Found
<1>11. CASE ~more
  <2>1. pc = "done"
    BY <1>11 DEF pc
  <2>2. Owed(r)' = {}
    <3> SUFFICES ASSUME NEW x \in Owed(r)' PROVE FALSE
      OBVIOUS
    <3>1. slice # {} /\ Cardinality(found) >= offset + limit + 1
      BY <1>6, <1>9
    <3>2. Cardinality(found) \in Nat
      BY <1>2, FS_CardinalityType
    <3>3. ~(reader[r].page * limit < Cardinality(found))
      BY <1>11, <3>1 DEF TotalOf
    <3> HIDE DEF limit, offset
    <3> QED
      BY <1>5, <3>1, <3>2, <3>3
  <2>3. ReaderKnows(r)'
    BY <1>1, <1>4, <1>7, <1>9, <2>1, <2>2 DEF ReaderKnows
  <2> QED
    BY <1>7, <1>8, <2>3 DEF ListingsInv, ReaderKnows, Owed, Untied, Found
<1> QED
  BY <1>10, <1>11

LEMMA AuditPageKeeps ==
    ASSUME ListingsInv, NEW r \in Readers, AuditPage(r) PROVE ListingsInv'
<1> DEFINE found == Found(reader[r].action)
           limit == Limit(reader[r].asked)
           more(slice) == reader[r].page * limit < TotalOf(slice, found)
<1>1. PICK slice \in Slices(found, (reader[r].page - 1) * limit, limit) :
         Got(r, slice, found, more(slice)) /\ UNCHANGED <<entries, time>>
  BY DEF AuditPage, Offset
<1>2. reader[r].pc = "reading" /\ more(slice) \in BOOLEAN
  BY DEF AuditPage
<1> QED
  BY <1>1, <1>2, GotKeeps

\* The analytics have no filter, so that all the rows are found.
LEMMA LinksPageKeeps ==
    ASSUME ListingsInv, NEW r \in Readers, LinksPage(r) PROVE ListingsInv'
<1> DEFINE limit == Limit(reader[r].asked)
           more(slice) == reader[r].page * limit < TotalOf(slice, entries)
<1>1. PICK slice \in Slices(entries, (reader[r].page - 1) * limit, limit) :
         Got(r, slice, entries, more(slice)) /\ UNCHANGED <<entries, time>>
  BY DEF LinksPage, Offset
<1>2. reader[r].pc = "reading" /\ more(slice) \in BOOLEAN
  BY DEF LinksPage
<1>3. entries = Found(reader[r].action)
  BY DEF LinksPage, ListingsInv, ReaderKnows, Found
<1> QED
  BY <1>1, <1>2, <1>3, GotKeeps

\* The list of invoices is left at its first page or refused at its second.
LEMMA InvoicesPageKeeps ==
    ASSUME ListingsInv, NEW r \in Readers, InvoicesPage(r) PROVE ListingsInv'
<1> DEFINE limit == Limit(reader[r].asked)
           more == Cardinality(entries) > limit
<1>1. /\ ListingsTypes /\ ReaderKnows(r) /\ reader[r] \in ReaderStates
      /\ reader[r].pc = "reading" /\ UNCHANGED <<entries, time>>
  BY DEF ListingsInv, ListingsTypes, InvoicesPage
<1>2. limit \in Nat \ {0} /\ Cardinality(entries) \in Nat
  BY <1>1, LimitPositive, FS_CardinalityType DEF ListingsTypes, ReaderStates
<1>3. entries = Found(reader[r].action)
  BY <1>1 DEF InvoicesPage, ReaderKnows, Found
<1>4. CASE reader[r].page = 1
  <2>1. PICK slice \in Slices(entries, 0, limit) : Got(r, slice, entries, more)
    BY <1>4 DEF InvoicesPage
  <2>2. (reader[r].page - 1) * limit = 0 /\ reader[r].page * limit = limit
    BY <1>2, <1>4
  <2>3. more <=> reader[r].page * limit < TotalOf(slice, entries)
    <3>1. CASE slice # {}
      <4>1. TotalOf(slice, entries) = Cardinality(entries)
        BY <3>1 DEF TotalOf
      <4> HIDE DEF limit
      <4> QED
        BY <1>2, <2>2, <4>1
    <3>2. CASE slice = {}
      <4>1. TotalOf(slice, entries) = 0 /\ Cardinality(slice) = 0
        BY <3>2, FS_EmptySet DEF TotalOf
      <4>2. PICK before \in SUBSET (entries \ slice) :
               /\ Cardinality(before) = 0 \/ (Cardinality(before) < 0 /\ before = entries)
               /\ Cardinality(slice) = limit
                    \/ (Cardinality(slice) < limit /\ entries \ (before \union slice) = {})
        BY <2>1 DEF Slices
      <4>3. before = entries
        <5> HIDE DEF limit
        <5> QED
          BY <1>2, <3>2, <4>1, <4>2
      <4>4. Cardinality(entries) = 0
        BY <1>2, <4>2, <4>3
      <4> HIDE DEF limit
      <4> QED
        BY <1>2, <2>2, <4>1, <4>4
    <3> QED
      BY <3>1, <3>2
  <2>4. slice \in Slices(entries, (reader[r].page - 1) * limit, limit) /\ more \in BOOLEAN
    BY <2>1, <2>2
  <2> QED
    BY <1>1, <1>3, <2>1, <2>3, <2>4, GotKeeps
<1>5. CASE reader[r].page # 1
  <2>1. reader' = [reader EXCEPT ![r].pc = "refused"]
    BY <1>5 DEF InvoicesPage
  <2>2. /\ reader' \in [Readers -> ReaderStates] /\ reader'[r].pc = "refused"
        /\ reader'[r].had = reader[r].had /\ reader'[r].action = reader[r].action
        /\ reader'[r].list = reader[r].list
        /\ \A q \in Readers \ {r} : reader'[q] = reader[q]
    BY <1>1, <2>1 DEF ListingsTypes, ReaderStates
  <2>3. ListingsTypes'
    BY <1>1, <2>2 DEF ListingsTypes
  <2>4. ReaderKnows(r)'
    BY <1>1, <2>2 DEF ReaderKnows, Found
  <2>5. ASSUME NEW q \in Readers \ {r} PROVE ReaderKnows(q)'
    BY <1>1, <2>2 DEF ListingsInv, ReaderKnows, Owed, Untied, Found
  <2> QED
    BY <2>3, <2>4, <2>5 DEF ListingsInv
<1> QED
  BY <1>4, <1>5

LEMMA ListingsStep == ListingsInv /\ [ListingsNext]_listingsVars => ListingsInv'
<1> SUFFICES ASSUME ListingsInv, [ListingsNext]_listingsVars PROVE ListingsInv'
  OBVIOUS
<1>1. ASSUME NEW action \in Actions, NEW at \in 1 .. MaxTime, Write(action, at) PROVE ListingsInv'
  <2> DEFINE row == [id |-> Cardinality(entries) + 1, at |-> at, action |-> action]
  <2>1. Cardinality(entries) \in Nat /\ Cardinality(entries) + 1 \in 1 .. MaxRows
    BY <1>1, ListingsAssumption, FS_CardinalityType DEF ListingsInv, ListingsTypes, Write
  <2>2. row \in EntryRows
    BY <2>1 DEF EntryRows
  <2>3. entries' = entries \union {row} /\ time' \in 1 .. MaxTime /\ UNCHANGED reader
    BY <1>1 DEF ListingsInv, ListingsTypes, Write
  <2> HIDE DEF row
  <2> QED
    BY <2>2, <2>3, WriteKeeps
<1>2. ASSUME Tick PROVE ListingsInv'
  BY <1>2, ListingsAssumption
     DEF Tick, ListingsInv, ListingsTypes, ReaderKnows, Owed, Untied, Found
<1>3. ASSUME NEW r \in Readers, NEW list \in {"audit", "links", "invoices"},
             NEW wanted \in PageLimits, NEW action \in Actions \union {AnyAction},
             StartPaging(r, list, wanted, action)
      PROVE  ListingsInv'
  BY <1>3, StartPagingKeeps
<1>4. ASSUME NEW r \in Readers, AuditPage(r) \/ LinksPage(r) \/ InvoicesPage(r)
      PROVE  ListingsInv'
  BY <1>4, AuditPageKeeps, LinksPageKeeps, InvoicesPageKeeps
<1>5. ASSUME UNCHANGED listingsVars PROVE ListingsInv'
  BY <1>5 DEF listingsVars, ListingsInv, ListingsTypes, ReaderKnows, Owed, Untied, Found
<1> QED
  BY <1>1, <1>2, <1>3, <1>4, <1>5 DEF ListingsNext

LEMMA InitListings == ListingsInit => ListingsInv
<1> SUFFICES ASSUME ListingsInit PROVE ListingsInv
  OBVIOUS
<1>1. Unread \in ReaderStates /\ Unread.had = {} /\ Unread.pc = "idle"
      /\ Unread.action = AnyAction
  BY DEF Unread, ReaderStates
<1>2. ListingsTypes
  BY <1>1, ListingsAssumption, FS_EmptySet DEF ListingsInit, ListingsTypes
<1>3. ASSUME NEW r \in Readers PROVE ReaderKnows(r)
  BY <1>1 DEF ListingsInit, ReaderKnows
<1> QED
  BY <1>2, <1>3 DEF ListingsInv

\* A client that reads an audit log, the analytics of its links or its
\* invoices to the end has every row that was there when it began, unless
\* another has its created_at: rows written meanwhile push the others to
\* later pages and never over one (audit-logs.service.ts list,
\* payment-links.service.ts listAnalytics, invoices.service.ts list).
THEOREM NoRowPassedOver == ListingsSpec => []NothingMissed
<1>1. ListingsInv => NothingMissed
  BY DEF ListingsInv, ReaderKnows, Owed, NothingMissed
<1> QED
  BY InitListings, <1>1, ListingsStep, PTL DEF ListingsSpec

WithinMax == Cardinality(entries) <= MaxRows

\* A page that ends before the rows do is no later than the rows are many.
LEMMA GotTypes ==
    ASSUME ListingsInv, ListingsTypeOK, WithinMax,
           NEW r \in Readers, NEW found \in SUBSET entries, NEW slice \in SUBSET found,
           NEW more \in BOOLEAN,
           more => reader[r].page <= Cardinality(found),
           Got(r, slice, found, more), UNCHANGED <<entries, time>>
    PROVE  ListingsTypeOK'
<1>1. reader \in [Readers -> ReaderStates] /\ reader[r] \in ReaderStates
  BY DEF ListingsInv, ListingsTypes
<1>2. Cardinality(found) \in Nat /\ Cardinality(found) <= MaxRows /\ MaxRows \in Nat
  <2>1. IsFiniteSet(entries)
    BY DEF ListingsInv, ListingsTypes
  <2>2. Cardinality(found) <= Cardinality(entries) /\ Cardinality(found) \in Nat
        /\ Cardinality(entries) \in Nat
    BY <2>1, FS_Subset, FS_CardinalityType
  <2> QED
    BY <2>2, ListingsAssumption DEF WithinMax
<1>3. /\ reader'[r].pc \in {"reading", "done"} /\ reader'[r].asked = reader[r].asked
      /\ reader'[r].read = reader[r].read \union slice
      /\ reader'[r].had \in {found, reader[r].had}
      /\ reader'[r].page = IF more THEN reader[r].page + 1 ELSE reader[r].page
      /\ \A q \in Readers \ {r} : reader'[q] = reader[q]
  BY <1>1 DEF Got, ReaderStates
<1>4. reader'[r].page \in 1 .. MaxRows + 1
  BY <1>1, <1>2, <1>3 DEF ListingsTypeOK
<1> QED
  BY <1>3, <1>4 DEF ListingsTypeOK

LEMMA ListingsTypeStep ==
    /\ ListingsInv /\ ListingsTypeOK /\ WithinMax
    /\ [ListingsNext]_listingsVars
    => ListingsTypeOK' /\ WithinMax'
<1> SUFFICES ASSUME ListingsInv, ListingsTypeOK, WithinMax,
                    [ListingsNext]_listingsVars
             PROVE  ListingsTypeOK' /\ WithinMax'
  OBVIOUS
<1>1. /\ IsFiniteSet(entries) /\ entries \subseteq EntryRows
      /\ reader \in [Readers -> ReaderStates] /\ time \in 1 .. MaxTime
  BY DEF ListingsInv, ListingsTypes
<1>2. ASSUME NEW action \in Actions, NEW at \in 1 .. MaxTime, Write(action, at)
      PROVE  ListingsTypeOK' /\ WithinMax'
  <2> DEFINE row == [id |-> Cardinality(entries) + 1, at |-> at, action |-> action]
  <2>1. Cardinality(entries) \in Nat /\ Cardinality(entries) + 1 \in 1 .. MaxRows
    BY <1>1, <1>2, ListingsAssumption, FS_CardinalityType DEF Write
  <2>2. row \in EntryRows
    BY <2>1 DEF EntryRows
  <2>3. entries' = entries \union {row} /\ UNCHANGED <<time, reader>>
    BY <1>2 DEF Write
  <2> HIDE DEF row
  <2>4. WithinMax'
    BY <1>1, <2>1, <2>3, FS_AddElement DEF WithinMax
  <2> QED
    BY <2>2, <2>3, <2>4 DEF ListingsTypeOK
<1>3. CASE Tick
  BY <1>3, ListingsAssumption DEF Tick, ListingsTypeOK, WithinMax
<1>4. ASSUME NEW r \in Readers, NEW list \in {"audit", "links", "invoices"},
             NEW wanted \in PageLimits, NEW action \in Actions \union {AnyAction},
             StartPaging(r, list, wanted, action)
      PROVE  ListingsTypeOK' /\ WithinMax'
  <2>1. /\ reader'[r].pc = "reading" /\ reader'[r].asked = wanted /\ reader'[r].page = 1
        /\ reader'[r].read = {} /\ reader'[r].had = {}
        /\ \A q \in Readers \ {r} : reader'[q] = reader[q]
        /\ UNCHANGED <<entries, time>>
    BY <1>1, <1>4 DEF StartPaging, Unread
  <2> QED
    BY <2>1, ListingsAssumption DEF ListingsTypeOK, WithinMax
<1>5. ASSUME NEW r \in Readers, AuditPage(r) \/ LinksPage(r)
      PROVE  ListingsTypeOK' /\ WithinMax'
  <2>1. PICK found \in SUBSET entries, slice \in SUBSET entries :
           /\ slice \in SUBSET found
           /\ Got(r, slice, found, reader[r].page * Limit(reader[r].asked) < TotalOf(slice, found))
           /\ UNCHANGED <<entries, time>>
    <3>1. \A action : Found(action) \in SUBSET entries
      BY DEF Found
    <3>2. \A found, offset, limit : \A slice \in Slices(found, offset, limit) : slice \in SUBSET found
      BY DEF Slices
    <3>3. CASE AuditPage(r)
      BY <3>1, <3>2, <3>3 DEF AuditPage
    <3>4. CASE LinksPage(r)
      BY <3>2, <3>4 DEF LinksPage
    <3> QED
      BY <1>5, <3>3, <3>4
  <2> DEFINE more == reader[r].page * Limit(reader[r].asked) < TotalOf(slice, found)
  <2>2. Limit(reader[r].asked) \in Nat \ {0} /\ reader[r].page \in Nat \ {0}
    BY <1>1, LimitPositive DEF ReaderStates
  <2>3. Cardinality(found) \in Nat
    BY <1>1, FS_Subset, FS_CardinalityType
  <2>4. \A k, l \in Nat \ {0}, n \in Nat : k * l < n => k <= n
    OBVIOUS
  <2>5. more => reader[r].page <= Cardinality(found)
    BY <2>2, <2>3, <2>4 DEF TotalOf
  <2>6. more \in BOOLEAN /\ Got(r, slice, found, more)
    BY <2>1
  <2> HIDE DEF more
  <2> QED
    BY <2>1, <2>5, <2>6, GotTypes DEF WithinMax
<1>6. ASSUME NEW r \in Readers, InvoicesPage(r)
      PROVE  ListingsTypeOK' /\ WithinMax'
  <2>1. CASE reader[r].page = 1
    <3>1. PICK slice \in SUBSET entries :
             /\ Got(r, slice, entries, Cardinality(entries) > Limit(reader[r].asked))
             /\ UNCHANGED <<entries, time>>
      BY <1>6, <2>1 DEF InvoicesPage, Slices
    <3> DEFINE more == Cardinality(entries) > Limit(reader[r].asked)
    <3>2. Limit(reader[r].asked) \in Nat \ {0} /\ Cardinality(entries) \in Nat
      BY <1>1, LimitPositive, FS_CardinalityType DEF ReaderStates
    <3>3. more \in BOOLEAN /\ Got(r, slice, entries, more) /\ entries \in SUBSET entries
          /\ (more => reader[r].page <= Cardinality(entries))
      BY <2>1, <3>1, <3>2
    <3> HIDE DEF more
    <3> QED
      BY <3>1, <3>3, GotTypes DEF WithinMax
  <2>2. CASE reader[r].page # 1
    BY <1>1, <1>6, <2>2 DEF InvoicesPage, ListingsTypeOK, ReaderStates, WithinMax
  <2> QED
    BY <2>1, <2>2
<1>7. CASE UNCHANGED listingsVars
  BY <1>7 DEF listingsVars, ListingsTypeOK, WithinMax
<1> QED
  BY <1>2, <1>3, <1>4, <1>5, <1>6, <1>7 DEF ListingsNext

\* The type invariant: a client's page is never beyond the number of rows,
\* and what it has read is in the table.
THEOREM ListingsTypeCorrect == ListingsSpec => []ListingsTypeOK
<1>1. ListingsInit => ListingsTypeOK /\ WithinMax
  BY ListingsAssumption, FS_EmptySet DEF ListingsInit, ListingsTypeOK, Unread, WithinMax
<1> QED
  BY InitListings, ListingsStep, ListingsTypeStep, <1>1, PTL DEF ListingsSpec

-----------------------------------------------------------------------------
(* WebhookSecrets: the inductive invariant.  Secrets are numbered in the    *)
(* order they are drawn, so the row holds the last two of them; a delivery  *)
(* that has read the last one has read the whole row as it still is.        *)

RowHoldsLastTwo ==
    /\ hour \in Nat /\ fresh \in Nat /\ rotatedAt \in Int
    /\ secret = fresh /\ previous = fresh - 1
    /\ fresh > 0 => rotatedAt # Never

PosterKnows(d) ==
    /\ poster[d] \in [pc : {"idle", "selected", "posted"}, main : Nat, prev : Int, at : Int]
    /\ poster[d].main <= fresh
    /\ poster[d].main = fresh =>
          /\ poster[d].pc = "selected" => poster[d].prev = previous /\ poster[d].at = rotatedAt
          /\ poster[d].pc = "posted" /\ InOverlap(previous, rotatedAt) =>
                poster[d].prev = previous

SecretsInv ==
    /\ RowHoldsLastTwo
    /\ poster = [d \in Posters |-> poster[d]]
    /\ \A d \in Posters : PosterKnows(d)

-----------------------------------------------------------------------------
LEMMA InitSecrets == SecretsInit => SecretsInv
  BY DEF SecretsInit, SecretsInv, RowHoldsLastTwo, PosterKnows, NoPoster, NoSecret, Never

\* Time only closes the window.
LEMMA HourKeeps == SecretsInv /\ Hour => SecretsInv'
  BY SecretsAssumption DEF Hour, SecretsInv, RowHoldsLastTwo, PosterKnows, InOverlap

LEMMA SwitchKeeps ==
    SecretsInv /\ (TurnOff \/ \E r \in Rotations : RotateCheck(r)) => SecretsInv'
  BY DEF TurnOff, RotateCheck, SecretsInv, RowHoldsLastTwo, PosterKnows, InOverlap

\* No delivery has read the secret that is drawn.
LEMMA RotateKeeps == ASSUME NEW r \in Rotations PROVE SecretsInv /\ Rotate(r) => SecretsInv'
<1> SUFFICES ASSUME SecretsInv, Rotate(r) PROVE SecretsInv'
  OBVIOUS
<1> USE DEF SecretsInv, RowHoldsLastTwo, Rotate
<1>1. RowHoldsLastTwo'
  BY DEF Never
<1>2. ASSUME NEW d \in Posters PROVE PosterKnows(d)'
  BY DEF PosterKnows
<1> QED
  BY <1>1, <1>2

LEMMA SelectKeeps == ASSUME NEW d \in Posters PROVE SecretsInv /\ SelectSecrets(d) => SecretsInv'
<1> SUFFICES ASSUME SecretsInv, SelectSecrets(d) PROVE SecretsInv'
  OBVIOUS
<1> USE DEF SecretsInv, RowHoldsLastTwo, SelectSecrets
<1>1. ASSUME NEW k \in Posters PROVE PosterKnows(k)'
  BY DEF PosterKnows, InOverlap
<1> QED
  BY <1>1

\* The signature for the previous secret is left out only when its window is
\* closed for good.
LEMMA SignKeeps == ASSUME NEW d \in Posters PROVE SecretsInv /\ Sign(d) => SecretsInv'
<1> SUFFICES ASSUME SecretsInv, Sign(d) PROVE SecretsInv'
  OBVIOUS
<1> USE DEF SecretsInv, RowHoldsLastTwo, Sign
<1>1. ASSUME NEW k \in Posters PROVE PosterKnows(k)'
  <2>1. CASE k = d
    <3> DEFINE kept == IF InOverlap(poster[d].prev, poster[d].at) THEN poster[d].prev
                       ELSE NoSecret
    <3>0. /\ poster[d] \in [pc : {"idle", "selected", "posted"}, main : Nat, prev : Int, at : Int]
          /\ kept \in Int
      BY DEF PosterKnows, NoSecret
    <3>1. /\ poster'[d] = [poster[d] EXCEPT !.pc = "posted", !.prev = kept]
      OBVIOUS
    <3> HIDE DEF kept
    <3>4. /\ poster'[d].pc = "posted" /\ poster'[d].main = poster[d].main
          /\ poster'[d].prev = kept /\ poster'[d].at = poster[d].at
          /\ poster'[d] \in [pc : {"idle", "selected", "posted"}, main : Nat, prev : Int, at : Int]
      BY <3>0, <3>1
    <3>2. poster[d].main = fresh /\ InOverlap(previous, rotatedAt) => kept = previous
      BY DEF PosterKnows, kept
    <3> QED
      BY <2>1, <3>4, <3>2 DEF PosterKnows, InOverlap
  <2>2. CASE k # d
    BY <2>2 DEF PosterKnows, InOverlap
  <2> QED
    BY <2>1, <2>2
<1> QED
  BY <1>1

LEMMA InvVerifies == SecretsInv => InFlightVerifies
<1> SUFFICES ASSUME SecretsInv, NEW d \in Posters, poster[d].pc = "posted"
             PROVE /\ Turned(d) = 0 \/ (Turned(d) = 1 /\ hour - rotatedAt < Overlap)
                         => VerifyWithRotation(poster[d].main)
                   /\ Turned(d) = 0 /\ InOverlap(previous, rotatedAt) => poster[d].prev = previous
  BY DEF InFlightVerifies
<1> USE DEF SecretsInv, RowHoldsLastTwo, PosterKnows, Turned
<1>1. poster[d].main \in Nat /\ poster[d].main <= fresh
  OBVIOUS
<1>2. CASE Turned(d) = 0
  BY <1>1, <1>2 DEF VerifyWithRotation
<1>3. CASE Turned(d) = 1
  BY <1>1, <1>3 DEF VerifyWithRotation, InOverlap, NoSecret
<1> QED
  BY <1>2, <1>3

-----------------------------------------------------------------------------
\* Whenever a delivery reads the row and signs: its first signature is
\* accepted through one rotation until the overlap ends, and its second one
\* is there for a merchant who still has the previous secret.
THEOREM InFlightStaysValid == SecretsSpec => []InFlightVerifies
<1>1. SecretsInv /\ [SecretsNext]_secretsVars => SecretsInv'
  <2> SUFFICES ASSUME SecretsInv, [SecretsNext]_secretsVars PROVE SecretsInv'
    OBVIOUS
  <2>1. CASE Hour \/ TurnOff \/ \E r \in Rotations : RotateCheck(r) \/ Rotate(r)
    BY <2>1, HourKeeps, SwitchKeeps, RotateKeeps
  <2>2. CASE \E d \in Posters : SelectSecrets(d) \/ Sign(d)
    BY <2>2, SelectKeeps, SignKeeps
  <2>3. CASE UNCHANGED secretsVars
    BY <2>3 DEF secretsVars, SecretsInv, RowHoldsLastTwo, PosterKnows, InOverlap
  <2> QED
    BY <2>1, <2>2, <2>3 DEF SecretsNext
<1> QED
  BY InitSecrets, <1>1, InvVerifies, PTL DEF SecretsSpec

\* The type invariant: what the row holds and what a delivery has read are
\* secrets that were drawn, and rotations that are past.
THEOREM SecretsTypeCorrect == SecretsSpec => []SecretsTypeOK
<1> DEFINE PosterStates == [pc : {"idle", "selected", "posted"}, main : 0..fresh,
                            prev : -1..fresh, at : -1..hour]
<1>1. SecretsInit => SecretsTypeOK
  BY SecretsAssumption DEF SecretsInit, SecretsTypeOK, NoPoster, NoSecret, Never
<1>2. SecretsTypeOK /\ [SecretsNext]_secretsVars => SecretsTypeOK'
  <2> SUFFICES ASSUME SecretsTypeOK, [SecretsNext]_secretsVars PROVE SecretsTypeOK'
    OBVIOUS
  <2> USE SecretsAssumption DEF SecretsTypeOK
  <2>1. ASSUME Hour PROVE SecretsTypeOK'
    <3>1. hour' = hour + 1 /\ hour + 1 \in 0..MaxHours /\ PosterStates \subseteq PosterStates'
          /\ UNCHANGED <<active, secret, previous, rotatedAt, fresh, rotation, poster>>
      BY <2>1 DEF Hour
    <3> QED
      BY <3>1
  <2>2. ASSUME TurnOff PROVE SecretsTypeOK'
    BY <2>2 DEF TurnOff
  <2>3. ASSUME NEW r \in Rotations, RotateCheck(r) PROVE SecretsTypeOK'
    BY <2>3 DEF RotateCheck
  <2>4. ASSUME NEW r \in Rotations, Rotate(r) PROVE SecretsTypeOK'
    <3>1. /\ fresh' = fresh + 1 /\ fresh + 1 \in Nat /\ UNCHANGED <<hour, active, poster>>
          /\ PosterStates \subseteq PosterStates'
          /\ secret' = fresh + 1 /\ previous' = secret /\ rotatedAt' = hour
          /\ rotation' \in [Rotations -> {"idle", "update", "refused", "done"}]
      BY <2>4 DEF Rotate
    <3>2. secret' \in 0..fresh' /\ previous' \in -1..fresh' /\ rotatedAt' \in -1..hour'
      BY <3>1
    <3> QED
      BY <3>1, <3>2
  <2>5. ASSUME NEW d \in Posters, SelectSecrets(d) PROVE SecretsTypeOK'
    <3>1. [pc |-> "selected", main |-> secret, prev |-> previous, at |-> rotatedAt] \in PosterStates
      OBVIOUS
    <3> QED
      BY <2>5, <3>1 DEF SelectSecrets
  <2>6. ASSUME NEW d \in Posters, Sign(d) PROVE SecretsTypeOK'
    <3> DEFINE kept == IF InOverlap(poster[d].prev, poster[d].at) THEN poster[d].prev ELSE NoSecret
    <3>1. poster[d] \in PosterStates /\ kept \in -1..fresh
      BY DEF NoSecret
    <3>2. poster' = [poster EXCEPT ![d] = [poster[d] EXCEPT !.pc = "posted", !.prev = kept]]
          /\ UNCHANGED <<hour, active, secret, previous, rotatedAt, fresh, rotation>>
      BY <2>6 DEF Sign
    <3> HIDE DEF kept
    <3>3. [poster[d] EXCEPT !.pc = "posted", !.prev = kept] \in PosterStates
      BY <3>1
    <3> QED
      BY <3>2, <3>3
  <2>7. CASE UNCHANGED secretsVars
    BY <2>7 DEF secretsVars
  <2> QED
    BY <2>1, <2>2, <2>3, <2>4, <2>5, <2>6, <2>7 DEF SecretsNext
<1> QED
  BY <1>1, <1>2, PTL DEF SecretsSpec

-----------------------------------------------------------------------------
(* AfterSale: the first inductive invariant.  A call that has read "paid",  *)
(* and a row or a submission it left, are about an invoice that is paid;    *)
(* nothing moves an invoice out of "paid".                                  *)

SaleTypes ==
    /\ sale \in [Sales -> SaleStatuses] /\ call \in [Calls -> CallStates]
    /\ DOMAIN refunds \subseteq Calls /\ DOMAIN disputes \subseteq Calls
    /\ submitted \subseteq Calls

Left == DOMAIN refunds \union DOMAIN disputes \union submitted
Claims(c) == call[c].pc \in {"look", "submit", "insert", "save"} \/ c \in Left

Claimed == \A c \in Calls :
    Claims(c) => call[c].pc # "idle" /\ sale[call[c].sale] = "paid"

PaidSaleInv == SaleTypes /\ Claimed

(* The second: a refund or dispute that is live, and a call that has looked *)
(* and not inserted yet, exclude each other, and each submission is one of  *)
(* the two until a refund fails.                                            *)

Kinds == {"refund", "dispute"}
HeldBy(k, s) == Checked(k, s) \union Existing(k, s)

Steps == \A c \in Calls :
    /\ call[c].pc = "submit" => call[c].kind = "refund" /\ c \notin submitted
    /\ call[c].pc = "insert" /\ call[c].kind = "refund" => c \in submitted
    /\ c \in submitted => /\ call[c].kind = "refund"
                          /\ call[c].pc \in {"insert", "answered", "failed"}
                          /\ call[c].sale \in undone \/ call[c].pc = "insert"
                                \/ c \in LiveRefunds(call[c].sale)
    /\ c \in DOMAIN refunds => call[c].kind = "refund"
    /\ c \in DOMAIN disputes =>
          call[c].kind = "dispute" /\ call[c].pc \in {"save", "answered", "failed"}

OneHolds == \A k \in Kinds, s \in Sales \ (met \union undone) :
    \A c, d \in HeldBy(k, s) : c = d

SaleInv == PaidSaleInv /\ Steps /\ OneHolds

-----------------------------------------------------------------------------
LEMMA InitSale == AfterSaleInit => SaleInv
<1> SUFFICES ASSUME AfterSaleInit PROVE SaleInv
  OBVIOUS
<1>1. (CHOOSE s \in Sales : TRUE) \in Sales
  BY AfterSaleAssumption
<1>2. NoCall \in CallStates /\ NoCall.pc = "idle"
  BY <1>1 DEF NoCall, CallStates
<1>3. /\ DOMAIN refunds = {} /\ DOMAIN disputes = {} /\ submitted = {}
      /\ \A c \in Calls : call[c].pc = "idle"
  BY <1>2 DEF AfterSaleInit
<1>4. SaleTypes
  BY <1>2, <1>3 DEF AfterSaleInit, SaleTypes, SaleStatuses
<1>5. \A k \in Kinds, s \in Sales : HeldBy(k, s) = {}
  BY <1>3 DEF HeldBy, Checked, Existing, LiveRefunds, OpenDisputes
<1> QED
  BY <1>3, <1>4, <1>5 DEF SaleInv, PaidSaleInv, Claimed, Claims, Left, Steps, OneHolds

\* A call that goes on keeps its kind and its invoice.
LEMMA CallWrites ==
    ASSUME SaleTypes, NEW c \in Calls,
           NEW pc \in {"submit", "insert", "save", "answered", "refused", "failed"},
           CallGoes(c, pc)
    PROVE  /\ call' \in [Calls -> CallStates] /\ call'[c].pc = pc
           /\ call'[c].kind = call[c].kind /\ call'[c].sale = call[c].sale
           /\ \A d \in Calls \ {c} : call'[d] = call[d]
<1>1. \A x \in CallStates :
         /\ [x EXCEPT !.pc = pc] \in CallStates /\ [x EXCEPT !.pc = pc].pc = pc
         /\ [x EXCEPT !.pc = pc].kind = x.kind /\ [x EXCEPT !.pc = pc].sale = x.sale
  BY DEF CallStates
<1> QED
  BY <1>1 DEF SaleTypes, CallGoes

LEMMA FewerHold ==
    ASSUME OneHolds, met \subseteq met', undone \subseteq undone',
           \A k \in Kinds, s \in Sales \ (met' \union undone') : HeldBy(k, s)' \subseteq HeldBy(k, s)
    PROVE  OneHolds'
  BY DEF OneHolds

-----------------------------------------------------------------------------
\* A call that begins was idle and holds nothing.
LEMMA BeginKeeps ==
    ASSUME SaleInv, NEW c \in Calls, NEW what \in Kinds, NEW s \in Sales,
           NEW key \in DisputeKeys \union {NoDisputeKey}, Begin(c, what, s, key)
    PROVE  SaleInv'
<1>1. SaleTypes /\ Claimed /\ Steps /\ OneHolds
  BY DEF SaleInv, PaidSaleInv
<1>2. PICK pc \in {"answered", "refused", "look"} :
         /\ call' = [call EXCEPT ![c] = [pc |-> pc, kind |-> what, sale |-> s, key |-> key]]
         /\ pc = "look" => sale[s] = "paid"
  BY DEF Begin
<1>3. /\ call[c].pc = "idle" /\ UNCHANGED <<sale, refunds, disputes, submitted, met, undone>>
  BY DEF Begin
<1>4. /\ call'[c].pc = pc /\ call'[c].kind = what /\ call'[c].sale = s
      /\ \A d \in Calls \ {c} : call'[d] = call[d]
  BY <1>1, <1>2 DEF SaleTypes
<1>5. c \notin Left
  BY <1>1, <1>3 DEF Claimed, Claims
<1>6. SaleTypes'
  <2>1. [pc |-> pc, kind |-> what, sale |-> s, key |-> key] \in CallStates
    BY DEF CallStates, Kinds
  <2> QED
    BY <1>1, <1>2, <1>3, <2>1 DEF SaleTypes
<1>7. Claimed'
  BY <1>1, <1>2, <1>3, <1>4, <1>5 DEF Claimed, Claims, Left
<1>8. Steps'
  BY <1>1, <1>3, <1>4, <1>5 DEF Steps, LiveRefunds, Left
<1>9. \A k \in Kinds, x \in Sales : HeldBy(k, x)' \subseteq HeldBy(k, x)
  BY <1>1, <1>3, <1>4, <1>5
     DEF SaleTypes, HeldBy, Checked, Existing, LiveRefunds, OpenDisputes, Left
<1> QED
  BY <1>1, <1>3, <1>6, <1>7, <1>8, <1>9, FewerHold DEF SaleInv, PaidSaleInv

\* One that finds nothing becomes the only one, or both met.
LEMMA LookKeeps ==
    ASSUME SaleInv, NEW c \in Calls, Look(c) PROVE SaleInv'
<1>1. SaleTypes /\ Claimed /\ Steps /\ OneHolds /\ call[c] \in CallStates
  BY DEF SaleInv, PaidSaleInv, SaleTypes
<1>2. PICK k \in Kinds, s \in Sales : call[c].kind = k /\ call[c].sale = s
  BY <1>1 DEF CallStates, Kinds
<1>3. PICK pc \in {"submit", "insert", "refused"} :
         /\ CallGoes(c, pc)
         /\ pc = "refused" => UNCHANGED met
         /\ pc # "refused" => /\ pc = (IF k = "refund" THEN "submit" ELSE "insert")
                              /\ Existing(k, s) = {}
                              /\ met' = IF Checked(k, s) # {} THEN met \union {s} ELSE met
  BY <1>2 DEF Look
<1>4. /\ call[c].pc = "look" /\ UNCHANGED <<sale, refunds, disputes, submitted, undone>>
      /\ sale[s] = "paid" /\ c \notin submitted /\ c \notin DOMAIN disputes
  BY <1>1, <1>2 DEF Look, Claimed, Claims, Steps
<1>5. /\ call' \in [Calls -> CallStates] /\ call'[c].pc = pc
      /\ call'[c].kind = k /\ call'[c].sale = s
      /\ \A d \in Calls \ {c} : call'[d] = call[d]
  BY <1>1, <1>2, <1>3, CallWrites
<1>6. SaleTypes'
  BY <1>1, <1>4, <1>5 DEF SaleTypes
<1>7. Claimed'
  BY <1>1, <1>2, <1>3, <1>4, <1>5 DEF Claimed, Claims, Left
<1>8. Steps'
  BY <1>1, <1>2, <1>3, <1>4, <1>5 DEF Steps, LiveRefunds, Kinds
<1>9. OneHolds'
  <2>1. \A j \in Kinds, x \in Sales : <<j, x>> # <<k, s>> => HeldBy(j, x)' \subseteq HeldBy(j, x)
    BY <1>1, <1>2, <1>4, <1>5
       DEF SaleTypes, HeldBy, Checked, Existing, LiveRefunds, OpenDisputes
  <2>2. HeldBy(k, s)' \subseteq HeldBy(k, s) \union {c}
    BY <1>1, <1>2, <1>4, <1>5
       DEF SaleTypes, HeldBy, Checked, Existing, LiveRefunds, OpenDisputes
  <2>3. CASE pc = "refused"
    <3>1. HeldBy(k, s)' \subseteq HeldBy(k, s)
      BY <1>1, <1>2, <1>4, <1>5, <2>3
         DEF SaleTypes, HeldBy, Checked, Existing, LiveRefunds, OpenDisputes
    <3> QED
      BY <1>1, <1>3, <1>4, <2>1, <2>3, <3>1, FewerHold
  <2>4. CASE pc # "refused"
    <3>1. s \in met' \/ HeldBy(k, s) = {}
      BY <1>3, <2>4 DEF HeldBy
    <3>2. met \subseteq met'
      BY <1>3, <2>4
    <3> QED
      BY <1>1, <1>4, <2>1, <2>2, <3>1, <3>2 DEF OneHolds
  <2> QED
    BY <2>3, <2>4
<1> QED
  BY <1>6, <1>7, <1>8, <1>9 DEF SaleInv, PaidSaleInv

-----------------------------------------------------------------------------
\* The steps after the look: each hands on what the call holds.
LEMMA SubmitKeeps ==
    ASSUME SaleInv, NEW c \in Calls, Submit(c) PROVE SaleInv'
<1>1. SaleTypes /\ Claimed /\ Steps /\ OneHolds
  BY DEF SaleInv, PaidSaleInv
<1>2. /\ call[c].pc = "submit" /\ call[c].kind = "refund" /\ submitted' = submitted \union {c}
      /\ UNCHANGED <<sale, refunds, disputes, met, undone>>
      /\ sale[call[c].sale] = "paid" /\ c \notin DOMAIN disputes
  BY <1>1 DEF Submit, Steps, Claimed, Claims
<1>3. /\ call' \in [Calls -> CallStates] /\ call'[c].pc = "insert"
      /\ call'[c].kind = call[c].kind /\ call'[c].sale = call[c].sale
      /\ \A d \in Calls \ {c} : call'[d] = call[d]
  BY <1>1, CallWrites DEF Submit
<1>4. SaleTypes'
  BY <1>1, <1>2, <1>3 DEF SaleTypes
<1>5. Claimed'
  BY <1>1, <1>2, <1>3 DEF Claimed, Claims, Left
<1>6. Steps'
  BY <1>1, <1>2, <1>3 DEF Steps, LiveRefunds
<1>7. \A k \in Kinds, s \in Sales : HeldBy(k, s)' \subseteq HeldBy(k, s)
  BY <1>1, <1>2, <1>3
     DEF SaleTypes, HeldBy, Checked, Existing, LiveRefunds, OpenDisputes
<1> QED
  BY <1>1, <1>2, <1>4, <1>5, <1>6, <1>7, FewerHold DEF SaleInv, PaidSaleInv

LEMMA InsertRefundKeeps ==
    ASSUME SaleInv, NEW c \in Calls, InsertRefund(c) PROVE SaleInv'
<1>1. SaleTypes /\ Claimed /\ Steps /\ OneHolds
  BY DEF SaleInv, PaidSaleInv
<1>2. /\ call[c].pc = "insert" /\ call[c].kind = "refund"
      /\ UNCHANGED <<sale, disputes, submitted, met, undone>>
      /\ sale[call[c].sale] = "paid" /\ c \in submitted /\ c \notin DOMAIN disputes
  BY <1>1 DEF InsertRefund, Steps, Claimed, Claims
<1>3. /\ call' \in [Calls -> CallStates] /\ call'[c].pc = "answered"
      /\ call'[c].kind = call[c].kind /\ call'[c].sale = call[c].sale
      /\ \A d \in Calls \ {c} : call'[d] = call[d]
  BY <1>1, CallWrites DEF InsertRefund
<1>4. /\ DOMAIN refunds' = DOMAIN refunds \union {c} /\ refunds'[c] = "submitted"
      /\ \A d \in DOMAIN refunds \ {c} : refunds'[d] = refunds[d]
  BY DEF InsertRefund
<1>5. SaleTypes'
  BY <1>1, <1>2, <1>3, <1>4 DEF SaleTypes
<1>6. Claimed'
  BY <1>1, <1>2, <1>3, <1>4 DEF Claimed, Claims, Left
<1>7. Steps'
  BY <1>1, <1>2, <1>3, <1>4 DEF Steps, LiveRefunds
<1>8. \A k \in Kinds, s \in Sales : HeldBy(k, s)' \subseteq HeldBy(k, s)
  BY <1>1, <1>2, <1>3, <1>4
     DEF SaleTypes, HeldBy, Checked, Existing, LiveRefunds, OpenDisputes
<1> QED
  BY <1>1, <1>2, <1>5, <1>6, <1>7, <1>8, FewerHold DEF SaleInv, PaidSaleInv

LEMMA InsertDisputeKeeps ==
    ASSUME SaleInv, NEW c \in Calls, InsertDispute(c) PROVE SaleInv'
<1>1. SaleTypes /\ Claimed /\ Steps /\ OneHolds
  BY DEF SaleInv, PaidSaleInv
<1>2. /\ call[c].pc = "insert" /\ call[c].kind = "dispute"
      /\ UNCHANGED <<sale, refunds, submitted, met, undone>>
      /\ sale[call[c].sale] = "paid" /\ c \notin submitted /\ c \notin DOMAIN refunds
  BY <1>1 DEF InsertDispute, Steps, Claimed, Claims
<1>3. PICK pc \in {"answered", "save"} : CallGoes(c, pc)
  BY DEF InsertDispute
<1>4. /\ call' \in [Calls -> CallStates] /\ call'[c].pc = pc
      /\ call'[c].kind = call[c].kind /\ call'[c].sale = call[c].sale
      /\ \A d \in Calls \ {c} : call'[d] = call[d]
  BY <1>1, <1>3, CallWrites
<1>5. /\ DOMAIN disputes' = DOMAIN disputes \union {c}
      /\ \A d \in DOMAIN disputes \ {c} : disputes'[d] = disputes[d]
  BY DEF InsertDispute
<1>6. SaleTypes'
  BY <1>1, <1>2, <1>4, <1>5 DEF SaleTypes
<1>7. Claimed'
  BY <1>1, <1>2, <1>4, <1>5 DEF Claimed, Claims, Left
<1>8. Steps'
  BY <1>1, <1>2, <1>4, <1>5 DEF Steps, LiveRefunds
<1>9. \A k \in Kinds, s \in Sales : HeldBy(k, s)' \subseteq HeldBy(k, s)
  <2> SUFFICES ASSUME NEW k \in Kinds, NEW s \in Sales, NEW x \in HeldBy(k, s)'
               PROVE  x \in HeldBy(k, s)
    OBVIOUS
  <2>1. CASE x = c
    BY <1>1, <1>2, <1>4, <2>1
       DEF SaleTypes, Kinds, HeldBy, Checked, Existing, LiveRefunds, OpenDisputes
  <2>2. CASE x # c
    BY <1>1, <1>2, <1>4, <1>5, <2>2
       DEF SaleTypes, Kinds, HeldBy, Checked, Existing, LiveRefunds, OpenDisputes
  <2> QED
    BY <2>1, <2>2
<1> QED
  BY <1>1, <1>2, <1>6, <1>7, <1>8, <1>9, FewerHold DEF SaleInv, PaidSaleInv

\* A call that ends holds no more than its row; one whose submission is
\* forgotten is counted in undone.
LEMMA EndsKeeps ==
    ASSUME SaleInv, NEW c \in Calls, SaveDispute(c) \/ CallFails(c) PROVE SaleInv'
<1>1. SaleTypes /\ Claimed /\ Steps /\ OneHolds
  BY DEF SaleInv, PaidSaleInv
<1>2. PICK pc \in {"answered", "failed"} : CallGoes(c, pc)
  BY DEF SaveDispute, CallFails
<1>3. /\ call[c].pc \in {"look", "submit", "insert", "save"}
      /\ UNCHANGED <<sale, refunds, disputes, submitted, met>>
      /\ undone \subseteq undone' /\ sale[call[c].sale] = "paid"
      /\ c \in submitted => call[c].sale \in undone' /\ call[c].pc = "insert"
  BY <1>1 DEF SaveDispute, CallFails, Claimed, Claims, Steps
<1>4. /\ call' \in [Calls -> CallStates] /\ call'[c].pc = pc
      /\ call'[c].kind = call[c].kind /\ call'[c].sale = call[c].sale
      /\ \A d \in Calls \ {c} : call'[d] = call[d]
  BY <1>1, <1>2, CallWrites
<1>5. SaleTypes'
  BY <1>1, <1>3, <1>4 DEF SaleTypes
<1>6. Claimed'
  BY <1>1, <1>3, <1>4 DEF Claimed, Claims, Left
<1>7. Steps'
  BY <1>1, <1>3, <1>4 DEF Steps, LiveRefunds
<1>8. \A k \in Kinds, s \in Sales : HeldBy(k, s)' \subseteq HeldBy(k, s)
  BY <1>1, <1>3, <1>4
     DEF SaleTypes, HeldBy, Checked, Existing, LiveRefunds, OpenDisputes
<1> QED
  BY <1>1, <1>3, <1>5, <1>6, <1>7, <1>8, FewerHold DEF SaleInv, PaidSaleInv

-----------------------------------------------------------------------------
\* A dispute that is reopened is counted in undone, and any other patch
\* leaves it open or closed as it was, or closes it.
LEMMA PatchKeeps ==
    ASSUME SaleInv, NEW c \in Calls, NEW to \in DisputeStatuses, PatchDispute(c, to)
    PROVE  SaleInv'
<1>1. SaleTypes /\ Claimed /\ Steps /\ OneHolds
  BY DEF SaleInv, PaidSaleInv
<1>2. /\ c \in DOMAIN disputes /\ DOMAIN disputes' = DOMAIN disputes
      /\ \A d \in DOMAIN disputes : disputes'[d] = IF d = c THEN to ELSE disputes[d]
      /\ UNCHANGED <<sale, call, refunds, submitted, met>> /\ undone \subseteq undone'
      /\ call[c].sale \in undone' \/ (disputes[c] \in Terminal => to \in Terminal)
  BY DEF PatchDispute
<1>3. SaleTypes'
  BY <1>1, <1>2 DEF SaleTypes
<1>4. Claimed' /\ Steps'
  BY <1>1, <1>2 DEF Claimed, Claims, Left, Steps, LiveRefunds
<1>5. \A k \in Kinds, s \in Sales \ (met' \union undone') : HeldBy(k, s)' \subseteq HeldBy(k, s)
  BY <1>1, <1>2 DEF HeldBy, Checked, Existing, LiveRefunds, OpenDisputes
<1> QED
  BY <1>1, <1>2, <1>3, <1>4, <1>5, FewerHold DEF SaleInv, PaidSaleInv

LEMMA RefundEndsKeeps ==
    ASSUME SaleInv, NEW c \in Calls, NEW to \in {"settled", "failed"}, RefundEnds(c, to)
    PROVE  SaleInv'
<1>1. SaleTypes /\ Claimed /\ Steps /\ OneHolds
  BY DEF SaleInv, PaidSaleInv
<1>2. /\ c \in DOMAIN refunds /\ DOMAIN refunds' = DOMAIN refunds /\ refunds[c] = "submitted"
      /\ \A d \in DOMAIN refunds : refunds'[d] = IF d = c THEN to ELSE refunds[d]
      /\ UNCHANGED <<sale, call, disputes, submitted, met>> /\ undone \subseteq undone'
      /\ to = "failed" => call[c].sale \in undone'
  BY DEF RefundEnds
<1>3. SaleTypes'
  BY <1>1, <1>2 DEF SaleTypes
<1>4. Claimed' /\ Steps'
  BY <1>1, <1>2 DEF Claimed, Claims, Left, Steps, LiveRefunds
<1>5. \A k \in Kinds, s \in Sales : HeldBy(k, s)' \subseteq HeldBy(k, s)
  BY <1>1, <1>2 DEF HeldBy, Checked, Existing, LiveRefunds, OpenDisputes
<1> QED
  BY <1>1, <1>2, <1>3, <1>4, <1>5, FewerHold DEF SaleInv, PaidSaleInv

\* Every update of an invoice's status asks for one that is not final.
LEMMA MovesKeep ==
    ASSUME SaleInv, NEW s \in Sales, NEW to \in SaleStatuses,
           sale[s] # "paid", MoveSale(s, to)
    PROVE  SaleInv'
<1>1. SaleTypes /\ Claimed /\ Steps /\ OneHolds
  BY DEF SaleInv, PaidSaleInv
<1>2. /\ UNCHANGED <<call, refunds, disputes, submitted, met, undone>>
      /\ sale' \in [Sales -> SaleStatuses]
      /\ \A x \in Sales : sale[x] = "paid" => sale'[x] = "paid"
  BY <1>1 DEF MoveSale, SaleTypes
<1>3. SaleTypes'
  BY <1>1, <1>2 DEF SaleTypes
<1>4. Claimed'
  BY <1>1, <1>2 DEF SaleTypes, CallStates, Claimed, Claims, Left
<1>5. Steps' /\ OneHolds'
  BY <1>1, <1>2 DEF Steps, OneHolds, HeldBy, Checked, Existing, LiveRefunds, OpenDisputes
<1> QED
  BY <1>3, <1>4, <1>5 DEF SaleInv, PaidSaleInv

LEMMA StepKeeps == SaleInv /\ [AfterSaleNext]_afterSaleVars => SaleInv'
<1> SUFFICES ASSUME SaleInv, [AfterSaleNext]_afterSaleVars PROVE SaleInv'
  OBVIOUS
<1>1. ASSUME NEW c \in Calls, NEW what \in {"refund", "dispute"}, NEW s \in Sales,
             NEW key \in DisputeKeys \union {NoDisputeKey}, Begin(c, what, s, key)
      PROVE SaleInv'
  BY <1>1, BeginKeeps DEF Kinds
<1>2. ASSUME NEW c \in Calls, \/ Look(c) \/ Submit(c) \/ InsertRefund(c) \/ InsertDispute(c)
                              \/ SaveDispute(c) \/ CallFails(c)
      PROVE SaleInv'
  BY <1>2, LookKeeps, SubmitKeeps, InsertRefundKeeps, InsertDisputeKeeps, EndsKeeps
<1>3. ASSUME NEW c \in Calls, \/ \E to \in DisputeStatuses : PatchDispute(c, to)
                              \/ \E to \in {"settled", "failed"} : RefundEnds(c, to)
      PROVE SaleInv'
  BY <1>3, PatchKeeps, RefundEndsKeeps
<1>4. ASSUME NEW s \in Sales, \/ MarkPaid(s) \/ EndSale(s, "cancelled") \/ EndSale(s, "expired")
                              \/ \E part \in 1..Due[s] : ApplyPartialPayment(s, part)
      PROVE SaleInv'
  <2>1. PICK to \in SaleStatuses : sale[s] # "paid" /\ MoveSale(s, to)
    BY <1>4 DEF MarkPaid, EndSale, ApplyPartialPayment, Active, SaleStatuses
  <2> QED
    BY <2>1, MovesKeep
<1>5. CASE UNCHANGED afterSaleVars
  BY <1>5 DEF afterSaleVars, SaleInv, PaidSaleInv, SaleTypes, Claimed, Claims, Left, Steps, OneHolds,
              HeldBy, Checked, Existing, LiveRefunds, OpenDisputes
<1> QED
  BY <1>1, <1>2, <1>3, <1>4, <1>5 DEF AfterSaleNext

-----------------------------------------------------------------------------
\* What has a refund, a dispute or a submission was paid and stays so, for
\* any number of calls between whose reads and writes the invoice may move.
THEOREM StaysPaid == AfterSaleSpec => []PaidForGood
<1>1. SaleInv => PaidForGood
  BY DEF SaleInv, PaidSaleInv, SaleTypes, Claimed, Claims, Left, PaidForGood
<1> QED
  BY InitSale, StepKeeps, <1>1, PTL DEF AfterSaleSpec

\* No invoice is refunded twice or has two open disputes, for any number of
\* calls, unless two of them looked at once, a refund failed or was
\* forgotten, or a dispute was reopened.
THEOREM OneLives == AfterSaleSpec => []OneLiveUnlessRaced
<1>1. SaleInv => OneLiveUnlessRaced
  <2> SUFFICES ASSUME SaleInv, NEW s \in Sales \ (met \union undone),
                      NEW c \in Calls, NEW d \in Calls, call[c].sale = s, call[d].sale = s
               PROVE  /\ {c, d} \subseteq LiveRefunds(s) \/ {c, d} \subseteq OpenDisputes(s) => c = d
                      /\ {c, d} \subseteq submitted => c = d
    BY DEF OneLiveUnlessRaced
  <2>1. /\ \A x, y \in HeldBy("refund", s) : x = y
        /\ \A x, y \in HeldBy("dispute", s) : x = y
    BY DEF SaleInv, OneHolds, Kinds
  <2>2. \A x \in Calls : x \in submitted /\ call[x].sale = s => x \in HeldBy("refund", s)
    BY DEF SaleInv, Steps, HeldBy, Checked, Existing
  <2>3. LiveRefunds(s) \subseteq HeldBy("refund", s) /\ OpenDisputes(s) \subseteq HeldBy("dispute", s)
    BY DEF HeldBy, Existing
  <2> QED
    BY <2>1, <2>2, <2>3
<1> QED
  BY InitSale, StepKeeps, <1>1, PTL DEF AfterSaleSpec

\* The type invariant: what two calls met at and what was undone are invoices.
THEOREM AfterSaleTypeCorrect == AfterSaleSpec => []AfterSaleTypeOK
<1> DEFINE Marks == met \subseteq Sales /\ undone \subseteq Sales
<1>1. AfterSaleInit => Marks
  BY DEF AfterSaleInit
<1>2. SaleInv /\ Marks /\ [AfterSaleNext]_afterSaleVars => Marks'
  <2> SUFFICES ASSUME SaleInv, Marks, [AfterSaleNext]_afterSaleVars PROVE Marks'
    OBVIOUS
  <2>1. \A c \in Calls : call[c].sale \in Sales
    BY DEF SaleInv, PaidSaleInv, SaleTypes, CallStates
  <2>2. ASSUME NEW c \in Calls,
               \/ \E what \in {"refund", "dispute"}, s \in Sales,
                     key \in DisputeKeys \union {NoDisputeKey} : Begin(c, what, s, key)
               \/ Look(c) \/ Submit(c) \/ InsertRefund(c) \/ InsertDispute(c) \/ SaveDispute(c)
               \/ CallFails(c)
        PROVE  Marks'
    BY <2>1, <2>2
       DEF Begin, Look, Submit, InsertRefund, InsertDispute, SaveDispute, CallFails
  <2>3. ASSUME NEW c \in Calls, \/ \E to \in DisputeStatuses : PatchDispute(c, to)
                                \/ \E to \in {"settled", "failed"} : RefundEnds(c, to)
        PROVE  Marks'
    BY <2>1, <2>3 DEF PatchDispute, RefundEnds
  <2>4. ASSUME NEW s \in Sales, \/ MarkPaid(s) \/ EndSale(s, "cancelled") \/ EndSale(s, "expired")
                                \/ \E part \in 1..Due[s] : ApplyPartialPayment(s, part)
        PROVE  Marks'
    BY <2>4 DEF MarkPaid, EndSale, ApplyPartialPayment, MoveSale
  <2>5. CASE UNCHANGED afterSaleVars
    BY <2>5 DEF afterSaleVars
  <2> QED
    BY <2>2, <2>3, <2>4, <2>5 DEF AfterSaleNext
<1>3. SaleInv /\ Marks => AfterSaleTypeOK
  BY DEF SaleInv, PaidSaleInv, SaleTypes, AfterSaleTypeOK
<1> HIDE DEF Marks
<1> QED
  BY InitSale, StepKeeps, <1>1, <1>2, <1>3, PTL DEF AfterSaleSpec

-----------------------------------------------------------------------------
(* HealthChecks: the type invariant needs to know that a row has one check  *)
(* after the other, of two dependencies.                                    *)

HealthInv ==
    /\ HealthTypeOK
    /\ asking \in [Pings -> [{Base, Rpc} -> 1 .. 3]]
    /\ report = [p \in Pings |-> report[p]]

\* A health check reports on the dependencies there are, and on nothing else,
\* whichever of them hang.
THEOREM HealthTypeCorrect == HealthSpec => []HealthTypeOK
<1>1. HealthInit => HealthInv
  BY DEF HealthInit, HealthInv, HealthTypeOK
<1>2. HealthInv /\ [HealthNext]_healthVars => HealthInv'
  <2> SUFFICES ASSUME HealthInv, [HealthNext]_healthVars PROVE HealthInv'
    OBVIOUS
  <2>1. ASSUME NEW p \in Pings, NEW row \in {Base, Rpc}, InRow(p, row), NEW says,
               Reports(p, row, says)
        PROVE  HealthInv'
    <3>1. asking[p][row] \in 1 .. 3 /\ asking[p][row] <= 2
      BY <2>1 DEF HealthInv, InRow
    <3>2. row[asking[p][row]] \in Services
      BY <3>1 DEF Base, Rpc, Services
    <3>3. asking' \in [Pings -> [{Base, Rpc} -> 1 .. 3]]
      <4> DEFINE Both == {Base, Rpc}
      <4>1. asking \in [Pings -> [Both -> 1 .. 3]] /\ row \in Both
        BY DEF HealthInv
      <4>2. asking' = [asking EXCEPT ![p][row] = asking[p][row] + 1]
        BY <2>1 DEF Reports
      <4>3. asking[p][row] + 1 \in 1 .. 3
        BY <3>1
      <4> HIDE DEF Both
      <4>4. asking' \in [Pings -> [Both -> 1 .. 3]]
        BY <4>1, <4>2, <4>3
      <4> QED
        BY <4>4 DEF Both
    <3>4. /\ report' = [report EXCEPT ![p] =
                [x \in DOMAIN report[p] \union {row[asking[p][row]]} |->
                    IF x = row[asking[p][row]] THEN says ELSE report[p][x]]]
          /\ UNCHANGED <<service, kind, answer>>
      BY <2>1 DEF Reports, HealthInv
    <3>5. /\ report' = [q \in Pings |-> report'[q]]
          /\ DOMAIN report'[p] = DOMAIN report[p] \union {row[asking[p][row]]}
          /\ \A q \in Pings \ {p} : report'[q] = report[q]
      BY <3>4 DEF HealthInv
    <3>6. \A q \in Pings : DOMAIN report'[q] \subseteq Services
      BY <3>2, <3>5 DEF HealthInv, HealthTypeOK
    <3> QED
      BY <3>3, <3>4, <3>5, <3>6 DEF HealthInv, HealthTypeOK
  <2>2. ASSUME NEW p \in Pings, NEW row \in {Base, Rpc}, ServiceAnswers(p, row) \/ TimerWins(p, row)
        PROVE  HealthInv'
    BY <2>1, <2>2 DEF ServiceAnswers, TimerWins
  <2>3. ASSUME NEW s \in Services, NEW how \in {"up", "down", "hung"}, Change(s, how)
        PROVE  HealthInv'
    BY <2>3 DEF Change, HealthInv, HealthTypeOK
  <2>4. ASSUME NEW p \in Pings, NEW k \in {"health", "rpc", "deep"}, Ping(p, k) PROVE HealthInv'
    BY <2>4 DEF Ping, HealthInv, HealthTypeOK
  <2>5. ASSUME NEW p \in Pings, AnswerPing(p) PROVE HealthInv'
    BY <2>5 DEF AnswerPing, HealthOf, HealthInv, HealthTypeOK
  <2>6. CASE UNCHANGED healthVars
    BY <2>6 DEF healthVars, HealthInv, HealthTypeOK
  <2> QED
    BY <2>2, <2>3, <2>4, <2>5, <2>6 DEF HealthNext
<1>3. HealthInv => HealthTypeOK
  BY DEF HealthInv
<1> QED
  BY <1>1, <1>2, <1>3, PTL DEF HealthSpec
=============================================================================
