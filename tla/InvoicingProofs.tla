-------------------------- MODULE InvoicingProofs --------------------------
(***************************************************************************)
(* What creating invoices guarantees for every set of merchants, requests, *)
(* amounts and limits: one invoice for an Idempotency-Key, muxed ids that  *)
(* are not taken twice, bulks that leave all or nothing, and limits that   *)
(* are kept while requests of one merchant do not meet.  The inductive     *)
(* invariant has a part for each; InvoicingShape is common to them.        *)
(***************************************************************************)
EXTENDS Invoicing, SumLemmas

Stages == {"idle", "existing", "merchant", "day", "month", "base", "setbase", "seq", "insert",
           "save", "commit", "done", "unheard", "overlimit", "failed"}

InvoiceRows == [id : Ids, m : Merchants, key : Keys \union {NoKey}, amount : Nat, gross : Nat,
                muxed : Nat, day : Nat]

RequestStates ==
    [pc : Stages, m : Merchants, key : Keys \union {NoKey}, bulk : BOOLEAN, items : Seq(Amounts),
     i : Nat \ {0}, began : Nat, lim : [Periods -> Limits \union {NoLimit}], muxed : Nat, answer : SUBSET Ids]

InvoicingTypes ==
    /\ rows \subseteq InvoiceRows /\ IsFiniteSet(rows)
    /\ held \in [Requests -> SUBSET InvoiceRows] /\ \A r \in Requests : IsFiniteSet(held[r])
    /\ idem \subseteq [m : Merchants, key : Keys, body : Amounts, id : Ids]
    /\ base \in [Merchants -> Nat] /\ seq \in [Merchants -> Nat]
    /\ limit \in [Merchants -> [Periods -> Limits \union {NoLimit}]]
    /\ today \in Nat /\ conns \in Int /\ raced \subseteq Merchants
    /\ req \in [Requests -> RequestStates]

\* What the stage of a request says of the rest of it.
Shape(r) ==
    /\ Open(r) => req[r].i \in 1..Len(req[r].items)
    /\ Open(r) /\ ~req[r].bulk => Len(req[r].items) = 1
    /\ req[r].pc = "idle" => ~req[r].bulk
    /\ req[r].bulk => req[r].key = NoKey
    /\ req[r].pc \in {"existing", "save"} => ~req[r].bulk /\ req[r].key # NoKey
    /\ req[r].pc = "commit" => req[r].bulk /\ req[r].i = Len(req[r].items)
    /\ held[r] # {} => req[r].bulk /\ Open(r)

InvoicingShape == InvoicingTypes /\ \A r \in Requests : Shape(r)

-----------------------------------------------------------------------------
(* What a step of a request does, field by field.                          *)

Alone(r) == \A q \in Requests \ {r} : req'[q] = req[q] /\ held'[q] = held[q]
SameRequest(r) == req'[r].m = req[r].m /\ req'[r].key = req[r].key /\ req'[r].bulk = req[r].bulk

RequestsTyped ==
    /\ req \in [Requests -> RequestStates]
    /\ held \in [Requests -> SUBSET InvoiceRows] /\ \A r \in Requests : IsFiniteSet(held[r])

\* It goes on to another stage with what it has.
Goes(r, pc) ==
    /\ Alone(r) /\ SameRequest(r) /\ req'[r].pc = pc /\ held'[r] = held[r] /\ conns' = conns
    /\ req'[r].items = req[r].items /\ req'[r].i = req[r].i /\ req'[r].began = req[r].began
    /\ req[r].pc # "merchant" => req'[r].lim = req[r].lim

\* It ends, whether with an answer or without.
Ends(r, pc) ==
    /\ Alone(r) /\ SameRequest(r) /\ req'[r].pc = pc /\ held'[r] = {}
    /\ conns' = IF req[r].bulk THEN conns + 1 ELSE conns

LEMMA IdleTyped == Idle \in RequestStates
<1>1. Idle.m \in Merchants
  BY InvoicingAssumption DEF Idle
<1>2. Idle.lim \in [Periods -> Limits \union {NoLimit}]
  BY DEF Idle
<1> QED
  BY <1>1, <1>2 DEF Idle, RequestStates, Stages

LEMMA ArrivalTyped ==
    ASSUME NEW m \in Merchants, NEW key \in Keys \union {NoKey}, NEW bulk \in BOOLEAN,
           NEW items \in Seq(Amounts), NEW pc \in Stages
    PROVE  /\ Arrival(m, key, bulk, items, pc) \in RequestStates
           /\ Arrival(m, key, bulk, items, pc).pc = pc
           /\ Arrival(m, key, bulk, items, pc).m = m
           /\ Arrival(m, key, bulk, items, pc).key = key
           /\ Arrival(m, key, bulk, items, pc).bulk = bulk
           /\ Arrival(m, key, bulk, items, pc).items = items
           /\ Arrival(m, key, bulk, items, pc).i = 1
<1>1. Idle.i = 1
  BY DEF Idle
<1> QED
  BY <1>1, IdleTyped DEF Arrival, RequestStates

\* The record of one request, and the rows it holds, are changed.
LEMMA Becomes ==
    ASSUME InvoicingTypes, NEW r \in Requests, NEW new \in RequestStates,
           req' = [req EXCEPT ![r] = new],
           \/ held' = held
           \/ \E rs \in SUBSET InvoiceRows : IsFiniteSet(rs) /\ held' = [held EXCEPT ![r] = rs]
    PROVE  /\ Alone(r) /\ req'[r] = new /\ RequestsTyped'
           /\ \A rs : held' = [held EXCEPT ![r] = rs] => held'[r] = rs
<1>1. req'[r] = new /\ req' \in [Requests -> RequestStates]
  BY DEF InvoicingTypes
<1>2. /\ held' \in [Requests -> SUBSET InvoiceRows] /\ \A q \in Requests : IsFiniteSet(held'[q])
      /\ \A q \in Requests \ {r} : held'[q] = held[q]
  BY DEF InvoicingTypes
<1>3. \A q \in Requests \ {r} : req'[q] = req[q]
  BY DEF InvoicingTypes
<1>4. \A rs : held' = [held EXCEPT ![r] = rs] => held'[r] = rs
  BY DEF InvoicingTypes
<1> QED
  BY <1>1, <1>2, <1>3, <1>4 DEF Alone, RequestsTyped

LEMMA GotoEffect ==
    ASSUME InvoicingTypes, NEW r \in Requests, NEW pc \in Stages, Goto(r, pc),
           UNCHANGED <<conns, held>>
    PROVE  /\ Goes(r, pc) /\ RequestsTyped'
           /\ req'[r].lim = req[r].lim /\ req'[r].muxed = req[r].muxed
  BY DEF InvoicingTypes, RequestsTyped, RequestStates, Goto, Goes, Alone, SameRequest

LEMMA EndEffect ==
    ASSUME InvoicingTypes, NEW r \in Requests, NEW pc \in {"done", "unheard", "failed"},
           NEW answer \in SUBSET Ids, End(r, pc, answer)
    PROVE  /\ Ends(r, pc) /\ RequestsTyped' /\ req'[r].answer = answer
           /\ pc \in {"done", "unheard"} => req'[r].items = req[r].items
<1> DEFINE items == IF pc \in {"done", "unheard"} THEN req[r].items ELSE <<>>
           new == Arrival(req[r].m, req[r].key, req[r].bulk, items, pc)
<1>1. req[r] \in RequestStates /\ items \in Seq(Amounts) /\ pc \in Stages
  BY DEF InvoicingTypes, RequestStates, Stages
<1>2. /\ new \in RequestStates /\ new.pc = pc /\ new.m = req[r].m /\ new.key = req[r].key
      /\ new.bulk = req[r].bulk /\ new.items = items
  <2> HIDE DEF items
  <2>1. req[r].m \in Merchants /\ req[r].key \in Keys \union {NoKey} /\ req[r].bulk \in BOOLEAN
    BY <1>1 DEF RequestStates
  <2>2. PICK m \in Merchants, key \in Keys \union {NoKey}, bulk \in BOOLEAN :
           req[r].m = m /\ req[r].key = key /\ req[r].bulk = bulk
    BY <2>1, Zenon
  <2>3. new = Arrival(m, key, bulk, items, pc)
    BY <2>2, Zenon
  <2>4. items \in Seq(Amounts) /\ pc \in Stages
    BY <1>1
  <2> HIDE DEF new
  <2>5. /\ Arrival(m, key, bulk, items, pc) \in RequestStates
        /\ Arrival(m, key, bulk, items, pc).pc = pc
        /\ Arrival(m, key, bulk, items, pc).m = m
        /\ Arrival(m, key, bulk, items, pc).key = key
        /\ Arrival(m, key, bulk, items, pc).bulk = bulk
        /\ Arrival(m, key, bulk, items, pc).items = items
    BY <2>4, ArrivalTyped
  <2> QED
    BY <2>2, <2>3, <2>5
<1>3. /\ req' = [req EXCEPT ![r] = [new EXCEPT !.answer = answer]]
      /\ held' = [held EXCEPT ![r] = {}]
      /\ conns' = IF req[r].bulk THEN conns + 1 ELSE conns
  BY DEF End, Ended
<1> HIDE DEF new
<1>4. /\ req'[r] \in RequestStates /\ req'[r].pc = pc /\ SameRequest(r) /\ req'[r].items = items
      /\ req'[r].answer = answer /\ Alone(r) /\ held'[r] = {}
  BY <1>2, <1>3 DEF InvoicingTypes, RequestStates, SameRequest, Alone
<1>5. RequestsTyped'
  BY <1>3, <1>4, FS_EmptySet DEF InvoicingTypes, RequestsTyped, Alone
<1> QED
  BY <1>3, <1>4, <1>5 DEF Ends

\* An end after which what was asked for is known, answered or not.
Leaves(r, ids) ==
    /\ (Ends(r, "done") /\ req'[r].answer = ids) \/ Ends(r, "unheard")
    /\ req'[r].items = req[r].items

LEMMA AnswerEffect ==
    ASSUME InvoicingTypes, NEW r \in Requests, NEW ids \in SUBSET Ids, Answer(r, ids)
    PROVE  Leaves(r, ids) /\ RequestsTyped'
<1>1. CASE End(r, "done", ids)
  BY <1>1, EndEffect DEF Leaves
<1>2. CASE End(r, "unheard", {})
  <2>1. {} \in SUBSET Ids
    OBVIOUS
  <2> QED
    BY <1>2, <2>1, EndEffect DEF Leaves
<1> QED
  BY <1>1, <1>2 DEF Answer

LEMMA FeeNat == ASSUME NEW m \in Merchants, NEW a \in Nat PROVE Fee(m, a) \in Nat
<1>1. FeeBps[m] \in Nat /\ FixedFee[m] \in Nat
  BY InvoicingAssumption
<1>2. \A x, y \in Nat : x * y \in Nat
  OBVIOUS
<1>3. \A x \in Nat : x \div 10000 \in Nat
  OBVIOUS
<1> QED
  BY <1>1, <1>2, <1>3 DEF Fee

LEMMA RowTyped ==
    ASSUME InvoicingShape, NEW r \in Requests, Open(r)
    PROVE  /\ Row(r) \in InvoiceRows /\ Row(r).id = <<r, req[r].i>> /\ Row(r).m = req[r].m
           /\ Row(r).key = req[r].key /\ Row(r).amount = Amount(r) /\ Row(r).muxed = req[r].muxed
           /\ Row(r).day \in {req[r].began, today} /\ Row(r).gross = Amount(r) + Fee(req[r].m, Amount(r))
           /\ Amount(r) \in Amounts /\ Amount(r) \in Nat /\ <<r, req[r].i>> \in Ids
<1>1. req[r] \in RequestStates /\ req[r].i \in 1..Len(req[r].items) /\ today \in Nat
  BY DEF InvoicingShape, InvoicingTypes, Shape
<1>2. Amount(r) \in Amounts /\ Amount(r) \in Nat
  <2>1. req[r].items \in Seq(Amounts) /\ req[r].i \in 1..Len(req[r].items)
    BY <1>1 DEF RequestStates
  <2>2. req[r].items[req[r].i] \in Amounts
    BY <2>1
  <2> QED
    BY <2>2, InvoicingAssumption DEF Amount
<1>3. Fee(req[r].m, Amount(r)) \in Nat /\ <<r, req[r].i>> \in Ids
  BY <1>1, <1>2, FeeNat DEF RequestStates, Ids
<1> QED
  BY <1>1, <1>2, <1>3 DEF Row, InvoiceRows, RequestStates

RequestKept == UNCHANGED <<tables, today>> /\ raced' \in SUBSET Merchants /\ raced \subseteq raced'

Fails(r) == Open(r) /\ (Ends(r, "failed") \/ Ends(r, "overlimit")) /\ RequestKept

\* Where it goes, with the limits it has read and what they allow.
Onward(r) ==
    /\ req[r].pc = "existing" => req'[r].pc = "merchant"
    /\ req[r].pc = "merchant" => /\ req'[r].lim = limit[req[r].m]
                                 /\ req'[r].pc = NextCheck(limit[req[r].m], "merchant")
    /\ req[r].pc \in Periods => /\ req'[r].pc = NextCheck(req[r].lim, req[r].pc)
                                /\ Spent(req[r].m, req[r].pc) + Amount(r) <= req[r].lim[req[r].pc]
                                /\ req[r].m \notin raced' => ~Beside(r)
    /\ req[r].pc = "base" => req'[r].pc \in {"seq", "setbase"}

Advances(r) ==
    /\ req[r].pc \in {"existing", "merchant", "day", "month", "base"} /\ RequestKept
    /\ \E pc \in {"merchant", "day", "month", "base", "setbase", "seq"} :
          Goes(r, pc) /\ (pc = "seq" => base[req[r].m] # 0)
    /\ Onward(r)

\* The invoices that have a key.
KeyHolders(m, key) == {x \in rows : x.m = m /\ x.key = key}

Answers(r) ==
    /\ req[r].pc = "existing" /\ Ends(r, "done") /\ RequestKept
    /\ KeyHolders(req[r].m, req[r].key) # {}
    /\ req'[r].answer = {x.id : x \in KeyHolders(req[r].m, req[r].key)}

SetsBase(r) ==
    /\ req[r].pc = "setbase" /\ Goes(r, "seq")
    /\ base' = [base EXCEPT ![req[r].m] = Index(req[r].m) * Span]
    /\ \A n \in Merchants \ {req[r].m} : base[n] # Index(req[r].m) * Span
    /\ UNCHANGED <<rows, cancelled, idem, seq, limit, today, raced>>

Numbers(r) ==
    /\ req[r].pc = "seq" /\ Goes(r, "insert")
    /\ seq' = [seq EXCEPT ![req[r].m] = @ + 1]
    /\ req'[r].muxed = base[req[r].m] + seq[req[r].m] + 1
    /\ UNCHANGED <<rows, cancelled, idem, base, limit, today, raced>>

Stores(r) ==
    /\ req[r].pc = "insert" /\ ~req[r].bulk /\ ~Refused(Row(r))
    /\ rows' = rows \union {Row(r)}
    /\ \/ req[r].key = NoKey /\ Leaves(r, {Row(r).id})
       \/ req[r].key # NoKey /\ Goes(r, "save")
    /\ UNCHANGED <<cancelled, idem, base, seq, limit, today, raced>>

Holds(r) ==
    /\ req[r].pc = "insert" /\ req[r].bulk /\ ~Refused(Row(r))
    /\ Alone(r) /\ SameRequest(r) /\ held'[r] = held[r] \union {Row(r)}
    /\ req'[r].items = req[r].items /\ req'[r].lim = req[r].lim /\ conns' = conns
    /\ req'[r].began = req[r].began
    /\ \/ req[r].i < Len(req[r].items) /\ req'[r].i = req[r].i + 1 /\ req'[r].pc = "merchant"
       \/ req[r].i = Len(req[r].items) /\ req'[r].i = req[r].i /\ req'[r].pc = "commit"
    /\ UNCHANGED <<tables, today, raced>>

Commits(r) ==
    /\ req[r].pc = "commit" /\ Leaves(r, {x.id : x \in held[r]})
    /\ rows' = rows \union held[r]
    /\ UNCHANGED <<cancelled, idem, base, seq, limit, today, raced>>

Saves(r) ==
    /\ req[r].pc = "save" /\ Leaves(r, {<<r, 1>>})
    /\ \/ idem' = idem
       \/ idem' = idem \union {[m |-> req[r].m, key |-> req[r].key, body |-> Amount(r), id |-> <<r, 1>>]}
    /\ UNCHANGED <<rows, cancelled, base, seq, limit, today, raced>>

Arrives(r) ==
    /\ req[r].pc = "idle" /\ Alone(r) /\ held'[r] = held[r] /\ conns' = conns
    /\ ~req'[r].bulk /\ req'[r].i = 1 /\ Len(req'[r].items) = 1
    /\ req'[r].pc \in {"merchant", "existing", "done", "failed"}
    /\ req'[r].pc = "merchant" <=> req'[r].key = NoKey
    /\ req'[r].pc = "done" =>
          LET used == {k \in idem : k.m = req'[r].m /\ k.key = req'[r].key} IN
          used # {} /\ req'[r].answer = {k.id : k \in used}
    /\ UNCHANGED <<tables, today, raced>>

Begins(r) ==
    /\ req[r].pc = "idle" /\ Alone(r) /\ held'[r] = held[r] /\ conns > 0 /\ conns' = conns - 1
    /\ req'[r].bulk /\ req'[r].key = NoKey /\ req'[r].pc = "merchant"
    /\ req'[r].i = 1 /\ Len(req'[r].items) # 0 /\ req'[r].items \in Bulks /\ req'[r].began = today
    /\ UNCHANGED <<tables, today, raced>>

LEMMA FailsOf ==
    ASSUME InvoicingShape, NEW r \in Requests, Open(r), End(r, "failed", {}), RequestKept
    PROVE  Fails(r) /\ RequestsTyped'
  BY EndEffect DEF Fails, InvoicingShape

LEMMA FindExistingEffect ==
    ASSUME InvoicingShape, NEW r \in Requests, FindExisting(r)
    PROVE  RequestsTyped' /\ (Advances(r) \/ Answers(r))
<1> DEFINE found == KeyHolders(req[r].m, req[r].key)
           ids == {x.id : x \in found}
<1>1. /\ req[r].pc = "existing" /\ RequestKept
      /\ \/ found = {} /\ Goto(r, "merchant") /\ UNCHANGED <<conns, held>>
         \/ found # {} /\ End(r, "done", ids)
  BY DEF FindExisting, PoolQuery, RequestKept, KeyHolders, InvoicingShape, InvoicingTypes
<1>2. ids \in SUBSET Ids
  BY DEF KeyHolders, InvoicingShape, InvoicingTypes, InvoiceRows
<1>3. CASE Goto(r, "merchant") /\ UNCHANGED <<conns, held>>
  <2>1. Goes(r, "merchant") /\ RequestsTyped'
    BY <1>3, GotoEffect DEF InvoicingShape, Stages
  <2>2. Onward(r)
    BY <1>1, <2>1 DEF Onward, Goes, Periods
  <2> QED
    BY <1>1, <2>1, <2>2 DEF Advances
<1>4. CASE found # {} /\ End(r, "done", ids)
  <2>1. Ends(r, "done") /\ RequestsTyped' /\ req'[r].answer = ids
    <3> HIDE DEF ids
    <3> QED
      BY <1>2, <1>4, EndEffect DEF InvoicingShape
  <2> QED
    BY <1>1, <1>4, <2>1 DEF Answers
<1> QED
  BY <1>1, <1>3, <1>4

LEMMA LoadMerchantEffect ==
    ASSUME InvoicingShape, NEW r \in Requests, LoadMerchant(r)
    PROVE  RequestsTyped' /\ Advances(r) /\ req'[r].lim = limit[req[r].m]
<1> DEFINE lim == limit[req[r].m]
           pc == NextCheck(lim, "merchant")
<1>1. /\ req[r].pc = "merchant" /\ UNCHANGED <<tables, today, conns, held, raced>>
      /\ req' = [req EXCEPT ![r].pc = pc, ![r].lim = lim]
  BY DEF LoadMerchant, PoolQuery
<1>2. pc \in {"day", "month", "base"} /\ lim \in [Periods -> Limits \union {NoLimit}]
  BY DEF NextCheck, InvoicingShape, InvoicingTypes, RequestStates
<1> HIDE DEF lim, pc
<1>3. pc \in Stages
  BY <1>2 DEF Stages
<1>4. RequestsTyped' /\ Goes(r, pc) /\ req'[r].lim = lim
  <2>1. PICK new : new = [req[r] EXCEPT !.pc = pc, !.lim = lim]
    OBVIOUS
  <2>2. req[r] \in RequestStates
    BY DEF InvoicingShape, InvoicingTypes
  <2>3. /\ new \in RequestStates /\ new.pc = pc /\ new.lim = lim /\ new.m = req[r].m
        /\ new.key = req[r].key /\ new.bulk = req[r].bulk /\ new.items = req[r].items
        /\ new.i = req[r].i /\ new.began = req[r].began
    BY <1>2, <1>3, <2>1, <2>2 DEF RequestStates
  <2>4. req' = [req EXCEPT ![r] = new]
    BY <1>1, <2>1
  <2> QED
    BY <1>1, <2>3, <2>4, Becomes DEF Goes, SameRequest, InvoicingShape
<1>5. RequestKept
  BY <1>1 DEF RequestKept, InvoicingShape, InvoicingTypes
<1>6. Onward(r)
  BY <1>1, <1>4 DEF Onward, Goes, Periods, lim, pc
<1> QED
  BY <1>1, <1>2, <1>4, <1>5, <1>6 DEF Advances, lim

LEMMA CheckLimitEffect ==
    ASSUME InvoicingShape, NEW r \in Requests, NEW period \in Periods, CheckLimit(r, period)
    PROVE  RequestsTyped' /\ (Advances(r) \/ Fails(r))
<1> DEFINE pc == NextCheck(req[r].lim, period)
<1>1. /\ req[r].pc = period /\ RequestKept /\ (req[r].m \notin raced' => ~Beside(r))
      /\ \/ /\ Spent(req[r].m, period) + Amount(r) <= req[r].lim[period]
            /\ Goto(r, pc) /\ UNCHANGED <<conns, held>>
         \/ /\ req' = [req EXCEPT ![r].pc = "overlimit"]
            /\ held' = [held EXCEPT ![r] = {}]
            /\ conns' = IF req[r].bulk THEN conns + 1 ELSE conns
  BY DEF CheckLimit, LimitAllows, PoolQuery, RequestKept, InvoicingShape, InvoicingTypes, RequestStates
<1>2. pc \in {"month", "base"}
  BY DEF NextCheck, Periods
<1> HIDE DEF pc
<1>3. CASE /\ Spent(req[r].m, period) + Amount(r) <= req[r].lim[period]
           /\ Goto(r, pc) /\ UNCHANGED <<conns, held>>
  <2>1. Goes(r, pc) /\ RequestsTyped'
    BY <1>2, <1>3, GotoEffect DEF InvoicingShape, Stages
  <2>2. Onward(r)
    BY <1>1, <1>3, <2>1 DEF Onward, Goes, Periods, pc
  <2> QED
    BY <1>1, <1>2, <2>1, <2>2 DEF Advances, Periods
<1>4. CASE /\ req' = [req EXCEPT ![r].pc = "overlimit"]
           /\ held' = [held EXCEPT ![r] = {}]
           /\ conns' = IF req[r].bulk THEN conns + 1 ELSE conns
  <2>1. PICK over \in Stages : over = "overlimit"
    BY DEF Stages
  <2>2. PICK new : new = [req[r] EXCEPT !.pc = over]
    OBVIOUS
  <2>3. req[r] \in RequestStates /\ held[r] \in SUBSET InvoiceRows
    BY DEF InvoicingShape, InvoicingTypes
  <2>4. /\ new \in RequestStates /\ new.pc = over /\ new.m = req[r].m /\ new.key = req[r].key
        /\ new.bulk = req[r].bulk
    BY <2>2, <2>3 DEF RequestStates
  <2>5. req' = [req EXCEPT ![r] = new]
    BY <1>4, <2>1, <2>2
  <2>6. /\ Alone(r) /\ req'[r] = new /\ held'[r] = {} /\ RequestsTyped'
    BY <1>4, <2>4, <2>5, FS_EmptySet, Becomes DEF InvoicingShape
  <2> QED
    BY <1>1, <1>4, <2>1, <2>4, <2>6 DEF Fails, Ends, SameRequest, Open, Periods
<1> QED
  BY <1>1, <1>3, <1>4

LEMMA MuxedBaseEffect ==
    ASSUME InvoicingShape, NEW r \in Requests, EnsureMuxedBase(r) \/ SetMuxedBase(r)
    PROVE  RequestsTyped' /\ (Advances(r) \/ SetsBase(r) \/ Fails(r))
<1>1. CASE EnsureMuxedBase(r)
  <2> DEFINE pc == IF base[req[r].m] # 0 THEN "seq" ELSE "setbase"
  <2>1. /\ req[r].pc = "base" /\ RequestKept
        /\ (Goto(r, pc) /\ UNCHANGED <<conns, held>>) \/ End(r, "failed", {})
    BY <1>1 DEF EnsureMuxedBase, PoolQuery, RequestKept, InvoicingShape, InvoicingTypes
  <2>2. CASE Goto(r, pc) /\ UNCHANGED <<conns, held>>
    <3>1. pc \in {"seq", "setbase"} /\ (pc = "seq" => base[req[r].m] # 0)
      OBVIOUS
    <3> HIDE DEF pc
    <3>2. Goes(r, pc) /\ RequestsTyped'
      BY <2>2, <3>1, GotoEffect DEF InvoicingShape, Stages
    <3>3. Onward(r)
      BY <2>1, <3>1, <3>2 DEF Onward, Goes, Periods
    <3> QED
      BY <2>1, <3>1, <3>2, <3>3 DEF Advances
  <2>3. CASE End(r, "failed", {})
    BY <2>1, <2>3, FailsOf DEF Open
  <2> QED
    BY <2>1, <2>2, <2>3
<1>2. CASE SetMuxedBase(r)
  <2> DEFINE b == Index(req[r].m) * Span
  <2>1. CASE \E n \in Merchants \ {req[r].m} : base[n] = b
    <3>1. req[r].pc = "setbase" /\ End(r, "failed", {}) /\ RequestKept
      BY <1>2, <2>1 DEF SetMuxedBase, PoolQuery, RequestKept, tables, InvoicingShape, InvoicingTypes
    <3> QED
      BY <3>1, FailsOf DEF Open
  <2>2. CASE ~ \E n \in Merchants \ {req[r].m} : base[n] = b
    <3>1. /\ req[r].pc = "setbase" /\ Goto(r, "seq") /\ UNCHANGED <<conns, held>>
          /\ base' = [base EXCEPT ![req[r].m] = b]
          /\ UNCHANGED <<rows, cancelled, idem, seq, limit, today, raced>>
      BY <1>2, <2>2 DEF SetMuxedBase, PoolQuery
    <3>2. Goes(r, "seq") /\ RequestsTyped'
      BY <3>1, GotoEffect DEF InvoicingShape, Stages
    <3> QED
      BY <2>2, <3>1, <3>2 DEF SetsBase
  <2> QED
    BY <2>1, <2>2
<1> QED
  BY <1>1, <1>2

LEMMA NumbersEffect ==
    ASSUME InvoicingShape, NEW r \in Requests, NextInvoiceSequence(r)
    PROVE  RequestsTyped' /\ Numbers(r)
<1> DEFINE next == base[req[r].m] + seq[req[r].m] + 1
<1>1. /\ req[r].pc = "seq" /\ req' = [req EXCEPT ![r].pc = "insert", ![r].muxed = next]
      /\ seq' = [seq EXCEPT ![req[r].m] = @ + 1]
      /\ UNCHANGED <<rows, cancelled, idem, base, limit, today, conns, held, raced>>
  BY DEF NextInvoiceSequence, PoolQuery
<1>2. next \in Nat
  BY DEF InvoicingShape, InvoicingTypes, RequestStates
<1> HIDE DEF next
<1>3. PICK pc \in Stages : pc = "insert"
  BY DEF Stages
<1>4. Goes(r, pc) /\ RequestsTyped' /\ req'[r].muxed = next
  <2>1. PICK new : new = [req[r] EXCEPT !.pc = pc, !.muxed = next]
    OBVIOUS
  <2>2. req[r] \in RequestStates
    BY DEF InvoicingShape, InvoicingTypes
  <2>3. /\ new \in RequestStates /\ new.pc = pc /\ new.muxed = next /\ new.m = req[r].m
        /\ new.key = req[r].key /\ new.bulk = req[r].bulk /\ new.items = req[r].items
        /\ new.i = req[r].i /\ new.lim = req[r].lim /\ new.began = req[r].began
    BY <1>2, <1>3, <2>1, <2>2 DEF RequestStates
  <2>4. req' = [req EXCEPT ![r] = new]
    BY <1>1, <1>3, <2>1
  <2> QED
    BY <1>1, <2>3, <2>4, Becomes DEF Goes, SameRequest, InvoicingShape
<1> QED
  BY <1>1, <1>3, <1>4 DEF Numbers, next

LEMMA InsertEffect ==
    ASSUME InvoicingShape, NEW r \in Requests, Insert(r)
    PROVE  RequestsTyped' /\ (Stores(r) \/ Fails(r))
<1>1. req[r].pc = "insert" /\ ~req[r].bulk /\ Open(r)
  BY DEF Insert, PoolQuery, Open
<1>2. CASE Refused(Row(r))
  <2>1. End(r, "failed", {}) /\ RequestKept
    BY <1>2 DEF Insert, RequestKept, tables, InvoicingShape, InvoicingTypes
  <2> QED
    BY <1>1, <2>1, FailsOf
<1>3. CASE ~Refused(Row(r))
  <2>1. /\ rows' = rows \union {Row(r)}
        /\ IF req[r].key = NoKey THEN Answer(r, {Row(r).id})
           ELSE Goto(r, "save") /\ UNCHANGED <<conns, held>>
        /\ UNCHANGED <<cancelled, idem, base, seq, limit, today, raced>>
    BY <1>3 DEF Insert
  <2>2. {Row(r).id} \in SUBSET Ids
    BY <1>1, RowTyped
  <2>3. CASE req[r].key = NoKey
    <3>1. Leaves(r, {Row(r).id}) /\ RequestsTyped'
      BY <2>1, <2>2, <2>3, AnswerEffect DEF InvoicingShape
    <3> QED
      BY <1>1, <1>3, <2>1, <2>3, <3>1 DEF Stores
  <2>4. CASE req[r].key # NoKey
    <3>1. Goes(r, "save") /\ RequestsTyped'
      BY <2>1, <2>4, GotoEffect DEF InvoicingShape, Stages
    <3> QED
      BY <1>1, <1>3, <2>1, <2>4, <3>1 DEF Stores
  <2> QED
    BY <2>3, <2>4
<1> QED
  BY <1>2, <1>3

LEMMA BulkInsertEffect ==
    ASSUME InvoicingShape, NEW r \in Requests, BulkInsert(r)
    PROVE  RequestsTyped' /\ (Holds(r) \/ Fails(r))
<1>1. req[r].pc = "insert" /\ req[r].bulk /\ Open(r)
  BY DEF BulkInsert, Open
<1>2. CASE Refused(Row(r))
  <2>1. End(r, "failed", {}) /\ RequestKept
    BY <1>2 DEF BulkInsert, RequestKept, InvoicingShape, InvoicingTypes
  <2> QED
    BY <1>1, <2>1, FailsOf
<1>3. CASE ~Refused(Row(r))
  <2> DEFINE more == req[r].i < Len(req[r].items)
             i == IF more THEN req[r].i + 1 ELSE req[r].i
             pc == IF more THEN "merchant" ELSE "commit"
  <2>1. /\ held' = [held EXCEPT ![r] = @ \union {Row(r)}]
        /\ req' = [req EXCEPT ![r].i = i, ![r].pc = pc]
        /\ UNCHANGED <<tables, today, raced>> /\ conns' = conns
    BY <1>3 DEF BulkInsert, InvoicingShape, InvoicingTypes
  <2>2. i \in Nat \ {0} /\ pc \in Stages /\ req[r].i \in 1..Len(req[r].items)
    BY <1>1 DEF InvoicingShape, InvoicingTypes, RequestStates, Stages, Shape
  <2>3. IsFiniteSet(held[r] \union {Row(r)}) /\ Row(r) \in InvoiceRows
    BY <1>1, RowTyped, FS_AddElement DEF InvoicingShape, InvoicingTypes
  <2>4. /\ RequestsTyped' /\ Alone(r) /\ SameRequest(r) /\ held'[r] = held[r] \union {Row(r)}
        /\ req'[r].items = req[r].items /\ req'[r].lim = req[r].lim
        /\ req'[r].i = i /\ req'[r].pc = pc /\ req'[r].began = req[r].began
    <3> HIDE DEF i, pc
    <3>1. PICK new : new = [req[r] EXCEPT !.i = i, !.pc = pc]
      OBVIOUS
    <3>2. req[r] \in RequestStates /\ held[r] \in SUBSET InvoiceRows
      BY DEF InvoicingShape, InvoicingTypes
    <3>3. /\ new \in RequestStates /\ new.pc = pc /\ new.i = i /\ new.m = req[r].m
          /\ new.key = req[r].key /\ new.bulk = req[r].bulk /\ new.items = req[r].items
          /\ new.lim = req[r].lim /\ new.began = req[r].began
      BY <2>2, <3>1, <3>2 DEF RequestStates
    <3>4. PICK rs : rs = held[r] \union {Row(r)}
      OBVIOUS
    <3>5. req' = [req EXCEPT ![r] = new] /\ held' = [held EXCEPT ![r] = rs]
      BY <2>1, <3>1, <3>4
    <3>6. rs \in SUBSET InvoiceRows /\ IsFiniteSet(rs)
      BY <2>3, <3>2, <3>4
    <3> QED
      BY <3>3, <3>4, <3>5, <3>6, Becomes DEF SameRequest, InvoicingShape
  <2>5. more \/ req[r].i = Len(req[r].items)
    BY <2>2
  <2> QED
    BY <1>1, <1>3, <2>1, <2>4, <2>5 DEF Holds
<1> QED
  BY <1>2, <1>3

LEMMA CommitEffect ==
    ASSUME InvoicingShape, NEW r \in Requests, BulkCommit(r)
    PROVE  RequestsTyped' /\ Commits(r)
<1> DEFINE ids == {x.id : x \in held[r]}
<1>1. /\ req[r].pc = "commit" /\ Answer(r, ids) /\ rows' = rows \union held[r]
      /\ UNCHANGED <<cancelled, idem, base, seq, limit, today, raced>>
  BY DEF BulkCommit
<1>2. ids \in SUBSET Ids
  BY DEF InvoicingShape, InvoicingTypes, InvoiceRows
<1>3. ids = {x.id : x \in held[r]}
  OBVIOUS
<1> HIDE DEF ids
<1>4. Leaves(r, ids) /\ RequestsTyped'
  BY <1>1, <1>2, AnswerEffect DEF InvoicingShape
<1> QED
  BY <1>1, <1>3, <1>4 DEF Commits

LEMMA SaveEffect ==
    ASSUME InvoicingShape, NEW r \in Requests, Save(r)
    PROVE  RequestsTyped' /\ Saves(r)
<1>1. /\ req[r].pc = "save" /\ Answer(r, {<<r, 1>>})
      /\ UNCHANGED <<rows, cancelled, base, seq, limit, today, raced>>
      /\ \/ idem' = idem
         \/ idem' = idem \union {[m |-> req[r].m, key |-> req[r].key, body |-> Amount(r),
                                  id |-> <<r, 1>>]}
  BY DEF Save, PoolQuery
<1>2. {<<r, 1>>} \in SUBSET Ids
  BY DEF Ids
<1> QED
  BY <1>1, <1>2, AnswerEffect DEF InvoicingShape, Saves

LEMMA ArriveEffect ==
    ASSUME InvoicingShape, NEW r \in Requests, NEW m \in Merchants,
           NEW key \in Keys \union {NoKey}, NEW a \in Amounts, Arrive(r, m, key, a)
    PROVE  RequestsTyped' /\ Arrives(r)
<1> DEFINE used == {k \in idem : k.m = m /\ k.key = key}
           new == Arrival(m, key, FALSE, <<a>>, "existing")
           n == IF key = NoKey THEN [new EXCEPT !.pc = "merchant"]
                ELSE IF used = {} THEN new
                ELSE IF \E k \in used : k.body = a
                     THEN [new EXCEPT !.pc = "done", !.answer = {k.id : k \in used}]
                     ELSE [new EXCEPT !.pc = "failed"]
<1>1. /\ req[r].pc = "idle" /\ req' = [req EXCEPT ![r] = n]
      /\ UNCHANGED <<tables, today, conns, held, raced>>
  BY DEF Arrive, PoolQuery
<1>2. <<a>> \in Seq(Amounts) /\ Len(<<a>>) = 1 /\ FALSE \in BOOLEAN /\ "existing" \in Stages
  BY DEF Stages
<1>3. /\ new \in RequestStates /\ new.m = m /\ new.key = key /\ ~new.bulk /\ new.items = <<a>>
      /\ new.i = 1 /\ new.pc = "existing"
  <2>1. PICK bulk \in BOOLEAN, items \in Seq(Amounts) : bulk = FALSE /\ items = <<a>>
    BY <1>2
  <2> DEFINE same == Arrival(m, key, bulk, items, "existing")
  <2>2. /\ same \in RequestStates /\ same.m = m /\ same.key = key /\ same.bulk = bulk
        /\ same.items = items /\ same.i = 1 /\ same.pc = "existing"
    BY <1>2, ArrivalTyped
  <2>3. new = same
    BY <2>1, Zenon
  <2> HIDE DEF new, same
  <2> QED
    BY <2>1, <2>2, <2>3
<1>4. {k.id : k \in used} \in SUBSET Ids
  BY DEF InvoicingShape, InvoicingTypes
<1> DEFINE saved == {k.id : k \in used}
<1> HIDE DEF new
<1>5. /\ n \in RequestStates /\ n.m = m /\ n.key = key /\ ~n.bulk /\ n.items = <<a>> /\ n.i = 1
      /\ n.pc \in {"merchant", "existing", "done", "failed"}
      /\ n.pc = "merchant" <=> key = NoKey
      /\ n.pc = "done" => used # {} /\ n.answer = saved
  <2>1. PICK merchant \in Stages, done \in Stages, failed \in Stages :
           merchant = "merchant" /\ done = "done" /\ failed = "failed"
    BY DEF Stages
  <2>2. CASE key = NoKey
    <3>1. n = [new EXCEPT !.pc = "merchant"]
      BY <2>2
    <3> HIDE DEF n
    <3> QED
      BY <1>3, <2>1, <2>2, <3>1 DEF RequestStates
  <2>3. CASE key # NoKey /\ used = {}
    <3>1. n = new
      BY <2>3
    <3> HIDE DEF n
    <3> QED
      BY <1>3, <2>3, <3>1
  <2>4. CASE key # NoKey /\ used # {} /\ \E k \in used : k.body = a
    <3>1. n = [new EXCEPT !.pc = "done", !.answer = saved]
      BY <2>4
    <3>2. used # {}
      BY <2>4
    <3>3. saved \in SUBSET Ids
      BY <1>4
    <3> HIDE DEF n, used, saved
    <3>4. n = [new EXCEPT !.pc = done, !.answer = saved]
      BY <2>1, <3>1
    <3>5. n \in RequestStates /\ n.pc = done /\ n.answer = saved
      BY <1>3, <2>1, <3>3, <3>4 DEF RequestStates
    <3>6. n.m = new.m /\ n.key = new.key /\ n.bulk = new.bulk /\ n.items = new.items /\ n.i = new.i
      BY <1>3, <3>4 DEF RequestStates
    <3> QED
      BY <1>3, <2>1, <2>4, <3>2, <3>5, <3>6
  <2>5. CASE key # NoKey /\ used # {} /\ ~ \E k \in used : k.body = a
    <3>1. n = [new EXCEPT !.pc = "failed"]
      BY <2>5
    <3> HIDE DEF n
    <3> QED
      BY <1>3, <2>1, <2>5, <3>1 DEF RequestStates
  <2> QED
    BY <2>2, <2>3, <2>4, <2>5
<1> HIDE DEF n
<1>6. req'[r] = n /\ Alone(r) /\ RequestsTyped' /\ held'[r] = held[r]
  BY <1>1, <1>5 DEF InvoicingShape, InvoicingTypes, RequestsTyped, Alone
<1> QED
  BY <1>1, <1>2, <1>5, <1>6 DEF Arrives

LEMMA BulkBeginEffect ==
    ASSUME InvoicingShape, NEW r \in Requests, NEW m \in Merchants, NEW items \in Bulks,
           BulkBegin(r, m, items)
    PROVE  RequestsTyped' /\ Begins(r)
<1> DEFINE new == Arrival(m, NoKey, TRUE, items, "merchant")
           n == [new EXCEPT !.began = today]
<1>1. /\ req[r].pc = "idle" /\ req' = [req EXCEPT ![r] = n] /\ conns > 0 /\ conns' = conns - 1
      /\ UNCHANGED <<tables, today, held, raced>>
  BY DEF BulkBegin, PoolQuery
<1>2. /\ items \in Seq(Amounts) /\ items # <<>> /\ TRUE \in BOOLEAN /\ "merchant" \in Stages
      /\ NoKey \in Keys \union {NoKey}
  BY InvoicingAssumption DEF Stages
<1>3. /\ new \in RequestStates /\ new.m = m /\ new.key = NoKey /\ new.bulk /\ new.items = items
      /\ new.i = 1 /\ new.pc = "merchant"
  <2>1. PICK bulk \in BOOLEAN : bulk = TRUE
    OBVIOUS
  <2> DEFINE same == Arrival(m, NoKey, bulk, items, "merchant")
  <2>2. /\ same \in RequestStates /\ same.m = m /\ same.key = NoKey /\ same.bulk = bulk
        /\ same.items = items /\ same.i = 1 /\ same.pc = "merchant"
    BY <1>2, ArrivalTyped
  <2>3. new = same
    BY <2>1, Zenon
  <2> HIDE DEF new, same
  <2> QED
    BY <2>1, <2>2, <2>3
<1>4. Len(items) # 0 /\ items \in Bulks
  BY <1>2
<1> HIDE DEF new
<1>5. /\ n \in RequestStates /\ n.m = m /\ n.key = NoKey /\ n.bulk /\ n.items = items
      /\ n.i = 1 /\ n.pc = "merchant" /\ n.began = today
  BY <1>3 DEF InvoicingShape, InvoicingTypes, RequestStates
<1> HIDE DEF n
<1>6. req'[r] = n /\ Alone(r) /\ RequestsTyped' /\ held'[r] = held[r]
  BY <1>1, <1>5 DEF InvoicingShape, InvoicingTypes, RequestsTyped, Alone
<1> QED
  BY <1>1, <1>4, <1>5, <1>6 DEF Begins

Acts(r) ==
    \/ Fails(r) \/ Advances(r) \/ Answers(r) \/ SetsBase(r) \/ Numbers(r) \/ Stores(r)
    \/ Holds(r) \/ Commits(r) \/ Saves(r) \/ Arrives(r) \/ Begins(r)

LEMMA CreateEffect ==
    ASSUME InvoicingShape, NEW r \in Requests, Create(r) \/ Abort(r)
    PROVE  RequestsTyped' /\ Acts(r)
<1>1. CASE Abort(r)
  <2>1. Open(r) /\ End(r, "failed", {}) /\ RequestKept
    BY <1>1 DEF Abort, RequestKept, InvoicingShape, InvoicingTypes
  <2> QED
    BY <2>1, FailsOf DEF Acts
<1>2. CASE FindExisting(r) \/ LoadMerchant(r)
  BY <1>2, FindExistingEffect, LoadMerchantEffect DEF Acts
<1>3. CASE CheckLimit(r, "day") \/ CheckLimit(r, "month")
  BY <1>3, CheckLimitEffect DEF Acts, Periods
<1>4. CASE EnsureMuxedBase(r) \/ SetMuxedBase(r)
  BY <1>4, MuxedBaseEffect DEF Acts
<1>5. CASE NextInvoiceSequence(r) \/ Insert(r)
  BY <1>5, NumbersEffect, InsertEffect DEF Acts
<1>6. CASE BulkInsert(r) \/ BulkCommit(r) \/ Save(r)
  BY <1>6, BulkInsertEffect, CommitEffect, SaveEffect DEF Acts
<1> QED
  BY <1>1, <1>2, <1>3, <1>4, <1>5, <1>6 DEF Create

Around ==
    \/ \E m \in Merchants, period \in Periods, l \in Limits : SetLimit(m, period, l)
    \/ \E x \in rows : Cancel(x)
    \/ NextDay
    \/ UNCHANGED invoicingVars

LEMMA StepEffect ==
    ASSUME InvoicingShape, [InvoicingNext]_invoicingVars
    PROVE  (RequestsTyped' /\ \E r \in Requests : Acts(r)) \/ Around
<1>1. ASSUME NEW r \in Requests, NEW m \in Merchants, NEW key \in Keys \union {NoKey},
             NEW a \in Amounts, Arrive(r, m, key, a)
      PROVE  RequestsTyped' /\ Acts(r)
  BY <1>1, ArriveEffect DEF Acts
<1>2. ASSUME NEW r \in Requests, NEW m \in Merchants, NEW items \in Bulks, BulkBegin(r, m, items)
      PROVE  RequestsTyped' /\ Acts(r)
  BY <1>2, BulkBeginEffect DEF Acts
<1> QED
  BY <1>1, <1>2, CreateEffect DEF InvoicingNext, Around

\* What happens around the requests leaves them, and all they have stored, alone.
LEMMA AroundKeeps ==
    ASSUME InvoicingShape, Around
    PROVE  /\ UNCHANGED <<rows, idem, base, seq, conns, req, held>>
           /\ InvoicingShape'
<1>1. ASSUME NEW m \in Merchants, NEW period \in Periods, NEW l \in Limits, SetLimit(m, period, l)
      PROVE  /\ UNCHANGED <<rows, idem, base, seq, conns, req, held, today>>
             /\ limit' \in [Merchants -> [Periods -> Limits \union {NoLimit}]]
             /\ raced' \subseteq Merchants
  BY <1>1 DEF SetLimit, InvoicingShape, InvoicingTypes
<1>2. ASSUME (\E x \in rows : Cancel(x)) \/ NextDay \/ UNCHANGED invoicingVars
      PROVE  UNCHANGED <<rows, idem, base, seq, conns, req, held, limit, raced>> /\ today' \in Nat
  BY <1>2 DEF Cancel, NextDay, invoicingVars, tables, InvoicingShape, InvoicingTypes
<1>3. /\ UNCHANGED <<rows, idem, base, seq, conns, req, held>> /\ today' \in Nat
      /\ limit' \in [Merchants -> [Periods -> Limits \union {NoLimit}]]
      /\ raced' \subseteq Merchants
  BY <1>1, <1>2 DEF Around, InvoicingShape, InvoicingTypes
<1> QED
  BY <1>3 DEF InvoicingShape, InvoicingTypes, Shape, Open

LEMMA ShapeStep ==
    ASSUME InvoicingShape, [InvoicingNext]_invoicingVars
    PROVE  InvoicingShape'
<1>1. CASE Around
  BY <1>1, AroundKeeps
<1>2. ASSUME RequestsTyped', NEW r \in Requests, Acts(r) PROVE InvoicingShape'
  <2>1. \A q \in Requests \ {r} : Shape(q)'
    <3>1. \A q \in Requests \ {r} : req'[q] = req[q] /\ held'[q] = held[q]
      BY <1>2 DEF Acts, Fails, Advances, Answers, SetsBase, Numbers, Stores, Holds, Commits,
                  Saves, Arrives, Begins, Goes, Ends, Leaves, Alone
    <3> QED
      BY <3>1 DEF InvoicingShape, Shape, Open
  <2>2. req[r] \in RequestStates /\ req'[r] \in RequestStates /\ Shape(r)
    BY <1>2 DEF InvoicingShape, InvoicingTypes, RequestsTyped
  <2>3. Shape(r)'
    <3>1. CASE Fails(r) \/ Answers(r) \/ Commits(r) \/ Saves(r)
      BY <2>2, <3>1 DEF Fails, Answers, Commits, Saves, Ends, Leaves, SameRequest, Shape, Open
    <3>2. CASE Advances(r)
      BY <2>2, <3>2 DEF Advances, Goes, SameRequest, Shape, Open
    <3>3. CASE SetsBase(r) \/ Numbers(r)
      BY <2>2, <3>3 DEF SetsBase, Numbers, Goes, SameRequest, Shape, Open
    <3>4. CASE Stores(r)
      BY <2>2, <3>4 DEF Stores, Goes, Ends, Leaves, SameRequest, Shape, Open
    <3>5. CASE Holds(r)
      BY <2>2, <3>5 DEF Holds, SameRequest, Shape, Open, RequestStates
    <3>6. CASE Arrives(r)
      BY <2>2, <3>6 DEF Arrives, Shape, Open
    <3>7. CASE Begins(r)
      <4>1. Len(req'[r].items) \in Nat
        BY <2>2 DEF RequestStates
      <4> QED
        BY <2>2, <3>7, <4>1 DEF Begins, Shape, Open
    <3> QED
      BY <1>2, <3>1, <3>2, <3>3, <3>4, <3>5, <3>6, <3>7 DEF Acts
  <2>4. rows' \subseteq InvoiceRows /\ IsFiniteSet(rows')
    <3>1. CASE rows' = rows
      BY <3>1 DEF InvoicingShape, InvoicingTypes
    <3>2. CASE Stores(r)
      <4>1. Open(r) /\ rows' = rows \union {Row(r)}
        BY <3>2 DEF Stores, Open
      <4>2. Row(r) \in InvoiceRows
        BY <4>1, RowTyped
      <4> QED
        BY <4>1, <4>2, FS_AddElement DEF InvoicingShape, InvoicingTypes
    <3>3. CASE Commits(r)
      <4>1. IsFiniteSet(rows \union held[r])
        BY FS_Union DEF InvoicingShape, InvoicingTypes
      <4> QED
        BY <3>3, <4>1 DEF Commits, InvoicingShape, InvoicingTypes
    <3> QED
      BY <1>2, <3>1, <3>2, <3>3 DEF Acts, Fails, Advances, Answers, SetsBase, Numbers, Holds,
                                    Saves, Arrives, Begins, RequestKept, tables
  <2>5. idem' \subseteq [m : Merchants, key : Keys, body : Amounts, id : Ids]
    <3>1. CASE idem' = idem
      BY <3>1 DEF InvoicingShape, InvoicingTypes
    <3>2. CASE Saves(r)
      <4>1. Open(r) /\ req[r].key \in Keys /\ req[r].m \in Merchants /\ <<r, 1>> \in Ids
        BY <2>2, <3>2 DEF Saves, Open, Shape, RequestStates, Ids
      <4>2. Amount(r) \in Amounts
        BY <4>1, RowTyped
      <4>3. [m |-> req[r].m, key |-> req[r].key, body |-> Amount(r), id |-> <<r, 1>>]
               \in [m : Merchants, key : Keys, body : Amounts, id : Ids]
        BY <4>1, <4>2
      <4> QED
        BY <3>2, <4>3 DEF Saves, InvoicingShape, InvoicingTypes
    <3> QED
      BY <1>2, <3>1, <3>2 DEF Acts, Fails, Advances, Answers, SetsBase, Numbers, Stores, Holds,
                              Commits, Arrives, Begins, RequestKept, tables
  <2>6. base' \in [Merchants -> Nat]
    <3>1. CASE base' = base
      BY <3>1 DEF InvoicingShape, InvoicingTypes
    <3>2. CASE SetsBase(r)
      <4>1. Index(req[r].m) * Span \in Nat
        <5>1. Index(req[r].m) \in Nat
          BY InvoicingAssumption, FS_Subset, FS_CardinalityType DEF Index
        <5>2. \A x, y \in Nat : x * y \in Nat
          OBVIOUS
        <5> QED
          BY <5>1, <5>2, InvoicingAssumption
      <4> QED
        BY <3>2, <4>1 DEF SetsBase, InvoicingShape, InvoicingTypes
    <3> QED
      BY <1>2, <3>1, <3>2 DEF Acts, Fails, Advances, Answers, Numbers, Stores, Holds,
                              Commits, Saves, Arrives, Begins, RequestKept, tables
  <2>7. seq' \in [Merchants -> Nat]
    <3>1. CASE seq' = seq
      BY <3>1 DEF InvoicingShape, InvoicingTypes
    <3>2. CASE Numbers(r)
      <4>1. req[r].m \in Merchants
        BY <2>2 DEF RequestStates
      <4> QED
        BY <3>2, <4>1 DEF Numbers, InvoicingShape, InvoicingTypes
    <3> QED
      BY <1>2, <3>1, <3>2 DEF Acts, Fails, Advances, Answers, SetsBase, Stores, Holds,
                              Commits, Saves, Arrives, Begins, RequestKept, tables
  <2>8. UNCHANGED <<limit, today>> /\ raced' \subseteq Merchants /\ conns' \in Int
    BY <1>2 DEF Acts, Fails, Advances, Answers, SetsBase, Numbers, Stores, Holds, Commits, Saves,
                Arrives, Begins, RequestKept, tables, Ends, Leaves, Goes, InvoicingShape, InvoicingTypes
  <2> QED
    BY <1>2, <2>1, <2>3, <2>4, <2>5, <2>6, <2>7, <2>8
       DEF InvoicingShape, InvoicingTypes, RequestsTyped
<1> QED
  BY <1>1, <1>2, StepEffect

LEMMA ShapeInit == InvoicingInit => InvoicingShape
<1> SUFFICES ASSUME InvoicingInit PROVE InvoicingShape
  OBVIOUS
<1>1. /\ Idle \in RequestStates /\ Idle.pc = "idle" /\ ~Idle.bulk
      /\ \A r \in Requests : req[r] = Idle /\ held[r] = {}
  BY IdleTyped DEF Idle, InvoicingInit
<1>2. InvoicingTypes
  BY <1>1, FS_EmptySet, InvoicingAssumption DEF InvoicingInit, InvoicingTypes
<1>3. \A r \in Requests : Shape(r)
  BY <1>1 DEF Shape, Open
<1> QED
  BY <1>2, <1>3 DEF InvoicingShape

-----------------------------------------------------------------------------
(* Idempotency keys.                                                       *)

\* A key names one invoice, of those that are stored; it is never the key
\* of an invoice of an open bulk.
KeysAgree ==
    /\ \A x, y \in rows : x.m = y.m /\ x.key = y.key /\ x.key # NoKey => x.id = y.id
    /\ \A r \in Requests : \A x \in held[r] : x.key = NoKey
    /\ \A k \in idem : k.key # NoKey /\ \E x \in KeyHolders(k.m, k.key) : x.id = k.id
    /\ \A r \in Requests : req[r].pc = "save" =>
          \E x \in KeyHolders(req[r].m, req[r].key) : x.id = <<r, 1>>
    /\ \A r \in Requests : req[r].pc = "done" /\ req[r].key # NoKey =>
          \E x \in KeyHolders(req[r].m, req[r].key) : req[r].answer = {x.id}

\* The fields that the parts of the invariant look at, in every kind of step.
LEMMA ActsFrame ==
    ASSUME InvoicingShape, RequestsTyped', NEW r \in Requests, Acts(r)
    PROVE  /\ Alone(r)
           /\ rows' = rows \/ Stores(r) \/ Commits(r)
           /\ idem' = idem \/ Saves(r)
           /\ held'[r] \subseteq held[r] \/ Holds(r)
           /\ base' = base \/ SetsBase(r)
           /\ seq' = seq \/ Numbers(r)
           /\ UNCHANGED <<limit, today, cancelled>>
  BY DEF Acts, Fails, Advances, Answers, SetsBase, Numbers, Stores, Holds, Commits, Saves,
         Arrives, Begins, RequestKept, tables, Goes, Ends, Leaves

LEMMA KeysStep ==
    ASSUME InvoicingShape, KeysAgree, [InvoicingNext]_invoicingVars
    PROVE  KeysAgree'
<1>1. CASE Around
  <2>1. rows' = rows /\ idem' = idem /\ req' = req /\ held' = held
    BY <1>1, AroundKeeps
  <2> QED
    BY <2>1 DEF KeysAgree, KeyHolders
<1>2. ASSUME RequestsTyped', NEW r \in Requests, Acts(r) PROVE KeysAgree'
  <2>1. /\ Alone(r) /\ Shape(r) /\ req[r] \in RequestStates /\ req'[r] \in RequestStates
        /\ rows' = rows \/ Stores(r) \/ Commits(r)
        /\ idem' = idem \/ Saves(r)
        /\ held'[r] \subseteq held[r] \/ Holds(r)
    BY <1>2, ActsFrame DEF InvoicingShape, InvoicingTypes, RequestsTyped
  <2>2. rows \subseteq rows'
    BY <2>1 DEF Stores, Commits
  <2>3. ASSUME Stores(r)
        PROVE  /\ Row(r) \in rows' /\ Row(r).m = req[r].m /\ Row(r).key = req[r].key
               /\ Row(r).id = <<r, 1>> /\ rows' = rows \union {Row(r)}
               /\ \A x \in rows : ~(Row(r).key # NoKey /\ x.m = Row(r).m /\ x.key = Row(r).key)
    <3>1. Open(r) /\ ~req[r].bulk
      BY <2>3 DEF Stores, Open
    <3>2. req[r].i \in 1..Len(req[r].items) /\ Len(req[r].items) = 1
      BY <2>1, <3>1 DEF Shape
    <3>3. req[r].i = 1
      BY <3>2
    <3> QED
      BY <2>3, <3>1, <3>3, RowTyped DEF Stores, Refused
  <2>4. ASSUME Holds(r) PROVE Row(r).key = NoKey
    BY <2>1, <2>4, RowTyped DEF Holds, Open, Shape
  <2>5. \A x, y \in rows' : x.m = y.m /\ x.key = y.key /\ x.key # NoKey => x.id = y.id
    <3>1. CASE rows' = rows
      BY <3>1 DEF KeysAgree
    <3>2. CASE Stores(r)
      BY <2>3, <3>2 DEF KeysAgree
    <3>3. CASE Commits(r)
      BY <3>3 DEF Commits, KeysAgree
    <3> QED
      BY <2>1, <3>1, <3>2, <3>3
  <2>6. \A q \in Requests : \A x \in held'[q] : x.key = NoKey
    BY <2>1, <2>4 DEF KeysAgree, Alone, Holds
  <2>7. \A k \in idem' : k.key # NoKey /\ \E x \in KeyHolders(k.m, k.key)' : x.id = k.id
    <3>1. CASE idem' = idem
      BY <2>2, <3>1 DEF KeysAgree, KeyHolders
    <3>2. CASE Saves(r)
      <4>0. PICK new : new = [m |-> req[r].m, key |-> req[r].key, body |-> Amount(r),
                              id |-> <<r, 1>>]
        OBVIOUS
      <4>1. new.m = req[r].m /\ new.key = req[r].key /\ new.id = <<r, 1>>
        BY <4>0
      <4>2. req[r].pc = "save" /\ (idem' = idem \/ idem' = idem \union {new})
        BY <3>2, <4>0 DEF Saves
      <4>3. PICK x \in KeyHolders(req[r].m, req[r].key) : x.id = <<r, 1>>
        BY <4>2 DEF KeysAgree
      <4>4. new.key # NoKey
        BY <2>1, <4>1, <4>2 DEF Shape
      <4>5. new.key # NoKey /\ \E y \in KeyHolders(new.m, new.key)' : y.id = new.id
        BY <2>2, <4>1, <4>3, <4>4 DEF KeyHolders
      <4>6. \A k \in idem : k.key # NoKey /\ \E y \in KeyHolders(k.m, k.key)' : y.id = k.id
        BY <2>2 DEF KeysAgree, KeyHolders
      <4> QED
        BY <4>2, <4>5, <4>6
    <3> QED
      BY <2>1, <3>1, <3>2
  <2>8. \A q \in Requests : req'[q].pc = "save" =>
           \E x \in KeyHolders(req[q].m, req[q].key)' : x.id = <<q, 1>>
    <3>1. ASSUME NEW q \in Requests \ {r}, req'[q].pc = "save"
          PROVE  \E x \in KeyHolders(req[q].m, req[q].key)' : x.id = <<q, 1>>
      BY <2>1, <2>2, <3>1 DEF KeysAgree, KeyHolders, Alone
    <3>2. ASSUME req'[r].pc = "save" PROVE \E x \in KeyHolders(req[r].m, req[r].key)' : x.id = <<r, 1>>
      <4>1. Stores(r) /\ Goes(r, "save")
        BY <1>2, <3>2 DEF Acts, Fails, Advances, Answers, SetsBase, Numbers, Stores, Holds,
                          Commits, Saves, Arrives, Begins, Ends, Leaves, Goes
      <4> QED
        BY <2>3, <4>1 DEF Goes, SameRequest, KeyHolders
    <3> QED
      BY <3>1, <3>2
  <2>9. \A q \in Requests : req'[q].pc = "done" /\ req'[q].key # NoKey =>
           \E x \in KeyHolders(req[q].m, req[q].key)' : req'[q].answer = {x.id}
    <3>1. ASSUME NEW q \in Requests \ {r}, req'[q].pc = "done", req'[q].key # NoKey
          PROVE  \E x \in KeyHolders(req[q].m, req[q].key)' : req'[q].answer = {x.id}
      <4>1. PICK x \in KeyHolders(req[q].m, req[q].key) : req[q].answer = {x.id}
        BY <2>1, <3>1 DEF KeysAgree, Alone
      <4> QED
        BY <2>1, <2>2, <4>1 DEF KeyHolders, Alone
    <3>2. ASSUME req'[r].pc = "done", req'[r].key # NoKey
          PROVE  \E x \in KeyHolders(req[r].m, req[r].key)' : req'[r].answer = {x.id}
      <4>1. Answers(r) \/ Saves(r) \/ Arrives(r)
        <5>1. ~Commits(r)
          BY <2>1, <3>2 DEF Commits, Ends, Leaves, SameRequest, Shape
        <5> QED
          BY <1>2, <3>2, <5>1 DEF Acts, Fails, Advances, SetsBase, Numbers, Stores, Holds,
                                  Begins, Ends, Leaves, Goes, SameRequest
      <4>2. CASE Answers(r)
        <5>1. PICK x \in KeyHolders(req[r].m, req[r].key) : TRUE
          BY <4>2 DEF Answers
        <5>2. \A y \in KeyHolders(req[r].m, req[r].key) : y.id = x.id
          BY <2>1, <4>2, <5>1 DEF KeysAgree, KeyHolders, Answers, Shape
        <5>3. req'[r].answer = {x.id} /\ SameRequest(r)
          BY <4>2, <5>1, <5>2 DEF Answers, Ends
        <5> QED
          BY <2>2, <5>1, <5>3 DEF KeyHolders, SameRequest
      <4>3. CASE Saves(r)
        <5>1. PICK x \in KeyHolders(req[r].m, req[r].key) : x.id = <<r, 1>>
          BY <4>3 DEF Saves, KeysAgree
        <5>2. req'[r].answer = {x.id} /\ SameRequest(r)
          BY <3>2, <4>3, <5>1 DEF Saves, Ends, Leaves
        <5> QED
          BY <2>2, <5>1, <5>2 DEF KeyHolders, SameRequest
      <4>4. CASE Arrives(r)
        <5> DEFINE used == {k \in idem : k.m = req'[r].m /\ k.key = req'[r].key}
        <5>1. used # {} /\ req'[r].answer = {k.id : k \in used}
          BY <3>2, <4>4 DEF Arrives
        <5>2. PICK j \in used : TRUE
          BY <5>1
        <5>3. PICK x \in KeyHolders(req'[r].m, req'[r].key) : x.id = j.id
          BY <5>2 DEF KeysAgree
        <5>4. \A k \in used : k.id = x.id
          <6>1. ASSUME NEW k \in used PROVE k.id = x.id
            <7>1. PICK y \in KeyHolders(req'[r].m, req'[r].key) : y.id = k.id
              BY DEF KeysAgree
            <7> QED
              BY <3>2, <5>3, <7>1 DEF KeysAgree, KeyHolders
          <6> QED
            BY <6>1
        <5>5. req'[r].answer = {x.id}
          <6> HIDE DEF used
          <6> QED
            BY <5>1, <5>2, <5>4
        <5> QED
          BY <2>2, <5>3, <5>5 DEF KeyHolders
      <4> QED
        BY <4>1, <4>2, <4>3, <4>4
    <3> QED
      BY <3>1, <3>2
  <2> QED
    BY <2>5, <2>6, <2>7, <2>8, <2>9 DEF KeysAgree
<1> QED
  BY <1>1, <1>2, StepEffect

LEMMA KeysInit == InvoicingInit => KeysAgree
<1>1. InvoicingInit => \A r \in Requests : req[r].pc = "idle" /\ held[r] = {}
  BY DEF InvoicingInit, Idle
<1> QED
  BY <1>1 DEF InvoicingInit, KeysAgree

\* Calls with one Idempotency-Key of a merchant that are answered are answered
\* with the same invoice, whichever of them made it: by the saved answer, by
\* the row that carries the key, or as the one that stored it
\* (invoices.service.ts create 65-75 and 153, the unique index of the table).
THEOREM OneAnswerPerKey == InvoicingSpec => []OneInvoicePerKey
<1>1. InvoicingInit => InvoicingShape /\ KeysAgree
  BY ShapeInit, KeysInit
<1>2. InvoicingShape /\ KeysAgree /\ [InvoicingNext]_invoicingVars => (InvoicingShape /\ KeysAgree)'
  BY ShapeStep, KeysStep
<1>3. InvoicingShape /\ KeysAgree => OneInvoicePerKey
  <2> SUFFICES ASSUME KeysAgree, NEW r \in Requests, NEW q \in Requests,
                      req[r].pc = "done", req[q].pc = "done", req[r].key = req[q].key,
                      req[r].key # NoKey, req[r].m = req[q].m
               PROVE  req[r].answer = req[q].answer
    BY DEF OneInvoicePerKey
  <2>1. PICK x \in KeyHolders(req[r].m, req[r].key) : req[r].answer = {x.id}
    BY DEF KeysAgree
  <2>2. PICK y \in KeyHolders(req[r].m, req[r].key) : req[q].answer = {y.id}
    BY DEF KeysAgree
  <2> QED
    BY <2>1, <2>2 DEF KeysAgree, KeyHolders
<1> QED
  BY <1>1, <1>2, <1>3, PTL DEF InvoicingSpec

-----------------------------------------------------------------------------
(* Muxed ids.                                                              *)

\* The muxed ids that are taken, with the merchant: Allocated says of which
\* invoice each is.
Taken ==
    {[id |-> x.id, m |-> x.m, muxed |-> x.muxed] : x \in rows \union UNION {held[r] : r \in Requests}}
        \union {[id |-> <<r, req[r].i>>, m |-> req[r].m, muxed |-> req[r].muxed] :
                r \in {q \in Requests : req[q].pc = "insert"}}

IdsSpread ==
    /\ \A x \in Taken : /\ base[x.m] # 0
                        /\ base[x.m] < x.muxed /\ x.muxed <= base[x.m] + seq[x.m]
    /\ \A x, y \in Taken : x.m = y.m /\ x.muxed = y.muxed => x.id = y.id
    /\ \A m \in Merchants : base[m] # 0 => base[m] = Index(m) * Span
    /\ \A m, n \in Merchants : base[m] = base[n] /\ base[m] # 0 => m = n
    /\ \A r \in Requests : req[r].pc \in {"seq", "insert"} => base[req[r].m] # 0

LEMMA IndexPositive ==
    ASSUME NEW m \in Merchants
    PROVE  Index(m) \in Nat \ {0} /\ Index(m) * Span \in Nat \ {0}
<1> DEFINE before == {n \in Merchants : CreatedAt[n] <= CreatedAt[m]}
<1>1. m \in before /\ IsFiniteSet(before)
  BY InvoicingAssumption, FS_Subset
<1>2. Cardinality(before) \in Nat /\ Cardinality(before) # 0
  <2> HIDE DEF before
  <2> QED
    BY <1>1, FS_CardinalityType, FS_EmptySet
<1>3. \A x, y \in Nat \ {0} : x * y \in Nat \ {0}
  OBVIOUS
<1>4. Index(m) \in Nat \ {0}
  BY <1>2 DEF Index
<1> QED
  BY <1>3, <1>4, InvoicingAssumption

\* Each number is in one span at most.
LEMMA SpansApart ==
    ASSUME NEW i \in Nat, NEW j \in Nat, NEW s \in Nat \ {0}, NEW v \in Nat,
           i * s < v, v <= i * s + s, j * s < v, v <= j * s + s
    PROVE  i = j
<1>1. \A x, y \in Nat : x < y => x * s + s <= y * s
  <2> SUFFICES ASSUME NEW x \in Nat, NEW y \in Nat, x < y PROVE x * s + s <= y * s
    OBVIOUS
  <2>1. PICK d \in Nat : y = x + 1 + d
    <3>1. y - x - 1 \in Nat
      OBVIOUS
    <3> QED
      BY <3>1
  <2>2. y * s = x * s + s + d * s /\ d * s \in Nat /\ x * s \in Nat
    BY <2>1
  <2> QED
    BY <2>2
<1>2. i * s \in Nat /\ j * s \in Nat
  OBVIOUS
<1> QED
  BY <1>1, <1>2

LEMMA TakenTyped ==
    ASSUME InvoicingShape, NEW x \in Taken
    PROVE  x.m \in Merchants /\ x.muxed \in Nat
  BY DEF InvoicingShape, InvoicingTypes, InvoiceRows, RequestStates, Taken

\* Storing an invoice takes no muxed id but the one its request has.
LEMMA TakenGrows ==
    ASSUME InvoicingShape, RequestsTyped', NEW r \in Requests, Acts(r), NEW x \in Taken'
    PROVE  \/ x \in Taken
           \/ /\ Numbers(r) /\ x.id = <<r, req[r].i>> /\ x.m = req[r].m
              /\ x.muxed = base[req[r].m] + seq[req[r].m] + 1
<1>1. /\ Alone(r) /\ (rows' = rows \/ Stores(r) \/ Commits(r))
      /\ held'[r] \subseteq held[r] \/ Holds(r)
  BY ActsFrame
<1>2. ASSUME Stores(r) \/ Holds(r), NEW y, y = Row(r)
      PROVE  [id |-> y.id, m |-> y.m, muxed |-> y.muxed] \in Taken
  <2>1. /\ Row(r).id = <<r, req[r].i>> /\ Row(r).m = req[r].m /\ Row(r).muxed = req[r].muxed
        /\ req[r].pc = "insert"
    BY <1>2, RowTyped DEF Stores, Holds, Open
  <2> QED
    BY <1>2, <2>1 DEF Taken
<1>3. ASSUME NEW y \in rows', x = [id |-> y.id, m |-> y.m, muxed |-> y.muxed] PROVE x \in Taken
  <2>1. CASE y = Row(r) /\ Stores(r)
    BY <1>2, <1>3, <2>1
  <2>2. CASE ~(y = Row(r) /\ Stores(r))
    <3>1. y \in rows \union held[r]
      BY <1>1, <2>2 DEF Stores, Commits
    <3>2. y \in rows \union UNION {held[q] : q \in Requests}
      BY <3>1
    <3> QED
      BY <1>3, <3>2 DEF Taken
  <2> QED
    BY <2>1, <2>2
<1>4. ASSUME NEW q \in Requests, NEW y \in held'[q], x = [id |-> y.id, m |-> y.m, muxed |-> y.muxed]
      PROVE  x \in Taken
  <2>1. CASE y = Row(r) /\ Holds(r)
    BY <1>2, <1>4, <2>1
  <2>2. CASE ~(y = Row(r) /\ Holds(r))
    <3>1. y \in held[q]
      BY <1>1, <1>4, <2>2 DEF Holds, Alone
    <3>2. y \in rows \union UNION {held[p] : p \in Requests}
      BY <3>1
    <3> QED
      BY <1>4, <3>2 DEF Taken
  <2> QED
    BY <2>1, <2>2
<1>5. ASSUME NEW q \in Requests, req'[q].pc = "insert",
             x = [id |-> <<q, req'[q].i>>, m |-> req'[q].m, muxed |-> req'[q].muxed]
      PROVE  \/ x \in Taken
             \/ /\ Numbers(r) /\ x.id = <<r, req[r].i>> /\ x.m = req[r].m
                /\ x.muxed = base[req[r].m] + seq[req[r].m] + 1
  <2>1. CASE q # r
    BY <1>1, <1>5, <2>1 DEF Alone, Taken
  <2>2. CASE q = r
    <3>1. Numbers(r)
      BY <1>5, <2>2 DEF Acts, Fails, Advances, Answers, SetsBase, Numbers, Stores, Holds,
                        Commits, Saves, Arrives, Begins, Ends, Leaves, Goes
    <3> QED
      BY <1>5, <2>2, <3>1 DEF Numbers, Goes, SameRequest
  <2> QED
    BY <2>1, <2>2
<1> QED
  BY <1>3, <1>4, <1>5 DEF Taken

LEMMA IdsStep ==
    ASSUME InvoicingShape, IdsSpread, [InvoicingNext]_invoicingVars
    PROVE  IdsSpread'
<1>1. CASE Around
  <2>1. rows' = rows /\ base' = base /\ seq' = seq /\ req' = req /\ held' = held
    BY <1>1, AroundKeeps
  <2> QED
    BY <2>1 DEF IdsSpread, Taken
<1>2. ASSUME RequestsTyped', NEW r \in Requests, Acts(r) PROVE IdsSpread'
  <2>1. /\ Alone(r) /\ (base' = base \/ SetsBase(r)) /\ (seq' = seq \/ Numbers(r))
        /\ req[r] \in RequestStates /\ req[r].m \in Merchants
        /\ base \in [Merchants -> Nat] /\ seq \in [Merchants -> Nat]
    BY <1>2, ActsFrame DEF InvoicingShape, InvoicingTypes, RequestStates
  <2> DEFINE m == req[r].m
             b == Index(m) * Span
  <2>2. b \in Nat \ {0}
    BY <2>1, IndexPositive
  <2>3. ASSUME NEW n \in Merchants
        PROVE  /\ base[n] # 0 => base'[n] = base[n]
               /\ base'[n] # 0 => base'[n] = Index(n) * Span
    <3>1. CASE base' = base
      BY <3>1 DEF IdsSpread
    <3>2. CASE SetsBase(r)
      <4>1. base' = [base EXCEPT ![m] = b]
        BY <3>2 DEF SetsBase
      <4> HIDE DEF m, b
      <4>2. base'[n] = IF n = m THEN b ELSE base[n]
        BY <2>1, <4>1
      <4>3. n = m => b = Index(n) * Span
        BY DEF b
      <4> QED
        BY <4>2, <4>3 DEF IdsSpread
    <3> QED
      BY <2>1, <3>1, <3>2
  <2>4. \A n, o \in Merchants : base'[n] = base'[o] /\ base'[n] # 0 => n = o
    <3>1. CASE base' = base
      BY <3>1 DEF IdsSpread
    <3>2. CASE SetsBase(r)
      <4>1. base' = [base EXCEPT ![m] = b] /\ \A n \in Merchants \ {m} : base[n] # b
        BY <3>2 DEF SetsBase
      <4> HIDE DEF m, b
      <4>2. \A n \in Merchants : base'[n] = IF n = m THEN b ELSE base[n]
        BY <2>1, <4>1
      <4> QED
        BY <4>1, <4>2 DEF IdsSpread
    <3> QED
      BY <2>1, <3>1, <3>2
  <2>5. \A n \in Merchants : seq'[n] \in Nat /\ seq[n] <= seq'[n]
    BY <2>1 DEF Numbers
  <2>6. \A x \in Taken : x.m \in Merchants /\ x.muxed \in Nat
    BY TakenTyped
  <2>7. ASSUME NEW x \in Taken
        PROVE  /\ base'[x.m] # 0 /\ base'[x.m] = base[x.m]
               /\ base'[x.m] < x.muxed /\ x.muxed <= base'[x.m] + seq'[x.m]
    <3>1. base[x.m] # 0 /\ base[x.m] < x.muxed /\ x.muxed <= base[x.m] + seq[x.m]
      BY DEF IdsSpread
    <3> QED
      BY <2>1, <2>3, <2>5, <2>6, <3>1
  <2>8. ASSUME NEW x \in Taken', x \notin Taken
        PROVE  /\ x.m = m /\ base[m] # 0 /\ base' = base /\ seq'[m] = seq[m] + 1
               /\ x.muxed = base[m] + seq[m] + 1 /\ x.id = <<r, req[r].i>>
    <3>1. /\ Numbers(r) /\ x.id = <<r, req[r].i>> /\ x.m = m /\ x.muxed = base[m] + seq[m] + 1
      BY <1>2, <2>8, TakenGrows
    <3> QED
      BY <2>1, <3>1 DEF Numbers, IdsSpread
  <2> HIDE DEF m, b
  <2>9. m \in Merchants
    BY <2>1 DEF m
  <2>10. \A x \in Taken' : /\ base'[x.m] # 0
                           /\ base'[x.m] < x.muxed /\ x.muxed <= base'[x.m] + seq'[x.m]
    <3>1. ASSUME NEW x \in Taken', x \notin Taken
          PROVE  /\ base'[x.m] # 0
                 /\ base'[x.m] < x.muxed /\ x.muxed <= base'[x.m] + seq'[x.m]
      BY <2>1, <2>8, <2>9, <3>1
    <3> QED
      BY <2>7, <3>1
  <2>11. \A x, y \in Taken' : x.m = y.m /\ x.muxed = y.muxed => x.id = y.id
    <3>1. ASSUME NEW x \in Taken, NEW y \in Taken', y \notin Taken PROVE ~(x.m = y.m /\ x.muxed = y.muxed)
      BY <2>1, <2>6, <2>8, <2>9, <3>1 DEF IdsSpread
    <3>2. ASSUME NEW x \in Taken', NEW y \in Taken', x \notin Taken, y \notin Taken PROVE x.id = y.id
      BY <2>8, <3>2
    <3> QED
      BY <3>1, <3>2 DEF IdsSpread
  <2>12. \A q \in Requests : req'[q].pc \in {"seq", "insert"} => base'[req'[q].m] # 0
    <3>1. ASSUME NEW q \in Requests \ {r}, req'[q].pc \in {"seq", "insert"} PROVE base'[req'[q].m] # 0
      <4>1. req'[q] = req[q] /\ req[q].m \in Merchants
        BY <2>1 DEF Alone, InvoicingShape, InvoicingTypes, RequestStates
      <4> QED
        BY <2>3, <3>1, <4>1 DEF IdsSpread
    <3>2. ASSUME req'[r].pc \in {"seq", "insert"} PROVE base'[req'[r].m] # 0
      <4>1. Advances(r) \/ SetsBase(r) \/ Numbers(r)
        BY <1>2, <3>2 DEF Acts, Fails, Answers, Stores, Holds, Commits, Saves, Arrives, Begins,
                          Ends, Leaves, Goes
      <4>2. req'[r].m = m
        BY <4>1 DEF Advances, SetsBase, Numbers, Goes, SameRequest, m
      <4>3. CASE SetsBase(r)
        BY <2>1, <2>2, <2>9, <4>2, <4>3 DEF SetsBase, m, b
      <4>4. CASE Advances(r) \/ Numbers(r)
        <5>1. base[m] # 0
          BY <3>2, <4>4 DEF Advances, Numbers, Goes, IdsSpread, m
        <5> QED
          BY <2>3, <2>9, <4>2, <5>1
      <4> QED
        BY <4>1, <4>3, <4>4
    <3> QED
      BY <3>1, <3>2
  <2>13. \A n \in Merchants : base'[n] # 0 => base'[n] = Index(n) * Span
    BY <2>3
  <2> QED
    BY <2>4, <2>10, <2>11, <2>12, <2>13 DEF IdsSpread
<1> QED
  BY <1>1, <1>2, StepEffect

\* While no merchant has used up its Span, a muxed id that is stored, held by
\* an open bulk or just given to a request names one invoice of one merchant,
\* in whatever order the UPDATEs of the sequence and of the base come
\* (ensureMuxedBase, nextInvoiceSequence in invoices.service.ts).
THEOREM MuxedIdNamesOne == InvoicingSpec => []MuxedIdsDistinct
<1>1. InvoicingInit => InvoicingShape /\ IdsSpread
  <2> SUFFICES ASSUME InvoicingInit PROVE IdsSpread
    BY ShapeInit
  <2>1. \A r \in Requests : req[r].pc = "idle" /\ held[r] = {}
    BY DEF InvoicingInit, Idle
  <2>2. Taken = {}
    BY <2>1 DEF InvoicingInit, Taken
  <2> QED
    BY <2>1, <2>2 DEF InvoicingInit, IdsSpread
<1>2. InvoicingShape /\ IdsSpread /\ [InvoicingNext]_invoicingVars => (InvoicingShape /\ IdsSpread)'
  BY ShapeStep, IdsStep
<1>3. InvoicingShape /\ IdsSpread => MuxedIdsDistinct
  <2> SUFFICES ASSUME InvoicingShape, IdsSpread, \A m \in Merchants : seq[m] <= Span,
                      NEW x \in Allocated, NEW y \in Allocated, x.muxed = y.muxed
               PROVE  x.id = y.id
    BY DEF MuxedIdsDistinct
  <2>1. \A z \in Allocated : \E t \in Taken : t.id = z.id /\ t.muxed = z.muxed
    <3>1. ASSUME NEW z \in Allocated PROVE \E t \in Taken : t.id = z.id /\ t.muxed = z.muxed
      <4>1. CASE \E u \in rows \union UNION {held[r] : r \in Requests} :
                    z = [id |-> u.id, muxed |-> u.muxed]
        <5>1. PICK u \in rows \union UNION {held[r] : r \in Requests} :
                 z = [id |-> u.id, muxed |-> u.muxed]
          BY <4>1
        <5>2. PICK t : t = [id |-> u.id, m |-> u.m, muxed |-> u.muxed]
          OBVIOUS
        <5>3. t \in Taken
          BY <5>1, <5>2 DEF Taken
        <5> QED
          BY <5>1, <5>2, <5>3
      <4>2. CASE \E r \in {q \in Requests : req[q].pc = "insert"} :
                    z = [id |-> <<r, req[r].i>>, muxed |-> req[r].muxed]
        <5>1. PICK r \in {q \in Requests : req[q].pc = "insert"} :
                 z = [id |-> <<r, req[r].i>>, muxed |-> req[r].muxed]
          BY <4>2
        <5>2. PICK t : t = [id |-> <<r, req[r].i>>, m |-> req[r].m, muxed |-> req[r].muxed]
          OBVIOUS
        <5>3. t \in Taken
          BY <5>1, <5>2 DEF Taken
        <5> QED
          BY <5>1, <5>2, <5>3
      <4> QED
        BY <4>1, <4>2 DEF Allocated
    <3> QED
      BY <3>1
  <2>2. PICK t \in Taken : t.id = x.id /\ t.muxed = x.muxed
    BY <2>1
  <2>3. PICK u \in Taken : u.id = y.id /\ u.muxed = y.muxed
    BY <2>1
  <2>4. /\ t.m \in Merchants /\ u.m \in Merchants /\ t.muxed \in Nat /\ u.muxed = t.muxed
        /\ Index(t.m) \in Nat /\ Index(u.m) \in Nat
    BY <2>2, <2>3, TakenTyped, IndexPositive
  <2>5. ASSUME NEW z \in {t, u}
        PROVE  /\ base[z.m] = Index(z.m) * Span /\ base[z.m] # 0
               /\ Index(z.m) * Span < z.muxed /\ z.muxed <= Index(z.m) * Span + Span
    <3>1. /\ z \in Taken /\ z.m \in Merchants /\ seq[z.m] <= Span /\ seq[z.m] \in Nat
          /\ base[z.m] \in Nat /\ z.muxed \in Nat /\ Span \in Nat
      BY <2>4, InvoicingAssumption DEF InvoicingShape, InvoicingTypes
    <3>2. /\ base[z.m] = Index(z.m) * Span /\ base[z.m] # 0
          /\ base[z.m] < z.muxed /\ z.muxed <= base[z.m] + seq[z.m]
      BY <3>1 DEF IdsSpread
    <3> QED
      BY <3>1, <3>2
  <2>6. Index(t.m) = Index(u.m)
    BY <2>4, <2>5, SpansApart, InvoicingAssumption
  <2>7. t.m = u.m
    BY <2>4, <2>5, <2>6 DEF IdsSpread
  <2> QED
    BY <2>2, <2>3, <2>4, <2>7 DEF IdsSpread
<1> QED
  BY <1>1, <1>2, <1>3, PTL DEF InvoicingSpec

-----------------------------------------------------------------------------
(* Bulks.                                                                  *)

\* The invoices a request has stored, those a bulk holds, and the connections.
OpenBulks == {r \in Requests : req[r].bulk /\ Open(r)}
Inserted(r) == IF req[r].pc = "commit" THEN Len(req[r].items) ELSE req[r].i - 1
Stored(r) == {x \in rows : x.id[1] = r}
\* A bulk comes to either end by its COMMIT.
Committed(r) == req[r].pc \in {"done", "unheard"}

Positions(xs, n, items) ==
    /\ \A x \in xs : x.id[2] \in 1..n /\ x.amount = items[x.id[2]]
    /\ \A j \in 1..n : \E x \in xs : x.id[2] = j

BulksClean ==
    /\ \A r \in Requests : \A x \in held[r] : x.id[1] = r
    /\ \A r \in Requests : req[r].bulk /\ Open(r) => Positions(held[r], Inserted(r), req[r].items)
    /\ \A r \in Requests : req[r].pc = "idle" \/ (req[r].bulk /\ ~Committed(r)) => Stored(r) = {}
    /\ \A r \in Requests : req[r].bulk /\ Committed(r) =>
          /\ Positions(Stored(r), Len(req[r].items), req[r].items)
          /\ Len(req[r].items) # 0
    /\ IsFiniteSet(OpenBulks) /\ conns + Cardinality(OpenBulks) = Conns

LEMMA PositionAdded ==
    ASSUME NEW xs, NEW x, NEW n \in Nat \ {0}, NEW items, Positions(xs, n - 1, items),
           x.id[2] = n, x.amount = items[n]
    PROVE  Positions(xs \union {x}, n, items)
<1>1. \A y \in xs \union {x} : y.id[2] \in 1..n /\ y.amount = items[y.id[2]]
  BY DEF Positions
<1>2. ASSUME NEW j \in 1..n PROVE \E y \in xs \union {x} : y.id[2] = j
  <2>1. CASE j = n
    BY <2>1
  <2>2. CASE j # n
    <3>1. j \in 1..(n - 1)
      BY <2>2
    <3> QED
      BY <3>1 DEF Positions
  <2> QED
    BY <2>1, <2>2
<1> QED
  BY <1>1, <1>2 DEF Positions

LEMMA RowPlace ==
    ASSUME InvoicingShape, NEW r \in Requests, Open(r)
    PROVE  Row(r).id[1] = r /\ Row(r).id[2] = req[r].i
<1>1. Row(r).id = <<r, req[r].i>>
  BY RowTyped
<1> QED
  BY <1>1

\* A request stores invoices of its own and only by Stores and Commits.
LEMMA StoresItsOwn ==
    ASSUME InvoicingShape, BulksClean, RequestsTyped', NEW r \in Requests, Acts(r)
    PROVE  /\ \A q \in Requests \ {r} : Stored(q)' = Stored(q)
           /\ Stored(r)' = Stored(r) \/ Stores(r) \/ Commits(r)
           /\ Commits(r) => Stored(r)' = Stored(r) \union held[r]
<1>1. rows' = rows \/ Stores(r) \/ Commits(r)
  BY ActsFrame
<1>2. CASE rows' = rows
  BY <1>2 DEF Stored, Commits, BulksClean
<1>3. CASE Stores(r)
  <2>1. rows' = rows \union {Row(r)} /\ Row(r).id[1] = r
    BY <1>3, RowPlace DEF Stores, Open
  <2>2. ~Commits(r)
    BY <1>3 DEF Stores, Commits
  <2> QED
    BY <1>3, <2>1, <2>2 DEF Stored
<1>4. CASE Commits(r)
  BY <1>4 DEF Commits, Stored, BulksClean
<1> QED
  BY <1>1, <1>2, <1>3, <1>4

LEMMA HeldStep ==
    ASSUME InvoicingShape, BulksClean, RequestsTyped', NEW r \in Requests, Acts(r),
           req'[r].bulk, Open(r)'
    PROVE  Positions(held'[r], Inserted(r)', req'[r].items)
<1>1. Shape(r) /\ req[r] \in RequestStates /\ req'[r] \in RequestStates
  BY DEF InvoicingShape, InvoicingTypes, RequestsTyped
<1>2. Advances(r) \/ SetsBase(r) \/ Numbers(r) \/ Holds(r) \/ Begins(r)
  BY DEF Acts, Fails, Answers, Stores, Commits, Saves, Arrives, Ends, Leaves, Goes, SameRequest, Open
<1>3. CASE Advances(r) \/ SetsBase(r) \/ Numbers(r)
  <2>1. /\ req[r].bulk /\ Open(r) /\ req[r].pc # "commit" /\ req'[r].pc # "commit"
        /\ held'[r] = held[r] /\ req'[r].items = req[r].items /\ req'[r].i = req[r].i
    BY <1>3 DEF Advances, SetsBase, Numbers, Goes, SameRequest, Open
  <2> QED
    BY <2>1 DEF BulksClean, Inserted
<1>4. CASE Holds(r)
  <2>1. /\ Open(r) /\ Inserted(r) = req[r].i - 1 /\ Positions(held[r], Inserted(r), req[r].items)
        /\ req'[r].items = req[r].items /\ held'[r] = held[r] \union {Row(r)}
        /\ req[r].i \in 1..Len(req[r].items)
    BY <1>1, <1>4 DEF Holds, Open, BulksClean, Inserted, Shape
  <2>2. Inserted(r)' = req[r].i
    BY <1>4, <2>1 DEF Holds, Inserted
  <2>3. Row(r).id[2] = req[r].i /\ Row(r).amount = req[r].items[req[r].i]
    BY <2>1, RowTyped, RowPlace DEF Amount
  <2>4. PICK n \in Nat : n = req[r].i /\ n - 1 = Inserted(r)
    BY <2>1
  <2>5. Positions(held[r] \union {Row(r)}, n, req[r].items)
    <3>1. Positions(held[r], n - 1, req[r].items) /\ n \in Nat \ {0}
      BY <2>1, <2>4
    <3>2. Row(r).id[2] = n /\ Row(r).amount = req[r].items[n]
      BY <2>3, <2>4
    <3> QED
      BY <3>1, <3>2, PositionAdded
  <2> QED
    BY <2>1, <2>2, <2>4, <2>5
<1>5. CASE Begins(r)
  <2>1. held'[r] = {} /\ Inserted(r)' = 0
    BY <1>1, <1>5 DEF Begins, Inserted, Shape, Open
  <2> QED
    BY <2>1 DEF Positions
<1> QED
  BY <1>2, <1>3, <1>4, <1>5

LEMMA ConnsStep ==
    ASSUME InvoicingShape, BulksClean, RequestsTyped', NEW r \in Requests, Acts(r)
    PROVE  IsFiniteSet(OpenBulks') /\ conns' + Cardinality(OpenBulks') = Conns
<1>1. /\ Shape(r) /\ Alone(r) /\ conns \in Int
      /\ IsFiniteSet(OpenBulks) /\ Cardinality(OpenBulks) \in Nat
      /\ conns + Cardinality(OpenBulks) = Conns /\ Conns \in Nat
  BY ActsFrame, InvoicingAssumption, FS_CardinalityType DEF InvoicingShape, InvoicingTypes, BulksClean
<1>2. \A q \in Requests \ {r} : q \in OpenBulks' <=> q \in OpenBulks
  BY <1>1 DEF Alone, OpenBulks, Open
<1>3. CASE Fails(r) \/ Answers(r) \/ Commits(r) \/ Saves(r)
           \/ (Stores(r) /\ Leaves(r, {Row(r).id}))
  <2>1. /\ Open(r) /\ r \notin OpenBulks' /\ (r \in OpenBulks <=> req[r].bulk)
        /\ conns' = IF req[r].bulk THEN conns + 1 ELSE conns
    BY <1>3 DEF Fails, Answers, Commits, Saves, Stores, Ends, Leaves, OpenBulks, Open
  <2>2. OpenBulks' = OpenBulks \ {r}
    BY <1>2, <2>1 DEF OpenBulks
  <2>3. /\ IsFiniteSet(OpenBulks \ {r})
        /\ Cardinality(OpenBulks \ {r})
             = IF r \in OpenBulks THEN Cardinality(OpenBulks) - 1 ELSE Cardinality(OpenBulks)
    BY <1>1, FS_RemoveElement
  <2> QED
    BY <1>1, <2>1, <2>2, <2>3
<1>4. CASE \/ Advances(r) \/ SetsBase(r) \/ Numbers(r) \/ Holds(r)
           \/ (Stores(r) /\ Goes(r, "save"))
  <2>1. conns' = conns /\ (r \in OpenBulks' <=> r \in OpenBulks)
    BY <1>4 DEF Advances, SetsBase, Numbers, Holds, Stores, Goes, SameRequest, OpenBulks, Open
  <2>2. OpenBulks' = OpenBulks
    BY <1>2, <2>1 DEF OpenBulks
  <2> QED
    BY <1>1, <2>1, <2>2
<1>5. CASE Arrives(r)
  <2>1. conns' = conns /\ r \notin OpenBulks' /\ r \notin OpenBulks
    BY <1>5 DEF Arrives, OpenBulks, Open
  <2>2. OpenBulks' = OpenBulks
    BY <1>2, <2>1 DEF OpenBulks
  <2> QED
    BY <1>1, <2>1, <2>2
<1>6. CASE Begins(r)
  <2>1. conns' = conns - 1 /\ r \in OpenBulks' /\ r \notin OpenBulks
    BY <1>6 DEF Begins, OpenBulks, Open
  <2>2. OpenBulks' = OpenBulks \union {r}
    BY <1>2, <2>1 DEF OpenBulks
  <2>3. /\ IsFiniteSet(OpenBulks \union {r})
        /\ Cardinality(OpenBulks \union {r}) = Cardinality(OpenBulks) + 1
    BY <1>1, <2>1, FS_AddElement
  <2> QED
    BY <1>1, <2>1, <2>2, <2>3
<1> QED
  BY <1>3, <1>4, <1>5, <1>6 DEF Acts, Stores

LEMMA BulksStep ==
    ASSUME InvoicingShape, BulksClean, [InvoicingNext]_invoicingVars
    PROVE  BulksClean'
<1>1. CASE Around
  <2>1. rows' = rows /\ req' = req /\ held' = held /\ conns' = conns
    BY <1>1, AroundKeeps
  <2> QED
    BY <2>1 DEF BulksClean, Stored, Inserted, OpenBulks, Open, Committed
<1>2. ASSUME RequestsTyped', NEW r \in Requests, Acts(r) PROVE BulksClean'
  <2>1. Alone(r) /\ Shape(r) /\ (held'[r] \subseteq held[r] \/ Holds(r))
    BY <1>2, ActsFrame DEF InvoicingShape
  <2>2. \A q \in Requests : \A x \in held'[q] : x.id[1] = q
    <3>1. Holds(r) => held'[r] = held[r] \union {Row(r)} /\ Row(r).id[1] = r
      BY RowPlace DEF Holds, Open
    <3> QED
      BY <2>1, <3>1 DEF Alone, BulksClean
  <2>3. ASSUME NEW q \in Requests, req'[q].bulk, Open(q)'
        PROVE  Positions(held'[q], Inserted(q)', req'[q].items)
    <3>1. CASE q = r
      BY <1>2, <2>3, <3>1, HeldStep
    <3>2. CASE q # r
      BY <2>1, <2>3, <3>2 DEF Alone, BulksClean, Inserted, Open
    <3> QED
      BY <3>1, <3>2
  <2>4. ASSUME NEW q \in Requests, req'[q].pc = "idle" \/ (req'[q].bulk /\ ~Committed(q)')
        PROVE  Stored(q)' = {}
    <3>1. CASE q # r
      BY <1>2, <2>1, <2>4, <3>1, StoresItsOwn DEF Alone, BulksClean, Committed
    <3>2. CASE q = r
      <4>1. ~Stores(r) /\ ~Commits(r)
        BY <2>4, <3>2 DEF Stores, Commits, Ends, Leaves, Goes, SameRequest, Committed
      <4>2. Stored(r)' = Stored(r)
        BY <1>2, <4>1, StoresItsOwn
      <4>3. req[r].pc = "idle" \/ (req[r].bulk /\ ~Committed(r))
        BY <1>2, <2>4, <3>2, <4>1
           DEF Acts, Fails, Advances, Answers, SetsBase, Numbers, Holds, Saves, Arrives, Begins,
               Ends, Leaves, Goes, SameRequest, Open, Committed
      <4> QED
        BY <3>2, <4>2, <4>3 DEF BulksClean
    <3> QED
      BY <3>1, <3>2
  <2>5. ASSUME NEW q \in Requests, req'[q].bulk, Committed(q)'
        PROVE  Positions(Stored(q)', Len(req'[q].items), req'[q].items) /\ Len(req'[q].items) # 0
    <3>1. CASE q # r
      BY <1>2, <2>1, <2>5, <3>1, StoresItsOwn DEF Alone, BulksClean, Committed
    <3>2. CASE q = r
      <4>1. Commits(r)
        BY <1>2, <2>1, <2>5, <3>2
           DEF Acts, Fails, Advances, Answers, SetsBase, Numbers, Stores, Holds, Saves, Arrives,
               Begins, Ends, Leaves, Goes, SameRequest, Shape, Committed
      <4>2. /\ req[r].bulk /\ Open(r) /\ req[r].pc = "commit" /\ req'[r].items = req[r].items
        BY <2>1, <4>1 DEF Commits, Leaves, Shape, Open
      <4>3. Stored(r)' = held[r]
        <5>1. Stored(r)' = Stored(r) \union held[r]
          BY <1>2, <4>1, StoresItsOwn
        <5>2. Stored(r) = {}
          BY <4>2 DEF BulksClean, Committed
        <5> QED
          BY <5>1, <5>2
      <4>4. Positions(held[r], Len(req[r].items), req[r].items) /\ Len(req[r].items) # 0
        BY <2>1, <4>2 DEF BulksClean, Inserted, Shape
      <4> QED
        BY <3>2, <4>2, <4>3, <4>4
    <3> QED
      BY <3>1, <3>2
  <2>6. IsFiniteSet(OpenBulks') /\ conns' + Cardinality(OpenBulks') = Conns
    BY <1>2, ConnsStep
  <2> QED
    BY <2>2, <2>3, <2>4, <2>5, <2>6 DEF BulksClean
<1> QED
  BY <1>1, <1>2, StepEffect

LEMMA BulksInit == InvoicingInit => BulksClean
<1> SUFFICES ASSUME InvoicingInit PROVE BulksClean
  OBVIOUS
<1>1. \A r \in Requests : req[r].pc = "idle" /\ ~req[r].bulk /\ held[r] = {}
  BY DEF InvoicingInit, Idle
<1>2. OpenBulks = {} /\ \A r \in Requests : Stored(r) = {}
  BY <1>1 DEF InvoicingInit, OpenBulks, Stored
<1> QED
  BY <1>1, <1>2, FS_EmptySet, InvoicingAssumption DEF InvoicingInit, BulksClean, Committed

\* A bulk that has stored an invoice has ended and has stored one for each of
\* its items, with its amount and in its place, also when its COMMIT took
\* effect and the caller was told of a failure or of nothing; one that is
\* answered has stored them; and the connections nobody holds are those of the
\* pool less one for each bulk that is open (invoices.service.ts createBulk:
\* BEGIN, COMMIT or ROLLBACK, release in the finally).
THEOREM BulkLeavesAllOrNothing == InvoicingSpec => []BulkEndsClean
<1>1. InvoicingInit => InvoicingShape /\ BulksClean
  BY ShapeInit, BulksInit
<1>2. InvoicingShape /\ BulksClean /\ [InvoicingNext]_invoicingVars => (InvoicingShape /\ BulksClean)'
  BY ShapeStep, BulksStep
<1>3. InvoicingShape /\ BulksClean => BulkEndsClean
  <2> SUFFICES ASSUME InvoicingShape, BulksClean PROVE BulkEndsClean
    OBVIOUS
  <2>1. ASSUME NEW r \in Requests, req[r].bulk, Committed(r)
        PROVE  /\ {x.id[2] : x \in Stored(r)} = 1..Len(req[r].items)
               /\ \A x \in Stored(r) : x.amount = req[r].items[x.id[2]]
               /\ ~Open(r) /\ Stored(r) # {}
    <3>1. Positions(Stored(r), Len(req[r].items), req[r].items) /\ Len(req[r].items) # 0
      BY <2>1 DEF BulksClean
    <3>2. Len(req[r].items) \in Nat
      BY DEF InvoicingShape, InvoicingTypes, RequestStates
    <3>3. 1 \in 1..Len(req[r].items)
      BY <3>1, <3>2
    <3>4. ~Open(r)
      BY <2>1 DEF Committed, Open
    <3> QED
      BY <3>1, <3>3, <3>4 DEF Positions
  <2>2. ASSUME NEW r \in Requests, req[r].bulk, ~Committed(r) PROVE Stored(r) = {}
    BY <2>2 DEF BulksClean
  <2>3. conns + Cardinality(OpenBulks) = Conns
    BY DEF BulksClean
  <2>4. ASSUME NEW r \in Requests, req[r].bulk
        PROVE  LET created == Stored(r) IN
               /\ created # {} =>
                     /\ ~Open(r)
                     /\ {x.id[2] : x \in created} = 1..Len(req[r].items)
                     /\ \A x \in created : x.amount = req[r].items[x.id[2]]
               /\ req[r].pc = "done" => created # {}
    <3>1. CASE Committed(r)
      BY <2>1, <2>4, <3>1
    <3>2. CASE ~Committed(r)
      BY <2>2, <2>4, <3>2 DEF Committed
    <3> QED
      BY <3>1, <3>2
  <2> QED
    BY <2>3, <2>4 DEF BulkEndsClean, Stored, OpenBulks
<1> QED
  BY <1>1, <1>2, <1>3, PTL DEF InvoicingSpec

\* Every variable keeps its type; of the connections, no more are free than
\* the pool has, and a bulk takes one only when one is free
\* (invoices.service.ts, database.module.ts: the pool waits).
THEOREM InvoicingTypeCorrect == InvoicingSpec => []InvoicingTypeOK
<1> DEFINE Inv == InvoicingShape /\ BulksClean /\ conns >= 0
<1>1. InvoicingInit => Inv
  <2>1. InvoicingInit => conns >= 0
    BY InvoicingAssumption DEF InvoicingInit
  <2> QED
    BY <2>1, ShapeInit, BulksInit
<1>2. Inv /\ [InvoicingNext]_invoicingVars => Inv'
  <2> SUFFICES ASSUME Inv, [InvoicingNext]_invoicingVars PROVE conns' >= 0
    BY ShapeStep, BulksStep
  <2>1. conns \in Int
    BY DEF InvoicingShape, InvoicingTypes
  <2>2. ASSUME NEW r \in Requests, Acts(r) PROVE conns' >= 0
    BY <2>1, <2>2 DEF Acts, Fails, Advances, Answers, SetsBase, Numbers, Stores, Holds, Commits,
                      Saves, Arrives, Begins, Ends, Leaves, Goes
  <2> QED
    BY <2>2, StepEffect, AroundKeeps
<1>3. Inv => InvoicingTypeOK
  <2> SUFFICES ASSUME Inv PROVE InvoicingTypeOK
    OBVIOUS
  <2>1. InvoicingTypes /\ conns >= 0 /\ Conns \in Nat
    BY InvoicingAssumption DEF InvoicingShape
  <2>2. conns <= Conns
    <3>1. Cardinality(OpenBulks) \in Nat /\ conns + Cardinality(OpenBulks) = Conns
      BY FS_CardinalityType DEF BulksClean
    <3> QED
      BY <2>1, <3>1 DEF InvoicingTypes
  <2>3. \A x \in rows \union UNION {held[r] : r \in Requests} : x \in InvoiceRows
    BY <2>1 DEF InvoicingTypes
  <2>4. \A r \in Requests : req[r] \in RequestStates
    BY <2>1 DEF InvoicingTypes
  <2> QED
    BY <2>1, <2>2, <2>3, <2>4 DEF InvoicingTypes, InvoicingTypeOK, InvoiceRows, RequestStates
<1> HIDE DEF Inv
<1>4. InvoicingSpec => []Inv
  BY <1>1, <1>2, PTL DEF InvoicingSpec
<1> QED
  BY <1>3, <1>4, PTL

-----------------------------------------------------------------------------
(* What callers see: Invoicing implements InvoiceCreation.                 *)

\* What an open request has stored is the invoice it is about to save the
\* answer of; what a bulk holds is of its merchant.
OwnStored ==
    /\ \A r \in Requests : Open(r) => \A x \in Stored(r) :
          req[r].pc = "save" /\ x.m = req[r].m /\ x.key = req[r].key
    /\ \A r \in Requests : req[r].bulk /\ Open(r) => req[r].items \in Bulks
    /\ \A r \in Requests : \A x \in held[r] : x.m = req[r].m

LEMMA OwnStep ==
    ASSUME InvoicingShape, BulksClean, OwnStored, [InvoicingNext]_invoicingVars
    PROVE  OwnStored'
<1>1. CASE Around
  <2>1. rows' = rows /\ req' = req /\ held' = held
    BY <1>1, AroundKeeps
  <2> QED
    BY <2>1 DEF OwnStored, Stored, Open
<1>2. ASSUME RequestsTyped', NEW r \in Requests, Acts(r) PROVE OwnStored'
  <2>1. Alone(r) /\ Shape(r) /\ (held'[r] \subseteq held[r] \/ Holds(r))
    BY <1>2, ActsFrame DEF InvoicingShape
  <2>2. /\ \A q \in Requests \ {r} : Stored(q)' = Stored(q)
        /\ Stored(r)' = Stored(r) \/ Stores(r) \/ Commits(r)
    BY <1>2, StoresItsOwn
  <2>3. ASSUME Open(r)', NEW x \in Stored(r)'
        PROVE  req'[r].pc = "save" /\ x.m = req'[r].m /\ x.key = req'[r].key
    <3>1. CASE Stores(r)
      <4>1. Open(r) /\ req[r].pc # "save" /\ rows' = rows \union {Row(r)}
        BY <3>1 DEF Stores, Open
      <4>2. Stored(r) = {}
        BY <4>1 DEF OwnStored
      <4>3. x = Row(r)
        BY <4>1, <4>2 DEF Stored
      <4>4. Row(r).m = req[r].m /\ Row(r).key = req[r].key
        BY <4>1, RowTyped
      <4>5. SameRequest(r) /\ req'[r].pc = "save"
        BY <2>3, <3>1 DEF Stores, Ends, Leaves, Goes, Open
      <4> QED
        BY <4>3, <4>4, <4>5 DEF SameRequest
    <3>2. CASE Advances(r) \/ SetsBase(r) \/ Numbers(r) \/ Holds(r)
      <4>1. Open(r) /\ req[r].pc # "save" /\ ~Stores(r) /\ ~Commits(r)
        BY <3>2 DEF Advances, SetsBase, Numbers, Holds, Stores, Commits, Open
      <4> QED
        BY <2>2, <2>3, <4>1 DEF OwnStored
    <3>3. CASE Arrives(r) \/ Begins(r)
      <4>1. req[r].pc = "idle" /\ ~Stores(r) /\ ~Commits(r)
        BY <3>3 DEF Arrives, Begins, Stores, Commits
      <4> QED
        BY <2>2, <2>3, <4>1 DEF BulksClean
    <3>4. CASE Fails(r) \/ Answers(r) \/ Commits(r) \/ Saves(r)
      BY <2>3, <3>4 DEF Fails, Answers, Commits, Saves, Ends, Leaves, Open
    <3> QED
      BY <1>2, <3>1, <3>2, <3>3, <3>4 DEF Acts
  <2>4. ASSUME req'[r].bulk, Open(r)' PROVE req'[r].items \in Bulks
    <3>1. CASE Begins(r)
      BY <3>1 DEF Begins
    <3>2. CASE Advances(r) \/ SetsBase(r) \/ Numbers(r) \/ Holds(r)
      <4>1. Open(r) /\ req[r].bulk /\ req'[r].items = req[r].items
        BY <2>4, <3>2 DEF Advances, SetsBase, Numbers, Holds, Goes, SameRequest, Open
      <4> QED
        BY <4>1 DEF OwnStored
    <3> QED
      BY <1>2, <2>4, <3>1, <3>2
         DEF Acts, Fails, Answers, Stores, Commits, Saves, Arrives, Ends, Leaves, Goes, SameRequest, Open
  <2>5. ASSUME NEW x \in held'[r] PROVE x.m = req'[r].m
    <3>1. CASE Holds(r)
      <4>1. /\ Open(r) /\ held'[r] = held[r] \union {Row(r)} /\ SameRequest(r)
        BY <3>1 DEF Holds, Open
      <4>2. Row(r).m = req[r].m
        BY <4>1, RowTyped
      <4> QED
        BY <2>5, <4>1, <4>2 DEF OwnStored, SameRequest
    <3>2. CASE held'[r] \subseteq held[r]
      <4>1. x \in held[r] /\ Open(r)
        BY <2>1, <2>5, <3>2 DEF Shape
      <4>2. SameRequest(r)
        BY <1>2, <4>1 DEF Acts, Fails, Advances, Answers, SetsBase, Numbers, Stores, Holds,
                          Commits, Saves, Arrives, Begins, Ends, Leaves, Goes, Open
      <4> QED
        BY <4>1, <4>2 DEF OwnStored, SameRequest
    <3> QED
      BY <2>1, <3>1, <3>2
  <2>6. \A q \in Requests : Open(q)' => \A x \in Stored(q)' :
           req'[q].pc = "save" /\ x.m = req'[q].m /\ x.key = req'[q].key
    BY <2>1, <2>2, <2>3 DEF Alone, OwnStored, Open
  <2>7. \A q \in Requests : req'[q].bulk /\ Open(q)' => req'[q].items \in Bulks
    BY <2>1, <2>4 DEF Alone, OwnStored, Open
  <2>8. \A q \in Requests : \A x \in held'[q] : x.m = req'[q].m
    BY <2>1, <2>5 DEF Alone, OwnStored
  <2> QED
    BY <2>6, <2>7, <2>8 DEF OwnStored
<1> QED
  BY <1>1, <1>2, StepEffect

\* What the refinement mapping makes of a row, a request and the tables.
Seen(x) == [id |-> x.id, m |-> x.m, key |-> x.key, amount |-> x.amount]
Told(r) ==
    IF req[r].pc = "done"
    THEN {[m |-> req[r].m, key |-> req[r].key, ids |-> req[r].answer]} ELSE {}
SeenRows == {Seen(x) : x \in rows}
ToldAll == [r \in Requests |-> Told(r)]

LEMMA ToldStep ==
    ASSUME NEW r \in Requests, Alone(r)
    PROVE  ToldAll' = [ToldAll EXCEPT ![r] = Told(r)']
<1>1. \A q \in Requests \ {r} : Told(q)' = Told(q)
  BY DEF Alone, Told
<1>2. ToldAll' = [q \in Requests |-> IF q = r THEN Told(r)' ELSE Told(q)]
  BY <1>1 DEF ToldAll
<1>3. [ToldAll EXCEPT ![r] = Told(r)'] = [q \in Requests |-> IF q = r THEN Told(r)' ELSE Told(q)]
  BY DEF ToldAll
<1> QED
  BY <1>2, <1>3

LEMMA NothingSeen ==
    ASSUME NEW r \in Requests, Stored(r) = {}
    PROVE  Creation!MadeNothing(r)
  BY DEF Creation!MadeNothing, Stored

LEMMA SeenStep ==
    /\ rows' = rows => SeenRows' = SeenRows
    /\ \A xs : rows' = rows \union xs => SeenRows' = SeenRows \union {Seen(x) : x \in xs}
  BY DEF SeenRows, Seen

\* What the end of a request that created its invoices is to its caller.
LEMMA LeavesReplies ==
    ASSUME NEW r \in Requests, NEW m \in Merchants, NEW key, NEW ids, Open(r),
           Leaves(r, ids), req[r].m = m, req[r].key = key
    PROVE  Creation!ReplyOrNot(r, m, key, ids)
<1>1. Told(r) = {} /\ ToldAll[r] = {} /\ ToldAll' = [ToldAll EXCEPT ![r] = Told(r)']
  BY ToldStep DEF Leaves, Ends, Open, Told, ToldAll
<1>2. CASE req'[r].pc = "done"
  <2>1. Told(r)' = {[m |-> m, key |-> key, ids |-> ids]}
    BY <1>2 DEF Leaves, Ends, SameRequest, Told
  <2>2. Creation!Reply(r, m, key, ids)
    BY <1>1, <2>1 DEF Creation!Reply, ToldAll, Told
  <2> QED
    BY <2>2 DEF Creation!ReplyOrNot
<1>3. CASE req'[r].pc = "unheard"
  <2>1. Told(r)' = {}
    BY <1>3 DEF Told
  <2>2. ToldAll' = ToldAll
    BY <1>1, <2>1 DEF ToldAll
  <2> QED
    BY <1>1, <2>2 DEF Creation!ReplyOrNot, ToldAll, Told
<1> QED
  BY <1>2, <1>3 DEF Leaves, Ends

\* A single invoice is stored: CreateOne, or CreateUnderKey.
LEMMA StoresCreates ==
    ASSUME InvoicingShape, OwnStored, RequestsTyped', NEW r \in Requests, Stores(r)
    PROVE  Creation!CreationNext
<1>1. /\ req[r].pc = "insert" /\ ~req[r].bulk /\ Open(r) /\ Shape(r) /\ Alone(r) /\ SameRequest(r)
      /\ req[r] \in RequestStates /\ req'[r] \in RequestStates
  BY DEF Stores, Open, Ends, Leaves, Goes, InvoicingShape, InvoicingTypes, RequestsTyped
<1>2. PICK m \in Merchants, key \in Keys \union {NoKey}, a \in Amounts :
         m = req[r].m /\ key = req[r].key /\ a = Amount(r)
  <2>1. req[r].m \in Merchants /\ req[r].key \in Keys \union {NoKey}
    BY <1>1 DEF RequestStates
  <2> QED
    BY <1>1, <2>1, RowTyped
<1>3. /\ Row(r).id = <<r, 1>> /\ Row(r).m = m /\ Row(r).key = key /\ Row(r).amount = a
  <2>1. req[r].i \in 1..Len(req[r].items) /\ Len(req[r].items) = 1
    BY <1>1 DEF Shape
  <2>2. req[r].i = 1
    BY <2>1
  <2> QED
    BY <1>1, <1>2, <2>2, RowTyped
<1>4. Creation!MadeNothing(r)
  <2>1. Stored(r) = {}
    BY <1>1 DEF OwnStored
  <2> QED
    BY <2>1, NothingSeen
<1>5. SeenRows' = SeenRows \union {[id |-> <<r, 1>>, m |-> m, key |-> key, amount |-> a]}
  <2>1. SeenRows' = SeenRows \union {Seen(x) : x \in {Row(r)}}
    BY SeenStep DEF Stores
  <2>2. Seen(Row(r)) = [id |-> <<r, 1>>, m |-> m, key |-> key, amount |-> a]
    BY <1>3 DEF Seen
  <2> QED
    BY <2>1, <2>2
<1>6. Told(r) = {} /\ ToldAll[r] = {} /\ ToldAll' = [ToldAll EXCEPT ![r] = Told(r)']
  BY <1>1, ToldStep DEF Told, ToldAll
<1>7. CASE key = NoKey
  <2>1. Leaves(r, {<<r, 1>>})
    BY <1>2, <1>3, <1>7 DEF Stores
  <2>2. Creation!ReplyOrNot(r, m, NoKey, {<<r, 1>>})
    BY <1>1, <1>2, <1>7, <2>1, LeavesReplies
  <2>3. Creation!CreateOne(r, m, a)
    BY <1>4, <1>5, <1>7, <2>2 DEF Creation!CreateOne, Creation!Invoice, SeenRows, Seen
  <2> QED
    BY <2>3 DEF Creation!CreationNext
<1>8. CASE key # NoKey
  <2>1. Told(r)' = {}
    BY <1>2, <1>8 DEF Stores, Goes, Told
  <2>2. ToldAll' = ToldAll
    BY <1>6, <2>1 DEF ToldAll
  <2>3. \A x \in SeenRows : ~(x.m = m /\ x.key = key)
    BY <1>3, <1>8 DEF Stores, Refused, SeenRows, Seen
  <2>4. Creation!CreateUnderKey(r, m, key, a)
    BY <1>4, <1>5, <1>6, <2>2, <2>3
       DEF Creation!CreateUnderKey, Creation!Invoice, SeenRows, Seen, ToldAll, Told
  <2> QED
    BY <1>8, <2>4 DEF Creation!CreationNext
<1> QED
  BY <1>7, <1>8

\* The invoices of a bulk, place by place.
BulkOf(xs, r, m) == \A x \in xs : x.id[1] = r /\ x.m = m /\ x.key = NoKey

LEMMA PositionsSeen ==
    ASSUME NEW xs \in SUBSET InvoiceRows, NEW r, NEW m, NEW items, NEW n \in Nat,
           Positions(xs, n, items), BulkOf(xs, r, m)
    PROVE  LET As(x, j) == Seen(x) = Creation!Invoice(r, j, m, NoKey, items[j]) /\ x.id = <<r, j>>
           IN (\A x \in xs : \E j \in 1..n : As(x, j)) /\ (\A j \in 1..n : \E x \in xs : As(x, j))
<1>1. \A x \in xs : /\ x.id = <<r, x.id[2]>> /\ x.id[2] \in 1..n
                    /\ Seen(x) = Creation!Invoice(r, x.id[2], m, NoKey, items[x.id[2]])
  <2>1. ASSUME NEW x \in xs PROVE x.id = <<r, x.id[2]>>
    <3>1. x.id \in Requests \X (Nat \ {0}) /\ x.id[1] = r
      BY DEF InvoiceRows, Ids, BulkOf
    <3> QED
      BY <3>1
  <2>2. ASSUME NEW x \in xs
        PROVE  x.id[2] \in 1..n /\ x.amount = items[x.id[2]] /\ x.m = m /\ x.key = NoKey
    BY DEF Positions, BulkOf
  <2> QED
    BY <2>1, <2>2 DEF Seen, Creation!Invoice
<1>2. \A j \in 1..n : \E x \in xs : x.id[2] = j
  BY DEF Positions
<1> QED
  BY <1>1, <1>2

\* A bulk commits: CreateBulk.
LEMMA CommitsCreates ==
    ASSUME InvoicingShape, BulksClean, KeysAgree, OwnStored, RequestsTyped',
           NEW r \in Requests, Commits(r)
    PROVE  Creation!CreationNext
<1>1. /\ req[r].pc = "commit" /\ req[r].bulk /\ req[r].key = NoKey /\ Open(r) /\ Alone(r) /\ SameRequest(r)
      /\ req[r].m \in Merchants /\ held[r] \in SUBSET InvoiceRows /\ req[r].items \in Seq(Amounts)
  BY DEF Commits, Ends, Leaves, Open, InvoicingShape, InvoicingTypes, Shape, RequestStates
<1>2. PICK m \in Merchants, items \in Bulks, xs \in SUBSET InvoiceRows, n \in Nat :
         m = req[r].m /\ items = req[r].items /\ xs = held[r] /\ n = Len(items)
  <2>1. req[r].items \in Bulks /\ Len(req[r].items) \in Nat
    BY <1>1 DEF OwnStored
  <2> QED
    BY <1>1, <2>1
<1>3. Positions(xs, n, items) /\ BulkOf(xs, r, m)
  <2>1. Positions(held[r], Len(req[r].items), req[r].items)
    BY <1>1 DEF BulksClean, Inserted
  <2>2. BulkOf(held[r], r, req[r].m)
    BY DEF BulksClean, OwnStored, KeysAgree, BulkOf
  <2> QED
    BY <1>2, <2>1, <2>2
<1>4. /\ {Seen(x) : x \in xs} = {Creation!Invoice(r, j, m, NoKey, items[j]) : j \in 1..n}
      /\ {x.id : x \in xs} = {<<r, j>> : j \in 1..n}
  <2>1. \A x \in xs : \E j \in 1..n :
           Seen(x) = Creation!Invoice(r, j, m, NoKey, items[j]) /\ x.id = <<r, j>>
    BY <1>3, PositionsSeen
  <2>2. \A j \in 1..n : \E x \in xs :
           Seen(x) = Creation!Invoice(r, j, m, NoKey, items[j]) /\ x.id = <<r, j>>
    BY <1>3, PositionsSeen
  <2> QED
    BY <2>1, <2>2
<1>5. Creation!MadeNothing(r)
  <2>1. Stored(r) = {}
    BY <1>1 DEF BulksClean, Committed
  <2> QED
    BY <2>1, NothingSeen
<1>6. SeenRows' = SeenRows \union {Creation!Invoice(r, j, m, NoKey, items[j]) : j \in 1..n}
  <2>1. rows' = rows \union xs
    BY <1>2 DEF Commits
  <2>2. SeenRows' = SeenRows \union {Seen(x) : x \in xs}
    BY <2>1, SeenStep
  <2> QED
    BY <1>4, <2>2
<1>7. Leaves(r, {<<r, j>> : j \in 1..n})
  <2>1. Leaves(r, {x.id : x \in xs})
    BY <1>2 DEF Commits
  <2> QED
    BY <1>4, <2>1
<1>8. Creation!ReplyOrNot(r, m, NoKey, {<<r, j>> : j \in 1..n})
  BY <1>1, <1>2, <1>7, LeavesReplies
<1>9. Creation!CreateBulk(r, m, items)
  BY <1>2, <1>5, <1>6, <1>8 DEF Creation!CreateBulk, SeenRows, Seen
<1> QED
  BY <1>9 DEF Creation!CreationNext

\* An answer is given for a key: AnswerForKey.
LEMMA AnswersForKey ==
    ASSUME InvoicingShape, BulksClean, KeysAgree, KeysAgree', OwnStored, RequestsTyped',
           NEW r \in Requests, Answers(r) \/ Saves(r) \/ Arrives(r), req'[r].pc = "done"
    PROVE  Creation!CreationNext
<1>1. /\ Alone(r) /\ rows' = rows /\ req[r].pc \in {"existing", "save", "idle"}
      /\ req[r].pc = "idle" \/ SameRequest(r)
  BY DEF Answers, Saves, Arrives, Ends, Leaves, RequestKept, tables
<1>2. PICK m \in Merchants, key \in Keys : m = req'[r].m /\ key = req'[r].key
  <2>1. req'[r].key # NoKey
    BY <1>1 DEF Answers, Saves, Arrives, SameRequest, InvoicingShape, Shape
  <2> QED
    BY <2>1 DEF RequestsTyped, RequestStates
<1>3. PICK x \in rows : x.m = m /\ x.key = key /\ req'[r].answer = {x.id}
  <2>1. key # NoKey
    BY <1>2, InvoicingAssumption
  <2> QED
    BY <1>1, <1>2, <2>1 DEF KeysAgree, KeyHolders
<1>4. \A y \in rows : y.id[1] = r => y.m = m /\ y.key = key
  <2>1. CASE req[r].pc = "idle"
    BY <2>1 DEF BulksClean, Stored
  <2>2. CASE req[r].pc # "idle"
    BY <1>1, <1>2, <2>2 DEF OwnStored, Open, Stored, SameRequest
  <2> QED
    BY <2>1, <2>2
<1>5. Told(r)' = {[m |-> m, key |-> key, ids |-> {x.id}]}
  BY <1>2, <1>3 DEF Told
<1>6. Told(r) = {} /\ ToldAll[r] = {} /\ ToldAll' = [ToldAll EXCEPT ![r] = Told(r)']
  BY <1>1, ToldStep DEF Told, ToldAll
<1>7. Creation!Reply(r, m, key, {x.id})
  BY <1>5, <1>6 DEF Creation!Reply, ToldAll, Told
<1>8. Creation!AnswerForKey(r, m, key)
  <2>1. \A y \in SeenRows : y.id[1] = r => y.m = m /\ y.key = key
    BY <1>4 DEF SeenRows, Seen
  <2>2. Seen(x) \in SeenRows /\ Seen(x).m = m /\ Seen(x).key = key /\ Seen(x).id = x.id
    BY <1>3 DEF SeenRows, Seen
  <2>3. SeenRows' = SeenRows
    BY <1>1, SeenStep
  <2> QED
    BY <1>7, <2>1, <2>2, <2>3 DEF Creation!AnswerForKey, SeenRows, Seen
<1> QED
  BY <1>8 DEF Creation!CreationNext

LEMMA CreationStep ==
    ASSUME InvoicingShape, BulksClean, KeysAgree, KeysAgree', OwnStored,
           [InvoicingNext]_invoicingVars
    PROVE  [Creation!CreationNext]_Creation!creationVars
<1>1. ASSUME SeenRows' = SeenRows, ToldAll' = ToldAll PROVE UNCHANGED Creation!creationVars
  BY <1>1 DEF Creation!creationVars, SeenRows, Seen, ToldAll, Told
<1>2. CASE Around
  <2>1. rows' = rows /\ req' = req
    BY <1>2, AroundKeeps
  <2>2. SeenRows' = SeenRows
    BY <2>1, SeenStep
  <2>3. ToldAll' = ToldAll
    BY <2>1 DEF ToldAll, Told
  <2> QED
    BY <1>1, <2>2, <2>3
<1>3. ASSUME RequestsTyped', NEW r \in Requests, Acts(r)
      PROVE  Creation!CreationNext \/ UNCHANGED Creation!creationVars
  <2>1. CASE Stores(r)
    BY <1>3, <2>1, StoresCreates
  <2>2. CASE Commits(r)
    BY <1>3, <2>2, CommitsCreates
  <2>3. CASE (Answers(r) \/ Saves(r) \/ Arrives(r)) /\ req'[r].pc = "done"
    BY <1>3, <2>3, AnswersForKey
  <2>4. CASE \/ Fails(r) \/ Advances(r) \/ SetsBase(r) \/ Numbers(r) \/ Holds(r) \/ Begins(r)
             \/ (Arrives(r) \/ Saves(r)) /\ req'[r].pc # "done"
    <3>1. rows' = rows /\ req[r].pc # "done" /\ req'[r].pc # "done" /\ Alone(r)
      BY <2>4 DEF Fails, Advances, SetsBase, Numbers, Holds, Begins, Arrives, Saves, Goes, Ends,
                  Leaves, RequestKept, tables, Open
    <3>2. SeenRows' = SeenRows
      BY <3>1, SeenStep
    <3>3. \A q \in Requests : Told(q)' = Told(q)
      BY <3>1 DEF Told, Alone
    <3>4. ToldAll' = ToldAll
      BY <3>3 DEF ToldAll
    <3> QED
      BY <1>1, <3>2, <3>4
  <2> QED
    BY <1>3, <2>1, <2>2, <2>3, <2>4 DEF Acts, Answers, Saves, Ends, Leaves
<1> QED
  BY <1>2, <1>3, StepEffect

\* Whatever the requests, their bulks and keys, however their queries
\* interleave and wherever they fail, callers see creations that happen in one
\* step or not at all, one for each key, and answers that name them
\* (invoices.service.ts create, createBulk; idempotency.service.ts).
THEOREM ImplementsCreation == InvoicingSpec => CreationSpec
<1> DEFINE Inv == InvoicingShape /\ BulksClean /\ KeysAgree /\ OwnStored
<1>1. InvoicingInit => Creation!CreationInit
  <2> SUFFICES ASSUME InvoicingInit PROVE Creation!CreationInit
    OBVIOUS
  <2>1. rows = {} /\ \A r \in Requests : req[r].pc = "idle"
    BY DEF InvoicingInit, Idle
  <2>2. ToldAll = [r \in Requests |-> {}]
    BY <2>1 DEF ToldAll, Told
  <2> QED
    BY <2>1, <2>2 DEF Creation!CreationInit, ToldAll, Told
<1>2. InvoicingInit => InvoicingShape /\ OwnStored
  <2> SUFFICES ASSUME InvoicingInit PROVE OwnStored
    BY ShapeInit
  <2>1. \A r \in Requests : req[r].pc = "idle" /\ held[r] = {}
    BY DEF InvoicingInit, Idle
  <2> QED
    BY <2>1 DEF OwnStored, Open
<1>3. Inv /\ [InvoicingNext]_invoicingVars => Inv'
  BY ShapeStep, BulksStep, KeysStep, OwnStep
<1>4. Inv /\ [InvoicingNext]_invoicingVars => [Creation!CreationNext]_Creation!creationVars
  BY KeysStep, CreationStep
<1> HIDE DEF Inv
<1>5. InvoicingInit => Inv
  BY <1>2, BulksInit, KeysInit DEF Inv
<1>6. InvoicingSpec => []Inv
  BY <1>3, <1>5, PTL DEF InvoicingSpec
<1> QED
  BY <1>1, <1>4, <1>6, PTL DEF InvoicingSpec, CreationSpec, Creation!CreationSpec

-----------------------------------------------------------------------------
(* The spend limits: sums of gross amounts.                                *)

\* A merchant with a limit whose requests have not met: each that is past a
\* check of a period has the room it asked for, each row a bulk holds has the
\* room it was given, and no other request is past its first check.
Capped(m) == m \in Merchants \ raced /\ \E p \in Periods : limit[m][p] # NoLimit
Cleared(r) ==
    \/ req[r].pc \in {"base", "setbase", "seq", "insert", "commit"}
    \/ req[r].pc = "month" /\ limit[req[r].m]["day"] # NoLimit
    \/ held[r] # {}
Passed(r, p) ==
    \/ req[r].pc \in {"base", "setbase", "seq", "insert", "commit"}
    \/ req[r].pc = "month" /\ p = "day"

HeldRoom(r) ==
    \A x \in held[r], p \in Periods : limit[req[r].m][p] # NoLimit =>
        Spent(req[r].m, p) + x.amount <= limit[req[r].m][p]

OpenCapped(r) == Open(r) /\ Capped(req[r].m)

HasRoom(r) ==
    OpenCapped(r) =>
        /\ req[r].pc \notin {"existing", "merchant", "save"} => req[r].lim = limit[req[r].m]
        /\ req[r].pc \in Periods => limit[req[r].m][req[r].pc] # NoLimit
        /\ \A p \in Periods : Passed(r, p) /\ limit[req[r].m][p] # NoLimit =>
              Spent(req[r].m, p) + Amount(r) <= limit[req[r].m][p]
        /\ HeldRoom(r)

Apart(r, q) == OpenCapped(r) /\ Open(q) /\ req[q].m = req[r].m => ~(Cleared(r) /\ Cleared(q))

LimitsKept ==
    /\ \A x \in rows : x.day <= today
    /\ \A r \in Requests : \A x \in held[r] : x.m = req[r].m /\ x.day <= today
    /\ \A r \in Requests : req[r].bulk /\ Open(r) => req[r].began <= today
    /\ \A r \in Requests : HasRoom(r) /\ \A q \in Requests \ {r} : Apart(r, q)

GrossOf(S) == MapThenSumSet(Gross, S)
CountedRows(m, p) == {x \in rows : /\ x.m = m /\ x.id \notin cancelled
                                   /\ p = "day" => x.day = today}

LEMMA GrossSums ==
    ASSUME NEW S, IsFiniteSet(S), NEW w, w = [x \in S |-> x.gross]
    PROVE  \E g : Sums(g, w, S) /\ GrossOf(S) = g[S]
<1> DEFINE Def(g) == g = [s \in SUBSET S |-> IF s = {} THEN 0
                                             ELSE AnyOf(s).gross + g[s \ {AnyOf(s)}]]
<1>1. ASSUME NEW g PROVE Def(g) <=> Sums(g, w, S)
  <2>1. \A s \in SUBSET S : (IF s = {} THEN 0 ELSE AnyOf(s).gross + g[s \ {AnyOf(s)}])
                                = (IF s = {} THEN 0 ELSE w[AnyOf(s)] + g[s \ {AnyOf(s)}])
    BY AnyOfIn
  <2> QED
    BY <2>1 DEF Sums
<1>2. GrossOf(S) = (CHOOSE g : Def(g))[S]
  BY DEF GrossOf, Gross, MapThenSumSet, MapThenFoldSet, AnyOf
<1>3. Def(CHOOSE g : Def(g))
  <2>1. \E g : Def(g)
    BY <1>1, SumsExist
  <2> HIDE DEF Def
  <2> QED
    BY <2>1
<1> QED
  BY <1>1, <1>2, <1>3

\* Rows that are a part of others.
LEMMA GrossGrows ==
    ASSUME NEW S \in SUBSET InvoiceRows, IsFiniteSet(S), NEW T \in SUBSET S
    PROVE  GrossOf(T) \in Int /\ GrossOf(S) \in Int /\ GrossOf(T) <= GrossOf(S)
<1>0. PICK v, w : v = [x \in T |-> x.gross] /\ w = [x \in S |-> x.gross]
  OBVIOUS
<1>1. IsFiniteSet(T)
  BY FS_Subset
<1>2. PICK g : Sums(g, v, T) /\ GrossOf(T) = g[T]
  BY <1>0, <1>1, GrossSums
<1>3. PICK h : Sums(h, w, S) /\ GrossOf(S) = h[S]
  BY <1>0, GrossSums
<1>4. w \in [S -> Nat] /\ \A x \in T : w[x] = v[x]
  BY <1>0 DEF InvoiceRows
<1>5. g[T] \in Int /\ h[S] \in Int /\ g[T] <= h[S]
  BY <1>2, <1>3, <1>4, SumsPart
<1> QED
  BY <1>2, <1>3, <1>5

LEMMA SpentIs ==
    ASSUME InvoicingShape, NEW m \in Merchants, NEW p \in Periods
    PROVE  /\ Spent(m, p) = GrossOf(CountedRows(m, p)) /\ Spent(m, p) \in Int
           /\ IsFiniteSet(CountedRows(m, p)) /\ CountedRows(m, p) \in SUBSET InvoiceRows
<1>1. Spent(m, p) = GrossOf(CountedRows(m, p))
  BY DEF Spent, GrossOf, CountedRows
<1>2. CountedRows(m, p) \in SUBSET rows
  BY DEF CountedRows
<1>3. IsFiniteSet(CountedRows(m, p)) /\ CountedRows(m, p) \in SUBSET InvoiceRows
  BY <1>2, FS_Subset DEF InvoicingShape, InvoicingTypes
<1> QED
  BY <1>1, <1>3, GrossGrows

\* What is spent of a limit when no row is stored, or one at most of the merchant.
LEMMA SpentKept ==
    ASSUME NEW m \in Merchants, NEW p \in Periods, rows' = rows, cancelled' = cancelled, today' = today
    PROVE  Spent(m, p)' = Spent(m, p)
  BY DEF Spent

\* The limits and the sums of the other requests, when one of them acts.
LEMMA ActsLimits ==
    ASSUME InvoicingShape, RequestsTyped', NEW r \in Requests, Acts(r)
    PROVE  UNCHANGED <<limit, today, cancelled>> /\ raced \subseteq raced'
<1>1. UNCHANGED <<limit, today, cancelled>>
  BY ActsFrame
<1>2. raced \subseteq raced'
  BY DEF Acts, Fails, Advances, Answers, SetsBase, Numbers, Stores, Holds, Commits, Saves,
         Arrives, Begins, RequestKept
<1> QED
  BY <1>1, <1>2

LEMMA OthersKeepRoom ==
    ASSUME InvoicingShape, LimitsKept, RequestsTyped', NEW r \in Requests, Acts(r),
           NEW q \in Requests \ {r}
    PROVE  HasRoom(q)'
<1> SUFFICES ASSUME OpenCapped(q)' PROVE HasRoom(q)'
  BY DEF HasRoom
<1>1. /\ req'[q] = req[q] /\ held'[q] = held[q] /\ limit' = limit /\ today' = today
      /\ cancelled' = cancelled /\ raced \subseteq raced'
      /\ (rows' = rows \/ Stores(r) \/ Commits(r))
  BY ActsFrame, ActsLimits DEF Alone
<1>2. OpenCapped(q) /\ req[q].m \in Merchants
  BY <1>1 DEF OpenCapped, Open, Capped, InvoicingShape, InvoicingTypes, RequestStates
<1>3. HasRoom(q) /\ Apart(q, r)
  BY DEF LimitsKept
<1>4. \A p \in Periods : (Passed(q, p) /\ limit[req[q].m][p] # NoLimit) \/ held[q] # {} =>
         Spent(req[q].m, p)' = Spent(req[q].m, p)
  <2>1. CASE rows' = rows
    BY <1>1, <1>2, <2>1, SpentKept
  <2>2. CASE (Stores(r) \/ Commits(r)) /\ req[r].m # req[q].m
    <3>1. \A x \in rows' \ rows : x.m = req[r].m
      <4>1. CASE Stores(r)
        <5>1. Open(r) /\ rows' = rows \union {Row(r)}
          BY <4>1 DEF Stores, Open
        <5>2. Row(r).m = req[r].m
          BY <5>1, RowTyped
        <5> QED
          BY <5>1, <5>2
      <4>2. CASE Commits(r)
        BY <4>2 DEF Commits, LimitsKept
      <4> QED
        BY <2>2, <4>1, <4>2
    <3>2. rows \subseteq rows'
      BY <2>2 DEF Stores, Commits
    <3>3. ASSUME NEW p \in Periods PROVE Spent(req[q].m, p)' = Spent(req[q].m, p)
      <4>1. PICK m \in Merchants : m = req[q].m
        BY <1>2
      <4>2. {x \in rows' : x.m = m /\ x.id \notin cancelled' /\ (p = "day" => x.day = today')}
              = {x \in rows : x.m = m /\ x.id \notin cancelled /\ (p = "day" => x.day = today)}
        BY <1>1, <2>2, <3>1, <3>2, <4>1
      <4> QED
        BY <1>1, <4>1, <4>2 DEF Spent
    <3> QED
      BY <3>3
  <2>3. CASE (Stores(r) \/ Commits(r)) /\ req[r].m = req[q].m
    <3>1. Open(r) /\ Cleared(r)
      BY <2>3 DEF Stores, Commits, Open, Cleared
    <3>2. ~Cleared(q)
      BY <1>2, <1>3, <2>3, <3>1 DEF Apart
    <3> QED
      BY <3>2 DEF Cleared, Passed
  <2> QED
    BY <1>1, <2>1, <2>2, <2>3
<1>5. /\ req[q].pc \notin {"existing", "merchant", "save"} => req[q].lim = limit[req[q].m]
      /\ req[q].pc \in Periods => limit[req[q].m][req[q].pc] # NoLimit
      /\ \A p \in Periods : Passed(q, p) /\ limit[req[q].m][p] # NoLimit =>
              Spent(req[q].m, p) + Amount(q) <= limit[req[q].m][p]
      /\ HeldRoom(q)
  BY <1>2, <1>3 DEF HasRoom
<1>6. HeldRoom(q)'
  BY <1>1, <1>4, <1>5 DEF HeldRoom
<1> QED
  BY <1>1, <1>4, <1>5, <1>6 DEF HasRoom, Passed, Amount

\* A request comes past its first check of a limit alone.
Entered(r) ==
    OpenCapped(r)' /\ Cleared(r)' =>
        \/ Open(r) /\ Cleared(r) /\ req'[r].m = req[r].m
        \/ \A q \in Requests \ {r} : ~(Open(q) /\ req[q].m = req'[r].m)

LEMMA NotInside ==
    ASSUME NEW r \in Requests,
           req'[r].pc \in {"idle", "existing", "merchant", "save", "done", "unheard", "overlimit",
                          "failed"},
           held'[r] = {}
    PROVE  HasRoom(r)' /\ Entered(r)
<1>1. ~Cleared(r)' /\ \A p \in Periods : ~Passed(r, p)'
  BY DEF Cleared, Passed
<1>2. ~Open(r)' \/ req'[r].pc \in {"existing", "merchant", "save"}
  BY DEF Open
<1>3. req'[r].pc \notin Periods /\ HeldRoom(r)'
  BY DEF Periods, HeldRoom
<1> QED
  BY <1>1, <1>2, <1>3 DEF HasRoom, Entered, OpenCapped

LEMMA AdvancesRoom ==
    ASSUME InvoicingShape, LimitsKept, RequestsTyped', NEW r \in Requests, Advances(r)
    PROVE  HasRoom(r)' /\ Entered(r)
<1> DEFINE m == req[r].m
<1>1. /\ req'[r].m = m /\ m \in Merchants /\ held'[r] = held[r] /\ Open(r) /\ Open(r)'
      /\ req'[r].items = req[r].items /\ req'[r].i = req[r].i
      /\ limit' = limit /\ raced \subseteq raced' /\ rows' = rows /\ cancelled' = cancelled
      /\ today' = today /\ Onward(r)
      /\ req[r].pc # "merchant" => req'[r].lim = req[r].lim
      /\ req[r].pc \in {"existing", "merchant", "day", "month", "base"}
  BY DEF Advances, Goes, SameRequest, RequestKept, tables, Open, InvoicingShape, InvoicingTypes, RequestStates
<1>2. Amount(r)' = Amount(r) /\ \A p \in Periods : Spent(req[r].m, p)' = Spent(m, p)
  BY <1>1 DEF Amount, Spent
<1>3. CASE req[r].pc = "existing"
  <2>1. held[r] = {}
    BY <1>3 DEF InvoicingShape, Shape
  <2> QED
    BY <1>1, <1>3, <2>1, NotInside DEF Onward
<1> HIDE DEF m
<1>7. OpenCapped(r)' => OpenCapped(r) /\ HasRoom(r) /\ HeldRoom(r)'
  <2>1. OpenCapped(r)' => OpenCapped(r)
    BY <1>1 DEF OpenCapped, Capped, m
  <2>2. HasRoom(r)
    BY DEF LimitsKept
  <2>3. OpenCapped(r) => HeldRoom(r)
    BY <2>2 DEF HasRoom
  <2> QED
    BY <1>1, <1>2, <2>1, <2>2, <2>3 DEF HeldRoom, m
<1>4. CASE req[r].pc = "merchant"
  <2>1. req'[r].lim = limit[m] /\ req'[r].pc = NextCheck(limit[m], "merchant")
    BY <1>1, <1>4 DEF Onward, m
  <2>2. /\ limit[m]["day"] # NoLimit => req'[r].pc = "day"
        /\ limit[m]["day"] = NoLimit /\ limit[m]["month"] # NoLimit => req'[r].pc = "month"
        /\ limit[m]["day"] = NoLimit /\ limit[m]["month"] = NoLimit => req'[r].pc = "base"
    BY <2>1 DEF NextCheck
  <2>3. ASSUME OpenCapped(r)'
        PROVE  /\ Cleared(r)' => held[r] # {}
               /\ \A p \in Periods : Passed(r, p)' => limit[m][p] = NoLimit
               /\ req'[r].pc \in {"day", "month"} /\ limit[m][req'[r].pc] # NoLimit
    <3>1. limit[m]["day"] # NoLimit \/ limit[m]["month"] # NoLimit
      BY <1>1, <2>3 DEF OpenCapped, Capped, Periods
    <3> QED
      BY <1>1, <2>2, <3>1 DEF Cleared, Passed, Periods
  <2>4. Entered(r)
    BY <1>1, <2>3 DEF Entered, Cleared, m
  <2> QED
    BY <1>1, <1>7, <2>1, <2>3, <2>4 DEF HasRoom
<1>5. CASE req[r].pc \in Periods
  <2> DEFINE pc == req[r].pc
  <2>1. /\ req'[r].pc = NextCheck(req[r].lim, pc) /\ req'[r].lim = req[r].lim
        /\ Spent(m, pc) + Amount(r) <= req[r].lim[pc]
        /\ m \notin raced' => ~Beside(r)
    BY <1>1, <1>5 DEF Onward, Periods, m
  <2>2. \/ pc = "day" /\ req'[r].pc = "month" /\ req[r].lim["month"] # NoLimit
        \/ pc = "day" /\ req'[r].pc = "base" /\ req[r].lim["month"] = NoLimit
        \/ pc = "month" /\ req'[r].pc = "base"
    BY <1>5, <2>1 DEF NextCheck, Periods
  <2>3. ASSUME OpenCapped(r)'
        PROVE  /\ OpenCapped(r) /\ req[r].lim = limit[m]
               /\ \A q \in Requests \ {r} : ~(Open(q) /\ req[q].m = m)
    <3>1. OpenCapped(r) /\ m \notin raced'
      BY <1>1, <2>3 DEF OpenCapped, Capped, m
    <3>2. HasRoom(r)
      BY DEF LimitsKept
    <3>3. req[r].lim = limit[m]
      BY <1>5, <3>1, <3>2 DEF HasRoom, Periods, m
    <3> QED
      BY <2>1, <3>1, <3>3 DEF Beside, m
  <2>4. ASSUME OpenCapped(r)', NEW p \in Periods, Passed(r, p)', limit[m][p] # NoLimit
        PROVE  Spent(m, p) + Amount(r) <= limit[m][p]
    <3>1. CASE p = pc
      BY <2>1, <2>3, <2>4, <3>1
    <3>2. CASE p # pc
      <4>1. pc = "month" /\ p = "day"
        BY <2>2, <2>3, <2>4, <3>2 DEF Passed, Periods
      <4>2. HasRoom(r) /\ Passed(r, p)
        BY <4>1 DEF LimitsKept, Passed
      <4> QED
        BY <2>3, <2>4, <4>2 DEF HasRoom, m
    <3> QED
      BY <3>1, <3>2
  <2>5. ASSUME OpenCapped(r)', req'[r].pc \in Periods PROVE limit[m][req'[r].pc] # NoLimit
    BY <2>2, <2>3, <2>5 DEF Periods
  <2>6. Entered(r)
    BY <1>1, <2>3 DEF Entered
  <2> HIDE DEF pc
  <2> QED
    BY <1>1, <1>2, <1>7, <2>1, <2>3, <2>4, <2>5, <2>6 DEF HasRoom
<1>6. CASE req[r].pc = "base"
  <2>1. req'[r].pc \in {"seq", "setbase"} /\ req'[r].lim = req[r].lim
    BY <1>1, <1>6 DEF Onward
  <2>2. OpenCapped(r)' => OpenCapped(r)
    BY <1>1 DEF OpenCapped, Capped, m
  <2>3. Cleared(r) /\ \A p \in Periods : Passed(r, p)
    BY <1>6 DEF Cleared, Passed
  <2>4. HasRoom(r)
    BY DEF LimitsKept
  <2>5. Entered(r)
    BY <1>1, <2>3 DEF Entered, m
  <2>6. OpenCapped(r)' => /\ req[r].lim = limit[m]
                          /\ \A p \in Periods : limit[m][p] # NoLimit =>
                                Spent(m, p) + Amount(r) <= limit[m][p]
    BY <1>6, <2>2, <2>3, <2>4 DEF HasRoom, m
  <2>7. req'[r].pc \notin Periods
    BY <2>1 DEF Periods
  <2> QED
    BY <1>1, <1>2, <1>7, <2>1, <2>5, <2>6, <2>7 DEF HasRoom
<1> QED
  BY <1>1, <1>3, <1>4, <1>5, <1>6 DEF Periods

\* From the bounds to the row that a bulk holds: with what it had.
LEMMA InsideRoom ==
    ASSUME InvoicingShape, LimitsKept, RequestsTyped', NEW r \in Requests,
           SetsBase(r) \/ Numbers(r) \/ Holds(r)
    PROVE  HasRoom(r)' /\ Entered(r)
<1> DEFINE m == req[r].m
<1>1. /\ req'[r].m = m /\ m \in Merchants /\ Open(r) /\ limit' = limit /\ raced' = raced
      /\ rows' = rows /\ cancelled' = cancelled /\ today' = today
      /\ req'[r].items = req[r].items /\ req'[r].lim = req[r].lim
  BY DEF SetsBase, Numbers, Holds, Goes, SameRequest, tables, Open, InvoicingShape, InvoicingTypes,
         RequestStates
<1>2. \A p \in Periods : Spent(req[r].m, p)' = Spent(m, p)
  BY <1>1 DEF Spent
<1>3. OpenCapped(r)' => OpenCapped(r)
  BY <1>1 DEF OpenCapped, Capped
<1>4. Cleared(r) /\ (\A p \in Periods : Passed(r, p)) /\ req[r].pc \in {"setbase", "seq", "insert"}
  BY DEF SetsBase, Numbers, Holds, Cleared, Passed
<1>5. Entered(r)
  BY <1>1, <1>4 DEF Entered
<1>6. OpenCapped(r)' => /\ req[r].lim = limit[m] /\ HeldRoom(r)
                        /\ \A p \in Periods : limit[m][p] # NoLimit =>
                              Spent(m, p) + Amount(r) <= limit[m][p]
  <2>1. HasRoom(r)
    BY DEF LimitsKept
  <2> QED
    BY <1>3, <1>4, <2>1 DEF HasRoom
<1> HIDE DEF m
<1>7. OpenCapped(r)' => HeldRoom(r)'
  <2>1. held'[r] = held[r] \/ (held'[r] = held[r] \union {Row(r)} /\ Row(r).amount = Amount(r))
    BY <1>1, RowTyped DEF SetsBase, Numbers, Holds, Goes
  <2> QED
    BY <1>1, <1>2, <1>6, <2>1 DEF HeldRoom, m
<1>8. req'[r].pc \in {"seq", "insert", "merchant", "commit"}
  BY DEF SetsBase, Numbers, Holds, Goes
<1>9. CASE req'[r].pc # "merchant"
  <2>1. req'[r].i = req[r].i /\ req'[r].pc \notin Periods
    BY <1>8, <1>9 DEF SetsBase, Numbers, Holds, Goes, Periods
  <2>2. Amount(r)' = Amount(r)
    BY <1>1, <2>1 DEF Amount
  <2> QED
    BY <1>1, <1>2, <1>5, <1>6, <1>7, <2>1, <2>2 DEF HasRoom
<1>10. CASE req'[r].pc = "merchant"
  <2>1. \A p \in Periods : ~Passed(r, p)'
    BY <1>10 DEF Passed
  <2>2. req'[r].pc \notin Periods
    BY <1>10 DEF Periods
  <2> QED
    BY <1>5, <1>7, <1>10, <2>1, <2>2 DEF HasRoom
<1> QED
  BY <1>9, <1>10

LEMMA AroundRoom ==
    ASSUME InvoicingShape, LimitsKept, Around
    PROVE  LimitsKept'
<1>1. ASSUME NEW m \in Merchants, NEW period \in Periods, NEW l \in Limits, SetLimit(m, period, l)
      PROVE  LimitsKept'
  <2>1. /\ rows' = rows /\ cancelled' = cancelled /\ today' = today /\ req' = req /\ held' = held
        /\ limit' = [limit EXCEPT ![m][period] = l] /\ raced \subseteq raced'
        /\ (\E r \in Requests : Open(r) /\ req[r].m = m) => m \in raced'
    BY <1>1 DEF SetLimit
  <2>2. ASSUME NEW r \in Requests, OpenCapped(r)'
        PROVE  OpenCapped(r) /\ req[r].m \in Merchants /\ limit'[req[r].m] = limit[req[r].m]
    <3>1. Open(r) /\ req[r].m \in Merchants /\ req[r].m \notin raced'
      BY <2>1, <2>2 DEF OpenCapped, Open, Capped
    <3>2. req[r].m # m
      BY <2>1, <3>1
    <3>3. limit'[req[r].m] = limit[req[r].m]
      BY <2>1, <3>1, <3>2 DEF InvoicingShape, InvoicingTypes
    <3> QED
      BY <2>1, <2>2, <3>1, <3>3 DEF OpenCapped, Capped
  <2>3. ASSUME NEW r \in Requests PROVE HasRoom(r)'
    <3>1. \A p \in Periods : Spent(req[r].m, p)' = Spent(req[r].m, p)
      BY <2>1 DEF Spent
    <3>2. HasRoom(r)
      BY DEF LimitsKept
    <3>3. OpenCapped(r)' => (HeldRoom(r) => HeldRoom(r)')
      BY <2>1, <2>2, <3>1 DEF HeldRoom
    <3> QED
      BY <2>1, <2>2, <3>1, <3>2, <3>3 DEF HasRoom, Passed, Amount
  <2>4. ASSUME NEW r \in Requests, NEW q \in Requests \ {r} PROVE Apart(r, q)'
    <3>1. Apart(r, q)
      BY DEF LimitsKept
    <3> QED
      BY <2>1, <2>2, <3>1 DEF Apart, Cleared, Open
  <2>5. \A r \in Requests : Open(r)' <=> Open(r)
    BY <2>1 DEF Open
  <2> QED
    BY <2>1, <2>3, <2>4, <2>5 DEF LimitsKept
<1>2. ASSUME (\E x \in rows : Cancel(x)) \/ NextDay
      PROVE  LimitsKept'
  <2>1. /\ rows' = rows /\ req' = req /\ held' = held /\ limit' = limit /\ raced' = raced
        /\ \/ cancelled \subseteq cancelled' /\ today' = today
           \/ cancelled' = cancelled /\ today' = today + 1
        /\ today \in Nat
    BY <1>2 DEF Cancel, NextDay, tables, InvoicingShape, InvoicingTypes
  <2>2. ASSUME NEW r \in Requests, NEW p \in Periods
        PROVE  Spent(req[r].m, p)' \in Int /\ Spent(req[r].m, p)' <= Spent(req[r].m, p)
    <3>1. PICK m \in Merchants : m = req[r].m
      BY DEF InvoicingShape, InvoicingTypes, RequestStates
    <3>2. PICK T : T = {x \in rows' : /\ x.m = m /\ x.id \notin cancelled'
                                      /\ p = "day" => x.day = today'}
      OBVIOUS
    <3>3. Spent(req[r].m, p)' = GrossOf(T)
      BY <2>1, <3>1, <3>2 DEF Spent, GrossOf
    <3>4. T \in SUBSET CountedRows(m, p)
      <4>1. \A x \in rows : x.day \in Nat /\ x.day <= today
        BY DEF LimitsKept, InvoicingShape, InvoicingTypes, InvoiceRows
      <4>2. \A x \in rows : x.day = today' => x.day = today
        BY <2>1, <4>1
      <4> QED
        BY <2>1, <3>2, <4>2 DEF CountedRows
    <3>5. /\ Spent(m, p) = GrossOf(CountedRows(m, p)) /\ IsFiniteSet(CountedRows(m, p))
          /\ CountedRows(m, p) \in SUBSET InvoiceRows
      BY SpentIs
    <3>6. GrossOf(T) \in Int /\ GrossOf(T) <= GrossOf(CountedRows(m, p))
      BY <3>4, <3>5, GrossGrows
    <3> QED
      BY <3>1, <3>3, <3>5, <3>6
  <2>3. ASSUME NEW r \in Requests PROVE HasRoom(r)'
    <3>1. HasRoom(r) /\ (OpenCapped(r)' => OpenCapped(r))
      BY <2>1 DEF LimitsKept, OpenCapped, Open, Capped
    <3> SUFFICES ASSUME OpenCapped(r)' PROVE HasRoom(r)'
      BY DEF HasRoom
    <3>2. ASSUME NEW p \in Periods, limit[req[r].m][p] # NoLimit, NEW a \in Nat,
                 Spent(req[r].m, p) + a <= limit[req[r].m][p]
          PROVE  Spent(req[r].m, p)' + a <= limit[req[r].m][p]
      <4>1. req[r].m \in Merchants
        BY DEF InvoicingShape, InvoicingTypes, RequestStates
      <4>2. limit[req[r].m][p] \in Nat
        <5>1. limit[req[r].m] \in [Periods -> Limits \union {NoLimit}]
          BY <4>1 DEF InvoicingShape, InvoicingTypes
        <5>2. limit[req[r].m][p] \in Limits
          BY <3>2, <5>1
        <5> QED
          BY <5>2, InvoicingAssumption
      <4>3. Spent(req[r].m, p) \in Int
        BY <4>1, SpentIs
      <4>4. Spent(req[r].m, p)' \in Int /\ Spent(req[r].m, p)' <= Spent(req[r].m, p)
        BY <2>2
      <4> QED
        BY <3>2, <4>2, <4>3, <4>4
    <3>3. ASSUME NEW p \in Periods, Passed(r, p), limit[req[r].m][p] # NoLimit
          PROVE  Spent(req[r].m, p)' + Amount(r) <= limit[req[r].m][p]
      <4>1. Spent(req[r].m, p) + Amount(r) <= limit[req[r].m][p]
        BY <3>1, <3>3 DEF HasRoom
      <4>2. Amount(r) \in Nat
        BY <3>1, RowTyped DEF OpenCapped
      <4> QED
        BY <3>2, <3>3, <4>1, <4>2
    <3>4. HeldRoom(r)'
      <4>1. ASSUME NEW x \in held[r], NEW p \in Periods, limit[req[r].m][p] # NoLimit
            PROVE  Spent(req[r].m, p)' + x.amount <= limit[req[r].m][p]
        <5>1. Spent(req[r].m, p) + x.amount <= limit[req[r].m][p]
          BY <3>1, <4>1 DEF HasRoom, HeldRoom
        <5>2. x.amount \in Nat
          BY DEF InvoicingShape, InvoicingTypes, InvoiceRows
        <5> QED
          BY <3>2, <4>1, <5>1, <5>2
      <4> QED
        BY <2>1, <4>1 DEF HeldRoom
    <3> QED
      BY <2>1, <3>1, <3>3, <3>4 DEF HasRoom, Passed, Amount
  <2>4. ASSUME NEW r \in Requests, NEW q \in Requests \ {r} PROVE Apart(r, q)'
    <3>1. Apart(r, q)
      BY DEF LimitsKept
    <3> QED
      BY <2>1, <3>1 DEF Apart, OpenCapped, Capped, Cleared, Open
  <2>5. /\ \A x \in rows' : x.day <= today'
        /\ \A r \in Requests : \A x \in held'[r] : x.m = req'[r].m /\ x.day <= today'
        /\ \A r \in Requests : req'[r].bulk /\ Open(r)' => req'[r].began <= today'
    <3>0. \A r \in Requests : req[r].began \in Nat /\ (Open(r)' <=> Open(r))
      BY <2>1 DEF InvoicingShape, InvoicingTypes, RequestStates, Open
    <3>1. \A r \in Requests : \A x \in rows \union held[r] : x.day \in Nat
      BY DEF InvoicingShape, InvoicingTypes, InvoiceRows
    <3>2. \A x \in rows : x.day \in Nat
      BY DEF InvoicingShape, InvoicingTypes, InvoiceRows
    <3> QED
      BY <2>1, <3>0, <3>1, <3>2 DEF LimitsKept
  <2> QED
    BY <2>3, <2>4, <2>5 DEF LimitsKept
<1>3. ASSUME UNCHANGED invoicingVars PROVE LimitsKept'
  <2>1. /\ rows' = rows /\ req' = req /\ held' = held /\ limit' = limit /\ raced' = raced
        /\ cancelled' = cancelled /\ today' = today
    BY <1>3 DEF invoicingVars
  <2>2. \A r \in Requests, p \in Periods : Spent(req[r].m, p)' = Spent(req[r].m, p)
    BY <2>1 DEF Spent
  <2> QED
    BY <2>1, <2>2 DEF LimitsKept, HasRoom, HeldRoom, Apart, OpenCapped, Capped, Cleared, Passed, Amount, Open
<1> QED
  BY <1>1, <1>2, <1>3 DEF Around

LEMMA ActsRoom ==
    ASSUME InvoicingShape, LimitsKept, RequestsTyped', NEW r \in Requests, Acts(r)
    PROVE  HasRoom(r)' /\ Entered(r)
<1>1. CASE Fails(r) \/ Answers(r) \/ Commits(r) \/ Saves(r) \/ Stores(r) \/ Arrives(r) \/ Begins(r)
  <2>1. req'[r].pc \in {"idle", "existing", "merchant", "save", "done", "unheard", "overlimit",
                        "failed"}
    BY <1>1 DEF Fails, Answers, Commits, Saves, Stores, Arrives, Begins, Ends, Leaves, Goes
  <2>2. Shape(r)
    BY DEF InvoicingShape
  <2>3. held'[r] = {}
    <3>1. CASE Fails(r) \/ Answers(r) \/ Commits(r) \/ Saves(r)
      BY <3>1 DEF Fails, Answers, Commits, Saves, Ends, Leaves
    <3>2. CASE Stores(r)
      BY <2>2, <3>2 DEF Stores, Ends, Leaves, Goes, Shape
    <3>3. CASE Arrives(r) \/ Begins(r)
      BY <2>2, <3>3 DEF Arrives, Begins, Shape, Open
    <3> QED
      BY <1>1, <3>1, <3>2, <3>3
  <2> QED
    BY <2>1, <2>3, NotInside
<1>2. CASE Advances(r)
  BY <1>2, AdvancesRoom
<1>3. CASE SetsBase(r) \/ Numbers(r) \/ Holds(r)
  BY <1>3, InsideRoom
<1> QED
  BY <1>1, <1>2, <1>3 DEF Acts

LEMMA LimitsStep ==
    ASSUME InvoicingShape, LimitsKept, [InvoicingNext]_invoicingVars
    PROVE  LimitsKept'
<1>1. CASE Around
  BY <1>1, AroundRoom
<1>2. ASSUME RequestsTyped', NEW r \in Requests, Acts(r) PROVE LimitsKept'
  <2>1. /\ Alone(r) /\ limit' = limit /\ today' = today /\ raced \subseteq raced'
        /\ (rows' = rows \/ Stores(r) \/ Commits(r))
        /\ (held'[r] \subseteq held[r] \/ Holds(r))
    BY <1>2, ActsFrame, ActsLimits
  <2>2. ASSUME Stores(r) \/ Holds(r)
        PROVE  Row(r).day \in Nat /\ Row(r).day <= today /\ Row(r).m = req[r].m
    <3>1. Open(r) /\ today \in Nat /\ req[r].began \in Nat
      BY <2>2 DEF Stores, Holds, Open, InvoicingShape, InvoicingTypes, RequestStates
    <3>2. Row(r).day = IF req[r].bulk THEN req[r].began ELSE today
      BY DEF Row
    <3>3. req[r].bulk => req[r].began <= today
      BY <3>1 DEF LimitsKept
    <3>4. Row(r).m = req[r].m
      BY <3>1, RowTyped
    <3> QED
      BY <3>1, <3>2, <3>3, <3>4
  <2>3. \A x \in rows' : x.day <= today'
    <3>1. today \in Nat
      BY DEF InvoicingShape, InvoicingTypes
    <3> QED
      BY <2>1, <2>2, <3>1 DEF Stores, Commits, LimitsKept
  <2>4. ASSUME NEW q \in Requests, NEW x \in held'[q] PROVE x.m = req'[q].m /\ x.day <= today'
    <3>1. CASE q # r
      BY <2>1, <2>4, <3>1 DEF Alone, LimitsKept
    <3>2. CASE q = r /\ Holds(r)
      <4>1. today \in Nat /\ held'[r] = held[r] \union {Row(r)} /\ req'[r].m = req[r].m
        BY <3>2 DEF Holds, SameRequest, InvoicingShape, InvoicingTypes
      <4> QED
        BY <2>1, <2>2, <2>4, <3>2, <4>1 DEF LimitsKept
    <3>3. CASE q = r /\ ~Holds(r)
      <4>1. x \in held[r] /\ held[r] # {}
        BY <2>1, <2>4, <3>3
      <4>2. Open(r)
        BY <4>1 DEF InvoicingShape, Shape
      <4>3. SameRequest(r)
        BY <1>2, <4>2 DEF Acts, Fails, Advances, Answers, SetsBase, Numbers, Stores, Holds,
                          Commits, Saves, Arrives, Begins, Goes, Ends, Leaves, Open
      <4> QED
        BY <2>1, <3>3, <4>1, <4>3 DEF SameRequest, LimitsKept
    <3> QED
      BY <3>1, <3>2, <3>3
  <2>5. \A q \in Requests : HasRoom(q)'
    BY <1>2, OthersKeepRoom, ActsRoom
  <2>6. ASSUME NEW p \in Requests, NEW q \in Requests \ {p} PROVE Apart(p, q)'
    <3>1. ASSUME NEW s \in Requests \ {r}, OpenCapped(s)'
          PROVE  OpenCapped(s) /\ req'[s] = req[s] /\ (Cleared(s)' <=> Cleared(s))
      BY <2>1, <3>1 DEF Alone, OpenCapped, Open, Capped, Cleared
    <3>2. CASE p # r /\ q # r
      BY <2>1, <3>2 DEF Alone, LimitsKept, Apart, OpenCapped, Open, Capped, Cleared
    <3>3. ASSUME NEW s \in Requests \ {r}, OpenCapped(r)', Open(s)', req'[s].m = req'[r].m,
                 Cleared(r)', Cleared(s)'
          PROVE  FALSE
      <4>1. OpenCapped(s)'
        BY <3>3 DEF OpenCapped
      <4>2. OpenCapped(s) /\ req'[s] = req[s] /\ Cleared(s)
        BY <3>1, <3>3, <4>1
      <4>3. Open(r) /\ Cleared(r) /\ req'[r].m = req[r].m
        BY <1>2, <3>3, <4>2, ActsRoom DEF Entered, OpenCapped
      <4>4. Apart(s, r)
        BY DEF LimitsKept
      <4> QED
        BY <3>3, <4>2, <4>3, <4>4 DEF Apart
    <3>4. CASE p = r
      BY <3>3, <3>4 DEF Apart
    <3>5. CASE q = r
      <4>1. OpenCapped(p)' /\ Open(r)' /\ req'[r].m = req'[p].m => OpenCapped(r)'
        BY DEF OpenCapped
      <4> QED
        BY <3>3, <3>5, <4>1 DEF Apart, OpenCapped
    <3> QED
      BY <3>2, <3>4, <3>5
  <2>7. ASSUME NEW q \in Requests, req'[q].bulk, Open(q)' PROVE req'[q].began <= today'
    <3>1. CASE q # r
      BY <2>1, <2>7, <3>1 DEF Alone, LimitsKept, Open
    <3>2. CASE q = r /\ Begins(r)
      <4>1. today \in Nat
        BY DEF InvoicingShape, InvoicingTypes
      <4> QED
        BY <2>1, <3>2, <4>1 DEF Begins
    <3>3. CASE q = r /\ ~Begins(r)
      <4>1. Open(r) /\ req[r].bulk /\ req'[r].began = req[r].began
        BY <1>2, <2>7, <3>3
           DEF Acts, Fails, Advances, Answers, SetsBase, Numbers, Stores, Holds, Commits, Saves,
               Arrives, Goes, Ends, Leaves, SameRequest, Open
      <4> QED
        BY <2>1, <3>3, <4>1 DEF LimitsKept
    <3> QED
      BY <3>1, <3>2, <3>3
  <2> QED
    BY <2>3, <2>4, <2>5, <2>6, <2>7 DEF LimitsKept
<1> QED
  BY <1>1, <1>2, StepEffect

\* What a request stores for a merchant that has a limit, alone: a row, or the
\* rows of a bulk.
LEMMA StoredWithinLimit ==
    ASSUME InvoicingShape, LimitsKept, RequestsTyped', NEW r \in Requests, Acts(r),
           NEW m \in Merchants \ raced', NEW p \in Periods, limit[m][p] # NoLimit,
           NEW x \in rows' \ rows, x.m = m
    PROVE  Spent(m, p) + x.amount <= limit[m][p]
<1>1. Stores(r) \/ Commits(r)
  BY ActsFrame
<1>2. HasRoom(r)
  BY DEF LimitsKept
<1>3. CASE Stores(r)
  <2>1. Open(r) /\ Passed(r, p) /\ x = Row(r) /\ raced' = raced
    BY <1>3 DEF Stores, Open, Passed
  <2>2. x.amount = Amount(r) /\ req[r].m = m
    BY <2>1, RowTyped
  <2>3. OpenCapped(r)
    BY <2>1, <2>2 DEF OpenCapped, Capped
  <2> QED
    BY <1>2, <2>1, <2>2, <2>3 DEF HasRoom
<1>4. CASE Commits(r)
  <2>1. Open(r) /\ x \in held[r] /\ raced' = raced
    BY <1>4 DEF Commits, Open
  <2>2. req[r].m = m
    BY <2>1 DEF LimitsKept
  <2>3. OpenCapped(r)
    BY <2>1, <2>2 DEF OpenCapped, Capped
  <2> QED
    BY <1>2, <2>1, <2>2, <2>3 DEF HasRoom, HeldRoom
<1> QED
  BY <1>1, <1>3, <1>4

LEMMA LimitsInit == InvoicingInit => LimitsKept
<1> SUFFICES ASSUME InvoicingInit PROVE LimitsKept
  OBVIOUS
<1>1. \A r \in Requests : ~Open(r) /\ held[r] = {}
  BY DEF InvoicingInit, Idle, Open
<1>2. \A r \in Requests : ~OpenCapped(r)
  BY <1>1 DEF OpenCapped
<1> QED
  BY <1>1, <1>2 DEF InvoicingInit, LimitsKept, HasRoom, Apart

\* Each invoice that is stored while no other request of its merchant is open
\* fits under every limit that is set beside what was stored before, those of
\* a bulk one by one (invoices.service.ts enforceSpendLimits: the sum that was
\* read has not grown when the row is inserted or the bulk commits), for any
\* number of requests, any bulks and limits that change at any time.
THEOREM LimitsHoldAlone == InvoicingSpec => SpendBounded
<1> DEFINE Bounded ==
             \A m \in Merchants \ raced', period \in Periods :
                limit[m][period] # NoLimit =>
                    \A x \in rows' \ rows :
                        x.m = m => Spent(m, period) + x.amount <= limit[m][period]
<1>1. InvoicingInit => InvoicingShape /\ LimitsKept
  BY ShapeInit, LimitsInit
<1>2. InvoicingShape /\ LimitsKept /\ [InvoicingNext]_invoicingVars => (InvoicingShape /\ LimitsKept)'
  BY ShapeStep, LimitsStep
<1>3. InvoicingShape /\ LimitsKept /\ [InvoicingNext]_invoicingVars => [Bounded]_invoicingVars
  <2> SUFFICES ASSUME InvoicingShape, LimitsKept, [InvoicingNext]_invoicingVars,
                      NEW m \in Merchants \ raced', NEW p \in Periods,
                      limit[m][p] # NoLimit, NEW x \in rows' \ rows, x.m = m
               PROVE  Spent(m, p) + x.amount <= limit[m][p]
    OBVIOUS
  <2>1. ~Around
    BY AroundKeeps
  <2> QED
    BY <2>1, StepEffect, StoredWithinLimit
<1> QED
  BY <1>1, <1>2, <1>3, PTL DEF InvoicingSpec, SpendBounded
=============================================================================
