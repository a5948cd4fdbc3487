--------------------------- MODULE WebhookDelivery ---------------------------
(***************************************************************************)
(* The webhooks (webhooks.service.ts, webhook-delivery.worker.ts): events  *)
(* become rows of webhook_deliveries, and a cron of every API process      *)
(* selects the due rows and posts them one after the other.  It takes no   *)
(* lock on what it selects and every UPDATE is by id alone, while other    *)
(* runs of the cron and the API's retry and replay write the same rows.    *)
(*                                                                         *)
(* A run is one call of deliverPending.  The cron starts one every 30      *)
(* seconds whether or not the previous one has returned, and a batch of 50 *)
(* with a timeout of 5 seconds each may take minutes, so runs overlap in   *)
(* one process as well as between processes.                               *)
(*                                                                         *)
(* Abstractions.  Payloads, signatures and event types are left out: an    *)
(* event goes to some of the active webhooks, those subscribed to it.      *)
(* next_retry_at is kept as whether it is in the future.                   *)
(***************************************************************************)
EXTENDS Integers, SequencesExt

CONSTANTS
    Runs,          \* concurrent calls of deliverPending
    Hooks,         \* webhooks
    MaxAttempts,   \* attempts before a delivery is dead: 5
    BatchSize,     \* LIMIT 50
    MaxDeliveries, \* bound: rows of webhook_deliveries, and those being dispatched
    MaxResets,     \* bound: calls of retry and replay
    MaxLost,       \* bound: acceptances of a delivery that go unheard
    MaxFaults      \* bound: failed queries and crashes

ASSUME DeliveryAssumption ==
    /\ IsFiniteSet(Hooks)
    /\ MaxAttempts \in Nat \ {0}
    /\ BatchSize \in Nat \ {0}
    /\ MaxDeliveries \in Nat
    /\ MaxResets \in Nat
    /\ MaxLost \in Nat
    /\ MaxFaults \in Nat

VARIABLES
    hook,       \* "absent", or webhooks.active
    delivery,   \* webhook_deliveries, in the order of created_at
    dispatching,\* hooks.rows of dispatchEvent not yet inserted
    pc,         \* what each run does next
    batch,      \* result.rows not yet handled: the id and the attempts read
    answer,     \* the response of the endpoint
    posts,      \* history: posts of each delivery, up to MaxAttempts
    accepted,   \* history: posts of each delivery that its endpoint accepted
    lost,       \* history: those of them whose answer the worker never had
    resets,     \* history: retries and replays of each delivery
    faults

runVars == <<pc, batch, answer>>
history == <<posts, accepted, lost, resets>>
deliveryVars == <<hook, delivery, dispatching, runVars, history, faults>>

Ids == 1..MaxDeliveries
Rows == DOMAIN delivery
Active == {h \in Hooks : hook[h] = "active"}

NoBatch == [d \in {} |-> 0]

DeliveryInit ==
    /\ hook = [h \in Hooks |-> "absent"]
    /\ delivery = <<>>
    /\ dispatching = {}
    /\ pc = [r \in Runs |-> "idle"]
    /\ batch = [r \in Runs |-> NoBatch]
    /\ answer = [r \in Runs |-> "none"]
    /\ posts = [d \in Ids |-> 0]
    /\ accepted = [d \in Ids |-> 0]
    /\ lost = [d \in Ids |-> 0]
    /\ resets = [d \in Ids |-> 0]
    /\ faults = 0

-----------------------------------------------------------------------------
(* Webhooks and events.                                                    *)

Create(h) ==
    /\ hook[h] = "absent"
    /\ hook' = [hook EXCEPT ![h] = "active"]
    /\ UNCHANGED <<delivery, dispatching, runVars, history, faults>>

Deactivate(h) ==
    /\ hook[h] # "absent"
    /\ hook' = [hook EXCEPT ![h] = "inactive"]
    /\ UNCHANGED <<delivery, dispatching, runVars, history, faults>>

NewRow(h) == [hook |-> h, status |-> "pending", attempts |-> 0, waiting |-> FALSE]

\* One INSERT ... SELECT over the active webhooks, by emitKycEvent and by the
\* reconciler.
Emit ==
    /\ \E S \in (SUBSET Active) \ {{}} :
          /\ Len(delivery) + Cardinality(dispatching) + Cardinality(S) <= MaxDeliveries
          /\ \E hooks \in SetToSeqs(S) :
                delivery' = delivery \o [i \in DOMAIN hooks |-> NewRow(hooks[i])]
    /\ UNCHANGED <<hook, dispatching, runVars, history, faults>>

\* dispatchEvent reads the webhooks and then inserts row by row, without a
\* transaction; a failure leaves out the rest.
DispatchRead ==
    /\ dispatching = {}
    /\ dispatching' \in SUBSET Active
    /\ Len(delivery) + Cardinality(dispatching') <= MaxDeliveries
    /\ UNCHANGED <<hook, delivery, runVars, history, faults>>

DispatchInsert(h) ==
    /\ h \in dispatching
    /\ Len(delivery) < MaxDeliveries
    /\ dispatching' = dispatching \ {h}
    /\ delivery' = Append(delivery, NewRow(h))
    /\ UNCHANGED <<hook, runVars, history, faults>>

DispatchFails ==
    /\ dispatching # {}
    /\ faults < MaxFaults
    /\ faults' = faults + 1
    /\ dispatching' = {}
    /\ UNCHANGED <<hook, delivery, runVars, history>>

ResetRow(row) == [row EXCEPT !.status = "pending", !.attempts = 0, !.waiting = FALSE]

Reset(d) ==
    /\ resets[d] < MaxResets
    /\ resets' = [resets EXCEPT ![d] = @ + 1]
    /\ delivery' = [delivery EXCEPT ![d] = ResetRow(@)]
    /\ UNCHANGED <<hook, dispatching, runVars, posts, accepted, lost, faults>>

\* The merchant's retry of a dead delivery, and the replay of any.
RetryDead(d) == delivery[d].status \in {"failed", "dead"} /\ Reset(d)
Replay(d) == Reset(d)

-----------------------------------------------------------------------------
(* The delivery worker.                                                    *)

RunAt(r, step) == pc[r] = step
Goto(r, step) == pc' = [pc EXCEPT ![r] = step]

\* Mutant: the status of the row is not asked for.
DueInAnyStatus(d) == ~delivery[d].waiting /\ delivery[d].hook \in Active

Due(d) ==
    /\ delivery[d].status = "pending"
    /\ ~delivery[d].waiting
    /\ delivery[d].hook \in Active

DueRows == {d \in Rows : Due(d)}

\* The first BatchSize of the due rows.
Selected(S) ==
    /\ S \subseteq DueRows
    /\ \A d \in S, e \in DueRows \ S : d < e
    /\ Cardinality(S) <= BatchSize
    /\ S # DueRows => Cardinality(S) = BatchSize

Select(r) ==
    /\ RunAt(r, "idle")
    /\ \E S \in (SUBSET DueRows) \ {{}} :
          /\ Selected(S)
          /\ batch' = [batch EXCEPT ![r] = [d \in S |-> delivery[d].attempts]]
    /\ Goto(r, "post")
    /\ UNCHANGED <<hook, delivery, dispatching, answer, history, faults>>

\* The row that run r is at.
Current(r, d) == d \in DOMAIN batch[r] /\ \A e \in DOMAIN batch[r] : d <= e

\* deliver posts the row as it was selected: a 2xx, another status, or the
\* catch, for a network error or the timeout.  The endpoint may have accepted
\* the body all the same, the answer being late or lost.
Post(r, d) ==
    /\ RunAt(r, "post")
    /\ Current(r, d)
    /\ posts' = [posts EXCEPT ![d] = IF @ < MaxAttempts THEN @ + 1 ELSE @]
    /\ \/ /\ answer' = [answer EXCEPT ![r] = "ok"]
          /\ accepted' = [accepted EXCEPT ![d] = @ + 1]
          /\ Goto(r, "answered")
          /\ UNCHANGED lost
       \/ /\ answer' = [answer EXCEPT ![r] = "refused"]
          /\ Goto(r, "answered")
          /\ UNCHANGED <<accepted, lost>>
       \/ /\ Goto(r, "caught")
          /\ UNCHANGED <<answer, accepted, lost>>
       \/ /\ lost[d] < MaxLost
          /\ Goto(r, "caught")
          /\ accepted' = [accepted EXCEPT ![d] = @ + 1]
          /\ lost' = [lost EXCEPT ![d] = @ + 1]
          /\ UNCHANGED answer
    /\ UNCHANGED <<hook, delivery, dispatching, batch, resets, faults>>

\* Mutants: dead one attempt early; every answer counts as a delivery; the
\* attempt is not counted; the delivery never dies.
Impatient(row, attempts, ok) ==
    LET status == IF ok THEN "delivered"
                  ELSE IF attempts >= MaxAttempts - 1 THEN "dead" ELSE "pending"
    IN  [row EXCEPT !.status = status, !.attempts = attempts,
                    !.waiting = (status = "pending")]
AnyAnswer(row, attempts, ok) ==
    [row EXCEPT !.status = "delivered", !.attempts = attempts, !.waiting = FALSE]
NotCounted(row, attempts, ok) ==
    [row EXCEPT !.status = IF ok THEN "delivered" ELSE "pending", !.waiting = ~ok]
NeverDead(row, attempts, ok) ==
    [row EXCEPT !.status = IF ok THEN "delivered" ELSE "pending",
                !.attempts = attempts, !.waiting = ~ok]

\* The UPDATE of both branches: by id, whatever the row has become.
Outcome(row, attempts, ok) ==
    LET status == IF ok THEN "delivered"
                  ELSE IF attempts >= MaxAttempts THEN "dead" ELSE "pending"
    IN  [row EXCEPT !.status = status, !.attempts = attempts,
                    !.waiting = (status = "pending")]

Update(r, d, ok) ==
    delivery' = [delivery EXCEPT ![d] = Outcome(@, batch[r][d] + 1, ok)]

\* The next row of the batch, or the end of the run.
NextRow(r, d) ==
    /\ batch' = [batch EXCEPT ![r] = Restrict(@, DOMAIN @ \ {d})]
    /\ answer' = [answer EXCEPT ![r] = "none"]
    /\ Goto(r, IF DOMAIN batch[r] = {d} THEN "idle" ELSE "post")

Record(r, d) ==
    /\ RunAt(r, "answered")
    /\ Current(r, d)
    /\ Update(r, d, answer[r] = "ok")
    /\ NextRow(r, d)
    /\ UNCHANGED <<hook, dispatching, history, faults>>

\* The UPDATE after the answer fails, before or after it took effect: the
\* catch takes it for a failed post.
RecordFails(r, d) ==
    /\ RunAt(r, "answered")
    /\ Current(r, d)
    /\ faults < MaxFaults
    /\ faults' = faults + 1
    /\ Update(r, d, answer[r] = "ok") \/ UNCHANGED delivery
    /\ answer' = [answer EXCEPT ![r] = "none"]
    /\ Goto(r, "caught")
    /\ UNCHANGED <<hook, dispatching, batch, history>>

RecordCaught(r, d) ==
    /\ RunAt(r, "caught")
    /\ Current(r, d)
    /\ Update(r, d, FALSE)
    /\ NextRow(r, d)
    /\ UNCHANGED <<hook, dispatching, history, faults>>

\* The UPDATE of the catch fails, or the process dies: the rest of the batch
\* is left to a later run.
Fail(r) ==
    /\ ~RunAt(r, "idle")
    /\ faults < MaxFaults
    /\ faults' = faults + 1
    /\ batch' = [batch EXCEPT ![r] = NoBatch]
    /\ answer' = [answer EXCEPT ![r] = "none"]
    /\ Goto(r, "idle")
    /\ UNCHANGED <<hook, delivery, dispatching, history>>

\* next_retry_at is reached.
BackoffEnds(d) ==
    /\ delivery[d].waiting
    /\ delivery' = [delivery EXCEPT ![d].waiting = FALSE]
    /\ UNCHANGED <<hook, dispatching, runVars, history, faults>>

Run(r) ==
    \/ Select(r)
    \/ \E d \in DOMAIN batch[r] : Post(r, d) \/ Record(r, d) \/ RecordCaught(r, d)

DeliveryNext ==
    \/ \E h \in Hooks : Create(h) \/ Deactivate(h) \/ DispatchInsert(h)
    \/ Emit \/ DispatchRead \/ DispatchFails
    \/ \E d \in Rows : RetryDead(d) \/ Replay(d) \/ BackoffEnds(d)
    \/ \E r \in Runs :
          \/ Run(r) \/ Fail(r)
          \/ \E d \in DOMAIN batch[r] : RecordFails(r, d)

DeliverySpec == DeliveryInit /\ [][DeliveryNext]_deliveryVars

\* The cron of a process that is kept running; time passes.
DeliveryFairness ==
    /\ \A r \in Runs : WF_deliveryVars(Run(r))
    /\ \A d \in Ids : WF_deliveryVars(d \in Rows /\ BackoffEnds(d))

-----------------------------------------------------------------------------
(* Properties.                                                             *)

SingleRun == \A q, r \in Runs : q = r

DeliveryRows == [hook : Hooks, status : {"pending", "delivered", "dead"},
                 attempts : 0..MaxAttempts, waiting : BOOLEAN]

\* A row that is not final has attempts left.
TableOK ==
    /\ delivery \in Seq(DeliveryRows)
    /\ Len(delivery) <= MaxDeliveries
    /\ \A d \in Rows :
          delivery[d].status = "pending" => delivery[d].attempts < MaxAttempts

\* The locals of a run at each step.
RunOK(r) ==
    /\ DOMAIN batch[r] \subseteq Rows
    /\ \A d \in DOMAIN batch[r] : batch[r][d] \in 0..(MaxAttempts - 1)
    /\ RunAt(r, "idle") <=> DOMAIN batch[r] = {}
    /\ RunAt(r, "answered") <=> answer[r] # "none"

\* The type invariant: the row of a delivery with attempts left, and runs that
\* hold ids of existing rows with the attempts these had.
DeliveryTypeOK ==
    /\ TableOK
    /\ hook \in [Hooks -> {"absent", "active", "inactive"}]
    /\ dispatching \subseteq Hooks
    /\ pc \in [Runs -> {"idle", "post", "answered", "caught"}]
    /\ answer \in [Runs -> {"none", "ok", "refused"}]
    /\ posts \in [Ids -> 0..MaxAttempts]
    /\ accepted \in [Ids -> Nat]
    /\ lost \in [Ids -> 0..MaxLost]
    /\ resets \in [Ids -> 0..MaxResets]
    /\ faults \in 0..MaxFaults
    /\ DOMAIN batch = Runs
    /\ \A r \in Runs : RunOK(r)

\* A delivery is given up only after MaxAttempts posts, although runs write
\* attempts they read long ago over those of other runs and of a replay.
NotDeadEarly ==
    \A d \in Rows : delivery[d].status = "dead" => posts[d] = MaxAttempts

\* What counts as delivered was accepted by the endpoint, whichever of the
\* overlapping updates comes last.
DeliveredWasAccepted ==
    \A d \in Rows : delivery[d].status = "delivered" => accepted[d] > 0

\* Runs that do not overlap: an endpoint accepts a delivery again only after a
\* retry or a replay of it, a fault of the worker, or an acceptance that the
\* worker did not hear of.
DuplicatesExplained ==
    \A d \in Rows : accepted[d] <= 1 + resets[d] + lost[d] + faults

\* Runs that do not overlap: a final delivery stays final until it is reset,
\* unless its own UPDATE took effect and was reported as failed.
FinalUntilReset ==
    [][\A d \in Rows :
          /\ delivery[d].status # "pending"
          /\ delivery'[d].status # delivery[d].status
          => \/ resets'[d] > resets[d]
             \/ \E r \in Runs : RunAt(r, "caught") /\ Current(r, d)]_delivery

Open(d) ==
    /\ d \in Rows
    /\ delivery[d].status = "pending"
    /\ delivery[d].hook \in Active

\* At-least-once delivery: every pending delivery of an active webhook is
\* accepted or, after all its attempts, dead.
EventuallyDecided ==
    \A d \in Ids : Open(d) ~> ~Open(d)

\* ADR-001: worker processes share the load without duplicate delivery.
NoDuplicateDelivery ==
    \A d \in Rows : accepted[d] <= 1 + resets[d]
=============================================================================
