---------------------------- MODULE HealthChecks ----------------------------
(***************************************************************************)
(* GET /health, /health/rpc and /health/deep (health.service.ts).  A       *)
(* request asks its dependencies one after the other, a deep one in two    *)
(* rows side by side; each check races the dependency's answer with a      *)
(* timer of three seconds.                                                 *)
(*                                                                         *)
(* Abstractions.  Latencies, details and the constant entry for the queue  *)
(* are left out.  The Soroban RPC may not be configured; Horizon is.       *)
(***************************************************************************)
EXTENDS Integers, FiniteSets

CONSTANTS
    Pings,      \* requests
    SorobanConfigured

ASSUME HealthAssumption == SorobanConfigured \in BOOLEAN

Base == <<"database", "redis">>
Rpc == <<"horizon", "soroban">>
Services == {"database", "redis", "horizon", "soroban"}
Rows(kind) == CASE kind = "health" -> {Base} [] kind = "rpc" -> {Rpc} [] kind = "deep" -> {Base, Rpc}

VARIABLES
    service,    \* what each dependency does with a call: "up" | "down" | "hung"
    kind,       \* of each request; "none" before it comes
    asking,     \* the position each request has reached in each of its rows
    report,     \* what the finished checks have said
    answer      \* the status that was answered

healthVars == <<service, kind, asking, report, answer>>

HealthInit ==
    /\ service = [s \in Services |-> "up"]
    /\ kind = [p \in Pings |-> "none"] /\ answer = [p \in Pings |-> "none"]
    /\ asking = [p \in Pings |-> [row \in {Base, Rpc} |-> 1]]
    /\ report = [p \in Pings |-> [s \in {} |-> "up"]]

Change(s, how) ==
    /\ service[s] # how /\ service' = [service EXCEPT ![s] = how]
    /\ UNCHANGED <<kind, asking, report, answer>>

Ping(p, k) ==
    /\ kind[p] = "none" /\ kind' = [kind EXCEPT ![p] = k]
    /\ UNCHANGED <<service, asking, report, answer>>

\* The check in progress in a row ends with a status, and the next begins.
Reports(p, row, says) ==
    LET s == row[asking[p][row]] IN
    /\ asking' = [asking EXCEPT ![p][row] = @ + 1]
    /\ report' = [report EXCEPT ![p] =
                     [x \in DOMAIN @ \union {s} |-> IF x = s THEN says ELSE @[x]]]
    /\ UNCHANGED <<service, kind, answer>>

InRow(p, row) == kind[p] # "none" /\ row \in Rows(kind[p]) /\ asking[p][row] <= 2
Asked(p, row) == row[asking[p][row]]

\* timed: the dependency answers or refuses, or checkHttp finds no URL
ServiceAnswers(p, row) ==
    /\ InRow(p, row)
    /\ IF Asked(p, row) = "soroban" /\ ~SorobanConfigured
       THEN Reports(p, row, "not_configured")
       ELSE /\ service[Asked(p, row)] # "hung"
            /\ Reports(p, row, service[Asked(p, row)])

\* Mutant: only the checks over HTTP have a timer.
HttpTimerWins(p, row) ==
    /\ InRow(p, row) /\ row = Rpc
    /\ Asked(p, row) = "soroban" => SorobanConfigured
    /\ Reports(p, row, "down")

\* timed: the timer wins the race; a later answer is thrown away
TimerWins(p, row) ==
    /\ InRow(p, row)
    /\ Asked(p, row) = "soroban" => SorobanConfigured
    /\ Reports(p, row, "down")

\* toHealthStatus
HealthOf(r) ==
    IF \A s \in DOMAIN r : r[s] \in {"up", "not_configured"} THEN "ok" ELSE "degraded"

AnswerPing(p) ==
    /\ kind[p] # "none" /\ answer[p] = "none"
    /\ \A row \in Rows(kind[p]) : asking[p][row] > 2
    /\ answer' = [answer EXCEPT ![p] = HealthOf(report[p])]
    /\ UNCHANGED <<service, kind, asking, report>>

HealthNext ==
    \/ \E s \in Services, how \in {"up", "down", "hung"} : Change(s, how)
    \/ \E p \in Pings :
          \/ \E k \in {"health", "rpc", "deep"} : Ping(p, k)
          \/ \E row \in {Base, Rpc} : ServiceAnswers(p, row) \/ TimerWins(p, row)
          \/ AnswerPing(p)

HealthSpec == HealthInit /\ [][HealthNext]_healthVars

\* A timer fires, and the process goes on.  No dependency has to answer.
HealthFairness ==
    /\ \A p \in Pings : WF_healthVars(AnswerPing(p))
    /\ \A p \in Pings, row \in {Base, Rpc} :
          WF_healthVars(TimerWins(p, row) \/ (ServiceAnswers(p, row) /\ Asked(p, row) = "soroban"))

-----------------------------------------------------------------------------
HealthTypeOK ==
    /\ service \in [Services -> {"up", "down", "hung"}]
    /\ kind \in [Pings -> {"none", "health", "rpc", "deep"}]
    /\ answer \in [Pings -> {"none", "ok", "degraded"}]
    /\ \A p \in Pings : DOMAIN report[p] \subseteq Services

\* Every request is answered, whichever dependencies hang and however often
\* they change (timed, lines 123-137: the timer covers the wait for a
\* connection of the pool, which has no timeout of its own).
HealthAnswers == \A p \in Pings : kind[p] # "none" ~> answer[p] # "none"
=============================================================================
