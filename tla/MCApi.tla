-------------------------------- MODULE MCApi --------------------------------
(***************************************************************************)
(* The API's components, model-checked in one run.  They share no state    *)
(* with each other beyond what each module already has from its neighbours *)
(* (an invoice's status, a webhook's secrets, the requests to the pool), so *)
(* a behaviour of the run is a behaviour of one of them, chosen in the     *)
(* initial state: `world'.  The others stay as they begin.                 *)
(*                                                                         *)
(* Bounds beyond the constants are conjuncts of MCNext, each named below.  *)
(***************************************************************************)
EXTENDS Invoicing, AfterSale, Sessions, TeamMembers, SorobanIndexer, WebhookSecrets,
        LiveFeeds, Compliance, Schedules, HealthChecks, ApiKeys, Listings, TLC

VARIABLE world

apiVars == <<world, invoicingVars, afterSaleVars, sessionsVars, teamVars, indexerVars,
             secretsVars, feedsVars, complianceVars, schedulesVars, healthVars, apiKeysVars, listingsVars>>

-----------------------------------------------------------------------------
CONSTANTS m1, m2, s1

MCCreatedAt == (m1 :> 1) @@ (m2 :> 2)
MCFeeBps == [m \in Merchants |-> 2500]
MCFixed == [m \in Merchants |-> 1]
MCSmallest == (m1 :> 2) @@ (m2 :> 0)
MCLargest == (m1 :> 6) @@ (m2 :> 0)
MCBulks == {<<4, 4>>}
MCDue == s1 :> 2

\* Calls are alike: the n-th is made before the next.
InTurn(calls, idle(_)) == \A c, d \in calls : c < d /\ ~idle(d) => ~idle(c)

\* A request that was not answered
Lost(r) == req[r].pc \in {"failed", "unheard"}

\* At most two requests at once; m2 has no limits and makes plain requests;
\* the larger amount comes with a key only; limits are set one at a time and
\* once there are invoices, the lower one by month only; one cancellation or
\* failure; keys and bulks, and the second day, in behaviours of their own.
InvoicingBound ==
    /\ InTurn(Requests, LAMBDA r : req[r].pc = "idle")
    /\ Cardinality({r \in Requests : Open(r)}) <= 2
    /\ limit[m2] = [p \in Periods |-> NoLimit]
    /\ \A r \in Requests : req[r].m = m2 /\ req[r].pc # "idle" =>
          req[r].key = NoKey /\ ~req[r].bulk /\ limit[m1] = limit[m2]
    /\ \A r \in Requests : req[r].items = <<8>> => req[r].key # NoKey
    /\ Cardinality(cancelled) <= 1
    /\ Cardinality({r \in Requests : Lost(r)}) <= 1
    /\ \A r \in Requests : req[r].bulk => \A q \in Requests : req[q].key = NoKey
    /\ \A r \in Requests : req[r].pc = "failed" => req[r].bulk \/ req[r].key # NoKey
    /\ cancelled # {} => \A r \in Requests : ~Lost(r)
    /\ limit[m1] # limit[m2] => rows # {}
    /\ limit[m1]["day"] # NoLimit => limit[m1]["month"] = NoLimit
    /\ limit[m1]["day"] # 6
    /\ limit[m1]["month"] = 6 => \A r \in Requests : ~Lost(r)
    /\ today > 1 => /\ cancelled = {} /\ limit[m1] # limit[m2]
                    /\ \A r \in Requests : req[r].key = NoKey /\ ~req[r].bulk /\ ~Lost(r)

\* Of the statuses of a dispute, one that is open and one that is not
AfterSaleBound ==
    /\ InTurn(Calls, LAMBDA c : call[c].pc = "idle")
    /\ \A c \in DOMAIN disputes : disputes[c] \in {"submitted", "under_review", "won"}
    /\ \A c \in DOMAIN disputes : disputes[c] = "under_review" => c = 1
\* Two requests at once, one of them failing
SessionsBound ==
    /\ InTurn(Posts, LAMBDA p : post[p].pc = "idle")
    /\ Cardinality({p \in Posts : Running(p)}) <= 2
    /\ Cardinality({p \in Posts : post[p].pc = "failed"}) <= 1
TeamBound == InTurn(TeamCalls, LAMBDA t : team[t].pc = "idle")
SecretsBound == InTurn(Posters, LAMBDA d : poster[d].pc = "idle")
\* Blocked and reviewed payments are alike here; the third check begins
\* once the first is screened, and is screened before it reads.
ComplianceBound ==
    /\ InTurn(Checks, LAMBDA c : check[c].vel = "idle")
    /\ \A p \in Payers : "blocked" \notin cached[p]
    /\ check[3].vel # "idle" => check[1].screen \in Verdicts
    /\ check[3].vel = "read" => check[3].screen \in Verdicts
    /\ \A c \in {1, 2} : check[c].screen = "ask" => check[c].vel = "add"
\* One row at most that a filter leaves out, and none for a list without.
ListingsBound ==
    /\ \A x \in entries : x.action = "rotated" =>
          x.id = 2 /\ \A r \in Readers : reader[r].pc = "idle" \/ reader[r].action # AnyAction
    /\ \A r \in Readers : reader[r].action # "rotated"
HealthBound == \A s \in Services : service[s] = "up" \/ s \in {"database", "horizon"}

-----------------------------------------------------------------------------
Worlds == {"invoicing", "afterSale", "sessions", "team", "indexer", "secrets", "feeds",
           "compliance", "schedules", "health", "apiKeys", "listings"}

MCInit ==
    /\ world \in Worlds
    /\ InvoicingInit /\ AfterSaleInit /\ SessionsInit /\ TeamInit /\ IndexerInit /\ SecretsInit
    /\ FeedsInit /\ ComplianceInit /\ SchedulesInit /\ HealthInit /\ ApiKeysInit /\ ListingsInit
    /\ interval = "daily"

MCNext ==
    /\ UNCHANGED world
    /\ \/ /\ world = "invoicing" /\ InvoicingNext /\ InvoicingBound'
          /\ UNCHANGED <<afterSaleVars, sessionsVars, teamVars, indexerVars,
                          secretsVars, feedsVars, complianceVars,
                          schedulesVars, healthVars, apiKeysVars, listingsVars>>
       \/ /\ world = "afterSale" /\ AfterSaleNext /\ AfterSaleBound'
          /\ UNCHANGED <<invoicingVars, sessionsVars, teamVars, indexerVars,
                          secretsVars, feedsVars, complianceVars,
                          schedulesVars, healthVars, apiKeysVars, listingsVars>>
       \/ /\ world = "sessions" /\ SessionsNext /\ SessionsBound'
          /\ UNCHANGED <<invoicingVars, afterSaleVars, teamVars, indexerVars,
                          secretsVars, feedsVars, complianceVars,
                          schedulesVars, healthVars, apiKeysVars, listingsVars>>
       \/ /\ world = "team" /\ TeamNext /\ TeamBound'
          /\ UNCHANGED <<invoicingVars, afterSaleVars, sessionsVars, indexerVars,
                          secretsVars, feedsVars, complianceVars,
                          schedulesVars, healthVars, apiKeysVars, listingsVars>>
       \/ /\ world = "indexer" /\ IndexerNext
          /\ UNCHANGED <<invoicingVars, afterSaleVars, sessionsVars, teamVars,
                          secretsVars, feedsVars, complianceVars,
                          schedulesVars, healthVars, apiKeysVars, listingsVars>>
       \/ /\ world = "secrets" /\ SecretsNext /\ SecretsBound'
          /\ UNCHANGED <<invoicingVars, afterSaleVars, sessionsVars, teamVars,
                          indexerVars, feedsVars, complianceVars,
                          schedulesVars, healthVars, apiKeysVars, listingsVars>>
       \/ /\ world = "feeds" /\ FeedsNext
          /\ UNCHANGED <<invoicingVars, afterSaleVars, sessionsVars, teamVars,
                          indexerVars, secretsVars, complianceVars,
                          schedulesVars, healthVars, apiKeysVars, listingsVars>>
       \/ /\ world = "compliance" /\ ComplianceNext /\ ComplianceBound'
          /\ UNCHANGED <<invoicingVars, afterSaleVars, sessionsVars, teamVars,
                          indexerVars, secretsVars, feedsVars,
                          schedulesVars, healthVars, apiKeysVars, listingsVars>>
       \/ /\ world = "schedules" /\ SchedulesNext
          /\ UNCHANGED <<invoicingVars, afterSaleVars, sessionsVars, teamVars,
                          indexerVars, secretsVars, feedsVars,
                          complianceVars, healthVars, apiKeysVars, listingsVars>>
       \/ /\ world = "health" /\ HealthNext /\ HealthBound'
          /\ UNCHANGED <<invoicingVars, afterSaleVars, sessionsVars, teamVars,
                          indexerVars, secretsVars, feedsVars,
                          complianceVars, schedulesVars, apiKeysVars, listingsVars>>
       \/ /\ world = "apiKeys" /\ ApiKeysNext
          /\ UNCHANGED <<invoicingVars, afterSaleVars, sessionsVars, teamVars,
                          indexerVars, secretsVars, feedsVars,
                          complianceVars, schedulesVars, healthVars, listingsVars>>
       \/ /\ world = "listings" /\ ListingsNext /\ ListingsBound'
          /\ UNCHANGED <<invoicingVars, afterSaleVars, sessionsVars, teamVars,
                          indexerVars, secretsVars, feedsVars,
                          complianceVars, schedulesVars, healthVars, apiKeysVars>>

MCSpec == MCInit /\ [][MCNext]_apiVars /\ FeedsFairness /\ HealthFairness

-----------------------------------------------------------------------------
\* Every component's variables have their types.
ApiTypeOK ==
    /\ world = "invoicing" => InvoicingTypeOK
    /\ world = "afterSale" => AfterSaleTypeOK
    /\ world = "sessions" => SessionsTypeOK
    /\ world = "team" => TeamTypeOK
    /\ world = "indexer" => IndexerTypeOK
    /\ world = "secrets" => SecretsTypeOK
    /\ world = "feeds" => FeedsTypeOK
    /\ world = "compliance" => ComplianceTypeOK
    /\ world = "schedules" => SchedulesTypeOK
    /\ world = "health" => HealthTypeOK
    /\ world = "apiKeys" => ApiKeysTypeOK
    /\ world = "listings" => ListingsTypeOK
=============================================================================
