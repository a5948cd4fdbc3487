------------------------------- MODULE MCJobs -------------------------------
(***************************************************************************)
(* The two jobs of the API that work through a table while others write    *)
(* it, the daily settlement and the webhook delivery, model-checked in one *)
(* run.  They share no state, so a behaviour of the run is a behaviour of  *)
(* one of them, chosen in the initial state: `world'.                      *)
(***************************************************************************)
EXTENDS MCSettlement, WebhookDelivery

VARIABLE world

jobsVars == <<world, settlementVars, deliveryVars>>

\* The second webhook is registered after the first and stays active; one
\* reset, and two failures or acceptances that go unheard.
DeliveryBound ==
    /\ hook["h2"] # "absent" => hook["h1"] # "absent"
    /\ hook["h2"] # "inactive"
    /\ resets[1] + resets[2] <= 1
    /\ lost[1] + lost[2] + faults <= 2

JobsInit ==
    /\ world \in {"settlement", "webhooks"}
    /\ SettlementInit
    /\ DeliveryInit

JobsNext ==
    /\ UNCHANGED world
    /\ \/ /\ world = "settlement" /\ SettlementNext
          /\ UNCHANGED deliveryVars
       \/ /\ world = "webhooks" /\ DeliveryNext /\ DeliveryBound'
          /\ UNCHANGED settlementVars

JobsSpec == JobsInit /\ [][JobsNext]_jobsVars /\ SettlementFairness /\ DeliveryFairness
=============================================================================
