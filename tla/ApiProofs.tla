----------------------------- MODULE ApiProofs ------------------------------
(***************************************************************************)
(* The run of MCApi against the components it holds: each of its behaviours *)
(* is a behaviour of every component, so what is proved of a component for  *)
(* any constants holds in the run, bounds and all.                          *)
(***************************************************************************)
EXTENDS MCApi, ServicesProofs, AccessProofs, InvoicingProofs

\* A step of the run is a step of one component and changes no other's state.
LEMMA StepIsAComponents ==
    [MCNext]_apiVars =>
        /\ [InvoicingNext]_invoicingVars /\ [AfterSaleNext]_afterSaleVars
        /\ [SessionsNext]_sessionsVars /\ [TeamNext]_teamVars /\ [IndexerNext]_indexerVars
        /\ [SecretsNext]_secretsVars /\ [FeedsNext]_feedsVars
        /\ [ComplianceNext]_complianceVars /\ [SchedulesNext]_schedulesVars
        /\ [HealthNext]_healthVars /\ [ApiKeysNext]_apiKeysVars /\ [ListingsNext]_listingsVars
<1> SUFFICES ASSUME [MCNext]_apiVars
             PROVE  /\ [InvoicingNext]_invoicingVars /\ [AfterSaleNext]_afterSaleVars
                    /\ [SessionsNext]_sessionsVars /\ [TeamNext]_teamVars
                    /\ [IndexerNext]_indexerVars /\ [SecretsNext]_secretsVars
                    /\ [FeedsNext]_feedsVars /\ [ComplianceNext]_complianceVars
                    /\ [SchedulesNext]_schedulesVars /\ [HealthNext]_healthVars
                    /\ [ApiKeysNext]_apiKeysVars /\ [ListingsNext]_listingsVars
  OBVIOUS
<1>1. CASE MCNext
  BY <1>1 DEF MCNext
<1>2. CASE UNCHANGED apiVars
  BY <1>2 DEF apiVars
<1> QED
  BY <1>1, <1>2

\* Every behaviour of the run is one of each component.
THEOREM RunsEachComponent ==
    MCSpec => /\ InvoicingSpec /\ AfterSaleSpec /\ SessionsSpec /\ TeamSpec /\ IndexerSpec
              /\ SecretsSpec /\ FeedsSpec /\ ComplianceSpec /\ SchedulesSpec /\ HealthSpec
              /\ ApiKeysSpec /\ ListingsSpec
<1>1. MCInit => /\ InvoicingInit /\ AfterSaleInit /\ SessionsInit /\ TeamInit /\ IndexerInit
                /\ SecretsInit /\ FeedsInit /\ ComplianceInit /\ SchedulesInit /\ HealthInit
                /\ ApiKeysInit /\ ListingsInit
  BY DEF MCInit
<1> QED
  BY <1>1, StepIsAComponents, PTL
     DEF MCSpec, InvoicingSpec, AfterSaleSpec, SessionsSpec, TeamSpec, IndexerSpec, SecretsSpec,
         FeedsSpec, ComplianceSpec, SchedulesSpec, HealthSpec, ApiKeysSpec, ListingsSpec

\* The type invariant of the run: whichever component it has chosen, all of
\* them keep their types.
THEOREM ApiTypeCorrect == MCSpec => []ApiTypeOK
<1>1. /\ InvoicingTypeOK /\ AfterSaleTypeOK /\ SessionsTypeOK /\ TeamTypeOK /\ IndexerTypeOK
      /\ SecretsTypeOK /\ FeedsTypeOK /\ ComplianceTypeOK /\ SchedulesTypeOK /\ HealthTypeOK
      /\ ApiKeysTypeOK /\ ListingsTypeOK
      => ApiTypeOK
  BY DEF ApiTypeOK
<1> QED
  BY RunsEachComponent, InvoicingTypeCorrect, AfterSaleTypeCorrect, SessionsTypeCorrect,
     TeamTypeCorrect, IndexerTypeCorrect, SecretsTypeCorrect, FeedsTypeCorrect,
     ComplianceTypeCorrect, SchedulesTypeCorrect, HealthTypeCorrect, ApiKeysTypeCorrect,
     ListingsTypeCorrect, <1>1, PTL
=============================================================================
