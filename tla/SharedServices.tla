---------------------------- MODULE SharedServices ----------------------------
(***************************************************************************)
(* Parts of the system that share no state: quotas, token budgets in the   *)
(* database and in memory, the secret store, the audit trail, the          *)
(* observability store, the Kubernetes sandbox driver, feature flags,      *)
(* service level objectives, the provider streams of the LLM router, the   *)
(* approval gate and the listing of agents.  A behaviour of all of them is *)
(* an interleaving of one of each, and a property of one holds in it when  *)
(* it holds where only that one moves: "focus" is the one that moves.      *)
(***************************************************************************)
EXTENDS Quotas, Budgets, SecretStore, AuditTrail, Observability,
        K8sSandbox, FeatureFlags, SloTracker, LlmStream, HitlGate, AgentListing

VARIABLE focus

Services == {"quotas", "budgets", "secrets", "audit", "observability",
             "pods", "flags", "objectives", "streams", "gate", "meter", "listing"}
others == <<quotaVars, budgetVars, secretVars, auditVars, obsVars,
            k8sVars, flagVars, sloVars, streamVars, gateVars, meterVars, listingVars>>
vars == <<focus, others>>

Init ==
  /\ focus \in Services
  /\ QuotaInit /\ BudgetInit /\ SecretInit /\ AuditInit /\ ObsInit
  /\ K8sInit /\ FlagInit /\ SloInit /\ LlmStreamInit /\ GateInit /\ MeterInit /\ ListingInit
  /\ focus # "secrets" => secret.ver = 0
  /\ focus # "meter" => allocation.tokens = Max(TokenLimits) /\ allocation.requests = Max(RequestLimits)
  /\ focus # "listing" => \A i \in AgentIds : agentRow[i] = "none"
  /\ focus # "objectives" => sloType = "latency"
  /\ focus # "streams" => response = CHOOSE r \in [provider : Providers, lines : Streams, pc : {"open"}] : TRUE

(* The state of the first five, and of the others. *)
stores == <<quotaVars, budgetVars, secretVars, auditVars, obsVars>>
parts == <<k8sVars, flagVars, sloVars, streamVars, gateVars, meterVars, listingVars>>

Next ==
  /\ \/ focus = "quotas" /\ QuotaNext /\ UNCHANGED <<budgetVars, secretVars, auditVars, obsVars, parts>>
     \/ focus = "budgets" /\ BudgetNext /\ UNCHANGED <<quotaVars, secretVars, auditVars, obsVars, parts>>
     \/ focus = "secrets" /\ SecretNext /\ UNCHANGED <<quotaVars, budgetVars, auditVars, obsVars, parts>>
     \/ focus = "audit" /\ AuditNext /\ UNCHANGED <<quotaVars, budgetVars, secretVars, obsVars, parts>>
     \/ focus = "observability" /\ ObsNext /\ UNCHANGED <<quotaVars, budgetVars, secretVars, auditVars, parts>>
     \/ focus = "pods" /\ K8sNext /\ UNCHANGED <<flagVars, sloVars, streamVars, gateVars, meterVars, listingVars, stores>>
     \/ focus = "flags" /\ FlagNext /\ UNCHANGED <<k8sVars, sloVars, streamVars, gateVars, meterVars, listingVars, stores>>
     \/ focus = "objectives" /\ SloNext /\ UNCHANGED <<k8sVars, flagVars, streamVars, gateVars, meterVars, listingVars, stores>>
     \/ focus = "streams" /\ LlmStreamNext /\ UNCHANGED <<k8sVars, flagVars, sloVars, gateVars, meterVars, listingVars, stores>>
     \/ focus = "gate" /\ GateNext /\ UNCHANGED <<k8sVars, flagVars, sloVars, streamVars, meterVars, listingVars, stores>>
     \/ focus = "meter" /\ MeterNext /\ UNCHANGED <<k8sVars, flagVars, sloVars, streamVars, gateVars, listingVars, stores>>
     \/ focus = "listing" /\ ListingNext /\ UNCHANGED <<k8sVars, flagVars, sloVars, streamVars, gateVars, meterVars, stores>>
  /\ UNCHANGED focus

(* Time passes for the workers' quotas, their timers fire and the calls of those that hold *)
(* a slot end, at the latest at their deadline; the cluster answers requests; the interval  *)
(* of a flag cache fires, and its query, tried for ever, succeeds in the end; a flag's      *)
(* write returns.                                                                          *)
QuotaSteps(A) == focus = "quotas" /\ A /\ UNCHANGED <<focus, budgetVars, secretVars, auditVars, obsVars, parts>>
PodsAnswer(c) == focus = "pods" /\ Answered(c) /\ UNCHANGED <<focus, flagVars, sloVars, streamVars, gateVars, meterVars, listingVars, stores>>
FlagsRefresh(p) == focus = "flags" /\ RefreshFlags(p) /\ UNCHANGED <<focus, k8sVars, sloVars, streamVars, gateVars, meterVars, listingVars, stores>>
RefreshesEnd(p) == focus = "flags" /\ Refreshes(p) /\ UNCHANGED <<focus, k8sVars, sloVars, streamVars, gateVars, meterVars, listingVars, stores>>
WritesEnd(p) == focus = "flags" /\ WriteReturns(p) /\ UNCHANGED <<focus, k8sVars, sloVars, streamVars, gateVars, meterVars, listingVars, stores>>

Spec ==
  /\ Init /\ [][Next]_vars
  /\ WF_vars(QuotaSteps(QuotaTick))
  /\ \A w \in Workers : WF_vars(QuotaSteps(QuotaCheck(w))) /\ WF_vars(QuotaSteps(\E ok \in BOOLEAN : Release(w, ok)))
  /\ \A c \in Creates : WF_vars(PodsAnswer(c))
  /\ \A p \in FlagProcs : WF_vars(FlagsRefresh(p)) /\ SF_vars(RefreshesEnd(p)) /\ WF_vars(WritesEnd(p))

-----------------------------------------------------------------------------
(* Neither of the two budgets lets a namespace have more than its limits: the one in the   *)
(* database under concurrent calls, the one in memory across its windows.                   *)
BudgetsHold == AllowedWithinBudget /\ MeterHolds
=============================================================================
