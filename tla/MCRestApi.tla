------------------------------- MODULE MCRestApi -------------------------------
(***************************************************************************)
(* RestApi for TLC.  "focus" is the part that moves: the calls against the *)
(* clock and the rate limit ("limits": every call deletes a policy), the   *)
(* rows of all routes ("rows": the SDK's calls on the same tables, within  *)
(* one window), or the list of executions ("lists").                       *)
(***************************************************************************)
EXTENDS RestApi

VARIABLE focus

mcVars == <<focus, restVars>>

Init ==
  /\ focus \in {"limits", "rows", "lists"}
  /\ RestInit
  /\ focus # "limits" => window = Max(Windows)

(* The routes that share rows. *)
Tables ==
  {{"createNamespace", "updateNamespace", "deleteNamespace"}, {"createPolicy", "updatePolicy", "deletePolicy"},
   {"createChannel", "updateChannel", "deleteChannel", "createRule", "updateRule", "deleteRule"},
   {"createAgent", "updateAgent", "deleteAgent", "runAgent", "rollbackAgent"}}

Next ==
  /\ RestNext
  /\ focus = "limits" => \A k \in Calls : calls'[k].client # "idle" => calls'[k].op.kind = "deletePolicy"
  /\ focus = "lists" => UNCHANGED <<calls, namespaces, rateVars>>
  /\ focus = "limits" => UNCHANGED <<namespaces, runs>>
  /\ focus = "rows" =>
       /\ UNCHANGED <<minute, due, runs>> /\ \A k \in Calls : calls'[k].who = "sdk"
       /\ \E T \in Tables : \A k \in Calls : calls'[k].client # "idle" => calls'[k].op.kind \in T
  /\ UNCHANGED focus

Spec == Init /\ [][Next]_mcVars /\ \A k \in Calls : WF_mcVars(Serves(k) /\ UNCHANGED focus)
=============================================================================
