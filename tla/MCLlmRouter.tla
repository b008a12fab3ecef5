---------------------------- MODULE MCLlmRouter ----------------------------
(***************************************************************************)
(* Two Generate requests and a stream of one agent for one slot, over two  *)
(* providers: one is queued behind one that runs while the third arrives,  *)
(* and the chains share the breaker of the second provider.                *)
(***************************************************************************)
EXTENDS LlmRouter

CONSTANTS r1, r2, r3, agent, gpt, claude, openai, anthropic

MCRequests == {r1, r2, r3}
MCStreaming == {r2}
MCAgents == {agent}
MCAgent == [r \in MCRequests |-> agent]
MCModels == {gpt, claude}
MCProviders == {openai, anthropic}
MCPreferred == [r \in MCRequests |-> IF r = r1 THEN gpt ELSE claude]
MCDetectProvider == [m \in MCModels |-> IF m = gpt THEN openai ELSE anthropic]
MCQuietOnAbort == {openai}
MCChain == <<gpt>>
MCMaxRetries == [p \in MCProviders |-> 1]
MCPrompts == {<<>>, <<"medium", "critical">>}
=============================================================================
