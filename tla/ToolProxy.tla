----------------------------- MODULE ToolProxy -----------------------------
(***************************************************************************)
(* The tool proxy (execution-plane/tool-proxy/src/index.ts) with the       *)
(* sliding-window limiter it shares with the other services                *)
(* (packages/shared/src/rate-limiter.ts).                                  *)
(*                                                                         *)
(* CallTool checks the rate, the arguments and the target in one go, then  *)
(* awaits fetchWithRetry, which repeats the request after a 5xx or a       *)
(* network error.  The 30 s signal covers all attempts: once it has fired  *)
(* every further fetch rejects at once.                                    *)
(***************************************************************************)
EXTENDS Integers, Sequences, FiniteSets, Subsequences

CONSTANTS
    ToolCalls,          \* CallTool requests that can be in progress at once
    maxRequests,        \* of the limiter, per window and key
    rateWindow,         \* windowMs, in ticks
    maxRetries

ASSUME ToolConstants ==
    /\ maxRequests \in Nat \ {0}
    /\ rateWindow \in Nat \ {0}
    /\ maxRetries \in Nat

VARIABLES
    bucket,             \* the ages of the timestamps in the agent's bucket
    toolCalls           \* the calls in progress and the answers not yet taken

toolVars == <<bucket, toolCalls>>

NoToolCall == [pc |-> "idle", attempt |-> 0, timedOut |-> FALSE]

InitTools ==
    /\ bucket = <<>>
    /\ toolCalls = [c \in ToolCalls |-> NoToolCall]

----------------------------------------------------------------------------
(* RateLimiter.                                                            *)

(* timestamps.filter((t) => t > cutoff) *)
Active(s) == Keep(s, {i \in DOMAIN s : s[i] < rateWindow})

Limited == Len(Active(bucket)) >= maxRequests

Check == bucket' = IF Limited THEN Active(bucket) ELSE Append(Active(bucket), 0)

(* The cleanup timer. *)
Cleanup ==
    /\ bucket # Active(bucket)
    /\ bucket' = Active(bucket)
    /\ UNCHANGED toolCalls

----------------------------------------------------------------------------
(* CallTool up to the request.  A request is described by what the checks  *)
(* tell apart, in the order in which they look at it.                      *)

ToolRequest ==
    [tool : {"unknown", "web_fetch", "search", "sandbox"},
     pii : BOOLEAN,
     url : {"none", "private", "unlisted", "listed"},
     ip : {"none", "malformed", "denied", "outside", "inside"},
     argsValid : BOOLEAN]

(* isAllowedSandboxIP: the denied ranges first, then the allowlist. *)
IsAllowedSandboxIP(ip) == ip = "inside"

(* isBlockedURL, and isAllowedWebFetchHost for web_fetch. *)
UrlRefused(r) == r.tool = "web_fetch" /\ r.url \in {"private", "unlisted"}

(* validateSandboxArgs comes after the checks of the address. *)
SandboxRefused(r) ==
    r.tool = "sandbox" /\ (~IsAllowedSandboxIP(r.ip) \/ ~r.argsValid)

Forwarded(r) ==
    /\ r.tool # "unknown"
    /\ ~r.pii
    /\ ~UrlRefused(r) /\ ~SandboxRefused(r)

Answer(c, outcome) == toolCalls' = [toolCalls EXCEPT ![c].pc = outcome]

(* RESOURCE_EXHAUSTED. *)
CallLimited(c) ==
    /\ toolCalls[c].pc = "idle"
    /\ Limited
    /\ Check
    /\ Answer(c, "refused")

(* An unknown tool, PII, a blocked URL or address, or invalid arguments    *)
(* are answered at once; the others go upstream.                           *)
CallAdmitted(c) ==
    /\ toolCalls[c].pc = "idle"
    /\ ~Limited
    /\ Check
    /\ \E forwarded \in {Forwarded(r) : r \in ToolRequest} :
          Answer(c, IF forwarded THEN "fetching" ELSE "refused")

----------------------------------------------------------------------------
(* fetchWithRetry and the answer.                                          *)

Fetching(c) == toolCalls[c].pc = "fetching" /\ ~toolCalls[c].timedOut

(* response.ok: audit entry, "succeeded". *)
FetchOk(c) ==
    /\ Fetching(c)
    /\ Answer(c, "succeeded")
    /\ UNCHANGED bucket

(* A redirect, which is not followed; 4xx, or 5xx at the last attempt: the *)
(* response is returned, "failed".                                         *)
FetchBad(c) ==
    /\ Fetching(c)
    /\ Answer(c, "failed")
    /\ UNCHANGED bucket

(* 5xx, a network error, or fetch rejecting because the signal has fired:  *)
(* another attempt after the back-off, or the error is thrown, audited and *)
(* answered with "failed".                                                 *)
FetchThrows(c) ==
    /\ toolCalls[c].pc = "fetching"
    /\ Answer(c, IF toolCalls[c].attempt < maxRetries THEN "sleeping" ELSE "failed")
    /\ UNCHANGED bucket

(* AbortSignal.timeout fires: its TimeoutError is retried like the others. *)
SignalFires(c) ==
    /\ toolCalls[c].pc \in {"fetching", "sleeping"}
    /\ ~toolCalls[c].timedOut
    /\ toolCalls' = [toolCalls EXCEPT ![c].timedOut = TRUE]
    /\ UNCHANGED bucket

(* Mutation: the attempts are not counted. *)
SleepOver_Uncounted(c) ==
    /\ toolCalls[c].pc = "sleeping"
    /\ toolCalls' = [toolCalls EXCEPT ![c] = [@ EXCEPT !.pc = "fetching"]]
    /\ UNCHANGED bucket

SleepOver(c) ==
    /\ toolCalls[c].pc = "sleeping"
    /\ toolCalls' = [toolCalls EXCEPT ![c].pc = "fetching", ![c].attempt = @ + 1]
    /\ UNCHANGED bucket

FinalAnswers == {"refused", "succeeded", "failed"}

(* The workflow takes the answer. *)
TakeAnswer(c) ==
    /\ toolCalls[c].pc \in FinalAnswers
    /\ toolCalls' = [toolCalls EXCEPT ![c] = NoToolCall]
    /\ UNCHANGED bucket

FetchStep(c) ==
    FetchOk(c) \/ FetchBad(c) \/ FetchThrows(c) \/ SleepOver(c)

(* Ages beyond the window are not told apart. *)
AgeTools ==
    /\ bucket' = [i \in DOMAIN bucket |-> IF bucket[i] < rateWindow THEN bucket[i] + 1 ELSE bucket[i]]
    /\ UNCHANGED toolCalls

(***************************************************************************)
(* Properties.                                                             *)
(***************************************************************************)
(* The type invariant of the proxy's state. *)
ToolTypeOK ==
    /\ bucket \in Seq(0 .. rateWindow)
    /\ toolCalls \in [ToolCalls -> [pc : {"idle", "fetching", "sleeping"} \cup FinalAnswers,
                            attempt : 0 .. maxRetries, timedOut : BOOLEAN]]

=============================================================================
