----------------------------- MODULE AgentListing -----------------------------
(***************************************************************************)
(* ListAgents (api-server/src/agents/handler.ts) over listByNamespace      *)
(* (agents/repository.ts): a caller walks through the agents of a          *)
(* namespace that pass its filter, page by page in the order of their      *)
(* ids, with the last id of a full page as the cursor of the next.  A page *)
(* counts first and reads then, in two queries.  Ids are random, so a new  *)
(* agent may come before the cursor as well as after it.                   *)
(***************************************************************************)
EXTENDS Naturals, Sequences, FiniteSets, SequencesExt, Subsequences

CONSTANTS
  AgentIds,       \* ids, in the order PostgreSQL compares them
  PageSizes,      \* page sizes a caller asks for (0: none given)
  DefaultSize,    \* 50
  LargestSize,    \* 100
  MaxChanges      \* bound: changes of the table

ASSUME ListingAssumption ==
  /\ AgentIds \subseteq Nat \ {0} /\ IsFiniteSet(AgentIds) /\ PageSizes \subseteq Nat
  /\ DefaultSize \in Nat \ {0} /\ LargestSize \in Nat \ {0} /\ MaxChanges \in Nat

VARIABLES
  agentRow,   \* per id: "none", "matching" (live and passes the filter), "other" (live) or "deleted"
  listing,    \* the caller's walk
  changes     \* number of changes of the table

listingVars == <<agentRow, listing, changes>>

NoListing == [pc |-> "idle", size |-> 1, cursor |-> 0, total |-> 0, shown |-> <<>>, stable |-> {}, reads |-> 0]

(* The type invariant. *)
ListingTypeOK ==
  /\ agentRow \in [AgentIds -> {"none", "matching", "other", "deleted"}]
  /\ listing.pc \in {"idle", "count", "select", "done"} /\ listing.size \in 1 .. LargestSize
  /\ listing.cursor \in AgentIds \cup {0} /\ listing.total \in 0 .. Cardinality(AgentIds)
  /\ listing.shown \in Seq(AgentIds) /\ listing.stable \subseteq AgentIds

(* Any agents exist already. *)
ListingInit ==
  /\ agentRow \in [AgentIds -> {"none", "matching"}]
  /\ listing = NoListing /\ changes = 0

-----------------------------------------------------------------------------
Smaller(a, b) == IF a < b THEN a ELSE b

(* ListAgents: page_size || 50, at most 100; no cursor yet. *)
ListAgents(n) ==
  /\ listing.pc = "idle"
  /\ listing' = [NoListing EXCEPT !.pc = "count",
                   !.size = Smaller(IF n = 0 THEN DefaultSize ELSE n, LargestSize),
                   !.stable = {i \in AgentIds : agentRow[i] = "matching"}]
  /\ UNCHANGED <<agentRow, changes>>

(* The condition both queries share: it contains the cursor. *)
WhereClause == {i \in AgentIds : agentRow[i] = "matching" /\ i > listing.cursor}

CountRows ==
  /\ listing.pc = "count"
  /\ listing' = [listing EXCEPT !.pc = "select", !.total = Cardinality(WhereClause)]
  /\ UNCHANGED <<agentRow, changes>>

(* Mutation: the count, taken by the query before, decides whether there are more. *)
NextCursorOf_Count(page) == IF Len(page) = listing.size /\ Len(page) < listing.total THEN page[Len(page)] ELSE 0
(* The last id of a full page is the next cursor; "" ends the walk. *)
NextCursorOf(page) == IF Len(page) = listing.size THEN page[Len(page)] ELSE 0

ListByNamespace ==
  LET rest == InOrder(WhereClause)
      page == SubSeq(rest, 1, Smaller(listing.size, Len(rest)))
  IN /\ listing.pc = "select"
     /\ listing' = [listing EXCEPT !.pc = IF NextCursorOf(page) = 0 THEN "done" ELSE "count",
                      !.cursor = NextCursorOf(page), !.shown = @ \o page, !.reads = @ + 1]
     /\ UNCHANGED <<agentRow, changes>>

(* The other requests: an agent is created, changes so that it passes the filter or does not  *)
(* any more, or is soft-deleted.                                                             *)
AgentChanges(i, to) ==
  /\ changes < MaxChanges /\ changes' = changes + 1
  /\ \/ agentRow[i] = "none" /\ to \in {"matching", "other"}
     \/ agentRow[i] \in {"matching", "other"} /\ to \in {"matching", "other", "deleted"} \ {agentRow[i]}
  /\ agentRow' = [agentRow EXCEPT ![i] = to]
  /\ listing' = [listing EXCEPT !.stable = @ \ {i}]

ListingNext ==
  \/ \E n \in PageSizes : ListAgents(n)
  \/ CountRows \/ ListByNamespace
  \/ \E i \in AgentIds, to \in {"matching", "other", "deleted"} : AgentChanges(i, to)

-----------------------------------------------------------------------------
(* However agents come, go and change between the queries of a walk and between its pages: it *)
(* shows nobody twice, has shown by its end everybody who passed the filter all the time, and *)
(* is over after at most one page more than full ones are needed for what it showed.          *)
AgentsWalked ==
  /\ ListingTypeOK
  /\ \A a, b \in 1 .. Len(listing.shown) : a < b => listing.shown[a] < listing.shown[b]
  /\ listing.pc = "done" => listing.stable \subseteq ToSet(listing.shown)
  /\ listing.reads <= (Len(listing.shown) \div listing.size) + 1
=============================================================================
