----------------------------- MODULE FeatureFlags -----------------------------
(***************************************************************************)
(* Feature flags (packages/shared/src/feature-flags): a row of the table   *)
(* and the copy each process keeps of it.  isEnabled asks the copy only;   *)
(* upsertFlag and deleteFlag write the table and then their own process's  *)
(* copy; every process reads the whole table again at an interval.  Other  *)
(* writes and refreshes come between a query and the use of its result.    *)
(***************************************************************************)
EXTENDS Naturals, FiniteSets

CONSTANTS
  FlagProcs,       \* processes whose copy is watched; others write the table as well
  FlagInputs,      \* inputs of upsertFlag: the fields given, and their values
  MaxFlagWrites    \* bound on upserts and deletes

Rows == [enabled : BOOLEAN, rollout : 0 .. 2, restricted : BOOLEAN]

ASSUME FlagAssumption ==
  /\ IsFiniteSet(FlagProcs) /\ MaxFlagWrites \in Nat
  /\ FlagInputs \subseteq [fields : SUBSET {"enabled", "rollout", "restricted"}, row : Rows]

VARIABLES
  flagRow,     \* the row of the flag, or NoFlag
  flagCache,   \* per process, its copy
  refreshes,   \* per process, the results of refreshFlags' query not yet in the copy
  flagWrite,   \* per process, the upsert or delete whose query has run: what it leaves in the copy
  cacheTimer,  \* per process, the interval is set
  flagWrites   \* writes so far

flagVars == <<flagRow, flagCache, refreshes, flagWrite, cacheTimer, flagWrites>>

(* rollout 0, 1, 2 stand for no, some and a hundred percent: the hash of u0 is below any  *)
(* positive percentage, that of u1 only below a hundred.  restricted: for some roles or   *)
(* namespaces, which the caller has or not (allowed).                                     *)
NoFlag == [enabled |-> FALSE, rollout |-> 0, restricted |-> FALSE, none |-> TRUE]
Copies == Rows \cup {NoFlag}
NoFlagWrite == [busy |-> FALSE, flag |-> NoFlag]
Contexts == [user : {"anonymous", "u0", "u1"}, allowed : BOOLEAN]

FlagTypeOK ==
  /\ flagRow \in Copies /\ flagCache \in [FlagProcs -> Copies]
  /\ \A p \in FlagProcs : refreshes[p] \subseteq Copies /\ flagWrite[p] \in [busy : BOOLEAN, flag : Copies]
  /\ cacheTimer \in [FlagProcs -> BOOLEAN] /\ flagWrites \in 0 .. MaxFlagWrites

FlagInit ==
  /\ flagRow = NoFlag
  /\ flagCache = [p \in FlagProcs |-> NoFlag]
  /\ refreshes = [p \in FlagProcs |-> {}]
  /\ flagWrite = [p \in FlagProcs |-> NoFlagWrite]
  /\ cacheTimer = [p \in FlagProcs |-> FALSE]
  /\ flagWrites = 0

-----------------------------------------------------------------------------
(* isEnabled: a full rollout needs no user, a partial one a user whose hash is below it. *)
CheckAccess(flag, ctx) == flag.restricted => ctx.allowed
HashBelow(ctx, rollout) == CASE ctx.user = "u0" -> 0 < rollout
                             [] ctx.user = "u1" -> 1 < rollout
                             [] OTHER -> FALSE
IsEnabled(flag, ctx) ==
  /\ flag # NoFlag /\ flag.enabled
  /\ flag.rollout = 2 \/ HashBelow(ctx, flag.rollout)
  /\ CheckAccess(flag, ctx)

(* refreshFlags: the query, then the copy is cleared and filled from its rows. *)
StartRefresh(p) ==
  /\ Cardinality(refreshes[p]) < 2
  /\ refreshes' = [refreshes EXCEPT ![p] = @ \cup {flagRow}]

Refreshed_Merges(p, row) == IF row = NoFlag THEN flagCache[p] ELSE row
Refreshed(p, row) == row

RefreshFlags(p) == cacheTimer[p] /\ StartRefresh(p) /\ UNCHANGED <<flagRow, flagCache, flagWrite, cacheTimer, flagWrites>>

EndRefresh(p, row) ==
  /\ row \in refreshes[p]
  /\ refreshes' = [refreshes EXCEPT ![p] = @ \ {row}]
  /\ flagCache' = [flagCache EXCEPT ![p] = Refreshed(p, row)]
  /\ UNCHANGED <<flagRow, flagWrite, cacheTimer, flagWrites>>

RefreshFails(p, row) ==
  /\ row \in refreshes[p]
  /\ refreshes' = [refreshes EXCEPT ![p] = @ \ {row}]
  /\ UNCHANGED <<flagRow, flagCache, flagWrite, cacheTimer, flagWrites>>

-----------------------------------------------------------------------------
(* upsertFlag: the parameters left out become defaults before the query, so that its     *)
(* COALESCE never keeps what the row had.                                                *)
WithDefaults(input) ==
  [enabled |-> "enabled" \in input.fields /\ input.row.enabled,
   rollout |-> IF "rollout" \in input.fields THEN input.row.rollout ELSE 0,
   restricted |-> "restricted" \in input.fields /\ input.row.restricted]

WriteRow(p, row) ==
  /\ ~flagWrite[p].busy /\ flagWrites < MaxFlagWrites
  /\ flagRow' = row /\ flagWrites' = flagWrites + 1
  /\ flagWrite' = [flagWrite EXCEPT ![p] = [busy |-> TRUE, flag |-> row]]
  /\ UNCHANGED <<flagCache, refreshes, cacheTimer>>

Upserted == {WithDefaults(i) : i \in FlagInputs}
UpsertFlag(p) == \E row \in Upserted : WriteRow(p, row)
DeleteFlag(p) == WriteRow(p, NoFlag)

(* The same by a process that is not watched. *)
WrittenElsewhere(row) ==
  /\ flagWrites < MaxFlagWrites /\ row # flagRow
  /\ flagRow' = row /\ flagWrites' = flagWrites + 1
  /\ UNCHANGED <<flagCache, refreshes, flagWrite, cacheTimer>>

(* The query has answered: the copy is set, or the flag dropped from it. *)
WriteReturns(p) ==
  /\ flagWrite[p].busy
  /\ flagCache' = [flagCache EXCEPT ![p] = flagWrite[p].flag]
  /\ flagWrite' = [flagWrite EXCEPT ![p] = NoFlagWrite]
  /\ UNCHANGED <<flagRow, refreshes, cacheTimer, flagWrites>>

(* The answer of the query is lost: the call throws and the copy stays. *)
WriteThrows(p) ==
  /\ flagWrite[p].busy
  /\ flagWrite' = [flagWrite EXCEPT ![p] = NoFlagWrite]
  /\ UNCHANGED <<flagRow, flagCache, refreshes, cacheTimer, flagWrites>>

StartCacheAutoRefresh(p) ==
  /\ ~cacheTimer[p] /\ cacheTimer' = [cacheTimer EXCEPT ![p] = TRUE]
  /\ StartRefresh(p)
  /\ UNCHANGED <<flagRow, flagCache, flagWrite, flagWrites>>

StopCacheAutoRefresh(p) ==
  /\ cacheTimer[p] /\ cacheTimer' = [cacheTimer EXCEPT ![p] = FALSE]
  /\ UNCHANGED <<flagRow, flagCache, refreshes, flagWrite, flagWrites>>

FlagNext ==
  \/ \E row \in Upserted \cup {NoFlag} : WrittenElsewhere(row)
  \/ \E p \in FlagProcs :
       \/ RefreshFlags(p) \/ UpsertFlag(p) \/ DeleteFlag(p) \/ WriteReturns(p) \/ WriteThrows(p)
       \/ StartCacheAutoRefresh(p) \/ StopCacheAutoRefresh(p)
       \/ \E row \in Copies : EndRefresh(p, row) \/ RefreshFails(p, row)

(* The interval fires, and not every query of a refresh fails. *)
Refreshes(p) == \E row \in Copies : EndRefresh(p, row)

-----------------------------------------------------------------------------
(* In a process that goes on refreshing, isEnabled comes to answer for ever as the table *)
(* says, although a refresh begun before a write can undo what the write left in the     *)
(* copy, a write's answer can be lost, and other processes write too.                    *)
FlagsConverge ==
  /\ []FlagTypeOK
  /\ \A p \in FlagProcs :
       <>[]cacheTimer[p] =>
         <>[](\A ctx \in Contexts : IsEnabled(flagCache[p], ctx) = IsEnabled(flagRow, ctx))
=============================================================================
