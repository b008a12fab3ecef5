---------------------------- MODULE MemoryPlane ----------------------------
(***************************************************************************)
(* The memory plane's handlers (memory-plane/src/index.ts) over Redis, the *)
(* PostgreSQL repository (repository.ts) and the write queue.              *)
(*                                                                         *)
(* Redis executes the commands of the one connection in order and its      *)
(* replies resume the handlers in that order.  A Write goes to Redis, and  *)
(* to the queue when the reply arrives; a Delete goes to Redis, and its    *)
(* soft delete to PostgreSQL is not awaited; a Read that misses Redis      *)
(* reads PostgreSQL and then writes what it found back to Redis.  Redis    *)
(* and the queue use the sanitised key, get and delete the key as sent.    *)
(* The memory type is part of the Redis key only: the types of one key     *)
(* share one row, so that a write or a delete of one type acts on what a   *)
(* miss of another type will find, and leaves that type's entry alone.     *)
(* A value is the number of the write it came with.                        *)
(***************************************************************************)
EXTENDS MemoryWriteQueue

CONSTANTS
    Types,          \* memory types, as sanitised
    Keys,           \* memory keys, as sent and as sanitised
    Safe,           \* sanitizeKeyComponent
    Readers,        \* Read calls that can be in progress at once
    MaxDeletes      \* bound: Delete calls

ASSUME SafeAssumption ==
    /\ Safe \in [Keys -> Keys]
    /\ \A k \in Keys : Safe[Safe[k]] = Safe[k]
ASSUME KeysAssumption == Keys # {}
ASSUME TypesAssumption == Types # {}
ASSUME DeletesAssumption == MaxDeletes \in Nat

VARIABLES
    redis,          \* type and sanitised key -> value, or None
    rows,           \* agent_memory: key -> value and whether it is unexpired
    keyOf,          \* the sanitised key of each write
    written,        \* the writes Redis has executed
    replies,        \* replies of Redis the handlers have not seen yet
    reads,          \* the Read calls in progress
    pgDeletes,      \* soft deletes on their way to PostgreSQL
    deletes,        \* Delete calls so far
    truth,          \* history: what the last command on a key, of any type, left
    quiet           \* history: entries deleted everywhere, nothing in flight

queueVars == <<queue, attempts, flusher, op, process, history, db>>
planeVars ==
    <<redis, rows, keyOf, written, replies, reads, pgDeletes, deletes, truth, quiet>>
allVars == <<queueVars, planeVars>>

SafeKeys == {Safe[k] : k \in Keys}
Entries == Types \X SafeKeys

(* egaop:<namespace>:<agent>:<type>:<key>, sanitised. *)
RedisKey(t, k) == <<t, Safe[k]>>

None == 0
Orphan == -1        \* the value of a Write that was answered with an error
NoRow == [val |-> None, live |-> FALSE]
Idle == [pc |-> "idle", type |-> CHOOSE t \in Types : TRUE,
         key |-> CHOOSE k \in Keys : TRUE, val |-> None]

InitMemory ==
    /\ InitQueue
    /\ redis = [e \in Entries |-> None]
    /\ rows = [k \in Keys |-> NoRow]
    /\ keyOf = [w \in Writes |-> CHOOSE k \in SafeKeys : TRUE]
    /\ written = 0
    /\ replies = <<>>
    /\ reads = [r \in Readers |-> Idle]
    /\ pgDeletes = {}
    /\ deletes = 0
    /\ truth = [k \in SafeKeys |-> None]
    /\ quiet = {}

----------------------------------------------------------------------------
(* Write.                                                                  *)

(* redis.setex is executed; the reply is on its way. *)
Write(t, k) ==
    /\ process = "up"
    /\ written < NumWrites
    /\ written' = written + 1
    /\ keyOf' = [keyOf EXCEPT ![written'] = Safe[k]]
    /\ redis' = [redis EXCEPT ![RedisKey(t, k)] = written']
    /\ truth' = [truth EXCEPT ![Safe[k]] = written']
    /\ quiet' = {e \in quiet : e[2] # Safe[k]}
    /\ replies' = Append(replies, [call |-> "write", key |-> Safe[k]])
    /\ UNCHANGED <<queueVars, rows, reads, pgDeletes, deletes>>

(* The reply of setex: enqueue, answer "success". *)
WriteReply ==
    /\ replies # <<>>
    /\ Head(replies).call = "write"
    /\ replies' = Tail(replies)
    /\ Enqueue
    /\ UNCHANGED <<redis, rows, keyOf, written, reads, pgDeletes, deletes, truth, quiet>>

(* setex rejects, executed all the same: answer "error", nothing enqueued. *)
WriteError(t, k) ==
    /\ process = "up"
    /\ redis' = [redis EXCEPT ![RedisKey(t, k)] = Orphan]
    /\ truth' = [truth EXCEPT ![Safe[k]] = Orphan]
    /\ quiet' = quiet \ {RedisKey(t, k)}
    /\ UNCHANGED <<queueVars, rows, keyOf, written, replies, reads, pgDeletes, deletes>>

----------------------------------------------------------------------------
(* Delete.                                                                 *)

(* redis.del is executed. *)
Delete(t, k) ==
    /\ process = "up"
    /\ deletes < MaxDeletes
    /\ deletes' = deletes + 1
    /\ redis' = [redis EXCEPT ![RedisKey(t, k)] = None]
    /\ truth' = [truth EXCEPT ![Safe[k]] = None]
    /\ replies' = Append(replies, [call |-> "delete", key |-> k])
    /\ UNCHANGED <<queueVars, rows, keyOf, written, reads, pgDeletes, quiet>>

(* The reply of del: memRepo.delete is started, not awaited; "success". *)
DeleteReply ==
    /\ replies # <<>>
    /\ Head(replies).call = "delete"
    /\ replies' = Tail(replies)
    /\ pgDeletes' = pgDeletes \cup {Head(replies).key}
    /\ UNCHANGED <<queueVars, redis, rows, keyOf, written, reads, deletes, truth, quiet>>

(* Redis does not hold entry e, no write or deletion of its key is under   *)
(* way, and no read of the entry itself.                                   *)
NothingInFlight(e) ==
    /\ redis[e] = None
    /\ \A w \in Elements(queue) \cup {op} : w # NoOp => keyOf[w] # e[2]
    /\ \A i \in DOMAIN replies : Safe[replies[i].key] # e[2]
    /\ \A r \in Readers : reads[r].pc # "idle" => RedisKey(reads[r].type, reads[r].key) # e

(* MemoryPlaneRepository.delete: expires_at = NOW() where unexpired.  The  *)
(* row was the row of every type.                                          *)
PgDelete(k) ==
    /\ process \in Alive
    /\ k \in pgDeletes
    /\ pgDeletes' = pgDeletes \ {k}
    /\ rows' = [rows EXCEPT ![k].live = FALSE]
    /\ quiet' = quiet \cup
          {e \in Entries : e[2] = k /\ truth[k] = None /\ NothingInFlight(e)}
    /\ UNCHANGED <<queueVars, redis, keyOf, written, replies, reads, deletes, truth>>

(* It rejects: a log line, and the row stays. *)
PgDeleteFails(k) ==
    /\ process \in Alive
    /\ k \in pgDeletes
    /\ pgDeletes' = pgDeletes \ {k}
    /\ UNCHANGED <<queueVars, redis, rows, keyOf, written, replies, reads, deletes, truth, quiet>>

----------------------------------------------------------------------------
(* Read.                                                                   *)

(* redis.get misses: the slow path.  A hit answers and changes nothing. *)
ReadMiss(r, t, k) ==
    /\ process = "up"
    /\ reads[r].pc = "idle"
    /\ redis[RedisKey(t, k)] = None
    /\ reads' = [reads EXCEPT ![r] = [pc |-> "get", type |-> t, key |-> k, val |-> None]]
    /\ UNCHANGED <<queueVars, redis, rows, keyOf, written, replies, pgDeletes, deletes, truth, quiet>>

(* Mutation: get does not look at expires_at. *)
ReadRow_Expired(r) ==
    /\ process \in Alive
    /\ reads[r].pc = "get"
    /\ LET row == rows[reads[r].key]
       IN reads' = [reads EXCEPT ![r] =
                      IF row.val # None THEN [@ EXCEPT !.pc = "backfill", !.val = row.val] ELSE Idle]
    /\ UNCHANGED <<queueVars, redis, rows, keyOf, written, replies, pgDeletes, deletes, truth, quiet>>

(* memRepo.get answers: an unexpired row, whatever type it was written     *)
(* under, is to be written back under the type of the read.                *)
ReadRow(r) ==
    /\ process \in Alive
    /\ reads[r].pc = "get"
    /\ LET row == rows[reads[r].key]
       IN reads' = [reads EXCEPT ![r] =
                      IF row.live THEN [@ EXCEPT !.pc = "backfill", !.val = row.val] ELSE Idle]
    /\ UNCHANGED <<queueVars, redis, rows, keyOf, written, replies, pgDeletes, deletes, truth, quiet>>

(* redis.setex of the value read: Read answers. *)
ReadBackfill(r) ==
    /\ process \in Alive
    /\ reads[r].pc = "backfill"
    /\ redis' = [redis EXCEPT ![RedisKey(reads[r].type, reads[r].key)] = reads[r].val]
    /\ reads' = [reads EXCEPT ![r] = Idle]
    /\ UNCHANGED <<queueVars, rows, keyOf, written, replies, pgDeletes, deletes, truth, quiet>>

(* The query or the backfill rejects: a log line, and Read answers. *)
ReadFails(r) ==
    /\ process \in Alive
    /\ reads[r].pc # "idle"
    /\ reads' = [reads EXCEPT ![r] = Idle]
    /\ UNCHANGED <<queueVars, redis, rows, keyOf, written, replies, pgDeletes, deletes, truth, quiet>>

(* List: what Redis has under the type's prefix, else every unexpired row. *)
ListEntries(t) ==
    LET cached == {k \in SafeKeys : redis[<<t, k>>] # None}
    IN IF cached # {} THEN cached ELSE {k \in Keys : rows[k].live}

----------------------------------------------------------------------------
(* Time, the flush loop and shutdown.                                      *)

(* Every entry is set with setex: its time to live ends. *)
RedisExpire(e) ==
    /\ redis[e] # None
    /\ redis' = [redis EXCEPT ![e] = None]
    /\ UNCHANGED <<queueVars, rows, keyOf, written, replies, reads, pgDeletes, deletes, truth, quiet>>

(* expires_at passes. *)
RowExpires(k) ==
    /\ rows[k].live
    /\ rows' = [rows EXCEPT ![k].live = FALSE]
    /\ UNCHANGED <<queueVars, redis, keyOf, written, replies, reads, pgDeletes, deletes, truth, quiet>>

(* The cleanup interval: DELETE the expired rows. *)
clearExpired ==
    /\ process = "up"
    /\ \E k \in Keys : rows[k].val # None /\ ~rows[k].live
    /\ rows' = [k \in Keys |-> IF rows[k].live THEN rows[k] ELSE NoRow]
    /\ UNCHANGED <<queueVars, redis, keyOf, written, replies, reads, pgDeletes, deletes, truth, quiet>>

(* Mutation: ON CONFLICT DO NOTHING. *)
Upsert_DoNothing(w) ==
    rows' = [rows EXCEPT ![keyOf[w]] =
               IF @.live THEN @ ELSE [val |-> w, live |-> TRUE]]

(* MemoryPlaneRepository.set: INSERT ... ON CONFLICT DO UPDATE. *)
Upsert(w) == rows' = [rows EXCEPT ![keyOf[w]] = [val |-> w, live |-> TRUE]]

(* A step of the queue's flush loop, and what PostgreSQL did with it. *)
FlushStep ==
    /\ Flush
    /\ IF db' # db THEN Upsert(op) ELSE UNCHANGED rows
    /\ UNCHANGED <<redis, keyOf, written, replies, reads, pgDeletes, deletes, truth, quiet>>

(* SIGTERM; dispose() when tryShutdown has seen the last call end. *)
Stop ==
    /\ \/ Shutdown
       \/ /\ Dispose
          /\ replies = <<>>
          /\ \A r \in Readers : reads[r].pc = "idle"
       \/ CleanExit
       \/ ForcedExit
    /\ UNCHANGED planeVars

Replies == WriteReply \/ DeleteReply
ReadStep(r) == ReadRow(r) \/ ReadBackfill(r) \/ ReadFails(r)

NextMemory ==
    \/ \E t \in Types, k \in Keys : Write(t, k) \/ WriteError(t, k) \/ Delete(t, k)
    \/ Replies
    \/ \E k \in Keys : PgDelete(k) \/ PgDeleteFails(k) \/ RowExpires(k)
    \/ \E r \in Readers, t \in Types, k \in Keys : ReadMiss(r, t, k)
    \/ \E r \in Readers : ReadStep(r)
    \/ \E e \in Entries : RedisExpire(e)
    \/ clearExpired
    \/ FlushStep
    \/ Stop

(* Replies arrive, queries end, timers fire, and every Redis entry has a   *)
(* time to live.  Clients, the shutdown and the cleanup owe nothing.       *)
FairMemory ==
    /\ WF_allVars(FlushStep)
    /\ WF_allVars(Replies)
    /\ \A r \in Readers : WF_allVars(ReadStep(r))
    /\ \A e \in Entries : WF_allVars(RedisExpire(e))

SpecMemory == InitMemory /\ [][NextMemory]_allVars /\ FairMemory

(***************************************************************************)
(* Properties.                                                             *)
(***************************************************************************)
(* The type invariant of the handlers' state, with the queue's. *)
MemoryTypeOK ==
    /\ TypeOK
    /\ redis \in [Entries -> Writes \cup {None, Orphan}]
    /\ rows \in [Keys -> [val : Writes \cup {None}, live : BOOLEAN]]
    /\ keyOf \in [Writes -> SafeKeys]
    /\ written \in accepted .. NumWrites
    /\ replies \in Seq([call : {"write", "delete"}, key : Keys])
    /\ reads \in [Readers -> [pc : {"idle", "get", "backfill"}, type : Types, key : Keys,
                              val : Writes \cup {None}]]
    /\ pgDeletes \subseteq Keys
    /\ deletes \in 0 .. MaxDeletes
    /\ truth \in [SafeKeys -> Writes \cup {None, Orphan}]
    /\ quiet \subseteq Entries

(* The last word on key k is a Write that succeeded, nothing was lost on   *)
(* the way and the process lives.                                          *)
LastWriteStands(k) ==
    truth[k] \in Writes /\ dropped = {} /\ failed = {} /\ process \in Alive

(* Redis and PostgreSQL converge: once the clients have made their writes, *)
(* the queue has drained in order and every older value in Redis has       *)
(* expired, whether a Read wrote it back after a newer Write (the backfill *)
(* of Read) or it stood under another type of the key, which the newer     *)
(* Write did not touch: the row and the entries of all types then hold the *)
(* last write of the key or nothing at all.                                *)
Converges ==
    <>[](\A k \in SafeKeys : LastWriteStands(k) =>
            /\ \A t \in Types : redis[<<t, k>>] \in {None, truth[k]}
            /\ rows[k].live => rows[k].val = truth[k]
            /\ queue = <<>>)

(* An entry that Redis does not hold when a deletion of its key reaches    *)
(* PostgreSQL, under whatever type, with no write of the key and no read   *)
(* of the entry under way, stays deleted for Read and for List until the   *)
(* key is written again under any type: no queued write, no backfill and   *)
(* nothing another type still has in Redis brings it back.                 *)
DeletedStaysDeleted ==
    /\ MemoryTypeOK
    /\ \A e \in quiet : redis[e] = None /\ ~rows[e[2]].live /\ e[2] \notin ListEntries(e[1])
=============================================================================
