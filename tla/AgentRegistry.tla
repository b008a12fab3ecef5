---------------------------- MODULE AgentRegistry ----------------------------
(***************************************************************************)
(* The agent registry of the API server: the handlers CreateAgent,         *)
(* UpdateAgent, DeleteAgent (agents/handler.ts) and the rollback route     *)
(* (index.ts) over the tables agents and agent_versions                    *)
(* (agents/repository.ts).                                                 *)
(*                                                                         *)
(* Every query names one (namespace, name) pair, so the model follows one  *)
(* pair.  Its rows are told apart by their id: a deleted agent keeps its   *)
(* row and its snapshots, and an agent created later under the same name   *)
(* starts again at version 1.  An update or a rollback is several queries  *)
(* without a transaction, and the requests interleave between them.        *)
(*                                                                         *)
(* spec, labels and annotations are merged, saved and restored alike; Keys *)
(* stands for the keys of all three.  A query can fail, and a query that   *)
(* was carried out can still be reported as failed.                        *)
(***************************************************************************)
EXTENDS Naturals, Sequences, FiniteSets

CONSTANTS
    Requests,
    Ids,        \* the uuids rows can get
    Keys,
    Values,
    Absent      \* no object in the request, no row read, no known writer

Objects == UNION {[K -> Values] : K \in SUBSET Keys}

ASSUME RequestsAssumption == IsFiniteSet(Requests)
ASSUME AbsentAssumption == Absent \notin Objects \cup Ids \cup Requests

VARIABLES
    stage,      \* the query each request is about to make
    body,       \* the object the request carries or, in a rollback, the one it restores
    current,    \* currentAgent: the row an update or a rollback has read
    target,     \* targetVersion of a rollback, 0 in other requests
    status,     \* of each row: "unborn", "live" or "deleted" (deleted_at)
    version,
    content,    \* spec, labels and annotations
    agent_versions,
    log         \* history: the content of each row at each version, and its writer

request == <<stage, body, current, target>>
table == <<status, version, content, log>>
vars == <<request, table, agent_versions>>

Empty == [k \in {} |-> k]
NoRow == [id |-> Absent, version |-> 0, content |-> Empty]
Rows == [id : Ids, version : Nat, content : Objects]
Stages == {"new", "insert", "snapshot", "write", "find", "save", "restore", "ok", "error"}
Answered == {"ok", "error"}

(* The name is free, or holds an agent created earlier with an empty spec. *)
Init ==
    /\ stage = [r \in Requests |-> "new"]
    /\ body = [r \in Requests |-> Absent]
    /\ current = [r \in Requests |-> NoRow]
    /\ target = [r \in Requests |-> 0]
    /\ agent_versions = {}
    /\ \E E \in {{}} \cup {{i} : i \in Ids} :
        /\ status = [i \in Ids |-> IF i \in E THEN "live" ELSE "unborn"]
        /\ version = [i \in Ids |-> IF i \in E THEN 1 ELSE 0]
        /\ log = [i \in Ids |-> IF i \in E THEN <<[content |-> Empty, by |-> Absent]>>
                                             ELSE << >>]
    /\ content = [i \in Ids |-> Empty]

(* WHERE namespace = $1 AND name = $2 AND deleted_at IS NULL *)
Live == {i \in Ids : status[i] = "live"}
Row(i) == [id |-> i, version |-> version[i], content |-> content[i]]

(* The jsonb operator: the keys on the right replace those on the left.    *)
Concat(left, right) ==
    [k \in DOMAIN left \cup DOMAIN right |-> IF k \in DOMAIN right THEN right[k] ELSE left[k]]

Goto(r, s) == stage' = [stage EXCEPT ![r] = s]

(* The answer of a request whose statement was carried out: the handler    *)
(* reports an error if the connection was lost before the reply.           *)
Reply(r) == \E s \in Answered : Goto(r, s)

(* The columns an UPDATE of row i sets, and the history of the write.      *)
Written(i, r, o) ==
    /\ content' = [content EXCEPT ![i] = o]
    /\ log' = [log EXCEPT ![i] = Append(@, [content |-> o, by |-> r])]

UpdateRow(i, r, o) ==
    /\ version' = [version EXCEPT ![i] = @ + 1]
    /\ Written(i, r, o)

(* The row of a request that found one, as a row of agent_versions. *)
VersionSnapshot(r) == current[r]

-----------------------------------------------------------------------------
(* No namespace in the call's metadata, or another one than in the body;   *)
(* a rollback without a version.                                           *)
Refused(r) ==
    /\ stage[r] = "new"
    /\ Goto(r, "error")
    /\ UNCHANGED <<body, current, target, table, agent_versions>>

(* A query that changes nothing and throws: the handler's catch.  A failed *)
(* snapshot is fatal to a rollback only.                                   *)
QueryFails(r) ==
    /\ stage[r] \in {"insert", "write", "find", "save", "restore"}
    /\ Goto(r, "error")
    /\ UNCHANGED <<body, current, target, table, agent_versions>>

CreateLookup(r, o) ==
    /\ stage[r] = "new"
    /\ Goto(r, IF Live = {} THEN "insert" ELSE "error")
    /\ body' = [body EXCEPT ![r] = o]
    /\ UNCHANGED <<current, target, table, agent_versions>>

(* INSERT INTO agents: a live row of the name breaks the unique index.     *)
CreateInsert(r) ==
    /\ stage[r] = "insert"
    /\ \/ /\ Live # {}
          /\ Goto(r, "error")
          /\ UNCHANGED table
       \/ /\ Live = {}
          /\ \E i \in {j \in Ids : status[j] = "unborn"} :
                /\ status' = [status EXCEPT ![i] = "live"]
                /\ UpdateRow(i, r, body[r])
                /\ Reply(r)
    /\ UNCHANGED <<body, current, target, agent_versions>>

(* Without a live row there is nothing to save, and the update goes on.    *)
UpdateLookup(r, o) ==
    /\ stage[r] = "new"
    /\ body' = [body EXCEPT ![r] = o]
    /\ \/ /\ Live = {}
          /\ Goto(r, "write")
          /\ UNCHANGED current
       \/ \E i \in Live :
            /\ current' = [current EXCEPT ![r] = Row(i)]
            /\ Goto(r, "snapshot")
    /\ UNCHANGED <<target, table, agent_versions>>

(* A snapshot that fails does not stop an update.                          *)
UpdateSnapshot(r) ==
    /\ stage[r] = "snapshot"
    /\ \/ agent_versions' = agent_versions \cup {VersionSnapshot(r)}
       \/ UNCHANGED agent_versions
    /\ Goto(r, "write")
    /\ UNCHANGED <<body, current, target, table>>

(* Neither spec nor labels nor annotations: the row is read again. *)
UpdateNothing(r) ==
    /\ stage[r] = "write"
    /\ body[r] = Absent
    /\ Goto(r, IF Live = {} THEN "error" ELSE "ok")
    /\ UNCHANGED <<body, current, target, table, agent_versions>>

(* Mutant: the new object is put together from the row read earlier. *)
UpdateWrite_FromCopy(r) ==
    /\ stage[r] = "write"
    /\ body[r] # Absent
    /\ \/ /\ Live = {}
          /\ Goto(r, "error")
          /\ UNCHANGED table
       \/ \E i \in Live :
            /\ UpdateRow(i, r, Concat(current[r].content, body[r]))
            /\ Reply(r)
            /\ UNCHANGED status
    /\ UNCHANGED <<body, current, target, agent_versions>>

(* Mutant: an update that leaves the version alone. *)
UpdateWrite_SameVersion(r) ==
    /\ stage[r] = "write"
    /\ body[r] # Absent
    /\ \/ /\ Live = {}
          /\ Goto(r, "error")
          /\ UNCHANGED table
       \/ \E i \in Live :
            /\ Written(i, r, Concat(content[i], body[r]))
            /\ Reply(r)
            /\ UNCHANGED <<status, version>>
    /\ UNCHANGED <<body, current, target, agent_versions>>

(* The UPDATE addresses the name: the row may be another one than the one  *)
(* read, and may have moved on since.                                      *)
UpdateWrite(r) ==
    /\ stage[r] = "write"
    /\ body[r] # Absent
    /\ \/ /\ Live = {}
          /\ Goto(r, "error")
          /\ UNCHANGED table
       \/ \E i \in Live :
            /\ UpdateRow(i, r, Concat(content[i], body[r]))
            /\ Reply(r)
            /\ UNCHANGED status
    /\ UNCHANGED <<body, current, target, agent_versions>>

(* getVersion: the query does not order the snapshots of a version, so any *)
(* of them may be the one.  The snapshots of deleted agents are among them.*)
RollbackVersion(r, n) ==
    /\ stage[r] = "new"
    /\ LET found == {s \in agent_versions : s.version = n}
       IN \/ /\ found = {}
             /\ Goto(r, "error")
             /\ UNCHANGED body
          \/ \E s \in found :
                /\ body' = [body EXCEPT ![r] = s.content]
                /\ Goto(r, "find")
    /\ target' = [target EXCEPT ![r] = n]
    /\ UNCHANGED <<current, table, agent_versions>>

RollbackLookup(r) ==
    /\ stage[r] = "find"
    /\ \/ /\ Live = {}
          /\ Goto(r, "error")
          /\ UNCHANGED current
       \/ \E i \in Live :
            /\ current' = [current EXCEPT ![r] = Row(i)]
            /\ Goto(r, "save")
    /\ UNCHANGED <<body, target, table, agent_versions>>

(* Mutant: the current content is not saved. *)
RollbackSnapshot_None(r) ==
    /\ stage[r] = "save"
    /\ Goto(r, "restore")
    /\ UNCHANGED <<body, current, target, agent_versions, table>>

RollbackSnapshot(r) ==
    /\ stage[r] = "save"
    /\ agent_versions' = agent_versions \cup {VersionSnapshot(r)}
    /\ \/ Goto(r, "restore")
       \/ Goto(r, "error")
    /\ UNCHANGED <<body, current, target, table>>

(* Mutant: the restored object is merged into the row. *)
RollbackWrite_Merged(r) ==
    /\ stage[r] = "restore"
    /\ \/ /\ Live = {}
          /\ Goto(r, "error")
          /\ UNCHANGED table
       \/ \E i \in Live :
            /\ UpdateRow(i, r, Concat(content[i], body[r]))
            /\ Reply(r)
            /\ UNCHANGED status
    /\ UNCHANGED <<body, current, target, agent_versions>>

RollbackWrite(r) ==
    /\ stage[r] = "restore"
    /\ \/ /\ Live = {}
          /\ Goto(r, "error")
          /\ UNCHANGED table
       \/ \E i \in Live :
            /\ UpdateRow(i, r, body[r])
            /\ Reply(r)
            /\ UNCHANGED status
    /\ UNCHANGED <<body, current, target, agent_versions>>

(* softDelete: the row stays, and so do its snapshots. *)
DeleteAgent(r) ==
    /\ stage[r] = "new"
    /\ \/ /\ Live = {}
          /\ Goto(r, "error")
          /\ UNCHANGED status
       \/ \E i \in Live :
            /\ status' = [status EXCEPT ![i] = "deleted"]
            /\ Reply(r)
    /\ UNCHANGED <<body, current, target, version, content, log, agent_versions>>

(* The versions a request can ask for: each write adds one. *)
VersionNumbers == 1..(Cardinality(Requests) + 1)

Next ==
    \E r \in Requests :
        \/ Refused(r)
        \/ QueryFails(r)
        \/ \E o \in Objects : CreateLookup(r, o)
        \/ CreateInsert(r)
        \/ \E o \in Objects \cup {Absent} : UpdateLookup(r, o)
        \/ UpdateSnapshot(r)
        \/ UpdateNothing(r)
        \/ UpdateWrite(r)
        \/ \E n \in VersionNumbers : RollbackVersion(r, n)
        \/ RollbackLookup(r)
        \/ RollbackSnapshot(r)
        \/ RollbackWrite(r)
        \/ DeleteAgent(r)

Spec == Init /\ [][Next]_vars

-----------------------------------------------------------------------------
TypeOK ==
    /\ stage \in [Requests -> Stages]
    /\ body \in [Requests -> Objects \cup {Absent}]
    /\ current \in [Requests -> Rows \cup {NoRow}]
    /\ target \in [Requests -> Nat]
    /\ status \in [Ids -> {"unborn", "live", "deleted"}]
    /\ version \in [Ids -> Nat]
    /\ content \in [Ids -> Objects]
    /\ agent_versions \subseteq Rows
    /\ log \in [Ids -> Seq([content : Objects, by : Requests \cup {Absent}])]

(* Two CreateAgent requests that both find the name free make one agent:   *)
(* at most one row of a name is live.                                      *)
OneLiveAgent == \A i, j \in Live : i = j

(* What row i contained at version v. *)
Was(i, v, o) == v \in 1..Len(log[i]) /\ log[i][v].content = o

(* Every snapshot is the content its agent really had at that version,     *)
(* although the row may change or be deleted between the SELECT and the    *)
(* INSERT of the snapshot, and a version can be saved several times.       *)
SnapshotsTruthful == \A s \in agent_versions : Was(s.id, s.version, s.content)

(* An update changes only the keys its request carries: what concurrent    *)
(* updates wrote between its SELECT and its UPDATE stays.                  *)
UpdateLosesNothing ==
    \A i \in Ids : \A v \in 2..Len(log[i]) :
        LET w == log[i][v].by
            before == log[i][v - 1].content
            after == log[i][v].content
        IN target[w] = 0 =>
            /\ DOMAIN before \subseteq DOMAIN after
            /\ \A k \in DOMAIN after \ DOMAIN body[w] :
                    k \in DOMAIN before /\ after[k] = before[k]

(* A rollback puts back, whole, the content an agent of the name had at    *)
(* the version asked for, whatever is written while it runs.               *)
RollbackRestores ==
    \A i \in Ids : \A v \in 1..Len(log[i]) :
        LET w == log[i][v].by
        IN (w \in Requests /\ target[w] # 0) => \E j \in Ids : Was(j, target[w], log[i][v].content)

(* A rollback can be undone: the version it replaced is in the history,    *)
(* unless another request wrote between its SELECT and its UPDATE.         *)
RollbackUndoable ==
    \A i \in Ids : \A v \in 2..Len(log[i]) :
        LET w == log[i][v].by
        IN (target[w] # 0 /\ current[w].id = i /\ current[w].version = v - 1) =>
              [id |-> i, version |-> v - 1, content |-> log[i][v - 1].content]
                \in agent_versions

(* Both halves of what rollbackToVersion promises. *)
RollbackSound == RollbackRestores /\ RollbackUndoable
=============================================================================
