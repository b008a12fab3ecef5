------------------------- MODULE AgentRegistryProofs -------------------------
(***************************************************************************)
(* Proofs about AgentRegistry for any number of requests, rows, keys and   *)
(* values.                                                                 *)
(*                                                                         *)
(* The history log is what the properties speak of, and it only grows, so  *)
(* whatever a request once read stays true of it (WasKept).  The inductive *)
(* invariant says what every request still under way knows: its copy of    *)
(* the row was the row at that version, what a rollback is about to        *)
(* restore was the content at the version asked for, and the row it read   *)
(* is in agent_versions before it writes.                                  *)
(***************************************************************************)
EXTENDS AgentRegistry, TLAPS

(* The row is the newest entry of its history. *)
RowsAgree ==
    \A i \in Ids :
        /\ version[i] = Len(log[i])
        /\ version[i] # 0 => log[i][version[i]].content = content[i]
        /\ status[i] = "unborn" <=> version[i] = 0

(* What a request holds. *)
Knows(r) ==
    /\ stage[r] \in {"snapshot", "save", "restore"} => current[r] \in Rows
    /\ current[r] \in Rows => Was(current[r].id, current[r].version, current[r].content)
    /\ stage[r] = "insert" => body[r] \in Objects
    /\ stage[r] \in {"new", "insert", "snapshot", "write"} => target[r] = 0
    /\ stage[r] \in {"find", "save", "restore"} =>
          /\ target[r] # 0
          /\ body[r] \in Objects
          /\ \E j \in Ids : Was(j, target[r], body[r])
    /\ stage[r] = "restore" => current[r] \in agent_versions

RequestsKnow == \A r \in Requests : Knows(r)

(* A request that has written is answered and changes no more. *)
WritersAnswered ==
    \A i \in Ids : \A v \in 1..Len(log[i]) :
        log[i][v].by \in Requests => stage[log[i][v].by] \in Answered

(* Only the entry of a row created earlier has no known writer. *)
WritersKnown ==
    \A i \in Ids : \A v \in 2..Len(log[i]) : log[i][v].by \in Requests

(* What the requests' history says: the properties that concern it. *)
HistoryKept == UpdateLosesNothing /\ RollbackRestores /\ RollbackUndoable

IInv == /\ TypeOK
        /\ RowsAgree
        /\ RequestsKnow
        /\ WritersAnswered
        /\ WritersKnown
        /\ OneLiveAgent
        /\ SnapshotsTruthful
        /\ HistoryKept

Entries == [content : Objects, by : Requests \cup {Absent}]

-----------------------------------------------------------------------------
(* The empty object and the merge of two objects are objects (jsonb ||).   *)
LEMMA EmptyObject == Empty \in Objects
<1>1. Empty \in [{} -> Values]
  BY DEF Empty
<1> QED
  BY <1>1 DEF Objects

LEMMA ConcatObject ==
    ASSUME NEW a \in Objects, NEW b \in Objects
    PROVE  Concat(a, b) \in Objects
<1>1. PICK A \in SUBSET Keys : a \in [A -> Values]
  BY DEF Objects
<1>2. PICK B \in SUBSET Keys : b \in [B -> Values]
  BY DEF Objects
<1>3. Concat(a, b) \in [A \cup B -> Values]
  BY <1>1, <1>2 DEF Concat
<1> QED
  BY <1>3 DEF Objects

(* A row read is not the absent row. *)
LEMMA NoRowIsNone == NoRow \notin Rows
BY AbsentAssumption DEF NoRow, Rows

(* Appending an entry to the history of one row. *)
LEMMA AppendEntry ==
    ASSUME TypeOK, NEW i \in Ids, NEW e \in Entries,
           log' = [log EXCEPT ![i] = Append(@, e)]
    PROVE  /\ log' \in [Ids -> Seq(Entries)]
           /\ Len(log'[i]) = Len(log[i]) + 1
           /\ log'[i][Len(log[i]) + 1] = e
           /\ \A v \in 1..Len(log[i]) : log'[i][v] = log[i][v]
           /\ \A j \in Ids \ {i} : log'[j] = log[j]
<1>1. log[i] \in Seq(Entries) /\ log'[i] = Append(log[i], e)
  BY DEF TypeOK, Entries
<1>2. log' \in [Ids -> Seq(Entries)]
  <2>1. Append(log[i], e) \in Seq(Entries)
    BY <1>1
  <2>2. log \in [Ids -> Seq(Entries)]
    BY DEF TypeOK, Entries
  <2> QED
    BY <2>1, <2>2
<1>3. \A j \in Ids \ {i} : log'[j] = log[j]
  BY DEF TypeOK
<1> QED
  BY <1>1, <1>2, <1>3

(* The history never forgets: an entry stays when another is added. *)
LEMMA WasKept ==
    ASSUME TypeOK, NEW i \in Ids, NEW e \in Entries,
           log' = [log EXCEPT ![i] = Append(@, e)],
           NEW j \in Ids, NEW v \in Nat, NEW o, Was(j, v, o)
    PROVE  Was(j, v, o)'
<1>1. Len(log[j]) \in Nat /\ Len(log[i]) \in Nat
  BY DEF TypeOK
<1> QED
  BY <1>1, AppendEntry DEF Was

-----------------------------------------------------------------------------
(* The invariant holds initially, with the name free or taken. *)
LEMMA InitInv == Init => IInv
<1> SUFFICES ASSUME Init PROVE IInv
  OBVIOUS
<1>1. PICK E \in {{}} \cup {{i} : i \in Ids} :
        /\ status = [i \in Ids |-> IF i \in E THEN "live" ELSE "unborn"]
        /\ version = [i \in Ids |-> IF i \in E THEN 1 ELSE 0]
        /\ log = [i \in Ids |-> IF i \in E THEN <<[content |-> Empty, by |-> Absent]>>
                                             ELSE << >>]
  BY DEF Init
<1>2. \A i \in Ids : log[i] \in Seq(Entries)
  <2>1. [content |-> Empty, by |-> Absent] \in Entries
    BY EmptyObject DEF Entries
  <2> QED
    BY <1>1, <2>1
<1>3. TypeOK
  BY <1>1, <1>2, EmptyObject DEF Init, TypeOK, Stages, Entries
<1>4. \A i \in Ids : /\ Len(log[i]) = IF i \in E THEN 1 ELSE 0
                     /\ i \in E => log[i][1] = [content |-> Empty, by |-> Absent]
  BY <1>1
<1>5. RowsAgree
  BY <1>1, <1>4 DEF Init, RowsAgree
<1>6. RequestsKnow /\ WritersAnswered /\ WritersKnown
  BY <1>4, NoRowIsNone, AbsentAssumption
     DEF Init, RequestsKnow, Knows, WritersAnswered, WritersKnown
<1>7. OneLiveAgent
  BY <1>1 DEF OneLiveAgent, Live
<1>8. SnapshotsTruthful /\ UpdateLosesNothing /\ RollbackRestores /\ RollbackUndoable
  BY <1>4, AbsentAssumption
     DEF Init, SnapshotsTruthful, UpdateLosesNothing, RollbackRestores, RollbackUndoable
<1> QED
  BY <1>3, <1>5, <1>6, <1>7, <1>8 DEF IInv, HistoryKept

-----------------------------------------------------------------------------
(* The requests other than r are where they were. *)
OthersStay(r) ==
    \A q \in Requests \ {r} :
        /\ stage'[q] = stage[q]
        /\ body'[q] = body[q]
        /\ current'[q] = current[q]
        /\ target'[q] = target[q]

(* A request that has not written yet is the writer of no entry. *)
LEMMA NotYetWriter ==
    ASSUME IInv, NEW r \in Requests, stage[r] \notin Answered,
           NEW i \in Ids, NEW v \in 1..Len(log[i])
    PROVE  log[i][v].by # r
BY DEF IInv, WritersAnswered

(* A step of a request that leaves both tables alone, or only adds the row *)
(* it has read to agent_versions, keeps the invariant if the request knows *)
(* afterwards what its new stage needs.                                    *)
LEMMA MoveInv ==
    ASSUME IInv, NEW r \in Requests, stage[r] \notin Answered, OthersStay(r),
           TypeOK', Knows(r)', OneLiveAgent',
           UNCHANGED <<version, content, log>>,
           \A i \in Ids : status'[i] = "unborn" <=> status[i] = "unborn",
           \/ agent_versions' = agent_versions
           \/ current[r] \in Rows /\ agent_versions' = agent_versions \cup {current[r]}
    PROVE  IInv'
<1> USE DEF IInv
<1>1. RowsAgree'
  BY DEF RowsAgree
<1>2. RequestsKnow'
  BY DEF RequestsKnow, Knows, OthersStay, Was
<1>3. WritersAnswered' /\ WritersKnown'
  BY NotYetWriter DEF WritersAnswered, WritersKnown, OthersStay
<1>4. SnapshotsTruthful'
  BY DEF SnapshotsTruthful, RequestsKnow, Knows, Was
<1>5. \A i \in Ids : \A v \in 1..Len(log[i]) :
        log[i][v].by \in Requests =>
            /\ body'[log[i][v].by] = body[log[i][v].by]
            /\ current'[log[i][v].by] = current[log[i][v].by]
            /\ target'[log[i][v].by] = target[log[i][v].by]
  BY NotYetWriter DEF OthersStay
<1>6. \A i \in Ids : Len(log[i]) \in Nat
  BY DEF TypeOK
<1>7. UpdateLosesNothing'
  BY <1>5, <1>6 DEF UpdateLosesNothing, HistoryKept, WritersKnown
<1>8. RollbackRestores'
  BY <1>5, <1>6 DEF RollbackRestores, HistoryKept, Was
<1>9. RollbackUndoable'
  <2> SUFFICES ASSUME NEW i \in Ids, NEW v \in 2..Len(log[i]),
                      target'[log[i][v].by] # 0,
                      current'[log[i][v].by].id = i,
                      current'[log[i][v].by].version = v - 1
               PROVE  [id |-> i, version |-> v - 1, content |-> log[i][v - 1].content]
                        \in agent_versions
    BY DEF RollbackUndoable
  <2>1. log[i][v].by \in Requests
    BY DEF WritersKnown
  <2>2. /\ target[log[i][v].by] # 0
        /\ current[log[i][v].by].id = i
        /\ current[log[i][v].by].version = v - 1
    BY <1>5, <1>6, <2>1
  <2> QED
    BY <2>2 DEF RollbackUndoable, HistoryKept
<1> QED
  BY <1>1, <1>2, <1>3, <1>4, <1>7, <1>8, <1>9 DEF HistoryKept

(* A write of row i by request r, which is answered with it, keeps the     *)
(* invariant if what it writes is what an update or a rollback may write.  *)
LEMMA WriteInv ==
    ASSUME IInv, NEW r \in Requests, NEW i \in Ids, NEW o \in Objects,
           NEW a \in Answered, Goto(r, a),
           stage[r] \in {"insert", "write", "restore"},
           UpdateRow(i, r, o),
           UNCHANGED <<body, current, target, agent_versions>>,
           status' = [status EXCEPT ![i] = "live"],
           \A j \in Live : j = i,
           version[i] # 0 => stage[r] # "insert",
           stage[r] = "write" => o = Concat(content[i], body[r]) /\ body[r] \in Objects,
           stage[r] = "restore" => o = body[r]
    PROVE  IInv'
<1> DEFINE e == [content |-> o, by |-> r]
           n == Len(log[i])
<1>1. /\ e \in Entries
      /\ log' = [log EXCEPT ![i] = Append(@, e)]
      /\ version' = [version EXCEPT ![i] = @ + 1]
      /\ content' = [content EXCEPT ![i] = o]
      /\ stage' = [stage EXCEPT ![r] = a]
  BY DEF UpdateRow, Written, Entries, Goto
<1>2. TypeOK
  BY DEF IInv
<1>3. /\ log' \in [Ids -> Seq(Entries)]
      /\ Len(log'[i]) = n + 1
      /\ log'[i][n + 1] = e
      /\ \A v \in 1..n : log'[i][v] = log[i][v]
      /\ \A j \in Ids \ {i} : log'[j] = log[j]
  BY <1>1, <1>2, AppendEntry
<1>4. n \in Nat /\ \A j \in Ids : Len(log[j]) \in Nat
  BY <1>2 DEF TypeOK
<1> HIDE DEF e, n
<1>5. e.content = o /\ e.by = r
  BY DEF e
<1>6. \A j \in Ids, v \in Nat : \A c : Was(j, v, c) => Was(j, v, c)'
  BY <1>1, <1>2, WasKept
<1>7. stage[r] \notin Answered /\ Answered \subseteq Stages
  BY DEF Answered, Stages
<1>8. TypeOK'
  <2>1. version' \in [Ids -> Nat] /\ content' \in [Ids -> Objects]
    BY <1>1, <1>2 DEF TypeOK
  <2>2. stage' \in [Requests -> Stages]
    BY <1>1, <1>2, <1>7 DEF TypeOK
  <2>3. status' \in [Ids -> {"unborn", "live", "deleted"}]
    BY <1>2 DEF TypeOK
  <2> QED
    BY <1>2, <1>3, <2>1, <2>2, <2>3 DEF TypeOK, Entries
<1>9. RowsAgree'
  BY <1>1, <1>2, <1>3, <1>4, <1>5 DEF RowsAgree, IInv, TypeOK, n
<1>10. RequestsKnow'
  <2> SUFFICES ASSUME NEW q \in Requests PROVE Knows(q)'
    BY DEF RequestsKnow
  <2>1. Knows(q)
    BY DEF IInv, RequestsKnow
  <2>2. target[q] \in Nat
        /\ (current[q] \in Rows => current[q].id \in Ids /\ current[q].version \in Nat)
    BY <1>2 DEF TypeOK, Rows
  <2>3. CASE q = r
    BY <1>1, <1>2, <1>6, <2>1, <2>2, <2>3 DEF Knows, Answered, TypeOK
  <2>4. CASE q # r
    BY <1>1, <1>2, <1>6, <2>1, <2>2, <2>4 DEF Knows, TypeOK
  <2> QED
    BY <2>3, <2>4
<1>11. WritersAnswered'
  <2> SUFFICES ASSUME NEW j \in Ids, NEW v \in 1..Len(log'[j]), log'[j][v].by \in Requests
               PROVE  stage'[log'[j][v].by] \in Answered
    BY DEF WritersAnswered
  <2>1. CASE j = i /\ v = n + 1
    BY <1>1, <1>2, <1>3, <1>5, <2>1 DEF TypeOK
  <2>2. CASE ~(j = i /\ v = n + 1)
    <3>1. v \in 1..Len(log[j]) /\ log'[j][v] = log[j][v]
      BY <1>3, <1>4, <2>2 DEF n
    <3> QED
      BY <1>1, <1>2, <3>1 DEF WritersAnswered, IInv, TypeOK
  <2> QED
    BY <2>1, <2>2
<1>12. WritersKnown'
  BY <1>3, <1>4, <1>5 DEF WritersKnown, IInv, n
<1>13. OneLiveAgent'
  BY <1>2 DEF OneLiveAgent, Live, TypeOK
<1>14. SnapshotsTruthful'
  <2>1. \A s \in agent_versions : s.id \in Ids /\ s.version \in Nat
    BY <1>2 DEF TypeOK, Rows
  <2> QED
    BY <1>6, <2>1 DEF SnapshotsTruthful, IInv
<1>15. version[i] = n /\ (n # 0 => log[i][n].content = content[i])
  BY DEF IInv, RowsAgree, n
<1>16. UpdateLosesNothing'
  <2> SUFFICES ASSUME NEW j \in Ids, NEW v \in 2..Len(log'[j]), target[log'[j][v].by] = 0
               PROVE  LET before == log'[j][v - 1].content
                          after == log'[j][v].content
                      IN /\ DOMAIN before \subseteq DOMAIN after
                         /\ \A k \in DOMAIN after \ DOMAIN body[log'[j][v].by] :
                                k \in DOMAIN before /\ after[k] = before[k]
    BY DEF UpdateLosesNothing
  <2>1. CASE j = i /\ v = n + 1
    <3>1. log'[i][n].content = content[i] /\ log'[i][n + 1] = e /\ n # 0
      BY <1>3, <1>4, <1>15, <2>1
    <3>2. stage[r] = "write"
      BY <1>5, <1>15, <2>1, <3>1 DEF IInv, RequestsKnow, Knows
    <3>3. o = Concat(content[i], body[r])
      BY <3>2
    <3> QED
      BY <1>4, <1>5, <2>1, <3>1, <3>3 DEF Concat
  <2>2. CASE ~(j = i /\ v = n + 1)
    <3>1. v \in 2..Len(log[j]) /\ log'[j][v] = log[j][v] /\ log'[j][v - 1] = log[j][v - 1]
      BY <1>3, <1>4, <2>2 DEF n
    <3> QED
      BY <3>1 DEF UpdateLosesNothing, IInv, HistoryKept
  <2> QED
    BY <2>1, <2>2
<1>17. RollbackRestores'
  <2> SUFFICES ASSUME NEW j \in Ids, NEW v \in 1..Len(log'[j]),
                      log'[j][v].by \in Requests, target[log'[j][v].by] # 0
               PROVE  \E m \in Ids :
                        /\ target[log'[j][v].by] \in 1..Len(log'[m])
                        /\ log'[m][target[log'[j][v].by]].content = log'[j][v].content
    BY DEF RollbackRestores, Was
  <2>1. /\ target[log'[j][v].by] \in Nat
        /\ \A m \in Ids, t \in Nat : \A c :
              Was(m, t, c) => t \in 1..Len(log'[m]) /\ log'[m][t].content = c
    BY <1>2, <1>6 DEF TypeOK, Was
  <2>2. CASE j = i /\ v = n + 1
    <3>1. log'[j][v] = e
      BY <1>3, <2>2
    <3>2. stage[r] = "restore"
      BY <1>5, <3>1 DEF IInv, RequestsKnow, Knows
    <3>3. \E m \in Ids : Was(m, target[r], o)
      BY <3>2 DEF IInv, RequestsKnow, Knows
    <3> QED
      BY <1>5, <2>1, <3>1, <3>3
  <2>3. CASE ~(j = i /\ v = n + 1)
    <3>1. v \in 1..Len(log[j]) /\ log'[j][v] = log[j][v]
      BY <1>3, <1>4, <2>3 DEF n
    <3>2. \E m \in Ids : Was(m, target[log[j][v].by], log[j][v].content)
      BY <3>1 DEF RollbackRestores, IInv, HistoryKept
    <3> QED
      BY <2>1, <3>1, <3>2
  <2> QED
    BY <2>2, <2>3
<1>18. RollbackUndoable'
  <2> SUFFICES ASSUME NEW j \in Ids, NEW v \in 2..Len(log'[j]),
                      target[log'[j][v].by] # 0,
                      current[log'[j][v].by].id = j,
                      current[log'[j][v].by].version = v - 1
               PROVE  [id |-> j, version |-> v - 1, content |-> log'[j][v - 1].content]
                        \in agent_versions
    BY DEF RollbackUndoable
  <2>1. CASE j = i /\ v = n + 1
    <3>1. log'[j][v] = e /\ log'[j][v - 1] = log[j][v - 1] /\ v - 1 \in 1..n
      BY <1>3, <1>4, <2>1
    <3>2. stage[r] = "restore"
      BY <1>5, <3>1 DEF IInv, RequestsKnow, Knows
    <3>3. current[r] \in agent_versions /\ current[r] \in Rows
      BY <3>2 DEF IInv, RequestsKnow, Knows
    <3>4. current[r].content = log[j][v - 1].content
      BY <1>5, <3>1, <3>3 DEF IInv, SnapshotsTruthful, Was
    <3>5. current[r] = [id |-> j, version |-> v - 1, content |-> log[j][v - 1].content]
      BY <1>5, <3>1, <3>3, <3>4 DEF Rows
    <3> QED
      BY <3>1, <3>3, <3>5
  <2>2. CASE ~(j = i /\ v = n + 1)
    <3>1. v \in 2..Len(log[j]) /\ log'[j][v] = log[j][v] /\ log'[j][v - 1] = log[j][v - 1]
      BY <1>3, <1>4, <2>2 DEF n
    <3> QED
      BY <3>1 DEF RollbackUndoable, IInv, HistoryKept
  <2> QED
    BY <2>1, <2>2
<1> QED
  BY <1>8, <1>9, <1>10, <1>11, <1>12, <1>13, <1>14, <1>16, <1>17, <1>18
     DEF IInv, HistoryKept

-----------------------------------------------------------------------------
(* Every step keeps the invariant.  A step of a request moves it on        *)
(* (MoveInv) or is its write (WriteInv).                                   *)
LEMMA NextInv == IInv /\ [Next]_vars => IInv'
<1> SUFFICES ASSUME IInv, [Next]_vars PROVE IInv'
  OBVIOUS
<1>1. CASE UNCHANGED vars
  <2>1. /\ stage' = stage /\ body' = body /\ current' = current /\ target' = target
        /\ status' = status /\ version' = version /\ content' = content /\ log' = log
        /\ agent_versions' = agent_versions
    BY <1>1 DEF vars, request, table
  <2>2. TypeOK' /\ RowsAgree' /\ OneLiveAgent'
    BY <2>1 DEF IInv, TypeOK, RowsAgree, OneLiveAgent, Live
  <2>3. RequestsKnow' /\ SnapshotsTruthful'
    BY <2>1 DEF IInv, RequestsKnow, Knows, SnapshotsTruthful, Was
  <2>4. WritersAnswered' /\ WritersKnown'
    BY <2>1 DEF IInv, WritersAnswered, WritersKnown
  <2>5. UpdateLosesNothing'
    BY <2>1 DEF IInv, HistoryKept, UpdateLosesNothing
  <2>6. RollbackRestores' /\ RollbackUndoable'
    BY <2>1 DEF IInv, HistoryKept, RollbackRestores, RollbackUndoable, Was
  <2> QED
    BY <2>2, <2>3, <2>4, <2>5, <2>6 DEF IInv, HistoryKept
<1> SUFFICES ASSUME NEW r \in Requests,
                    \/ Refused(r) \/ QueryFails(r)
                    \/ \E o \in Objects : CreateLookup(r, o)
                    \/ CreateInsert(r)
                    \/ \E o \in Objects \cup {Absent} : UpdateLookup(r, o)
                    \/ UpdateSnapshot(r) \/ UpdateNothing(r) \/ UpdateWrite(r)
                    \/ \E n \in VersionNumbers : RollbackVersion(r, n)
                    \/ RollbackLookup(r) \/ RollbackSnapshot(r) \/ RollbackWrite(r)
                    \/ DeleteAgent(r)
             PROVE  IInv'
  BY <1>1 DEF Next
<1>2. /\ TypeOK
      /\ Knows(r)
      /\ OneLiveAgent
      /\ stage[r] \in Stages
      /\ current[r] \in Rows \cup {NoRow}
  BY DEF IInv, TypeOK, RequestsKnow
<1>3. \A i \in Live : /\ i \in Ids
                      /\ Row(i) \in Rows
                      /\ Was(i, version[i], content[i])
                      /\ version[i] # 0
  BY DEF IInv, TypeOK, Live, Row, Rows, RowsAgree, Was
<1> DEFINE Quiet == /\ stage[r] \notin Answered
                    /\ OthersStay(r)
                    /\ TypeOK'
                    /\ Knows(r)'
                    /\ OneLiveAgent'
                    /\ UNCHANGED <<version, content, log>>
                    /\ \A i \in Ids : status'[i] = "unborn" <=> status[i] = "unborn"
                    /\ \/ agent_versions' = agent_versions
                       \/ /\ current[r] \in Rows
                          /\ agent_versions' = agent_versions \cup {current[r]}
<1>4. Quiet => IInv'
  BY MoveInv
<1>5. CASE Refused(r)
  <2>1. Quiet
    BY <1>2, <1>5 DEF Refused, Goto, table, OthersStay, TypeOK, Stages, Answered, Knows,
                      OneLiveAgent, Live, Was
  <2> QED
    BY <1>4, <2>1
<1>6. CASE QueryFails(r)
  <2>1. Quiet
    BY <1>2, <1>6 DEF QueryFails, Goto, table, OthersStay, TypeOK, Stages, Answered, Knows,
                      OneLiveAgent, Live, Was
  <2> QED
    BY <1>4, <2>1
<1>7. CASE \E o \in Objects : CreateLookup(r, o)
  <2>1. PICK o \in Objects : CreateLookup(r, o)
    BY <1>7
  <2>2. /\ stage[r] = "new"
        /\ stage' \in [Requests -> Stages]
        /\ stage'[r] \in {"insert", "error"}
        /\ body' \in [Requests -> Objects \cup {Absent}]
        /\ body'[r] = o
        /\ \A q \in Requests \ {r} : stage'[q] = stage[q] /\ body'[q] = body[q]
    BY <1>2, <2>1 DEF CreateLookup, Goto, TypeOK, Stages
  <2>3. UNCHANGED <<current, target, status, version, content, agent_versions, log>>
    BY <2>1 DEF CreateLookup, table
  <2>4. TypeOK' /\ OthersStay(r) /\ OneLiveAgent' /\ stage[r] \notin Answered
    BY <1>2, <2>2, <2>3 DEF TypeOK, OthersStay, OneLiveAgent, Live, Answered
  <2>5. Knows(r)'
    BY <1>2, <2>2, <2>3 DEF Knows, Was
  <2>6. Quiet
    BY <2>3, <2>4, <2>5
  <2> QED
    BY <1>4, <2>6
<1>8. CASE CreateInsert(r)
  <2>1. CASE Live # {} /\ Goto(r, "error") /\ UNCHANGED table
    <3>1. Quiet
      BY <1>2, <1>8, <2>1 DEF CreateInsert, Goto, table, OthersStay, TypeOK, Stages,
                              Answered, Knows, OneLiveAgent, Live, Was
    <3> QED
      BY <1>4, <3>1
  <2>2. CASE Live = {} /\ \E i \in {j \in Ids : status[j] = "unborn"} :
                /\ status' = [status EXCEPT ![i] = "live"]
                /\ UpdateRow(i, r, body[r])
                /\ Reply(r)
    <3>1. PICK i \in {j \in Ids : status[j] = "unborn"}, a \in Answered :
                /\ status' = [status EXCEPT ![i] = "live"]
                /\ UpdateRow(i, r, body[r])
                /\ Goto(r, a)
      BY <2>2 DEF Reply
    <3>2. stage[r] = "insert" /\ body[r] \in Objects /\ version[i] = 0
      BY <1>2, <1>8 DEF CreateInsert, Knows, IInv, RowsAgree
    <3>3. UNCHANGED <<body, current, target, agent_versions>>
      BY <1>8 DEF CreateInsert
    <3> QED
      BY <2>2, <3>1, <3>2, <3>3, WriteInv
  <2> QED
    BY <1>8, <2>1, <2>2 DEF CreateInsert
<1>9. CASE \E o \in Objects \cup {Absent} : UpdateLookup(r, o)
  <2>1. PICK o \in Objects \cup {Absent} : UpdateLookup(r, o)
    BY <1>9
  <2>2. CASE Live = {} /\ Goto(r, "write") /\ UNCHANGED current
    <3>1. Quiet
      BY <1>2, <2>1, <2>2 DEF UpdateLookup, Goto, table, OthersStay, TypeOK, Stages,
                              Answered, Knows, OneLiveAgent, Live, Was
    <3> QED
      BY <1>4, <3>1
  <2>3. ASSUME NEW i \in Live, current' = [current EXCEPT ![r] = Row(i)],
               Goto(r, "snapshot")
        PROVE  IInv'
    <3>1. Quiet
      BY <1>2, <1>3, <2>1, <2>3 DEF UpdateLookup, Goto, table, OthersStay, TypeOK, Stages,
                                    Answered, Knows, OneLiveAgent, Live, Row, Was
    <3> QED
      BY <1>4, <3>1
  <2> QED
    BY <2>1, <2>2, <2>3 DEF UpdateLookup
<1>10. CASE UpdateSnapshot(r)
  <2>1. Quiet
    BY <1>2, <1>10 DEF UpdateSnapshot, VersionSnapshot, Goto, table, OthersStay, TypeOK,
                       Stages, Answered, Knows, OneLiveAgent, Live, Was
  <2> QED
    BY <1>4, <2>1
<1>11. CASE UpdateNothing(r)
  <2>1. Quiet
    BY <1>2, <1>11 DEF UpdateNothing, Goto, table, OthersStay, TypeOK, Stages, Answered,
                       Knows, OneLiveAgent, Live, Was
  <2> QED
    BY <1>4, <2>1
<1>12. CASE UpdateWrite(r)
  <2>1. CASE Live = {} /\ Goto(r, "error") /\ UNCHANGED table
    <3>1. Quiet
      BY <1>2, <1>12, <2>1 DEF UpdateWrite, Goto, table, OthersStay, TypeOK, Stages,
                               Answered, Knows, OneLiveAgent, Live, Was
    <3> QED
      BY <1>4, <3>1
  <2>2. ASSUME NEW i \in Live, UpdateRow(i, r, Concat(content[i], body[r])), Reply(r),
               UNCHANGED status
        PROVE  IInv'
    <3>1. PICK a \in Answered : Goto(r, a)
      BY <2>2 DEF Reply
    <3>2. /\ stage[r] = "write"
          /\ body[r] \in Objects
          /\ UNCHANGED <<body, current, target, agent_versions>>
      BY <1>2, <1>12 DEF UpdateWrite, TypeOK
    <3>3. Concat(content[i], body[r]) \in Objects
      BY <1>2, <3>2, ConcatObject DEF TypeOK, Live
    <3>4. status' = [status EXCEPT ![i] = "live"] /\ \A j \in Live : j = i
      BY <1>2, <2>2 DEF TypeOK, Live, OneLiveAgent
    <3> QED
      BY <1>3, <2>2, <3>1, <3>2, <3>3, <3>4, WriteInv
  <2> QED
    BY <1>12, <2>1, <2>2 DEF UpdateWrite
<1>13. CASE \E n \in VersionNumbers : RollbackVersion(r, n)
  <2>1. PICK n \in VersionNumbers : RollbackVersion(r, n)
    BY <1>13
  <2>2. n \in Nat /\ n # 0
    BY DEF VersionNumbers
  <2>3. CASE Goto(r, "error") /\ UNCHANGED body
    <3>1. Quiet
      BY <1>2, <2>1, <2>2, <2>3 DEF RollbackVersion, Goto, table, OthersStay, TypeOK,
                                    Stages, Answered, Knows, OneLiveAgent, Live, Was
    <3> QED
      BY <1>4, <3>1
  <2>4. ASSUME NEW s \in agent_versions, s.version = n,
               body' = [body EXCEPT ![r] = s.content], Goto(r, "find")
        PROVE  IInv'
    <3>1. s.id \in Ids /\ s.content \in Objects /\ Was(s.id, n, s.content)
      BY <1>2, <2>4 DEF IInv, SnapshotsTruthful, TypeOK, Rows
    <3>2. Quiet
      BY <1>2, <2>1, <2>2, <2>4, <3>1 DEF RollbackVersion, Goto, table, OthersStay, TypeOK,
                                    Stages, Answered, Knows, OneLiveAgent, Live, Was
    <3> QED
      BY <1>4, <3>2
  <2> QED
    BY <2>1, <2>3, <2>4 DEF RollbackVersion
<1>14. CASE RollbackLookup(r)
  <2>1. CASE Goto(r, "error") /\ UNCHANGED current
    <3>1. Quiet
      BY <1>2, <1>14, <2>1 DEF RollbackLookup, Goto, table, OthersStay, TypeOK, Stages,
                               Answered, Knows, OneLiveAgent, Live, Was
    <3> QED
      BY <1>4, <3>1
  <2>2. ASSUME NEW i \in Live, current' = [current EXCEPT ![r] = Row(i)], Goto(r, "save")
        PROVE  IInv'
    <3>1. Quiet
      BY <1>2, <1>3, <1>14, <2>2 DEF RollbackLookup, Goto, table, OthersStay, TypeOK, Stages,
                                     Answered, Knows, OneLiveAgent, Live, Row, Was
    <3> QED
      BY <1>4, <3>1
  <2> QED
    BY <1>14, <2>1, <2>2 DEF RollbackLookup
<1>15. CASE RollbackSnapshot(r)
  <2>1. Quiet
    BY <1>2, <1>15 DEF RollbackSnapshot, VersionSnapshot, Goto, table, OthersStay, TypeOK,
                       Stages, Answered, Knows, OneLiveAgent, Live, Was
  <2> QED
    BY <1>4, <2>1
<1>16. CASE RollbackWrite(r)
  <2>1. CASE Live = {} /\ Goto(r, "error") /\ UNCHANGED table
    <3>1. Quiet
      BY <1>2, <1>16, <2>1 DEF RollbackWrite, Goto, table, OthersStay, TypeOK, Stages,
                               Answered, Knows, OneLiveAgent, Live, Was
    <3> QED
      BY <1>4, <3>1
  <2>2. ASSUME NEW i \in Live, UpdateRow(i, r, body[r]), Reply(r), UNCHANGED status
        PROVE  IInv'
    <3>1. PICK a \in Answered : Goto(r, a)
      BY <2>2 DEF Reply
    <3>2. /\ stage[r] = "restore"
          /\ body[r] \in Objects
          /\ UNCHANGED <<body, current, target, agent_versions>>
      BY <1>2, <1>16 DEF RollbackWrite, Knows
    <3>3. status' = [status EXCEPT ![i] = "live"] /\ \A j \in Live : j = i
      BY <1>2, <2>2 DEF TypeOK, Live, OneLiveAgent
    <3> QED
      BY <1>3, <2>2, <3>1, <3>2, <3>3, WriteInv
  <2> QED
    BY <1>16, <2>1, <2>2 DEF RollbackWrite
<1>17. CASE DeleteAgent(r)
  <2>1. Quiet
    BY <1>2, <1>17 DEF DeleteAgent, Reply, Goto, OthersStay, TypeOK, Stages, Answered, Knows,
                       OneLiveAgent, Live, Was
  <2> QED
    BY <1>4, <2>1
<1> QED
  BY <1>5, <1>6, <1>7, <1>8, <1>9, <1>10, <1>11, <1>12, <1>13, <1>14, <1>15, <1>16, <1>17

(* The inductive invariant holds in every reachable state. *)
THEOREM Invariance == Spec => []IInv
BY InitInv, NextInv, PTL DEF Spec

(* The variables keep their types: no request writes an object it does not *)
(* have (the null checks of update and rollbackToVersion).                 *)
THEOREM TypeCorrect == Spec => []TypeOK
<1>1. IInv => TypeOK
  BY DEF IInv
<1> QED
  BY <1>1, Invariance, PTL

(* However many CreateAgent, UpdateAgent and rollback requests interleave, *)
(* a name has at most one live agent.                                      *)
THEOREM OneAgentPerName == Spec => []OneLiveAgent
<1>1. IInv => OneLiveAgent
  BY DEF IInv
<1> QED
  BY <1>1, Invariance, PTL

(* Every row of agent_versions is what the agent was at that version. *)
THEOREM HistoryTruthful == Spec => []SnapshotsTruthful
<1>1. IInv => SnapshotsTruthful
  BY DEF IInv
<1> QED
  BY <1>1, Invariance, PTL

(* update() loses nothing that was written since it read the row. *)
THEOREM NoLostUpdate == Spec => []UpdateLosesNothing
<1>1. IInv => UpdateLosesNothing
  BY DEF IInv, HistoryKept
<1> QED
  BY <1>1, Invariance, PTL

(* rollbackToVersion restores the version asked for, and what it replaced  *)
(* without a concurrent write can be restored in turn.                     *)
THEOREM RollbackCorrect == Spec => []RollbackSound
<1>1. IInv => RollbackSound
  BY DEF IInv, HistoryKept, RollbackSound
<1> QED
  BY <1>1, Invariance, PTL
=============================================================================
