------------------------------ MODULE AuditTrail ------------------------------
(***************************************************************************)
(* The audit trail of one process (packages/shared/src/audit).             *)
(* createAuditEntry chains an entry to the previous one by its hash, keeps *)
(* the last entries in memory and starts a write to PostgreSQL that nobody *)
(* waits for: writes of several entries overlap, are retried, and can be   *)
(* applied although their answer is lost.  A hash is the pair of the entry *)
(* and the hash before it, so the chain is the sequence of its entries.    *)
(***************************************************************************)
EXTENDS Naturals, Sequences, FiniteSets

CONSTANTS
  MaxEntries,     \* entries created
  ChainCap,       \* entries kept in memory (10000 in the code)
  MaxRetries,     \* retries after the first attempt (3 in the code)
  MaxRestarts     \* bound on the restarts of the process

ASSUME AuditAssumption ==
  /\ MaxEntries \in Nat /\ ChainCap \in Nat \ {0} /\ MaxRetries \in Nat /\ MaxRestarts \in Nat

VARIABLES
  created,     \* entries created so far
  chain,       \* the entries in memory, each with the entry its hash builds on (0: the zero hash)
  last,        \* the entry lastHash belongs to (0: the zero hash)
  writes,      \* per entry, attempts made by persistWithRetry, and how it stands
  table,       \* per entry, rows of audit_entries
  restarts

auditVars == <<created, chain, last, writes, table, restarts>>

Entries == 1 .. MaxEntries
NoWrite == [st |-> "none", tries |-> 0]

AuditTypeOK ==
  /\ created \in 0 .. MaxEntries /\ last \in 0 .. MaxEntries
  /\ Len(chain) <= ChainCap
  /\ writes \in [Entries -> [st : {"none", "trying", "done", "failed", "cut"}, tries : 0 .. MaxRetries + 1]]
  /\ table \in [Entries -> Nat] /\ restarts \in 0 .. MaxRestarts

AuditInit ==
  /\ created = 0 /\ chain = <<>> /\ last = 0 /\ restarts = 0
  /\ writes = [e \in Entries |-> NoWrite]
  /\ table = [e \in Entries |-> 0]

Capped(c) == IF Len(c) > ChainCap THEN SubSeq(c, Len(c) - ChainCap + 1, Len(c)) ELSE c

CreateAuditEntry ==
  /\ created < MaxEntries
  /\ created' = created + 1
  /\ chain' = Capped(Append(chain, [entry |-> created + 1, prev |-> last]))
  /\ last' = created + 1
  /\ writes' = [writes EXCEPT ![created + 1] = [st |-> "trying", tries |-> 0]]
  /\ UNCHANGED <<table, restarts>>

(* persistToPostgres: ON CONFLICT (event_id) DO NOTHING *)
Insert_Again(e) == [table EXCEPT ![e] = @ + 1]
Insert(e) == [table EXCEPT ![e] = 1]

(* One attempt of persistWithRetry: written, refused, or written with the answer lost. *)
Persist(e, o) ==
  /\ writes[e].st = "trying"
  /\ table' = IF o = "refused" THEN table ELSE Insert(e)
  /\ writes' = [writes EXCEPT ![e] =
       [st |-> IF o = "ok" THEN "done"
               ELSE IF @.tries = MaxRetries THEN "failed" ELSE "trying",
        tries |-> @.tries + 1]]
  /\ UNCHANGED <<created, chain, last, restarts>>

(* A restart ends the writes under way, and the chain begins again at the zero hash. *)
AuditRestart ==
  /\ restarts < MaxRestarts /\ restarts' = restarts + 1
  /\ chain' = <<>> /\ last' = 0
  /\ writes' = [e \in Entries |-> IF writes[e].st = "trying" THEN [writes[e] EXCEPT !.st = "cut"] ELSE writes[e]]
  /\ UNCHANGED <<created, table>>

(* verifyAuditChain starts from the zero hash. *)
VerifyAuditChain(c) ==
  \A i \in 1 .. Len(c) : c[i].prev = IF i = 1 THEN 0 ELSE c[i - 1].entry

AuditNext ==
  \/ CreateAuditEntry \/ AuditRestart
  \/ \E e \in Entries, o \in {"ok", "refused", "lost"} : Persist(e, o)

-----------------------------------------------------------------------------
(* Entries reach the table in any order, after lost answers and retries, and still each *)
(* at most once; one that is missing is still being written, was given up after all its  *)
(* attempts, or was cut off by a restart.  The entries in memory verify as a chain as    *)
(* long as none has been dropped from its front.                                         *)
TrailIntact ==
  /\ AuditTypeOK
  /\ \A e \in Entries : table[e] <= 1
  /\ \A e \in 1 .. created : table[e] = 0 => writes[e].st \in {"trying", "cut"} \/ writes[e].tries = MaxRetries + 1
  /\ (Len(chain) < ChainCap => VerifyAuditChain(chain))
=============================================================================
