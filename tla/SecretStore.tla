----------------------------- MODULE SecretStore -----------------------------
(***************************************************************************)
(* One secret of the secret store (control-plane/secret-store).  A row     *)
(* holds a version of the secret in a payload of the old or the new format;*)
(* CreateSecret encrypts and upserts, GetSecret reads, decrypts and, when  *)
(* the payload is a legacy one, encrypts it anew and upserts what it read. *)
(* Row and answer are separated by awaits, so requests interleave there.   *)
(***************************************************************************)
EXTENDS Naturals, FiniteSets

CONSTANTS
  Requests,      \* requests in flight
  MaxVersion     \* bound on the versions written

ASSUME SecretAssumption == IsFiniteSet(Requests) /\ MaxVersion \in Nat \ {0}

VARIABLES
  secret,     \* the row: version (0: none) and whether its payload is a legacy one
  task,       \* per request, its step and the version it carries
  newest,     \* history: the version upserted last by CreateSecret
  settled     \* history: at some moment the payload was new and no upgrade under way

secretVars == <<secret, task, newest, settled>>

NoTask == [pc |-> "idle", ver |-> 0]

SecretTypeOK ==
  /\ secret \in [ver : 0 .. MaxVersion, legacy : BOOLEAN]
  /\ task \in [Requests -> [pc : {"idle", "upsert", "upgrade"}, ver : 0 .. MaxVersion]]
  /\ newest \in 0 .. MaxVersion /\ settled \in BOOLEAN

(* Before the service runs, older releases may have left a legacy row. *)
SecretInit ==
  /\ secret \in {[ver |-> 0, legacy |-> FALSE], [ver |-> 1, legacy |-> TRUE]}
  /\ task = [q \in Requests |-> NoTask]
  /\ newest = secret.ver /\ settled = (secret.ver = 0)

(* From the moment the payload is new and no upgrade is under way, "newest" counts: it    *)
(* starts from the version the row has then.                                             *)
Settle(row, tasks, created) ==
  /\ settled' = (settled \/ (~row.legacy /\ \A q \in Requests : tasks[q].pc # "upgrade"))
  /\ newest' = IF settled' /\ ~settled THEN row.ver ELSE created
Versions == {secret.ver, newest} \cup {task[q].ver : q \in Requests}

(* What an upsert leaves: the payload is always of the new format. *)
Row(v) == [ver |-> v, legacy |-> FALSE]

CreateSecret(q, v) ==
  /\ task[q].pc = "idle" /\ \A u \in Versions : u < v
  /\ \A u \in 1 .. (v - 1) : \E w \in Versions : u <= w
  /\ task' = [task EXCEPT ![q] = [pc |-> "upsert", ver |-> v]]
  /\ UNCHANGED <<secret, newest, settled>>

Upsert(q) ==
  /\ task[q].pc = "upsert"
  /\ secret' = Row(task[q].ver)
  /\ task' = [task EXCEPT ![q] = NoTask]
  /\ Settle(secret', task', task[q].ver)

(* upgradeLegacyRow acts on the payload that was read; a payload of the new format is left alone. *)
IsLegacyPayload_Always == TRUE
IsLegacyPayload == secret.legacy

(* GetSecret for an agent of the secret's namespace; a missing row is answered NOT_FOUND. *)
GetSecret(q) ==
  /\ task[q].pc = "idle" /\ secret.ver # 0 /\ IsLegacyPayload
  /\ task' = [task EXCEPT ![q] = [pc |-> "upgrade", ver |-> secret.ver]]
  /\ UNCHANGED <<secret, newest, settled>>

(* The upsert of the upgrade; when it fails the read is answered all the same. *)
Upgrade(q, done) ==
  /\ task[q].pc = "upgrade"
  /\ secret' = IF done THEN Row(task[q].ver) ELSE secret
  /\ task' = [task EXCEPT ![q] = NoTask]
  /\ Settle(secret', task', newest)

SecretNext ==
  \E q \in Requests :
    \/ \E v \in 1 .. MaxVersion : CreateSecret(q, v)
    \/ Upsert(q) \/ GetSecret(q)
    \/ \E done \in BOOLEAN : Upgrade(q, done)

-----------------------------------------------------------------------------
(* The upgrade of a legacy payload writes back a value read earlier and can undo a     *)
(* CreateSecret that came between.  That ends for good with the legacy payload: from    *)
(* the moment the row has the new format and no upgrade is under way, reads never write *)
(* again and the row is always the secret created last.                                 *)
NoWriteLostOnceUpgraded == SecretTypeOK /\ (settled => secret.ver = newest)
=============================================================================
