--------------------------- MODULE MCMemoryPlane ---------------------------
EXTENDS MemoryPlane

VARIABLE scope      \* which of two bounds a behaviour keeps to

(* Two keys as clients send them; sanitizeKeyComponent maps both to "a_b". *)
MCKeys == {"a_b", "a:b"}
MCSafe == [k \in MCKeys |-> "a_b"]

(* Two writes under any types and keys, or three, which can overflow the   *)
(* queue of two, under one type and by one of the keys.  Only Write,       *)
(* WriteError, Delete and ReadMiss are held back, to which no fairness is  *)
(* due.                                                                    *)
InScope ==
    \/ scope = "types" /\ written <= 2
    \/ /\ scope = "order"
       /\ \A e \in Entries : e[1] # "working" => redis[e] = None
       /\ \A r \in Readers : reads[r].pc = "idle" \/ (reads[r].type = "working" /\ reads[r].key = "a_b")
       /\ \A i \in DOMAIN replies : replies[i].key = "a_b"

MCInit == InitMemory /\ scope \in {"types", "order"}
MCNext == NextMemory /\ UNCHANGED scope /\ InScope'
MCSpec == MCInit /\ [][MCNext]_<<allVars, scope>> /\ FairMemory
=============================================================================
