-------------------------- MODULE MCSandboxRuntime --------------------------
(* Three CreateSandbox calls, two of them for the same execution (a retry), *)
(* and two terminations from different namespaces.                          *)
EXTENDS SandboxRuntime

CONSTANTS c1, c2, c3, t1, t2

MCCalls == {c1, c2, c3}
MCTerminators == {t1, t2}
MCExecution == [c \in MCCalls |-> IF c = c3 THEN "e2" ELSE "e1"]
MCNamespace == [c \in MCCalls |-> IF c = c3 THEN "n2" ELSE "n1"]
MCTNamespace == [t \in MCTerminators |-> IF t = t1 THEN "n1" ELSE "n2"]
=============================================================================
