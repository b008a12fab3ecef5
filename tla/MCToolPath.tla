----------------------------- MODULE MCToolPath -----------------------------
EXTENDS ToolPath

(* Two policy paths, which are asked about the same input, and a second input. *)
MCRequests ==
    {[path |-> "execution", input |-> "run"], [path |-> "admission", input |-> "run"],
     [path |-> "admission", input |-> "create"]}
=============================================================================
