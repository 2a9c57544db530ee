----------------------------- MODULE MCOutputPair -----------------------------
(* Two invocations of finalize that want the same pair of outputs and one
   invocation that wants only the second; two of the three have the same
   process ID. *)
EXTENDS OutputPair

MCWriter == {"one", "two", "single"}
MCPath == {"delivered", "acceptance"}
MCOutputs == [w \in MCWriter |-> IF w = "single" THEN <<"acceptance">>
                                 ELSE <<"delivered", "acceptance">>]
MCPid == {1, 2}
MCPidOf == [w \in MCWriter |-> IF w = "two" THEN 2 ELSE 1]
=============================================================================
