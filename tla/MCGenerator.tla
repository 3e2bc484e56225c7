----------------------------- MODULE MCGenerator -----------------------------
(* A run of the generator with two-member enums. *)
EXTENDS Generator

MCPremadeAll == {<<t, n>> \in Targets \X {0, 2, 4, 6} : n < SectionCount[t]}

(* premade/Status-4.txt missing: Status.java loses its epilogue. *)
MCPremadeFiles == MCPremadeAll \ {<<"Status", 4>>}

(* The enum not found, or two members and the loop finished.  An         *)
(* exception after a member needs a line with no name before "=", which  *)
(* is not protobuf; MCEnumScanner shows what it does to the declarations. *)
MCScanResults ==
  {[members |-> <<>>, finalized |-> FALSE],
   [members |-> <<"a", "b">>, finalized |-> TRUE]}

(* A checkout with every input file, or without freeze_type.proto. *)
MCPresence == {{"basic_types", "response_code", "freeze_type"},
               {"basic_types", "response_code"}}
=============================================================================
