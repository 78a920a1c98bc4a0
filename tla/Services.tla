------------------------------ MODULE Services ------------------------------
(***************************************************************************)
(* The process-wide services that share no state with each other: the log  *)
(* sink, the call-site limits of logging and the schema manager.  A step   *)
(* of one leaves the others alone, so a behaviour follows one of them, and *)
(* every behaviour of each is one of these.                                *)
(***************************************************************************)
EXTENDS LogSink, LogLimits, SchemaManager

VARIABLE service   \* the service that is followed

vars == <<service, sinkVars, limitsVars, schemaVars>>

TypeOK ==
  /\ service \in {"sink", "limits", "schemas"}
  /\ SinkTypeOK /\ LimitsTypeOK /\ SchemasTypeOK

Init ==
  /\ service \in {"sink", "limits", "schemas"}
  /\ SinkInit /\ LimitsInit /\ SchemasInit

Next ==
  /\ \/ service = "sink"    /\ SinkNext    /\ UNCHANGED <<limitsVars, schemaVars>>
     \/ service = "limits"  /\ LimitsNext  /\ UNCHANGED <<sinkVars, schemaVars>>
     \/ service = "schemas" /\ SchemasNext /\ UNCHANGED <<sinkVars, limitsVars>>
  /\ UNCHANGED service

Spec == Init /\ [][Next]_vars
=============================================================================
