------------------------------- MODULE Tools -------------------------------
(***************************************************************************)
(* The three programs an operator or a developer starts beside the         *)
(* services: config-beacons, reset-locpicks and obus.  They share nothing  *)
(* in this model, and one of them is used at a time.                       *)
(***************************************************************************)
EXTENDS ConfigBeacons, ResetLocpicks, Obus

VARIABLE tool  \* the one that is used

toolVars == <<tool, configVars, resetVars, obusVars>>

\* Every program's state keeps its type.
ToolsTypeOK == ConfigTypeOK /\ ResetTypeOK /\ ObusTypeOK

ToolsInit ==
  /\ tool \in {"config", "reset", "obus"}
  /\ ConfigInit
  /\ ResetInit /\ (tool # "reset" => ~logLevel)
  /\ ObusInit
  /\ tool # "obus" => ~serving /\ lines = {} /\ opts = CHOOSE o \in Invocations : TRUE

ToolsNext ==
  \/ tool = "config" /\ ConfigNext /\ UNCHANGED <<tool, resetVars, obusVars>>
  \/ tool = "reset" /\ ResetNext /\ UNCHANGED <<tool, configVars, obusVars>>
  \/ tool = "obus" /\ ObusNext /\ UNCHANGED <<tool, configVars, resetVars>>

\* No command and no call of a program that is not used is ever
\* enabled, so the fairness of each program is as it is when it runs alone.
ToolsSpec ==
  /\ ToolsInit /\ [][ToolsNext]_toolVars
  /\ ConfigFairness /\ ObusFairness
=============================================================================
