------------------------------ MODULE Deployment ------------------------------
(***************************************************************************)
(* What the start of USTO promises, with every part of it atomic: the      *)
(* demonstration data gets in once, by a seed or by the tool that replaces *)
(* it, a server serves only with it, and seeds that cannot succeed any     *)
(* more are helped by nothing but the tool.  Module StartUp implements it  *)
(* statement by statement.                                                 *)
(***************************************************************************)
EXTENDS Naturals

CONSTANT Servers

VARIABLES copies,    \* how often the demonstration data is in
          loaded,    \* it came from the tool
          spoilt,    \* no seed can succeed
          serving    \* servers that answer requests

deploymentVars == <<copies, loaded, spoilt, serving>>

\* A new database, or one with the data an older server seeded.
DeploymentInit ==
    /\ copies \in {0, 1}
    /\ loaded = FALSE /\ spoilt = FALSE
    /\ serving = {}

Seed ==
    /\ copies = 0 /\ ~spoilt
    /\ copies' = 1
    /\ UNCHANGED <<loaded, spoilt, serving>>

Spoil ==
    /\ copies = 0 /\ ~spoilt
    /\ spoilt' = TRUE
    /\ UNCHANGED <<copies, loaded, serving>>

Load ==
    /\ ~loaded
    /\ copies' = 1 /\ loaded' = TRUE /\ spoilt' = FALSE
    /\ UNCHANGED serving

Serve(s) ==
    /\ copies = 1 /\ s \notin serving
    /\ serving' = serving \cup {s}
    /\ UNCHANGED <<copies, loaded, spoilt>>

Leave(s) ==
    /\ s \in serving
    /\ serving' = serving \ {s}
    /\ UNCHANGED <<copies, loaded, spoilt>>

DeploymentNext == Seed \/ Spoil \/ Load \/ \E s \in Servers : Serve(s) \/ Leave(s)

DeploymentSpec == DeploymentInit /\ [][DeploymentNext]_deploymentVars
=============================================================================
