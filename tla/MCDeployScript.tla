---------------------------- MODULE MCDeployScript ----------------------------
(* Model-checking instances of DeployScript.                               *)
EXTENDS DeployScript

OneUnfit == {2}
===============================================================================
