---------------------------- MODULE MCSessionTools ----------------------------
(***************************************************************************)
(* SessionTools with three files, one of them the plan, named with and     *)
(* without their root, a path that is read-only and one that leads out.    *)
(* Two calls can fill two files, and with a call given up on the quota     *)
(* and its slack are two: a third file is what could break the bound.      *)
(***************************************************************************)
EXTENDS SessionTools

PlanPath == <<"plan">>
MCPaths == {PlanPath, <<"workspace", "plan">>, <<"workspace", "workspace", "f">>, <<"g">>,
            <<".", "reference", "f">>, <<"..", "..", "f">>, <<"workspace">>}
MCPlan == Resolve(PlanPath)
===============================================================================
