---------------------------- MODULE MCToolDeploy ----------------------------
(***************************************************************************)
(* ToolDeploy on instances of two servers.                                 *)
(***************************************************************************)
EXTENDS ToolDeploy, TLC

CONSTANTS a, b, v1, v2

Version(name, version) == [name |-> name, version |-> version]

\* A tool with a new version, and another tool.
ThreeTools == {Version(a, v1), Version(a, v2), Version(b, v1)}
OneTool == {Version(a, v1)}

\* Nothing tells the servers apart.
Alike == Permutations(Servers)
=============================================================================
