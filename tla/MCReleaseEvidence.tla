-------------------------- MODULE MCReleaseEvidence --------------------------
(* Two trees that differ in the RTL only; each tool is followed on its own,   *)
(* with coverage.                                                            *)
EXTENDS ReleaseEvidence

MCTrees == 1 .. 2
MCOwnFiles == <<1, 1>>
MCProfiles == {{"coverage", k} : k \in Kinds \ {"coverage", "compiler"}}
==============================================================================
