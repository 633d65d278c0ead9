---------------------------- MODULE MCPlayground ----------------------------
(* Two sources, two module paths, two clicks, one worker error.            *)
EXTENDS Playground
CONSTANTS s1, s2, p1, p2, none, nothing
MCSources == {s1, s2}
MCPaths == {p1, p2}
=============================================================================
