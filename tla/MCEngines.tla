------------------------------ MODULE MCEngines ------------------------------
(* The engines on the programs of Samples.                                 *)
EXTENDS Engines, Samples

MCPrograms == SamplePrograms
MCNodes == SampleNodes
=============================================================================
