-------------------------- MODULE GeneratedTables ---------------------------
(***************************************************************************)
(* The generated header: the tables of the productions, step by step.      *)
(***************************************************************************)
EXTENDS Grammar, Tables

RuleFacts == Facts(Productions)
LALRStates == MergeStates(RuleFacts, {Kernel(I) : I \in LR1States(RuleFacts)})
LALRGotos == GotoRows(RuleFacts, LALRStates)
LALRActions == ActionRows(RuleFacts, LALRStates, LALRGotos, TokensOf(Productions))
LALRItems == [n \in DOMAIN LALRStates |-> Core(LALRStates[n])]
LALRStart == CHOOSE n \in DOMAIN LALRStates : <<1, 0, "ENDF">> \in LALRStates[n]
=============================================================================
