----------------------------- MODULE MCArbiterHA -----------------------------
(***************************************************************************)
(* Small instances of a cluster. Like in the sample configuration the first *)
(* node lists all nodes and the others list the first.                     *)
(***************************************************************************)
EXTENDS ArbiterHA

CONSTANTS n1, n2, v1, v2, bad

ListFirst == [n \in Nodes |-> IF n = n1 THEN << n1, n2 >> ELSE << n1 >>]
OneFile == << "hosts.yaml" >>
AtFirst == [n \in Nodes |-> [f \in {1} |-> IF n = n1 THEN v1 ELSE Gone]]
=============================================================================
