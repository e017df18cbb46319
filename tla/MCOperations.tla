---------------------------- MODULE MCOperations ----------------------------
(* Two namespaces on each of two CIMOMs, enumerations of up to two objects; *)
(* nothing tells namespaces, hosts or objects apart but their names.        *)
EXTENDS Operations, TLC

MCSymmetry == Permutations(Namespaces) \cup Permutations(Hosts) \cup Permutations(Items)

=============================================================================
