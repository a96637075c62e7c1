----------------------------- MODULE MCJsonTree -----------------------------
EXTENDS JsonTree
CONSTANT MaxNodes
ForestsMC ==
  {f \in UNION {[1..n -> 0..(n - 1)] : n \in 1..MaxNodes} :
     f[1] = 0 /\ \A i \in 1..(Len(f) - 1) : f[i + 1] <= f[i] + 1}
NextForestsMC == {<<0, 1, 1, 1>>}
=============================================================================
