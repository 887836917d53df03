-------------------------- MODULE MCSandboxCapacity --------------------------
(* Model-checking instances of SandboxCapacity: the processes, and likewise *)
(* the sandboxes, differ in nothing but their names.                        *)
EXTENDS SandboxCapacityInvariant, TLC

Interchangeable == Permutations(Processes)
Competing       == Permutations(Sandboxes)

\* A bound of the safety run: three processes overtake each other until the
\* last effect, two during it.
OneRestsAtTheLast ==
  \A s \in Sandboxes : version[s] = MaxEffects => \E p \in Processes : pc[p] = "idle"
=============================================================================
