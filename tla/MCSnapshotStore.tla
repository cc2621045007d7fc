-------------------------- MODULE MCSnapshotStore --------------------------
EXTENDS SnapshotStore

CONSTANTS p1, p2, c1, c2

\* Two versions of the output, of which the later one has a file less, and one
\* that has a manifest.json of its own.
MCArtifactSets ==
    {(p1 :> c1) @@ (p2 :> c1), p2 :> c2, (p1 :> c2) @@ (p2 :> c2) @@ (ManifestPath :> c2)}
MCInitialTarget == (p1 :> c1) @@ (p2 :> c1)

Symmetry == Permutations(SnapIDs)
=============================================================================
