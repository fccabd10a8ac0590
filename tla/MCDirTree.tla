----------------------------- MODULE MCDirTree -----------------------------
(* DirTree on a small tree. *)
EXTENDS DirTree

CONSTANTS MaxDirs,  \* bound on the directories there are
          MaxFiles  \* bound on the feeds of files, those marked deleted included

\* Names and contents are interchangeable.
Symmetries == Permutations(DirNames) \cup Permutations(Blobs)

\* Behaviours are followed until a directory below another was removed, or a
\* directory moved and a backup left half-way: the step that does it is checked.
Bounds ==
    /\ past \in {{}, {"moved"}, {"backup"}}
    /\ Cardinality({p \in DirPaths : IsDir(p)}) <= MaxDirs
    /\ Cardinality({p \in FilePaths : fs.meta[p] # Absent}) <= MaxFiles
=============================================================================
