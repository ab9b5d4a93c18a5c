--------------------------- MODULE MCScopeAttestor ---------------------------
(* Small repositories for the attestor's runs. *)
EXTENDS ScopeAttestor

\* Contents 1 and 2 are too different for a rename.
SameContent == {<<1, 1>>, <<2, 2>>}

\* Three default commits; the later ones change the source file.
SourceAndNotes == {"source", "notes"}
SourceContents == [source |-> {0, 1, 2}, notes |-> {0, 1}]
SourceTrees == <<[source |-> 1, notes |-> 0], [source |-> 2, notes |-> 0],
                 [source |-> 1, notes |-> 0]>>

\* A source file, and the runner's own state file below .pi/pipeline/.
SourceAndState == {"source", "state"}
StateContents == [source |-> {0, 1, 2}, state |-> {0, 1}]
StateTrees == <<[source |-> 1, state |-> 0]>>
=============================================================================
