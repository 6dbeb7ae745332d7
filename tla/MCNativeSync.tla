---------------------------- MODULE MCNativeSync ----------------------------
(* Two devices; the first owns a file.                                     *)
EXTENDS NativeSyncProperties

CONSTANTS d1, d2, m1

MCOwner == [m \in Doc |-> d1]
\* memories of one part and of two parts, a blank one, and one held back
MCPartsOf == [short |-> 1, brief |-> 1, long |-> 2, blank |-> 0, held |-> 1]
MCParts == [c \in Content |-> MCPartsOf[c]]
MCBlocked == {"held"} \cap Content
=============================================================================
