----------------------------- MODULE MCDirtyIndex -----------------------------
(* Instances of DirtyIndex for the model checker. *)
EXTENDS DirtyIndexProperties

CONSTANTS x, y

\* x is made, changed or deleted and made again; y is there and may be deleted.
TwiceAndOnce == [i \in Items |-> IF i = x THEN 2 ELSE 1]
\* A repair of y is due already: with two more lines the marker is too long.
OneLine == [i \in Items |-> IF i = x THEN 0 ELSE 1]
=============================================================================
