---------------------------- MODULE MCIgdbClient ----------------------------
(* IgdbClient on a small instance: callers whose context is alike, and        *)
(* tokens, are interchangeable.  Not used where liveness is checked.          *)
EXTENDS IgdbClient

Symmetry == Permutations(Cancellable) \cup Permutations(Proc \ Cancellable)
            \cup Permutations(Token)
=============================================================================
