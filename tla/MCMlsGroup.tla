----------------------------- MODULE MCMlsGroup -----------------------------
(* Small instances of MlsGroup for TLC.                                    *)
EXTENDS MlsGroup

CONSTANTS r1, r2, m1, s1, s2, x1

Plain(epoch) ==
    [epoch |-> epoch, suite |-> None, supported |-> TRUE, secret |-> None,
     added |-> {}, removed |-> {}]

(* A change of suite, one with a new secret, one with an unknown hash.     *)
ForeignCommits ==
    {[Plain(1) EXCEPT !.suite = s2],
     [Plain(2) EXCEPT !.secret = x1],
     [Plain(2) EXCEPT !.suite = s2, !.supported = FALSE, !.added = {m1}]}
=============================================================================
