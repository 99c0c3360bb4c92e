------------------------------- MODULE MCPanel -------------------------------
(* The tabs of the panel on a small instance. *)
EXTENDS Panel, TLC

CONSTANTS s1, s2, r1, r2, a, b, other, d, f, up, g1, g2, w1, w2, title, track, user

MCSlots == {s1, s2}
MCRows == {r1, r2}
MCKeys == {a, b}
MCKnown == {a}
MCGroups == {g1, g2}
MCWeights == {w1, w2}
MCTitles == {title}

\* Lines of a file: known fields a and b, and what is not a field.
L(k, v) == [key |-> k, value |-> v]
MCFiles == {<<>>, <<L(other, 0), L(a, 1), L(b, 0)>>, <<L(a, 0), L(a, 1)>>}

\* A file f in a directory d; what may be given as a name.
MCNames == {d, f}
MCGiven == {<<f>>, <<up, f>>}
MCTree == (<<>> :> "dir") @@ (<<d>> :> "dir") @@ (<<d, f>> :> "text")
MCSetups == {[root |-> <<>>, sudo |-> TRUE], [root |-> <<d>>, sudo |-> FALSE]}

\* The track has a group with a weight.
MCApi == {(g1 :> {w1}) @@ (g2 :> {}) @@ (track :> <<g1>>) @@ (user :> {})}
=============================================================================
