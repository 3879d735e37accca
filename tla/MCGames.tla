------------------------------ MODULE MCGames ------------------------------
(* Small instances of Games for TLC. *)
EXTENDS Games, TLC

\* Nothing distinguishes the start chains before they begin.
Symmetry == Permutations(Chains)

\* A bound: in one behaviour either a list is scrolled or games are stored and
\* loaded.  Both read the table and neither changes it, so neither notices the
\* other; and games do not look at keys, so one key is enough for them.
OneActivity ==
  \/ \A g \in Chains: stage[g] = "none"
  \/ list.done /\ list.offset = 0 /\ \A id \in DOMAIN words: words[id] = Min(Keys)

MCSpec == Init /\ [][Next /\ OneActivity']_vars
=============================================================================
