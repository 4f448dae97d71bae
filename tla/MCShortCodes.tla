---------------------------- MODULE MCShortCodes ----------------------------
EXTENDS ShortCodes, TLC

Symmetry == Permutations(Sessions) \union Permutations(Codes)

\* A table of four codes that TLC can take fairness over: codes are drawn in one order (any
\* order is a renaming of it), and those after the second only for the circle of waiters,
\* by overrides on the database's clock while the first two are rows of their pair and one
\* of these is deleted as of a time ahead.  Nothing but arrivals, which nothing makes
\* happen, is left out.
Turn == CHOOSE f \in [Codes -> 1..Cardinality(Codes)] :
          \A c, d \in Codes : c # d => f[c] # f[d]
Early == {c \in Codes : Turn[c] <= 2}
InOrder(j) == j.kind = "issue" => \A c \in Codes : Turn[c] < Turn[j.code] => ~Fresh(c)
ForCircle(j) == /\ j.kind = "issue" /\ j.override /\ j.time = now
                /\ \A c \in Early : latest[c].status # "absent" /\ latest[c].pair = j.pair
                /\ \E c \in Codes : committed[c].deleted > now
FewArrivals ==
  \A s \in Sessions : pc[s] = "idle" /\ pc'[s] # "idle" =>
    InOrder(job'[s]) /\ (job'[s].code \in Early \/ ForCircle(job'[s]))
=============================================================================
