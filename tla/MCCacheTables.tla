--------------------------- MODULE MCCacheTables ---------------------------
(* Three prompts in a row: each is close to its neighbour, the middle one   *)
(* is equally close to both ends, and one pair of neighbours is vetoed.     *)
EXTENDS CacheTables, TLC

CONSTANTS p1, p2, p3

MCScore ==
  [pq \in {p1, p2, p3} \X {p1, p2, p3} |->
     IF pq[1] = pq[2] THEN 3 ELSE IF p2 \in {pq[1], pq[2]} THEN 2 ELSE 1]

MCVetoed == {<<p2, p3>>, <<p3, p2>>}

Symmetry == Permutations(Users) \cup Permutations(Models)

=============================================================================
