-------------------------------- MODULE Seam --------------------------------
(***************************************************************************)
(* The joint of two consecutive daily shards: the checks the audit and     *)
(* renko-continuity-check share, and the verdict of the latter.  The       *)
(* tolerances absorb floating point and timestamp rounding; prices and     *)
(* times are integers here and the bands are zero.                         *)
(***************************************************************************)
EXTENDS S10

CONSTANT WarnGap   \* a joint of bricks wider than this is a large gap

\* Mutant: only the joints of neighbouring days.
JointsAdjacent(shards) ==
  {<<Last(shards[d]), Head(shards[d + 1])>> :
     d \in {e \in DOMAIN shards : e + 1 \in DOMAIN shards /\ shards[e] # <<>> /\ shards[e + 1] # <<>>}}

\* The last row of a shard and the first of the next one that has rows.
Joints(shards) ==
  LET full == {d \in DOMAIN shards : shards[d] # <<>>}
      next == {p \in full \X full : p[1] < p[2] /\ \A d \in full : d <= p[1] \/ p[2] <= d}
  IN {<<Last(shards[p[1]]), Head(shards[p[2]])>> : p \in next}

RenkoViolated(a, b) == b.o # a.c
S10Violated(a, b)   == b.t1 - a.t1 # Bar
WideGap(a, b)       == LET gap == b.t0 - a.t1 IN gap > WarnGap \/ -gap > WarnGap

\* renko-continuity-check of one ticker.
ContinuityCode(renko, s10) ==
  IF \/ \E j \in Joints(renko) : RenkoViolated(j[1], j[2])
     \/ \E j \in Joints(s10) : S10Violated(j[1], j[2])
  THEN 2
  ELSE IF \E j \in Joints(renko) : WideGap(j[1], j[2]) THEN 1 ELSE 0
=============================================================================
