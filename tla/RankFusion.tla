------------------------------ MODULE RankFusion ------------------------------
(***************************************************************************)
(* Reciprocal-rank fusion of two rankings of chunks, _rrf of               *)
(* retrieval/user_scoped.py.  A ranking is a sequence without repetitions. *)
(* A score is a fraction, kept as <<numerator, denominator>>, so that      *)
(* scores compare exactly.                                                 *)
(***************************************************************************)
EXTENDS Naturals, Sequences, SequencesExt

RRF_K == 60

Ranked(q, x) == x \in Range(q)
Rank(q, x) == CHOOSE i \in DOMAIN q : q[i] = x

\* Mutant of Score: the second ranking overwrites what the first one gave.
Score_Overwritten(d, s, x) == <<1, RRF_K + Rank(IF Ranked(s, x) THEN s ELSE d, x)>>

\* The sum of 1 / (RRF_K + rank) over the rankings that have x.
Score(d, s, x) ==
    LET a == RRF_K + Rank(d, x)
        b == RRF_K + Rank(s, x)
    IN  IF Ranked(d, x) /\ Ranked(s, x) THEN <<a + b, a * b>>
        ELSE IF Ranked(d, x) THEN <<1, a>> ELSE <<1, b>>

Exceeds(p, q) == p[1] * q[2] > q[1] * p[2]

\* The dict keeps the order in which chunks are first met, and sorted is stable.
FirstMet(d, s, x) == IF Ranked(d, x) THEN Rank(d, x) ELSE Len(d) + Rank(s, x)
Before(d, s, x, y) ==
    \/ Exceeds(Score(d, s, x), Score(d, s, y))
    \/ /\ ~Exceeds(Score(d, s, y), Score(d, s, x))
       /\ FirstMet(d, s, x) < FirstMet(d, s, y)

rrf(d, s) ==
    CHOOSE q \in SetToSeqs(Range(d) \cup Range(s)) :
        \A i, j \in DOMAIN q : i < j => Before(d, s, q[i], q[j])

\* The rankings of at most n members of S.
Rankings(S, n) ==
    {q \in UNION {[1..m -> S] : m \in 0..n} : IsInjective(q)}
=============================================================================
