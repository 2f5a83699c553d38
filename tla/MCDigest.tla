------------------------------ MODULE MCDigest ------------------------------
EXTENDS Digest, TLC

\* Days of three slots, the first one a Thursday: the daily digest is due in the
\* second, on 1-5, the weekly one in each of them, 1 and */2, on 5.
Number(n)   == [base |-> "number", from |-> n, to |-> n, step |-> 0]
Span(a, b)  == [base |-> "range", from |-> a, to |-> b, step |-> 0]
Steps(n)    == [base |-> "star", from |-> 0, to |-> 0, step |-> n]

MCDaily  == [hour |-> {Number(1)}, weekday |-> {Span(1, 5)}]
MCWeekly == [hour |-> {Number(1), Steps(2)}, weekday |-> {Number(5)}]

\* The first session is in the timezone the slots are counted in, others are one
\* slot ahead.
MCOffset == [s \in Sessions |-> IF s = CHOOSE x \in Sessions : TRUE THEN 0 ELSE 1]

Symmetry == Permutations(Workers)
=============================================================================
