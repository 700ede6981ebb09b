-------------------------- MODULE MCCanonicalImport --------------------------
EXTENDS CanonicalImport

MCIsCard == [k \in Keys |-> k = "gpu"]
S(core, extra) == [f \in Fields |-> IF f = "core" THEN core ELSE extra]
Row(key, specs) == [key |-> key, gpu |-> MCIsCard[key], branded |-> TRUE, bundle |-> FALSE, target |-> "match",
                    offTier |-> FALSE, adapted |-> FALSE, ready |-> "unstated", specs |-> specs, inferred |-> {}]

\* A full processor, one with another socket and a card; the same from the adapter,
\* where specs are missing or inferred; a bundle; a card without a brand.
MCDatasets ==
    {<<Row("cpu", S(1, 1))>>, <<Row("gpu", S(1, 0))>>,
     <<Row("cpu", S(2, 1))>>,
     <<[Row("cpu", S(1, 0)) EXCEPT !.adapted = TRUE, !.ready = "no"]>>,
     <<[Row("gpu", S(1, 2)) EXCEPT !.adapted = TRUE, !.ready = "no", !.inferred = {"core"}]>>,
     <<[Row("cpu", S(1, 1)) EXCEPT !.bundle = TRUE]>>,
     <<[Row("gpu", S(1, 0)) EXCEPT !.branded = FALSE]>>}
MCConfirmed == {S(1, 1), S(2, 0)}
MCFixture == [k \in Keys |-> IF k = "cpu" THEN S(1, 1) ELSE S(0, 1)]
SameNames == Permutations(Ops) \cup Permutations(Sources)
=============================================================================
