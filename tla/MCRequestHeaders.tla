------------------------- MODULE MCRequestHeaders -------------------------
(* Metadata below, at and above the capacities, with each kind of key and  *)
(* value behind it.                                                        *)
EXTENDS RequestHeaders

Entry(key, values) == [key |-> key, values |-> values]

MCMetadata ==
    {<<Entry("plain", [i \in 1 .. n |-> "text"]), Entry(k, vs)>>:
        n \in {0, 1, 2, 9, 10, 11}, k \in Keys,
        vs \in UNION {[1 .. m -> Values]: m \in 0 .. 2}}

\* infFuture, past and future times; the clock starts at 1.
MCTimeoutArgs == {LongMax, LongMin, 0, 1, 2, 5, 12, 25, 60}

=============================================================================
