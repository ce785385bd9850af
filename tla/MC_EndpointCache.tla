--------------------------- MODULE MC_EndpointCache ---------------------------
(* Small instances of EndpointCache for TLC. *)
EXTENDS EndpointCache, TLC

\* Lists without duplicates, one of them unsorted.
MCLists == {<<>>, <<1>>, <<2, 1>>}

\* Discovery backends may report one instance string twice: two registrations
\* with the same data.
MCDuplicateLists == {<<>>, <<1>>, <<1, 1>>}

MCSymmetry == Permutations(Readers)
=============================================================================
