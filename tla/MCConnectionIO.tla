--------------------------- MODULE MCConnectionIO ---------------------------
(***************************************************************************)
(* A buffer of two bytes, chunks of up to three, and a budget of three     *)
(* bytes or two reads for the drain.                                       *)
(***************************************************************************)
EXTENDS ConnectionIO

MCDeadlines == {0, 3}

\* Two chunks that need a flush between them, and a chunk longer than the
\* buffer behind a short one.
MCRequests == {<<1, 2>>, <<1, 3>>}

=============================================================================
