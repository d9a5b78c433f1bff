------------------------------- MODULE Tables -------------------------------
(***************************************************************************)
(* Tables: functions that are written down entry by entry.  (The operators *)
(* of TLC of this kind have no definition that a proof could use.)         *)
(***************************************************************************)

\* The table of one entry, and one table laid over another.
At(x, v) == [y \in {x} |-> v]
top ++ below ==
    [x \in DOMAIN top \cup DOMAIN below |-> IF x \in DOMAIN top THEN top[x] ELSE below[x]]
=============================================================================
