----------------------------- MODULE MCHookBatch -----------------------------
EXTENDS HookBatch

\* A critical hook, one that may break off half-way, and one that works on a
\* file of the first and on one that was there before.
MCProgram == [h \in Hooks |->
    CASE h = "unit"   -> <<Touch("stamp"), Move("data", "moved")>>
      [] h = "cache"  -> <<Link("alias"), Touch("flag")>>
      [] h = "common" -> <<Touch("stamp"), Touch("conf")>>]

MCEarlier == <<[Touch("record") EXCEPT !.created = TRUE], Link("entry")>>

MCRan == [n \in 0 .. Len(MCEarlier) |-> FoldLeft(After, Initially, SubSeq(MCEarlier, 1, n))]
=============================================================================
